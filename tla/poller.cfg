SPECIFICATION FairSpec
CONSTANTS
  NULL = NULL
  s1 = s1
  s2 = s2
  d1 = d1
  d2 = d2
  SIGUSR1 = SIGUSR1
  Source = {s1, s2}
  Fd = {d1, d2}
  Signal = {SIGUSR1}
  PollFlag = {"POLLOUT"}
  PipeSize = 1
INVARIANTS PollsExactlyLive
  CallbackGetsOwnEvents
PROPERTIES SignalServed
  SourceServed
