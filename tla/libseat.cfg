SPECIFICATION FairSpec
CONSTANTS
  UserRequest = {"OPEN_DEVICE","CLOSE_DEVICE","SWITCH_SESSION"}
  PeerFails = TRUE
  Backlog = 4
  LIBSEAT_BACKEND = {"unset", "noop"}
INVARIANTS RepliesMatch
  QueuedEventsWakeUser
  DisableNotLost
  AckAccepted
  LogindAgrees
PROPERTIES DisableAnswered
  PauseAnswered
  EnableDelivered
