--------------------------- MODULE LibseatProofs ----------------------------
(***************************************************************************)
(* The safety of the seatd and logind backends of libseat, for users that  *)
(* make any of the requests and whatever backends libseat_open_seat tries. *)
(* The invariant has one part for each thing a backend has to keep track   *)
(* of: the call that waits, the disable event that is under way, the ping  *)
(* that will wake the user, and what the user believes of the seat.        *)
(***************************************************************************)
EXTENDS Libseat, TLAPS

-----------------------------------------------------------------------------
(***************************************************************************)
(* Queues.                                                                 *)
(***************************************************************************)

\* Queue q holds one message of M and otherwise messages of B alone.
OneAmong(q, M, B) ==
  \E k \in 1..Len(q) :
    q[k] \in M /\ \A i \in 1..Len(q) : i # k => q[i] \in B

\* Queue q ends with request r; only pings come before it.
EndsWith(q, r) ==
  /\ Len(q) > 0 /\ q[Len(q)] = r
  /\ \A i \in 1..Len(q) : i # Len(q) => q[i] = "PING"

\* Message m is in queue q at most once.
AtMostOnce(q, m) == \A i, j \in 1..Len(q) : q[i] = m /\ q[j] = m => i = j

\* The last message of queue q that is in R is in S.
LastIn(q, R, S) ==
  \E k \in 1..Len(q) :
    /\ q[k] \in R /\ q[k] \in S
    /\ \A i \in 1..Len(q) : i > k => q[i] \notin R

\* Queue q has no message of R.
Without(q, R) == \A i \in 1..Len(q) : q[i] \notin R

-----------------------------------------------------------------------------
(***************************************************************************)
(* The invariant.                                                          *)
(***************************************************************************)
UserRequests == {"OPEN_DEVICE", "CLOSE_DEVICE", "SWITCH_SESSION"}
SeatdCall == UserRequests \cup {"DISABLE_SEAT", "CLOSE_SEAT", "OPEN_SEAT"}
LogindCall == UserRequests \cup {"CLOSE_SEAT", "GET_ACTIVE", "TAKE_CONTROL", "PAUSE_COMPLETE"}

\* What seatd sends unasked, or in answer to a ping, and what it replies.
Background == Event \cup {"PONG"}
SeatdReply ==
  {"SEAT_OPENED", "SEAT_CLOSED", "DEVICE_OPENED", "DEVICE_CLOSED", "SESSION_SWITCHED",
   "SEAT_DISABLED", "ERROR"}

\* What logind sends that is no reply, and the part that is about the seat.
Signal == {"Active", "Inactive", "Invalidated", "PauseDevice", "ForceDevice", "Pong"}
LogindReply == {"Reply", "GotActive", "GotInactive"}
SeatSignal == {"Active", "Inactive", "Invalidated", "PauseDevice"}

\* Nothing is open: the queues are empty and no call is in progress.
NothingOpen ==
  /\ call = "none" /\ cb = "none" /\ batch = <<>> /\ app = Unused
  /\ sock = <<>> /\ inbuf = <<>> /\ out = <<>>

\* What each backend may be doing, and that a backend that is not in use
\* holds nothing.
ThreadInv ==
  /\ impl \in {"none", "seatd", "logind", "noop"}
  /\ app \in [enabled : BOOLEAN, owes : BOOLEAN]
  /\ active \in BOOLEAN /\ granted \in BOOLEAN /\ initial_setup \in BOOLEAN
  /\ impl # "seatd" => pending = <<>> /\ ~awaiting_pong /\ error = "none" /\ st = "none" /\ ~joined
  /\ impl # "logind" => pausing = "no"
  /\ impl \in {"none", "seatd"} => ~initial_setup
  /\ impl = "none" => at \in {"closed", "opening"} /\ NothingOpen
  /\ impl = "noop" => /\ at \in {"opened", "idle"} /\ call = "none" /\ batch = <<>>
                      /\ sock = <<>> /\ inbuf = <<>> /\ out = <<>>
  /\ impl # "none" => at # "closed"

SeatdTypes ==
  impl = "seatd" =>
    /\ call \in Api \cup {"none", "check"}
    /\ sock \in Seq(Background \cup SeatdReply) /\ inbuf \in Seq(Background \cup SeatdReply)
    /\ pending \in Seq(Event) /\ batch \in Seq(Event)
    /\ out \in Seq(SeatdCall \cup {"PING"})
    /\ st \in {"none", "NEW", "ACTIVE", "PENDING_DISABLE", "DISABLED", "CLOSED"}
    /\ awaiting_pong \in BOOLEAN /\ joined \in BOOLEAN
    /\ st \in {"none", "CLOSED"} => ~joined

\* The replies that may come for call c.
Answers(c) == IF c = "DISABLE_SEAT" THEN {"SEAT_DISABLED"} ELSE {ReplyTo(c), "ERROR"}

\* With out, sock and inbuf o, s and i, call c gets its answer: its request is
\* the last message on its way and no reply is, or one reply is, and it is
\* one the call can take; or seatd has gone.
Awaits(c, o, s, i, t) ==
  \/ EndsWith(o, c) /\ s \in Seq(Background) /\ i \in Seq(Background)
  \/ o = <<>> /\ OneAmong(s, Answers(c), Background) /\ i \in Seq(Background)
  \/ o = <<>> /\ s \in Seq(Background) /\ OneAmong(i, Answers(c), Background)
  \/ o = <<>> /\ s \in Seq(Background) /\ i \in Seq(Background) /\ t = "none"

\* No request and no reply is under way.
Quiet(o, s, i) == o \in Seq({"PING"}) /\ s \in Seq(Background) /\ i \in Seq(Background)

\* A call that waits gets its answer, and otherwise there is none to come.
RepliesInv ==
  impl = "seatd" =>
    /\ error \in {"none", "EPIPE"}
    /\ error # "none" => call = "none"
    /\ error = "none" /\ call \notin Api => Quiet(out, sock, inbuf)
    /\ call \in Api => Awaits(call, out, sock, inbuf, st)

\* A list of events is run to its end before the library goes on, and the
\* calls that change where the library is are made where they may be.
BatchInv ==
  impl = "seatd" =>
    /\ at \notin {"pre", "post", "open", "close"} => batch = <<>>
    /\ call = "CLOSE_SEAT" => at \in {"opened", "idle"}
    /\ call = "OPEN_SEAT" => at = "opening"

\* At most one of six.
Alone(a, b, c, d, e, f) ==
  /\ a => ~(b \/ c \/ d \/ e \/ f)
  /\ b => ~(c \/ d \/ e \/ f)
  /\ c => ~(d \/ e \/ f)
  /\ d => ~(e \/ f)
  /\ e => ~f

Asks(q) == Has(q, "DISABLE_SEAT")
AsksOnce(q) == AtMostOnce(q, "DISABLE_SEAT")

\* A disable event, or the ack of it, is in one place, and only while seatd
\* waits for it or does not care any more; and while seatd waits it is in
\* one place.
DisableInv ==
  impl = "seatd" =>
    /\ AsksOnce(sock) /\ AsksOnce(inbuf) /\ AsksOnce(pending) /\ AsksOnce(batch) /\ AsksOnce(out)
    /\ Alone(Asks(sock), Asks(inbuf), Asks(pending), Asks(batch), Asks(out), app.owes)
    /\ Asks(sock) \/ Asks(inbuf) \/ Asks(pending) \/ Asks(batch) \/ Asks(out) \/ app.owes
         => st \in {"PENDING_DISABLE", "CLOSED", "none"}
    /\ st = "PENDING_DISABLE" /\ error = "none" =>
         Asks(sock) \/ Asks(inbuf) \/ Asks(pending) \/ Asks(batch) \/ Asks(out) \/ app.owes

\* Outside of calls a dispatched seat has read what it has, and an event that
\* a call has queued is followed by a ping.
WakeInv ==
  impl = "seatd" /\ error = "none" =>
    /\ at \in {"pre", "post", "idle"} /\ call = "none" => inbuf = <<>>
    /\ at \in {"pre", "post", "idle"} /\ call = "none" /\ st # "none" /\ pending # <<>> => awaiting_pong
    /\ awaiting_pong /\ st # "none" => Has(out, "PING") \/ Has(sock, "PONG") \/ Has(inbuf, "PONG")

\* The replies of logind, as in RepliesInv: sd-bus never queues one.
LogindReplies(c) ==
  IF c = "GET_ACTIVE" THEN {"GotActive", "GotInactive"} ELSE {"Reply"}
LogindInv ==
  impl = "logind" =>
    /\ at \in {"opening", "opened", "idle", "process", "paused", "close"}
    /\ at = "opening" => call \in {"GET_ACTIVE", "TAKE_CONTROL"}
    /\ call = "TAKE_CONTROL" => at = "opening"
    /\ call = "GET_ACTIVE" => at \in {"opening", "process"}
    /\ call = "PAUSE_COMPLETE" => at = "process"
    /\ call \in LogindCall \cup {"none"}
    /\ inbuf \in Seq(Signal)
    /\ sock \in Seq(Signal \cup LogindReply) /\ out \in Seq(LogindCall \cup {"PING"})
    /\ call = "none" => sock \in Seq(Signal) /\ out \in Seq({"PING"})
    /\ call # "none" =>
         \/ EndsWith(out, call) /\ sock \in Seq(Signal)
         \/ out = <<>> /\ OneAmong(sock, LogindReplies(call), Signal)

\* An open seat on which no call waits has nothing queued, or is woken.
LogindWakeInv ==
  impl = "logind" /\ at \in {"opened", "idle"} /\ call = "none" =>
    inbuf = <<>> \/ sock # <<>> \/ Has(out, "PING")

\* The signals that agree with what logind has decided.
Current == {IF granted THEN "Active" ELSE "Inactive", "Invalidated"}
             \cup IF pausing = "no" THEN {} ELSE {"PauseDevice"}

\* With no signal to handle, the answer that is awaited agrees with logind, or
\* the backend does, unless logind has paused a device.
Settled ==
  \/ call = "GET_ACTIVE" /\ EndsWith(out, "GET_ACTIVE")
  \/ call = "GET_ACTIVE" /\ Has(sock, Got(granted))
  \/ call # "GET_ACTIVE" /\ (active = granted \/ pausing # "no")

\* The last signal about the seat that has not been handled agrees with
\* logind.
Corrected ==
  \/ LastIn(sock, SeatSignal, Current)
  \/ Without(sock, SeatSignal) /\ LastIn(inbuf, SeatSignal, Current)
  \/ Without(sock, SeatSignal) /\ Without(inbuf, SeatSignal) /\ Settled

\* The user holds what the backend holds, and that is what logind decided or
\* is about to be corrected.
BeliefInv ==
  impl = "logind" =>
    /\ at \in {"idle", "process", "paused"} => ~initial_setup
    /\ ~initial_setup /\ at # "opening" => app.enabled = active
    /\ Corrected

-----------------------------------------------------------------------------
(***************************************************************************)
(* Threads.                                                                *)
(***************************************************************************)

\* A request is one of the calls of the seatd backend.
LEMMA ApiCalls == Api \subseteq SeatdCall
BY RequestAssumption DEF Api, SeatdCall, UserRequests

\* A backend's steps leave the seat with that backend or close it.
LEMMA BackendsApart ==
  /\ SeatdNext => impl = "seatd" /\ impl' \in {"seatd", "none"}
  /\ LogindNext => impl = "logind" /\ impl' \in {"logind", "none"}
<1>1. SeatdUser \/ SeatdLibrary => impl = "seatd" /\ impl' \in {"seatd", "none"}
  <2>1. SeatdUser => impl = "seatd" /\ impl' = impl
    BY DEF SeatdUser, Request, RequestAfterError, Dispatch
  <2>2. SeatdLibrary => impl = "seatd" /\ impl' \in {"seatd", "none"}
    BY DEF SeatdLibrary, AwaitReply, DispatchRead, ReadBackground, ReadReply, Reading,
           check_pending_events, execute_events, RunEvent, DispatchReturns, OpenReturns,
           close_seat, OpenFailed, Executed, Closed, threadVars
  <2> QED
    BY <2>1, <2>2
<1>2. SeatdServer \/ client_send_enable_seat \/ client_send_disable_seat \/ SeatdDies
        => impl = "seatd" /\ impl' = impl
  BY DEF SeatdServer, Serve, handle_ping, handle_open_seat, handle_close_seat,
         handle_disable_seat, handle_device, handle_switch_session, client_destroy, SeatdDies,
         client_send_enable_seat, client_send_disable_seat, Ends, Peer, libraryVars, threadVars
<1>3. LogindUser \/ LogindLibrary => impl = "logind" /\ impl' \in {"logind", "none"}
  <2>1. LogindUser => impl = "logind" /\ impl' = impl
    BY DEF LogindUser, LogindRequest, disable_seat, dispatch_and_execute, threadVars
  <2>2. sd_bus_process => impl = "logind" /\ impl' = impl
    BY DEF sd_bus_process, Processing, Process
  <2>3. LogindLibrary => impl = "logind" /\ impl' \in {"logind", "none"}
    BY <2>2 DEF LogindLibrary, QueueMessage, CallReturns, PauseDeviceComplete, ProcessReturns,
           LogindClosed, Processing, Closed, threadVars
  <2> QED
    BY <2>1, <2>3
<1>4. LogindServes \/ LogindPauses \/ LogindSwitches => impl = "logind" /\ impl' = impl
  BY DEF LogindServes, LogindPauses, LogindSwitches, Room, userVars, threadVars
<1> QED
  BY <1>1, <1>2, <1>3, <1>4 DEF SeatdNext, LogindNext

User == [enabled : BOOLEAN, owes : BOOLEAN]

\* What the user knows stays well-formed.
LEMMA UserType ==
  ASSUME app \in User, NEW e, NEW r
  PROVE  Told(e) \in User /\ Asked(r) \in User /\ Unused \in User
BY DEF User, Told, Asked, Unused

\* A step of the seatd backend keeps ThreadInv.
LEMMA SeatdThread ==
  ASSUME ThreadInv, SeatdNext, UNCHANGED logindVars
  PROVE  ThreadInv'
<1>1. impl = "seatd" /\ at # "closed" /\ app \in User /\ pausing' = "no"
      /\ active' \in BOOLEAN /\ granted' \in BOOLEAN /\ initial_setup' \in BOOLEAN
      /\ initial_setup' = initial_setup
  BY BackendsApart DEF ThreadInv, User, logindVars
<1>2. ASSUME impl' = "seatd", at' # "closed", app' \in User PROVE ThreadInv'
  BY <1>1, <1>2 DEF ThreadInv, User
<1>3. SeatdUser => impl' = "seatd" /\ at' # "closed" /\ app' \in User
  BY <1>1, UserType DEF SeatdUser, Request, RequestAfterError, Dispatch
<1>4. SeatdServer \/ client_send_enable_seat \/ client_send_disable_seat \/ SeatdDies
        => impl' = "seatd" /\ at' # "closed" /\ app' \in User
  BY <1>1 DEF SeatdServer, Serve, handle_ping, handle_open_seat, handle_close_seat,
         handle_disable_seat, handle_device, handle_switch_session, client_destroy, SeatdDies,
         client_send_enable_seat, client_send_disable_seat, Ends, Peer, libraryVars, threadVars
<1>5. ASSUME NEW n, AwaitReply(n) \/ DispatchRead(n)
      PROVE  impl' = "seatd" /\ at' # "closed" /\ app' \in User
  BY <1>1, <1>5 DEF AwaitReply, DispatchRead, Failed, Executed
<1>6. ReadBackground \/ ReadReply \/ check_pending_events \/ execute_events
        => impl' = "seatd" /\ at' # "closed" /\ app' \in User
  BY <1>1 DEF ReadBackground, ReadReply, check_pending_events, execute_events, Failed, threadVars
<1>7. RunEvent \/ DispatchReturns \/ OpenReturns
        => impl' = "seatd" /\ at' # "closed" /\ app' \in User
  BY <1>1, UserType DEF RunEvent, Deliver, DispatchReturns, OpenReturns
<1>8. ASSUME close_seat \/ OpenFailed PROVE ThreadInv'
  <2>1. at' \in {"closed", "opening"} /\ impl' = "none" /\ call' = "none" /\ cb' = "none"
        /\ batch' = <<>> /\ app' = Unused /\ sock' = <<>> /\ inbuf' = <<>> /\ out' = <<>>
        /\ pending' = <<>> /\ awaiting_pong' = FALSE /\ error' = "none"
        /\ st' = "none" /\ joined' = FALSE
    BY <1>8 DEF close_seat, OpenFailed, Closed, Destroyed
  <2> QED
    BY <2>1, <1>1, UserType DEF ThreadInv, User, NothingOpen
<1> QED
  BY <1>2, <1>3, <1>4, <1>5, <1>6, <1>7, <1>8 DEF SeatdNext, SeatdLibrary

\* A step of the logind backend keeps ThreadInv.
LEMMA LogindThread ==
  ASSUME ThreadInv, LogindNext, UNCHANGED seatdVars
  PROVE  ThreadInv'
<1>1. impl = "logind" /\ at # "closed" /\ app \in User
      /\ active \in BOOLEAN /\ granted \in BOOLEAN /\ initial_setup \in BOOLEAN
      /\ UNCHANGED <<pending, awaiting_pong, error, st, joined>>
      /\ pending = <<>> /\ ~awaiting_pong /\ error = "none" /\ st = "none" /\ ~joined
  BY BackendsApart DEF ThreadInv, User, seatdVars
<1> DEFINE Typed == /\ app' \in User /\ active' \in BOOLEAN /\ granted' \in BOOLEAN
                    /\ initial_setup' \in BOOLEAN
<1>2. ASSUME impl' = "logind", at' # "closed", Typed PROVE ThreadInv'
  BY <1>1, <1>2 DEF ThreadInv, User
<1>3. LogindUser => impl' = "logind" /\ at' # "closed" /\ Typed
  BY <1>1, UserType
  DEF LogindUser, LogindRequest, disable_seat, dispatch_and_execute, Deliver, threadVars, logindVars
<1>4. LogindServes \/ LogindPauses \/ LogindSwitches => impl' = "logind" /\ at' # "closed" /\ Typed
  BY <1>1 DEF LogindServes, LogindPauses, LogindSwitches, userVars, threadVars
<1>5. \A v \in BOOLEAN : set_active(v) => app' \in User /\ active' \in BOOLEAN
  BY <1>1, UserType DEF set_active, Deliver
<1>6. CallReturns => impl' = "logind" /\ at' # "closed" /\ Typed
  <2> SUFFICES ASSUME CallReturns PROVE impl' = "logind" /\ at' # "closed" /\ Typed
    OBVIOUS
  <2>1. impl' = "logind" /\ granted' = granted
    BY <1>1 DEF CallReturns
  <2>2. at' # "closed" /\ initial_setup' \in BOOLEAN
    BY <1>1 DEF CallReturns
  <2>3. app' \in User /\ active' \in BOOLEAN
    BY <1>1, <1>5 DEF CallReturns
  <2> QED
    BY <1>1, <2>1, <2>2, <2>3
<1>7. sd_bus_process => impl' = "logind" /\ at' # "closed" /\ Typed
  <2> SUFFICES ASSUME NEW m, Process(m) PROVE impl' = "logind" /\ at' # "closed" /\ Typed
    BY DEF sd_bus_process
  <2>1. impl' = "logind" /\ granted' = granted /\ initial_setup' = initial_setup /\ at' # "closed"
    BY <1>1 DEF Process
  <2>2. app' \in User /\ active' \in BOOLEAN
    BY <1>1, <1>5 DEF Process
  <2> QED
    BY <1>1, <2>1, <2>2
<1>8. QueueMessage \/ PauseDeviceComplete \/ ProcessReturns => impl' = "logind" /\ at' # "closed" /\ Typed
  BY <1>1 DEF QueueMessage, PauseDeviceComplete, ProcessReturns, threadVars, logindVars
<1>9. ASSUME LogindClosed PROVE ThreadInv'
  <2>1. at' = "closed" /\ impl' = "none" /\ call' = "none" /\ cb' = "none"
        /\ batch' = <<>> /\ app' = Unused /\ sock' = <<>> /\ inbuf' = <<>> /\ out' = <<>>
        /\ active' = FALSE /\ initial_setup' = FALSE /\ pausing' = "no" /\ granted' = granted
    BY <1>9 DEF LogindClosed, Closed
  <2> QED
    BY <2>1, <1>1, UserType DEF ThreadInv, User, NothingOpen
<1> QED
  BY <1>2, <1>3, <1>4, <1>6, <1>7, <1>8, <1>9 DEF LogindNext, LogindLibrary

\* Every step keeps ThreadInv.
LEMMA ThreadStep ==
  ASSUME ThreadInv, [Next]_vars
  PROVE  ThreadInv'
<1>1. CASE UNCHANGED vars
  BY <1>1 DEF vars, baseVars, threadVars, seatdVars, logindVars, ThreadInv, NothingOpen
<1>2. CASE \E e \in LIBSEAT_BACKEND : libseat_open_seat(e)
  BY <1>2 DEF libseat_open_seat, seatdVars, logindVars, ThreadInv, NothingOpen
<1>3. CASE TryBackend
  <2>0. at = "opening" /\ impl = "none"
    BY <1>3 DEF TryBackend
  <2>1. CASE trying = <<>>
    BY <1>3, <2>1 DEF TryBackend, seatdVars, logindVars, ThreadInv, NothingOpen
  <2>2. CASE _open_seat /\ UNCHANGED logindVars
    BY <2>0, <2>2 DEF _open_seat, logindVars, ThreadInv, NothingOpen
  <2>3. CASE logind_open_seat /\ UNCHANGED seatdVars
    BY <2>0, <2>3 DEF logind_open_seat, seatdVars, logindVars, ThreadInv, NothingOpen
  <2>4. CASE noop_open_seat /\ UNCHANGED seatdVars
    BY <2>0, <2>4 DEF noop_open_seat, seatdVars, ThreadInv, NothingOpen
  <2>5. CASE UNCHANGED <<baseVars, seatdVars, logindVars>>
    BY <2>5 DEF baseVars, threadVars, seatdVars, logindVars, ThreadInv, NothingOpen
  <2> QED
    BY <1>3, <2>1, <2>2, <2>3, <2>4, <2>5 DEF TryBackend
<1>4. CASE dispatch_background
  BY <1>4, UserType DEF dispatch_background, Deliver, seatdVars, ThreadInv, User
<1>5. CASE noop_close_seat
  BY <1>5, UserType DEF noop_close_seat, Closed, seatdVars, ThreadInv, User, NothingOpen
<1>6. CASE Return
  BY <1>6 DEF Return, CallbackReturns, seatdVars, logindVars, ThreadInv, NothingOpen
<1>7. CASE Seatd(SeatdNext)
  BY <1>7, SeatdThread DEF Seatd
<1>8. CASE Logind(LogindNext)
  BY <1>8, LogindThread DEF Logind
<1> QED
  BY <1>1, <1>2, <1>3, <1>4, <1>5, <1>6, <1>7, <1>8 DEF Next

\* The first step of the seatd backend, and a step that does not concern it.
SeatdOpens ==
  /\ at' = "opening" /\ call' = "OPEN_SEAT" /\ batch' = <<>> /\ app' = Unused
  /\ sock' = <<>> /\ inbuf' = <<>> /\ out' = <<"OPEN_SEAT">>
  /\ pending' = <<>> /\ awaiting_pong' = FALSE /\ error' = "none" /\ st' = "NEW" /\ joined' = FALSE
SeatdRests == impl = "seatd" /\ UNCHANGED <<at, call, batch, app, sock, inbuf, out, seatdVars>>

\* What happens to a seat that the seatd backend holds or gets.
LEMMA SeatdSteps ==
  ASSUME ThreadInv, [Next]_vars, impl' = "seatd"
  PROVE  SeatdOpens \/ SeatdRests \/ SeatdNext
<1>1. CASE UNCHANGED vars
  BY <1>1 DEF vars, baseVars, threadVars, SeatdRests
<1>2. CASE \E e \in LIBSEAT_BACKEND : libseat_open_seat(e)
  BY <1>2 DEF libseat_open_seat, ThreadInv
<1>3. CASE TryBackend
  <2>1. at = "opening" /\ impl = "none" /\ NothingOpen
        /\ pending = <<>> /\ ~awaiting_pong /\ error = "none"
    BY <1>3 DEF TryBackend, ThreadInv
  <2>2. CASE _open_seat
    BY <2>1, <2>2 DEF _open_seat, seatd_connect, Attach, NothingOpen, SeatdOpens
  <2> QED
    BY <1>3, <2>1, <2>2 DEF TryBackend, logind_open_seat, noop_open_seat, baseVars, threadVars
<1>4. CASE dispatch_background \/ noop_close_seat
  BY <1>4 DEF dispatch_background, noop_close_seat, Closed
<1>5. CASE Return
  BY <1>5 DEF Return, CallbackReturns, SeatdRests
<1>6. CASE Logind(LogindNext)
  BY <1>6, BackendsApart DEF Logind
<1>7. CASE Seatd(SeatdNext)
  BY <1>7 DEF Seatd
<1> QED
  BY <1>1, <1>2, <1>3, <1>4, <1>5, <1>6, <1>7 DEF Next

\* The first step of the logind backend, and a step that does not concern it.
LogindOpens ==
  /\ at' = "opening" /\ call' = "GET_ACTIVE" /\ app' = Unused
  /\ sock' = <<>> /\ inbuf' = <<>> /\ out' = <<"GET_ACTIVE">>
  /\ initial_setup' = FALSE /\ pausing' = "no"
LogindRests == impl = "logind" /\ UNCHANGED <<at, call, app, sock, inbuf, out, logindVars>>

\* What happens to a seat that the logind backend holds or gets.
LEMMA LogindSteps ==
  ASSUME ThreadInv, [Next]_vars, impl' = "logind"
  PROVE  LogindOpens \/ LogindRests \/ LogindNext
<1>1. CASE UNCHANGED vars
  BY <1>1 DEF vars, baseVars, threadVars, LogindRests
<1>2. CASE \E e \in LIBSEAT_BACKEND : libseat_open_seat(e)
  BY <1>2 DEF libseat_open_seat, ThreadInv
<1>3. CASE TryBackend
  <2>1. at = "opening" /\ impl = "none" /\ NothingOpen /\ ~initial_setup /\ pausing = "no"
        /\ initial_setup \in BOOLEAN
    BY <1>3 DEF TryBackend, ThreadInv
  <2>2. CASE logind_open_seat
    BY <2>1, <2>2 DEF logind_open_seat, NothingOpen, LogindOpens, logindVars
  <2> QED
    BY <1>3, <2>1, <2>2 DEF TryBackend, _open_seat, noop_open_seat, baseVars, threadVars
<1>4. CASE dispatch_background \/ noop_close_seat
  BY <1>4 DEF dispatch_background, noop_close_seat, Closed
<1>5. CASE Return
  BY <1>5 DEF Return, CallbackReturns, LogindRests
<1>6. CASE Seatd(SeatdNext)
  BY <1>6, BackendsApart DEF Seatd
<1>7. CASE Logind(LogindNext)
  BY <1>7 DEF Logind
<1> QED
  BY <1>1, <1>2, <1>3, <1>4, <1>5, <1>6, <1>7 DEF Next
-----------------------------------------------------------------------------
(***************************************************************************)
(* The seatd backend: types.                                               *)
(***************************************************************************)

\* What a queue of messages of S becomes.
LEMMA QueueType ==
  ASSUME NEW S, NEW q \in Seq(S)
  PROVE  /\ <<>> \in Seq(S)
         /\ q # <<>> => Head(q) \in S /\ Tail(q) \in Seq(S)
         /\ \A m \in S : Append(q, m) \in Seq(S) /\ q \o <<m>> \in Seq(S) /\ <<m>> \o q \in Seq(S)
         /\ \A m \in S, n \in S : q \o <<m, n>> \in Seq(S)
OBVIOUS

\* A read moves messages and makes none.
LEMMA ArrivesType ==
  ASSUME NEW S, sock \in Seq(S), inbuf \in Seq(S), NEW n, Arrives(n)
  PROVE  sock' \in Seq(S) /\ inbuf' \in Seq(S)
BY DEF Arrives

\* Every call has its reply.
LEMMA ReplyType ==
  ASSUME NEW r \in SeatdCall
  PROVE  ReplyTo(r) \in SeatdReply \ {"ERROR"}
BY DEF SeatdCall, UserRequests, ReplyTo, SeatdReply

\* Every step keeps the types of the seatd backend.
LEMMA SeatdTypesStep ==
  ASSUME ThreadInv, SeatdTypes, [Next]_vars
  PROVE  SeatdTypes'
<1> DEFINE In == Background \cup SeatdReply
           Out == SeatdCall \cup {"PING"}
           Doing == Api \cup {"none", "check"}
           State == {"none", "NEW", "ACTIVE", "PENDING_DISABLE", "DISABLED", "CLOSED"}
           Library == pending' \in Seq(Event) /\ batch' \in Seq(Event) /\ inbuf' \in Seq(In)
                      /\ call' \in Doing /\ awaiting_pong' \in BOOLEAN
           Server == st' \in State /\ joined' \in BOOLEAN /\ (st' \in {"none", "CLOSED"} => ~joined')
           Wire == sock' \in Seq(In) /\ out' \in Seq(Out)
<1> SUFFICES ASSUME impl' = "seatd" PROVE Library /\ Server /\ Wire
  BY DEF SeatdTypes
<1>1. CASE SeatdOpens
  <2>1. "OPEN_SEAT" \in Out /\ "OPEN_SEAT" \in Doing /\ "NEW" \in State
    BY DEF SeatdCall, Api
  <2> HIDE DEF In, Out, Doing, State
  <2>2. <<"OPEN_SEAT">> \in Seq(Out) /\ <<>> \in Seq(In) /\ <<>> \in Seq(Event)
    BY <2>1
  <2> QED
    BY <1>1, <2>1, <2>2 DEF SeatdOpens
<1> SUFFICES ASSUME impl = "seatd", SeatdRests \/ SeatdNext PROVE Library /\ Server /\ Wire
  BY <1>1, SeatdSteps, BackendsApart DEF SeatdRests
<1>2. call \in Doing /\ sock \in Seq(In) /\ inbuf \in Seq(In)
      /\ pending \in Seq(Event) /\ batch \in Seq(Event) /\ out \in Seq(Out)
      /\ st \in State /\ awaiting_pong \in BOOLEAN /\ joined \in BOOLEAN
      /\ (st \in {"none", "CLOSED"} => ~joined)
  BY DEF SeatdTypes
<1>a. {"NEW", "ACTIVE", "PENDING_DISABLE", "DISABLED", "CLOSED", "none"} \subseteq State
  OBVIOUS
<1>b. /\ {"ENABLE_SEAT", "DISABLE_SEAT", "PONG", "SEAT_OPENED", "SEAT_CLOSED", "SEAT_DISABLED"} \subseteq In
      /\ {"SESSION_SWITCHED", "ERROR", ReplyTo("OPEN_DEVICE"), ReplyTo("CLOSE_DEVICE")} \subseteq In
  BY DEF Background, Event, SeatdReply, ReplyTo
<1>c. Api \subseteq Doing /\ Api \subseteq Out /\ "PING" \in Out /\ {"none", "check"} \subseteq Doing
  BY ApiCalls
<1> HIDE DEF In, Out, Doing, State
<1>d. /\ <<>> \in Seq(In) /\ <<>> \in Seq(Out) /\ <<>> \in Seq(Event)
      /\ inbuf # <<>> => Tail(inbuf) \in Seq(In)
      /\ out # <<>> => Tail(out) \in Seq(Out)
      /\ batch # <<>> => Tail(batch) \in Seq(Event)
      /\ \A m \in Event : <<m>> \o pending \in Seq(Event)
      /\ \A m \in Out : Append(out, m) \in Seq(Out)
      /\ \A m \in In : sock \o <<m>> \in Seq(In)
      /\ \A m \in In, n \in In : sock \o <<m, n>> \in Seq(In)
  BY <1>2, QueueType
<1>3. CASE SeatdRests
  BY <1>2, <1>3 DEF SeatdRests, seatdVars
<1>4. ASSUME NEW r \in Api, Request(r) PROVE Library /\ Server /\ Wire
  BY <1>2, <1>4, <1>c, <1>d DEF Request, set_error
<1>5. ASSUME NEW r \in Api, RequestAfterError(r) PROVE Library /\ Server /\ Wire
  BY <1>2, <1>5 DEF RequestAfterError, seatdVars
<1>6. ASSUME NEW wait, Dispatch(wait) PROVE Library /\ Server /\ Wire
  BY <1>2, <1>6 DEF Dispatch, seatdVars
<1>7. ASSUME NEW n, AwaitReply(n) PROVE Library /\ Server /\ Wire
  BY <1>2, <1>7, <1>c, <1>d, ArrivesType DEF AwaitReply, set_error, Failed
<1>8. ASSUME NEW n, DispatchRead(n) PROVE Library /\ Server /\ Wire
  <2>1. Arrives(n) => sock' \in Seq(In) /\ inbuf' \in Seq(In)
    BY <1>2, ArrivesType
  <2>2. sock' \in Seq(In) /\ inbuf' \in Seq(In) /\ pending' \in Seq(Event)
    BY <1>2, <1>8, <1>d, <2>1 DEF DispatchRead, set_error
  <2> QED
    BY <1>2, <1>8, <2>2 DEF DispatchRead
<1>9. CASE ReadBackground
  BY <1>2, <1>9, <1>d DEF ReadBackground, Reading, queue_event, threadVars
<1>10. CASE ReadReply
  BY <1>2, <1>10, <1>c, <1>d DEF ReadReply, Reading, set_error, Failed
<1>11. CASE check_pending_events
  BY <1>2, <1>11, <1>c, <1>d DEF check_pending_events, set_error
<1>12. CASE execute_events
  BY <1>2, <1>12, <1>d DEF execute_events
<1>13. CASE RunEvent
  BY <1>2, <1>13, <1>d DEF RunEvent, seatdVars
<1>14. CASE DispatchReturns \/ OpenReturns
  BY <1>2, <1>14 DEF DispatchReturns, OpenReturns, seatdVars
<1>15. CASE close_seat \/ OpenFailed
  BY <1>15 DEF close_seat, OpenFailed, Closed
<1>16. ASSUME UNCHANGED libraryVars PROVE Library
  BY <1>2, <1>16 DEF libraryVars, threadVars
<1> HIDE DEF Library
<1>17. CASE handle_ping
  BY <1>2, <1>16, <1>17, <1>b, <1>d DEF handle_ping, Takes, Sends
<1>18. CASE handle_open_seat
  BY <1>2, <1>16, <1>18, <1>a, <1>b, <1>d DEF handle_open_seat, Takes, Sends, Join
<1>19. CASE handle_close_seat
  BY <1>2, <1>16, <1>19, <1>a, <1>b, <1>d DEF handle_close_seat, Takes, Sends, Depart
<1>20. CASE handle_disable_seat
  BY <1>2, <1>16, <1>20, <1>a, <1>b, <1>d DEF handle_disable_seat, Takes, Sends, Ack
<1>21. CASE handle_device
  BY <1>2, <1>16, <1>21, <1>b, <1>d DEF handle_device, Takes, Sends
<1>22. CASE handle_switch_session
  BY <1>2, <1>16, <1>22, <1>a, <1>b, <1>d DEF handle_switch_session, Takes, Sends, Revoke
<1>23. CASE Ends
  BY <1>2, <1>16, <1>23, <1>a, <1>d DEF Ends, Detach
<1>24. CASE client_send_enable_seat \/ client_send_disable_seat
  BY <1>2, <1>16, <1>24, <1>a, <1>b, <1>d
  DEF client_send_enable_seat, client_send_disable_seat, Grant, Revoke, Sends
<1> HIDE DEF Server, Wire
<1>25. SeatdLibrary => Library /\ Server /\ Wire
  BY <1>7, <1>8, <1>9, <1>10, <1>11, <1>12, <1>13, <1>14, <1>15 DEF SeatdLibrary
<1>26. SeatdUser => Library /\ Server /\ Wire
  BY <1>4, <1>5, <1>6 DEF SeatdUser
<1>27. SeatdServer \/ SeatdDies => Library /\ Server /\ Wire
  BY <1>17, <1>18, <1>19, <1>20, <1>21, <1>22, <1>23 DEF SeatdServer, Serve, client_destroy, SeatdDies
<1> QED
  BY <1>3, <1>24, <1>25, <1>26, <1>27 DEF SeatdNext
-----------------------------------------------------------------------------
(***************************************************************************)
(* The seatd backend: replies.                                             *)
(***************************************************************************)

\* A request goes out behind pings alone.
LEMMA EndsAppend ==
  ASSUME NEW q \in Seq({"PING"}), NEW r
  PROVE  EndsWith(Append(q, r), r)
<1> DEFINE a == Append(q, r)
<1>1. Len(a) = Len(q) + 1 /\ a[Len(q) + 1] = r /\ Len(q) \in Nat
  OBVIOUS
<1>2. \A i \in 1..Len(a) : i # Len(a) => a[i] = "PING"
  <2> TAKE i \in 1..Len(a)
  <2>1. i # Len(a) => i \in 1..Len(q)
    BY <1>1
  <2>2. i \in 1..Len(q) => a[i] = q[i] /\ q[i] \in {"PING"}
    OBVIOUS
  <2> QED
    BY <2>1, <2>2
<1> QED
  BY <1>1, <1>2 DEF EndsWith

\* The peer takes the pings before it takes the request, and then nothing is
\* left.
LEMMA EndsTail ==
  ASSUME NEW S, NEW q \in Seq(S), NEW r, r # "PING", EndsWith(q, r)
  PROVE  /\ q # <<>>
         /\ Head(q) = "PING" => EndsWith(Tail(q), r)
         /\ Head(q) # "PING" => Head(q) = r /\ Tail(q) = <<>>
<1> DEFINE t == Tail(q)
           n == Len(q)
<1>1. n \in Nat /\ n > 0 /\ q # <<>> /\ Head(q) = q[1] /\ q[n] = r
  BY DEF EndsWith
<1>2. Len(t) = n - 1 /\ (\A i \in 1..(n - 1) : t[i] = q[i + 1]) /\ (n = 1 => t = <<>>)
  BY <1>1
<1>3. \A i \in 1..n : i # n => q[i] = "PING"
  BY DEF EndsWith
<1> HIDE DEF t, n
<1>4. ASSUME Head(q) = "PING" PROVE EndsWith(t, r)
  <2>1. n # 1
    BY <1>1, <1>4
  <2>2. Len(t) > 0 /\ t[n - 1] = r
    BY <1>1, <1>2, <2>1
  <2>3. ASSUME NEW i \in 1..(n - 1), i # n - 1 PROVE t[i] = "PING"
    <3>1. i + 1 \in 1..n /\ i + 1 # n
      BY <1>1, <2>3
    <3> QED
      BY <1>2, <1>3, <3>1
  <2> QED
    BY <1>2, <2>2, <2>3 DEF EndsWith
<1>5. ASSUME Head(q) # "PING" PROVE Head(q) = r /\ t = <<>>
  <2>1. 1 \in 1..n
    BY <1>1
  <2>2. n = 1
    BY <1>1, <1>3, <1>5, <2>1
  <2> QED
    BY <1>1, <1>2, <2>2
<1> QED
  BY <1>1, <1>4, <1>5 DEF t

\* A message of M arrives in a queue that has none, with others around it.
LEMMA OneArrives ==
  ASSUME NEW M, NEW B, NEW q \in Seq(B), NEW m \in M, NEW e \in B
  PROVE  /\ OneAmong(q \o <<m>>, M, B)
         /\ OneAmong(q \o <<m, e>>, M, B)
         /\ OneAmong(q \o <<e, m>>, M, B)
<1>1. OneAmong(q \o <<m>>, M, B)
  <2> DEFINE a == q \o <<m>>
  <2>1. Len(a) = Len(q) + 1 /\ Len(q) + 1 \in 1..Len(a) /\ a[Len(q) + 1] = m
    OBVIOUS
  <2>2. ASSUME NEW i \in 1..Len(a), i # Len(q) + 1 PROVE a[i] \in B
    BY <2>1, <2>2
  <2> HIDE DEF a
  <2>3. OneAmong(a, M, B)
    BY <2>1, <2>2 DEF OneAmong
  <2> QED
    BY <2>3 DEF a
<1>2. OneAmong(q \o <<m, e>>, M, B)
  <2> DEFINE a == q \o <<m, e>>
  <2>1. Len(a) = Len(q) + 2 /\ Len(q) + 1 \in 1..Len(a) /\ a[Len(q) + 1] = m /\ a[Len(q) + 2] = e
    OBVIOUS
  <2>2. ASSUME NEW i \in 1..Len(a), i # Len(q) + 1 PROVE a[i] \in B
    <3>1. i \in 1..Len(q) \/ i = Len(q) + 2
      BY <2>1, <2>2
    <3> QED
      BY <2>1, <3>1
  <2> HIDE DEF a
  <2>3. OneAmong(a, M, B)
    BY <2>1, <2>2 DEF OneAmong
  <2> QED
    BY <2>3 DEF a
<1>3. OneAmong(q \o <<e, m>>, M, B)
  <2> DEFINE a == q \o <<e, m>>
  <2>1. Len(a) = Len(q) + 2 /\ Len(q) + 2 \in 1..Len(a) /\ a[Len(q) + 2] = m /\ a[Len(q) + 1] = e
    OBVIOUS
  <2>2. ASSUME NEW i \in 1..Len(a), i # Len(q) + 2 PROVE a[i] \in B
    <3>1. i \in 1..Len(q) \/ i = Len(q) + 1
      BY <2>1, <2>2
    <3> QED
      BY <2>1, <3>1
  <2> HIDE DEF a
  <2>3. OneAmong(a, M, B)
    BY <2>1, <2>2 DEF OneAmong
  <2> QED
    BY <2>3 DEF a
<1> QED
  BY <1>1, <1>2, <1>3

\* More messages of B change nothing.
LEMMA OneStays ==
  ASSUME NEW M, NEW B, NEW S, NEW q \in Seq(S), NEW e \in B, OneAmong(q, M, B)
  PROVE  OneAmong(q \o <<e>>, M, B)
<1> DEFINE a == q \o <<e>>
           n == Len(q)
<1>1. n \in Nat /\ Len(a) = n + 1 /\ a[n + 1] = e /\ \A i \in 1..n : a[i] = q[i]
  OBVIOUS
<1>2. PICK k \in 1..n : q[k] \in M /\ \A i \in 1..n : i # k => q[i] \in B
  BY DEF OneAmong
<1> HIDE DEF a, n
<1>3. k \in 1..(n + 1) /\ a[k] \in M
  BY <1>1, <1>2
<1>4. ASSUME NEW i \in 1..(n + 1), i # k PROVE a[i] \in B
  <2>1. i \in 1..n \/ i = n + 1
    BY <1>1
  <2> QED
    BY <1>1, <1>2, <1>4, <2>1
<1>5. OneAmong(a, M, B)
  BY <1>1, <1>3, <1>4 DEF OneAmong
<1> QED
  BY <1>5 DEF a

\* Reading a message of B leaves the one of M; reading any other is reading
\* that one.
LEMMA OneTail ==
  ASSUME NEW M, NEW B, NEW S, NEW q \in Seq(S), M \cap B = {}, OneAmong(q, M, B)
  PROVE  /\ q # <<>>
         /\ Head(q) \in B => OneAmong(Tail(q), M, B)
         /\ Head(q) \notin B => Head(q) \in M /\ Tail(q) \in Seq(B)
<1> DEFINE t == Tail(q)
           n == Len(q)
<1>1. PICK k \in 1..n : q[k] \in M /\ \A i \in 1..n : i # k => q[i] \in B
  BY DEF OneAmong
<1>2. n \in Nat /\ n > 0 /\ q # <<>> /\ Head(q) = q[1]
  BY <1>1
<1>3. Len(t) = n - 1 /\ (\A i \in 1..(n - 1) : t[i] = q[i + 1]) /\ t \in Seq(S)
  BY <1>2
<1> HIDE DEF t, n
<1>4. ASSUME Head(q) \in B PROVE OneAmong(t, M, B)
  <2>1. k # 1
    BY <1>1, <1>2, <1>4
  <2>2. k - 1 \in 1..(n - 1) /\ t[k - 1] \in M
    BY <1>1, <1>2, <1>3, <2>1
  <2>3. ASSUME NEW i \in 1..(n - 1), i # k - 1 PROVE t[i] \in B
    <3>1. i + 1 \in 1..n /\ i + 1 # k
      BY <1>1, <1>2, <2>3
    <3> QED
      BY <1>1, <1>3, <3>1
  <2> QED
    BY <1>3, <2>2, <2>3 DEF OneAmong
<1>5. ASSUME Head(q) \notin B PROVE Head(q) \in M /\ t \in Seq(B)
  <2>1. 1 \in 1..n /\ k = 1
    BY <1>1, <1>2, <1>5
  <2>2. ASSUME NEW i \in 1..(n - 1) PROVE t[i] \in B
    <3>1. i + 1 \in 1..n /\ i + 1 # k
      BY <1>2, <2>1
    <3> QED
      BY <1>1, <1>3, <3>1
  <2>3. t \in Seq(B)
    BY <1>3, <2>2
  <2> QED
    BY <1>1, <1>2, <2>1, <2>3
<1> QED
  BY <1>2, <1>4, <1>5 DEF t

\* A read of n messages has the one of M, or leaves it.
LEMMA OneSplit ==
  ASSUME NEW M, NEW B, NEW S, NEW q \in Seq(S), OneAmong(q, M, B), NEW n \in 1..Len(q)
  PROVE  LET a == SubSeq(q, 1, n)
             b == SubSeq(q, n + 1, Len(q))
         IN  \/ OneAmong(a, M, B) /\ b \in Seq(B)
             \/ a \in Seq(B) /\ OneAmong(b, M, B)
<1> DEFINE a == SubSeq(q, 1, n)
           b == SubSeq(q, n + 1, Len(q))
           l == Len(q)
<1>1. PICK k \in 1..l : q[k] \in M /\ \A i \in 1..l : i # k => q[i] \in B
  BY DEF OneAmong
<1>2. l \in Nat /\ n \in 1..l
  OBVIOUS
<1>3. a \in Seq(S) /\ Len(a) = n /\ \A i \in 1..n : a[i] = q[i]
  OBVIOUS
<1>4. b \in Seq(S) /\ Len(b) = l - n /\ \A i \in 1..(l - n) : b[i] = q[n + i]
  OBVIOUS
<1> HIDE DEF a, b, l
<1>5. ASSUME k <= n PROVE OneAmong(a, M, B) /\ b \in Seq(B)
  <2>1. k \in 1..n /\ \A i \in 1..n : i # k => a[i] \in B
    BY <1>1, <1>2, <1>3, <1>5
  <2>2. ASSUME NEW i \in 1..(l - n) PROVE b[i] \in B
    <3>1. n + i \in 1..l /\ n + i # k
      BY <1>1, <1>2, <1>5
    <3> QED
      BY <1>1, <1>4, <3>1
  <2>3. b \in Seq(B)
    BY <1>4, <2>2
  <2>4. OneAmong(a, M, B)
    BY <1>1, <1>3, <2>1 DEF OneAmong
  <2> QED
    BY <2>3, <2>4
<1>6. ASSUME k > n PROVE a \in Seq(B) /\ OneAmong(b, M, B)
  <2>1. ASSUME NEW i \in 1..n PROVE a[i] \in B
    <3>1. i \in 1..l /\ i # k
      BY <1>1, <1>2, <1>6
    <3> QED
      BY <1>1, <1>3, <3>1
  <2>2. a \in Seq(B)
    BY <1>3, <2>1
  <2>3. k - n \in 1..(l - n) /\ b[k - n] \in M
    BY <1>1, <1>2, <1>4, <1>6
  <2>4. ASSUME NEW i \in 1..(l - n), i # k - n PROVE b[i] \in B
    <3>1. n + i \in 1..l /\ n + i # k
      BY <1>1, <1>2, <2>4
    <3> QED
      BY <1>1, <1>4, <3>1
  <2>5. OneAmong(b, M, B)
    BY <1>4, <2>3, <2>4 DEF OneAmong
  <2> QED
    BY <2>2, <2>5
<1>7. k <= n \/ k > n
  BY <1>1, <1>2
<1> QED
  BY <1>5, <1>6, <1>7 DEF a, b, l

\* The answers to a call are replies that are not events or pongs.
LEMMA AnswersType ==
  ASSUME NEW c \in Api
  PROVE  /\ Answers(c) \subseteq {ReplyTo(c), "ERROR"} /\ Answers(c) \cap Background = {}
         /\ ReplyTo(c) \in Answers(c) /\ (c # "DISABLE_SEAT" => "ERROR" \in Answers(c))
         /\ c \notin {"PING", "none", "check"}
<1>1. c \in SeatdCall
  BY ApiCalls
<1>2. ReplyTo("DISABLE_SEAT") = "SEAT_DISABLED"
  BY DEF ReplyTo
<1>3. SeatdReply \cap Background = {} /\ "ERROR" \in SeatdReply
  BY DEF SeatdReply, Background, Event
<1>4. c \notin {"PING", "none", "check"}
  BY <1>1 DEF SeatdCall, UserRequests
<1> QED
  BY <1>1, <1>2, <1>3, <1>4, ReplyType DEF Answers

\* seatd handles a ping, or sends an event.
LEMMA BackgroundSent ==
  ASSUME NEW S, NEW o \in Seq(S), NEW s \in Seq(Background \cup SeatdReply), NEW i, NEW t,
         NEW m \in Background, NEW c \in Api
  PROVE  /\ Quiet(o, s, i) => Quiet(o, s \o <<m>>, i)
         /\ Awaits(c, o, s, i, t) => Awaits(c, o, s \o <<m>>, i, t)
         /\ Quiet(o, s, i) /\ o # <<>> => Head(o) = "PING" /\ Quiet(Tail(o), s, i)
         /\ Awaits(c, o, s, i, t) /\ o # <<>> /\ Head(o) = "PING" => Awaits(c, Tail(o), s, i, t)
<1>1. s \in Seq(Background) => s \o <<m>> \in Seq(Background)
  BY QueueType
<1>2. OneAmong(s, Answers(c), Background) => OneAmong(s \o <<m>>, Answers(c), Background)
  BY OneStays
<1>3. o \in Seq({"PING"}) /\ o # <<>> => Head(o) = "PING" /\ Tail(o) \in Seq({"PING"})
  OBVIOUS
<1>4. EndsWith(o, c) /\ Head(o) = "PING" => EndsWith(Tail(o), c)
  BY EndsTail, AnswersType
<1> QED
  BY <1>1, <1>2, <1>3, <1>4 DEF Quiet, Awaits

\* seatd takes the request of the call and sends its reply, with an event
\* before or after it.
LEMMA RequestServed ==
  ASSUME NEW S, NEW o \in Seq(S), NEW s, NEW i, NEW t, NEW u, NEW c \in Api,
         Awaits(c, o, s, i, t), o # <<>>, Head(o) # "PING",
         NEW m \in Answers(c), NEW e \in Background
  PROVE  /\ Head(o) = c
         /\ Awaits(c, Tail(o), s \o <<m>>, i, u)
         /\ Awaits(c, Tail(o), s \o <<m, e>>, i, u)
         /\ Awaits(c, Tail(o), s \o <<e, m>>, i, u)
<1>1. EndsWith(o, c) /\ s \in Seq(Background) /\ i \in Seq(Background)
  BY DEF Awaits
<1>2. Head(o) = c /\ Tail(o) = <<>>
  BY <1>1, EndsTail, AnswersType
<1> QED
  BY <1>1, <1>2, OneArrives DEF Awaits

\* Every step keeps RepliesInv.
LEMMA RepliesStep ==
  ASSUME ThreadInv, SeatdTypes, RepliesInv, DisableInv, [Next]_vars
  PROVE  RepliesInv'
<1> DEFINE Good == /\ error' \in {"none", "EPIPE"}
                   /\ error' # "none" => call' = "none"
                   /\ error' = "none" /\ call' \notin Api => Quiet(out', sock', inbuf')
                   /\ call' \in Api => Awaits(call', out', sock', inbuf', st')
           In == Background \cup SeatdReply
<1> SUFFICES ASSUME impl' = "seatd" PROVE Good
  BY DEF RepliesInv
<1>n. "none" \notin Api /\ "check" \notin Api /\ "PING" \notin Api
  BY AnswersType
<1>1. CASE SeatdOpens
  <2>1. EndsWith(<<"OPEN_SEAT">>, "OPEN_SEAT")
    BY DEF EndsWith
  <2>2. <<>> \in Seq(Background) /\ "OPEN_SEAT" \in Api
    BY DEF Api
  <2> QED
    BY <1>1, <2>1, <2>2 DEF SeatdOpens, Awaits
<1> SUFFICES ASSUME impl = "seatd", SeatdRests \/ SeatdNext PROVE Good
  BY <1>1, SeatdSteps, BackendsApart DEF SeatdRests
<1>2. /\ error \in {"none", "EPIPE"}
      /\ error # "none" => call = "none"
      /\ error = "none" /\ call \notin Api => Quiet(out, sock, inbuf)
      /\ call \in Api => Awaits(call, out, sock, inbuf, st)
  BY DEF RepliesInv
<1>3. out \in Seq(SeatdCall \cup {"PING"}) /\ sock \in Seq(In) /\ inbuf \in Seq(In)
  BY DEF SeatdTypes
<1> HIDE DEF In
<1>4. CASE UNCHANGED <<call, sock, inbuf, out, error, st>>
  BY <1>2, <1>4
<1>5. SeatdRests \/ RunEvent \/ DispatchReturns \/ OpenReturns \/ execute_events
        => UNCHANGED <<call, sock, inbuf, out, error, st>>
  BY DEF SeatdRests, RunEvent, DispatchReturns, OpenReturns, execute_events, seatdVars
<1>6. ASSUME NEW wait, Dispatch(wait) PROVE UNCHANGED <<call, sock, inbuf, out, error, st>>
  BY <1>6 DEF Dispatch, seatdVars
<1>7. ASSUME NEW r, RequestAfterError(r) PROVE UNCHANGED <<call, sock, inbuf, out, error, st>>
  BY <1>7 DEF RequestAfterError, seatdVars
<1>8. ASSUME NEW r \in Api, Request(r) PROVE Good
  <2>1. call = "none" /\ error = "none" /\ sock' = sock /\ inbuf' = inbuf /\ st' = st
    BY <1>8 DEF Request, MayAsk, UserRuns, Idle
  <2>2. Quiet(out, sock, inbuf)
    BY <1>2, <1>n, <2>1
  <2>3. CASE st # "none"
    <3>1. out' = Append(out, r) /\ call' = r /\ error' = error
      BY <1>8, <2>3 DEF Request
    <3>2. EndsWith(out', r)
      BY <2>2, <3>1, EndsAppend DEF Quiet
    <3> QED
      BY <2>1, <2>2, <3>1, <3>2 DEF Quiet, Awaits
  <2>4. CASE st = "none"
    BY <1>8, <1>n, <2>1, <2>4 DEF Request, set_error
  <2> QED
    BY <2>3, <2>4
<1>9. ASSUME NEW n, AwaitReply(n) PROVE Good
  <2>1. call \in Api /\ inbuf = <<>> /\ out' = out /\ st' = st /\ error = "none"
    BY <1>2, <1>9, <1>n DEF AwaitReply
  <2>2. CASE st # "none"
    <3>1. Arrives(n) /\ call' = call /\ error' = error
      BY <1>9, <2>2 DEF AwaitReply
    <3>2. n \in 1..Len(sock) /\ sock' = SubSeq(sock, n + 1, Len(sock)) /\ inbuf' = SubSeq(sock, 1, n)
      BY <1>3, <2>1, <3>1 DEF Arrives
    <3>3. sock \in Seq(Background) => sock' \in Seq(Background) /\ inbuf' \in Seq(Background)
      BY <3>2
    <3>4. OneAmong(sock, Answers(call), Background) =>
            \/ OneAmong(inbuf', Answers(call), Background) /\ sock' \in Seq(Background)
            \/ inbuf' \in Seq(Background) /\ OneAmong(sock', Answers(call), Background)
      BY <1>3, <3>2, OneSplit
    <3>5. ~OneAmong(inbuf, Answers(call), Background)
      BY <2>1 DEF OneAmong
    <3>6. Awaits(call, out, sock', inbuf', st)
      BY <1>2, <2>1, <2>2, <3>3, <3>4, <3>5 DEF Awaits
    <3> QED
      BY <2>1, <3>1, <3>6, <1>n
  <2>3. CASE st = "none"
    BY <1>9, <1>n, <2>1, <2>3 DEF AwaitReply, set_error, Failed
  <2> QED
    BY <2>2, <2>3
<1>10. ASSUME NEW n, DispatchRead(n) PROVE Good
  <2>1. call = "none" /\ call' = "none" /\ out' = out
    BY <1>10 DEF DispatchRead, Executed
  <2>2. error' \in {"none", "EPIPE"} /\ (error' = "none" => error = "none")
    BY <1>2, <1>10 DEF DispatchRead, set_error
  <2>3. Quiet(out, sock, inbuf) => Quiet(out', sock', inbuf')
    <3>1. ASSUME sock \in Seq(Background), inbuf \in Seq(Background)
          PROVE  sock' \in Seq(Background) /\ inbuf' \in Seq(Background)
      <4>1. Arrives(n) => sock' \in Seq(Background) /\ inbuf' \in Seq(Background)
        BY <3>1, ArrivesType
      <4>2. Arrives(n) \/ UNCHANGED <<sock, inbuf>>
        BY <1>10 DEF DispatchRead
      <4> QED
        BY <3>1, <4>1, <4>2
    <3> QED
      BY <2>1, <3>1 DEF Quiet
  <2> QED
    BY <1>2, <1>n, <2>1, <2>2, <2>3
<1>11. CASE ReadBackground
  <2>1. inbuf # <<>> /\ Head(inbuf) \in Background /\ inbuf' = Tail(inbuf)
        /\ UNCHANGED <<call, sock, out, error, st>>
    BY <1>11 DEF ReadBackground, Reading, Background, threadVars
  <2>2. inbuf \in Seq(Background) => inbuf' \in Seq(Background)
    BY <2>1, QueueType
  <2>3. call \in Api /\ OneAmong(inbuf, Answers(call), Background)
          => OneAmong(inbuf', Answers(call), Background)
    BY <1>3, <2>1, OneTail, AnswersType
  <2> QED
    BY <1>2, <2>1, <2>2, <2>3 DEF Quiet, Awaits
<1>12. CASE ReadReply
  <2>1. inbuf # <<>> /\ Head(inbuf) \notin Background /\ UNCHANGED <<sock, out, st>>
    BY <1>12 DEF ReadReply, Reading, Background
  <2>2. inbuf \notin Seq(Background)
    BY <2>1
  <2>3. CASE error # "none"
    <3>1. call = "none" /\ error' = error /\ call' = "none"
      BY <1>2, <1>12, <1>n, <2>3 DEF ReadReply, set_error, Failed
    <3> QED
      BY <1>2, <1>n, <2>3, <3>1
  <2>4. CASE error = "none"
    <3>1. call \in Api /\ out = <<>> /\ sock \in Seq(Background)
          /\ OneAmong(inbuf, Answers(call), Background)
      BY <1>2, <2>2, <2>4 DEF Quiet, Awaits
    <3>2. Head(inbuf) \in Answers(call) /\ Tail(inbuf) \in Seq(Background)
      BY <1>3, <2>1, <3>1, OneTail, AnswersType
    <3>3. inbuf' = Tail(inbuf) /\ call' \in {"none", "check"} /\ error' = error
      BY <1>12, <3>1, <3>2, AnswersType DEF ReadReply
    <3>4. <<>> \in Seq({"PING"})
      OBVIOUS
    <3> QED
      BY <1>n, <2>1, <2>4, <3>1, <3>2, <3>3, <3>4 DEF Quiet
  <2> QED
    BY <2>3, <2>4
<1>13. CASE check_pending_events
  <2>1. call = "check" /\ call' = "none" /\ UNCHANGED <<sock, inbuf, st>> /\ error = "none"
    BY <1>2, <1>13 DEF check_pending_events
  <2>2. Quiet(out, sock, inbuf)
    BY <1>2, <1>n, <2>1
  <2>3. out \in Seq({"PING"}) => Append(out, "PING") \in Seq({"PING"})
    BY QueueType
  <2>4. error' \in {"none", "EPIPE"} /\ out' \in {out, Append(out, "PING")}
    BY <1>13, <2>1 DEF check_pending_events, set_error
  <2> QED
    BY <1>n, <2>1, <2>2, <2>3, <2>4 DEF Quiet
<1>14. CASE close_seat \/ OpenFailed
  BY <1>14 DEF close_seat, OpenFailed, Closed
<1>15. ASSUME UNCHANGED libraryVars PROVE UNCHANGED <<call, inbuf, error>>
  BY <1>15 DEF libraryVars, threadVars
<1>16. "PONG" \in Background /\ "ENABLE_SEAT" \in Background /\ "DISABLE_SEAT" \in Background
  BY DEF Background, Event
<1>17. CASE handle_ping
  <2>1. out # <<>> /\ Head(out) = "PING" /\ out' = Tail(out) /\ sock' = sock \o <<"PONG">>
        /\ UNCHANGED <<call, inbuf, error, st>>
    BY <1>15, <1>17 DEF handle_ping, Takes, Sends
  <2>2. ASSUME NEW c \in Api
        PROVE  /\ Quiet(out, sock, inbuf) => Quiet(out', sock', inbuf')
               /\ Awaits(c, out, sock, inbuf, st) => Awaits(c, out', sock', inbuf', st')
    <3>1. sock' \in Seq(In) /\ sock \in Seq(Background \cup SeatdReply)
      BY <1>3, <1>16, <2>1 DEF In
    <3>2. /\ Quiet(out, sock, inbuf) => Quiet(out, sock', inbuf)
          /\ Awaits(c, out, sock, inbuf, st) => Awaits(c, out, sock', inbuf, st)
      BY <1>3, <1>16, <2>1, <3>1, BackgroundSent
    <3>3. /\ Quiet(out, sock', inbuf) => Quiet(out', sock', inbuf)
          /\ Awaits(c, out, sock', inbuf, st) => Awaits(c, out', sock', inbuf, st)
      BY <1>3, <1>16, <2>1, <3>1, BackgroundSent DEF In
    <3> QED
      BY <2>1, <3>2, <3>3
  <2>3. "OPEN_SEAT" \in Api
    BY DEF Api
  <2> QED
    BY <1>2, <2>1, <2>2, <2>3
<1>18. CASE client_send_enable_seat \/ client_send_disable_seat
  <2>1. PICK m \in Background : sock' = sock \o <<m>>
    BY <1>16, <1>18 DEF client_send_enable_seat, client_send_disable_seat, Sends
  <2>2. UNCHANGED <<call, out, inbuf, error>> /\ st # "none" /\ st' # "none"
    BY <1>15, <1>18
    DEF client_send_enable_seat, client_send_disable_seat, Peer, Grant, Revoke
  <2>3. ASSUME NEW c \in Api
        PROVE  /\ Quiet(out, sock, inbuf) => Quiet(out, sock', inbuf)
               /\ Awaits(c, out, sock, inbuf, st) => Awaits(c, out, sock', inbuf, st)
    BY <1>3, <2>1, BackgroundSent DEF In
  <2>4. "OPEN_SEAT" \in Api
    BY DEF Api
  <2>5. \A c : Awaits(c, out, sock', inbuf, st) => Awaits(c, out, sock', inbuf, st')
    BY <2>2 DEF Awaits
  <2> QED
    BY <1>2, <2>2, <2>3, <2>4, <2>5
<1>19. CASE Ends
  <2>1. UNCHANGED <<call, sock, inbuf, error>> /\ out' = <<>> /\ st' = "none"
    BY <1>15, <1>19 DEF Ends, Detach
  <2>2. <<>> \in Seq({"PING"})
    OBVIOUS
  <2> QED
    BY <1>2, <2>1, <2>2 DEF Quiet, Awaits
<1> DEFINE Serving(r) == Peer /\ Takes /\ Head(out) = r /\ UNCHANGED libraryVars
<1>20. ASSUME NEW r \in Api, Serving(r)
       PROVE  /\ UNCHANGED <<call, inbuf, error>> /\ out' = Tail(out)
              /\ error = "none" => /\ call = r
                                   /\ \A m \in Answers(r), e \in Background :
                                        /\ Awaits(r, out', sock \o <<m>>, inbuf, st')
                                        /\ Awaits(r, out', sock \o <<m, e>>, inbuf, st')
                                        /\ Awaits(r, out', sock \o <<e, m>>, inbuf, st')
  <2>1. UNCHANGED <<call, inbuf, error>> /\ out # <<>> /\ out' = Tail(out) /\ Head(out) = r
    BY <1>15, <1>20 DEF Takes
  <2>2. ASSUME error = "none" PROVE call \in Api
    <3>1. ~(out \in Seq({"PING"}))
      BY <1>n, <2>1
    <3> QED
      BY <1>2, <2>2, <3>1 DEF Quiet
  <2>3. ASSUME call \in Api, NEW m \in Answers(call), NEW e \in Background
        PROVE  /\ Head(out) = call
               /\ Awaits(call, out', sock \o <<m>>, inbuf, st')
               /\ Awaits(call, out', sock \o <<m, e>>, inbuf, st')
               /\ Awaits(call, out', sock \o <<e, m>>, inbuf, st')
    BY <1>2, <1>3, <1>n, <2>1, <2>3, RequestServed
  <2>4. ASSUME call \in Api PROVE call = r
    BY <2>1, <2>3, <2>4, <1>16, AnswersType
  <2> QED
    BY <2>1, <2>2, <2>3, <2>4
<1>21. ASSUME NEW r \in Api, Serving(r),
              error = "none" => \E m \in Answers(r), e \in Background :
                                  sock' \in {sock \o <<m>>, sock \o <<m, e>>, sock \o <<e, m>>}
       PROVE  Good
  BY <1>2, <1>20, <1>21, <1>n
<1> HIDE DEF Good
<1>22. CASE handle_open_seat
  <2>1. Serving("OPEN_SEAT") /\ "OPEN_SEAT" \in Api
    BY <1>22 DEF handle_open_seat, Api
  <2>2. "SEAT_OPENED" \in Answers("OPEN_SEAT")
    BY DEF Answers, ReplyTo
  <2>3. sock' \in {sock \o <<"SEAT_OPENED">>, sock \o <<"SEAT_OPENED", "ENABLE_SEAT">>}
    BY <1>22 DEF handle_open_seat, Sends
  <2> QED
    BY <1>16, <1>21, <2>1, <2>2, <2>3
<1>23. CASE handle_close_seat
  <2>1. Serving("CLOSE_SEAT") /\ "CLOSE_SEAT" \in Api
    BY <1>23 DEF handle_close_seat, Api
  <2>2. "SEAT_CLOSED" \in Answers("CLOSE_SEAT")
    BY DEF Answers, ReplyTo
  <2>3. sock' = sock \o <<"SEAT_CLOSED">>
    BY <1>23 DEF handle_close_seat, Sends
  <2> QED
    BY <1>16, <1>21, <2>1, <2>2, <2>3
<1>24. CASE handle_disable_seat
  <2>1. Serving("DISABLE_SEAT") /\ "DISABLE_SEAT" \in Api /\ joined
    BY <1>24 DEF handle_disable_seat, Api
  <2>2. Asks(out)
    <3>1. out # <<>> /\ out[1] = "DISABLE_SEAT" /\ 1 \in 1..Len(out)
      BY <1>3, <2>1 DEF Takes
    <3> QED
      BY <3>1 DEF Asks, Has
  <2>3. st = "PENDING_DISABLE"
    BY <2>1, <2>2 DEF DisableInv, SeatdTypes
  <2>4. "SEAT_DISABLED" \in Answers("DISABLE_SEAT")
    BY DEF Answers
  <2>5. sock' \in {sock \o <<"SEAT_DISABLED">>, sock \o <<"ENABLE_SEAT", "SEAT_DISABLED">>}
    BY <1>24, <2>3 DEF handle_disable_seat, Sends
  <2> QED
    BY <1>16, <1>21, <2>1, <2>4, <2>5
<1>25. CASE handle_device
  <2> DEFINE r == Head(out)
  <2>1. Serving(r) /\ r \in {"OPEN_DEVICE", "CLOSE_DEVICE"}
    BY <1>25 DEF handle_device
  <2>2. sock' \in {sock \o <<ReplyTo(r)>>, sock \o <<"ERROR">>}
    BY <1>25 DEF handle_device, Sends
  <2>3. error = "none" => r \in Api
    <3>1. out # <<>>
      BY <2>1 DEF Takes
    <3>2. out \notin Seq({"PING"})
      BY <2>1, <3>1
    <3>3. call \in Api /\ EndsWith(out, call) => r = call
      BY <1>3, <1>n, <2>1, <3>1, EndsTail
    <3> QED
      BY <1>2, <3>1, <3>2, <3>3 DEF Quiet, Awaits
  <2>4. CASE error # "none"
    BY <1>2, <1>15, <1>n, <2>1, <2>4 DEF Good
  <2>5. CASE error = "none"
    <3>1. r \in Api /\ r # "DISABLE_SEAT"
      BY <2>1, <2>3, <2>5
    <3>2. ReplyTo(r) \in Answers(r) /\ "ERROR" \in Answers(r)
      BY <3>1, AnswersType
    <3> HIDE DEF r
    <3> QED
      BY <1>16, <1>21, <2>1, <2>2, <3>1, <3>2
  <2> QED
    BY <1>2, <2>4, <2>5
<1>26. CASE handle_switch_session
  <2>1. Serving("SWITCH_SESSION")
    BY <1>26 DEF handle_switch_session
  <2>2. sock' \in {sock \o <<"SESSION_SWITCHED">>, sock \o <<"DISABLE_SEAT", "SESSION_SWITCHED">>,
                   sock \o <<"ERROR">>}
    BY <1>26 DEF handle_switch_session, Sends
  <2>3. {"SESSION_SWITCHED", "ERROR"} \subseteq Answers("SWITCH_SESSION")
    BY DEF Answers, ReplyTo
  <2>4. CASE error # "none"
    BY <1>2, <1>15, <1>n, <2>1, <2>4 DEF Good
  <2>5. error = "none" => "SWITCH_SESSION" \in Api
    <3>1. out # <<>> /\ Head(out) = "SWITCH_SESSION"
      BY <2>1 DEF Takes
    <3>2. out \notin Seq({"PING"})
      BY <3>1
    <3>3. call \in Api /\ EndsWith(out, call) => Head(out) = call
      BY <1>3, <1>n, <3>1, EndsTail
    <3> QED
      BY <1>2, <3>1, <3>2, <3>3 DEF Quiet, Awaits
  <2>6. CASE error = "none"
    BY <1>16, <1>21, <2>1, <2>2, <2>3, <2>5, <2>6
  <2> QED
    BY <2>4, <2>6
<1>27. SeatdLibrary => Good
  BY <1>4, <1>5, <1>9, <1>10, <1>11, <1>12, <1>13, <1>14 DEF SeatdLibrary, Good
<1>28. SeatdUser => Good
  BY <1>4, <1>6, <1>7, <1>8 DEF SeatdUser
<1>29. SeatdServer \/ SeatdDies => Good
  BY <1>17, <1>19, <1>22, <1>23, <1>24, <1>25, <1>26
  DEF SeatdServer, Serve, client_destroy, SeatdDies
<1> QED
  BY <1>4, <1>5, <1>18, <1>27, <1>28, <1>29 DEF SeatdNext
-----------------------------------------------------------------------------
(***************************************************************************)
(* The seatd backend: the disable event.                                   *)
(***************************************************************************)

\* Every step keeps BatchInv.
LEMMA BatchStep ==
  ASSUME ThreadInv, SeatdTypes, BatchInv, [Next]_vars
  PROVE  BatchInv'
<1> DEFINE Good == /\ at' \notin {"pre", "post", "open", "close"} => batch' = <<>>
                   /\ call' = "CLOSE_SEAT" => at' \in {"opened", "idle"}
                   /\ call' = "OPEN_SEAT" => at' = "opening"
<1> SUFFICES ASSUME impl' = "seatd" PROVE Good
  BY DEF BatchInv
<1>1. CASE SeatdOpens
  BY <1>1 DEF SeatdOpens
<1> SUFFICES ASSUME impl = "seatd", SeatdRests \/ SeatdNext PROVE Good
  BY <1>1, SeatdSteps, BackendsApart DEF SeatdRests
<1>2. /\ at \notin {"pre", "post", "open", "close"} => batch = <<>>
      /\ call = "CLOSE_SEAT" => at \in {"opened", "idle"}
      /\ call = "OPEN_SEAT" => at = "opening"
  BY DEF BatchInv
<1>3. SeatdRests => Good
  BY <1>2 DEF SeatdRests
<1>4. ASSUME NEW r \in Api, Request(r) PROVE Good
  <2>1. r # "OPEN_SEAT" /\ (r = "CLOSE_SEAT" => Idle)
    BY <1>4, RequestAssumption DEF Request, MayAsk
  <2> QED
    BY <1>2, <1>4, <2>1 DEF Request, Idle, MayAsk, UserRuns
<1>5. ASSUME NEW r \in Api, RequestAfterError(r) PROVE Good
  BY <1>2, <1>5 DEF RequestAfterError, Idle, MayAsk, UserRuns
<1>6. ASSUME NEW wait, Dispatch(wait) PROVE Good
  BY <1>2, <1>6 DEF Dispatch, MayDispatch, Idle
<1>7. ASSUME NEW n, AwaitReply(n) PROVE Good
  BY <1>2, <1>7 DEF AwaitReply, Failed
<1>8. ASSUME NEW n, DispatchRead(n) PROVE Good
  BY <1>2, <1>8 DEF DispatchRead, Executed
<1>9. CASE ReadBackground
  BY <1>2, <1>9 DEF ReadBackground, threadVars
<1>10. CASE ReadReply
  BY <1>2, <1>10 DEF ReadReply, Reading, Failed
<1>11. CASE check_pending_events
  BY <1>2, <1>11 DEF check_pending_events
<1>12. CASE execute_events
  BY <1>2, <1>12 DEF execute_events
<1>13. CASE RunEvent
  BY <1>2, <1>13 DEF RunEvent
<1>14. CASE DispatchReturns \/ OpenReturns
  BY <1>2, <1>14 DEF DispatchReturns, OpenReturns, Executed
<1>15. CASE close_seat \/ OpenFailed
  BY <1>15 DEF close_seat, OpenFailed, Closed
<1>16. ASSUME UNCHANGED libraryVars PROVE Good
  BY <1>2, <1>16 DEF libraryVars, threadVars
<1> HIDE DEF Good
<1>17. SeatdServer \/ SeatdDies \/ client_send_enable_seat \/ client_send_disable_seat => Good
  BY <1>16 DEF SeatdServer, Serve, handle_ping, handle_open_seat, handle_close_seat,
     handle_disable_seat, handle_device, handle_switch_session, client_destroy, SeatdDies,
     client_send_enable_seat, client_send_disable_seat, Ends
<1>18. SeatdLibrary => Good
  BY <1>7, <1>8, <1>9, <1>10, <1>11, <1>12, <1>13, <1>14, <1>15 DEF SeatdLibrary
<1>19. SeatdUser => Good
  BY <1>4, <1>5, <1>6 DEF SeatdUser
<1> QED
  BY <1>3, <1>17, <1>18, <1>19 DEF SeatdNext

\* A message is added to a queue, at either end.
LEMMA AskAdded ==
  ASSUME NEW S, NEW q \in Seq(S), NEW e, NEW a, a \in {Append(q, e), q \o <<e>>, <<e>> \o q}
  PROVE  /\ Asks(a) <=> Asks(q) \/ e = "DISABLE_SEAT"
         /\ AsksOnce(q) /\ (e = "DISABLE_SEAT" => ~Asks(q)) => AsksOnce(a)
<1> DEFINE n == Len(q)
<1>1. n \in Nat /\ Len(a) = n + 1
  OBVIOUS
<1>2. CASE a \in {Append(q, e), q \o <<e>>}
  <2>1. a[n + 1] = e /\ \A i \in 1..n : a[i] = q[i]
    BY <1>2
  <2> HIDE DEF n
  <2>2. \A i \in 1..(n + 1) : i \in 1..n \/ i = n + 1
    BY <1>1
  <2>3. n + 1 \in 1..(n + 1) /\ 1..n \subseteq 1..(n + 1) /\ n + 1 \notin 1..n
    BY <1>1
  <2> QED
    BY <1>1, <2>1, <2>2, <2>3 DEF Asks, AsksOnce, Has, AtMostOnce, n
<1>3. CASE a = <<e>> \o q
  <2>1. a[1] = e /\ \A i \in 1..n : a[i + 1] = q[i]
    BY <1>3
  <2> HIDE DEF n
  <2>2. \A i \in 1..(n + 1) : i = 1 \/ (i - 1 \in 1..n /\ a[i] = q[i - 1])
    <3> TAKE i \in 1..(n + 1)
    <3>1. i = 1 \/ i - 1 \in 1..n
      BY <1>1
    <3>2. i - 1 \in 1..n => a[(i - 1) + 1] = q[i - 1] /\ (i - 1) + 1 = i
      BY <1>1, <2>1
    <3> QED
      BY <3>1, <3>2
  <2>3. 1 \in 1..(n + 1) /\ \A i \in 1..n : i + 1 \in 1..(n + 1)
    BY <1>1
  <2>4. Asks(a) <=> Asks(q) \/ e = "DISABLE_SEAT"
    <3>1. ASSUME NEW i \in 1..(n + 1), a[i] = "DISABLE_SEAT"
          PROVE  e = "DISABLE_SEAT" \/ \E j \in 1..n : q[j] = "DISABLE_SEAT"
      BY <2>1, <2>2, <3>1
    <3>2. ASSUME NEW j \in 1..n, q[j] = "DISABLE_SEAT"
          PROVE  \E i \in 1..(n + 1) : a[i] = "DISABLE_SEAT"
      BY <2>1, <2>3, <3>2
    <3>3. e = "DISABLE_SEAT" => \E i \in 1..(n + 1) : a[i] = "DISABLE_SEAT"
      BY <2>1, <2>3
    <3>4. Asks(q) <=> \E j \in 1..n : q[j] = "DISABLE_SEAT"
      BY DEF Asks, Has, n
    <3>5. Asks(a) <=> \E i \in 1..(n + 1) : a[i] = "DISABLE_SEAT"
      BY <1>1 DEF Asks, Has
    <3> QED
      BY <3>1, <3>2, <3>3, <3>4, <3>5
  <2>5. ASSUME AsksOnce(q), e = "DISABLE_SEAT" => ~Asks(q) PROVE AsksOnce(a)
    <3> SUFFICES ASSUME NEW i \in 1..(n + 1), NEW j \in 1..(n + 1),
                        a[i] = "DISABLE_SEAT", a[j] = "DISABLE_SEAT"
                 PROVE  i = j
      BY <1>1 DEF AsksOnce, AtMostOnce
    <3>1. i # 1 /\ j # 1 => i - 1 = j - 1
      BY <2>2, <2>5 DEF AsksOnce, AtMostOnce, n
    <3>2. (i = 1) = (j = 1)
      BY <2>1, <2>2, <2>5 DEF Asks, Has, n
    <3> QED
      BY <1>1, <3>1, <3>2
  <2> QED
    BY <2>4, <2>5
<1> QED
  BY <1>2, <1>3

\* Two messages are added at the end.
LEMMA AskPair ==
  ASSUME NEW S, NEW q \in Seq(S), NEW e, NEW g
  PROVE  /\ Asks(q \o <<e, g>>) <=> Asks(q) \/ e = "DISABLE_SEAT" \/ g = "DISABLE_SEAT"
         /\ AsksOnce(q) /\ (e = "DISABLE_SEAT" => ~Asks(q)) /\ g # "DISABLE_SEAT"
              => AsksOnce(q \o <<e, g>>)
<1> DEFINE n == Len(q)
           a == q \o <<e, g>>
<1>1. n \in Nat /\ Len(a) = n + 2 /\ a[n + 1] = e /\ a[n + 2] = g /\ \A i \in 1..n : a[i] = q[i]
  OBVIOUS
<1> HIDE DEF n, a
<1>2. \A i \in 1..(n + 2) : i \in 1..n \/ i = n + 1 \/ i = n + 2
  BY <1>1
<1>3. n + 1 \in 1..(n + 2) /\ n + 2 \in 1..(n + 2) /\ 1..n \subseteq 1..(n + 2)
  BY <1>1
<1>4. Asks(a) <=> Asks(q) \/ e = "DISABLE_SEAT" \/ g = "DISABLE_SEAT"
  BY <1>1, <1>2, <1>3 DEF Asks, Has, n
<1>5. AsksOnce(q) /\ (e = "DISABLE_SEAT" => ~Asks(q)) /\ g # "DISABLE_SEAT" => AsksOnce(a)
  BY <1>1, <1>2, <1>3 DEF Asks, Has, AsksOnce, AtMostOnce, n
<1> QED
  BY <1>4, <1>5 DEF a

\* The first message of a queue is taken.
LEMMA AskTaken ==
  ASSUME NEW S, NEW q \in Seq(S), q # <<>>
  PROVE  /\ AsksOnce(q) => AsksOnce(Tail(q))
         /\ Head(q) = "DISABLE_SEAT" => Asks(q) /\ (AsksOnce(q) => ~Asks(Tail(q)))
         /\ Head(q) # "DISABLE_SEAT" => (Asks(Tail(q)) <=> Asks(q))
<1> DEFINE t == Tail(q)
           n == Len(q)
<1>1. n \in Nat /\ n > 0 /\ Len(t) = n - 1 /\ Head(q) = q[1] /\ \A i \in 1..(n - 1) : t[i] = q[i + 1]
  OBVIOUS
<1> HIDE DEF t, n
<1>2. 1 \in 1..n /\ \A i \in 1..(n - 1) : i + 1 \in 1..n /\ i + 1 # 1
  BY <1>1
<1>3. \A i \in 1..n : i = 1 \/ (i - 1 \in 1..(n - 1) /\ t[i - 1] = q[i])
  <2> TAKE i \in 1..n
  <2>1. i = 1 \/ i - 1 \in 1..(n - 1)
    BY <1>1
  <2>2. i - 1 \in 1..(n - 1) => t[i - 1] = q[(i - 1) + 1] /\ (i - 1) + 1 = i
    BY <1>1
  <2> QED
    BY <2>1, <2>2
<1>4. AsksOnce(q) => AsksOnce(t)
  <2> SUFFICES ASSUME AsksOnce(q), NEW i \in 1..(n - 1), NEW j \in 1..(n - 1),
                      t[i] = "DISABLE_SEAT", t[j] = "DISABLE_SEAT"
               PROVE  i = j
    BY <1>1 DEF AsksOnce, AtMostOnce
  <2>1. i + 1 = j + 1
    BY <1>1, <1>2 DEF AsksOnce, AtMostOnce, n
  <2> QED
    BY <2>1
<1>5. Head(q) = "DISABLE_SEAT" => Asks(q) /\ (AsksOnce(q) => ~Asks(t))
  BY <1>1, <1>2 DEF Asks, Has, AsksOnce, AtMostOnce, n
<1>6. Head(q) # "DISABLE_SEAT" => (Asks(t) <=> Asks(q))
  BY <1>1, <1>2, <1>3 DEF Asks, Has, n
<1> QED
  BY <1>4, <1>5, <1>6 DEF t

\* A read moves messages from one queue to another.
LEMMA AskMoved ==
  ASSUME NEW S, NEW q \in Seq(S), NEW p \in Seq(S), NEW n \in 1..Len(q),
         AsksOnce(q), AsksOnce(p), ~(Asks(q) /\ Asks(p))
  PROVE  LET a == p \o SubSeq(q, 1, n)
             b == SubSeq(q, n + 1, Len(q))
         IN  /\ AsksOnce(a) /\ AsksOnce(b) /\ ~(Asks(a) /\ Asks(b))
             /\ Asks(a) \/ Asks(b) <=> Asks(p) \/ Asks(q)
<1> DEFINE a == p \o SubSeq(q, 1, n)
           b == SubSeq(q, n + 1, Len(q))
           l == Len(p)
           m == Len(q)
           D == "DISABLE_SEAT"
<1>1. l \in Nat /\ m \in Nat /\ n \in Nat /\ n <= m /\ Len(a) = l + n /\ Len(b) = m - n
  OBVIOUS
<1>2. (\A i \in 1..l : a[i] = p[i]) /\ (\A i \in 1..n : a[l + i] = q[i])
      /\ (\A i \in 1..(m - n) : b[i] = q[n + i])
  OBVIOUS
<1>3. /\ \A i, j \in 1..m : q[i] = D /\ q[j] = D => i = j
      /\ \A i, j \in 1..l : p[i] = D /\ p[j] = D => i = j
      /\ \A i \in 1..m, j \in 1..l : ~(q[i] = D /\ p[j] = D)
  BY DEF AsksOnce, AtMostOnce, Asks, Has
<1> HIDE DEF a, b, l, m, D
<1>4. ASSUME NEW i \in 1..(l + n), a[i] = D
      PROVE  \/ i \in 1..l /\ p[i] = D
             \/ i - l \in 1..n /\ i - l \in 1..m /\ q[i - l] = D
  <2>1. i \in 1..l \/ i - l \in 1..n
    BY <1>1
  <2>2. i - l \in 1..n => l + (i - l) = i /\ i - l \in 1..m
    BY <1>1
  <2> QED
    BY <1>2, <1>4, <2>1, <2>2
<1>5. ASSUME NEW i \in 1..(m - n), b[i] = D PROVE n + i \in 1..m /\ q[n + i] = D
  BY <1>1, <1>2, <1>5
<1>6. ASSUME NEW i \in 1..(l + n), NEW j \in 1..(l + n), a[i] = D, a[j] = D PROVE i = j
  <2>1. \/ i \in 1..l /\ p[i] = D
        \/ i - l \in 1..n /\ i - l \in 1..m /\ q[i - l] = D
    BY <1>4, <1>6
  <2>2. \/ j \in 1..l /\ p[j] = D
        \/ j - l \in 1..n /\ j - l \in 1..m /\ q[j - l] = D
    BY <1>4, <1>6
  <2>3. i = j \/ i - l = j - l
    BY <1>3, <2>1, <2>2
  <2> QED
    BY <1>1, <2>3
<1>7. ASSUME NEW i \in 1..(m - n), NEW j \in 1..(m - n), b[i] = D, b[j] = D PROVE i = j
  <2>1. n + i = n + j
    BY <1>3, <1>5, <1>7
  <2> QED
    BY <1>1, <2>1
<1>8. ASSUME NEW i \in 1..(l + n), NEW j \in 1..(m - n), a[i] = D, b[j] = D PROVE FALSE
  <2>1. \/ i \in 1..l /\ p[i] = D
        \/ i - l \in 1..n /\ i - l \in 1..m /\ q[i - l] = D
    BY <1>4, <1>8
  <2>2. n + j \in 1..m /\ q[n + j] = D
    BY <1>5, <1>8
  <2>3. i - l \in 1..n => i - l # n + j
    BY <1>1
  <2> QED
    BY <1>3, <2>1, <2>2, <2>3
<1>9. ASSUME NEW i \in 1..l, p[i] = D PROVE i \in 1..(l + n) /\ a[i] = D
  BY <1>1, <1>2, <1>9
<1>10. ASSUME NEW i \in 1..m, q[i] = D
       PROVE  (\E k \in 1..(l + n) : a[k] = D) \/ (\E k \in 1..(m - n) : b[k] = D)
  <2>1. CASE i <= n
    <3>1. i \in 1..n /\ l + i \in 1..(l + n)
      BY <1>1, <2>1
    <3> QED
      BY <1>2, <1>10, <3>1
  <2>2. CASE i > n
    <3>1. i - n \in 1..(m - n) /\ n + (i - n) = i
      BY <1>1, <2>2
    <3> QED
      BY <1>2, <1>10, <3>1
  <2> QED
    BY <1>1, <2>1, <2>2
<1>11. AsksOnce(a) /\ AsksOnce(b)
  BY <1>1, <1>6, <1>7 DEF AsksOnce, AtMostOnce, D
<1>12. /\ Asks(a) <=> \E i \in 1..(l + n) : a[i] = D
       /\ Asks(b) <=> \E i \in 1..(m - n) : b[i] = D
       /\ Asks(p) <=> \E i \in 1..l : p[i] = D
       /\ Asks(q) <=> \E i \in 1..m : q[i] = D
  BY <1>1 DEF Asks, Has, D, l, m
<1>13. ~(Asks(a) /\ Asks(b))
  BY <1>8, <1>12
<1>14. Asks(a) \/ Asks(b) <=> Asks(p) \/ Asks(q)
  BY <1>4, <1>5, <1>9, <1>10, <1>12
<1> QED
  BY <1>11, <1>13, <1>14 DEF a, b, m

\* Every step keeps DisableInv.
LEMMA DisableStep ==
  ASSUME ThreadInv, SeatdTypes, RepliesInv, BatchInv, DisableInv, [Next]_vars
  PROVE  DisableInv'
<1> DEFINE Held == Asks(sock) \/ Asks(inbuf) \/ Asks(pending) \/ Asks(batch) \/ Asks(out) \/ app.owes
           Once == AsksOnce(sock) /\ AsksOnce(inbuf) /\ AsksOnce(pending) /\ AsksOnce(batch)
                   /\ AsksOnce(out)
           One == Alone(Asks(sock), Asks(inbuf), Asks(pending), Asks(batch), Asks(out), app.owes)
           Owed == st = "PENDING_DISABLE" /\ error = "none"
           Good == /\ Once' /\ One'
                   /\ Held' => st' \in {"PENDING_DISABLE", "CLOSED", "none"}
                   /\ Owed' => Held'
           In == Background \cup SeatdReply
           Out == SeatdCall \cup {"PING"}
<1> SUFFICES ASSUME impl' = "seatd" PROVE Good
  BY DEF DisableInv
<1>e. ~Asks(<<>>) /\ AsksOnce(<<>>)
  BY DEF Asks, Has, AsksOnce, AtMostOnce
<1>1. CASE SeatdOpens
  <2>1. ~Asks(<<"OPEN_SEAT">>) /\ AsksOnce(<<"OPEN_SEAT">>)
    BY DEF Asks, Has, AsksOnce, AtMostOnce
  <2>2. ~Unused.owes
    BY DEF Unused
  <2> QED
    BY <1>1, <1>e, <2>1, <2>2 DEF SeatdOpens, Alone
<1> SUFFICES ASSUME impl = "seatd", SeatdRests \/ SeatdNext PROVE Good
  BY <1>1, SeatdSteps, BackendsApart DEF SeatdRests
<1>2. /\ Once /\ One /\ (Held => st \in {"PENDING_DISABLE", "CLOSED", "none"}) /\ (Owed => Held)
  BY DEF DisableInv
<1>3. out \in Seq(Out) /\ sock \in Seq(In) /\ inbuf \in Seq(In)
      /\ pending \in Seq(Event) /\ batch \in Seq(Event) /\ app.owes \in BOOLEAN
      /\ (joined => st \notin {"CLOSED", "none"})
  BY DEF SeatdTypes, ThreadInv
<1> HIDE DEF In, Out
<1>4. CASE UNCHANGED <<sock, inbuf, pending, batch, out, app, st, error>>
  BY <1>2, <1>4
<1>5. ASSUME SeatdRests \/ DispatchReturns \/ OpenReturns \/ \E wait : Dispatch(wait)
      PROVE  UNCHANGED <<sock, inbuf, pending, batch, out, app, st, error>>
  BY <1>5 DEF SeatdRests, DispatchReturns, OpenReturns, Dispatch, seatdVars
<1>6. ASSUME NEW e
      PROVE  /\ Asks(Append(out, e)) <=> Asks(out) \/ e = "DISABLE_SEAT"
             /\ (e = "DISABLE_SEAT" => ~Asks(out)) => AsksOnce(Append(out, e))
             /\ Asks(sock \o <<e>>) <=> Asks(sock) \/ e = "DISABLE_SEAT"
             /\ (e = "DISABLE_SEAT" => ~Asks(sock)) => AsksOnce(sock \o <<e>>)
             /\ Asks(<<e>> \o pending) <=> Asks(pending) \/ e = "DISABLE_SEAT"
             /\ (e = "DISABLE_SEAT" => ~Asks(pending)) => AsksOnce(<<e>> \o pending)
  BY <1>2, <1>3, AskAdded
<1>7. /\ out # <<>> => /\ AsksOnce(Tail(out))
                       /\ Head(out) = "DISABLE_SEAT" => Asks(out) /\ ~Asks(Tail(out))
                       /\ Head(out) # "DISABLE_SEAT" => (Asks(Tail(out)) <=> Asks(out))
      /\ inbuf # <<>> => /\ AsksOnce(Tail(inbuf))
                         /\ Head(inbuf) = "DISABLE_SEAT" => Asks(inbuf) /\ ~Asks(Tail(inbuf))
                         /\ Head(inbuf) # "DISABLE_SEAT" => (Asks(Tail(inbuf)) <=> Asks(inbuf))
      /\ batch # <<>> => /\ AsksOnce(Tail(batch))
                         /\ Head(batch) = "DISABLE_SEAT" => Asks(batch) /\ ~Asks(Tail(batch))
                         /\ Head(batch) # "DISABLE_SEAT" => (Asks(Tail(batch)) <=> Asks(batch))
  BY <1>2, <1>3, AskTaken
<1>8. ASSUME NEW errno, set_error(errno)
      PROVE  /\ AsksOnce(pending') /\ (Asks(pending') => Asks(pending))
             /\ error = "none" => error' = errno
             /\ error # "none" => error' = error
  BY <1>2, <1>8, <1>e DEF set_error
<1>9. ASSUME NEW r \in Api, Request(r) PROVE Good
  <2>1. UNCHANGED <<batch, sock, inbuf, st>> /\ app' = Asked(r) /\ error = "none"
    BY <1>9 DEF Request
  <2>2. r = "DISABLE_SEAT" => app.owes /\ ~app'.owes
    BY <1>9, <2>1, RequestAssumption DEF Request, MayAsk, Asked, ThreadInv
  <2>3. r # "DISABLE_SEAT" => app' = app
    BY <2>1 DEF Asked
  <2>4. CASE st # "none"
    <3>1. out' = Append(out, r) /\ UNCHANGED <<pending, error>>
      BY <1>9, <2>4 DEF Request
    <3>2. Asks(out') <=> Asks(out) \/ r = "DISABLE_SEAT"
      BY <1>6, <3>1
    <3>3. r = "DISABLE_SEAT" => ~Asks(out)
      BY <1>2, <2>2 DEF Alone
    <3>4. AsksOnce(out')
      BY <1>6, <3>1, <3>3
    <3> QED
      BY <1>2, <2>1, <2>2, <2>3, <3>1, <3>2, <3>4 DEF Alone
  <2>5. CASE st = "none"
    <3>1. set_error("EPIPE") /\ out' = out
      BY <1>9, <2>5 DEF Request
    <3> QED
      BY <1>2, <1>8, <2>1, <2>2, <2>3, <2>5, <3>1 DEF Alone
  <2> QED
    BY <2>4, <2>5
<1>10. ASSUME NEW r \in Api, RequestAfterError(r) PROVE Good
  <2>1. UNCHANGED <<sock, inbuf, pending, batch, out, st, error>> /\ error # "none" /\ app' = Asked(r)
    BY <1>10 DEF RequestAfterError, seatdVars
  <2>2. app'.owes => app.owes
    BY <2>1 DEF Asked, ThreadInv
  <2> QED
    BY <1>2, <2>1, <2>2 DEF Alone
<1>11. ASSUME NEW n, Arrives(n), UNCHANGED <<pending, batch, out, app, st, error>> PROVE Good
  <2>1. n \in 1..Len(sock) /\ inbuf' = inbuf \o SubSeq(sock, 1, n)
        /\ sock' = SubSeq(sock, n + 1, Len(sock))
    BY <1>11 DEF Arrives
  <2>2. AsksOnce(sock) /\ AsksOnce(inbuf) /\ ~(Asks(sock) /\ Asks(inbuf))
    BY <1>2 DEF Alone
  <2>3. AsksOnce(inbuf') /\ AsksOnce(sock') /\ ~(Asks(inbuf') /\ Asks(sock'))
        /\ (Asks(inbuf') \/ Asks(sock') <=> Asks(inbuf) \/ Asks(sock))
    BY <1>3, <2>1, <2>2, AskMoved
  <2> QED
    BY <1>2, <1>11, <2>3 DEF Alone
<1>12. ASSUME NEW errno, set_error(errno), errno # "none", UNCHANGED <<sock, inbuf, batch, out, app, st>>
       PROVE  Good
  <2>1. AsksOnce(pending') /\ (Asks(pending') => Asks(pending)) /\ error' # "none"
    BY <1>8, <1>12
  <2>2. Once' /\ One'
    BY <1>2, <1>12, <2>1 DEF Alone
  <2> QED
    BY <1>2, <1>12, <2>1, <2>2
<1>13. ASSUME NEW n, AwaitReply(n) PROVE Good
  BY <1>11, <1>12, <1>13 DEF AwaitReply
<1>14. ASSUME NEW n, DispatchRead(n) PROVE Good
  <2>1. UNCHANGED <<batch, out, app, st>>
    BY <1>14 DEF DispatchRead
  <2>2. \/ set_error("EPIPE") /\ UNCHANGED <<sock, inbuf>>
        \/ Arrives(n) /\ UNCHANGED <<pending, error>>
        \/ UNCHANGED <<sock, inbuf, pending, error>>
    BY <1>14 DEF DispatchRead
  <2> HIDE DEF Good
  <2> QED
    BY <1>4, <1>11, <1>12, <2>1, <2>2
<1>15. CASE ReadBackground
  <2> DEFINE m == Head(inbuf)
  <2>1. inbuf # <<>> /\ inbuf' = Tail(inbuf) /\ UNCHANGED <<batch, out, app, sock, st, error>>
        /\ pending' = IF m = "PONG" THEN pending ELSE <<m>> \o pending
    BY <1>15 DEF ReadBackground, Reading, queue_event, threadVars
  <2>2. CASE m = "PONG"
    BY <1>2, <1>7, <2>1, <2>2 DEF Alone
  <2>3. CASE m # "PONG"
    <3>1. /\ Asks(pending') <=> Asks(pending) \/ m = "DISABLE_SEAT"
          /\ (m = "DISABLE_SEAT" => ~Asks(pending)) => AsksOnce(pending')
      BY <1>6, <2>1, <2>3
    <3>2. m = "DISABLE_SEAT" => Asks(inbuf) /\ ~Asks(inbuf')
      BY <1>7, <2>1
    <3>3. m # "DISABLE_SEAT" => (Asks(inbuf') <=> Asks(inbuf))
      BY <1>7, <2>1
    <3>4. AsksOnce(inbuf')
      BY <1>7, <2>1
    <3> HIDE DEF m
    <3> QED
      BY <1>2, <2>1, <3>1, <3>2, <3>3, <3>4 DEF Alone
  <2> QED
    BY <2>2, <2>3
<1>16. CASE ReadReply
  <2>1. inbuf # <<>> /\ Head(inbuf) # "DISABLE_SEAT" /\ UNCHANGED <<batch, app, sock, out, st>>
    BY <1>16 DEF ReadReply, Reading, Event
  <2>2. \/ inbuf' = Tail(inbuf) /\ UNCHANGED <<pending, error>>
        \/ inbuf' = inbuf /\ set_error("EBADMSG")
    BY <1>16 DEF ReadReply
  <2>3. CASE inbuf' = Tail(inbuf) /\ UNCHANGED <<pending, error>>
    BY <1>2, <1>7, <2>1, <2>3 DEF Alone
  <2>4. CASE inbuf' = inbuf /\ set_error("EBADMSG")
    BY <1>12, <2>1, <2>4
  <2> QED
    BY <2>2, <2>3, <2>4
<1>17. CASE check_pending_events
  <2>1. UNCHANGED <<batch, app, sock, inbuf, st>>
    BY <1>17 DEF check_pending_events
  <2>2. \/ UNCHANGED <<out, pending, error>>
        \/ set_error("EPIPE") /\ out' = out
        \/ out' = Append(out, "PING") /\ UNCHANGED <<pending, error>>
    BY <1>17 DEF check_pending_events
  <2>3. CASE out' = Append(out, "PING") /\ UNCHANGED <<pending, error>>
    <3>1. ASSUME NEW m, m # "DISABLE_SEAT", out' = Append(out, m)
          PROVE  AsksOnce(out') /\ (Asks(out') <=> Asks(out))
      BY <1>6, <3>1
    <3>2. AsksOnce(out') /\ (Asks(out') <=> Asks(out))
      BY <2>3, <3>1
    <3> QED
      BY <1>2, <2>1, <2>3, <3>2 DEF Alone
  <2> HIDE DEF Good
  <2> QED
    BY <1>4, <1>12, <2>1, <2>2, <2>3
<1>18. CASE execute_events
  <2>1. batch = <<>>
    BY <1>18 DEF execute_events, BatchInv
  <2>2. batch' = pending /\ pending' = <<>> /\ UNCHANGED <<app, sock, inbuf, out, error, st>>
    BY <1>18 DEF execute_events
  <2> QED
    BY <1>2, <1>e, <2>1, <2>2 DEF Alone
<1>19. CASE RunEvent
  <2> DEFINE m == Head(batch)
  <2>1. batch # <<>> /\ batch' = Tail(batch) /\ app' = Told(m)
        /\ UNCHANGED <<sock, inbuf, out, pending, error, st>>
    BY <1>19 DEF RunEvent, Deliver, seatdVars
  <2>2. m \in {"ENABLE_SEAT", "DISABLE_SEAT"}
    BY <1>3, <2>1 DEF Event
  <2>3. m = "ENABLE_SEAT" => app'.owes = app.owes
    BY <2>1 DEF Told, ThreadInv
  <2>4. m = "DISABLE_SEAT" => app'.owes = TRUE
    BY <2>1 DEF Told
  <2>5. AsksOnce(batch') /\ (m = "DISABLE_SEAT" => Asks(batch) /\ ~Asks(batch'))
        /\ (m # "DISABLE_SEAT" => (Asks(batch') <=> Asks(batch)))
    BY <1>7, <2>1
  <2> HIDE DEF m
  <2> QED
    BY <1>2, <2>1, <2>2, <2>3, <2>4, <2>5 DEF Alone
<1>20. CASE close_seat \/ OpenFailed
  BY <1>20 DEF close_seat, OpenFailed, Closed
<1>21. ASSUME UNCHANGED libraryVars
       PROVE  UNCHANGED <<batch, app, inbuf, pending, error>>
  BY <1>21 DEF libraryVars, threadVars
<1>22. ASSUME NEW e, NEW g
       PROVE  /\ Asks(sock \o <<e, g>>) <=> Asks(sock) \/ e = "DISABLE_SEAT" \/ g = "DISABLE_SEAT"
              /\ /\ e = "DISABLE_SEAT" => ~Asks(sock)
                 /\ g # "DISABLE_SEAT"
                 => AsksOnce(sock \o <<e, g>>)
  BY <1>2, <1>3, AskPair
<1>23. ASSUME UNCHANGED libraryVars, ~Asks(sock') <=> ~Asks(sock), AsksOnce(sock'), AsksOnce(out'),
              Asks(out') => Asks(out), st' \in {"PENDING_DISABLE", "CLOSED", "none"} \/ ~Held,
              st' = "PENDING_DISABLE" => st = "PENDING_DISABLE" /\ (Asks(out) => Asks(out'))
       PROVE  Good
  BY <1>2, <1>21, <1>23 DEF Alone
<1>24. ASSUME Takes, Head(out) # "DISABLE_SEAT" PROVE AsksOnce(out') /\ (Asks(out') <=> Asks(out))
  BY <1>7, <1>24 DEF Takes
<1>25. ASSUME UNCHANGED libraryVars, UNCHANGED st, out' = out \/ (Takes /\ Head(out) # "DISABLE_SEAT"),
              NEW m, m # "DISABLE_SEAT", sock' = sock \o <<m>>
       PROVE  Good
  <2>1. AsksOnce(sock') /\ (Asks(sock') <=> Asks(sock))
    BY <1>6, <1>25
  <2>2. AsksOnce(out') /\ (Asks(out') <=> Asks(out))
    BY <1>2, <1>24, <1>25
  <2>3. st' \in {"PENDING_DISABLE", "CLOSED", "none"} \/ ~Held
    BY <1>2, <1>25
  <2> HIDE DEF Good, Held
  <2> QED
    BY <1>23, <1>25, <2>1, <2>2, <2>3
<1>26. CASE handle_ping
  BY <1>25, <1>26 DEF handle_ping, Sends
<1>27. CASE handle_open_seat
  <2>1. UNCHANGED libraryVars /\ st = "NEW" /\ st' \in {"NEW", "ACTIVE"} /\ Takes
        /\ Head(out) # "DISABLE_SEAT"
        /\ sock' \in {sock \o <<"SEAT_OPENED">>, sock \o <<"SEAT_OPENED", "ENABLE_SEAT">>}
    BY <1>27 DEF handle_open_seat, Join, Sends
  <2>2. AsksOnce(sock') /\ (Asks(sock') <=> Asks(sock))
    <3>1. CASE sock' = sock \o <<"SEAT_OPENED">>
      BY <1>6, <3>1
    <3>2. CASE sock' = sock \o <<"SEAT_OPENED", "ENABLE_SEAT">>
      BY <1>22, <3>2
    <3> QED
      BY <2>1, <3>1, <3>2
  <2>3. ~Held
    BY <1>2, <2>1
  <2> HIDE DEF Good, Held
  <2> QED
    BY <1>23, <1>24, <2>1, <2>2, <2>3
<1>28. CASE handle_close_seat
  <2>1. UNCHANGED libraryVars /\ st' = "CLOSED" /\ Takes /\ Head(out) # "DISABLE_SEAT"
        /\ sock' = sock \o <<"SEAT_CLOSED">>
    BY <1>28 DEF handle_close_seat, Depart, Sends
  <2>2. AsksOnce(sock') /\ (Asks(sock') <=> Asks(sock))
    BY <1>6, <2>1
  <2> HIDE DEF Good, Held
  <2> QED
    BY <1>23, <1>24, <2>1, <2>2
<1>29. CASE handle_disable_seat
  <2>1. UNCHANGED libraryVars /\ out # <<>> /\ Head(out) = "DISABLE_SEAT" /\ out' = Tail(out) /\ joined
    BY <1>29 DEF handle_disable_seat, Takes
  <2>2. Asks(out) /\ ~Asks(out') /\ AsksOnce(out')
    BY <1>7, <2>1
  <2>3. st = "PENDING_DISABLE"
    BY <1>2, <1>3, <2>1, <2>2
  <2>4. st' \in {"DISABLED", "ACTIVE"}
        /\ sock' \in {sock \o <<"SEAT_DISABLED">>, sock \o <<"ENABLE_SEAT", "SEAT_DISABLED">>}
    BY <1>29, <2>3 DEF handle_disable_seat, Ack, Sends
  <2>5. AsksOnce(sock') /\ (Asks(sock') <=> Asks(sock))
    <3>1. CASE sock' = sock \o <<"SEAT_DISABLED">>
      BY <1>6, <3>1
    <3>2. CASE sock' = sock \o <<"ENABLE_SEAT", "SEAT_DISABLED">>
      BY <1>22, <3>2
    <3> QED
      BY <2>4, <3>1, <3>2
  <2> QED
    BY <1>2, <1>21, <2>1, <2>2, <2>4, <2>5 DEF Alone
<1>30. CASE handle_device
  <2>1. PICK m \in {"DEVICE_OPENED", "DEVICE_CLOSED", "ERROR"} : sock' = sock \o <<m>>
    BY <1>30 DEF handle_device, Sends, ReplyTo
  <2>2. UNCHANGED libraryVars /\ UNCHANGED st /\ Takes /\ Head(out) # "DISABLE_SEAT"
    BY <1>30 DEF handle_device
  <2> QED
    BY <1>25, <2>1, <2>2
<1>31. ASSUME UNCHANGED libraryVars, out' = out \/ (Takes /\ Head(out) # "DISABLE_SEAT"), Revoke,
              sock' \in {sock \o <<"DISABLE_SEAT">>, sock \o <<"DISABLE_SEAT", "SESSION_SWITCHED">>}
       PROVE  Good
  <2>1. st = "ACTIVE" /\ st' = "PENDING_DISABLE"
    BY <1>31 DEF Revoke
  <2>2. ~Held
    BY <1>2, <2>1
  <2>3. Asks(sock') /\ AsksOnce(sock')
    <3>1. CASE sock' = sock \o <<"DISABLE_SEAT">>
      BY <1>6, <2>2, <3>1
    <3>2. CASE sock' = sock \o <<"DISABLE_SEAT", "SESSION_SWITCHED">>
      BY <1>22, <2>2, <3>2
    <3> QED
      BY <1>31, <3>1, <3>2
  <2>4. AsksOnce(out') /\ ~Asks(out')
    BY <1>2, <1>24, <1>31, <2>2
  <2> QED
    BY <1>2, <1>21, <1>31, <2>1, <2>2, <2>3, <2>4 DEF Alone
<1>32. CASE handle_switch_session
  <2>1. UNCHANGED libraryVars /\ Takes /\ Head(out) # "DISABLE_SEAT"
    BY <1>32 DEF handle_switch_session
  <2>2. \/ Revoke /\ sock' = sock \o <<"DISABLE_SEAT", "SESSION_SWITCHED">>
        \/ UNCHANGED st /\ sock' = sock \o <<"SESSION_SWITCHED">>
        \/ UNCHANGED st /\ sock' = sock \o <<"ERROR">>
    BY <1>32 DEF handle_switch_session, Sends
  <2> HIDE DEF Good
  <2> QED
    BY <1>25, <1>31, <2>1, <2>2
<1>33. CASE Ends
  <2>1. UNCHANGED libraryVars /\ UNCHANGED sock /\ out' = <<>> /\ st' = "none"
    BY <1>33 DEF Ends, Detach
  <2> QED
    BY <1>2, <1>e, <1>23, <2>1
<1>34. CASE client_send_enable_seat
  <2>1. UNCHANGED libraryVars /\ UNCHANGED out /\ st \in {"NEW", "DISABLED"} /\ st' = "ACTIVE"
        /\ sock' = sock \o <<"ENABLE_SEAT">>
    BY <1>34 DEF client_send_enable_seat, Grant, Sends
  <2>2. ~Held
    BY <1>2, <2>1
  <2>3. AsksOnce(sock') /\ (Asks(sock') <=> Asks(sock))
    BY <1>6, <2>1
  <2> HIDE DEF Good, Held
  <2> QED
    BY <1>2, <1>23, <2>1, <2>2, <2>3
<1>35. CASE client_send_disable_seat
  BY <1>31, <1>35 DEF client_send_disable_seat, Sends
<1> HIDE DEF Good
<1>36. SeatdLibrary => Good
  BY <1>4, <1>5, <1>13, <1>14, <1>15, <1>16, <1>17, <1>18, <1>19, <1>20 DEF SeatdLibrary
<1>37. SeatdUser => Good
  BY <1>4, <1>5, <1>9, <1>10 DEF SeatdUser
<1>38. SeatdServer \/ SeatdDies => Good
  BY <1>26, <1>27, <1>28, <1>29, <1>30, <1>32, <1>33
  DEF SeatdServer, Serve, client_destroy, SeatdDies
<1> QED
  BY <1>4, <1>5, <1>34, <1>35, <1>36, <1>37, <1>38 DEF SeatdNext
-----------------------------------------------------------------------------
(***************************************************************************)
(* The seatd backend: the wake-up.                                         *)
(***************************************************************************)

\* A message stays in a queue that grows, and the one that is added is there.
LEMMA HasAdded ==
  ASSUME NEW S, NEW q \in Seq(S), NEW m, NEW e, NEW g
  PROVE  /\ Has(q, m) => Has(Append(q, e), m) /\ Has(q \o <<e>>, m) /\ Has(q \o <<e, g>>, m)
         /\ Has(Append(q, e), e) /\ Has(q \o <<e>>, e)
<1> DEFINE n == Len(q)
<1>1. n \in Nat /\ 1..n \subseteq 1..(n + 1) /\ 1..n \subseteq 1..(n + 2) /\ n + 1 \in 1..(n + 1)
  OBVIOUS
<1>2. LET a == Append(q, e)
      IN  Len(a) = n + 1 /\ a[n + 1] = e /\ \A i \in 1..n : a[i] = q[i]
  OBVIOUS
<1>3. LET a == q \o <<e>>
      IN  Len(a) = n + 1 /\ a[n + 1] = e /\ \A i \in 1..n : a[i] = q[i]
  OBVIOUS
<1>4. LET a == q \o <<e, g>>
      IN  Len(a) = n + 2 /\ \A i \in 1..n : a[i] = q[i]
  OBVIOUS
<1>5. Has(q, m) => Has(Append(q, e), m)
  BY <1>1, <1>2 DEF Has
<1>6. Has(q, m) => Has(q \o <<e>>, m)
  BY <1>1, <1>3 DEF Has
<1>7. Has(q, m) => Has(q \o <<e, g>>, m)
  BY <1>1, <1>4 DEF Has
<1>8. Has(Append(q, e), e) /\ Has(q \o <<e>>, e)
  BY <1>1, <1>2, <1>3 DEF Has
<1> QED
  BY <1>5, <1>6, <1>7, <1>8

\* A message stays in a queue of which another is taken.
LEMMA HasTail ==
  ASSUME NEW S, NEW q \in Seq(S), NEW m, Has(q, m), Head(q) # m
  PROVE  Has(Tail(q), m)
<1> DEFINE t == Tail(q)
           n == Len(q)
<1>1. PICK i \in 1..n : q[i] = m
  BY DEF Has
<1>2. n \in Nat /\ n > 0 /\ Head(q) = q[1]
  BY <1>1
<1>3. Len(t) = n - 1 /\ \A k \in 1..(n - 1) : t[k] = q[k + 1]
  BY <1>2
<1> HIDE DEF t, n
<1>4. i - 1 \in 1..(n - 1) /\ (i - 1) + 1 = i
  BY <1>1, <1>2
<1>5. t[i - 1] = m
  BY <1>1, <1>3, <1>4
<1>6. Has(t, m)
  BY <1>3, <1>4, <1>5 DEF Has
<1> QED
  BY <1>6 DEF t

\* A read loses no message.
LEMMA HasMoved ==
  ASSUME NEW S, NEW q \in Seq(S), NEW p \in Seq(S), NEW n \in 1..Len(q), NEW m,
         Has(p, m) \/ Has(q, m)
  PROVE  Has(p \o SubSeq(q, 1, n), m) \/ Has(SubSeq(q, n + 1, Len(q)), m)
<1> DEFINE a == p \o SubSeq(q, 1, n)
           b == SubSeq(q, n + 1, Len(q))
           l == Len(p)
           k == Len(q)
<1>1. l \in Nat /\ k \in Nat /\ n \in Nat /\ n <= k /\ Len(a) = l + n /\ Len(b) = k - n
  OBVIOUS
<1>2. (\A i \in 1..l : a[i] = p[i]) /\ (\A i \in 1..n : a[l + i] = q[i])
      /\ (\A i \in 1..(k - n) : b[i] = q[n + i])
  OBVIOUS
<1>3. (\E i \in 1..l : p[i] = m) \/ (\E i \in 1..k : q[i] = m)
  BY DEF Has
<1> HIDE DEF a, b, l, k
<1>4. ASSUME NEW i \in 1..l, p[i] = m PROVE Has(a, m)
  <2>1. i \in 1..(l + n)
    BY <1>1
  <2> QED
    BY <1>1, <1>2, <1>4, <2>1 DEF Has
<1>5. ASSUME NEW i \in 1..k, q[i] = m PROVE Has(a, m) \/ Has(b, m)
  <2>1. CASE i <= n
    <3>1. i \in 1..n /\ l + i \in 1..(l + n)
      BY <1>1, <2>1
    <3> QED
      BY <1>1, <1>2, <1>5, <3>1 DEF Has
  <2>2. CASE i > n
    <3>1. i - n \in 1..(k - n) /\ n + (i - n) = i
      BY <1>1, <2>2
    <3>2. b[i - n] = m
      BY <1>2, <1>5, <3>1
    <3> QED
      BY <1>1, <3>1, <3>2 DEF Has
  <2> QED
    BY <1>1, <2>1, <2>2
<1> QED
  BY <1>3, <1>4, <1>5 DEF a, b, k

\* Every step keeps WakeInv.
LEMMA WakeStep ==
  ASSUME ThreadInv, SeatdTypes, RepliesInv, WakeInv, [Next]_vars
  PROVE  WakeInv'
<1> DEFINE In == Background \cup SeatdReply
           Out == SeatdCall \cup {"PING"}
           Rests == at \in {"pre", "post", "idle"} /\ call = "none"
           Pings == Has(out, "PING") \/ Has(sock, "PONG") \/ Has(inbuf, "PONG")
           Read == Rests => inbuf = <<>>
           Asleep == Rests /\ st # "none" /\ pending # <<>>
           Follows == awaiting_pong /\ st # "none" => Pings
           Good == Read' /\ (Asleep' => awaiting_pong') /\ Follows'
<1> SUFFICES ASSUME impl' = "seatd", error' = "none" PROVE Good
  BY DEF WakeInv
<1>1. CASE SeatdOpens
  BY <1>1 DEF SeatdOpens
<1> SUFFICES ASSUME impl = "seatd", SeatdRests \/ SeatdNext PROVE Good
  BY <1>1, SeatdSteps, BackendsApart DEF SeatdRests
<1>2. ASSUME NEW errno, errno # "none", set_error(errno) PROVE FALSE
  BY <1>2 DEF set_error
<1>3. error = "none" => Read /\ (Asleep => awaiting_pong) /\ Follows
  BY DEF WakeInv
<1>4. out \in Seq(Out) /\ sock \in Seq(In) /\ inbuf \in Seq(In) /\ awaiting_pong \in BOOLEAN
  BY DEF SeatdTypes
<1>n. "none" \notin Api /\ "check" \notin Api
  BY AnswersType
<1> HIDE DEF In, Out
<1>5. ASSUME UNCHANGED <<at, call, sock, inbuf, out, pending, awaiting_pong, error, st>> PROVE Good
  BY <1>3, <1>5
<1>6. SeatdRests \/ RunEvent => UNCHANGED <<at, call, sock, inbuf, out, pending, awaiting_pong, error, st>>
  BY DEF SeatdRests, RunEvent, seatdVars
<1>7. ASSUME NEW r \in Api, Request(r) PROVE Good
  <2>1. st # "none" /\ out' = Append(out, r) /\ call' = r /\ error = "none"
        /\ UNCHANGED <<sock, inbuf, awaiting_pong, st>>
    BY <1>2, <1>7 DEF Request
  <2>2. Has(out, "PING") => Has(out', "PING")
    BY <1>4, <2>1, HasAdded
  <2> QED
    BY <1>3, <1>n, <2>1, <2>2
<1>8. ASSUME NEW r \in Api, RequestAfterError(r) PROVE FALSE
  BY <1>8 DEF RequestAfterError, seatdVars
<1>9. ASSUME NEW wait, Dispatch(wait) PROVE Good
  <2>1. at' = "queue1" /\ UNCHANGED <<sock, inbuf, out, awaiting_pong, error, st>>
    BY <1>9 DEF Dispatch, seatdVars
  <2> QED
    BY <1>3, <2>1
<1>10. ASSUME NEW n, Arrives(n), UNCHANGED <<out, awaiting_pong, error, st>> PROVE Follows'
  <2>1. Has(sock, "PONG") \/ Has(inbuf, "PONG") => Has(sock', "PONG") \/ Has(inbuf', "PONG")
    BY <1>4, <1>10, HasMoved DEF Arrives
  <2> QED
    BY <1>3, <1>10, <2>1
<1>11. ASSUME NEW n, AwaitReply(n) PROVE Good
  <2>1. Arrives(n) /\ call' = call /\ call # "none" /\ UNCHANGED <<out, awaiting_pong, error, st>>
    BY <1>2, <1>11, <1>n DEF AwaitReply
  <2> QED
    BY <1>10, <2>1
<1>12. ASSUME NEW n, DispatchRead(n) PROVE Good
  <2>1. at = "pre" /\ call = "none" /\ UNCHANGED <<call, out, awaiting_pong, st>>
    BY <1>12 DEF DispatchRead, Executed
  <2>2. \/ Arrives(n) /\ at' = "queue2" /\ UNCHANGED <<pending, error>>
        \/ UNCHANGED <<sock, inbuf, pending, error>> /\ (at' = "idle" => st = "none" \/ error # "none")
           /\ at' \in {"idle", "queue2"}
    BY <1>2, <1>12 DEF DispatchRead
  <2>3. CASE Arrives(n) /\ at' = "queue2" /\ UNCHANGED <<pending, error>>
    BY <1>10, <2>1, <2>3
  <2>4. CASE UNCHANGED <<sock, inbuf, pending, error>>
    BY <1>3, <2>1, <2>2, <2>4
  <2> QED
    BY <2>2, <2>3, <2>4
<1>13. CASE ReadBackground
  <2>1. inbuf # <<>> /\ inbuf' = Tail(inbuf) /\ (call # "none" \/ at \in {"queue1", "queue2"})
        /\ UNCHANGED <<call, at, sock, out, error, st>>
        /\ awaiting_pong' = (IF Head(inbuf) = "PONG" THEN FALSE ELSE awaiting_pong)
    BY <1>13 DEF ReadBackground, Reading, threadVars
  <2>2. ASSUME Head(inbuf) # "PONG", Has(inbuf, "PONG") PROVE Has(inbuf', "PONG")
    BY <1>4, <2>1, <2>2, HasTail
  <2> QED
    BY <1>3, <2>1, <2>2
<1>14. CASE ReadReply
  <2>1. call \in Api /\ Head(inbuf) \in {ReplyTo(call), "ERROR"} /\ Head(inbuf) # "PONG"
    BY <1>2, <1>14 DEF ReadReply
  <2>2. inbuf # <<>> /\ inbuf' = Tail(inbuf) /\ UNCHANGED <<sock, out, awaiting_pong, st, error>>
        /\ call' = (IF call \in {"OPEN_SEAT", "CLOSE_SEAT"} THEN "none" ELSE "check")
    BY <1>14, <2>1 DEF ReadReply, Reading
  <2>3. call' = "none" => at' \in {"closing", "opening1", "failed"}
    <3>1. ReplyTo("OPEN_SEAT") = "SEAT_OPENED"
      BY DEF ReplyTo
    <3> QED
      BY <1>14, <2>1, <2>2, <3>1 DEF ReadReply
  <2>4. Has(inbuf, "PONG") => Has(inbuf', "PONG")
    BY <1>4, <2>1, <2>2, HasTail
  <2> QED
    BY <1>3, <2>2, <2>3, <2>4
<1>15. CASE check_pending_events
  <2>1. inbuf = <<>> /\ UNCHANGED <<sock, inbuf, st>> /\ call' = "none"
    BY <1>15 DEF check_pending_events
  <2>2. CASE pending = <<>> \/ awaiting_pong
    <3>1. UNCHANGED <<out, pending, awaiting_pong, error>>
      BY <1>15, <2>2 DEF check_pending_events
    <3> QED
      BY <1>3, <2>1, <2>2, <3>1
  <2>3. CASE ~(pending = <<>> \/ awaiting_pong)
    <3>1. out' = Append(out, "PING") /\ awaiting_pong' = TRUE
      BY <1>2, <1>15, <2>3 DEF check_pending_events
    <3>2. ASSUME NEW m, out' = Append(out, m) PROVE Has(out', m)
      BY <1>4, <3>2, HasAdded
    <3>3. Has(out', "PING")
      BY <3>1, <3>2
    <3> QED
      BY <2>1, <3>1, <3>3
  <2> QED
    BY <2>2, <2>3
<1>16. CASE execute_events
  <2>1. UNCHANGED <<sock, inbuf, out, awaiting_pong, error, st>> /\ pending' = <<>>
        /\ (at' \in {"pre", "post", "idle"} => inbuf = <<>>)
    BY <1>16 DEF execute_events
  <2> QED
    BY <1>3, <2>1
<1>17. CASE DispatchReturns \/ OpenReturns
  <2>1. UNCHANGED <<call, sock, inbuf, out, pending, awaiting_pong, error, st>>
        /\ ((at = "post" /\ at' = "idle") \/ at' = "opened")
    BY <1>17 DEF DispatchReturns, OpenReturns, Executed, seatdVars
  <2> QED
    BY <1>3, <2>1
<1>18. CASE close_seat \/ OpenFailed
  BY <1>18 DEF close_seat, OpenFailed, Closed
<1>19. ASSUME UNCHANGED libraryVars
       PROVE  UNCHANGED <<at, call, inbuf, pending, awaiting_pong, error>>
  BY <1>19 DEF libraryVars, threadVars
<1>20. ASSUME UNCHANGED libraryVars, Peer, Pings => Pings' PROVE Good
  BY <1>3, <1>19, <1>20 DEF Peer
<1>21. ASSUME NEW e, NEW g
       PROVE  /\ Has(sock, "PONG") => Has(sock \o <<e>>, "PONG")
              /\ Has(sock, "PONG") => Has(sock \o <<e, g>>, "PONG")
  BY <1>4, HasAdded
<1>22. ASSUME Takes, Head(out) # "PING", Has(out, "PING") PROVE Has(out', "PING")
  BY <1>4, <1>22, HasTail DEF Takes
<1>23. CASE handle_ping
  <2>1. UNCHANGED libraryVars /\ Peer /\ sock' = sock \o <<"PONG">>
    BY <1>23 DEF handle_ping, Sends
  <2>2. ASSUME NEW m, sock' = sock \o <<m>> PROVE Has(sock', m)
    BY <1>4, <2>2, HasAdded
  <2>3. Has(sock', "PONG")
    BY <2>1, <2>2
  <2> HIDE DEF Good
  <2> QED
    BY <1>20, <2>1, <2>3
<1>24. ASSUME UNCHANGED libraryVars, Peer, out' = out \/ (Takes /\ Head(out) # "PING"),
              Has(sock, "PONG") => Has(sock', "PONG")
       PROVE  Good
  <2>1. inbuf' = inbuf
    BY <1>19, <1>24
  <2>2. Has(out, "PING") => Has(out', "PING")
    BY <1>22, <1>24
  <2> HIDE DEF Good
  <2> QED
    BY <1>20, <1>24, <2>1, <2>2
<1>25. CASE Ends
  BY <1>3, <1>19, <1>25 DEF Ends, Detach, Peer
<1> HIDE DEF Good
<1>26. CASE handle_open_seat
  <2>1. sock' \in {sock \o <<"SEAT_OPENED">>, sock \o <<"SEAT_OPENED", "ENABLE_SEAT">>}
    BY <1>26 DEF handle_open_seat, Sends
  <2>2. Has(sock, "PONG") => Has(sock', "PONG")
    BY <1>21, <2>1
  <2> QED
    BY <1>24, <1>26, <2>2 DEF handle_open_seat
<1>27. CASE handle_close_seat
  <2>1. sock' \in {sock \o <<"SEAT_CLOSED">>}
    BY <1>27 DEF handle_close_seat, Sends
  <2>2. Has(sock, "PONG") => Has(sock', "PONG")
    BY <1>21, <2>1
  <2> QED
    BY <1>24, <1>27, <2>2 DEF handle_close_seat
<1>28. CASE handle_disable_seat
  <2>1. sock' \in {sock \o <<"SEAT_DISABLED">>, sock \o <<"ERROR">>,
                   sock \o <<"ENABLE_SEAT", "SEAT_DISABLED">>}
    BY <1>28 DEF handle_disable_seat, Sends
  <2>2. Has(sock, "PONG") => Has(sock', "PONG")
    BY <1>21, <2>1
  <2> QED
    BY <1>24, <1>28, <2>2 DEF handle_disable_seat
<1>29. CASE handle_device
  <2>1. sock' \in {sock \o <<ReplyTo(Head(out))>>, sock \o <<"ERROR">>}
    BY <1>29 DEF handle_device, Sends
  <2>2. Has(sock, "PONG") => Has(sock', "PONG")
    BY <1>21, <2>1
  <2> QED
    BY <1>24, <1>29, <2>2 DEF handle_device
<1>30. CASE handle_switch_session
  <2>1. sock' \in {sock \o <<"SESSION_SWITCHED">>, sock \o <<"ERROR">>,
                   sock \o <<"DISABLE_SEAT", "SESSION_SWITCHED">>}
    BY <1>30 DEF handle_switch_session, Sends
  <2>2. Has(sock, "PONG") => Has(sock', "PONG")
    BY <1>21, <2>1
  <2> QED
    BY <1>24, <1>30, <2>2 DEF handle_switch_session
<1>31. CASE client_send_enable_seat \/ client_send_disable_seat
  <2>1. sock' \in {sock \o <<"ENABLE_SEAT">>, sock \o <<"DISABLE_SEAT">>}
    BY <1>31 DEF client_send_enable_seat, client_send_disable_seat, Sends
  <2>2. Has(sock, "PONG") => Has(sock', "PONG")
    BY <1>21, <2>1
  <2> QED
    BY <1>24, <1>31, <2>2 DEF client_send_enable_seat, client_send_disable_seat
<1>32. SeatdLibrary => Good
  BY <1>5, <1>6, <1>11, <1>12, <1>13, <1>14, <1>15, <1>16, <1>17, <1>18 DEF SeatdLibrary
<1>33. SeatdUser => Good
  BY <1>7, <1>8, <1>9 DEF SeatdUser
<1>34. SeatdServer \/ SeatdDies => Good
  BY <1>23, <1>25, <1>26, <1>27, <1>28, <1>29, <1>30
  DEF SeatdServer, Serve, client_destroy, SeatdDies
<1> QED
  BY <1>5, <1>6, <1>31, <1>32, <1>33, <1>34 DEF SeatdNext
-----------------------------------------------------------------------------
(***************************************************************************)
(* The logind backend: replies.                                            *)
(***************************************************************************)

\* A message is added at the end of a queue.
LEMMA AppendIsConcat ==
  ASSUME NEW S, NEW q \in Seq(S), NEW m
  PROVE  Append(q, m) = q \o <<m>>
OBVIOUS

\* What a call may get is a reply, and no signal is one.
LEMMA LogindReplyType ==
  /\ \A c : LogindReplies(c) \subseteq LogindReply
  /\ \A m : IsReply(m) <=> m \in LogindReply
  /\ LogindReply \cap Signal = {}
BY DEF LogindReplies, LogindReply, IsReply, Signal

\* sd_bus_call finds its reply, with nothing more to come.
LEMMA LogindReplyRead ==
  ASSUME LogindInv, impl = "logind", call # "none", sock # <<>>, IsReply(Head(sock))
  PROVE  /\ out = <<>> /\ Tail(sock) \in Seq(Signal)
         /\ OneAmong(sock, LogindReplies(call), Signal) /\ Head(sock) \in LogindReplies(call)
<1>1. Head(sock) \notin Signal /\ LogindReplies(call) \cap Signal = {}
  BY LogindReplyType
<1>2. sock \notin Seq(Signal)
  BY <1>1
<1>3. out = <<>> /\ OneAmong(sock, LogindReplies(call), Signal) /\ sock \in Seq(Signal \cup LogindReply)
  BY <1>2 DEF LogindInv
<1> QED
  BY <1>1, <1>3, OneTail

\* Every step keeps LogindInv.
LEMMA LogindStep ==
  ASSUME ThreadInv, LogindInv, [Next]_vars
  PROVE  LogindInv'
<1> DEFINE In == Signal \cup LogindReply
           Out == LogindCall \cup {"PING"}
           Place == /\ at' \in {"opening", "opened", "idle", "process", "paused", "close"}
                    /\ at' = "opening" => call' \in {"GET_ACTIVE", "TAKE_CONTROL"}
                    /\ call' = "TAKE_CONTROL" => at' = "opening"
                    /\ call' = "GET_ACTIVE" => at' \in {"opening", "process"}
                    /\ call' = "PAUSE_COMPLETE" => at' = "process"
                    /\ call' \in LogindCall \cup {"none"}
           Types == inbuf' \in Seq(Signal) /\ sock' \in Seq(In) /\ out' \in Seq(Out)
           Waits == /\ call' = "none" => sock' \in Seq(Signal) /\ out' \in Seq({"PING"})
                    /\ call' # "none" => \/ EndsWith(out', call') /\ sock' \in Seq(Signal)
                                         \/ out' = <<>> /\ OneAmong(sock', LogindReplies(call'), Signal)
           Good == Place /\ Types /\ Waits
<1> SUFFICES ASSUME impl' = "logind" PROVE Good
  BY DEF LogindInv
<1>c. {"GET_ACTIVE", "TAKE_CONTROL", "PAUSE_COMPLETE", "CLOSE_SEAT"} \subseteq LogindCall
      /\ UserRequest \subseteq LogindCall /\ "none" \notin LogindCall /\ "PING" \notin LogindCall
      /\ UserRequest \cap {"GET_ACTIVE", "TAKE_CONTROL", "PAUSE_COMPLETE"} = {}
  BY RequestAssumption DEF LogindCall, UserRequests
<1>1. CASE LogindOpens
  <2>1. EndsWith(<<"GET_ACTIVE">>, "GET_ACTIVE") /\ <<"GET_ACTIVE">> \in Seq(Out)
    BY <1>c DEF EndsWith
  <2>2. <<>> \in Seq(Signal) /\ <<>> \in Seq(In)
    OBVIOUS
  <2> HIDE DEF In, Out
  <2> QED
    BY <1>1, <1>c, <2>1, <2>2 DEF LogindOpens
<1> SUFFICES ASSUME impl = "logind", LogindRests \/ LogindNext PROVE Good
  BY <1>1, LogindSteps, BackendsApart DEF LogindRests
<1>2. /\ at \in {"opening", "opened", "idle", "process", "paused", "close"}
      /\ at = "opening" => call \in {"GET_ACTIVE", "TAKE_CONTROL"}
      /\ call = "TAKE_CONTROL" => at = "opening"
      /\ call = "GET_ACTIVE" => at \in {"opening", "process"}
      /\ call = "PAUSE_COMPLETE" => at = "process"
      /\ call \in LogindCall \cup {"none"}
  BY DEF LogindInv
<1>3. inbuf \in Seq(Signal) /\ sock \in Seq(In) /\ out \in Seq(Out)
  BY DEF LogindInv
<1>4. /\ call = "none" => sock \in Seq(Signal) /\ out \in Seq({"PING"})
      /\ call # "none" => \/ EndsWith(out, call) /\ sock \in Seq(Signal)
                          \/ out = <<>> /\ OneAmong(sock, LogindReplies(call), Signal)
  BY DEF LogindInv
<1>5. {"Pong", "PauseDevice", "ForceDevice", "Active", "Inactive", "Invalidated"} \subseteq Signal
      /\ Signal \subseteq In /\ LogindReply \subseteq In /\ LogindCall \subseteq Out /\ "PING" \in Out
  BY DEF Signal
<1> HIDE DEF In, Out
<1>6. ASSUME UNCHANGED <<at, call, sock, inbuf, out>> PROVE Good
  BY <1>2, <1>3, <1>4, <1>6
<1>7. CASE LogindRests \/ disable_seat
  BY <1>6, <1>7 DEF LogindRests, disable_seat, threadVars
<1>8. ASSUME NEW r \in LogindCall, out \in Seq({"PING"}), sock' \in Seq(Signal), Calls(r)
      PROVE  Waits /\ out' \in Seq(Out) /\ sock' \in Seq(In)
  <2>1. EndsWith(Append(out, r), r)
    BY <1>8, EndsAppend
  <2>2. Append(out, r) \in Seq(Out)
    BY <1>3, <1>5, <1>8, QueueType
  <2>3. sock' \in Seq(In)
    BY <1>5, <1>8
  <2> QED
    BY <1>8, <1>c, <2>1, <2>2, <2>3 DEF Calls
<1> HIDE DEF Waits
<1>9. ASSUME NEW r \in Api, LogindRequest(r) PROVE Good
  <2>1. call = "none" /\ r \in UserRequest \cup {"CLOSE_SEAT"} /\ Calls(r)
        /\ UNCHANGED <<at, sock, inbuf>>
    BY <1>9 DEF LogindRequest, MayAsk, UserRuns, Idle
  <2>2. Waits /\ out' \in Seq(Out) /\ sock' \in Seq(In)
    BY <1>4, <1>8, <1>c, <2>1
  <2>3. Place
    BY <1>2, <1>c, <2>1 DEF Calls
  <2> QED
    BY <1>3, <2>1, <2>2, <2>3
<1>10. ASSUME NEW wait, dispatch_and_execute(wait) PROVE Good
  <2>1. call = "none" /\ at' = "process" /\ UNCHANGED <<call, sock, inbuf, out>>
    BY <1>10 DEF dispatch_and_execute, MayDispatch, Idle
  <2> QED
    BY <1>3, <1>4, <2>1 DEF Waits
<1>11. CASE QueueMessage
  <2>1. call # "none" /\ sock # <<>> /\ ~IsReply(Head(sock)) /\ UNCHANGED <<at, call, out>>
        /\ inbuf' = Append(inbuf, Head(sock)) /\ sock' = Tail(sock)
    BY <1>11 DEF QueueMessage, threadVars
  <2>2. Head(sock) \in Signal
    <3>1. Head(sock) \in Signal \cup LogindReply
      BY <1>3, <2>1 DEF In
    <3> QED
      BY <2>1, <3>1, LogindReplyType
  <2>3. inbuf' \in Seq(Signal) /\ sock' \in Seq(In)
    BY <1>3, <2>1, <2>2, QueueType
  <2>4. sock \in Seq(Signal) => sock' \in Seq(Signal)
    BY <2>1, QueueType
  <2>5. OneAmong(sock, LogindReplies(call), Signal) => OneAmong(sock', LogindReplies(call), Signal)
    <3>1. LogindReplies(call) \cap Signal = {}
      BY LogindReplyType
    <3> QED
      BY <1>3, <2>1, <2>2, <3>1, OneTail
  <2> QED
    BY <1>2, <1>3, <1>4, <2>1, <2>3, <2>4, <2>5 DEF Waits
<1>12. CASE CallReturns
  <2>1. call # "none" /\ sock # <<>> /\ IsReply(Head(sock)) /\ sock' = Tail(sock) /\ inbuf' = inbuf
    BY <1>12 DEF CallReturns
  <2>2. out = <<>> /\ sock' \in Seq(Signal)
    BY <2>1, LogindReplyRead
  <2>3. sock' \in Seq(In)
    BY <1>3, <2>1, QueueType
  <2>4. CASE call = "GET_ACTIVE" /\ at = "opening"
    <3>1. Calls("TAKE_CONTROL") /\ at' = at
      BY <1>12, <2>4 DEF CallReturns
    <3>2. Waits /\ out' \in Seq(Out) /\ sock' \in Seq(In)
      <4>1. out \in Seq({"PING"})
        BY <2>2
      <4> QED
        BY <1>8, <1>c, <2>2, <3>1, <4>1
    <3>3. Place
      BY <1>2, <1>c, <2>4, <3>1 DEF Calls
    <3> QED
      BY <1>3, <2>1, <3>2, <3>3
  <2>5. CASE ~(call = "GET_ACTIVE" /\ at = "opening")
    <3>1. call' = "none" /\ out' \in {<<>>, Append(<<>>, "PING")}
          /\ (at' = at \/ at' = "opened" \/ at' = "close")
          /\ (call = "TAKE_CONTROL" => at' = "opened")
      BY <1>12, <2>2, <2>5 DEF CallReturns, Pinged
    <3>2. out' \in Seq({"PING"}) /\ out' \in Seq(Out)
      <4>1. \A S : "PING" \in S => <<>> \in Seq(S) /\ Append(<<>>, "PING") \in Seq(S)
        BY QueueType
      <4> QED
        BY <1>5, <3>1, <4>1
    <3>3. Place
      BY <1>2, <1>c, <2>5, <3>1
    <3> QED
      BY <1>3, <2>1, <2>2, <2>3, <3>1, <3>2, <3>3 DEF Waits
  <2> QED
    BY <2>4, <2>5
<1>13. CASE sd_bus_process
  <2>1. call = "none" /\ at = "process"
    BY <1>13 DEF sd_bus_process, Processing
  <2>2. inbuf' \in Seq(Signal) /\ sock' \in Seq(Signal) /\ sock' \in Seq(In)
    BY <1>3, <1>4, <1>13, <2>1, QueueType DEF sd_bus_process
  <2>3. PICK m : Process(m)
    BY <1>13 DEF sd_bus_process
  <2>4. CASE m = "Invalidated"
    <3>1. Calls("GET_ACTIVE") /\ at' = at
      BY <2>3, <2>4 DEF Process
    <3>2. Waits /\ out' \in Seq(Out)
      BY <1>4, <1>8, <1>c, <2>1, <2>2, <3>1
    <3>3. Place
      BY <1>c, <2>1, <3>1 DEF Calls
    <3> QED
      BY <2>2, <3>2, <3>3
  <2>5. CASE m # "Invalidated"
    <3>1. call' = call /\ out' = out /\ at' \in {at, "paused"}
      BY <2>3, <2>5 DEF Process
    <3> QED
      BY <1>3, <1>4, <2>1, <2>2, <3>1 DEF Waits
  <2> QED
    BY <2>4, <2>5
<1>14. CASE PauseDeviceComplete
  <2>1. call = "none" /\ at' = "process" /\ Calls("PAUSE_COMPLETE") /\ UNCHANGED <<sock, inbuf>>
    BY <1>14 DEF PauseDeviceComplete
  <2>2. Waits /\ out' \in Seq(Out) /\ sock' \in Seq(In)
    BY <1>4, <1>8, <1>c, <2>1
  <2>3. Place
    BY <1>c, <2>1 DEF Calls
  <2> QED
    BY <1>3, <2>1, <2>2, <2>3
<1>15. CASE ProcessReturns
  <2>1. call = "none" /\ at' = "idle" /\ UNCHANGED <<call, sock, inbuf, out>>
    BY <1>15 DEF ProcessReturns, Processing
  <2> QED
    BY <1>3, <1>4, <2>1 DEF Waits
<1>16. CASE LogindClosed
  BY <1>16 DEF LogindClosed, Closed
<1>17. CASE LogindServes
  <2> DEFINE m == CASE Head(out) = "PING" -> "Pong"
                    [] Head(out) = "GET_ACTIVE" -> Got(granted)
                    [] OTHER -> "Reply"
  <2>1. out # <<>> /\ out' = Tail(out) /\ sock' = Append(sock, m) /\ UNCHANGED <<at, call, inbuf>>
    BY <1>17 DEF LogindServes, userVars, threadVars
  <2>2. /\ Head(out) = "PING" => m = "Pong"
        /\ Head(out) = call /\ call # "PING" => m \in LogindReplies(call)
        /\ m \in Signal \cup LogindReply
    BY <1>5 DEF LogindReplies, LogindReply, Got
  <2> HIDE DEF m
  <2>3. out' \in Seq(Out) /\ sock' \in Seq(In)
    BY <1>3, <1>5, <2>1, <2>2, QueueType
  <2>4. ASSUME call = "none" PROVE sock' \in Seq(Signal) /\ out' \in Seq({"PING"})
    <3>1. Head(out) = "PING" /\ Tail(out) \in Seq({"PING"})
      BY <1>4, <2>1, <2>4
    <3> QED
      BY <1>4, <1>5, <2>1, <2>2, <2>4, <3>1, QueueType
  <2>5. ASSUME call # "none"
        PROVE  \/ EndsWith(out', call) /\ sock' \in Seq(Signal)
               \/ out' = <<>> /\ OneAmong(sock', LogindReplies(call), Signal)
    <3>1. EndsWith(out, call) /\ sock \in Seq(Signal) /\ call # "PING"
      BY <1>2, <1>4, <1>c, <2>1, <2>5
    <3>2. CASE Head(out) = "PING"
      BY <1>3, <1>5, <2>1, <2>2, <3>1, <3>2, EndsTail, QueueType
    <3>3. CASE Head(out) # "PING"
      <4>1. Head(out) = call /\ out' = <<>>
        BY <1>3, <2>1, <3>1, <3>3, EndsTail
      <4>2. sock' = sock \o <<m>>
        BY <1>3, <2>1, AppendIsConcat
      <4>3. m \in LogindReplies(call) /\ "Pong" \in Signal
        BY <1>5, <2>2, <3>1, <4>1
      <4> QED
        BY <3>1, <4>1, <4>2, <4>3, OneArrives
    <3> QED
      BY <3>2, <3>3
  <2> QED
    BY <1>2, <1>3, <2>1, <2>3, <2>4, <2>5 DEF Waits
<1>18. CASE LogindPauses \/ LogindSwitches
  <2>1. PICK m \in Signal : sock' = Append(sock, m)
    BY <1>5, <1>18 DEF LogindPauses, LogindSwitches, Changed
  <2>2. UNCHANGED <<at, call, inbuf, out>>
    BY <1>18 DEF LogindPauses, LogindSwitches, userVars, threadVars
  <2>3. sock' \in Seq(In) /\ (sock \in Seq(Signal) => sock' \in Seq(Signal))
    BY <1>3, <1>5, <2>1, QueueType
  <2>4. OneAmong(sock, LogindReplies(call), Signal) => OneAmong(sock', LogindReplies(call), Signal)
    <3>1. sock' = sock \o <<m>>
      BY <1>3, <2>1, AppendIsConcat
    <3> QED
      BY <1>3, <3>1, OneStays
  <2> QED
    BY <1>2, <1>3, <1>4, <2>2, <2>3, <2>4 DEF Waits
<1> HIDE DEF Good
<1>19. LogindLibrary => Good
  BY <1>11, <1>12, <1>13, <1>14, <1>15, <1>16 DEF LogindLibrary
<1>20. LogindUser => Good
  BY <1>7, <1>9, <1>10 DEF LogindUser
<1> QED
  BY <1>7, <1>17, <1>18, <1>19, <1>20 DEF LogindNext

\* Every step keeps LogindWakeInv.
LEMMA LogindWakeStep ==
  ASSUME ThreadInv, LogindInv, LogindWakeInv, [Next]_vars
  PROVE  LogindWakeInv'
<1> DEFINE Wakes == inbuf' = <<>> \/ sock' # <<>> \/ Has(out', "PING")
<1> SUFFICES ASSUME impl' = "logind", at' \in {"opened", "idle"}, call' = "none" PROVE Wakes
  BY DEF LogindWakeInv
<1>1. CASE LogindOpens
  BY <1>1 DEF LogindOpens
<1> SUFFICES ASSUME impl = "logind", LogindRests \/ LogindNext PROVE Wakes
  BY <1>1, LogindSteps, BackendsApart DEF LogindRests
<1>2. at \in {"opened", "idle"} /\ call = "none" => inbuf = <<>> \/ sock # <<>> \/ Has(out, "PING")
  BY DEF LogindWakeInv
<1>3. sock \in Seq(Signal \cup LogindReply) /\ out \in Seq(LogindCall \cup {"PING"})
      /\ (call = "GET_ACTIVE" => at \in {"opening", "process"})
      /\ (call = "PAUSE_COMPLETE" => at = "process")
  BY DEF LogindInv
<1>4. CASE LogindRests \/ disable_seat
  BY <1>2, <1>4 DEF LogindRests, disable_seat, threadVars
<1>5. ASSUME NEW r \in Api, LogindRequest(r) PROVE FALSE
  <2>1. r \in {"CLOSE_SEAT"} \cup UserRequest
    BY <1>5 DEF LogindRequest, MayAsk
  <2> QED
    BY <1>5, <2>1, RequestAssumption DEF LogindRequest, Calls
<1>6. ASSUME NEW wait, dispatch_and_execute(wait) PROVE FALSE
  BY <1>6 DEF dispatch_and_execute
<1>7. CASE QueueMessage
  BY <1>7 DEF QueueMessage, threadVars
<1>8. CASE CallReturns
  <2>1. inbuf' = inbuf
    BY <1>8 DEF CallReturns
  <2>2. Pinged(inbuf)
    BY <1>3, <1>8 DEF CallReturns, Calls
  <2>3. ASSUME NEW m, out' = Append(out, m) PROVE Has(out', m)
    BY <1>3, <2>3, HasAdded
  <2> QED
    BY <2>1, <2>2, <2>3 DEF Pinged
<1>9. CASE sd_bus_process
  <2>1. PICK m : at = "process" /\ Process(m)
    BY <1>9 DEF sd_bus_process, Processing
  <2> QED
    BY <2>1 DEF Process, Calls
<1>10. CASE PauseDeviceComplete \/ ProcessReturns \/ LogindClosed
  BY <1>10 DEF PauseDeviceComplete, ProcessReturns, LogindClosed, Closed
<1>11. CASE LogindServes \/ LogindPauses \/ LogindSwitches
  <2>1. PICK m : sock' = Append(sock, m)
    BY <1>11 DEF LogindServes, LogindPauses, LogindSwitches
  <2> QED
    BY <1>3, <2>1
<1> QED
  BY <1>4, <1>5, <1>6, <1>7, <1>8, <1>9, <1>10, <1>11 DEF LogindNext, LogindUser, LogindLibrary
-----------------------------------------------------------------------------
(***************************************************************************)
(* The logind backend: what the user believes.                             *)
(***************************************************************************)

\* A message is added to a queue: it is the last of R, or none of R.
LEMMA LastAdded ==
  ASSUME NEW T, NEW q \in Seq(T), NEW m, NEW R, NEW S
  PROVE  /\ m \in R /\ m \in S => LastIn(Append(q, m), R, S)
         /\ m \notin R /\ LastIn(q, R, S) => LastIn(Append(q, m), R, S)
         /\ m \notin R /\ Without(q, R) => Without(Append(q, m), R)
<1> DEFINE a == Append(q, m)
           n == Len(q)
<1>1. n \in Nat /\ Len(a) = n + 1 /\ a[n + 1] = m /\ \A i \in 1..n : a[i] = q[i]
  OBVIOUS
<1> HIDE DEF a, n
<1>2. n + 1 \in 1..(n + 1) /\ 1..n \subseteq 1..(n + 1)
  BY <1>1
<1>3. \A i \in 1..(n + 1) : i \in 1..n \/ i = n + 1
  BY <1>1
<1>4. \A i \in 1..(n + 1) : ~(i > n + 1)
  BY <1>1
<1>5. m \in R /\ m \in S => LastIn(a, R, S)
  BY <1>1, <1>2, <1>4 DEF LastIn
<1>6. ASSUME m \notin R, LastIn(q, R, S) PROVE LastIn(a, R, S)
  <2>1. PICK k \in 1..n : q[k] \in R /\ q[k] \in S /\ \A i \in 1..n : i > k => q[i] \notin R
    BY <1>6 DEF LastIn, n
  <2>2. k \in 1..(n + 1) /\ a[k] \in R /\ a[k] \in S
    BY <1>1, <1>2, <2>1
  <2>3. ASSUME NEW i \in 1..(n + 1), i > k PROVE a[i] \notin R
    BY <1>1, <1>3, <1>6, <2>1, <2>3
  <2> QED
    BY <1>1, <2>2, <2>3 DEF LastIn
<1>7. m \notin R /\ Without(q, R) => Without(a, R)
  BY <1>1, <1>3 DEF Without, n
<1> QED
  BY <1>5, <1>6, <1>7 DEF a

\* A message is taken from a queue: it was the last of R, or the last of R is
\* still there.
LEMMA LastTaken ==
  ASSUME NEW T, NEW q \in Seq(T), q # <<>>, NEW R, NEW S
  PROVE  /\ Without(q, R) => Head(q) \notin R /\ Without(Tail(q), R)
         /\ LastIn(q, R, S) => \/ LastIn(Tail(q), R, S)
                               \/ Head(q) \in R /\ Head(q) \in S /\ Without(Tail(q), R)
<1> DEFINE t == Tail(q)
           n == Len(q)
<1>1. n \in Nat /\ n > 0 /\ Len(t) = n - 1 /\ Head(q) = q[1] /\ \A i \in 1..(n - 1) : t[i] = q[i + 1]
  OBVIOUS
<1> HIDE DEF t, n
<1>2. 1 \in 1..n /\ \A i \in 1..(n - 1) : i + 1 \in 1..n
  BY <1>1
<1>3. Without(q, R) => Head(q) \notin R /\ Without(t, R)
  BY <1>1, <1>2 DEF Without, n
<1>4. ASSUME LastIn(q, R, S)
      PROVE  LastIn(t, R, S) \/ (Head(q) \in R /\ Head(q) \in S /\ Without(t, R))
  <2>1. PICK k \in 1..n : q[k] \in R /\ q[k] \in S /\ \A i \in 1..n : i > k => q[i] \notin R
    BY <1>4 DEF LastIn, n
  <2>2. CASE k = 1
    <3>1. ASSUME NEW i \in 1..(n - 1) PROVE t[i] \notin R
      <4>1. i + 1 \in 1..n /\ i + 1 > k
        BY <1>1, <2>2
      <4> QED
        BY <1>1, <2>1, <4>1
    <3> QED
      BY <1>1, <2>1, <2>2, <3>1 DEF Without
  <2>3. CASE k # 1
    <3>1. k - 1 \in 1..(n - 1) /\ (k - 1) + 1 = k
      BY <1>1, <2>1, <2>3
    <3>2. t[k - 1] = q[k]
      BY <1>1, <3>1
    <3>3. ASSUME NEW i \in 1..(n - 1), i > k - 1 PROVE t[i] \notin R
      <4>1. i + 1 \in 1..n /\ i + 1 > k
        BY <1>1, <2>1, <3>3
      <4> QED
        BY <1>1, <2>1, <4>1
    <3> QED
      BY <1>1, <2>1, <3>1, <3>2, <3>3 DEF LastIn
  <2> QED
    BY <2>2, <2>3
<1> QED
  BY <1>3, <1>4 DEF t

\* The one reply in a queue is the first message, if that is a reply.
LEMMA ReplyIsFirst ==
  ASSUME NEW T, NEW q \in Seq(T), NEW M, NEW B, OneAmong(q, M, B), q # <<>>, Head(q) \notin B,
         NEW m, m \notin B, Has(q, m)
  PROVE  Head(q) = m
<1>1. PICK k \in 1..Len(q) : q[k] \in M /\ \A i \in 1..Len(q) : i # k => q[i] \in B
  BY DEF OneAmong
<1>2. 1 \in 1..Len(q) /\ Head(q) = q[1]
  OBVIOUS
<1>3. k = 1
  BY <1>1, <1>2
<1> QED
  BY <1>1, <1>2, <1>3 DEF Has

\* A message is read or handled, and it is no signal about the seat: what is
\* to be handled still agrees with logind.
LEMMA OtherRead ==
  ASSUME NEW T, NEW q \in Seq(T), q # <<>>, Head(q) \notin SeatSignal
  PROVE  /\ LastIn(q, SeatSignal, Current) => LastIn(Tail(q), SeatSignal, Current)
         /\ Without(q, SeatSignal) => Without(Tail(q), SeatSignal)
BY LastTaken

\* What set_active leaves: the backend and the user hold the same.
LEMMA SetActive ==
  ASSUME app \in User, active \in BOOLEAN, NEW v \in BOOLEAN, set_active(v)
  PROVE  active' = v /\ (app.enabled = active => app'.enabled = active')
<1>1. Told("ENABLE_SEAT").enabled = TRUE /\ Told("DISABLE_SEAT").enabled = FALSE
  BY DEF Told, User
<1>2. CASE active = v
  BY <1>2 DEF set_active
<1>3. CASE active # v
  <2>1. active' = v /\ app' = Told(IF v THEN "ENABLE_SEAT" ELSE "DISABLE_SEAT")
    BY <1>3 DEF set_active, Deliver
  <2>2. CASE v = TRUE
    BY <1>1, <2>1, <2>2
  <2>3. CASE v = FALSE
    BY <1>1, <2>1, <2>3
  <2> QED
    BY <2>2, <2>3
<1> QED
  BY <1>2, <1>3

\* sd_bus_process handles the first message of a queue, and what is to be
\* handled after it still agrees with logind.
LEMMA ProcessStep ==
  ASSUME ThreadInv, LogindInv, impl = "logind", Processing,
         NEW m, Process(m), Settled \/ (m \in SeatSignal /\ m \in Current),
         m \in SeatSignal => m \in Current
  PROVE  Settled'
<1>1. call = "none" /\ out \in Seq({"PING"}) /\ pausing' = pausing /\ granted' = granted
      /\ app \in User /\ active \in BOOLEAN /\ granted \in BOOLEAN
  BY DEF LogindInv, Processing, Process, ThreadInv, User
<1>2. CASE m \in {"Active", "Inactive"}
  <2>1. (m = "Active") = granted
    BY <1>1, <1>2 DEF SeatSignal, Current
  <2>2. set_active(m = "Active") /\ call' = call
    BY <1>2 DEF Process
  <2> QED
    BY <1>1, <2>1, <2>2, SetActive DEF Settled
<1>3. CASE m = "Invalidated"
  <2>1. Calls("GET_ACTIVE")
    BY <1>3 DEF Process
  <2>2. EndsWith(Append(out, "GET_ACTIVE"), "GET_ACTIVE")
    BY <1>1, EndsAppend
  <2> QED
    BY <2>1, <2>2 DEF Settled, Calls
<1>4. CASE m = "PauseDevice"
  <2>1. pausing # "no" /\ call' = call
    BY <1>4 DEF SeatSignal, Current, Process
  <2> QED
    BY <1>1, <2>1 DEF Settled
<1>5. CASE m \notin SeatSignal
  <2>1. call' = call /\ active' = active
    BY <1>5 DEF Process, SeatSignal
  <2> QED
    BY <1>1, <1>5, <2>1 DEF Settled
<1> QED
  BY <1>2, <1>3, <1>4, <1>5 DEF SeatSignal

\* Every step keeps BeliefInv.
LEMMA BeliefStep ==
  ASSUME ThreadInv, LogindInv, BeliefInv, [Next]_vars
  PROVE  BeliefInv'
<1> DEFINE Set == at' \in {"idle", "process", "paused"} => ~initial_setup'
           Same == ~initial_setup' /\ at' # "opening" => app'.enabled = active'
           Good == Set /\ Same /\ Corrected'
<1> SUFFICES ASSUME impl' = "logind" PROVE Good
  BY DEF BeliefInv
<1>1. CASE LogindOpens
  <2>1. EndsWith(<<"GET_ACTIVE">>, "GET_ACTIVE") /\ Without(<<>>, SeatSignal)
    BY DEF EndsWith, Without
  <2> QED
    BY <1>1, <2>1 DEF LogindOpens, Corrected, Settled
<1> SUFFICES ASSUME impl = "logind", LogindRests \/ LogindNext PROVE Good
  BY <1>1, LogindSteps, BackendsApart DEF LogindRests
<1>2. /\ at \in {"idle", "process", "paused"} => ~initial_setup
      /\ ~initial_setup /\ at # "opening" => app.enabled = active
      /\ Corrected
  BY DEF BeliefInv
<1>3. /\ app \in User /\ active \in BOOLEAN /\ granted \in BOOLEAN /\ initial_setup \in BOOLEAN
      /\ inbuf \in Seq(Signal) /\ sock \in Seq(Signal \cup LogindReply)
      /\ (call = "none" => sock \in Seq(Signal) /\ out \in Seq({"PING"}))
      /\ (call = "GET_ACTIVE" => at \in {"opening", "process"})
      /\ (call = "TAKE_CONTROL" => at = "opening")
  BY DEF ThreadInv, LogindInv, User
<1>4. UNCHANGED <<granted, pausing>> => Current' = Current
  BY DEF Current
<1>5. ASSUME UNCHANGED <<sock, inbuf, granted, pausing>>, Settled => Settled' PROVE Corrected'
  BY <1>2, <1>4, <1>5 DEF Corrected
<1>6. ASSUME UNCHANGED <<active, app, initial_setup>>, at' = at \/ at' = "process",
             at' = "process" => at \in {"process", "paused"}
      PROVE  Set /\ Same
  BY <1>2, <1>6
<1>7. CASE LogindRests \/ disable_seat
  <2>1. UNCHANGED <<at, call, sock, inbuf, out, logindVars>> /\ app'.enabled = app.enabled
    BY <1>3, <1>7 DEF LogindRests, disable_seat, threadVars, Asked, User
  <2>2. Settled => Settled'
    BY <2>1 DEF Settled, logindVars
  <2> QED
    BY <1>2, <1>5, <2>1, <2>2 DEF logindVars
<1>8. ASSUME NEW r \in Api, LogindRequest(r) PROVE Good
  <2>1. call = "none" /\ r \in UserRequest \cup {"CLOSE_SEAT"} /\ call' = r
        /\ UNCHANGED <<at, app, sock, inbuf, logindVars>>
    BY <1>8 DEF LogindRequest, MayAsk, UserRuns, Idle, Calls
  <2>2. r # "GET_ACTIVE"
    BY <2>1, RequestAssumption
  <2> QED
    BY <1>5, <1>6, <2>1, <2>2 DEF Settled, logindVars
<1>9. ASSUME NEW wait, dispatch_and_execute(wait) PROVE Good
  <2>1. /\ at \in {"opened", "idle"} /\ at' = "process" /\ ~initial_setup'
        /\ UNCHANGED <<call, sock, inbuf, out, active, granted, pausing>>
    BY <1>9 DEF dispatch_and_execute, MayDispatch, Idle
  <2>2. Same
    <3>1. CASE initial_setup
      <4>1. app' = Told(IF active THEN "ENABLE_SEAT" ELSE "DISABLE_SEAT")
        BY <1>9, <3>1 DEF dispatch_and_execute, Deliver
      <4>2. Told("ENABLE_SEAT").enabled = TRUE /\ Told("DISABLE_SEAT").enabled = FALSE
        BY <1>3 DEF Told, User
      <4>3. CASE active = TRUE
        BY <2>1, <4>1, <4>2, <4>3
      <4>4. CASE active = FALSE
        BY <2>1, <4>1, <4>2, <4>4
      <4> QED
        BY <1>3, <4>3, <4>4
    <3>2. CASE ~initial_setup
      <4>1. app' = app
        BY <1>9, <3>2 DEF dispatch_and_execute
      <4> QED
        BY <1>2, <2>1, <3>2, <4>1
    <3> QED
      BY <3>1, <3>2
  <2> QED
    BY <1>5, <2>1, <2>2 DEF Settled
<1>10. CASE QueueMessage
  <2>1. /\ sock # <<>> /\ ~IsReply(Head(sock)) /\ sock' = Tail(sock)
        /\ inbuf' = Append(inbuf, Head(sock)) /\ UNCHANGED <<at, call, app, out, logindVars>>
    BY <1>10 DEF QueueMessage, threadVars
  <2>2. Current' = Current
    BY <1>4, <2>1 DEF logindVars
  <2>3. ASSUME LastIn(sock, SeatSignal, Current) PROVE Corrected'
    <3>1. LastIn(sock', SeatSignal, Current)
          \/ (Head(sock) \in SeatSignal /\ Head(sock) \in Current /\ Without(sock', SeatSignal))
      BY <1>3, <2>1, <2>3, LastTaken
    <3>2. Head(sock) \in SeatSignal /\ Head(sock) \in Current => LastIn(inbuf', SeatSignal, Current)
      BY <1>3, <2>1, LastAdded
    <3> QED
      BY <2>2, <3>1, <3>2 DEF Corrected
  <2>4. ASSUME Without(sock, SeatSignal) PROVE Corrected'
    <3>1. Head(sock) \notin SeatSignal /\ Without(sock', SeatSignal)
      BY <1>3, <2>1, <2>4, LastTaken
    <3>2. /\ LastIn(inbuf, SeatSignal, Current) => LastIn(inbuf', SeatSignal, Current)
          /\ Without(inbuf, SeatSignal) => Without(inbuf', SeatSignal)
      BY <1>3, <2>1, <3>1, LastAdded
    <3>3. Has(sock, Got(granted)) => Has(sock', Got(granted))
      <4>1. Head(sock) # Got(granted)
        BY <2>1 DEF Got, IsReply
      <4> QED
        BY <1>3, <2>1, <4>1, HasTail
    <3>4. Settled => Settled'
      BY <2>1, <3>3 DEF Settled, logindVars, Got
    <3>5. LastIn(inbuf, SeatSignal, Current) \/ (Without(inbuf, SeatSignal) /\ Settled)
            \/ LastIn(sock, SeatSignal, Current)
      BY <1>2 DEF Corrected
    <3> QED
      BY <2>2, <2>3, <3>1, <3>2, <3>4, <3>5 DEF Corrected
  <2>5. Corrected'
    BY <1>2, <2>3, <2>4 DEF Corrected
  <2> QED
    BY <1>6, <2>1, <2>5 DEF logindVars
<1>11. CASE CallReturns
  <2>1. /\ call # "none" /\ sock # <<>> /\ IsReply(Head(sock)) /\ sock' = Tail(sock)
        /\ UNCHANGED <<inbuf, granted, pausing>>
    BY <1>11 DEF CallReturns
  <2>2. /\ out = <<>> /\ OneAmong(sock, LogindReplies(call), Signal)
        /\ Head(sock) \in LogindReplies(call) /\ Head(sock) \notin SeatSignal
        /\ Head(sock) \notin Signal
    <3>1. Head(sock) \notin SeatSignal /\ Head(sock) \notin Signal
      BY <2>1 DEF IsReply, SeatSignal, Signal
    <3> QED
      BY <2>1, <3>1, LogindReplyRead
  <2>3. ASSUME call = "GET_ACTIVE", Settled PROVE Head(sock) = Got(granted)
    <3>1. Has(sock, Got(granted))
      BY <2>2, <2>3 DEF Settled, EndsWith
    <3>2. Got(granted) \notin Signal
      BY DEF Got, Signal
    <3> QED
      BY <1>3, <2>1, <2>2, <3>1, <3>2, ReplyIsFirst
  <2>4. ASSUME Settled => Settled' PROVE Corrected'
    <3>1. /\ LastIn(sock, SeatSignal, Current) => LastIn(sock', SeatSignal, Current)
          /\ Without(sock, SeatSignal) => Without(sock', SeatSignal)
      BY <1>3, <2>1, <2>2, OtherRead
    <3> QED
      BY <1>2, <1>4, <2>1, <2>4, <3>1 DEF Corrected
  <2>5. CASE call = "GET_ACTIVE"
    <3>1. (Head(sock) = "GotActive") = granted \/ ~Settled
      BY <1>3, <2>3, <2>5 DEF Got
    <3>2. CASE at = "opening"
      <4>1. active' = (Head(sock) = "GotActive") /\ call' = "TAKE_CONTROL" /\ at' = at
        BY <1>11, <2>5, <3>2 DEF CallReturns, Calls
      <4>2. Settled => Settled'
        BY <2>1, <3>1, <4>1 DEF Settled
      <4> QED
        BY <2>4, <3>2, <4>1, <4>2
    <3>3. CASE at # "opening"
      <4>1. set_active(Head(sock) = "GotActive") /\ call' = "none" /\ UNCHANGED <<at, initial_setup>>
        BY <1>11, <2>5, <3>3 DEF CallReturns
      <4>2. active' = (Head(sock) = "GotActive") /\ (app.enabled = active => app'.enabled = active')
        BY <1>3, <4>1, SetActive
      <4>3. Settled => Settled'
        BY <2>1, <3>1, <4>1, <4>2 DEF Settled
      <4> QED
        BY <1>2, <2>4, <3>3, <4>1, <4>2, <4>3
    <3> QED
      BY <3>2, <3>3
  <2>6. CASE call # "GET_ACTIVE"
    <3>1. call' = "none" /\ UNCHANGED <<active, app>>
      BY <1>11, <2>6 DEF CallReturns
    <3>2. CASE call = "TAKE_CONTROL"
      <4>1. at' = "opened" /\ initial_setup' = TRUE
        BY <1>11, <3>2 DEF CallReturns
      <4> QED
        BY <2>1, <2>4, <2>6, <3>1, <4>1 DEF Settled
    <3>3. CASE call # "TAKE_CONTROL"
      <4>1. initial_setup' = initial_setup /\ at' \in {at, "close"} /\ at # "opening"
        BY <1>11, <2>1, <2>6, <3>3 DEF CallReturns, LogindInv
      <4> QED
        BY <1>2, <2>1, <2>4, <2>6, <3>1, <4>1 DEF Settled
    <3> QED
      BY <3>2, <3>3
  <2> QED
    BY <2>5, <2>6
<1>12. CASE sd_bus_process
  <2>1. PICK m :
          /\ Process(m)
          /\ \/ inbuf # <<>> /\ m = Head(inbuf) /\ inbuf' = Tail(inbuf) /\ sock' = sock
             \/ inbuf = <<>> /\ sock # <<>> /\ m = Head(sock) /\ sock' = Tail(sock) /\ inbuf' = inbuf
    BY <1>12 DEF sd_bus_process
  <2>2. Processing /\ at = "process" /\ ~initial_setup /\ app.enabled = active
    BY <1>2, <1>12 DEF sd_bus_process, Processing
  <2>3. UNCHANGED <<initial_setup, granted, pausing>> /\ Current' = Current
    BY <1>4, <2>1 DEF Process
  <2>4. Set /\ Same
    <3>1. (active' = active /\ app' = app) \/ set_active(m = "Active") \/ set_active(FALSE)
      BY <2>1 DEF Process
    <3>2. app'.enabled = active'
      BY <1>3, <2>2, <3>1, SetActive
    <3> QED
      BY <2>2, <2>3, <3>2
  <2>5. ASSUME Settled \/ (m \in SeatSignal /\ m \in Current), m \in SeatSignal => m \in Current
        PROVE  Settled'
    BY <2>1, <2>2, <2>5, ProcessStep
  <2>6. CASE inbuf # <<>>
    <3>1. m = Head(inbuf) /\ inbuf' = Tail(inbuf) /\ sock' = sock
      BY <2>1, <2>6
    <3>2. CASE LastIn(sock, SeatSignal, Current)
      BY <2>3, <2>4, <3>1, <3>2 DEF Corrected
    <3>3. CASE Without(sock, SeatSignal) /\ LastIn(inbuf, SeatSignal, Current)
      <4>1. LastIn(inbuf', SeatSignal, Current)
            \/ (m \in SeatSignal /\ m \in Current /\ Without(inbuf', SeatSignal))
        BY <1>3, <2>6, <3>1, <3>3, LastTaken
      <4> QED
        BY <2>3, <2>4, <2>5, <3>1, <3>3, <4>1 DEF Corrected
    <3>4. CASE Without(sock, SeatSignal) /\ Without(inbuf, SeatSignal) /\ Settled
      <4>1. m \notin SeatSignal /\ Without(inbuf', SeatSignal)
        BY <1>3, <2>6, <3>1, <3>4, LastTaken
      <4> QED
        BY <2>3, <2>4, <2>5, <3>1, <3>4, <4>1 DEF Corrected
    <3> QED
      BY <1>2, <3>2, <3>3, <3>4 DEF Corrected
  <2>7. CASE inbuf = <<>>
    <3>1. sock # <<>> /\ m = Head(sock) /\ sock' = Tail(sock) /\ inbuf' = inbuf
      BY <2>1, <2>7
    <3>2. Without(inbuf, SeatSignal) /\ ~LastIn(inbuf, SeatSignal, Current)
      BY <2>7 DEF Without, LastIn
    <3>3. CASE LastIn(sock, SeatSignal, Current)
      <4>1. LastIn(sock', SeatSignal, Current)
            \/ (m \in SeatSignal /\ m \in Current /\ Without(sock', SeatSignal))
        BY <1>3, <3>1, <3>3, LastTaken
      <4> QED
        BY <2>3, <2>4, <2>5, <3>1, <3>2, <4>1 DEF Corrected
    <3>4. CASE Without(sock, SeatSignal) /\ Settled
      <4>1. m \notin SeatSignal /\ Without(sock', SeatSignal)
        BY <1>3, <3>1, <3>4, LastTaken
      <4> QED
        BY <2>3, <2>4, <2>5, <3>1, <3>2, <3>4, <4>1 DEF Corrected
    <3> QED
      BY <1>2, <3>2, <3>3, <3>4 DEF Corrected
  <2> QED
    BY <2>6, <2>7
<1>13. CASE PauseDeviceComplete
  <2>1. /\ call = "none" /\ call' = "PAUSE_COMPLETE" /\ at = "paused" /\ at' = "process"
        /\ UNCHANGED <<app, sock, inbuf, logindVars>>
    BY <1>13 DEF PauseDeviceComplete, Calls
  <2> QED
    BY <1>2, <1>5, <2>1 DEF Settled, logindVars
<1>14. CASE ProcessReturns
  <2>1. at = "process" /\ at' = "idle" /\ UNCHANGED <<call, app, sock, inbuf, out, logindVars>>
    BY <1>14 DEF ProcessReturns, Processing
  <2> QED
    BY <1>2, <1>5, <2>1 DEF Settled, logindVars
<1>15. CASE LogindClosed
  BY <1>15 DEF LogindClosed, Closed
<1>16. ASSUME UNCHANGED <<at, app, active, initial_setup>>, Corrected' PROVE Good
  BY <1>2, <1>16
<1>17. CASE LogindServes
  <2> DEFINE m == CASE Head(out) = "PING" -> "Pong"
                    [] Head(out) = "GET_ACTIVE" -> Got(granted)
                    [] OTHER -> "Reply"
  <2>1. /\ out # <<>> /\ out' = Tail(out) /\ sock' = Append(sock, m)
        /\ UNCHANGED <<at, call, app, inbuf, active, initial_setup, granted>>
        /\ (pausing' = "no" <=> pausing = "no")
    BY <1>17 DEF LogindServes, userVars, threadVars
  <2>2. m \notin SeatSignal /\ (Head(out) = "GET_ACTIVE" => m = Got(granted))
    BY DEF Got, SeatSignal
  <2> HIDE DEF m
  <2>3. Current' = Current
    BY <2>1 DEF Current
  <2>4. /\ LastIn(sock, SeatSignal, Current) => LastIn(sock', SeatSignal, Current)
        /\ Without(sock, SeatSignal) => Without(sock', SeatSignal)
    BY <1>3, <2>1, <2>2, LastAdded
  <2>5. ASSUME call = "GET_ACTIVE", EndsWith(out, "GET_ACTIVE")
        PROVE  EndsWith(out', "GET_ACTIVE") \/ Has(sock', Got(granted))
    <3>1. out \in Seq(LogindCall \cup {"PING"})
      BY DEF LogindInv
    <3>2. CASE Head(out) = "PING"
      BY <2>1, <2>5, <3>1, <3>2, EndsTail
    <3>3. CASE Head(out) # "PING"
      <4>1. Head(out) = "GET_ACTIVE"
        BY <2>1, <2>5, <3>1, <3>3, EndsTail
      <4>2. Has(Append(sock, m), m)
        BY <1>3, HasAdded
      <4> QED
        BY <2>1, <2>2, <4>1, <4>2
    <3> QED
      BY <3>2, <3>3
  <2>6. Has(sock, Got(granted)) => Has(sock', Got(granted))
    BY <1>3, <2>1, HasAdded
  <2>7. Settled => Settled'
    BY <2>1, <2>5, <2>6 DEF Settled, Got
  <2> QED
    BY <1>2, <1>16, <2>1, <2>3, <2>4, <2>7 DEF Corrected
<1>18. CASE LogindPauses
  <2>1. /\ pausing = "no" /\ pausing' # "no"
        /\ UNCHANGED <<at, call, app, inbuf, out, active, initial_setup, granted>>
    BY <1>18 DEF LogindPauses, userVars, threadVars
  <2>2. Current \subseteq Current' /\ "PauseDevice" \in Current'
    BY <2>1 DEF Current
  <2>3. CASE sock' = Append(sock, "PauseDevice")
    <3>1. "PauseDevice" \in SeatSignal
      BY DEF SeatSignal
    <3>2. LastIn(sock', SeatSignal, Current')
      BY <1>3, <2>2, <2>3, <3>1, LastAdded
    <3> QED
      BY <1>16, <2>1, <3>2 DEF Corrected
  <2>4. ASSUME NEW m, m \notin SeatSignal, sock' = Append(sock, m) PROVE Good
    <3>1. \A q : LastIn(q, SeatSignal, Current) => LastIn(q, SeatSignal, Current')
      BY <2>2 DEF LastIn
    <3>2. /\ LastIn(sock, SeatSignal, Current) => LastIn(sock', SeatSignal, Current)
          /\ Without(sock, SeatSignal) => Without(sock', SeatSignal)
      BY <1>3, <2>4, LastAdded
    <3>3. Has(sock, Got(granted)) => Has(sock', Got(granted))
      BY <1>3, <2>4, HasAdded
    <3>4. Settled => Settled'
      BY <2>1, <3>3 DEF Settled, Got
    <3>5. Corrected'
      BY <1>2, <2>1, <3>1, <3>2, <3>4 DEF Corrected
    <3> QED
      BY <1>16, <2>1, <3>5
  <2>5. "ForceDevice" \notin SeatSignal
    BY DEF SeatSignal
  <2> QED
    BY <1>18, <2>3, <2>4, <2>5 DEF LogindPauses
<1>19. CASE LogindSwitches
  <2>1. PICK m \in {Changed(granted'), "Invalidated"} : sock' = Append(sock, m)
    BY <1>19 DEF LogindSwitches
  <2>2. m \in Current' /\ m \in SeatSignal
    BY <2>1 DEF Current, Changed, SeatSignal
  <2>3. LastIn(sock', SeatSignal, Current')
    BY <1>3, <2>1, <2>2, LastAdded
  <2>4. UNCHANGED <<at, app, active, initial_setup>>
    BY <1>19 DEF LogindSwitches, userVars, threadVars
  <2> QED
    BY <1>16, <2>3, <2>4 DEF Corrected
<1> HIDE DEF Good
<1>20. LogindLibrary => Good
  BY <1>10, <1>11, <1>12, <1>13, <1>14, <1>15 DEF LogindLibrary
<1>21. LogindUser => Good
  BY <1>7, <1>8, <1>9 DEF LogindUser
<1> QED
  BY <1>7, <1>17, <1>18, <1>19, <1>20, <1>21 DEF LogindNext
-----------------------------------------------------------------------------
(***************************************************************************)
(* The theorems.                                                           *)
(***************************************************************************)
LibseatInv ==
  /\ ThreadInv
  /\ SeatdTypes /\ RepliesInv /\ BatchInv /\ DisableInv /\ WakeInv
  /\ LogindInv /\ LogindWakeInv /\ BeliefInv

\* Every step of libseat, of seatd, of logind and of the user keeps the
\* invariant.
LEMMA LibseatStep == LibseatInv /\ [Next]_vars => LibseatInv'
<1> SUFFICES ASSUME LibseatInv, [Next]_vars PROVE LibseatInv'
  OBVIOUS
<1>1. ThreadInv /\ SeatdTypes /\ RepliesInv /\ BatchInv /\ DisableInv /\ WakeInv
      /\ LogindInv /\ LogindWakeInv /\ BeliefInv
  BY DEF LibseatInv
<1>2. ThreadInv' /\ SeatdTypes' /\ RepliesInv'
  BY <1>1, ThreadStep, SeatdTypesStep, RepliesStep
<1>3. BatchInv' /\ DisableInv' /\ WakeInv'
  BY <1>1, BatchStep, DisableStep, WakeStep
<1>4. LogindInv' /\ LogindWakeInv' /\ BeliefInv'
  BY <1>1, LogindStep, LogindWakeStep, BeliefStep
<1> QED
  BY <1>2, <1>3, <1>4 DEF LibseatInv

\* The invariant of libseat holds from the first libseat_open_seat on, through
\* any number of seats and backends.
THEOREM LibseatInvHolds == Spec => []LibseatInv
<1>1. Init => LibseatInv
  <2> SUFFICES ASSUME Init PROVE LibseatInv
    OBVIOUS
  <2>1. impl = "none" /\ at = "closed" /\ NothingOpen
    BY DEF Init, BaseInit, NothingOpen
  <2>2. ThreadInv
    <3>1. app \in [enabled : BOOLEAN, owes : BOOLEAN]
      BY <2>1 DEF NothingOpen, Unused
    <3>2. pending = <<>> /\ ~awaiting_pong /\ error = "none" /\ st = "none" /\ ~joined
      BY DEF Init, SeatdInit, SessionInit
    <3>3. active \in BOOLEAN /\ granted \in BOOLEAN /\ initial_setup = FALSE /\ pausing = "no"
      BY DEF Init, LogindInit
    <3> QED
      BY <2>1, <3>1, <3>2, <3>3 DEF ThreadInv
  <2> QED
    BY <2>1, <2>2 DEF LibseatInv, SeatdTypes, RepliesInv, BatchInv, DisableInv, WakeInv,
                      LogindInv, LogindWakeInv, BeliefInv
<1> QED
  BY <1>1, LibseatStep, PTL DEF Spec

\* read_header and read_and_queue never meet a reply that answers another
\* request, or none.
THEOREM RepliesAnswerCalls == Spec => []RepliesMatch
<1>1. LibseatInv => RepliesMatch
  BY DEF LibseatInv, RepliesInv, ThreadInv, RepliesMatch
<1> QED
  BY <1>1, LibseatInvHolds, PTL

\* An event that a call has read never waits for a wake-up that does not come:
\* check_pending_events of both backends pings.
THEOREM NoWakeUpIsLost == Spec => []QueuedEventsWakeUser
<1>1. LibseatInv => QueuedEventsWakeUser
  <2> SUFFICES ASSUME LibseatInv, Idle, inbuf # <<>> \/ (impl = "seatd" /\ pending # <<>>),
                      impl = "seatd" => at = "idle" /\ error = "none" /\ st # "none"
               PROVE  sock # <<>> \/ Has(out, "PING")
    BY DEF QueuedEventsWakeUser
  <2>1. CASE impl = "seatd"
    <3>1. inbuf = <<>> /\ pending # <<>> /\ (Has(out, "PING") \/ Has(sock, "PONG") \/ Has(inbuf, "PONG"))
      BY <2>1 DEF LibseatInv, WakeInv, Idle
    <3> QED
      BY <3>1 DEF Has
  <2>2. CASE impl = "logind"
    BY <2>2 DEF LibseatInv, LogindWakeInv, Idle
  <2>3. CASE impl \notin {"seatd", "logind"}
    BY <2>3 DEF LibseatInv, ThreadInv, Idle
  <2> QED
    BY <2>1, <2>2, <2>3
<1> QED
  BY <1>1, LibseatInvHolds, PTL

\* While seatd waits for the ack of a disable event, the event or its ack is
\* in one of the queues, or the user owes it.
THEOREM DisableIsNotLost == Spec => []DisableNotLost
<1>1. LibseatInv => DisableNotLost
  BY DEF LibseatInv, ThreadInv, DisableInv, DisableNotLost, Asks
<1> QED
  BY <1>1, LibseatInvHolds, PTL

\* seatd takes every ack that libseat_disable_seat sends for an event.
THEOREM AcksAreAccepted == Spec => []AckAccepted
<1>1. LibseatInv => AckAccepted
  <2> SUFFICES ASSUME LibseatInv, impl = "seatd", call = "DISABLE_SEAT"
               PROVE  ~Has(sock, "ERROR") /\ ~Has(inbuf, "ERROR")
    BY DEF AckAccepted
  <2>1. Awaits("DISABLE_SEAT", out, sock, inbuf, st)
    BY DEF LibseatInv, RepliesInv, Api
  <2>2. Answers("DISABLE_SEAT") = {"SEAT_DISABLED"} /\ "ERROR" \notin Background
    BY DEF Answers, Background, Event
  <2>3. \A q : q \in Seq(Background) => ~Has(q, "ERROR")
    BY <2>2 DEF Has
  <2>4. \A q : OneAmong(q, {"SEAT_DISABLED"}, Background) => ~Has(q, "ERROR")
    BY <2>2 DEF Has, OneAmong
  <2> QED
    BY <2>1, <2>2, <2>3, <2>4 DEF Awaits
<1> QED
  BY <1>1, LibseatInvHolds, PTL

\* With everything delivered, the user of the logind backend believes what
\* logind decided, whatever mix of signals, invalidations and pauses came.
THEOREM UserFollowsLogind == Spec => []LogindAgrees
<1>1. LibseatInv => LogindAgrees
  <2> SUFFICES ASSUME LibseatInv, impl = "logind", Idle, at = "idle", pausing = "no",
                      sock = <<>>, inbuf = <<>>, out = <<>>
               PROVE  app.enabled <=> granted
    BY DEF LogindAgrees
  <2>1. app.enabled = active /\ Corrected /\ active \in BOOLEAN /\ granted \in BOOLEAN
    BY DEF LibseatInv, BeliefInv, ThreadInv
  <2>2. ~LastIn(sock, SeatSignal, Current) /\ ~LastIn(inbuf, SeatSignal, Current)
    BY DEF LastIn
  <2>3. active = granted
    BY <2>1, <2>2 DEF Corrected, Settled, Idle
  <2> QED
    BY <2>1, <2>3
<1> QED
  BY <1>1, LibseatInvHolds, PTL
=============================================================================
