--------------------------- MODULE LogindBackend ----------------------------
(***************************************************************************)
(* libseat's logind backend (libseat/backend/logind.c).  inbuf is sd-bus's *)
(* read queue: a method call that waits for its reply puts every other     *)
(* message there, and sd_bus_process handles them one by one, in order.    *)
(* logind and sd-bus are external.                                         *)
(***************************************************************************)
EXTENDS LibseatBase

CONSTANT
  Backlog         \* bound: messages and pings in flight or queued

VARIABLES
  active,         \* backend->active
  initial_setup,  \* backend->initial_setup
  granted,        \* logind: the session's Active property
  pausing         \* logind: "asked" after PauseDevice, "done" when completed

logindVars == <<active, initial_setup, granted, pausing>>

LogindInit ==
  active = FALSE /\ initial_setup = FALSE /\ granted \in BOOLEAN /\ pausing = "no"

\* Messages: PropertiesChanged with the value of Active, or with Active
\* invalidated; PauseDevice, of type pause or force; the replies to method
\* calls, to a Get of Active, and to a ping.
Changed(v) == IF v THEN "Active" ELSE "Inactive"
Got(v) == IF v THEN "GotActive" ELSE "GotInactive"
IsReply(m) == m \in {"Reply", "GotActive", "GotInactive"}

\* Every call that finds a message queued pings once more, so a user that
\* never dispatches makes the queue grow: the bound also limits its calls.
Room == impl = "logind" /\ Len(sock) + Len(inbuf) + Len(out) < Backlog
-----------------------------------------------------------------------------
\* The blocking calls of logind_open_seat, after add_signal_matches: Get
\* Active, then TakeControl (and SetType).
logind_open_seat ==
  /\ impl' = "logind" /\ call' = "GET_ACTIVE" /\ out' = <<"GET_ACTIVE">>
  /\ UNCHANGED <<at, cb, block, batch, app, sock, inbuf, logindVars>>

\* sd_bus_call_method: the request goes out, the call waits.
Calls(r) == out' = Append(out, r) /\ call' = r

\* open_device, close_device, switch_session, and release_control of
\* close_seat.
LogindRequest(r) ==
  /\ impl = "logind"
  /\ (Room /\ MayAsk(r) /\ r # "DISABLE_SEAT") \/ (r = "CLOSE_SEAT" /\ Idle)
  /\ Calls(r)
  /\ UNCHANGED <<impl, at, cb, block, batch, app, sock, inbuf, logindVars>>

\* disable_seat does nothing.
disable_seat ==
  /\ impl = "logind" /\ MayAsk("DISABLE_SEAT")
  /\ app' = Asked("DISABLE_SEAT")
  /\ UNCHANGED <<threadVars, sock, inbuf, out, logindVars>>

\* sd_bus_call reads a message that is not its reply.
QueueMessage ==
  /\ impl = "logind" /\ call # "none" /\ sock # <<>> /\ ~IsReply(Head(sock))
  /\ inbuf' = Append(inbuf, Head(sock)) /\ sock' = Tail(sock)
  /\ UNCHANGED <<threadVars, app, out, logindVars>>

\* check_pending_events: sd-bus has queued messages, so ping.
Pinged(queue) == out' = IF queue = <<>> THEN out ELSE Append(out, "PING")

\* set_active: no callback without a change.
set_active(v) ==
  IF active = v THEN UNCHANGED <<active, cb, app>>
  ELSE active' = v /\ Deliver(IF v THEN "ENABLE_SEAT" ELSE "DISABLE_SEAT")

\* sd_bus_call reads its reply, and the caller goes on.
CallReturns ==
  /\ impl = "logind" /\ call # "none" /\ sock # <<>> /\ IsReply(Head(sock))
  /\ sock' = Tail(sock)
  /\ CASE call = "GET_ACTIVE" /\ at = "opening" ->
            /\ active' = (Head(sock) = "GotActive") /\ Calls("TAKE_CONTROL")
            /\ UNCHANGED <<at, cb, app, initial_setup>>
       [] call = "TAKE_CONTROL" ->
            /\ at' = "opened" /\ call' = "none" /\ initial_setup' = TRUE /\ Pinged(inbuf)
            /\ UNCHANGED <<active, cb, app>>
       [] call = "GET_ACTIVE" /\ at # "opening" ->
            set_active(Head(sock) = "GotActive") /\ call' = "none" /\ UNCHANGED <<at, out, initial_setup>>
       [] call = "PAUSE_COMPLETE" ->
            call' = "none" /\ UNCHANGED <<at, out, active, cb, app, initial_setup>>
       [] call = "CLOSE_SEAT" ->
            at' = "close" /\ call' = "none" /\ UNCHANGED <<out, active, cb, app, initial_setup>>
       [] OTHER ->
            /\ call' = "none" /\ Pinged(inbuf)
            /\ UNCHANGED <<at, active, cb, app, initial_setup>>
  /\ UNCHANGED <<impl, block, batch, inbuf, granted, pausing>>

\* dispatch_and_execute: the first one tells the user how it stands.
dispatch_and_execute(wait) ==
  /\ impl = "logind" /\ MayDispatch(wait)
  /\ at' = "process" /\ block' = wait
  /\ initial_setup' = FALSE
  /\ IF initial_setup THEN Deliver(IF active THEN "ENABLE_SEAT" ELSE "DISABLE_SEAT")
     ELSE UNCHANGED <<cb, app>>
  /\ UNCHANGED <<impl, call, batch, sock, inbuf, out, active, granted, pausing>>

Processing == impl = "logind" /\ at = "process" /\ cb = "none" /\ call = "none"

\* Mutant: an invalidated Active is not asked for.
ProcessValued(m) ==
  /\ CASE m \in {"Active", "Inactive"} -> set_active(m = "Active") /\ UNCHANGED <<at, call, out>>
       [] m = "PauseDevice" -> set_active(FALSE) /\ at' = "paused" /\ UNCHANGED <<call, out>>
       [] OTHER -> UNCHANGED <<at, call, out, active, cb, app>>
  /\ block' = FALSE
  /\ UNCHANGED <<impl, batch, initial_setup, granted, pausing>>

\* Mutant: a pause is taken for a force.
ProcessForced(m) ==
  /\ CASE m \in {"Active", "Inactive"} -> set_active(m = "Active") /\ UNCHANGED <<at, call, out>>
       [] m = "Invalidated" -> Calls("GET_ACTIVE") /\ UNCHANGED <<at, active, cb, app>>
       [] OTHER -> UNCHANGED <<at, call, out, active, cb, app>>
  /\ block' = FALSE
  /\ UNCHANGED <<impl, batch, initial_setup, granted, pausing>>

\* One sd_bus_process: handle_properties_changed, handle_pause_device up to
\* its callback, ping_handler.
Process(m) ==
  /\ CASE m \in {"Active", "Inactive"} -> set_active(m = "Active") /\ UNCHANGED <<at, call, out>>
       [] m = "Invalidated" -> Calls("GET_ACTIVE") /\ UNCHANGED <<at, active, cb, app>>
       [] m = "PauseDevice" -> set_active(FALSE) /\ at' = "paused" /\ UNCHANGED <<call, out>>
       [] OTHER -> UNCHANGED <<at, call, out, active, cb, app>>
  /\ block' = FALSE
  /\ UNCHANGED <<impl, batch, initial_setup, granted, pausing>>

sd_bus_process ==
  /\ Processing
  /\ \/ inbuf # <<>> /\ Process(Head(inbuf)) /\ inbuf' = Tail(inbuf) /\ UNCHANGED sock
     \/ inbuf = <<>> /\ sock # <<>> /\ Process(Head(sock)) /\ sock' = Tail(sock) /\ UNCHANGED inbuf

\* handle_pause_device completes the pause when the callback has returned.
PauseDeviceComplete ==
  /\ impl = "logind" /\ at = "paused" /\ cb = "none" /\ call = "none"
  /\ at' = "process" /\ Calls("PAUSE_COMPLETE")
  /\ UNCHANGED <<impl, cb, block, batch, app, sock, inbuf, logindVars>>

\* Nothing is left to process and nothing to wait for.
ProcessReturns ==
  /\ Processing /\ inbuf = <<>> /\ sock = <<>> /\ ~block
  /\ at' = "idle"
  /\ UNCHANGED <<impl, cb, call, block, batch, app, sock, inbuf, out, logindVars>>

LogindClosed ==
  /\ impl = "logind" /\ at = "close" /\ Closed("closed")
  /\ active' = FALSE /\ initial_setup' = FALSE /\ pausing' = "no"
  /\ UNCHANGED granted
-----------------------------------------------------------------------------
(***************************************************************************)
(* logind, external: it answers calls in order, tells a session that lost  *)
(* or got the seat, and may ask for devices to be paused before it takes   *)
(* the seat.                                                               *)
(***************************************************************************)
userVars == <<threadVars, app, inbuf, active, initial_setup>>

LogindServes ==
  /\ impl = "logind" /\ out # <<>>
  /\ out' = Tail(out)
  /\ sock' = Append(sock, CASE Head(out) = "PING" -> "Pong"
                            [] Head(out) = "GET_ACTIVE" -> Got(granted)
                            [] OTHER -> "Reply")
  /\ pausing' = IF Head(out) = "PAUSE_COMPLETE" /\ pausing = "asked" THEN "done" ELSE pausing
  /\ UNCHANGED <<userVars, granted>>

\* A pause announces that the session will lose the seat.
LogindPauses ==
  /\ Room /\ granted /\ pausing = "no" /\ at # "opening"
  /\ \/ pausing' = "asked" /\ sock' = Append(sock, "PauseDevice")
     \/ pausing' = "done" /\ sock' = Append(sock, "ForceDevice")
  /\ UNCHANGED <<userVars, out, granted>>

LogindSwitches ==
  /\ Room
  /\ granted' = ~granted /\ pausing' = "no"
  /\ \E m \in {Changed(granted'), "Invalidated"} : sock' = Append(sock, m)
  /\ UNCHANGED <<userVars, out>>

LogindUser ==
  \/ \E r \in Api : LogindRequest(r)
  \/ disable_seat
  \/ \E wait \in BOOLEAN : dispatch_and_execute(wait)

LogindLibrary ==
  \/ QueueMessage \/ CallReturns \/ sd_bus_process \/ PauseDeviceComplete
  \/ ProcessReturns \/ LogindClosed

LogindNext == LogindUser \/ LogindLibrary \/ LogindServes \/ LogindPauses \/ LogindSwitches
=============================================================================
