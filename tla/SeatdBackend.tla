---------------------------- MODULE SeatdBackend ----------------------------
(***************************************************************************)
(* libseat's seatd backend (libseat/backend/seatd.c) and the messages      *)
(* seatd exchanges with it (seatd/client.c).  A call sends its request and *)
(* reads until the reply comes; events that come first are queued and run  *)
(* by the next dispatch.  read_and_queue is one step per message.  Parts   *)
(* of messages are left to Connection; here a message arrives whole.       *)
(***************************************************************************)
EXTENDS LibseatBase, SeatSession

CONSTANT
  PeerFails       \* seatd may end the connection by itself

VARIABLES
  pending,        \* backend->pending_events, next to run first
  awaiting_pong,  \* backend->awaiting_pong
  error           \* backend->error and the errno it came with, or "none"

seatdVars == <<pending, awaiting_pong, error, st, joined>>

SeatdInit == pending = <<>> /\ awaiting_pong = FALSE /\ error = "none" /\ SessionInit

ReplyTo(r) ==
  CASE r = "OPEN_SEAT" -> "SEAT_OPENED"
    [] r = "CLOSE_SEAT" -> "SEAT_CLOSED"
    [] r = "OPEN_DEVICE" -> "DEVICE_OPENED"
    [] r = "CLOSE_DEVICE" -> "DEVICE_CLOSED"
    [] r = "SWITCH_SESSION" -> "SESSION_SWITCHED"
    [] r = "DISABLE_SEAT" -> "SEAT_DISABLED"

-----------------------------------------------------------------------------
(***************************************************************************)
(* The library.                                                            *)
(***************************************************************************)
\* set_error with cleanup: the queued events are dropped with the connection.
set_error(errno) ==
  /\ error' = IF error = "none" THEN errno ELSE error
  /\ pending' = IF error = "none" THEN <<>> ELSE pending

\* A failed request: open tries the next backend, close goes on to destroy,
\* every other call returns -1.
Failed ==
  /\ call' = "none"
  /\ at' = CASE call = "OPEN_SEAT" -> "failed" [] call = "CLOSE_SEAT" -> "closing" [] OTHER -> at

\* A connection that seatd accepts; Libseat has the one that fails.
seatd_connect == Attach

\* seatd_connect and the request of _open_seat.
_open_seat ==
  /\ seatd_connect
  /\ impl' = "seatd" /\ call' = "OPEN_SEAT" /\ out' = <<"OPEN_SEAT">>
  /\ UNCHANGED <<at, cb, block, batch, app, sock, inbuf, pending, awaiting_pong, error>>

\* open_device, close_device, switch_session, disable_seat, close_seat up to
\* read_until_response: conn_put and conn_flush.
Request(r) ==
  /\ impl = "seatd" /\ error = "none"
  /\ MayAsk(r) \/ (r = "CLOSE_SEAT" /\ Idle)
  /\ app' = Asked(r)
  /\ IF st # "none" THEN /\ out' = Append(out, r)
                         /\ call' = r
                         /\ UNCHANGED <<at, pending, error>>
     ELSE /\ set_error("EPIPE")
          /\ at' = IF r = "CLOSE_SEAT" THEN "closing" ELSE at
          /\ UNCHANGED <<out, call>>
  /\ UNCHANGED <<impl, cb, block, batch, sock, inbuf, awaiting_pong, st, joined>>

\* close_seat after an error, and a call that fails with ENOTCONN.
RequestAfterError(r) ==
  /\ impl = "seatd" /\ error # "none"
  /\ (MayAsk(r) /\ at' = at) \/ (r = "CLOSE_SEAT" /\ Idle /\ at' = "closing")
  /\ app' = Asked(r)
  /\ UNCHANGED <<impl, cb, call, block, batch, sock, inbuf, out, seatdVars>>

\* poll_connection(-1) in read_until_response.
AwaitReply(n) ==
  /\ impl = "seatd" /\ call \in Api /\ inbuf = <<>>
  /\ \/ st # "none" /\ Arrives(n) /\ UNCHANGED <<at, call, pending, error>>
     \/ st = "none" /\ n = 0 /\ set_error("EPIPE") /\ Failed /\ UNCHANGED <<sock, inbuf>>
  /\ UNCHANGED <<impl, cb, block, batch, app, out, awaiting_pong, st, joined>>

\* read_and_queue handles background messages until the buffer is empty.
Reading == impl = "seatd" /\ inbuf # <<>> /\ (call # "none" \/ at \in {"queue1", "queue2"})

queue_event(e) == pending' = <<e>> \o pending

\* Mutant: events that come while a call waits are dropped.
ReadBackgroundDropping ==
  /\ Reading /\ Head(inbuf) \in Event \cup {"PONG"}
  /\ inbuf' = Tail(inbuf)
  /\ awaiting_pong' = (awaiting_pong /\ Head(inbuf) # "PONG")
  /\ IF Head(inbuf) = "PONG" \/ call # "none" THEN UNCHANGED pending
     ELSE queue_event(Head(inbuf))
  /\ UNCHANGED <<threadVars, app, sock, out, error, st, joined>>

\* Mutant: a pong does not clear awaiting_pong.
ReadBackgroundDeaf ==
  /\ Reading /\ Head(inbuf) \in Event \cup {"PONG"}
  /\ inbuf' = Tail(inbuf)
  /\ IF Head(inbuf) = "PONG" THEN UNCHANGED pending ELSE queue_event(Head(inbuf))
  /\ UNCHANGED <<threadVars, app, sock, out, awaiting_pong, error, st, joined>>

ReadBackground ==
  /\ Reading /\ Head(inbuf) \in Event \cup {"PONG"}
  /\ inbuf' = Tail(inbuf)
  /\ IF Head(inbuf) = "PONG" THEN awaiting_pong' = FALSE /\ UNCHANGED pending
     ELSE queue_event(Head(inbuf)) /\ UNCHANGED awaiting_pong
  /\ UNCHANGED <<threadVars, app, sock, out, error, st, joined>>

\* A reply: read_header takes the one the call waits for, or an error; any
\* other, and one nobody waits for, is a bad message.
ReadReply ==
  /\ Reading /\ Head(inbuf) \notin Event \cup {"PONG"}
  /\ IF call \in Api /\ Head(inbuf) \in {ReplyTo(call), "ERROR"}
     THEN /\ inbuf' = Tail(inbuf)
          /\ call' = IF call \in {"OPEN_SEAT", "CLOSE_SEAT"} THEN "none" ELSE "check"
          /\ at' = CASE call = "CLOSE_SEAT" -> "closing"
                     [] call = "OPEN_SEAT" /\ Head(inbuf) = "SEAT_OPENED" -> "opening1"
                     [] call = "OPEN_SEAT" /\ Head(inbuf) = "ERROR" -> "failed"
                     [] OTHER -> at
          /\ UNCHANGED <<pending, error>>
     ELSE /\ set_error("EBADMSG")
          /\ IF call # "none" THEN Failed ELSE at' = "idle" /\ UNCHANGED call
          /\ UNCHANGED inbuf
  /\ UNCHANGED <<impl, cb, block, batch, app, sock, out, awaiting_pong, st, joined>>

\* check_pending_events once the buffer is read; send_ping may fail.
check_pending_events ==
  /\ impl = "seatd" /\ call = "check" /\ inbuf = <<>>
  /\ call' = "none"
  /\ IF pending = <<>> \/ awaiting_pong THEN UNCHANGED <<out, pending, awaiting_pong, error>>
     ELSE IF st = "none" \/ error # "none"
          THEN set_error("EPIPE") /\ UNCHANGED <<out, awaiting_pong>>
          ELSE /\ out' = Append(out, "PING") /\ awaiting_pong' = TRUE
               /\ UNCHANGED <<pending, error>>
  /\ UNCHANGED <<impl, at, cb, block, batch, app, sock, inbuf, st, joined>>

\* Mutant: dispatch forgets that messages may already be in the buffer.
DispatchUnread(wait) ==
  /\ impl = "seatd" /\ MayDispatch(wait) /\ error = "none"
  /\ at' = IF inbuf = <<>> THEN "queue1" ELSE "pre"
  /\ block' = (wait /\ pending = <<>>)
  /\ UNCHANGED <<impl, cb, call, batch, app, sock, inbuf, out, seatdVars>>

\* Mutant: dispatch waits although it has run events.
DispatchBlocking(wait) ==
  /\ impl = "seatd" /\ MayDispatch(wait) /\ error = "none"
  /\ at' = "queue1" /\ block' = wait
  /\ UNCHANGED <<impl, cb, call, batch, app, sock, inbuf, out, seatdVars>>

\* dispatch: entered with a timeout of 0 or -1.
Dispatch(wait) ==
  /\ impl = "seatd" /\ MayDispatch(wait) /\ error = "none"
  /\ at' = "queue1"
  /\ block' = (wait /\ inbuf = <<>> /\ pending = <<>>)
  /\ UNCHANGED <<impl, cb, call, batch, app, sock, inbuf, out, seatdVars>>

\* execute_events takes the whole list: after read_and_queue in dispatch, at
\* the end of _open_seat and in close_seat.
execute_events ==
  /\ impl = "seatd" /\ call = "none"
  /\ \/ at = "queue1" /\ inbuf = <<>> /\ at' = "pre"
     \/ at = "queue2" /\ inbuf = <<>> /\ at' = "post"
     \/ at = "opening1" /\ at' = "open"
     \/ at = "closing" /\ at' = "close"
  /\ batch' = pending /\ pending' = <<>>
  /\ UNCHANGED <<impl, cb, call, block, app, sock, inbuf, out, awaiting_pong, error, st, joined>>

\* Mutant: the event stays in the list.
RunEventKeeping ==
  /\ impl = "seatd" /\ at \in {"pre", "post", "open", "close"}
  /\ cb = "none" /\ call = "none" /\ batch # <<>>
  /\ Deliver(Head(batch))
  /\ UNCHANGED <<impl, at, call, block, batch, sock, inbuf, out, seatdVars>>

\* The next event of execute_events.
RunEvent ==
  /\ impl = "seatd" /\ at \in {"pre", "post", "open", "close"}
  /\ cb = "none" /\ call = "none" /\ batch # <<>>
  /\ Deliver(Head(batch)) /\ batch' = Tail(batch)
  /\ UNCHANGED <<impl, at, call, block, sock, inbuf, out, seatdVars>>

\* execute_events has run its whole list.
Executed(where) ==
  impl = "seatd" /\ at = where /\ cb = "none" /\ call = "none" /\ batch = <<>>

\* The read of dispatch: connection_read at once, or poll_connection.  Once
\* the seat is in error the socket is shut down, and read as closed.
DispatchRead(n) ==
  /\ Executed("pre")
  /\ CASE block /\ (st = "none" \/ error # "none") ->
            n = 0 /\ set_error("EPIPE") /\ at' = "idle" /\ UNCHANGED <<sock, inbuf>>
       [] ~(block /\ (st = "none" \/ error # "none")) /\ sock # <<>> ->
            Arrives(n) /\ at' = "queue2" /\ UNCHANGED <<pending, error>>
       [] sock = <<>> /\ ~block ->
            /\ n = 0 /\ UNCHANGED <<sock, inbuf, pending, error>>
            /\ at' = IF st = "none" \/ error # "none" THEN "idle" ELSE "queue2"
       [] OTHER -> FALSE
  /\ UNCHANGED <<impl, cb, call, block, batch, app, out, awaiting_pong, st, joined>>

DispatchReturns ==
  /\ Executed("post") /\ at' = "idle"
  /\ UNCHANGED <<impl, cb, call, block, batch, app, sock, inbuf, out, seatdVars>>

OpenReturns ==
  /\ Executed("open") /\ at' = "opened"
  /\ UNCHANGED <<impl, cb, call, block, batch, app, sock, inbuf, out, seatdVars>>

\* destroy, at the end of close_seat and on the error path of _open_seat.
Destroyed ==
  /\ pending' = <<>> /\ awaiting_pong' = FALSE /\ error' = "none"
  /\ st' = "none" /\ joined' = FALSE

close_seat == Executed("close") /\ Closed("closed") /\ Destroyed

OpenFailed == impl = "seatd" /\ at = "failed" /\ Closed("opening") /\ Destroyed
-----------------------------------------------------------------------------
(***************************************************************************)
(* seatd's side of the connection.  When the seat is given and taken is    *)
(* SeatSession's choice; the messages and their order are client.c's.      *)
(***************************************************************************)
Peer == impl = "seatd" /\ st # "none"

Sends(m) == sock' = sock \o m
Takes == out # <<>> /\ out' = Tail(out)
libraryVars == <<threadVars, app, inbuf, pending, awaiting_pong, error>>

\* The seat is given to the client, or asked back.
client_send_enable_seat == Peer /\ Grant /\ Sends(<<"ENABLE_SEAT">>) /\ UNCHANGED <<out, libraryVars>>
client_send_disable_seat == Peer /\ Revoke /\ Sends(<<"DISABLE_SEAT">>) /\ UNCHANGED <<out, libraryVars>>

handle_ping ==
  /\ Peer /\ Takes /\ Head(out) = "PING"
  /\ Sends(<<"PONG">>)
  /\ UNCHANGED <<libraryVars, st, joined>>

handle_open_seat ==
  /\ Peer /\ Takes /\ Head(out) = "OPEN_SEAT"
  /\ Join
  /\ Sends(IF st' = "ACTIVE" THEN <<"SEAT_OPENED", "ENABLE_SEAT">> ELSE <<"SEAT_OPENED">>)
  /\ UNCHANGED libraryVars

handle_close_seat ==
  /\ Peer /\ Takes /\ Head(out) = "CLOSE_SEAT"
  /\ Depart
  /\ Sends(<<"SEAT_CLOSED">>)
  /\ UNCHANGED libraryVars

\* Mutant: the error is sent and the reply as well.
handle_disable_seat_both ==
  /\ Peer /\ Takes /\ Head(out) = "DISABLE_SEAT" /\ joined
  /\ IF st = "PENDING_DISABLE"
     THEN /\ Ack
          /\ Sends(IF st' = "ACTIVE" THEN <<"ENABLE_SEAT", "SEAT_DISABLED">>
                   ELSE <<"SEAT_DISABLED", "SEAT_DISABLED">>)
     ELSE Sends(<<"ERROR">>) /\ UNCHANGED <<st, joined>>
  /\ UNCHANGED libraryVars

handle_disable_seat ==
  /\ Peer /\ Takes /\ Head(out) = "DISABLE_SEAT" /\ joined
  /\ IF st = "PENDING_DISABLE"
     THEN /\ Ack
          /\ Sends(IF st' = "ACTIVE" THEN <<"ENABLE_SEAT", "SEAT_DISABLED">> ELSE <<"SEAT_DISABLED">>)
     ELSE Sends(<<"ERROR">>) /\ UNCHANGED <<st, joined>>
  /\ UNCHANGED libraryVars

\* handle_open_device and handle_close_device may fail for reasons of their own.
handle_device ==
  /\ Peer /\ Takes /\ Head(out) \in {"OPEN_DEVICE", "CLOSE_DEVICE"} /\ joined
  /\ \/ (Head(out) = "OPEN_DEVICE" => st = "ACTIVE") /\ Sends(<<ReplyTo(Head(out))>>)
     \/ Sends(<<"ERROR">>)
  /\ UNCHANGED <<libraryVars, st, joined>>

handle_switch_session ==
  /\ Peer /\ Takes /\ Head(out) = "SWITCH_SESSION" /\ joined
  /\ \/ st = "ACTIVE" /\ Sends(<<"SESSION_SWITCHED">>) /\ UNCHANGED <<st, joined>>
     \/ Revoke /\ Sends(<<"DISABLE_SEAT", "SESSION_SWITCHED">>)
     \/ Sends(<<"ERROR">>) /\ UNCHANGED <<st, joined>>
  /\ UNCHANGED libraryVars

Ends == Peer /\ Detach /\ out' = <<>> /\ UNCHANGED <<sock, libraryVars>>

\* client_destroy on an open that is refused, and on a protocol error: a
\* request without a seat.
client_destroy ==
  /\ Ends /\ out # <<>>
  /\ Head(out) = "OPEN_SEAT" \/ (Head(out) # "PING" /\ ~joined)

\* seatd stops, or fails to serve the client.
SeatdDies == PeerFails /\ Ends

Serve ==
  \/ handle_ping \/ handle_open_seat \/ handle_close_seat \/ handle_disable_seat
  \/ handle_device \/ handle_switch_session
-----------------------------------------------------------------------------
SeatdUser ==
  \/ \E r \in Api : Request(r) \/ RequestAfterError(r)
  \/ \E wait \in BOOLEAN : Dispatch(wait)

SeatdLibrary ==
  \/ \E n \in 0..Len(sock) : AwaitReply(n) \/ DispatchRead(n)
  \/ ReadBackground \/ ReadReply \/ check_pending_events
  \/ execute_events \/ RunEvent \/ DispatchReturns \/ OpenReturns \/ close_seat \/ OpenFailed

SeatdServer == Serve \/ client_destroy

SeatdNext ==
  \/ SeatdUser \/ SeatdLibrary \/ SeatdServer
  \/ client_send_enable_seat \/ client_send_disable_seat \/ SeatdDies
=============================================================================
