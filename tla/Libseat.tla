------------------------------ MODULE Libseat -------------------------------
(***************************************************************************)
(* libseat as its user sees it: libseat_open_seat picks a backend          *)
(* (libseat/libseat.c), and the user drives the seat through it until it   *)
(* closes the seat, possibly to open another one.  The noop backend        *)
(* (libseat/backend/noop.c) is small enough to be here.                    *)
(***************************************************************************)
EXTENDS SeatdBackend, LogindBackend

CONSTANT
  LIBSEAT_BACKEND   \* the values the variable may have, "unset" included

VARIABLE trying     \* the backends libseat_open_seat has still to try

vars == <<baseVars, seatdVars, logindVars, trying>>

impls == <<"seatd", "logind", "noop">>

Init ==
  /\ BaseInit /\ SeatdInit /\ LogindInit
  /\ trying = <<>>

\* libseat_open_seat: the backend with the given name, or every backend but
\* noop in order.
libseat_open_seat(e) ==
  /\ at = "closed"
  /\ at' = "opening"
  /\ trying' = IF e = "unset" THEN SelectSeq(impls, LAMBDA i : i # "noop")
               ELSE SelectSeq(impls, LAMBDA i : i = e)
  /\ UNCHANGED <<impl, cb, call, block, batch, app, sock, inbuf, out, seatdVars, logindVars>>

noop_open_seat ==
  /\ impl' = "noop" /\ at' = "opened" /\ initial_setup' = TRUE
  /\ UNCHANGED <<cb, call, block, batch, app, sock, inbuf, out, active, granted, pausing>>

\* The next backend's open_seat, or NULL when none is left.
TryBackend ==
  /\ at = "opening" /\ impl = "none"
  /\ IF trying = <<>>
     THEN at' = "closed"
          /\ UNCHANGED <<impl, cb, call, block, batch, app, sock, inbuf, out, seatdVars, logindVars, trying>>
     ELSE /\ trying' = Tail(trying)
          /\ \/ Head(trying) = "seatd" /\ _open_seat /\ UNCHANGED logindVars
             \/ Head(trying) = "logind" /\ logind_open_seat /\ UNCHANGED seatdVars
             \/ Head(trying) = "noop" /\ noop_open_seat /\ UNCHANGED seatdVars
             \/ UNCHANGED <<baseVars, seatdVars, logindVars>>

\* noop's dispatch_background; every other call of it returns at once.
dispatch_background ==
  /\ impl = "noop" /\ Idle
  /\ at' = "idle" /\ initial_setup' = FALSE
  /\ IF initial_setup THEN Deliver("ENABLE_SEAT") ELSE UNCHANGED <<cb, app>>
  /\ UNCHANGED <<impl, call, block, batch, sock, inbuf, out, active, granted, pausing, seatdVars, trying>>

noop_close_seat ==
  /\ impl = "noop" /\ Idle /\ Closed("closed")
  /\ initial_setup' = FALSE
  /\ UNCHANGED <<active, granted, pausing, seatdVars, trying>>

Return == CallbackReturns /\ UNCHANGED <<seatdVars, logindVars, trying>>
Seatd(A) == A /\ UNCHANGED <<logindVars, trying>>
Logind(A) == A /\ UNCHANGED <<seatdVars, trying>>

Next ==
  \/ \E e \in LIBSEAT_BACKEND : libseat_open_seat(e)
  \/ TryBackend \/ dispatch_background \/ noop_close_seat \/ Return
  \/ Seatd(SeatdNext)
  \/ Logind(LogindNext)

Spec == Init /\ [][Next]_vars
-----------------------------------------------------------------------------
(***************************************************************************)
(* Fairness.  The library's own steps, seatd and logind go on.  The user   *)
(* returns from its callbacks, acknowledges a disable, and dispatches      *)
(* after it has opened the seat and whenever the connection is readable.   *)
(* A user that makes other calls for ever may consume every wake-up inside *)
(* of a call; the liveness properties except it.                           *)
(***************************************************************************)
Woken == at = "opened" \/ sock # <<>> \/ (impl = "seatd" /\ st = "none")

Fairness ==
  /\ WF_vars(TryBackend)
  /\ WF_vars(Seatd(SeatdLibrary)) /\ WF_vars(Seatd(SeatdServer))
  /\ WF_vars(Logind(LogindLibrary)) /\ WF_vars(Logind(LogindServes))
  /\ WF_vars(Return)
  /\ SF_vars(Seatd(Request("DISABLE_SEAT"))) /\ WF_vars(Seatd(Woken /\ Dispatch(FALSE)))
  /\ SF_vars(Logind(disable_seat)) /\ WF_vars(Logind(Woken /\ dispatch_and_execute(FALSE)))

FairSpec == Spec /\ Fairness

CallsForever == []<>(call \in UserRequest)
-----------------------------------------------------------------------------
(***************************************************************************)
(* Properties.                                                             *)
(***************************************************************************)
\* Message m is somewhere in queue q.
Has(q, m) == \E i \in 1..Len(q) : q[i] = m

\* read_header and read_and_queue never meet a reply that answers another
\* request, or none, whatever events seatd mixes into its replies.
RepliesMatch == error # "EBADMSG"

\* check_pending_events: between calls an event the library has already read
\* never waits for a wake-up that will not come: the connection is readable
\* or about to be.  The window between libseat_open_seat and the first
\* dispatch is not covered: _open_seat may leave an event in its buffer.
QueuedEventsWakeUser ==
  Idle /\ (inbuf # <<>> \/ (impl = "seatd" /\ pending # <<>>))
       /\ (impl = "seatd" => at = "idle" /\ error = "none" /\ st # "none")
    => sock # <<>> \/ Has(out, "PING")

\* While seatd waits for a client to give up the seat, the disable event is
\* in one of the queues between them, or the user owes the ack, or the ack
\* is on its way.
DisableNotLost ==
  st = "PENDING_DISABLE" /\ error = "none" =>
    \/ \E q \in {sock, inbuf, pending, batch, out} : Has(q, "DISABLE_SEAT")
    \/ app.owes

\* seatd answers an ack that a disable event asked for with SEAT_DISABLED,
\* never with an error.
AckAccepted ==
  impl = "seatd" /\ call = "DISABLE_SEAT" => ~Has(sock, "ERROR") /\ ~Has(inbuf, "ERROR")

\* With everything delivered, the user of the logind backend believes what
\* logind decided.
LogindAgrees ==
  impl = "logind" /\ Idle /\ at = "idle" /\ pausing = "no"
      /\ sock = <<>> /\ inbuf = <<>> /\ out = <<>>
    => (app.enabled <=> granted)

\* "The seat has been enabled, and is now valid for use" (enable_seat in
\* libseat.h): with everything delivered, a user of the seatd backend whose
\* last event was an enable has the seat.
SeatdAgrees ==
  impl = "seatd" /\ at = "idle" /\ Idle /\ error = "none" /\ st # "none"
      /\ sock = <<>> /\ inbuf = <<>> /\ pending = <<>> /\ out = <<>>
    => (app.enabled => st = "ACTIVE")

\* A client that is asked for the seat gives it up or is dropped: neither an
\* event that came in the middle of a call nor a failed connection leaves
\* seatd waiting.
DisableAnswered ==
  CallsForever \/ (st = "PENDING_DISABLE" ~> st # "PENDING_DISABLE")

\* logind's PauseDevice is completed, or logind goes on without it.
PauseAnswered == CallsForever \/ (pausing = "asked" ~> pausing # "asked")

\* A seat that stays granted becomes usable for the user.
EnableDelivered ==
  \/ CallsForever
  \/ /\ <>[](st = "ACTIVE") => <>[](app.enabled)
     /\ <>[](impl = "logind" /\ granted /\ pausing = "no") => <>[](app.enabled)
=============================================================================
