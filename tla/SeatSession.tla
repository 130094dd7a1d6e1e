---------------------------- MODULE SeatSession -----------------------------
(***************************************************************************)
(* What one client of seatd sees of its own session: the seat may be given *)
(* to it while it waits for it, is asked back before it is taken, and is   *)
(* not given again before the client has agreed.  Server implements this   *)
(* for every client; SeatdBackend relies on it for the library's peer.     *)
(***************************************************************************)
VARIABLES
  st,      \* client->state, "none" without a connection
  joined   \* client->seat is set

sessionVars == <<st, joined>>

SessionInit == st = "none" /\ joined = FALSE

\* A connection is accepted.
Attach == st = "none" /\ st' = "NEW" /\ joined' = FALSE

\* The client joins the seat and may get it at once.
Join == st = "NEW" /\ ~joined /\ joined' = TRUE /\ st' \in {"NEW", "ACTIVE"}

Grant == joined /\ st \in {"NEW", "DISABLED"} /\ st' = "ACTIVE" /\ UNCHANGED joined

Revoke == joined /\ st = "ACTIVE" /\ st' = "PENDING_DISABLE" /\ UNCHANGED joined

\* The client agrees; it may get the seat back at once.
Ack == joined /\ st = "PENDING_DISABLE" /\ st' \in {"DISABLED", "ACTIVE"} /\ UNCHANGED joined

Depart == joined /\ st' = "CLOSED" /\ joined' = FALSE

Detach == st # "none" /\ st' = "none" /\ joined' = FALSE

SessionNext == Attach \/ Join \/ Grant \/ Revoke \/ Ack \/ Depart \/ Detach

SessionSpec == SessionInit /\ [][SessionNext]_sessionVars
=============================================================================
