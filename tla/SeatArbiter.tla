---------------------------- MODULE SeatArbiter -----------------------------
(***************************************************************************)
(* What the seat promises its clients, without VTs, devices or queues: the *)
(* seat has at most one holder, and it passes on only when the holder has  *)
(* been asked to give it up and agreed, or has left.                       *)
(***************************************************************************)
CONSTANTS Client, NULL

VARIABLES
  members,   \* the clients that have joined the seat
  holder,    \* the client that has the seat, or NULL
  revoking   \* the holder has been asked to give the seat up

vars == <<members, holder, revoking>>

Init == members = {} /\ holder = NULL /\ revoking = FALSE

\* The seat becomes free or goes to one of the members in S.
PassOn(S) == holder' \in S \cup {NULL} /\ revoking' = FALSE

\* A newcomer may find the seat free and get it.
Join(c) ==
  /\ c \notin members
  /\ members' = members \cup {c}
  /\ IF holder = NULL THEN PassOn({c}) ELSE UNCHANGED <<holder, revoking>>

Leave(c) ==
  /\ c \in members
  /\ members' = members \ {c}
  /\ IF holder = c THEN PassOn(members') ELSE UNCHANGED <<holder, revoking>>

Grant == holder = NULL /\ PassOn(members) /\ UNCHANGED members

Revoke ==
  /\ holder # NULL /\ ~revoking
  /\ revoking' = TRUE
  /\ UNCHANGED <<members, holder>>

\* The holder agrees to give the seat up.
Agree == revoking /\ PassOn(members) /\ UNCHANGED members

Next == Grant \/ Revoke \/ Agree \/ \E c \in Client : Join(c) \/ Leave(c)

Spec == Init /\ [][Next]_vars
=============================================================================
