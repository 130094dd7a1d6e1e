---------------------------- MODULE LibseatBase -----------------------------
(***************************************************************************)
(* The thread of a libseat user, and what every backend of libseat shares: *)
(* an open seat, a connection to the peer that hands out the seat, the     *)
(* public call in progress and the listener callback in progress.  A       *)
(* callback may make calls of its own, so a call can be nested in a        *)
(* callback, which is nested in a dispatch, an open or a close.            *)
(*                                                                         *)
(* The user follows libseat.h: it makes calls between dispatches or from a *)
(* callback, answers a disable event with libseat_disable_seat from the    *)
(* callback or later, and closes the seat only outside of a callback.      *)
(***************************************************************************)
EXTENDS Integers, Sequences

CONSTANT
  UserRequest   \* the requests a user makes besides the acknowledgement

ASSUME RequestAssumption ==
  UserRequest \subseteq {"OPEN_DEVICE", "CLOSE_DEVICE", "SWITCH_SESSION"}

VARIABLES
  impl,    \* the backend of the open seat, or the one that is being tried
  at,      \* where the library is, outside of callbacks
  cb,      \* the event whose callback runs, or "none"
  call,    \* the request that waits for its reply, "check" after it, or "none"
  block,   \* the dispatch may wait for the peer
  batch,   \* the events execute_events has still to run
  app,     \* the user: whether it holds the seat usable, and owes an ack
  sock,    \* sent by the peer, not read
  inbuf,   \* read by the library, not handled
  out      \* sent by the library, not handled by the peer

threadVars == <<impl, at, cb, call, block, batch>>
baseVars == <<threadVars, app, sock, inbuf, out>>

Event == {"ENABLE_SEAT", "DISABLE_SEAT"}
Api == UserRequest \cup {"DISABLE_SEAT", "CLOSE_SEAT", "OPEN_SEAT"}

Unused == [enabled |-> FALSE, owes |-> FALSE]

BaseInit ==
  /\ impl = "none" /\ at = "closed" /\ cb = "none" /\ call = "none"
  /\ block = FALSE /\ batch = <<>> /\ app = Unused
  /\ sock = <<>> /\ inbuf = <<>> /\ out = <<>>

\* The seat is open and no call into the library is in progress.
Idle == at \in {"opened", "idle"} /\ cb = "none" /\ call = "none"

\* The user has control: between calls, or inside a callback.
UserRuns == call = "none" /\ (at \in {"opened", "idle"} \/ cb # "none")

\* What a callback means to the user.
Told(e) ==
  IF e = "ENABLE_SEAT" THEN [app EXCEPT !.enabled = TRUE]
  ELSE [enabled |-> FALSE, owes |-> TRUE]

\* The library calls the user back.
Deliver(e) == cb' = e /\ app' = Told(e)

\* The user's callback returns.
CallbackReturns ==
  /\ cb # "none" /\ call = "none"
  /\ cb' = "none"
  /\ UNCHANGED <<impl, at, call, block, batch, app, sock, inbuf, out>>

\* The requests the user may make now.
MayAsk(r) ==
  /\ UserRuns
  /\ r \in UserRequest \/ (r = "DISABLE_SEAT" /\ app.owes)

\* The user does not wait for events in a dispatch while it owes an ack.
MayDispatch(wait) == Idle /\ (wait => ~app.owes)

\* The user of a seat after request r.
Asked(r) == IF r = "DISABLE_SEAT" THEN [app EXCEPT !.owes = FALSE] ELSE app

\* A nonempty prefix of what the peer has sent: recvmsg stops at a message
\* that carries file descriptors.
Arrives(n) ==
  /\ n \in 1..Len(sock)
  /\ inbuf' = inbuf \o SubSeq(sock, 1, n)
  /\ sock' = SubSeq(sock, n + 1, Len(sock))

\* destroy(): the seat and its connection are gone.
Closed(where) ==
  /\ impl' = "none" /\ at' = where /\ cb' = "none" /\ call' = "none"
  /\ block' = FALSE /\ batch' = <<>> /\ app' = Unused
  /\ sock' = <<>> /\ inbuf' = <<>> /\ out' = <<>>
=============================================================================
