---------------------------- MODULE ControlPeers ----------------------------
(***************************************************************************)
(* The connections of the control socket (seatd/control.c): requests come  *)
(* in pieces and in bunches, replies and VT change events share the output *)
(* of a peer that may read slowly, and peers hang up.  What a request does *)
(* to the seat is in Server; here it succeeds or fails.  Buffers are       *)
(* bounded queues (see Connection): the input in units of a header or a    *)
(* part of a payload, the output in messages.                              *)
(***************************************************************************)
EXTENDS Integers, Sequences

CONSTANTS
  Peer,         \* control clients
  VT,           \* virtual terminals, positive numbers
  Operations,   \* the opcodes the peers send
  InSize,       \* units the input buffer holds
  OutSize,      \* messages the output buffer holds
  RequestsSize, \* units the socket to the server holds
  SocketSize    \* messages the socket to the peer holds

VARIABLES
  peer,      \* the connections
  busy,      \* the peer whose handler runs, or "none"
  cur_vt,    \* seat->cur_vt
  clients    \* the seat has a client

vars == <<peer, busy, cur_vt, clients>>

PayloadUnits(op) ==
  CASE op = "CREATE_GROUP_VT" -> 2
    [] op \in {"DESTROY_GROUP_VT", "SWITCH_VT"} -> 1
    [] op \in {"GET_ACTIVE_VT", "FIND_FREE_VT"} -> 0

ASSUME PeerAssumption == "none" \notin Peer
ASSUME VTAssumption == VT \subseteq Nat \ {0}
ASSUME OperationsAssumption ==
  Operations \subseteq {"CREATE_GROUP_VT", "DESTROY_GROUP_VT", "SWITCH_VT",
                       "GET_ACTIVE_VT", "FIND_FREE_VT"}
ASSUME SizesAssumption ==
  InSize \in Nat /\ OutSize \in Nat \ {0} /\ SocketSize \in Nat

\* A whole request must fit the receiver's buffer.
ASSUME RequestsFit == \A op \in Operations : PayloadUnits(op) < InSize

\* A connection: whether it is in server->control_clients,
\* how the peer ended it, the units written and not read, the buffers, the
\* messages sent and not read, EVENT_WRITABLE in the event source's mask, and
\* EVENT_HANGUP in the mask its running handler was called with.  heard is the
\* VT of the last change event the peer read, told of the last one broadcast.
Fresh(alive) ==
  [alive |-> alive, ended |-> "no", req |-> <<>>, in |-> <<>>, out |-> <<>>,
   sock |-> <<>>, writable |-> FALSE, hangup |-> FALSE, heard |-> 0, told |-> 0]

Init ==
  /\ peer = [p \in Peer |-> Fresh(FALSE)]
  /\ busy = "none"
  /\ cur_vt \in VT /\ clients \in BOOLEAN

\* The units of a request and the messages that answer one or tell of a VT.
Request(op) == [i \in 1..PayloadUnits(op)+1 |-> <<op, i - 1>>]
REPLY == 0
VT_CHANGED(v) == v

Lesser(a, b) == IF a < b THEN a ELSE b
-----------------------------------------------------------------------------
(***************************************************************************)
(* Operations on one connection.                                           *)
(***************************************************************************)
\* The connection is gone, with its buffers.
control_client_destroy(x) == Fresh(FALSE)

\* Mutant: EVENT_WRITABLE is asked for only if nothing at all was sent.
control_client_flush_once(x) ==
  LET n == Lesser(Len(x.out), SocketSize - Len(x.sock))
  IN IF x.ended # "no" /\ x.out # <<>> THEN control_client_destroy(x)
     ELSE [x EXCEPT !.sock = @ \o SubSeq(x.out, 1, n),
                    !.out = SubSeq(@, n + 1, Len(@)),
                    !.writable = n = 0 /\ x.out # <<>>]

\* control_client_flush, and the same on EVENT_WRITABLE: sends what the socket
\* takes and asks for EVENT_WRITABLE while something is left.
control_client_flush(x) ==
  LET n == Lesser(Len(x.out), SocketSize - Len(x.sock))
  IN IF x.ended # "no" /\ x.out # <<>> THEN control_client_destroy(x)
     ELSE [x EXCEPT !.sock = @ \o SubSeq(x.out, 1, n),
                    !.out = SubSeq(@, n + 1, Len(@)),
                    !.writable = n < Len(x.out)]

\* Mutant: a message that does not fit is dropped.
control_send_message_dropping(x, m) ==
  LET y == IF Len(x.out) < OutSize THEN x ELSE control_client_flush(x)
  IN IF ~y.alive \/ (Len(x.out) >= OutSize /\ y.out # <<>>) THEN y
     ELSE control_client_flush([y EXCEPT !.out = Append(@, m)])

\* control_send_message and its like: connection_put, which flushes a full
\* buffer first and fails if something is left of it, then flush.  A send that
\* fails destroys the peer, in its own handler as in a broadcast.
control_send_message(x, m) ==
  LET y == IF Len(x.out) < OutSize THEN x ELSE control_client_flush(x)
  IN CASE ~y.alive -> y
       [] y.alive /\ Len(x.out) >= OutSize /\ y.out # <<>> -> control_client_destroy(y)
       [] OTHER -> control_client_flush([y EXCEPT !.out = Append(@, m)])

\* The answer of a request's handler; destroy_group_vt has none on success.
Answered(x, op, ok) ==
  IF op = "DESTROY_GROUP_VT" /\ ok THEN x ELSE control_send_message(x, REPLY)

\* q begins with a whole request.
Complete(q) == q # <<>> /\ Len(q) > PayloadUnits(q[1][1])
-----------------------------------------------------------------------------
(***************************************************************************)
(* The server's handlers.                                                  *)
(***************************************************************************)
\* control_handle_connection accepts a peer.
control_handle_connection(p) ==
  /\ busy = "none" /\ ~peer[p].alive
  /\ peer' = [peer EXCEPT ![p] = Fresh(TRUE)]
  /\ UNCHANGED <<busy, cur_vt, clients>>

\* connection_read, which answers EOVERFLOW if the buffer is full, and is at the
\* end of the stream if nothing is buffered after it.
connection_read(x) ==
  LET n == Lesser(Len(x.req), InSize - Len(x.in))
      y == [x EXCEPT !.in = @ \o SubSeq(x.req, 1, n), !.req = SubSeq(@, n + 1, Len(@))]
  IN CASE Len(x.in) >= InSize -> control_client_destroy(x)
       [] Len(x.in) < InSize /\ y.in = <<>> -> control_client_destroy(x)
       [] OTHER -> y

\* Mutant: a handler that flushes does not read.
control_client_handle_connection_either(p) ==
  LET x == [peer[p] EXCEPT !.hangup = peer[p].ended # "no"]
      write == x.writable /\ (Len(x.sock) < SocketSize \/ x.hangup)
      read == ~write /\ (x.req # <<>> \/ x.hangup)
      w == IF write THEN control_client_flush(x) ELSE x
      y == IF x.ended = "error" THEN control_client_destroy(x)
           ELSE IF read /\ w.alive THEN connection_read(w) ELSE w
  IN /\ busy = "none" /\ x.alive /\ (write \/ read)
     /\ peer' = [peer EXCEPT ![p] = y]
     /\ busy' = IF y.alive /\ read THEN p ELSE "none"
     /\ UNCHANGED <<cur_vt, clients>>

\* control_client_handle_connection up to its loop: an error ends it, then it
\* flushes, then it reads.
control_client_handle_connection(p) ==
  LET x == [peer[p] EXCEPT !.hangup = peer[p].ended # "no"]
      write == x.writable /\ (Len(x.sock) < SocketSize \/ x.hangup)
      read == x.req # <<>> \/ x.hangup
      w == IF write THEN control_client_flush(x) ELSE x
      y == IF x.ended = "error" THEN control_client_destroy(x)
           ELSE IF read /\ w.alive THEN connection_read(w) ELSE w
  IN /\ busy = "none" /\ x.alive /\ (write \/ read)
     /\ peer' = [peer EXCEPT ![p] = y]
     /\ busy' = IF y.alive /\ read THEN p ELSE "none"
     /\ UNCHANGED <<cur_vt, clients>>

\* Mutant: a request that fails leaves its payload in the buffer.
control_client_handle_opcode_keeping(ok) ==
  /\ busy # "none" /\ Complete(peer[busy].in)
  /\ LET x == peer[busy]
         op == x.in[1][1]
         n == IF ok THEN PayloadUnits(op) ELSE 0
         y == Answered([x EXCEPT !.in = SubSeq(@, n + 2, Len(@))], op, ok)
     IN /\ peer' = [peer EXCEPT ![busy] = y]
        /\ busy' = IF y.alive THEN busy ELSE "none"
  /\ UNCHANGED <<cur_vt, clients>>

\* A turn of the loop: control_client_handle_opcode for the next whole request.
control_client_handle_opcode(ok) ==
  /\ busy # "none" /\ Complete(peer[busy].in)
  /\ LET x == peer[busy]
         op == x.in[1][1]
         y == Answered([x EXCEPT !.in = SubSeq(@, PayloadUnits(op) + 2, Len(@))], op, ok)
     IN /\ peer' = [peer EXCEPT ![busy] = y]
        /\ busy' = IF y.alive THEN busy ELSE "none"
  /\ UNCHANGED <<cur_vt, clients>>

\* After the loop: a part of a request stays buffered; a hangup is honoured.
HandlerReturns ==
  /\ busy # "none" /\ ~Complete(peer[busy].in)
  /\ peer' = [peer EXCEPT ![busy] = IF @.hangup THEN control_client_destroy(@) ELSE @]
  /\ busy' = "none"
  /\ UNCHANGED <<cur_vt, clients>>

\* control_broadcast_vt_change.
control_broadcast_vt_change(v) ==
  [p \in Peer |-> IF ~peer[p].alive THEN peer[p]
                  ELSE control_send_message([peer[p] EXCEPT !.told = v], VT_CHANGED(v))]

\* seat_handle_vt_event: the server is found through a client of the seat, so
\* without one nobody is told.
seat_handle_vt_event(v) ==
  /\ busy = "none" /\ v # cur_vt
  /\ cur_vt' = v
  /\ peer' = IF clients THEN control_broadcast_vt_change(v) ELSE peer
  /\ UNCHANGED <<busy, clients>>

\* Clients join the seat and leave it.
ClientsChange == busy = "none" /\ clients' = ~clients /\ UNCHANGED <<peer, busy, cur_vt>>
-----------------------------------------------------------------------------
(***************************************************************************)
(* The peers: they write requests, read what comes, and close.  Closing    *)
(* with something unread resets the connection.                            *)
(***************************************************************************)
Writes(p, op) ==
  /\ peer[p].alive /\ peer[p].ended = "no"
  /\ Len(peer[p].req) + PayloadUnits(op) < RequestsSize
  /\ peer' = [peer EXCEPT ![p].req = @ \o Request(op)]
  /\ UNCHANGED <<busy, cur_vt, clients>>

Reads(p) ==
  /\ peer[p].alive /\ peer[p].ended = "no" /\ peer[p].sock # <<>>
  /\ LET m == Head(peer[p].sock)
     IN peer' = [peer EXCEPT ![p].sock = Tail(@), ![p].heard = IF m = REPLY THEN @ ELSE m]
  /\ UNCHANGED <<busy, cur_vt, clients>>

Closes(p) ==
  /\ peer[p].alive /\ peer[p].ended = "no"
  /\ peer' = [peer EXCEPT ![p].ended = IF peer[p].sock = <<>> THEN "hangup" ELSE "error"]
  /\ UNCHANGED <<busy, cur_vt, clients>>

Handler ==
  \/ \E p \in Peer : control_client_handle_connection(p)
  \/ \E ok \in BOOLEAN : control_client_handle_opcode(ok)
  \/ HandlerReturns

Next ==
  \/ Handler
  \/ \E p \in Peer : \/ control_handle_connection(p) \/ Reads(p) \/ Closes(p)
                     \/ \E op \in Operations : Writes(p, op)
  \/ \E v \in VT : seat_handle_vt_event(v)
  \/ ClientsChange

Spec == Init /\ [][Next]_vars
-----------------------------------------------------------------------------
(***************************************************************************)
(* What the connections of well-behaved peers can rely on.                 *)
(***************************************************************************)
\* The parser never loses its place in the stream: what the handler takes for a
\* header is one, whatever pieces the requests came in and however the earlier
\* ones ended.
HeadersAreHeaders ==
  \A p \in Peer : peer[p].alive /\ peer[p].in # <<>> => peer[p].in[1][2] = 0

\* Output that the socket did not take is waited for: EVENT_WRITABLE is asked
\* for whenever a connected peer has messages buffered.
OutputArmed == \A p \in Peer : peer[p].alive /\ peer[p].out # <<>> => peer[p].writable

\* The last VT change a connected peer has read, or will read once it reads all
\* that is queued for it, is the last one that was broadcast.
LastChangeArrives ==
  \A p \in Peer :
    LET q == peer[p].sock \o peer[p].out
        Last(i) == q[i] # REPLY /\ \A j \in i+1 .. Len(q) : q[j] = REPLY
    IN peer[p].alive =>
         \/ \E i \in 1 .. Len(q) : Last(i) /\ q[i] = VT_CHANGED(peer[p].told)
         \/ (\A i \in 1 .. Len(q) : q[i] = REPLY) /\ peer[p].heard = peer[p].told

-----------------------------------------------------------------------------
(***************************************************************************)
(* Liveness: the poller calls the handler of a ready descriptor, and the   *)
(* handler's loop runs to its end.                                         *)
(***************************************************************************)
Fairness ==
  /\ \A p \in Peer : WF_vars(control_client_handle_connection(p))
  /\ WF_vars(Handler)
  /\ \A p \in Peer : WF_vars(Reads(p))

FairSpec == Spec /\ Fairness

\* A whole request is not left waiting: as long as a peer has one in its input
\* buffer or in its socket, its requests are handled one after the other.
RequestsHandled ==
  \A p \in Peer :
    <>[](peer[p].alive /\ Complete(peer[p].in \o peer[p].req)) =>
      []<><<busy = p /\ \E ok \in BOOLEAN : control_client_handle_opcode(ok)>>_vars
=============================================================================
