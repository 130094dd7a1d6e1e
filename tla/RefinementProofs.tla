-------------------------- MODULE RefinementProofs --------------------------
(***************************************************************************)
(* Server implements SeatArbiter, and the session of every client follows  *)
(* SeatSession.  Both look at members and client states alone, so every    *)
(* callback is first shown to have one of a few effects on these.  The     *)
(* invariant Inv then tells where active_client points before and after.   *)
(***************************************************************************)
EXTENDS ServerProofs

\* Outside X the step from s to r leaves the clients' states alone, or gives
\* the seat to a member that waits for it.
OthersWait(s, X, r) ==
  \A x \in Client \ X :
    \/ r.state[x] = s.state[x]
    \/ x \in Members(s) /\ s.state[x] \in {"NEW", "DISABLED"} /\ r.state[x] = "ACTIVE"

\* Outside X no client's state changes.
OthersSame(s, X, r) == \A x \in Client \ X : r.state[x] = s.state[x]

\* Nobody joins or leaves and nobody loses the seat.
Kept(s, r) == Members(r) = Members(s) /\ OthersWait(s, {}, r)

\* Client c is asked to give the seat up.
Asked(s, c, r) ==
  /\ Members(r) = Members(s) /\ OthersSame(s, {c}, r)
  /\ s.state[c] = "ACTIVE" /\ r.state[c] = "PENDING_DISABLE"

\* Client c gives the seat up; somebody, even c, may get it at once.
Acked(s, c, r) ==
  /\ Members(r) = Members(s) /\ OthersWait(s, {c}, r)
  /\ s.state[c] = "PENDING_DISABLE" /\ r.state[c] \in {"DISABLED", "ACTIVE"}

\* Member c leaves the seat, in state "CLOSED" or without its connection; if it
\* had the seat, a member that stays may get it.
Left(s, c, r) ==
  /\ c \in Members(s) /\ Members(r) = Members(s) \ {c}
  /\ r.state[c] \in {"CLOSED", "none"}
  /\ OthersWait(s, {c}, r)
  /\ s.active_client # c => OthersSame(s, {c}, r)

\* Client c joins the seat and may get it.
Joined(s, c, r) ==
  /\ c \notin Members(s) /\ Members(r) = Members(s) \cup {c}
  /\ s.state[c] \in {"NEW", "DISABLED"} /\ r.state[c] \in {s.state[c], "ACTIVE"}
  /\ OthersSame(s, {c}, r)

\* Client c connects, or ends a connection that is not on the seat.
Idle(s, c, r) ==
  /\ c \notin Members(s) /\ Members(r) = Members(s)
  /\ \/ s.state[c] = "none" /\ r.state[c] = "NEW"
     \/ s.state[c] # "none" /\ r.state[c] = "none"
  /\ OthersSame(s, {c}, r)

\* What a step does to members and states.
Effect(s, r) ==
  \/ Kept(s, r)
  \/ \E c \in Client : \/ Asked(s, c, r) \/ Acked(s, c, r) \/ Left(s, c, r)
                       \/ Joined(s, c, r) \/ Idle(s, c, r)

\* What a request of member c may do before the reply is sent.
Served(s, c, r) ==
  /\ Members(r) = Members(s)
  /\ OthersWait(s, {c}, r)
  /\ s.active_client # c => r.state = s.state
-----------------------------------------------------------------------------
(***************************************************************************)
(* The functions of seat.c.                                                *)
(***************************************************************************)

\* Steps that touch VTs and devices alone.
LEMMA QuietKept ==
  ASSUME NEW s, NEW r, SameMembers(s, r), r.state = s.state
  PROVE  /\ Members(r) = Members(s) /\ Kept(s, r)
         /\ \A c : Served(s, c, r)
BY DEF SameMembers, Members, Kept, OthersWait, Served

\* Giving the free seat to a member.
LEMMA GrantKept ==
  ASSUME NEW s \in SeatState, NEW S, NEW r, GrantStep(s, S, r), S \subseteq Members(s)
  PROVE  Members(r) = Members(s) /\ OthersWait(s, {}, r)
<1>1. Members(r) = Members(s) /\ Members(s) \subseteq Client
  BY MembersAreClients DEF GrantStep, SameMembers, Members
<1>2. ASSUME NEW c \in S, Granted(s, c, r) PROVE OthersWait(s, {}, r)
  <2>1. /\ c \in Client /\ s.state \in [Client -> ClientState]
        /\ s.state[c] \in {"NEW", "DISABLED"} /\ r.state = [s.state EXCEPT ![c] = "ACTIVE"]
    BY <1>1, <1>2 DEF Granted, SeatState
  <2> QED
    BY <2>1 DEF OthersWait
<1> QED
  BY <1>1, <1>2 DEF GrantStep, OthersWait

\* seat_activate, with nobody or a member queued.
LEMMA ActivateKept ==
  ASSUME NEW s \in SeatState, NEW f, s.next_client # NULL => s.next_client \in Members(s)
  PROVE  LET r == SeatActivate(s, f)
         IN  Members(r) = Members(s) /\ OthersWait(s, {}, r)
<1> DEFINE S == (Members(s) \cup {s.next_client}) \cap Client
<1>1. GrantStep(s, S, SeatActivate(s, f))
  BY ActivateStep
<1>2. S \subseteq Members(s)
  BY ClientAssumption
<1> HIDE DEF S
<1> QED
  BY <1>1, <1>2, GrantKept

\* seat_disable_client on the active client.
LEMMA DisableAsks ==
  ASSUME NEW s \in SeatState, NEW c \in Client, NEW f, s.state[c] = "ACTIVE"
  PROVE  Asked(s, c, SeatDisableClient(s, c, f))
<1> DEFINE r == SeatDisableClient(s, c, f)
           t == [s.state EXCEPT ![c] = "PENDING_DISABLE"]
<1>1. r.clients = s.clients /\ r.state = t
  BY DEF SeatDisableClient, SeatState
<1>2. /\ t[c] = "PENDING_DISABLE" /\ \A x \in Client : x # c => t[x] = s.state[x]
  BY DEF SeatState
<1> HIDE DEF r, t
<1>3. Members(r) = Members(s)
  BY <1>1 DEF Members
<1> QED
  BY <1>1, <1>2, <1>3 DEF Asked, OthersSame, r

\* seat_ack_disable_client of a member.
LEMMA AckServes ==
  ASSUME NEW s, NEW c \in Members(s), NEW f, SeatInv(s)
  PROVE  LET r == SeatAckDisableClient(s, c, f)
         IN  Served(s, c, r) /\ (Kept(s, r) \/ Acked(s, c, r))
<1> DEFINE r == SeatAckDisableClient(s, c, f)
<1>1. s \in SeatState /\ Members(s) \subseteq Client /\ c \in Client
  BY MembersAreClients DEF SeatInv, PartInv
<1>2. CASE s.state[c] # "PENDING_DISABLE"
  <2>1. r = s
    BY <1>2 DEF SeatAckDisableClient
  <2> HIDE DEF r
  <2> QED
    BY <2>1 DEF Served, Kept, OthersWait, r
<1>3. CASE s.state[c] = "PENDING_DISABLE"
  <2> DEFINE u == [s EXCEPT !.state[c] = "DISABLED"]
             w == [u EXCEPT !.active_client = NULL]
  <2>1. s.active_client = c
    BY <1>1, <1>3 DEF SeatInv, PartInv, ExactBut
  <2>2. r = SeatActivate(w, f)
    BY <1>3, <2>1 DEF SeatAckDisableClient
  <2>3. /\ w \in SeatState /\ w.clients = s.clients /\ w.next_client = s.next_client
        /\ w.state[c] = "DISABLED"
        /\ \A x \in Client : x # c => w.state[x] = s.state[x]
    BY <1>1 DEF SeatState, ClientState
  <2> HIDE DEF w, r
  <2>4. Members(w) = Members(s)
    BY <2>3 DEF Members
  <2>5. Members(r) = Members(w) /\ OthersWait(w, {}, r)
    BY <2>2, <2>3, <2>4, ActivateKept DEF SeatInv, Queued
  <2>6. OthersWait(s, {c}, r) /\ r.state[c] \in {"DISABLED", "ACTIVE"}
    BY <1>1, <2>3, <2>4, <2>5 DEF OthersWait
  <2> QED
    BY <1>3, <2>1, <2>4, <2>5, <2>6 DEF Served, Acked, r
<1> QED
  BY <1>2, <1>3

\* seat_set_next_session of a member.
LEMMA SetNextServes ==
  ASSUME NEW s, NEW c \in Members(s), NEW n, NEW f, SeatInv(s), VtBound => n \in VT
  PROVE  LET r == SeatSetNextSession(s, c, n, f)
         IN  Served(s, c, r) /\ (Kept(s, r) \/ Asked(s, c, r))
<1> DEFINE target == FirstClient(s, {x \in Client : s.session[x] = n})
           x0 == CHOOSE x \in target : TRUE
           u == [s EXCEPT !.next_client = x0]
           refused == \/ s.state[c] # "ACTIVE"
                      \/ n = (IF VtBound THEN s.cur_vt ELSE s.session[c])
                      \/ s.pending_vt_switch > 0
                      \/ s.next_client # NULL
           r == SeatSetNextSession(s, c, n, f)
<1>1. s \in SeatState /\ c \in Client /\ Members(s) \subseteq Client
  BY MembersAreClients DEF SeatInv, PartInv
<1>2. Served(s, c, s) /\ Kept(s, s)
  BY DEF Served, Kept, OthersWait
<1>3. CASE refused \/ (~VtBound /\ target = {})
  BY <1>2, <1>3 DEF SeatSetNextSession
<1>4. CASE ~refused /\ VtBound
  <2>1. r = VtSwitch(s, n, f)
    BY <1>4 DEF SeatSetNextSession
  <2>2. VtStep(s, VtSwitch(s, n, f))
    BY <1>1, <1>4, VtSwitchStep
  <2> HIDE DEF r
  <2> QED
    BY <2>1, <2>2, QuietKept DEF VtStep, SameHolder, r
<1>5. CASE ~refused /\ ~VtBound /\ target # {}
  <2>1. r = SeatDisableClient(u, s.active_client, f)
    BY <1>5 DEF SeatSetNextSession
  <2>2. s.state[c] = "ACTIVE" /\ s.active_client = c
    BY <1>1, <1>5 DEF SeatInv, PartInv, ExactBut
  <2>3. x0 \in Client
    <3>1. x0 \in target
      BY <1>5
    <3> HIDE DEF x0
    <3> QED
      BY <1>1, <3>1, FirstClientIsMember
  <2> HIDE DEF x0, r
  <2>4. u \in SeatState /\ u.clients = s.clients /\ u.state = s.state
    BY <1>1, <2>3 DEF SeatState
  <2> HIDE DEF u
  <2>5. Asked(u, c, r)
    BY <1>1, <2>1, <2>2, <2>4, DisableAsks
  <2>6. Members(u) = Members(s)
    BY <2>4 DEF Members
  <2>7. Asked(s, c, r)
    BY <2>4, <2>5, <2>6 DEF Asked, OthersSame
  <2> QED
    BY <2>2, <2>7 DEF Asked, Served, OthersSame, OthersWait, r
<1> HIDE DEF refused
<1> QED
  BY <1>3, <1>4, <1>5, VtBoundAssumption

\* seat_remove_client of a member.
LEMMA RemoveLeaves ==
  ASSUME NEW s, NEW c \in Members(s), NEW f, SeatInv(s)
  PROVE  Left(s, c, SeatRemoveClient(s, c, f))
<1> DEFINE owned == {v \in VT : s.group_vts[v] = c}
           d == SeatCloseAllDevices(s.dev, c, f)
           q == RemoveAt(s.clients, IndexIn(s.clients, c))
           g == [v \in VT |-> IF v \in owned THEN NULL ELSE s.group_vts[v]]
           unlinked == [s EXCEPT !.next_client = IF @ = c THEN NULL ELSE @, !.clients = q,
                                 !.dev = d, !.group_vts = g]
           gone == IF VtBound THEN VtClose(unlinked, owned, f) ELSE unlinked
           free == [gone EXCEPT !.active_client = NULL]
           next == IF s.active_client = c THEN SeatActivate(free, f) ELSE gone
           unused == IF s.active_client = c THEN next.active_client = NULL
                                            ELSE s.state[c] # "CLOSED"
           cleaned == IF VtBound /\ unused THEN VtClose(next, {s.session[c]}, f) ELSE next
           r == SeatRemoveClient(s, c, f)
<1>1. r = [cleaned EXCEPT !.state[c] = "CLOSED"]
  BY DEF SeatRemoveClient
<1>2. /\ s \in SeatState /\ Members(s) \subseteq Client /\ c \in Client
      /\ s.clients \in Seq(Client) /\ s.dev \in DeviceState
  BY MembersAreClients DEF SeatInv, PartInv, SeatState
<1>3. /\ Members(r) = Members(s) \ {c} /\ r.state[c] = "CLOSED"
  BY RemoveClientPreserves
<1> HIDE DEF r
<1>4. q \in Seq(Client) /\ Range(q) = Members(s) \ {c}
  BY <1>2, MembersRange, RemoveAtFacts DEF SeatInv, PartInv, Listed
<1>5. d \in DeviceState
  BY <1>2, ForgetSafe DEF SeatCloseAllDevices, SafeStep
<1>6. g \in [VT -> Client \cup {NULL}]
  BY <1>2 DEF SeatState
<1> HIDE DEF owned, q, d, g
<1>7. /\ unlinked \in SeatState /\ unlinked.clients = q /\ unlinked.state = s.state
      /\ unlinked.next_client = IF s.next_client = c THEN NULL ELSE s.next_client
  BY <1>2, <1>4, <1>5, <1>6 DEF SeatState
<1> HIDE DEF unlinked
<1>8. /\ gone \in SeatState /\ gone.clients = q /\ gone.state = s.state
      /\ gone.next_client = IF s.next_client = c THEN NULL ELSE s.next_client
  BY <1>7, VtCloseStep DEF VtStep, SameMembers, SameHolder
<1> HIDE DEF gone
<1>9. Members(gone) = Members(s) \ {c}
  BY <1>4, <1>8, MembersRange
<1>10. /\ next \in SeatState /\ OthersWait(s, {c}, next)
       /\ s.active_client # c => next.state = s.state
  <2>1. CASE s.active_client # c
    BY <1>8, <2>1 DEF OthersWait
  <2>2. CASE s.active_client = c
    <3>1. /\ free \in SeatState /\ free.clients = gone.clients /\ free.state = gone.state
          /\ free.next_client = gone.next_client
      BY <1>8 DEF SeatState
    <3>2. next = SeatActivate(free, f)
      BY <2>2
    <3> HIDE DEF free, next
    <3>3. Members(free) = Members(s) \ {c}
      BY <1>9, <3>1 DEF Members
    <3>4. free.next_client # NULL => free.next_client \in Members(free)
      BY <1>8, <3>1, <3>3 DEF SeatInv, Queued
    <3>5. OthersWait(free, {}, next)
      BY <3>1, <3>2, <3>4, ActivateKept
    <3>6. next \in SeatState
      BY <3>1, <3>2, ActivateStep DEF GrantStep
    <3> QED
      BY <1>8, <2>2, <3>1, <3>3, <3>5, <3>6 DEF OthersWait
  <2> QED
    BY <2>1, <2>2
<1> HIDE DEF next, unused
<1>11. cleaned \in SeatState /\ cleaned.state = next.state
  BY <1>10, VtCloseStep DEF VtStep, SameHolder
<1> HIDE DEF cleaned
<1>12. \A x \in Client : x # c => r.state[x] = cleaned.state[x]
  BY <1>1, <1>2, <1>11 DEF SeatState
<1> QED
  BY <1>3, <1>10, <1>11, <1>12 DEF Left, OthersWait, OthersSame, r

\* seat_handle_vt_event.
LEMMA VtEventEffect ==
  ASSUME NEW s, NEW v \in VT, NEW f, SeatInv(s)
  PROVE  Effect(s, SeatHandleVtEvent(s, v, f))
<1> DEFINE u == [s EXCEPT !.pending_vt_switch = 0, !.cur_vt = v]
           a == s.active_client
           d == SeatRestoreClientDrmMaster(u.dev, a)
           r == SeatHandleVtEvent(s, v, f)
<1>1. s \in SeatState
  BY DEF SeatInv, PartInv
<1>2. u \in SeatState /\ u.clients = s.clients /\ u.state = s.state /\ u.next_client = s.next_client
  BY <1>1 DEF SeatState
<1>3. r = IF a = NULL THEN SeatActivate(u, f)
          ELSE IF ClientOwnsVt(u, a, v) THEN [u EXCEPT !.dev = d]
          ELSE IF s.state[a] = "ACTIVE" THEN SeatDisableClient(u, a, f) ELSE u
  BY DEF SeatHandleVtEvent
<1> HIDE DEF u, r
<1>4. Members(u) = Members(s)
  BY <1>2 DEF Members
<1>5. CASE r = SeatActivate(u, f)
  <2>1. Members(r) = Members(u) /\ OthersWait(u, {}, r)
    BY <1>2, <1>4, <1>5, ActivateKept DEF SeatInv, Queued
  <2>2. Kept(s, r)
    BY <1>2, <1>4, <2>1 DEF Kept, OthersWait
  <2> QED
    BY <2>2 DEF Effect, r
<1>6. CASE r = u \/ r = [u EXCEPT !.dev = d]
  <2>1. r.clients = s.clients /\ r.state = s.state
    BY <1>2, <1>6 DEF SeatState
  <2>2. Kept(s, r)
    BY <2>1 DEF Kept, OthersWait, Members
  <2> QED
    BY <2>2 DEF Effect, r
<1>7. CASE a # NULL /\ s.state[a] = "ACTIVE" /\ r = SeatDisableClient(u, a, f)
  <2>1. a \in Client
    BY <1>1, <1>7 DEF SeatState
  <2>2. Asked(u, a, r)
    BY <1>2, <1>7, <2>1, DisableAsks
  <2>3. Asked(s, a, r)
    BY <1>2, <1>4, <2>2 DEF Asked, OthersSame
  <2> QED
    BY <2>1, <2>3 DEF Effect, r
<1> QED
  BY <1>3, <1>5, <1>6, <1>7
-----------------------------------------------------------------------------
(***************************************************************************)
(* The requests of clients.                                                *)
(***************************************************************************)

\* client_destroy.
LEMMA DestroyLeaves ==
  ASSUME NEW s, NEW c \in Client, NEW f, SeatInv(s)
  PROVE  LET r == ClientDestroy(s, c, f)
         IN  /\ r.state[c] = "none"
             /\ c \in Members(s) => Left(s, c, r)
             /\ c \notin Members(s) => Members(r) = Members(s) /\ OthersSame(s, {c}, r)
<1> DEFINE u == IF c \in Members(s) THEN SeatRemoveClient(s, c, f) ELSE s
           r == ClientDestroy(s, c, f)
<1>1. u \in SeatState /\ (c \in Members(s) => Left(s, c, u))
  BY RemoveLeaves, RemoveClientPreserves DEF Preserves, SeatInv, PartInv
<1>2. r = [u EXCEPT !.state[c] = "none", !.session[c] = -1]
  BY DEF ClientDestroy
<1>3. c \notin Members(s) => u = s
  OBVIOUS
<1> HIDE DEF u, r
<1>4. /\ r.clients = u.clients /\ r.state[c] = "none"
      /\ \A x \in Client : x # c => r.state[x] = u.state[x]
  <2>1. r = [u EXCEPT !.state = [u.state EXCEPT ![c] = "none"],
                      !.session = [u.session EXCEPT ![c] = -1]]
    BY <1>2
  <2> QED
    BY <1>1, <2>1 DEF SeatState
<1>5. Members(r) = Members(u)
  BY <1>4 DEF Members
<1> QED
  BY <1>1, <1>3, <1>4, <1>5 DEF Left, OthersWait, OthersSame, r

\* A reply that fails turns what the request of c did into its departure.
LEMMA ReplyEffect ==
  ASSUME NEW s, NEW c \in Members(s), NEW f, NEW u, SeatInv(s), SeatInv(u),
         Served(s, c, u), Effect(s, u)
  PROVE  Effect(s, Reply(u, c, f))
<1> DEFINE r == Reply(u, c, f)
<1>1. CASE "reply" \notin f
  BY <1>1 DEF Reply
<1>2. CASE "reply" \in f
  <2>1. c \in Client /\ c \in Members(u)
    BY MembersAreClients DEF SeatInv, PartInv, Served
  <2>2. Left(u, c, r)
    BY <1>2, <2>1, DestroyLeaves DEF Reply
  <2> HIDE DEF r
  <2>3. s.active_client # c => u.active_client # c
    BY <2>1 DEF SeatInv, PartInv, ExactBut, Served
  <2>4. OthersWait(s, {c}, r)
    BY <2>2 DEF Served, Left, OthersWait
  <2>5. s.active_client # c => OthersSame(s, {c}, r)
    BY <2>2, <2>3 DEF Served, Left, OthersSame
  <2>6. Left(s, c, r)
    BY <2>2, <2>4, <2>5 DEF Served, Left
  <2> QED
    BY <2>1, <2>6 DEF Effect, r
<1> QED
  BY <1>1, <1>2

\* handle_close_seat.
LEMMA CloseSeatEffect ==
  ASSUME NEW s, NEW c \in Members(s), NEW f, SeatInv(s)
  PROVE  Effect(s, HandleCloseSeat(s, c, f))
<1> DEFINE u == SeatRemoveClient(s, c, f)
           r == HandleCloseSeat(s, c, f)
<1>1. c \in Client /\ Left(s, c, u) /\ SeatInv(u)
  BY MembersAreClients, RemoveLeaves, RemoveClientPreserves DEF SeatInv, PartInv, Preserves
<1>2. r = IF "reply" \in f THEN ClientDestroy(u, c, f) ELSE u
  BY DEF HandleCloseSeat, Reply
<1> HIDE DEF u, r
<1>3. c \notin Members(u)
  BY <1>1 DEF Left
<1>4. CASE r = ClientDestroy(u, c, f)
  <2>1. r.state[c] = "none" /\ Members(r) = Members(u) /\ OthersSame(u, {c}, r)
    BY <1>1, <1>3, <1>4, DestroyLeaves
  <2>2. Left(s, c, r)
    BY <1>1, <2>1 DEF Left, OthersWait, OthersSame
  <2> QED
    BY <1>1, <2>2 DEF Effect, r
<1> QED
  BY <1>1, <1>2, <1>4 DEF Effect, r

\* client_destroy of a connected client.
LEMMA DestroyEffect ==
  ASSUME NEW s, NEW c \in Client, NEW f, SeatInv(s), s.state[c] # "none"
  PROVE  Effect(s, ClientDestroy(s, c, f))
BY DestroyLeaves DEF Effect, Idle

\* seat_add_client, after its checks.
LEMMA AddedFacts ==
  ASSUME NEW s, NEW c \in Client, NEW n \in NewSession(s), SeatInv(s), VtAcceptsClient(s),
         c \notin Members(s), s.state[c] # "none", s.session[c] = -1
  PROVE  LET r == SeatAddClient(s, c, n)
         IN  /\ r.state = s.state /\ r.active_client = s.active_client
             /\ Members(r) = Members(s) \cup {c} /\ SeatInv(r)
<1> DEFINE r == SeatAddClient(s, c, n)
<1>1. s \in SeatState /\ s.clients \in Seq(Client) /\ Len(s.clients) \in Nat
  BY DEF SeatInv, PartInv, SeatState
<1>2. n \in Int /\ n # -1
  <2>1. CASE VtBound
    <3>1. n = s.cur_vt /\ s.cur_vt \in VT
      BY <1>1, <2>1 DEF NewSession, VtAcceptsClient, SeatState
    <3>2. s.cur_vt \in Nat
      BY <3>1, VTAssumption
    <3> QED
      BY <3>1, <3>2
  <2>2. CASE ~VtBound
    <3> DEFINE used == {s.session[x] : x \in Members(s)}
    <3>1. NewSession(s) = {k \in 1 .. Len(s.clients) + 1 :
                             k \notin used /\ 1 .. k-1 \subseteq used}
      BY <2>2 DEF NewSession
    <3> HIDE DEF used
    <3> QED
      BY <1>1, <3>1
  <2> QED
    BY <2>1, <2>2
<1>3. SeatInv(r)
  BY <1>2, AddClientPreserves DEF Preserves
<1>4. /\ r.clients = <<c>> \o s.clients /\ r.state = s.state
      /\ r.active_client = s.active_client
  BY <1>1 DEF SeatAddClient, SeatState
<1> HIDE DEF r
<1>5. /\ Len(r.clients) = Len(s.clients) + 1 /\ r.clients \in Seq(Client)
      /\ r.clients[1] = c
      /\ \A i \in 1 .. Len(s.clients) : r.clients[i + 1] = s.clients[i]
  BY <1>1, <1>4
<1>6. DOMAIN r.clients = 1 .. Len(s.clients) + 1 /\ DOMAIN s.clients = 1 .. Len(s.clients)
  BY <1>1, <1>5
<1>7. Members(r) = Members(s) \cup {c}
  <2>1. ASSUME NEW x \in Members(s) PROVE x \in Members(r)
    <3>1. PICK i \in DOMAIN s.clients : s.clients[i] = x
      BY DEF Members
    <3>2. i + 1 \in DOMAIN r.clients /\ r.clients[i + 1] = x
      BY <1>1, <1>5, <1>6, <3>1
    <3> QED
      BY <3>2 DEF Members
  <2>2. ASSUME NEW x \in Members(r) PROVE x \in Members(s) \cup {c}
    <3>1. PICK i \in DOMAIN r.clients : r.clients[i] = x
      BY DEF Members
    <3>2. i # 1 => i - 1 \in DOMAIN s.clients /\ s.clients[i - 1] = x
      BY <1>1, <1>5, <1>6, <3>1
    <3> QED
      BY <1>5, <3>1, <3>2 DEF Members
  <2>3. c \in Members(r)
    <3>1. 1 \in DOMAIN r.clients
      BY <1>1, <1>6
    <3> QED
      BY <1>5, <3>1 DEF Members
  <2> QED
    BY <2>1, <2>2, <2>3
<1> QED
  BY <1>3, <1>4, <1>7 DEF r

\* An effect is the same from a state with the same members and states.
LEMMA SameStart ==
  ASSUME NEW s, NEW u, NEW r, u.state = s.state, Members(u) = Members(s),
         u.active_client = s.active_client, Effect(u, r)
  PROVE  Effect(s, r)
<1>1. Kept(u, r) => Kept(s, r)
  BY DEF Kept, OthersWait
<1>2. ASSUME NEW c \in Client, Asked(u, c, r) \/ Acked(u, c, r)
      PROVE  Asked(s, c, r) \/ Acked(s, c, r)
  BY <1>2 DEF Asked, Acked, OthersWait, OthersSame
<1>3. ASSUME NEW c \in Client, Left(u, c, r) PROVE Left(s, c, r)
  BY <1>3 DEF Left, OthersWait, OthersSame
<1>4. ASSUME NEW c \in Client, Joined(u, c, r) \/ Idle(u, c, r)
      PROVE  Joined(s, c, r) \/ Idle(s, c, r)
  BY <1>4 DEF Joined, Idle, OthersSame
<1> QED
  BY <1>1, <1>2, <1>3, <1>4 DEF Effect

\* handle_open_seat.
LEMMA OpenSeatEffect ==
  ASSUME NEW s, NEW c \in Client, NEW f, SeatInv(s), s.state[c] # "none",
         NEW n \in NewSession(IF VtBound THEN SeatUpdateVt(s, f) ELSE s)
  PROVE  Effect(s, HandleOpenSeat(s, c, n, f))
<1> DEFINE u == IF VtBound THEN SeatUpdateVt(s, f) ELSE s
           added == SeatAddClient(u, c, n)
           r == HandleOpenSeat(s, c, n, f)
<1>1. s \in SeatState
  BY DEF SeatInv, PartInv
<1>2. VtStep(s, u)
  BY <1>1, UpdateVtStep DEF VtStep, SameMembers, SameHolder
<1>3. n \in NewSession(u)
  OBVIOUS
<1>4. r = IF ~MayAddClient(s, c) THEN ClientDestroy(s, c, f)
          ELSE IF ~VtAcceptsClient(u) THEN ClientDestroy(u, c, f)
          ELSE IF "reply" \in f THEN ClientDestroy(added, c, f)
          ELSE SeatOpenClient(added, c, f)
  BY DEF HandleOpenSeat
<1> HIDE DEF u, r
<1>5. /\ u \in SeatState /\ SeatInv(u) /\ u.state = s.state /\ Members(u) = Members(s)
      /\ u.active_client = s.active_client /\ u.session = s.session
  BY <1>2, VtStepPreserves DEF Preserves, VtStep, SameHolder, SameMembers, Members
<1>6. CASE ~MayAddClient(s, c)
  BY <1>4, <1>6, DestroyEffect DEF r
<1>7. CASE MayAddClient(s, c) /\ ~VtAcceptsClient(u)
  <2>1. Effect(u, r)
    BY <1>4, <1>5, <1>7, DestroyEffect
  <2>2. Effect(s, r)
    BY <1>5, <2>1, SameStart
  <2> QED
    BY <2>2 DEF r
<1>8. CASE MayAddClient(s, c) /\ VtAcceptsClient(u)
  <2>1. c \notin Members(s) /\ s.session[c] = -1
    BY <1>8 DEF MayAddClient
  <2>2. s.state[c] \in {"NEW", "DISABLED"}
    <3>1. s.state[c] \in ClientState
      BY <1>1 DEF SeatState
    <3> QED
      BY <2>1, <3>1 DEF SeatInv, PartInv, ExactBut, Listed, ClientState
  <2>3. /\ added.state = s.state /\ added.active_client = s.active_client
        /\ Members(added) = Members(s) \cup {c} /\ SeatInv(added)
    BY <1>3, <1>5, <1>8, <2>1, AddedFacts
  <2> HIDE DEF added
  <2>4. added \in SeatState
    BY <2>3 DEF SeatInv, PartInv
  <2>5. CASE "reply" \in f
    <3>1. r = ClientDestroy(added, c, f)
      BY <1>4, <1>8, <2>5
    <3>2. added.active_client # c
      BY <2>1, <2>3 DEF SeatInv, PartInv, ExactBut
    <3>3. r.state[c] = "none" /\ Left(added, c, r)
      BY <2>3, <3>1, DestroyLeaves
    <3>4. Members(r) = Members(s) /\ OthersSame(s, {c}, r)
      BY <2>1, <2>3, <3>2, <3>3 DEF Left, OthersSame
    <3> QED
      BY <2>1, <3>3, <3>4 DEF Effect, Idle, r
  <2>6. CASE "reply" \notin f
    <3>1. r = SeatOpenClient(added, c, f)
      BY <1>4, <1>8, <2>6
    <3>2. GrantStep(added, {c}, r)
      BY <2>4, <3>1, OpenClientStep
    <3>3. Members(r) = Members(added)
      BY <3>2 DEF GrantStep, SameMembers, Members
    <3>4. \/ r.state = added.state
          \/ r.state = [added.state EXCEPT ![c] = "ACTIVE"]
      BY <3>2 DEF GrantStep, Granted
    <3>5. OthersSame(s, {c}, r) /\ r.state[c] \in {s.state[c], "ACTIVE"}
      BY <2>3, <2>4, <3>4 DEF OthersSame, SeatState
    <3> QED
      BY <2>1, <2>2, <2>3, <3>3, <3>5 DEF Effect, Joined, r
  <2> QED
    BY <2>5, <2>6
<1> QED
  BY <1>6, <1>7, <1>8
-----------------------------------------------------------------------------
(***************************************************************************)
(* The steps of the server.                                                *)
(***************************************************************************)

\* The list and the states are the same in s and r.
Untouched(s, r) == r.clients = s.clients /\ r.state = s.state

\* Then nobody joins, leaves, gets or loses the seat.
LEMMA UntouchedKept ==
  ASSUME NEW s, NEW r, Untouched(s, r)
  PROVE  Effect(s, r)
BY DEF Untouched, Effect, Kept, OthersWait, Members

\* Changing the console, the devices or the owners of group VTs does not touch
\* them.
LEMMA FieldsUntouched ==
  ASSUME NEW s \in SeatState, NEW x
  PROVE  /\ Untouched(s, [s EXCEPT !.tty = x]) /\ Untouched(s, [s EXCEPT !.dev = x])
         /\ \A v : Untouched(s, [s EXCEPT !.group_vts[v] = x])
BY DEF Untouched, SeatState

\* The functions of seat.c that deal with VTs do not touch them.
LEMMA VtUntouched ==
  ASSUME NEW s \in SeatState, NEW f
  PROVE  /\ Untouched(s, SeatVtActivate(s, f)) /\ Untouched(s, SeatVtRelease(s, f))
         /\ Untouched(s, SeatGetActiveVt(s, f))
         /\ \A v \in VT : Untouched(s, SeatSwitchVt(s, v, f))
         /\ \A v \in VT : Untouched(s, SeatDestroyGroupVt(s, v, f))
         /\ \A v \in VT : \A c : Untouched(s, SeatCreateGroupVt(s, c, v, f))
<1> DEFINE u == SeatUpdateVt(s, f)
           d == SeatDropClientDrmMaster(u.dev, u.active_client)
           w == IF KeepsDrmMaster(u) THEN u ELSE [u EXCEPT !.dev = d]
<1>1. VtStep(s, u) /\ Untouched(s, s)
  BY UpdateVtStep DEF Untouched
<1>2. SeatVtRelease(s, f) = IF VtBound THEN VtAck(w, f) ELSE s
  BY DEF SeatVtRelease
<1> HIDE DEF u
<1>3. u \in SeatState /\ Untouched(s, u)
  BY <1>1 DEF VtStep, SameMembers, SameHolder, Untouched
<1>4. Untouched(s, SeatVtActivate(s, f)) /\ Untouched(s, SeatGetActiveVt(s, f))
  <2>1. VtStep(u, VtAck(u, f))
    BY <1>3, VtAckStep
  <2> QED
    BY <1>1, <1>3, <2>1
       DEF SeatVtActivate, SeatGetActiveVt, u, VtStep, SameMembers, SameHolder, Untouched
<1>5. Untouched(s, SeatVtRelease(s, f))
  <2> DEFINE t == TerminalAck(w.tty, w.cur_vt)
  <2>1. w.clients = s.clients /\ w.state = s.state /\ {"clients", "state"} \subseteq DOMAIN w
    <3> HIDE DEF d
    <3> QED
      BY <1>3 DEF Untouched, SeatState
  <2>2. VtAck(w, f) = IF "vt_ack" \in f THEN w ELSE [w EXCEPT !.tty = t]
    BY DEF VtAck
  <2> HIDE DEF w, t
  <2> QED
    BY <1>1, <1>2, <2>1, <2>2 DEF Untouched
<1>6. ASSUME NEW v \in VT PROVE Untouched(s, SeatSwitchVt(s, v, f))
  <2>1. \/ SeatSwitchVt(s, v, f) = s
        \/ SeatSwitchVt(s, v, f) = u
        \/ SeatSwitchVt(s, v, f) = VtSwitch(u, v, f)
    BY DEF SeatSwitchVt, u
  <2>2. VtStep(u, VtSwitch(u, v, f))
    BY <1>3, VtSwitchStep
  <2> QED
    BY <1>1, <1>3, <2>1, <2>2 DEF VtStep, SameMembers, SameHolder, Untouched
<1>7. ASSUME NEW v \in VT, NEW x, NEW z, VtStep(s, z)
      PROVE  Untouched(s, [z EXCEPT !.group_vts[v] = x])
  <2>1. z \in SeatState /\ Untouched(s, z)
    BY <1>7 DEF VtStep, SameMembers, SameHolder, Untouched
  <2> QED
    BY <2>1, FieldsUntouched DEF Untouched
<1>8. VtStep(s, s) /\ \A v \in VT : VtStep(s, VtOpen(s, v)) /\ VtStep(s, VtClose(s, {v}, f))
  BY VtOpenStep, VtCloseStep DEF VtStep, SameMembers, SameHolder
<1>9. ASSUME NEW v \in VT PROVE Untouched(s, SeatDestroyGroupVt(s, v, f))
  <2> DEFINE z == IF VtBound THEN VtClose(s, {v}, f) ELSE s
  <2>1. SeatDestroyGroupVt(s, v, f) =
          IF s.group_vts[v] = NULL THEN s ELSE [z EXCEPT !.group_vts[v] = NULL]
    BY DEF SeatDestroyGroupVt
  <2>2. VtStep(s, z)
    BY <1>8
  <2> HIDE DEF z
  <2> QED
    BY <1>1, <1>7, <2>1, <2>2
<1>10. ASSUME NEW v \in VT, NEW c PROVE Untouched(s, SeatCreateGroupVt(s, c, v, f))
  <2>1. \/ SeatCreateGroupVt(s, c, v, f) = s
        \/ SeatCreateGroupVt(s, c, v, f) = [VtOpen(s, v) EXCEPT !.group_vts[v] = c]
    BY DEF SeatCreateGroupVt
  <2>2. VtStep(s, VtOpen(s, v))
    BY <1>8
  <2>3. Untouched(s, [VtOpen(s, v) EXCEPT !.group_vts[v] = c])
    BY <1>7, <2>2
  <2> QED
    BY <1>1, <2>1, <2>3
<1> QED
  BY <1>4, <1>5, <1>6, <1>9, <1>10

\* The requests of clients.
LEMMA ClientRequestEffect ==
  ASSUME Inv, NEW c \in Client, ClientRequest(c)
  PROVE  Effect(seat, seat')
<1>1. SeatInv(seat) /\ seat \in SeatState
  BY DEF Inv, SeatInv, PartInv
<1>2. CASE Connect(c)
  <2>1. seat' = [seat EXCEPT !.state[c] = "NEW"] /\ seat.state[c] = "none"
    BY <1>2 DEF Connect, Connected, Handle, ClientCreate
  <2>2. /\ seat'.clients = seat.clients /\ seat'.state[c] = "NEW"
        /\ \A x \in Client : x # c => seat'.state[x] = seat.state[x]
    BY <1>1, <2>1 DEF SeatState
  <2>3. Members(seat') = Members(seat) /\ c \notin Members(seat)
    BY <1>1, <2>1, <2>2 DEF Members, SeatInv, PartInv, Listed
  <2> QED
    BY <2>1, <2>2, <2>3 DEF Effect, Idle, OthersSame
<1>3. CASE OpenSeat(c)
  BY <1>1, <1>3, OpenSeatEffect DEF OpenSeat, Connected, Handle
<1>4. CASE CloseSeat(c)
  BY <1>1, <1>4, CloseSeatEffect DEF CloseSeat, Handle
<1>5. CASE DisableSeat(c)
  <2>1. PICK f \in Faults : seat' = HandleDisableSeat(seat, c, f) /\ c \in Members(seat)
    BY <1>5 DEF DisableSeat, Handle
  <2> DEFINE u == SeatAckDisableClient(seat, c, f)
  <2>2. SeatInv(u) /\ Served(seat, c, u) /\ Effect(seat, u)
    BY <1>1, <2>1, AckDisablePreserves, AckServes DEF Preserves, Effect
  <2>3. seat' = Reply(u, c, f)
    BY <2>1 DEF HandleDisableSeat
  <2> HIDE DEF u
  <2> QED
    BY <1>1, <2>1, <2>2, <2>3, ReplyEffect
<1>6. CASE Disconnect(c)
  BY <1>1, <1>6, DestroyEffect DEF Disconnect, Connected, Handle
<1>7. ASSUME NEW n \in SessionRequest, SwitchSession(c, n) PROVE Effect(seat, seat')
  <2>1. PICK f \in Faults : seat' = HandleSwitchSession(seat, c, n, f) /\ c \in Members(seat)
    BY <1>7 DEF SwitchSession, Handle
  <2> DEFINE u == SeatSetNextSession(seat, c, n, f)
  <2>2. SeatInv(u) /\ Served(seat, c, u) /\ Effect(seat, u)
    BY <1>1, <2>1, SetNextSessionPreserves, SetNextServes, SessionAssumption
       DEF Preserves, Effect
  <2>3. seat' = Reply(u, c, f)
    BY <2>1 DEF HandleSwitchSession
  <2> HIDE DEF u
  <2> QED
    BY <1>1, <2>1, <2>2, <2>3, ReplyEffect
<1>8. ASSUME NEW u, NEW f, c \in Members(seat), seat' = Reply(u, c, f), SeatInv(u),
             u.clients = seat.clients, u.state = seat.state
      PROVE  Effect(seat, seat')
  <2>1. Members(u) = Members(seat)
    BY <1>8 DEF Members
  <2>2. Served(seat, c, u) /\ Kept(seat, u)
    BY <1>8, <2>1 DEF Served, Kept, OthersWait
  <2>3. Effect(seat, u)
    BY <2>2 DEF Effect
  <2> QED
    BY <1>1, <1>8, <2>2, <2>3, ReplyEffect
<1>9. ASSUME NEW p \in Path, OpenDevice(c, p) PROVE Effect(seat, seat')
  <2>1. PICK f \in Faults : seat' = HandleOpenDevice(seat, c, p, f) /\ c \in Members(seat)
    BY <1>9 DEF OpenDevice, Handle
  <2> DEFINE d == SeatOpenDevice(seat.dev, c, p)
             u == IF seat.state[c] = "ACTIVE" /\ CanOpenDevice(seat.dev, c, p)
                    THEN [seat EXCEPT !.dev = d] ELSE seat
  <2>2. seat' = Reply(u, c, f)
    BY <2>1 DEF HandleOpenDevice
  <2>3. SeatInv(u)
    BY <1>1, <2>1, DeviceStepPreserves DEF Preserves
  <2>4. u.clients = seat.clients /\ u.state = seat.state
    BY <1>1 DEF SeatState
  <2> HIDE DEF u
  <2> QED
    BY <1>8, <2>1, <2>2, <2>3, <2>4
<1>10. ASSUME NEW p \in Path, CloseDevice(c, p) PROVE Effect(seat, seat')
  <2>1. PICK f \in Faults : seat' = HandleCloseDevice(seat, c, p, f) /\ c \in Members(seat)
    BY <1>10 DEF CloseDevice, Handle
  <2> DEFINE d == SeatCloseDevice(seat.dev, c, p, f)
             u == IF p \in OpenPaths(seat.dev, c) THEN [seat EXCEPT !.dev = d] ELSE seat
  <2>2. seat' = Reply(u, c, f)
    BY <2>1 DEF HandleCloseDevice
  <2>3. SeatInv(u)
    BY <1>1, <2>1, DeviceStepPreserves DEF Preserves
  <2>4. u.clients = seat.clients /\ u.state = seat.state
    BY <1>1 DEF SeatState
  <2> HIDE DEF u
  <2> QED
    BY <1>8, <2>1, <2>2, <2>3, <2>4
<1> QED
  BY <1>2, <1>3, <1>4, <1>5, <1>6, <1>7, <1>9, <1>10 DEF ClientRequest

\* The VT signals and the messages of the VT event thread.
LEMMA VtCallbackEffect ==
  ASSUME Inv, VtRel \/ VtAcq \/ VtEvent
  PROVE  Effect(seat, seat')
<1>1. SeatInv(seat) /\ seat \in SeatState /\ seat.tty \in Console
  BY DEF Inv, SeatInv, PartInv, SeatState
<1>2. ASSUME NEW r \in SeatState, NEW sig, Untouched(seat, r), seat' = Lower(r, sig)
      PROVE  Effect(seat, seat')
  <2>1. Lower(r, sig) = [r EXCEPT !.tty = [r.tty EXCEPT !.sig = @ \ {sig}]]
    BY DEF Lower
  <2>2. Untouched(seat, seat')
    BY <1>2, <2>1, FieldsUntouched DEF Untouched
  <2> QED
    BY <2>2, UntouchedKept
<1>3. CASE VtRel
  <2>1. PICK f \in Faults : seat' = Lower(SeatVtRelease(seat, f), SIGUSR1)
    BY <1>3 DEF VtRel, Handle
  <2>2. SeatVtRelease(seat, f) \in SeatState
    BY <1>1, VtReleasePreserves DEF Preserves, SeatInv, PartInv
  <2> QED
    BY <1>1, <1>2, <2>1, <2>2, VtUntouched
<1>4. CASE VtAcq
  <2>1. PICK f \in Faults : seat' = Lower(SeatVtActivate(seat, f), SIGUSR2)
    BY <1>4 DEF VtAcq, Handle
  <2>2. SeatVtActivate(seat, f) \in SeatState
    BY <1>1, VtActivatePreserves DEF Preserves, SeatInv, PartInv
  <2> QED
    BY <1>1, <1>2, <2>1, <2>2, VtUntouched
<1>5. CASE VtEvent
  <2> DEFINE t == [seat.tty EXCEPT !.pipe = Tail(@)]
             u == [seat EXCEPT !.tty = t]
             v == Head(seat.tty.pipe)
  <2>1. PICK f \in Faults : seat' = SeatHandleVtEvent(u, v, f)
    BY <1>5 DEF VtEvent, Handle
  <2>2. seat.tty.pipe \in Seq(VT) /\ seat.tty.pipe # <<>>
    BY <1>1, <1>5 DEF Console, VtEvent
  <2>3. v \in VT /\ Tail(seat.tty.pipe) \in Seq(VT)
    BY <2>2
  <2>4. t \in Console /\ t.proc = seat.tty.proc /\ t.gfx = seat.tty.gfx
    BY <1>1, <2>3 DEF Console
  <2> HIDE DEF t, v
  <2>5. SeatInv(u) /\ u.clients = seat.clients /\ u.state = seat.state
        /\ u.active_client = seat.active_client
    BY <1>1, <2>4, TtyInv DEF SeatState
  <2> HIDE DEF u
  <2>6. Effect(u, seat')
    BY <2>1, <2>3, <2>5, VtEventEffect
  <2>7. Members(u) = Members(seat)
    BY <2>5 DEF Members
  <2> QED
    BY <2>5, <2>6, <2>7, SameStart
<1> QED
  BY <1>3, <1>4, <1>5

\* The requests of control peers.
LEMMA ControlRequestEffect ==
  ASSUME Inv, ControlRequest
  PROVE  Effect(seat, seat')
<1>1. seat \in SeatState
  BY DEF Inv, SeatInv, PartInv
<1>2. Untouched(seat, seat')
  <2>1. ASSUME NEW pid, NEW v \in GroupVT, CreateGroupVt(pid, v) PROVE Untouched(seat, seat')
    BY <1>1, <2>1, VtUntouched, GroupAssumption DEF CreateGroupVt, Handle
  <2>2. ASSUME NEW v \in GroupVT, DestroyGroupVt(v) PROVE Untouched(seat, seat')
    BY <1>1, <2>2, VtUntouched, GroupAssumption DEF DestroyGroupVt, Handle
  <2>3. ASSUME NEW v \in VT, SwitchVt(v) PROVE Untouched(seat, seat')
    BY <1>1, <2>3, VtUntouched DEF SwitchVt, Handle
  <2>4. CASE GetActiveVt
    BY <1>1, <2>4, VtUntouched DEF GetActiveVt, Handle
  <2> QED
    BY <2>1, <2>2, <2>3, <2>4 DEF ControlRequest
<1> QED
  BY <1>2, UntouchedKept

\* Termination, the VT event thread and the kernel.
LEMMA OtherEffect ==
  ASSUME Inv, Terminate \/ Environment \/ UNCHANGED vars
  PROVE  Effect(seat, seat')
<1>1. SeatInv(seat) /\ seat \in SeatState
  BY DEF Inv, SeatInv, PartInv
<1>2. ASSUME NEW c \in Client, FinishClient(c) PROVE Effect(seat, seat')
  BY <1>1, <1>2, DestroyEffect DEF FinishClient, Connected
<1>3. CASE Kill
  <2>1. \E t : seat' = [seat EXCEPT !.tty = t]
    BY <1>3 DEF Kill
  <2> QED
    BY <1>1, <2>1, FieldsUntouched, UntouchedKept
<1>4. CASE Exit \/ UNCHANGED vars
  BY <1>4, UntouchedKept DEF Exit, vars, Untouched
<1>5. CASE Environment
  <2>1. \E t : seat' = [seat EXCEPT !.tty = t]
    BY <1>5 DEF Environment, KernelSwitch, ThreadWrite, ThreadWait, Chvt, Tty
  <2> QED
    BY <1>1, <2>1, FieldsUntouched, UntouchedKept
<1> QED
  BY <1>2, <1>3, <1>4, <1>5 DEF Terminate

\* Every step has one of the effects.
LEMMA StepEffect ==
  ASSUME Inv, [Next]_vars
  PROVE  Effect(seat, seat')
BY ClientRequestEffect, VtCallbackEffect, ControlRequestEffect, OtherEffect DEF Next
-----------------------------------------------------------------------------
(***************************************************************************)
(* The refinements.                                                        *)
(***************************************************************************)

\* What the invariant says of active_client.
LEMMA HolderFacts ==
  ASSUME NEW s, SeatInv(s)
  PROVE  /\ s.active_client \in Members(s) \cup {NULL} /\ NULL \notin Client
         /\ Members(s) \subseteq Client
         /\ \A c \in Client : s.active_client = c <=> s.state[c] \in {"ACTIVE", "PENDING_DISABLE"}
<1>1. s \in SeatState
  BY DEF SeatInv, PartInv
<1> QED
  BY <1>1, MembersAreClients, ClientAssumption DEF SeatInv, PartInv, ExactBut, SeatState

\* Every effect is a step of SeatArbiter, or none.
LEMMA EffectArbitrates ==
  ASSUME Inv, Inv', Effect(seat, seat')
  PROVE  [Arbiter!Next]_(Arbiter!vars)
<1> DEFINE h == seat.active_client
           k == seat'.active_client
           rev == h # NULL /\ seat.state[h] = "PENDING_DISABLE"
           rev2 == k # NULL /\ seat'.state[k] = "PENDING_DISABLE"
<1>1. /\ h \in Members(seat) \cup {NULL} /\ NULL \notin Client /\ Members(seat) \subseteq Client
      /\ \A c \in Client : h = c <=> seat.state[c] \in {"ACTIVE", "PENDING_DISABLE"}
  BY HolderFacts DEF Inv
<1>2. /\ k \in Members(seat') \cup {NULL} /\ Members(seat') \subseteq Client
      /\ \A c \in Client : k = c <=> seat'.state[c] \in {"ACTIVE", "PENDING_DISABLE"}
  BY HolderFacts DEF Inv
<1>3. CASE Kept(seat, seat')
  <2>1. h # NULL => k = h /\ seat'.state[h] = seat.state[h]
    BY <1>1, <1>2, <1>3 DEF Kept, OthersWait
  <2>2. h = NULL => ~rev2
    BY <1>1, <1>2, <1>3 DEF Kept, OthersWait
  <2> QED
    BY <1>2, <1>3, <2>1, <2>2 DEF Kept, Arbiter!Next, Arbiter!Grant, Arbiter!PassOn, Arbiter!vars
<1>4. ASSUME NEW c \in Client, Asked(seat, c, seat') PROVE Arbiter!Next
  <2>1. h = c /\ k = c
    BY <1>1, <1>2, <1>4 DEF Asked
  <2> QED
    BY <1>1, <1>4, <2>1 DEF Asked, Arbiter!Next, Arbiter!Revoke
<1>5. ASSUME NEW c \in Client, Acked(seat, c, seat') PROVE Arbiter!Next
  <2>1. h = c /\ rev
    BY <1>1, <1>5 DEF Acked
  <2>2. ~rev2
    BY <1>1, <1>2, <1>5, <2>1 DEF Acked, OthersWait
  <2> QED
    BY <1>2, <1>5, <2>1, <2>2 DEF Acked, Arbiter!Next, Arbiter!Agree, Arbiter!PassOn
<1>6. ASSUME NEW c \in Client, Left(seat, c, seat') PROVE Arbiter!Next
  <2>1. h = c => ~rev2
    BY <1>1, <1>2, <1>6 DEF Left, OthersWait
  <2>2. h # c => k = h /\ (h # NULL => seat'.state[h] = seat.state[h])
    BY <1>1, <1>2, <1>6 DEF Left, OthersSame
  <2> QED
    BY <1>2, <1>6, <2>1, <2>2 DEF Left, Arbiter!Next, Arbiter!Leave, Arbiter!PassOn
<1>7. ASSUME NEW c \in Client, Joined(seat, c, seat') PROVE Arbiter!Next
  <2>1. h = NULL => k \in {c, NULL} /\ ~rev2
    BY <1>1, <1>2, <1>7 DEF Joined, OthersSame
  <2>2. h # NULL => k = h /\ seat'.state[h] = seat.state[h]
    BY <1>1, <1>2, <1>7 DEF Joined, OthersSame
  <2> QED
    BY <1>7, <2>1, <2>2 DEF Joined, Arbiter!Next, Arbiter!Join, Arbiter!PassOn
<1>8. ASSUME NEW c \in Client, Idle(seat, c, seat') PROVE UNCHANGED Arbiter!vars
  <2>1. k = h /\ (h # NULL => seat'.state[h] = seat.state[h])
    BY <1>1, <1>2, <1>8 DEF Idle, OthersSame
  <2> QED
    BY <1>8, <2>1 DEF Idle, Arbiter!vars
<1> QED
  BY <1>3, <1>4, <1>5, <1>6, <1>7, <1>8 DEF Effect

\* seatd arbitrates the seat as SeatArbiter promises, for every number of
\* clients and VTs and every combination of failing calls.
THEOREM ArbiterRefined == Spec => ArbitratesSeat
<1>1. Init => Arbiter!Init
  BY DEF Init, SeatCreate, Arbiter!Init, Members
<1>2. Inv /\ Inv' /\ [Next]_vars => [Arbiter!Next]_(Arbiter!vars)
  BY StepEffect, EffectArbitrates
<1> QED
  BY <1>1, <1>2, InvHolds, PTL DEF Spec, ArbitratesSeat, Arbiter!Spec

\* A client that is not on the seat has not joined it yet, has closed it, or
\* is not connected; so only a new client can join.
OutsideStates ==
  \A c \in Client : c \notin Members(seat) => seat.state[c] \in {"none", "NEW", "CLOSED"}

\* Every effect keeps the clients outside in these states.
LEMMA EffectOutside ==
  ASSUME Inv, OutsideStates, Effect(seat, seat')
  PROVE  OutsideStates'
<1>1. CASE Kept(seat, seat')
  BY <1>1 DEF Kept, OthersWait, OutsideStates
<1>2. ASSUME NEW c \in Client, Asked(seat, c, seat') \/ Acked(seat, c, seat')
      PROVE  OutsideStates'
  BY <1>2 DEF Asked, Acked, OthersWait, OthersSame, OutsideStates
<1>3. ASSUME NEW c \in Client, Left(seat, c, seat') \/ Joined(seat, c, seat')
      PROVE  OutsideStates'
  BY <1>3 DEF Left, Joined, OthersWait, OthersSame, OutsideStates
<1>4. ASSUME NEW c \in Client, Idle(seat, c, seat') PROVE OutsideStates'
  BY <1>4 DEF Idle, OthersSame, OutsideStates
<1> QED
  BY <1>1, <1>2, <1>3, <1>4 DEF Effect

\* Every effect is a step of the session of every client, or none.
LEMMA EffectFollowsSession ==
  ASSUME Inv, OutsideStates, Effect(seat, seat'), NEW c \in Client
  PROVE  Session(c)!SessionNext \/ UNCHANGED <<seat.state[c], c \in Members(seat)>>
<1> DEFINE Same == (c \in Members(seat)) = (c \in Members(seat'))
           Goal == Session(c)!SessionNext \/ UNCHANGED <<seat.state[c], c \in Members(seat)>>
<1> SUFFICES Goal
  OBVIOUS
<1> HIDE DEF Same, Goal
<1>1. c \in Members(seat) => seat.state[c] \notin {"none", "CLOSED"}
  BY DEF Inv, SeatInv, PartInv, Listed
<1>2. ASSUME Same, \/ seat'.state[c] = seat.state[c]
                   \/ /\ c \in Members(seat) /\ seat.state[c] \in {"NEW", "DISABLED"}
                      /\ seat'.state[c] = "ACTIVE"
      PROVE  Goal
  BY <1>2 DEF Same, Goal, Session!SessionNext, Session!Grant
<1>3. CASE Kept(seat, seat')
  <2>1. Same
    BY <1>3 DEF Kept, Same
  <2> QED
    BY <1>2, <1>3, <2>1 DEF Kept, OthersWait
<1>4. ASSUME NEW x \in Client, x # c,
             \/ Asked(seat, x, seat') \/ Acked(seat, x, seat')
             \/ Left(seat, x, seat') \/ Joined(seat, x, seat') \/ Idle(seat, x, seat')
      PROVE  Goal
  <2>1. Same
    <3>1. CASE Asked(seat, x, seat') \/ Acked(seat, x, seat') \/ Idle(seat, x, seat')
      BY <3>1 DEF Same, Asked, Acked, Idle
    <3>2. CASE Left(seat, x, seat')
      BY <1>4, <3>2 DEF Same, Left
    <3>3. CASE Joined(seat, x, seat')
      BY <1>4, <3>3 DEF Same, Joined
    <3> QED
      BY <1>4, <3>1, <3>2, <3>3
  <2>2. OthersWait(seat, {x}, seat') \/ OthersSame(seat, {x}, seat')
    BY <1>4 DEF Asked, Acked, Left, Joined, Idle
  <2> QED
    BY <1>2, <1>4, <2>1, <2>2 DEF OthersWait, OthersSame
<1>5. CASE Asked(seat, c, seat') \/ Acked(seat, c, seat')
  <2>1. c \in Members(seat) /\ c \in Members(seat')
    BY <1>5 DEF Asked, Acked, Inv, SeatInv, PartInv, ExactBut
  <2> QED
    BY <1>5, <2>1 DEF Asked, Acked, Goal, Session!SessionNext, Session!Revoke, Session!Ack
<1>6. CASE Left(seat, c, seat')
  <2>1. c \in Members(seat) /\ c \notin Members(seat') /\ seat'.state[c] \in {"CLOSED", "none"}
    BY <1>6 DEF Left
  <2> QED
    BY <1>1, <2>1 DEF Goal, Session!SessionNext, Session!Depart, Session!Detach
<1>7. CASE Joined(seat, c, seat')
  <2>1. /\ seat.state[c] = "NEW" /\ seat'.state[c] \in {"NEW", "ACTIVE"}
        /\ c \notin Members(seat) /\ c \in Members(seat')
    BY <1>7 DEF Joined, OutsideStates
  <2> QED
    BY <2>1 DEF Goal, Session!SessionNext, Session!Join
<1>8. CASE Idle(seat, c, seat')
  <2>1. /\ c \notin Members(seat) /\ c \notin Members(seat')
        /\ \/ seat.state[c] = "none" /\ seat'.state[c] = "NEW"
           \/ seat.state[c] # "none" /\ seat'.state[c] = "none"
    BY <1>8 DEF Idle
  <2> QED
    BY <2>1 DEF Goal, Session!SessionNext, Session!Attach, Session!Detach
<1>9. ASSUME NEW x \in Client,
             \/ Asked(seat, x, seat') \/ Acked(seat, x, seat')
             \/ Left(seat, x, seat') \/ Joined(seat, x, seat') \/ Idle(seat, x, seat')
      PROVE  Goal
  <2>1. CASE x = c
    BY <1>5, <1>6, <1>7, <1>8, <1>9, <2>1
  <2>2. CASE x # c
    BY <1>4, <1>9, <2>2
  <2> QED
    BY <2>1, <2>2
<1> QED
  BY <1>3, <1>9 DEF Effect

\* The session of every client follows SeatSession: its enable and disable
\* events alternate, and it is not enabled again before its ack.
THEOREM SessionsFollowed == Spec => FollowsSession
<1> DEFINE A == \A c \in Client : Session(c)!SessionNext
                                   \/ UNCHANGED <<seat.state[c], c \in Members(seat)>>
<1>1. Init => OutsideStates
  BY DEF Init, SeatCreate, OutsideStates
<1>2. Inv /\ OutsideStates /\ [Next]_vars => OutsideStates'
  BY StepEffect, EffectOutside
<1>3. Inv /\ OutsideStates /\ [Next]_vars => A
  BY StepEffect, EffectFollowsSession
<1>4. FollowsSession <=> [][A]_vars
  BY DEF FollowsSession
<1> HIDE DEF A
<1> QED
  BY <1>1, <1>2, <1>3, <1>4, InvHolds, PTL DEF Spec
=============================================================================
