---------------------------- MODULE ServerProofs ----------------------------
(***************************************************************************)
(* The safety invariants of Server, for every number of clients, VTs and   *)
(* devices and for every combination of failing calls.                     *)
(***************************************************************************)
EXTENDS Server, SeatProofs

\* Every callback preserves SeatInv; input devices need revoking to work.
Inv ==
  /\ SeatInv(seat)
  /\ running \in {"yes", "finishing", "no"}
  /\ (\A f \in Faults : "revoke" \notin f) => InputSafe(seat)
-----------------------------------------------------------------------------
\* client_destroy takes the client off the seat and forgets it.
LEMMA ClientDestroyPreserves ==
  ASSUME NEW s, NEW c \in Client, NEW f, SeatInv(s)
  PROVE  Preserves(s, f, ClientDestroy(s, c, f))
<1> DEFINE u == IF c \in Members(s) THEN SeatRemoveClient(s, c, f) ELSE s
           r == ClientDestroy(s, c, f)
<1>1. /\ Preserves(s, f, u) /\ c \notin Members(u)
      /\ \A p \in Path : "revoke" \notin f /\ InputSafe(s) => ~Reads(u.dev, c, p)
  <2>1. CASE c \in Members(s)
    BY <2>1, RemoveClientPreserves
  <2>2. CASE c \notin Members(s)
    BY <2>2 DEF Preserves, SeatInv, PartInv, ExactBut, InputSafe
  <2> QED
    BY <2>1, <2>2
<1>2. r = [u EXCEPT !.state[c] = "none", !.session[c] = -1]
  BY DEF ClientDestroy
<1> HIDE DEF u, r
<1>3. u \in SeatState
  BY <1>1 DEF Preserves, SeatInv, PartInv
<1>4. /\ r \in SeatState /\ r.clients = u.clients /\ r.group_vts = u.group_vts
      /\ r.active_client = u.active_client /\ r.next_client = u.next_client
      /\ r.dev = u.dev /\ r.tty = u.tty
      /\ r.state[c] = "none"
      /\ \A x \in Client : x # c => r.state[x] = u.state[x] /\ r.session[x] = u.session[x]
  <2>1. /\ [u.state EXCEPT ![c] = "none"] \in [Client -> ClientState]
        /\ [u.session EXCEPT ![c] = -1] \in [Client -> Int]
    BY <1>3 DEF SeatState, ClientState
  <2>2. r = [u EXCEPT !.state = [u.state EXCEPT ![c] = "none"],
                      !.session = [u.session EXCEPT ![c] = -1]]
    BY <1>2
  <2> QED
    BY <1>3, <2>1, <2>2 DEF SeatState
<1>5. Members(r) = Members(u)
  BY <1>4 DEF Members
<1>6. u.active_client # c /\ u.active_client \in Client \cup {NULL}
  BY <1>1, <1>3 DEF Preserves, SeatInv, PartInv, ExactBut, SeatState
<1>7. ExactBut(r, {})
  BY <1>1, <1>4, <1>5, <1>6 DEF Preserves, SeatInv, PartInv, ExactBut
<1>8. Listed(r, {})
  BY <1>1, <1>3, <1>4, <1>5, MembersAreClients DEF Preserves, SeatInv, PartInv, Listed
<1>9. PartInv(r, {})
  BY <1>1, <1>4, <1>5, <1>7, <1>8 DEF Preserves, SeatInv, PartInv
<1>10. Queued(r)
  <2>1. u.active_client \in Client \cup {NULL} /\ u.next_client \in Client \cup {NULL}
    BY <1>3 DEF SeatState
  <2> QED
    BY <1>1, <1>4, <1>5, <1>6, <2>1 DEF Preserves, SeatInv, Queued
<1>11. "revoke" \notin f /\ InputSafe(s) => InputSafe(r)
  BY <1>1, <1>4 DEF Preserves, InputSafe
<1> QED
  BY <1>9, <1>10, <1>11 DEF Preserves, SeatInv, r

\* A reply that fails ends the connection, which preserves the invariant.
LEMMA ReplyPreserves ==
  ASSUME NEW s, NEW r, NEW c \in Client, NEW f, Preserves(s, f, r)
  PROVE  Preserves(s, f, Reply(r, c, f))
<1>1. Preserves(r, f, ClientDestroy(r, c, f))
  BY ClientDestroyPreserves DEF Preserves
<1> QED
  BY <1>1 DEF Reply, Preserves

\* A new connection has no state yet.
LEMMA ClientCreatePreserves ==
  ASSUME NEW s, NEW c \in Client, NEW f, SeatInv(s), s.state[c] = "none"
  PROVE  Preserves(s, f, ClientCreate(s, c))
<1> DEFINE r == ClientCreate(s, c)
<1>1. s \in SeatState
  BY DEF SeatInv, PartInv
<1>2. /\ r \in SeatState /\ SameMembers(s, r)
      /\ r.active_client = s.active_client /\ r.next_client = s.next_client
      /\ r.dev = s.dev /\ r.tty = s.tty
      /\ r.state[c] = "NEW"
      /\ \A x \in Client : x # c => r.state[x] = s.state[x]
  BY <1>1 DEF SeatState, ClientState, SameMembers, ClientCreate
<1> HIDE DEF r
<1>3. Members(r) = Members(s) /\ c \notin Members(s)
  <2>1. Members(r) = Members(s)
    BY <1>2 DEF SameMembers, Members
  <2>2. c \notin Members(s)
    BY DEF SeatInv, PartInv, Listed
  <2> QED
    BY <2>1, <2>2
<1>4. ExactBut(r, {}) /\ Listed(r, {})
  <2>1. ExactBut(r, {})
    BY <1>2, <1>3 DEF SeatInv, PartInv, ExactBut
  <2>2. Listed(r, {})
    BY <1>1, <1>2, <1>3, MembersAreClients DEF SeatInv, PartInv, Listed, SameMembers
  <2> QED
    BY <2>1, <2>2
<1>5. PartInv(r, {})
  BY <1>2, <1>3, <1>4 DEF SeatInv, PartInv, SameMembers
<1>6. Queued(r)
  <2>1. s.next_client # NULL => s.active_client \in Client /\ s.active_client # c
    <3>1. s.active_client # NULL => s.active_client \in Client
      BY <1>1 DEF SeatState
    <3>2. s.next_client # NULL => s.active_client # NULL
                                    /\ s.state[s.active_client] = "PENDING_DISABLE"
      BY DEF SeatInv, Queued
    <3> QED
      BY <3>1, <3>2
  <2>2. s.next_client # NULL => s.next_client \in Client /\ s.next_client # c
    BY <1>1, <1>3 DEF SeatInv, Queued, SeatState
  <2> QED
    BY <1>2, <1>3, <2>1, <2>2 DEF SeatInv, Queued
<1>7. InputSafe(s) => InputSafe(r)
  BY <1>2 DEF InputSafe
<1> QED
  BY <1>5, <1>6, <1>7 DEF Preserves, SeatInv, r

\* A new client's session is a VT or a number.
LEMMA NewSessionIsNumber ==
  ASSUME NEW s \in SeatState, VtAcceptsClient(s), NEW n \in NewSession(s)
  PROVE  n \in Int /\ n # -1
<1>1. s.cur_vt \in VT \cup {-1} /\ Len(s.clients) \in Nat
  BY DEF SeatState
<1>2. CASE VtBound
  <2>1. n = s.cur_vt /\ s.cur_vt # -1
    BY <1>2 DEF NewSession, VtAcceptsClient
  <2>2. s.cur_vt \in VT
    BY <1>1, <2>1
  <2>3. s.cur_vt \in Nat
    BY <2>2, VTAssumption
  <2> QED
    BY <2>1, <2>3
<1>3. CASE ~VtBound
  <2> DEFINE used == {s.session[x] : x \in Members(s)}
  <2>1. NewSession(s) = {k \in 1 .. Len(s.clients) + 1 :
                           k \notin used /\ 1 .. k-1 \subseteq used}
    BY <1>3 DEF NewSession
  <2> HIDE DEF used
  <2>2. n \in 1 .. Len(s.clients) + 1
    BY <2>1
  <2> QED
    BY <1>1, <2>2
<1> QED
  BY <1>2, <1>3

\* handle_open_seat adds the client and opens it, or ends the connection.
LEMMA HandleOpenSeatPreserves ==
  ASSUME NEW s, NEW c \in Client, NEW f, SeatInv(s), s.state[c] # "none",
         NEW n \in NewSession(IF VtBound THEN SeatUpdateVt(s, f) ELSE s)
  PROVE  Preserves(s, f, HandleOpenSeat(s, c, n, f))
<1> DEFINE u == IF VtBound THEN SeatUpdateVt(s, f) ELSE s
           added == SeatAddClient(u, c, n)
<1>1. s \in SeatState
  BY DEF SeatInv, PartInv
<1>2. VtStep(s, u)
  BY <1>1, UpdateVtStep DEF VtStep, SameMembers, SameHolder
<1>3. n \in NewSession(u)
  OBVIOUS
<1>4. HandleOpenSeat(s, c, n, f) =
        IF ~MayAddClient(s, c) THEN ClientDestroy(s, c, f)
        ELSE IF ~VtAcceptsClient(u) THEN ClientDestroy(u, c, f)
        ELSE IF "reply" \in f THEN ClientDestroy(added, c, f)
        ELSE SeatOpenClient(added, c, f)
  BY DEF HandleOpenSeat
<1> HIDE DEF u
<1>5. u \in SeatState /\ Preserves(s, f, u) /\ SeatInv(u)
  BY <1>2, VtStepPreserves DEF Preserves, VtStep
<1>6. CASE ~MayAddClient(s, c)
  BY <1>4, <1>6, ClientDestroyPreserves
<1>7. CASE MayAddClient(s, c) /\ ~VtAcceptsClient(u)
  BY <1>4, <1>5, <1>7, ClientDestroyPreserves DEF Preserves
<1>8. CASE MayAddClient(s, c) /\ VtAcceptsClient(u)
  <2>1. n \in Int /\ n # -1
    BY <1>3, <1>5, <1>8, NewSessionIsNumber
  <2>2. c \notin Members(u) /\ u.state[c] # "none" /\ u.session[c] = -1
    BY <1>2, <1>8 DEF VtStep, SameMembers, SameHolder, Members, MayAddClient
  <2>3. Preserves(u, f, added)
    BY <1>5, <2>1, <2>2, AddClientPreserves
  <2>4. c \in Members(added)
    BY <1>5, <2>1, <2>2, AddClientPreserves
  <2> HIDE DEF added
  <2>5. /\ Preserves(added, f, ClientDestroy(added, c, f))
        /\ Preserves(added, f, SeatOpenClient(added, c, f))
    BY <2>3, <2>4, ClientDestroyPreserves, OpenClientPreserves DEF Preserves
  <2> QED
    BY <1>4, <1>5, <1>8, <2>3, <2>5 DEF Preserves
<1> QED
  BY <1>6, <1>7, <1>8

\* seat_open_device, which only the active client reaches, and
\* seat_close_device, which finds the device or does nothing.
LEMMA DeviceStepPreserves ==
  ASSUME NEW s, NEW c \in Members(s), NEW p \in Path, NEW f, SeatInv(s)
  PROVE  /\ s.state[c] = "ACTIVE" =>
              Preserves(s, f, [s EXCEPT !.dev = SeatOpenDevice(@, c, p)])
         /\ p \in OpenPaths(s.dev, c) =>
              Preserves(s, f, [s EXCEPT !.dev = SeatCloseDevice(@, c, p, f)])
<1>1. s \in SeatState /\ c \in Client /\ s.dev \in DeviceState /\ Accounted(s.dev)
  BY MembersAreClients DEF SeatInv, PartInv, SeatState
<1>2. ASSUME s.state[c] = "ACTIVE"
      PROVE  Preserves(s, f, [s EXCEPT !.dev = SeatOpenDevice(@, c, p)])
  <2> DEFINE d == SeatOpenDevice(s.dev, c, p)
             r == [s EXCEPT !.dev = d]
  <2>1. /\ d \in DeviceState /\ Accounted(d)
        /\ \A x \in Client, q \in Path : Reads(d, x, q) => Reads(s.dev, x, q) \/ x = c
    BY <1>1, OpenDeviceSafe
  <2> HIDE DEF d
  <2>2. /\ r \in SeatState /\ SameMembers(s, r) /\ SameHolder(s, r)
        /\ r.tty = s.tty /\ r.dev = d
    BY <1>1, <2>1 DEF SeatState, SameMembers, SameHolder
  <2> HIDE DEF r
  <2>3. Members(r) = Members(s)
    BY <2>2 DEF SameMembers, Members
  <2>4. ExactBut(r, {}) /\ Listed(r, {}) /\ Queued(r)
    BY <2>2, <2>3 DEF SeatInv, PartInv, ExactBut, Listed, Queued, SameMembers, SameHolder
  <2>5. PartInv(r, {})
    BY <2>1, <2>2, <2>3, <2>4 DEF SeatInv, PartInv, SameMembers
  <2>6. InputSafe(s) => InputSafe(r)
    BY <1>2, <2>1, <2>2 DEF InputSafe, SameHolder
  <2> QED
    BY <2>4, <2>5, <2>6 DEF Preserves, SeatInv, r, d
<1>3. ASSUME p \in OpenPaths(s.dev, c)
      PROVE  Preserves(s, f, [s EXCEPT !.dev = SeatCloseDevice(@, c, p, f)])
  <2> DEFINE d == SeatCloseDevice(s.dev, c, p, f)
  <2>1. SafeStep(s.dev, d)
    BY <1>1, <1>3, CloseDeviceSafe
  <2> HIDE DEF d
  <2>2. QuietStep(s, [s EXCEPT !.dev = d])
    BY <1>1, <2>1, DevStep DEF QuietStep
  <2> QED
    BY <2>2, QuietPreserves DEF d
<1> QED
  BY <1>2, <1>3

\* Opening and closing devices, with the reply.
LEMMA DevicePreserves ==
  ASSUME NEW s, NEW c \in Members(s), NEW p \in Path, NEW f, SeatInv(s)
  PROVE  /\ Preserves(s, f, HandleOpenDevice(s, c, p, f))
         /\ Preserves(s, f, HandleCloseDevice(s, c, p, f))
<1>1. c \in Client /\ Preserves(s, f, s)
  BY MembersAreClients DEF SeatInv, PartInv, Preserves
<1> QED
  BY <1>1, DeviceStepPreserves, ReplyPreserves DEF HandleOpenDevice, HandleCloseDevice

\* The requests of a member.
LEMMA MemberPreserves ==
  ASSUME NEW s, NEW c \in Members(s), NEW f, SeatInv(s)
  PROVE  /\ Preserves(s, f, HandleCloseSeat(s, c, f))
         /\ Preserves(s, f, HandleDisableSeat(s, c, f))
         /\ \A n \in SessionRequest : Preserves(s, f, HandleSwitchSession(s, c, n, f))
<1>1. c \in Client
  BY MembersAreClients DEF SeatInv, PartInv
<1>2. \A n \in SessionRequest : Preserves(s, f, SeatSetNextSession(s, c, n, f))
  BY SetNextSessionPreserves, SessionAssumption
<1> QED
  BY <1>1, <1>2, RemoveClientPreserves, AckDisablePreserves, ReplyPreserves
     DEF HandleCloseSeat, HandleDisableSeat, HandleSwitchSession
-----------------------------------------------------------------------------
(***************************************************************************)
(* The steps of the server.                                                *)
(***************************************************************************)

\* The console changes under the seat without touching its modes.
LEMMA TtyInv ==
  ASSUME Inv, NEW t \in Console, t.proc = seat.tty.proc, t.gfx = seat.tty.gfx
  PROVE  LET r == [seat EXCEPT !.tty = t]
         IN  SeatInv(r) /\ (InputSafe(seat) => InputSafe(r))
<1>1. seat \in SeatState
  BY DEF Inv, SeatInv, PartInv
<1>2. VtStep(seat, [seat EXCEPT !.tty = t])
  BY <1>1, TtyStep DEF Leavable
<1> QED
  BY <1>1, <1>2, VtStepQuiet, QuietKeeps DEF Inv, SeatInv

\* A callback that preserves the invariant of the seat preserves Inv.
LEMMA HandleInv ==
  ASSUME Inv, NEW f \in Faults, NEW s, Preserves(seat, f, s), seat' = s,
         running' \in {"yes", "finishing", "no"}
  PROVE  Inv'
BY DEF Inv, Preserves

\* Clearing the raised flag of a signal after its callback.
LEMMA LowerPreserves ==
  ASSUME NEW s, NEW r, NEW f, NEW sig, Preserves(s, f, r)
  PROVE  Preserves(s, f, Lower(r, sig))
<1> DEFINE t == [r.tty EXCEPT !.sig = @ \ {sig}]
<1>1. r \in SeatState /\ r.tty \in Console /\ SeatInv(r)
  BY DEF Preserves, SeatInv, PartInv, SeatState
<1>2. t \in Console /\ t.gfx = r.tty.gfx /\ t.proc = r.tty.proc
  BY <1>1 DEF Console
<1>3. Lower(r, sig) = [r EXCEPT !.tty = t]
  BY DEF Lower
<1> HIDE DEF t
<1>4. VtStep(r, [r EXCEPT !.tty = t])
  BY <1>1, <1>2, TtyStep DEF Leavable
<1>5. Preserves(r, f, [r EXCEPT !.tty = t])
  BY <1>1, <1>4, VtStepPreserves
<1> QED
  BY <1>3, <1>5 DEF Preserves

\* The requests of clients.
LEMMA ClientRequestInv ==
  ASSUME Inv, NEW c \in Client, ClientRequest(c)
  PROVE  Inv'
<1>1. SeatInv(seat)
  BY DEF Inv
<1>2. CASE Connect(c)
  <2>1. Preserves(seat, {}, ClientCreate(seat, c))
    BY <1>1, <1>2, ClientCreatePreserves DEF Connect, Connected
  <2> QED
    BY <1>2, <2>1, HandleInv, FaultsAssumption DEF Connect, Handle
<1>3. CASE OpenSeat(c)
  BY <1>1, <1>3, HandleOpenSeatPreserves, HandleInv DEF OpenSeat, Connected, Handle
<1>4. CASE CloseSeat(c)
  BY <1>1, <1>4, MemberPreserves, HandleInv DEF CloseSeat, Handle
<1>5. CASE DisableSeat(c)
  BY <1>1, <1>5, MemberPreserves, HandleInv DEF DisableSeat, Handle
<1>6. CASE Disconnect(c)
  BY <1>1, <1>6, ClientDestroyPreserves, HandleInv DEF Disconnect, Handle
<1>7. ASSUME NEW p \in Path, OpenDevice(c, p) PROVE Inv'
  BY <1>1, <1>7, DevicePreserves, HandleInv DEF OpenDevice, Handle
<1>8. ASSUME NEW p \in Path, CloseDevice(c, p) PROVE Inv'
  BY <1>1, <1>8, DevicePreserves, HandleInv DEF CloseDevice, Handle
<1>9. ASSUME NEW n \in SessionRequest, SwitchSession(c, n) PROVE Inv'
  BY <1>1, <1>9, MemberPreserves, HandleInv DEF SwitchSession, Handle
<1> QED
  BY <1>2, <1>3, <1>4, <1>5, <1>6, <1>7, <1>8, <1>9 DEF ClientRequest

\* The VT signals and the messages of the VT event thread.
LEMMA VtCallbackInv ==
  ASSUME Inv, VtRel \/ VtAcq \/ VtEvent
  PROVE  Inv'
<1>1. SeatInv(seat) /\ seat \in SeatState /\ seat.tty \in Console
  BY DEF Inv, SeatInv, PartInv, SeatState
<1>2. CASE VtRel
  <2>1. PICK f \in Faults : Handle(Lower(SeatVtRelease(seat, f), SIGUSR1))
    BY <1>2 DEF VtRel
  <2>2. Preserves(seat, f, Lower(SeatVtRelease(seat, f), SIGUSR1))
    BY <1>1, VtReleasePreserves, LowerPreserves
  <2> QED
    BY <2>1, <2>2, HandleInv DEF Handle
<1>3. CASE VtAcq
  <2>1. PICK f \in Faults : Handle(Lower(SeatVtActivate(seat, f), SIGUSR2))
    BY <1>3 DEF VtAcq
  <2>2. Preserves(seat, f, Lower(SeatVtActivate(seat, f), SIGUSR2))
    BY <1>1, VtActivatePreserves, LowerPreserves
  <2> QED
    BY <2>1, <2>2, HandleInv DEF Handle
<1>4. CASE VtEvent
  <2> DEFINE u == [seat EXCEPT !.tty.pipe = Tail(@)]
             v == Head(seat.tty.pipe)
             t == [seat.tty EXCEPT !.pipe = Tail(@)]
  <2>1. PICK f \in Faults : Handle(SeatHandleVtEvent(u, v, f))
    BY <1>4 DEF VtEvent
  <2>2. seat.tty.pipe \in Seq(VT) /\ seat.tty.pipe # <<>>
    BY <1>1, <1>4 DEF Console, VtEvent
  <2>3. v \in VT /\ Tail(seat.tty.pipe) \in Seq(VT)
    BY <2>2
  <2>4. t \in Console /\ t.proc = seat.tty.proc /\ t.gfx = seat.tty.gfx
    BY <1>1, <2>3 DEF Console
  <2>5. u = [seat EXCEPT !.tty = t]
    OBVIOUS
  <2> HIDE DEF t, u, v
  <2>6. SeatInv(u) /\ (InputSafe(seat) => InputSafe(u))
    BY <2>4, <2>5, TtyInv
  <2>7. Preserves(u, f, SeatHandleVtEvent(u, v, f))
    BY <2>3, <2>6, HandleVtEventPreserves
  <2>8. Preserves(seat, f, SeatHandleVtEvent(u, v, f))
    BY <2>6, <2>7 DEF Preserves
  <2> QED
    BY <2>1, <2>8, HandleInv DEF Handle
<1> QED
  BY <1>2, <1>3, <1>4

\* The requests of control peers.
LEMMA ControlRequestInv ==
  ASSUME Inv, ControlRequest
  PROVE  Inv'
<1>1. SeatInv(seat) /\ seat \in SeatState
  BY DEF Inv, SeatInv, PartInv
<1>2. ASSUME NEW pid, NEW v \in GroupVT, CreateGroupVt(pid, v) PROVE Inv'
  <2>1. PICK f \in Faults, c \in ControlFindOwnerClient(seat, pid) :
          Handle(SeatCreateGroupVt(seat, c, v, f))
    BY <1>2 DEF CreateGroupVt
  <2>2. c \in Members(seat)
    BY <1>1, FirstClientIsMember DEF ControlFindOwnerClient
  <2>3. Preserves(seat, f, SeatCreateGroupVt(seat, c, v, f))
    BY <1>1, <2>2, GroupVtPreserves, GroupAssumption
  <2> QED
    BY <2>1, <2>3, HandleInv DEF Handle
<1>3. ASSUME NEW v \in GroupVT, DestroyGroupVt(v) PROVE Inv'
  <2>1. PICK f \in Faults : Handle(SeatDestroyGroupVt(seat, v, f))
    BY <1>3 DEF DestroyGroupVt
  <2>2. Preserves(seat, f, SeatDestroyGroupVt(seat, v, f))
    BY <1>1, GroupVtPreserves, GroupAssumption
  <2> QED
    BY <2>1, <2>2, HandleInv DEF Handle
<1>4. ASSUME NEW v \in VT, SwitchVt(v) PROVE Inv'
  BY <1>1, <1>4, SwitchVtPreserves, HandleInv DEF SwitchVt, Handle
<1>5. CASE GetActiveVt
  BY <1>1, <1>5, VtActivatePreserves, HandleInv DEF GetActiveVt, Handle
<1> QED
  BY <1>2, <1>3, <1>4, <1>5 DEF ControlRequest

\* Termination.
LEMMA TerminateInv ==
  ASSUME Inv, Terminate
  PROVE  Inv'
<1>1. SeatInv(seat) /\ seat \in SeatState /\ seat.tty \in Console
  BY DEF Inv, SeatInv, PartInv, SeatState
<1>2. CASE Kill
  <2> DEFINE none == <<>>
             t == [seat.tty EXCEPT !.thread = "off", !.ev = 0, !.pipe = none]
  <2>1. t \in Console /\ t.proc = seat.tty.proc /\ t.gfx = seat.tty.gfx
    <3>1. none \in Seq(VT)
      OBVIOUS
    <3> HIDE DEF none
    <3> QED
      BY <1>1, <3>1 DEF Console
  <2>2. seat' = [seat EXCEPT !.tty = t] /\ running' = "finishing"
    BY <1>2 DEF Kill
  <2> HIDE DEF t
  <2> QED
    BY <2>1, <2>2, TtyInv DEF Inv
<1>3. ASSUME NEW c \in Client, FinishClient(c) PROVE Inv'
  <2>1. PICK f \in Faults : seat' = ClientDestroy(seat, c, f)
    BY <1>3 DEF FinishClient
  <2>2. running' \in {"yes", "finishing", "no"}
    BY <1>3 DEF FinishClient, Inv
  <2> QED
    BY <1>1, <2>1, <2>2, ClientDestroyPreserves, HandleInv
<1>4. CASE Exit
  BY <1>4 DEF Exit, Inv
<1> QED
  BY <1>2, <1>3, <1>4 DEF Terminate

\* The VT event thread and the kernel.
LEMMA EnvironmentInv ==
  ASSUME Inv, Environment
  PROVE  Inv'
<1>1. seat.tty \in Console
  BY DEF Inv, SeatInv, PartInv, SeatState
<1>2. PICK t \in Console : /\ t.proc = seat.tty.proc /\ t.gfx = seat.tty.gfx
                           /\ Tty(t)
  <2>1. CASE KernelSwitch
    BY <1>1, <2>1, ConsoleWorkerType, ModesKept DEF KernelSwitch
  <2>2. CASE ThreadWrite
    BY <1>1, <2>2, WatcherType, ModesKept DEF ThreadWrite
  <2>3. CASE ThreadWait
    BY <1>1, <2>3, WatcherType, ModesKept DEF ThreadWait
  <2>4. ASSUME NEW v \in VT, Chvt(v)
        PROVE  \E t \in Console : t.proc = seat.tty.proc /\ t.gfx = seat.tty.gfx /\ Tty(t)
    BY <1>1, <2>4, SwitchVtType, ModesKept DEF Chvt
  <2> QED
    BY <2>1, <2>2, <2>3, <2>4 DEF Environment
<1> QED
  BY <1>2, TtyInv DEF Tty, Inv
-----------------------------------------------------------------------------
(***************************************************************************)
(* The theorems.                                                           *)
(***************************************************************************)

\* Inv is an invariant of the server: it holds in front of every console and
\* every callback, thread or kernel step preserves it.
THEOREM InvHolds == Spec => []Inv
<1>1. Init => Inv
  BY CreateInv DEF Init, Inv
<1>2. Inv /\ [Next]_vars => Inv'
  <2> SUFFICES ASSUME Inv, [Next]_vars PROVE Inv'
    OBVIOUS
  <2>1. ASSUME NEW c \in Client, ClientRequest(c) PROVE Inv'
    BY <2>1, ClientRequestInv
  <2>2. CASE VtRel \/ VtAcq \/ VtEvent
    BY <2>2, VtCallbackInv
  <2>3. CASE ControlRequest
    BY <2>3, ControlRequestInv
  <2>4. CASE Terminate
    BY <2>4, TerminateInv
  <2>5. CASE Environment
    BY <2>5, EnvironmentInv
  <2>6. CASE UNCHANGED vars
    BY <2>6 DEF vars, Inv
  <2> QED
    BY <2>1, <2>2, <2>3, <2>4, <2>5, <2>6 DEF Next
<1> QED
  BY <1>1, <1>2, PTL DEF Spec

\* The state is well-formed: every operation of seat.c leaves every field of
\* the seat in its range.
THEOREM TypeCorrect == Spec => []TypeOK
<1>1. Inv => TypeOK
  BY DEF Inv, SeatInv, PartInv, TypeOK
<1> QED
  BY <1>1, InvHolds, PTL

\* active_client is exact: it points at the one client that has the seat or is
\* giving it up, and that client is on the seat.
THEOREM ActiveClientIsExact == Spec => []ActiveClientExact
<1>1. Inv => ActiveClientExact
  BY DEF Inv, SeatInv, PartInv, ExactBut, ActiveClientExact
<1> QED
  BY <1>1, InvHolds, PTL

\* A queued session switch is in order: its target is an idle member of a seat
\* that is not VT-bound and the active client is giving the seat up.
THEOREM QueuedClientIsReady == Spec => []QueuedClientReady
<1>1. Inv => QueuedClientReady
  BY DEF Inv, SeatInv, Queued, QueuedClientReady
<1> QED
  BY <1>1, InvHolds, PTL

\* Only the client that has the seat reads input devices, if revoking works.
THEOREM InputIsExclusive == Spec => []InputExclusion
<1>1. Inv => InputExclusion
  BY DEF Inv, InputSafe, Reads, OpenPaths, InputExclusion
<1> QED
  BY <1>1, InvHolds, PTL

\* DRM master is held through active devices of the table alone.
THEOREM MasterIsAccounted == Spec => []MasterAccounted
<1>1. Inv => MasterAccounted
  <2> SUFFICES ASSUME Inv, NEW p \in Path, seat.dev.master[p] # NULL
               PROVE  LET c == seat.dev.master[p]
                      IN  p \in OpenPaths(seat.dev, c) /\ seat.dev.tab[c][p].active
    BY DEF MasterAccounted
  <2>1. seat.dev.master[p] \in Client
    BY DEF Inv, SeatInv, PartInv, SeatState, DeviceState
  <2> QED
    BY <2>1 DEF Inv, SeatInv, PartInv, Accounted
<1> QED
  BY <1>1, InvHolds, PTL

\* Group VTs belong to members of the seat.
THEOREM GroupOwnersStayMembers == Spec => []GroupOwnersAreMembers
<1>1. Inv => GroupOwnersAreMembers
  BY DEF Inv, SeatInv, PartInv, GroupOwnersAreMembers
<1> QED
  BY <1>1, InvHolds, PTL

\* The user can always leave a graphics VT: it is under process switching.
THEOREM GraphicsVtsCanBeLeft == Spec => []GraphicsCanBeLeft
<1>1. Inv => GraphicsCanBeLeft
  BY DEF Inv, SeatInv, PartInv, Leavable, GraphicsCanBeLeft
<1> QED
  BY <1>1, InvHolds, PTL
-----------------------------------------------------------------------------
(***************************************************************************)
(* What the seat knows about the VTs and the sessions.  Keeps, in          *)
(* SeatProofs, says that a callback keeps it.                              *)
(***************************************************************************)

\* client_destroy is calm.
LEMMA ClientDestroyCalm ==
  ASSUME NEW s, NEW c \in Client, NEW f, SeatInv(s)
  PROVE  LET r == ClientDestroy(s, c, f)
         IN  Calm(s, r) /\ (c \notin Members(s) => r.tty = s.tty)
<1> DEFINE u == IF c \in Members(s) THEN SeatRemoveClient(s, c, f) ELSE s
           st == [u.state EXCEPT ![c] = "none"]
           se == [u.session EXCEPT ![c] = -1]
           r == [u EXCEPT !.state = st, !.session = se]
<1>1. ClientDestroy(s, c, f) = r
  BY DEF ClientDestroy
<1>2. Formed(s)
  BY StateIsFormed DEF SeatInv, PartInv
<1>3. Calm(s, u) /\ c \notin Members(u) /\ (c \notin Members(s) => u = s)
  BY <1>2, RemoveClientCalm, RemoveClientPreserves, CalmReflexive
<1> HIDE DEF u
<1>4. Formed(u)
  BY <1>3 DEF Calm, Still
<1>5. /\ DOMAIN st = Client /\ DOMAIN se = Client /\ st[c] = "none"
      /\ \A x \in Client : x # c => st[x] = u.state[x] /\ se[x] = u.session[x]
  BY <1>4 DEF Formed
<1> HIDE DEF st, se
<1>6. /\ Formed(r) /\ r.clients = u.clients /\ r.cur_vt = u.cur_vt /\ r.tty = u.tty
      /\ r.next_client = u.next_client /\ r.group_vts = u.group_vts
      /\ r.state = st /\ r.session = se
  BY <1>4, <1>5 DEF Formed, SeatFields
<1> HIDE DEF r
<1>7. Calm(u, r)
  <2>1. Still(u, r)
    <3>1. Members(r) = Members(u)
      BY <1>6 DEF Members
    <3>2. Members(s) \subseteq Client /\ Members(u) \subseteq Members(s)
      BY <1>3, MembersAreClients DEF SeatInv, PartInv, Calm, Still
    <3> QED
      BY <1>3, <1>4, <1>5, <1>6, <3>1, <3>2 DEF Still, SameTraffic, Formed
  <2>2. Fronts(u, r)
    BY <1>5, <1>6 DEF Fronts, ClientOwnsVt
  <2> QED
    BY <2>1, <2>2 DEF Calm
<1> QED
  BY <1>1, <1>2, <1>3, <1>6, <1>7, CalmTransitive

\* Calm callbacks of members keep what the seat knows, with the reply.
LEMMA ReplyKeeps ==
  ASSUME NEW s, NEW r, NEW c \in Members(s), NEW f, SeatInv(s), SeatInv(r), Calm(s, r)
  PROVE  Keeps(s, Reply(r, c, f))
<1>1. c \in Client /\ Formed(s)
  BY MembersAreClients, StateIsFormed DEF SeatInv, PartInv
<1>2. Calm(r, ClientDestroy(r, c, f))
  BY <1>1, ClientDestroyCalm
<1>3. Calm(s, ClientDestroy(r, c, f))
  BY <1>1, <1>2, CalmTransitive
<1>4. Calm(s, Reply(r, c, f))
  BY <1>3 DEF Reply
<1> QED
  BY <1>4, CalmKeeps

\* The requests of a member.
LEMMA MemberKeeps ==
  ASSUME NEW s, NEW c \in Members(s), NEW f, SeatInv(s)
  PROVE  /\ Keeps(s, HandleCloseSeat(s, c, f))
         /\ Keeps(s, HandleDisableSeat(s, c, f))
         /\ \A n \in SessionRequest : Keeps(s, HandleSwitchSession(s, c, n, f))
<1>1. c \in Client /\ Formed(s) /\ s.next_client \in Client \cup {NULL}
  BY MembersAreClients, StateIsFormed DEF SeatInv, PartInv, SeatState
<1>2. Keeps(s, HandleCloseSeat(s, c, f))
  BY RemoveClientCalm, RemoveClientPreserves, ReplyKeeps DEF HandleCloseSeat, Preserves
<1>3. Keeps(s, HandleDisableSeat(s, c, f))
  BY <1>1, AckDisableCalm, AckDisablePreserves, ReplyKeeps DEF HandleDisableSeat, Preserves
<1>4. ASSUME NEW n \in SessionRequest PROVE Keeps(s, HandleSwitchSession(s, c, n, f))
  BY <1>1, SetNextSessionCalm, SetNextSessionPreserves, SessionAssumption, ReplyKeeps
     DEF HandleSwitchSession, Preserves
<1> QED
  BY <1>2, <1>3, <1>4

\* Opening and closing devices.
LEMMA DeviceKeeps ==
  ASSUME NEW s, NEW c \in Members(s), NEW p \in Path, NEW f, SeatInv(s)
  PROVE  /\ Keeps(s, HandleOpenDevice(s, c, p, f))
         /\ Keeps(s, HandleCloseDevice(s, c, p, f))
<1>1. Formed(s)
  BY StateIsFormed DEF SeatInv, PartInv
<1>2. \A d : Calm(s, [s EXCEPT !.dev = d])
  BY <1>1, ModestChanges, ModestIsCalm
<1>3. Calm(s, s)
  BY <1>1, CalmReflexive
<1> QED
  BY <1>2, <1>3, DeviceStepPreserves, ReplyKeeps DEF HandleOpenDevice, HandleCloseDevice, Preserves

\* seat_add_client numbers the new client apart, or puts it on the VT the
\* seat just looked up.
LEMMA AddClientKeeps ==
  ASSUME NEW s, SeatInv(s), NEW c \in Client, c \notin Members(s),
         NEW n \in NewSession(s), VtAcceptsClient(s),
         Members(SeatAddClient(s, c, n)) = Members(s) \cup {c}
  PROVE  LET r == SeatAddClient(s, c, n)
         IN  /\ Keeps(s, r)
             /\ VtBound => r.cur_vt # -1 /\ ClientOwnsVt(r, c, r.cur_vt)
<1> DEFINE q == <<c>> \o s.clients
           se == [s.session EXCEPT ![c] = n]
           r == [s EXCEPT !.session = se, !.clients = q]
<1>1. SeatAddClient(s, c, n) = r
  BY DEF SeatAddClient
<1>2. /\ s \in SeatState /\ Formed(s) /\ s.clients \in Seq(Client) /\ Members(s) \subseteq Client
      /\ s.state[c] # "ACTIVE"
  BY StateIsFormed, MembersAreClients DEF SeatInv, PartInv, ExactBut, SeatState
<1>3. Members(r) = Members(s) \cup {c}
  BY <1>1
<1>4. se[c] = n /\ \A x \in Client : x # c => se[x] = s.session[x]
  BY <1>2 DEF Formed
<1> HIDE DEF q, se
<1>5. /\ r.clients = q /\ r.session = se /\ r.state = s.state /\ r.tty = s.tty
      /\ r.cur_vt = s.cur_vt /\ r.group_vts = s.group_vts
  BY <1>2 DEF Formed, SeatFields
<1> HIDE DEF r
<1>6. Tracks(s) => Tracks(r)
  BY <1>5 DEF Tracks
<1>7. Numbered(s) => Numbered(r)
  <2> SUFFICES ASSUME ~VtBound, Numbered(s) PROVE Numbered(r)
    BY DEF Numbered
  <2>1. \A x \in Members(s) : s.session[x] # n
    BY DEF NewSession
  <2>2. \A x \in Members(s) : r.session[x] = s.session[x]
    BY <1>2, <1>4, <1>5
  <2> QED
    BY <1>3, <1>4, <1>5, <2>1, <2>2 DEF Numbered
<1>8. VtBound => s.cur_vt # -1 /\ n = s.cur_vt
  BY DEF VtAcceptsClient, NewSession
<1>9. Found(r)
  BY <1>5, <1>8 DEF Found
<1>10. Fronted(s) => Fronted(r)
  BY <1>2, <1>4, <1>5 DEF Fronted, ClientOwnsVt
<1>11. VtBound => r.cur_vt # -1 /\ ClientOwnsVt(r, c, r.cur_vt)
  BY <1>4, <1>5, <1>8 DEF ClientOwnsVt
<1> QED
  BY <1>1, <1>6, <1>7, <1>9, <1>10, <1>11 DEF Keeps, Remembers

\* handle_open_seat.
LEMMA HandleOpenSeatKeeps ==
  ASSUME NEW s, NEW c \in Client, NEW f, SeatInv(s), s.state[c] # "none",
         NEW n \in NewSession(IF VtBound THEN SeatUpdateVt(s, f) ELSE s)
  PROVE  Keeps(s, HandleOpenSeat(s, c, n, f))
<1> DEFINE u == IF VtBound THEN SeatUpdateVt(s, f) ELSE s
           added == SeatAddClient(u, c, n)
<1>1. s \in SeatState
  BY DEF SeatInv, PartInv
<1>2. VtStep(s, u) /\ Keeps(s, u)
  BY <1>1, UpdateVtStep, UpdateVtKeeps DEF VtStep, SameMembers, SameHolder, Keeps, Remembers
<1>3. n \in NewSession(u)
  OBVIOUS
<1>4. HandleOpenSeat(s, c, n, f) =
        IF ~MayAddClient(s, c) THEN ClientDestroy(s, c, f)
        ELSE IF ~VtAcceptsClient(u) THEN ClientDestroy(u, c, f)
        ELSE IF "reply" \in f THEN ClientDestroy(added, c, f)
        ELSE SeatOpenClient(added, c, f)
  BY DEF HandleOpenSeat
<1> HIDE DEF u
<1>5. u \in SeatState /\ SeatInv(u)
  BY <1>2, VtStepPreserves DEF Preserves, VtStep
<1>6. \A w : SeatInv(w) => Keeps(w, ClientDestroy(w, c, f))
  BY ClientDestroyCalm, CalmKeeps
<1>7. CASE ~MayAddClient(s, c) \/ ~VtAcceptsClient(u)
  BY <1>2, <1>4, <1>5, <1>6, <1>7, KeepsTransitive
<1>8. CASE MayAddClient(s, c) /\ VtAcceptsClient(u)
  <2>1. c \notin Members(u) /\ u.state[c] # "none" /\ u.session[c] = -1
    BY <1>2, <1>8 DEF VtStep, SameMembers, SameHolder, Members, MayAddClient
  <2>2. n \in Int /\ n # -1
    BY <1>3, <1>5, <1>8, NewSessionIsNumber
  <2>3. SeatInv(added) /\ Members(added) = Members(u) \cup {c}
    BY <1>5, <2>1, <2>2, AddClientPreserves DEF Preserves
  <2>4. Keeps(u, added) /\ (VtBound => added.cur_vt # -1 /\ ClientOwnsVt(added, c, added.cur_vt))
    BY <1>3, <1>5, <1>8, <2>1, <2>3, AddClientKeeps
  <2> HIDE DEF added
  <2>5. Keeps(added, SeatOpenClient(added, c, f))
    <3>1. Formed(added)
      BY <2>3, StateIsFormed DEF SeatInv, PartInv
    <3>2. Still(added, SeatOpenClient(added, c, f)) /\ (VtBound => Calm(added, SeatOpenClient(added, c, f)))
      BY <2>4, <3>1, OpenClientCalm
    <3>3. Calm(added, SeatOpenClient(added, c, f))
      BY <3>2 DEF Calm, Fronts
    <3> QED
      BY <2>3, <3>3, CalmKeeps
  <2>6. Keeps(s, added)
    BY <1>2, <2>4, KeepsTransitive
  <2>7. Keeps(s, SeatOpenClient(added, c, f)) /\ Keeps(s, ClientDestroy(added, c, f))
    BY <1>6, <2>3, <2>5, <2>6, KeepsTransitive
  <2> QED
    BY <1>4, <1>8, <2>7
<1> QED
  BY <1>7, <1>8

\* What the seat knows: sessions are numbered apart, a VT is known once one is
\* under control, and until termination stops the VT event thread cur_vt
\* follows the foreground VT and the active client owns it.  A control peer
\* may take a group VT from the active client: the last part needs that none
\* destroys group VTs.
VtInv ==
  /\ Numbered(seat) /\ Found(seat)
  /\ running = "yes" => Tracks(seat) /\ ("destroy" \notin ControlRequests => Fronted(seat))

\* A step that keeps what the seat knows preserves VtInv.
LEMMA KeepsVtInv ==
  ASSUME VtInv, Keeps(seat, seat'), running' = running
  PROVE  VtInv'
BY DEF VtInv, Keeps, Remembers

\* The requests of clients.
LEMMA ClientRequestVtInv ==
  ASSUME Inv, VtInv, NEW c \in Client, ClientRequest(c)
  PROVE  VtInv'
<1>1. SeatInv(seat)
  BY DEF Inv
<1>2. CASE Connect(c)
  <2>1. Formed(seat) /\ "NEW" # "ACTIVE"
    BY <1>1, StateIsFormed DEF SeatInv, PartInv
  <2>2. Calm(seat, ClientCreate(seat, c))
    BY <2>1, StateCalm DEF ClientCreate
  <2>3. ClientCreate(seat, c).tty = seat.tty
    BY <2>1 DEF ClientCreate, Formed, SeatFields
  <2>4. Keeps(seat, ClientCreate(seat, c))
    BY <1>1, <2>2, <2>3, CalmKeeps
  <2> QED
    BY <1>2, <2>4, KeepsVtInv DEF Connect, Handle
<1>3. CASE OpenSeat(c)
  BY <1>1, <1>3, HandleOpenSeatKeeps, KeepsVtInv DEF OpenSeat, Connected, Handle
<1>4. CASE CloseSeat(c)
  BY <1>1, <1>4, MemberKeeps, KeepsVtInv DEF CloseSeat, Handle
<1>5. CASE DisableSeat(c)
  BY <1>1, <1>5, MemberKeeps, KeepsVtInv DEF DisableSeat, Handle
<1>6. CASE Disconnect(c)
  BY <1>1, <1>6, ClientDestroyCalm, CalmKeeps, KeepsVtInv DEF Disconnect, Handle
<1>7. ASSUME NEW p \in Path, OpenDevice(c, p) PROVE VtInv'
  BY <1>1, <1>7, DeviceKeeps, KeepsVtInv DEF OpenDevice, Handle
<1>8. ASSUME NEW p \in Path, CloseDevice(c, p) PROVE VtInv'
  BY <1>1, <1>8, DeviceKeeps, KeepsVtInv DEF CloseDevice, Handle
<1>9. ASSUME NEW n \in SessionRequest, SwitchSession(c, n) PROVE VtInv'
  BY <1>1, <1>9, MemberKeeps, KeepsVtInv DEF SwitchSession, Handle
<1> QED
  BY <1>2, <1>3, <1>4, <1>5, <1>6, <1>7, <1>8, <1>9 DEF ClientRequest

\* Clearing the raised flag of a signal.
LEMMA LowerKeeps ==
  ASSUME NEW s \in SeatState, NEW sig
  PROVE  Keeps(s, Lower(s, sig))
<1> DEFINE t == [s.tty EXCEPT !.sig = @ \ {sig}]
<1>1. s.tty \in Console
  BY DEF SeatState
<1>2. /\ t \in Console /\ SameTraffic(s.tty, t) /\ t.proc = s.tty.proc
      /\ s.tty.sig = {} => t.sig = {}
  BY <1>1 DEF Console, SameTraffic, ConsoleFields
<1>3. Lower(s, sig) = [s EXCEPT !.tty = t]
  BY DEF Lower
<1> HIDE DEF t
<1> QED
  BY <1>2, <1>3, TtyKeeps

\* The VT signals and the messages of the VT event thread.
LEMMA VtCallbackVtInv ==
  ASSUME Inv, VtInv, VtRel \/ VtAcq \/ VtEvent
  PROVE  VtInv'
<1>1. SeatInv(seat) /\ seat \in SeatState /\ seat.tty \in Console
  BY DEF Inv, SeatInv, PartInv, SeatState
<1>2. ASSUME NEW f, NEW r, NEW sig, Keeps(seat, r), Preserves(seat, f, r), Handle(Lower(r, sig))
      PROVE  VtInv'
  <2>1. r \in SeatState
    BY <1>2 DEF Preserves, SeatInv, PartInv
  <2>2. Keeps(seat, Lower(r, sig))
    BY <1>2, <2>1, LowerKeeps, KeepsTransitive
  <2> QED
    BY <1>2, <2>2, KeepsVtInv DEF Handle
<1>3. CASE VtRel
  <2>1. PICK f \in Faults : Handle(Lower(SeatVtRelease(seat, f), SIGUSR1))
    BY <1>3 DEF VtRel
  <2> QED
    BY <1>1, <1>2, <2>1, VtSignalKeeps, VtReleasePreserves
<1>4. CASE VtAcq
  <2>1. PICK f \in Faults : Handle(Lower(SeatVtActivate(seat, f), SIGUSR2))
    BY <1>4 DEF VtAcq
  <2> QED
    BY <1>1, <1>2, <2>1, VtSignalKeeps, VtActivatePreserves
<1>5. CASE VtEvent
  <2> DEFINE u == [seat EXCEPT !.tty.pipe = Tail(@)]
             t == [seat.tty EXCEPT !.pipe = Tail(@)]
  <2>1. PICK f \in Faults : Handle(SeatHandleVtEvent(u, Head(seat.tty.pipe), f))
    BY <1>5 DEF VtEvent
  <2>2. seat.tty.pipe \in Seq(VT) /\ seat.tty.pipe # <<>>
    BY <1>1, <1>5 DEF Console, VtEvent
  <2>3. t \in Console /\ t.proc = seat.tty.proc /\ t.gfx = seat.tty.gfx
    BY <1>1, <2>2, TailFacts DEF Console
  <2>4. u = [seat EXCEPT !.tty = t]
    OBVIOUS
  <2> HIDE DEF t
  <2>5. SeatInv(u)
    BY <2>3, <2>4, TtyInv
  <2>6. Keeps(seat, SeatHandleVtEvent(u, Head(seat.tty.pipe), f))
    BY <1>1, <2>2, <2>5, VtEventKeeps
  <2> HIDE DEF u
  <2> QED
    BY <2>1, <2>6, KeepsVtInv DEF Handle
<1> QED
  BY <1>3, <1>4, <1>5

\* The requests of control peers.
LEMMA ControlRequestVtInv ==
  ASSUME Inv, VtInv, ControlRequest
  PROVE  VtInv'
<1>1. SeatInv(seat) /\ seat \in SeatState /\ Formed(seat)
  BY StateIsFormed DEF Inv, SeatInv, PartInv
<1>2. ASSUME NEW pid, NEW v \in GroupVT, CreateGroupVt(pid, v) PROVE VtInv'
  <2>1. PICK f \in Faults, c \in ControlFindOwnerClient(seat, pid) :
          Handle(SeatCreateGroupVt(seat, c, v, f))
    BY <1>2 DEF CreateGroupVt
  <2>2. c \in Members(seat) /\ c \in Client /\ v \in VT
    BY <1>1, FirstClientIsMember, GroupAssumption DEF ControlFindOwnerClient
  <2>3. Keeps(seat, SeatCreateGroupVt(seat, c, v, f))
    BY <1>1, <2>2, GroupVtCalm, CalmKeeps
  <2> QED
    BY <2>1, <2>3, KeepsVtInv DEF Handle
<1>3. ASSUME NEW v \in GroupVT, DestroyGroupVt(v) PROVE VtInv'
  <2>1. PICK f \in Faults : Handle(SeatDestroyGroupVt(seat, v, f))
    BY <1>3 DEF DestroyGroupVt
  <2> DEFINE r == SeatDestroyGroupVt(seat, v, f)
  <2>2. v \in VT /\ (r = seat \/ Members(seat) # {})
    BY <1>1, GroupAssumption DEF SeatDestroyGroupVt, SeatInv, PartInv
  <2>3. Still(seat, r)
    BY <1>1, <2>2, DestroyStill
  <2> HIDE DEF r
  <2>4. Remembers(seat, r)
    BY <1>1, <2>2, <2>3, CalmKeeps
  <2>5. "destroy" \in ControlRequests /\ seat' = r /\ running' = running
    BY <1>3, <2>1 DEF DestroyGroupVt, Handle, r
  <2> QED
    BY <2>4, <2>5 DEF VtInv, Remembers
<1>4. ASSUME NEW v \in VT, SwitchVt(v) PROVE VtInv'
  BY <1>1, <1>4, SwitchVtKeeps, KeepsVtInv DEF SwitchVt, Handle
<1>5. CASE GetActiveVt
  <2>1. PICK v : v \in VT
    BY VTAssumption
  <2> QED
    BY <1>1, <1>5, <2>1, SwitchVtKeeps, KeepsVtInv DEF GetActiveVt, Handle
<1> QED
  BY <1>2, <1>3, <1>4, <1>5 DEF ControlRequest

\* Termination.
LEMMA TerminateVtInv ==
  ASSUME Inv, VtInv, Terminate
  PROVE  VtInv'
<1>1. SeatInv(seat) /\ seat \in SeatState /\ seat.tty \in Console /\ Formed(seat)
  BY StateIsFormed DEF Inv, SeatInv, PartInv, SeatState
<1>2. CASE Kill
  <2> DEFINE none == <<>>
             t == [seat.tty EXCEPT !.thread = "off", !.ev = 0, !.pipe = none]
  <2>1. t.proc = seat.tty.proc /\ t.sig = seat.tty.sig
    <3> HIDE DEF none
    <3> QED
      BY <1>1 DEF Console
  <2>2. seat' = [seat EXCEPT !.tty = t] /\ running' = "finishing"
    BY <1>2 DEF Kill
  <2> HIDE DEF t
  <2>3. /\ seat'.clients = seat.clients /\ seat'.session = seat.session
        /\ seat'.cur_vt = seat.cur_vt /\ seat'.tty = t
    BY <1>1, <2>2 DEF Formed, SeatFields
  <2>4. Numbered(seat)'
    BY <2>3 DEF VtInv, Numbered, Members
  <2>5. Found(seat)'
    BY <2>1, <2>3 DEF VtInv, Found, Members
  <2> QED
    BY <2>2, <2>4, <2>5 DEF VtInv
<1>3. ASSUME NEW c \in Client, FinishClient(c) PROVE VtInv'
  <2>1. PICK f \in Faults : seat' = ClientDestroy(seat, c, f)
    BY <1>3 DEF FinishClient
  <2>2. Keeps(seat, seat')
    BY <1>1, <2>1, ClientDestroyCalm, CalmKeeps
  <2> QED
    BY <1>3, <2>2, KeepsVtInv DEF FinishClient
<1>4. CASE Exit
  BY <1>4 DEF Exit, VtInv
<1> QED
  BY <1>2, <1>3, <1>4 DEF Terminate

\* The VT event thread and the kernel.
LEMMA EnvironmentVtInv ==
  ASSUME Inv, VtInv, Environment
  PROVE  VtInv'
<1> DEFINE t == seat.tty
           Quiet(u) == t.sig = {} /\ (\A v \in VT : ~t.proc[v]) => u.sig = {}
<1>1. seat \in SeatState /\ t \in Console
  BY DEF Inv, SeatInv, PartInv, SeatState
<1>2. ASSUME NEW u \in Console, Tty(u), u.proc = t.proc, Quiet(u),
             \/ SameTraffic(t, u)
             \/ ~u.missed => u.ev = u.fg
             \/ /\ u.fg = t.fg /\ u.missed = t.missed
                /\ u.ev = 0 /\ u.pipe = Append(t.pipe, t.ev) /\ t.ev # 0
      PROVE  VtInv'
  BY <1>1, <1>2, TtyKeeps, KeepsVtInv DEF Tty
<1>3. CASE KernelSwitch
  <2> DEFINE u == [t EXCEPT !.want = 0]
             w == [u EXCEPT !.newvt = t.want, !.sig = @ \cup {SIGUSR1}]
             r == ConsoleWorker(t)
  <2>1. t.want \in VT /\ Tty(r) /\ r \in Console /\ r.proc = t.proc
    BY <1>1, <1>3, ConsoleWorkerType, ModesKept DEF KernelSwitch, Console
  <2>2. r = u \/ (t.proc[t.fg] /\ r = w) \/ r = CompleteSwitch(u, t.want)
    BY DEF ConsoleWorker
  <2>3. u \in Console /\ u.sig = t.sig /\ u.proc = t.proc /\ SameTraffic(t, u) /\ t.fg \in VT
    BY <1>1 DEF Console, SameTraffic, ConsoleFields
  <2>4. SameTraffic(t, w)
    BY <1>1 DEF Console, SameTraffic, ConsoleFields
  <2> HIDE DEF t, u, w, r
  <2>5. CASE r = u
    BY <1>2, <2>1, <2>3, <2>5
  <2>6. CASE t.proc[t.fg] /\ r = w
    BY <1>2, <2>1, <2>3, <2>4, <2>6
  <2>7. CASE r = CompleteSwitch(u, t.want)
    <3>1. /\ ~r.missed => r.ev = r.fg
          /\ Quiet(r)
      BY <2>1, <2>3, <2>7, SwitchIsPosted
    <3> QED
      BY <1>2, <2>1, <3>1
  <2> QED
    BY <2>2, <2>5, <2>6, <2>7
<1>4. CASE ThreadWrite
  <2> DEFINE u == WatcherWrite(t)
  <2>1. u \in Console /\ u.proc = t.proc /\ Tty(u) /\ t.ev # 0
    BY <1>1, <1>4, WatcherType, ModesKept DEF ThreadWrite, WatcherCanWrite
  <2>2. /\ u.fg = t.fg /\ u.missed = t.missed /\ u.sig = t.sig
        /\ u.ev = 0 /\ u.pipe = Append(t.pipe, t.ev)
    BY <1>1 DEF Console, WatcherWrite
  <2> HIDE DEF u
  <2> QED
    BY <1>2, <2>1, <2>2
<1>5. CASE ThreadWait
  <2> DEFINE u == WatcherWait(t)
  <2>1. u \in Console /\ u.proc = t.proc /\ Tty(u)
    BY <1>1, <1>5, WatcherType, ModesKept DEF ThreadWait
  <2>2. SameTraffic(t, u) /\ u.sig = t.sig
    BY <1>1 DEF Console, WatcherWait, SameTraffic, ConsoleFields
  <2> HIDE DEF u
  <2> QED
    BY <1>2, <2>1, <2>2
<1>6. ASSUME NEW v \in VT, Chvt(v) PROVE VtInv'
  <2> DEFINE u == TerminalSwitchVt(t, v)
  <2>1. u \in Console /\ u.proc = t.proc /\ Tty(u)
    BY <1>1, <1>6, SwitchVtType, ModesKept DEF Chvt
  <2>2. SameTraffic(t, u) /\ u.sig = t.sig
    BY <1>1 DEF Console, TerminalSwitchVt, SameTraffic, ConsoleFields
  <2> HIDE DEF u
  <2> QED
    BY <1>2, <2>1, <2>2
<1> QED
  BY <1>3, <1>4, <1>5, <1>6 DEF Environment

\* VtInv is an invariant of the server.
THEOREM VtInvHolds == Spec => []VtInv
<1>1. Init => VtInv
  <2> SUFFICES ASSUME NEW v \in VT, seat = SeatCreate(v), running = "yes" PROVE VtInv
    BY DEF Init
  <2>1. /\ seat.clients = <<>> /\ seat.cur_vt = -1 /\ seat.tty = BootConsole(v)
        /\ \A c \in Client : seat.state[c] = "none"
    BY DEF SeatCreate
  <2>2. Members(seat) = {}
    BY <2>1 DEF Members
  <2>3. Tracks(seat)
    BY <2>1 DEF Tracks, BootConsole
  <2>4. Found(seat)
    BY <2>1, <2>2 DEF Found, BootConsole
  <2>5. Numbered(seat) /\ Fronted(seat)
    BY <2>1, <2>2 DEF Numbered, Fronted
  <2> QED
    BY <2>3, <2>4, <2>5 DEF VtInv
<1>2. Inv /\ VtInv /\ [Next]_vars => VtInv'
  <2> SUFFICES ASSUME Inv, VtInv, [Next]_vars PROVE VtInv'
    OBVIOUS
  <2>1. ASSUME NEW c \in Client, ClientRequest(c) PROVE VtInv'
    BY <2>1, ClientRequestVtInv
  <2>2. CASE VtRel \/ VtAcq \/ VtEvent
    BY <2>2, VtCallbackVtInv
  <2>3. CASE ControlRequest
    BY <2>3, ControlRequestVtInv
  <2>4. CASE Terminate
    BY <2>4, TerminateVtInv
  <2>5. CASE Environment
    BY <2>5, EnvironmentVtInv
  <2>6. CASE UNCHANGED vars
    BY <2>6 DEF vars, VtInv
  <2> QED
    BY <2>1, <2>2, <2>3, <2>4, <2>5, <2>6 DEF Next
<1> QED
  BY <1>1, <1>2, InvHolds, PTL DEF Spec

\* While a VT signal can arrive the seat knows its VT: vt_ack and vt_switch
\* never open VT -1, whichever lookups of the foreground VT failed before.
THEOREM SignalsAlwaysFindVt == Spec => []SignalsFindVt
<1>1. VtInv => SignalsFindVt
  BY DEF VtInv, Found, SignalsFindVt
<1> QED
  BY <1>1, VtInvHolds, PTL

\* cur_vt agrees with the foreground VT whenever every switch event has been
\* handled, for every interleaving of the signal handlers, the event thread,
\* the kernel and the control peers that all store or read it.
THEOREM CurVtFollowsForeground == Spec => []CurVtTracksForeground
<1>1. VtInv => CurVtTracksForeground
  BY DEF VtInv, Tracks, EventsHandled, CurVtTracksForeground
<1> QED
  BY <1>1, VtInvHolds, PTL

\* Whoever has the seat once every switch event has been handled owns the
\* foreground VT, as long as no control peer destroys group VTs
\* (seat_destroy_group_vt takes the VT and leaves the seat with its client).
THEOREM ActiveClientStaysInForeground ==
  ASSUME "destroy" \notin ControlRequests
  PROVE  Spec => []ActiveClientInForeground
<1>1. VtInv => ActiveClientInForeground
  BY DEF VtInv, Fronted, EventsHandled, ActiveClientInForeground
<1> QED
  BY <1>1, VtInvHolds, PTL

\* The smallest unused number is unused: the members of a seat that is not
\* VT-bound have different session numbers, however they come and go.
THEOREM SessionsStayDistinct == Spec => []SessionsDistinct
<1>1. VtInv => SessionsDistinct
  BY DEF VtInv, Numbered, SessionsDistinct
<1> QED
  BY <1>1, VtInvHolds, PTL
=============================================================================
