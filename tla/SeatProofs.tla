----------------------------- MODULE SeatProofs -----------------------------
(***************************************************************************)
(* What the operators of Terminal and Seat do to the invariant of the      *)
(* seat, SeatInv.  First the console, then the effect of the VT operations *)
(* and of opening a client, then one lemma for every function of seat.c    *)
(* that a callback calls.                                                  *)
(***************************************************************************)
EXTENDS Seat, DevicesProofs
-----------------------------------------------------------------------------
(***************************************************************************)
(* The console.                                                            *)
(***************************************************************************)

\* GraphicsCanBeLeft of Server, for a console record.
Leavable(t) == \A v \in VT : t.gfx[v] => t.proc[v]

\* The console at boot is well-formed.
LEMMA BootConsoleType ==
  ASSUME NEW v \in VT
  PROVE  BootConsole(v) \in Console
BY WatcherAssumption DEF BootConsole, Console

\* VT_SETMODE keeps the console well-formed.
LEMMA ProcessSwitchingType ==
  ASSUME NEW t \in Console, NEW V, NEW b \in BOOLEAN
  PROVE  TerminalSetProcessSwitching(t, V, b) \in Console
BY DEF Console, TerminalSetProcessSwitching

\* KDSETMODE keeps the console well-formed.
LEMMA GraphicsType ==
  ASSUME NEW t \in Console, NEW V, NEW b \in BOOLEAN
  PROVE  TerminalSetGraphics(t, V, b) \in Console
BY DEF Console, TerminalSetGraphics

\* VT_ACTIVATE keeps the console well-formed.
LEMMA SwitchVtType ==
  ASSUME NEW t \in Console, NEW v \in VT
  PROVE  TerminalSwitchVt(t, v) \in Console
BY DEF Console, TerminalSwitchVt

\* A completed switch leaves the console well-formed, whoever waits for it.
LEMMA CompleteSwitchType ==
  ASSUME NEW t \in Console, NEW v \in VT
  PROVE  CompleteSwitch(t, v) \in Console
<1> DEFINE u == [t EXCEPT !.fg = v, !.newvt = 0,
                          !.sig = IF t.proc[v] THEN @ \cup {SIGUSR2} ELSE @]
<1>1. u \in Console
  BY DEF Console
<1>2. CompleteSwitch(t, v) = PostEvent(u, v)
  BY DEF CompleteSwitch
<1> HIDE DEF u
<1>3. PostEvent(u, v) \in Console
  BY <1>1 DEF Console, PostEvent
<1> QED
  BY <1>2, <1>3

\* The console worker keeps the console well-formed.
LEMMA ConsoleWorkerType ==
  ASSUME NEW t \in Console, t.want # 0
  PROVE  ConsoleWorker(t) \in Console
<1> DEFINE u == [t EXCEPT !.want = 0]
<1>1. u \in Console /\ t.want \in VT
  BY DEF Console
<1>2. CompleteSwitch(u, t.want) \in Console
  BY <1>1, CompleteSwitchType
<1>3. [u EXCEPT !.newvt = t.want, !.sig = @ \cup {SIGUSR1}] \in Console
  BY <1>1 DEF Console
<1> QED
  BY <1>1, <1>2, <1>3 DEF ConsoleWorker

\* Acking a VT signal keeps the console well-formed.
LEMMA AckType ==
  ASSUME NEW t \in Console, NEW v
  PROVE  TerminalAck(t, v) \in Console
<1>1. CASE t.newvt = 0
  BY <1>1 DEF TerminalAck
<1>2. CASE t.newvt # 0
  <2>1. t.newvt \in VT
    BY <1>2 DEF Console
  <2> QED
    BY <2>1, CompleteSwitchType DEF TerminalAck
<1> QED
  BY <1>1, <1>2

\* The steps of the VT event thread keep the console well-formed.
LEMMA WatcherType ==
  ASSUME NEW t \in Console
  PROVE  /\ WatcherCanWrite(t) => WatcherWrite(t) \in Console
         /\ WatcherWait(t) \in Console
<1>1. ASSUME WatcherCanWrite(t) PROVE WatcherWrite(t) \in Console
  <2>1. t.ev \in VT /\ t.pipe \in Seq(VT)
    BY <1>1 DEF Console, WatcherCanWrite
  <2>2. Append(t.pipe, t.ev) \in Seq(VT)
    BY <2>1
  <2> QED
    BY <2>2 DEF Console, WatcherWrite
<1>2. WatcherWait(t) \in Console
  BY DEF Console, WatcherWait
<1> QED
  BY <1>1, <1>2
-----------------------------------------------------------------------------
\* No switch, ack or event changes the mode of a VT.
LEMMA ModesKept ==
  ASSUME NEW t \in Console
  PROVE  /\ \A v \in VT : /\ CompleteSwitch(t, v).proc = t.proc
                          /\ CompleteSwitch(t, v).gfx = t.gfx
         /\ \A v : TerminalAck(t, v).proc = t.proc /\ TerminalAck(t, v).gfx = t.gfx
         /\ \A v \in VT : /\ TerminalSwitchVt(t, v).proc = t.proc
                          /\ TerminalSwitchVt(t, v).gfx = t.gfx
         /\ t.want # 0 => ConsoleWorker(t).proc = t.proc /\ ConsoleWorker(t).gfx = t.gfx
         /\ WatcherWrite(t).proc = t.proc /\ WatcherWrite(t).gfx = t.gfx
         /\ WatcherWait(t).proc = t.proc /\ WatcherWait(t).gfx = t.gfx
<1>1. ASSUME NEW u \in Console, NEW v \in VT
      PROVE  CompleteSwitch(u, v).proc = u.proc /\ CompleteSwitch(u, v).gfx = u.gfx
  BY DEF Console, CompleteSwitch, PostEvent
<1>2. \A v : TerminalAck(t, v).proc = t.proc /\ TerminalAck(t, v).gfx = t.gfx
  <2>1. t.newvt # 0 => t.newvt \in VT
    BY DEF Console
  <2> QED
    BY <1>1, <2>1 DEF TerminalAck
<1>3. t.want # 0 => ConsoleWorker(t).proc = t.proc /\ ConsoleWorker(t).gfx = t.gfx
  <2> DEFINE u == [t EXCEPT !.want = 0]
  <2>1. u \in Console /\ u.proc = t.proc /\ u.gfx = t.gfx /\ (t.want # 0 => t.want \in VT)
    BY DEF Console
  <2>2. ASSUME t.want # 0
        PROVE  CompleteSwitch(u, t.want).proc = t.proc /\ CompleteSwitch(u, t.want).gfx = t.gfx
    BY <1>1, <2>1, <2>2
  <2>3. LET w == [u EXCEPT !.newvt = t.want, !.sig = @ \cup {SIGUSR1}]
        IN  w.proc = t.proc /\ w.gfx = t.gfx
    BY <2>1 DEF Console
  <2> QED
    BY <2>1, <2>2, <2>3 DEF ConsoleWorker
<1>4. /\ \A v \in VT : TerminalSwitchVt(t, v).proc = t.proc /\ TerminalSwitchVt(t, v).gfx = t.gfx
      /\ WatcherWrite(t).proc = t.proc /\ WatcherWrite(t).gfx = t.gfx
      /\ WatcherWait(t).proc = t.proc /\ WatcherWait(t).gfx = t.gfx
  BY DEF Console, TerminalSwitchVt, WatcherWrite, WatcherWait
<1> QED
  BY <1>1, <1>2, <1>3, <1>4
-----------------------------------------------------------------------------
(***************************************************************************)
(* The seat.                                                               *)
(***************************************************************************)

\* The elements of a list.
Range(q) == {q[i] : i \in DOMAIN q}

\* The members are the clients of the list.
LEMMA MembersRange ==
  ASSUME NEW s
  PROVE  Members(s) = Range(s.clients)
BY DEF Members, Range

\* The list names nobody twice.
Distinct(q) == \A i, j \in DOMAIN q : q[i] = q[j] => i = j

\* Who is on the seat, and what they own, is the same in s and r.
SameMembers(s, r) ==
  r.clients = s.clients /\ r.session = s.session /\ r.group_vts = s.group_vts

\* Who has the seat, or is to get it, is the same in s and r.
SameHolder(s, r) ==
  /\ r.state = s.state
  /\ r.active_client = s.active_client
  /\ r.next_client = s.next_client

\* The step from s to r touches the VTs alone and leaves no graphics VT
\* without process switching.
VtStep(s, r) ==
  /\ r \in SeatState
  /\ SameMembers(s, r) /\ SameHolder(s, r) /\ r.dev = s.dev
  /\ Leavable(s.tty) => Leavable(r.tty)

\* Client c gets the free seat in the step from s to r.
Granted(s, c, r) ==
  /\ s.active_client = NULL /\ s.state[c] \in {"NEW", "DISABLED"}
  /\ r.active_client = c /\ r.state = [s.state EXCEPT ![c] = "ACTIVE"]

\* The step from s to r gives the seat to a client of S, or to nobody.
GrantStep(s, S, r) ==
  /\ r \in SeatState
  /\ SameMembers(s, r)
  /\ SafeStep(s.dev, r.dev)
  /\ Leavable(s.tty) => Leavable(r.tty)
  /\ \/ r.state = s.state /\ r.active_client = s.active_client
     \/ \E c \in S : Granted(s, c, r)
-----------------------------------------------------------------------------
(***************************************************************************)
(* VTs.                                                                    *)
(***************************************************************************)

\* Replacing the console is a VT step.
LEMMA TtyStep ==
  ASSUME NEW s \in SeatState, NEW t \in Console, Leavable(s.tty) => Leavable(t)
  PROVE  VtStep(s, [s EXCEPT !.tty = t])
BY DEF SeatState, VtStep, SameMembers, SameHolder

\* VT steps compose.
LEMMA VtStepTransitive ==
  ASSUME NEW s, NEW r, NEW u, VtStep(s, r), VtStep(r, u)
  PROVE  VtStep(s, u)
BY DEF VtStep, SameMembers, SameHolder

\* Reading the foreground VT changes cur_vt alone.
LEMMA UpdateVtStep ==
  ASSUME NEW s \in SeatState, NEW f
  PROVE  VtStep(s, SeatUpdateVt(s, f))
<1>1. s.tty.fg \in VT
  BY DEF SeatState, Console
<1> QED
  BY <1>1 DEF SeatState, VtStep, SameMembers, SameHolder, SeatUpdateVt

\* vt_open turns on process switching with graphics.
LEMMA VtOpenStep ==
  ASSUME NEW s \in SeatState, NEW v
  PROVE  VtStep(s, VtOpen(s, v))
<1> DEFINE p == TerminalSetProcessSwitching(s.tty, {v}, TRUE)
           t == TerminalSetGraphics(p, {v}, TRUE)
<1>1. s.tty \in Console
  BY DEF SeatState
<1>2. p \in Console
  BY <1>1, ProcessSwitchingType
<1>3. t \in Console
  BY <1>2, GraphicsType
<1>4. Leavable(s.tty) => Leavable(t)
  BY <1>1 DEF Leavable, Console, TerminalSetProcessSwitching, TerminalSetGraphics
<1>5. VtOpen(s, v) = [s EXCEPT !.tty = t]
  BY DEF VtOpen
<1> HIDE DEF t
<1> QED
  BY <1>3, <1>4, <1>5, TtyStep

\* vt_close turns both off.
LEMMA VtCloseStep ==
  ASSUME NEW s \in SeatState, NEW V, NEW f
  PROVE  VtStep(s, VtClose(s, V, f))
<1> DEFINE p == TerminalSetProcessSwitching(s.tty, V, FALSE)
           t == TerminalSetGraphics(p, V, FALSE)
<1>1. s.tty \in Console
  BY DEF SeatState
<1>2. p \in Console
  BY <1>1, ProcessSwitchingType
<1>3. t \in Console
  BY <1>2, GraphicsType
<1>4. Leavable(s.tty) => Leavable(t)
  BY <1>1 DEF Leavable, Console, TerminalSetProcessSwitching, TerminalSetGraphics
<1>5. "vt_close" \notin f => VtClose(s, V, f) = [s EXCEPT !.tty = t]
  BY DEF VtClose
<1>6. VtStep(s, s)
  BY DEF VtStep, SameMembers, SameHolder
<1> HIDE DEF t
<1> QED
  BY <1>3, <1>4, <1>5, <1>6, TtyStep DEF VtClose

\* vt_switch asks for a VT and leaves the graphics modes alone.
LEMMA VtSwitchStep ==
  ASSUME NEW s \in SeatState, NEW v \in VT, NEW f
  PROVE  VtStep(s, VtSwitch(s, v, f))
<1> DEFINE p == TerminalSetProcessSwitching(s.tty, {s.cur_vt}, TRUE)
           t == TerminalSwitchVt(p, v)
           r == [s EXCEPT !.tty = t]
<1>1. s.tty \in Console
  BY DEF SeatState
<1>2. p \in Console
  BY <1>1, ProcessSwitchingType
<1>3. Leavable(s.tty) => Leavable(p)
  BY <1>1 DEF Leavable, Console, TerminalSetProcessSwitching
<1> HIDE DEF p
<1>4. t \in Console /\ (Leavable(p) => Leavable(t))
  BY <1>2, SwitchVtType, ModesKept DEF Leavable
<1> HIDE DEF t
<1>5. VtStep(s, s)
  BY DEF VtStep, SameMembers, SameHolder
<1>6. VtStep(s, [s EXCEPT !.tty = p])
  BY <1>2, <1>3, TtyStep
<1>7. VtStep(s, [s EXCEPT !.tty = t, !.pending_vt_switch = v])
  BY <1>3, <1>4 DEF SeatState, VtStep, SameMembers, SameHolder
<1> QED
  BY <1>5, <1>6, <1>7 DEF VtSwitch, p, t

\* Acking a VT signal may complete a switch and changes no mode.
LEMMA VtAckStep ==
  ASSUME NEW s \in SeatState, NEW f
  PROVE  VtStep(s, VtAck(s, f))
<1> DEFINE t == TerminalAck(s.tty, s.cur_vt)
<1>1. s.tty \in Console
  BY DEF SeatState
<1>2. t \in Console /\ (Leavable(s.tty) => Leavable(t))
  BY <1>1, AckType, ModesKept DEF Leavable
<1> HIDE DEF t
<1>3. VtStep(s, [s EXCEPT !.tty = t])
  BY <1>2, TtyStep
<1>4. VtStep(s, s)
  BY DEF VtStep, SameMembers, SameHolder
<1> QED
  BY <1>3, <1>4 DEF VtAck, t
-----------------------------------------------------------------------------
(***************************************************************************)
(* Giving the seat to a client.                                            *)
(***************************************************************************)

\* Replacing the devices by a safe step changes nothing else.
LEMMA DevStep ==
  ASSUME NEW s \in SeatState, NEW d, SafeStep(s.dev, d)
  PROVE  LET r == [s EXCEPT !.dev = d]
         IN  /\ r \in SeatState /\ SameMembers(s, r) /\ SameHolder(s, r)
             /\ r.tty = s.tty /\ r.dev = d
BY DEF SeatState, SafeStep, SameMembers, SameHolder

\* A device table is safe from itself.
LEMMA SafeStepReflexive ==
  ASSUME NEW d \in DeviceState
  PROVE  SafeStep(d, d)
BY DEF SafeStep, NoNewInput

\* seat_open_client gives the seat to c or leaves it as it was, also when it
\* has to undo what it did because the client could not be told.
LEMMA OpenClientStep ==
  ASSUME NEW s \in SeatState, NEW c \in Client, NEW f
  PROVE  LET r == SeatOpenClient(s, c, f)
         IN  GrantStep(s, {c}, r) /\ r.next_client = s.next_client
<1> DEFINE v == VtForClientOpen(s, c)
           vt == IF VtBound THEN VtOpen(s, v) ELSE s
           d == SeatActivateDevices(vt.dev, c)
           opened == [vt EXCEPT !.dev = d]
           e == SeatDeactivateDevices(opened.dev, c, Path, f)
           undone == [opened EXCEPT !.dev = e]
           closed == IF VtBound THEN VtClose(undone, {v}, f) ELSE undone
           given == [opened EXCEPT !.state[c] = "ACTIVE", !.active_client = c]
           refused == \/ s.state[c] \notin {"NEW", "DISABLED"}
                      \/ s.active_client # NULL
                      \/ VtBound /\ "vt_open" \in f
<1>1. SeatOpenClient(s, c, f) =
        IF refused THEN s ELSE IF "enable" \in f THEN closed ELSE given
  BY DEF SeatOpenClient
<1>2. VtStep(s, s)
  BY DEF VtStep, SameMembers, SameHolder
<1>3. VtStep(s, vt)
  BY <1>2, VtOpenStep
<1> HIDE DEF v, vt
<1>4. vt \in SeatState /\ vt.dev = s.dev /\ s.dev \in DeviceState
  BY <1>3 DEF VtStep, SeatState
<1>5. SafeStep(s.dev, d)
  BY <1>4, ActivateSafe
<1> HIDE DEF d
<1>6. /\ opened \in SeatState /\ SameMembers(vt, opened) /\ SameHolder(vt, opened)
      /\ opened.tty = vt.tty /\ opened.dev = d
  BY <1>4, <1>5, DevStep
<1> HIDE DEF opened
<1>7. SafeStep(d, e)
  BY <1>5, <1>6, DeactivateSafe DEF SafeStep
<1> HIDE DEF e
<1>8. /\ undone \in SeatState /\ SameMembers(opened, undone) /\ SameHolder(opened, undone)
      /\ undone.tty = opened.tty /\ undone.dev = e
  BY <1>6, <1>7, DevStep
<1> HIDE DEF undone
<1>9. VtStep(undone, closed)
  <2>1. VtStep(undone, undone)
    BY <1>8 DEF VtStep, SameMembers, SameHolder
  <2> QED
    BY <1>8, <2>1, VtCloseStep
<1> HIDE DEF closed
<1>10. GrantStep(s, {c}, s) /\ s.next_client = s.next_client
  BY <1>4, SafeStepReflexive DEF GrantStep, SameMembers
<1>11. GrantStep(s, {c}, closed) /\ closed.next_client = s.next_client
  <2>1. SafeStep(s.dev, e)
    BY <1>5, <1>7, SafeStepTransitive
  <2> QED
    BY <1>3, <1>6, <1>8, <1>9, <2>1 DEF GrantStep, VtStep, SameMembers, SameHolder
<1>12. ASSUME ~refused
       PROVE  GrantStep(s, {c}, given) /\ given.next_client = s.next_client
  <2>1. /\ given \in SeatState /\ SameMembers(opened, given)
        /\ given.tty = opened.tty /\ given.dev = opened.dev
        /\ given.next_client = opened.next_client
        /\ given.active_client = c /\ given.state = [opened.state EXCEPT ![c] = "ACTIVE"]
    BY <1>6 DEF SeatState, ClientState, SameMembers
  <2> HIDE DEF given
  <2>2. Granted(s, c, given)
    BY <1>12, <1>3, <1>6, <2>1 DEF Granted, VtStep, SameHolder
  <2> QED
    BY <1>3, <1>5, <1>6, <2>1, <2>2 DEF GrantStep, VtStep, SameMembers, SameHolder
<1> HIDE DEF refused, given
<1> QED
  BY <1>1, <1>10, <1>11, <1>12

\* FirstClient yields members.
LEMMA FirstClientIsMember ==
  ASSUME NEW s \in SeatState, NEW S
  PROVE  FirstClient(s, S) \subseteq S \cap Members(s)
BY DEF FirstClient, Members, Range

\* seat_activate leaves an occupied seat alone; it gives a free seat to the
\* queued client or to a member, and no client stays queued.
LEMMA ActivateStep ==
  ASSUME NEW s \in SeatState, NEW f
  PROVE  LET r == SeatActivate(s, f)
             S == (Members(s) \cup {s.next_client}) \cap Client
         IN  /\ GrantStep(s, S, r)
             /\ s.active_client # NULL => r = s
             /\ s.active_client = NULL => r.next_client = NULL
<1> DEFINE r == SeatActivate(s, f)
           S == (Members(s) \cup {s.next_client}) \cap Client
<1>1. CASE s.active_client # NULL
  <2>1. r = s
    BY <1>1 DEF SeatActivate
  <2>2. s.dev \in DeviceState
    BY DEF SeatState
  <2> HIDE DEF r
  <2> QED
    BY <1>1, <2>1, <2>2, SafeStepReflexive DEF GrantStep, SameMembers, r
<1>2. CASE s.active_client = NULL /\ s.next_client # NULL
  <2> DEFINE u == [s EXCEPT !.next_client = NULL]
             q == s.next_client
  <2>1. /\ q \in Client /\ u \in SeatState /\ SameMembers(s, u) /\ u.next_client = NULL
        /\ u.state = s.state /\ u.active_client = s.active_client
        /\ u.dev = s.dev /\ u.tty = s.tty
    BY <1>2 DEF SeatState, SameMembers
  <2>2. r = SeatOpenClient(u, q, f)
    BY <1>2 DEF SeatActivate
  <2> HIDE DEF r, u, q
  <2>3. GrantStep(u, {q}, r) /\ r.next_client = NULL
    BY <2>1, <2>2, OpenClientStep
  <2>4. q \in S
    BY <2>1 DEF q
  <2> HIDE DEF S
  <2>5. GrantStep(s, S, r)
    BY <2>1, <2>3, <2>4 DEF GrantStep, Granted, SameMembers
  <2> QED
    BY <1>2, <2>3, <2>5 DEF r, S
<1>3. CASE s.active_client = NULL /\ s.next_client = NULL
  <2>1. CASE Candidate(s) = {}
    <3>1. r = s
      BY <1>3, <2>1 DEF SeatActivate
    <3>2. s.dev \in DeviceState
      BY DEF SeatState
    <3> HIDE DEF r
    <3> QED
      BY <1>3, <3>1, <3>2, SafeStepReflexive DEF GrantStep, SameMembers, r
  <2>2. CASE Candidate(s) # {}
    <3> DEFINE q == CHOOSE c \in Candidate(s) : TRUE
    <3>1. q \in Candidate(s)
      BY <2>2
    <3>2. r = SeatOpenClient(s, q, f)
      BY <1>3, <2>2 DEF SeatActivate
    <3>3. q \in S
      <4> HIDE DEF q
      <4>1. Candidate(s) \subseteq Client \cap Members(s)
        BY FirstClientIsMember DEF Candidate
      <4> QED
        BY <3>1, <4>1
    <3> HIDE DEF q, r
    <3>4. GrantStep(s, {q}, r) /\ r.next_client = NULL
      BY <1>3, <3>2, <3>3, OpenClientStep
    <3> HIDE DEF S
    <3>5. GrantStep(s, S, r)
      BY <3>3, <3>4 DEF GrantStep
    <3> QED
      BY <1>3, <3>4, <3>5 DEF r, S
  <2> QED
    BY <2>1, <2>2
<1> QED
  BY <1>1, <1>2, <1>3
-----------------------------------------------------------------------------
(***************************************************************************)
(* The invariant.                                                          *)
(***************************************************************************)

\* active_client is exact for the clients outside X, none of which X has
\* left on the seat.  X is a client seat_remove_client is still working on.
ExactBut(s, X) ==
  /\ \A c \in Client \ X :
       /\ s.active_client = c <=> s.state[c] \in {"ACTIVE", "PENDING_DISABLE"}
       /\ s.active_client = c => c \in Members(s)
  /\ X \cap Members(s) = {}
  /\ s.active_client \notin X

\* The list of clients and the clients' own fields agree.
Listed(s, X) ==
  /\ Distinct(s.clients)
  /\ \A c \in Members(s) : s.state[c] \notin {"none", "CLOSED"}
  /\ \A c \in Client : c \in X \cup Members(s) \/ s.state[c] = "CLOSED" => s.session[c] # -1

\* QueuedClientReady of Server, for a seat record.
Queued(s) ==
  s.next_client # NULL =>
    /\ ~VtBound
    /\ s.next_client \in Members(s) /\ s.state[s.next_client] \in {"NEW", "DISABLED"}
    /\ s.active_client # NULL
    /\ s.state[s.active_client] = "PENDING_DISABLE"

\* What holds between any two steps of a function of seat.c.
PartInv(s, X) ==
  /\ s \in SeatState
  /\ ExactBut(s, X)
  /\ Listed(s, X)
  /\ \A v \in VT : s.group_vts[v] # NULL => s.group_vts[v] \in Members(s)
  /\ Accounted(s.dev)
  /\ Leavable(s.tty)

\* The inductive invariant.
SeatInv(s) == PartInv(s, {}) /\ Queued(s)

\* InputExclusion of Server, for a seat record.
InputSafe(s) == \A c \in Client, p \in Path : Reads(s.dev, c, p) => s.state[c] = "ACTIVE"

\* Running from s to r with the failures f keeps both.
Preserves(s, f, r) ==
  SeatInv(r) /\ ("revoke" \notin f /\ InputSafe(s) => InputSafe(r))

\* The step from s to r changes VTs and devices, the latter safely.
QuietStep(s, r) ==
  /\ r \in SeatState
  /\ SameMembers(s, r) /\ SameHolder(s, r)
  /\ SafeStep(s.dev, r.dev)
  /\ Leavable(s.tty) => Leavable(r.tty)
-----------------------------------------------------------------------------
\* Members are clients.
LEMMA MembersAreClients ==
  ASSUME NEW s \in SeatState
  PROVE  Members(s) \subseteq Client
<1>1. s.clients \in Seq(Client)
  BY DEF SeatState
<1> QED
  BY <1>1 DEF Members, Range

\* The seat that seat_create makes satisfies the invariant.
LEMMA CreateInv ==
  ASSUME NEW v \in VT
  PROVE  SeatInv(SeatCreate(v)) /\ InputSafe(SeatCreate(v))
<1> DEFINE s == SeatCreate(v)
<1>1. /\ s.clients = <<>> /\ s.state = [c \in Client |-> "none"]
      /\ s.session = [c \in Client |-> -1]
      /\ s.active_client = NULL /\ s.next_client = NULL /\ s.cur_vt = -1
      /\ s.pending_vt_switch = 0 /\ s.group_vts = [w \in VT |-> NULL]
      /\ s.dev = NoDevices /\ s.tty = BootConsole(v)
  BY DEF SeatCreate
<1>2. s \in SeatState
  <2>1. BootConsole(v) \in Console /\ NoDevices \in DeviceState
    BY BootConsoleType, NoDevicesSafe
  <2> QED
    BY <2>1 DEF SeatState, SeatCreate, ClientState
<1>3. Members(s) = {}
  BY <1>1 DEF Members, Range
<1>4. Leavable(s.tty)
  BY <1>1 DEF Leavable, BootConsole
<1> HIDE DEF s
<1>5. ExactBut(s, {}) /\ Listed(s, {})
  BY <1>1, <1>3, ClientAssumption DEF ExactBut, Listed, Distinct
<1>6. InputSafe(s) /\ Accounted(s.dev)
  BY <1>1, NoDevicesSafe DEF InputSafe
<1> QED
  BY <1>1, <1>2, <1>4, <1>5, <1>6 DEF SeatInv, PartInv, Queued, s

\* Quiet steps keep everything.
LEMMA QuietKeeps ==
  ASSUME NEW s, NEW r, QuietStep(s, r)
  PROVE  /\ \A X : PartInv(s, X) => PartInv(r, X)
         /\ Queued(s) => Queued(r)
         /\ InputSafe(s) => InputSafe(r)
<1>1. Members(r) = Members(s)
  BY DEF QuietStep, SameMembers, Members
<1>2. ASSUME NEW X, PartInv(s, X) PROVE PartInv(r, X)
  <2>1. ExactBut(r, X)
    BY <1>1, <1>2 DEF PartInv, ExactBut, QuietStep, SameHolder
  <2>2. Listed(r, X)
    BY <1>1, <1>2 DEF PartInv, Listed, QuietStep, SameHolder, SameMembers
  <2> QED
    BY <1>1, <1>2, <2>1, <2>2 DEF PartInv, QuietStep, SameMembers, SafeStep
<1>3. Queued(s) => Queued(r)
  BY <1>1 DEF Queued, QuietStep, SameHolder
<1>4. InputSafe(s) => InputSafe(r)
  BY DEF InputSafe, QuietStep, SameHolder, SafeStep, NoNewInput
<1> QED
  BY <1>2, <1>3, <1>4

\* VT steps are quiet.
LEMMA VtStepQuiet ==
  ASSUME NEW s \in SeatState, NEW r, VtStep(s, r)
  PROVE  QuietStep(s, r)
<1>1. s.dev \in DeviceState
  BY DEF SeatState
<1> QED
  BY <1>1, SafeStepReflexive DEF VtStep, QuietStep

\* Quiet steps compose.
LEMMA QuietTransitive ==
  ASSUME NEW s, NEW r, NEW u, QuietStep(s, r), QuietStep(r, u)
  PROVE  QuietStep(s, u)
<1>1. SafeStep(s.dev, u.dev)
  BY SafeStepTransitive DEF QuietStep
<1> QED
  BY <1>1 DEF QuietStep, SameMembers, SameHolder

\* Between the steps of a function, granting the seat to a member keeps the
\* invariant.
LEMMA GrantKeeps ==
  ASSUME NEW s, NEW r, NEW X, PartInv(s, X), GrantStep(s, Members(s), r)
  PROVE  PartInv(r, X) /\ (InputSafe(s) => InputSafe(r))
<1>1. Members(r) = Members(s) /\ Members(s) \subseteq Client
  BY MembersAreClients DEF GrantStep, SameMembers, Members, PartInv
<1>2. CASE r.state = s.state /\ r.active_client = s.active_client
  <2>1. ExactBut(r, X) /\ Listed(r, X)
    BY <1>1, <1>2 DEF PartInv, ExactBut, Listed, GrantStep, SameMembers
  <2>2. InputSafe(s) => InputSafe(r)
    BY <1>2 DEF InputSafe, GrantStep, SafeStep, NoNewInput
  <2> QED
    BY <1>1, <2>1, <2>2 DEF PartInv, GrantStep, SameMembers, SafeStep
<1>3. ASSUME NEW c \in Members(s), Granted(s, c, r)
      PROVE  PartInv(r, X) /\ (InputSafe(s) => InputSafe(r))
  <2>1. /\ c \in Client /\ c \notin X /\ s.active_client = NULL /\ r.active_client = c
        /\ r.state[c] = "ACTIVE"
        /\ \A x \in Client : x # c => r.state[x] = s.state[x]
    BY <1>1, <1>3 DEF Granted, PartInv, ExactBut, SeatState
  <2>2. ExactBut(r, X)
    BY <1>1, <2>1, ClientAssumption DEF PartInv, ExactBut
  <2>3. Listed(r, X)
    BY <1>1, <2>1 DEF PartInv, Listed, GrantStep, SameMembers
  <2>4. InputSafe(s) => InputSafe(r)
    BY <2>1 DEF InputSafe, GrantStep, SafeStep, NoNewInput
  <2> QED
    BY <1>1, <2>2, <2>3, <2>4 DEF PartInv, GrantStep, SameMembers, SafeStep
<1> QED
  BY <1>2, <1>3 DEF GrantStep

\* seat_activate keeps the invariant, and an occupied seat needs a queue that
\* is in order.
LEMMA ActivateKeeps ==
  ASSUME NEW s, NEW X, NEW f, PartInv(s, X),
         s.next_client # NULL => s.next_client \in Members(s),
         s.active_client # NULL => Queued(s)
  PROVE  LET r == SeatActivate(s, f)
         IN  PartInv(r, X) /\ Queued(r) /\ (InputSafe(s) => InputSafe(r))
<1> DEFINE r == SeatActivate(s, f)
           S == (Members(s) \cup {s.next_client}) \cap Client
<1>1. s \in SeatState /\ Members(s) \subseteq Client
  BY MembersAreClients DEF PartInv
<1>2. S = Members(s)
  BY <1>1, ClientAssumption
<1>3. /\ GrantStep(s, S, r)
      /\ s.active_client # NULL => r = s
      /\ s.active_client = NULL => r.next_client = NULL
  BY <1>1, ActivateStep
<1> HIDE DEF r, S
<1>4. Queued(r)
  BY <1>3 DEF Queued
<1>5. PartInv(r, X) /\ (InputSafe(s) => InputSafe(r))
  BY <1>2, <1>3, GrantKeeps
<1> QED
  BY <1>4, <1>5 DEF r
-----------------------------------------------------------------------------
(***************************************************************************)
(* The functions of seat.c.                                                *)
(***************************************************************************)

\* Every quiet step preserves the invariant.
LEMMA QuietPreserves ==
  ASSUME NEW s, NEW r, NEW f, SeatInv(s), QuietStep(s, r)
  PROVE  Preserves(s, f, r)
BY QuietKeeps DEF Preserves, SeatInv

\* In particular the steps that only touch VTs do.
LEMMA VtStepPreserves ==
  ASSUME NEW s, NEW r, NEW f, SeatInv(s), VtStep(s, r)
  PROVE  Preserves(s, f, r)
<1>1. s \in SeatState
  BY DEF SeatInv, PartInv
<1> QED
  BY <1>1, VtStepQuiet, QuietPreserves

\* seat_disable_client takes the input devices before the client is told, so
\* that it may be called on the active client with the next one queued.
LEMMA DisableKeeps ==
  ASSUME NEW s, NEW c \in Client, NEW f, PartInv(s, {}), s.state[c] = "ACTIVE",
         s.next_client # NULL =>
           ~VtBound /\ s.next_client \in Members(s) /\ s.next_client # c
  PROVE  Preserves(s, f, SeatDisableClient(s, c, f))
<1> DEFINE d == SeatDeactivateDevices(s.dev, c, Path, f)
           r == SeatDisableClient(s, c, f)
<1>1. s \in SeatState /\ s.dev \in DeviceState /\ Members(s) \subseteq Client
  BY MembersAreClients DEF PartInv, SeatState
<1>2. SafeStep(s.dev, d) /\ ("revoke" \notin f => \A p \in Path : ~Reads(d, c, p))
  BY <1>1, DeactivateSafe
<1> HIDE DEF d
<1>3. /\ r \in SeatState /\ SameMembers(s, r)
      /\ r.active_client = s.active_client /\ r.next_client = s.next_client
      /\ r.tty = s.tty /\ r.dev = d
      /\ r.state[c] = "PENDING_DISABLE"
      /\ \A x \in Client : x # c => r.state[x] = s.state[x]
  <2>1. r = [s EXCEPT !.dev = d, !.state = [s.state EXCEPT ![c] = "PENDING_DISABLE"]]
    BY DEF SeatDisableClient, d
  <2>2. s.state \in [Client -> ClientState] /\ "PENDING_DISABLE" \in ClientState
    BY <1>1 DEF SeatState, ClientState
  <2>3. [s.state EXCEPT ![c] = "PENDING_DISABLE"] \in [Client -> ClientState]
    BY <2>2
  <2> HIDE DEF r
  <2> QED
    BY <1>1, <1>2, <2>1, <2>2, <2>3 DEF SeatState, SafeStep, SameMembers
<1> HIDE DEF r
<1>4. Members(r) = Members(s)
  BY <1>3 DEF SameMembers, Members
<1>5. s.active_client = c
  BY DEF PartInv, ExactBut
<1>6. ExactBut(r, {}) /\ Listed(r, {})
  BY <1>1, <1>3, <1>4, <1>5 DEF PartInv, ExactBut, Listed, SameMembers
<1>7. PartInv(r, {})
  BY <1>2, <1>3, <1>4, <1>6 DEF PartInv, SafeStep, SameMembers
<1>8. Queued(r)
  <2>1. ASSUME s.next_client # NULL PROVE s.state[s.next_client] \in {"NEW", "DISABLED"}
    <3>1. s.next_client \in Client /\ s.state[s.next_client] \in ClientState
      BY <1>1, <2>1 DEF SeatState
    <3> QED
      BY <1>5, <2>1, <3>1 DEF PartInv, ExactBut, Listed, ClientState
  <2> QED
    BY <1>1, <1>3, <1>4, <1>5, <2>1, ClientAssumption DEF Queued
<1>9. "revoke" \notin f /\ InputSafe(s) => InputSafe(r)
  BY <1>2, <1>3 DEF InputSafe, SafeStep, NoNewInput
<1> QED
  BY <1>7, <1>8, <1>9 DEF Preserves, SeatInv, r

\* seat_ack_disable_client frees the seat and passes it on.
LEMMA AckDisablePreserves ==
  ASSUME NEW s, NEW c \in Members(s), NEW f, SeatInv(s)
  PROVE  Preserves(s, f, SeatAckDisableClient(s, c, f))
<1>1. s \in SeatState /\ Members(s) \subseteq Client /\ c \in Client
  BY MembersAreClients DEF SeatInv, PartInv
<1>2. CASE s.state[c] # "PENDING_DISABLE"
  BY <1>2 DEF SeatAckDisableClient, Preserves
<1>3. CASE s.state[c] = "PENDING_DISABLE"
  <2> DEFINE u == [s EXCEPT !.state[c] = "DISABLED"]
             w == [u EXCEPT !.active_client = NULL]
  <2>1. s.active_client = c
    BY <1>1, <1>3 DEF SeatInv, PartInv, ExactBut
  <2>2. SeatAckDisableClient(s, c, f) = SeatActivate(w, f)
    BY <1>3, <2>1 DEF SeatAckDisableClient
  <2>3. /\ w \in SeatState /\ SameMembers(s, w) /\ w.next_client = s.next_client
        /\ w.active_client = NULL /\ w.dev = s.dev /\ w.tty = s.tty
        /\ w.state[c] = "DISABLED"
        /\ \A x \in Client : x # c => w.state[x] = s.state[x]
    BY <1>1 DEF SeatState, ClientState, SameMembers
  <2> HIDE DEF w
  <2>4. Members(w) = Members(s)
    BY <2>3 DEF Members, SameMembers
  <2>5. ExactBut(w, {}) /\ Listed(w, {})
    BY <1>1, <2>1, <2>3, <2>4, ClientAssumption DEF SeatInv, PartInv, ExactBut, Listed, SameMembers
  <2>6. PartInv(w, {})
    BY <2>3, <2>4, <2>5 DEF SeatInv, PartInv, SameMembers
  <2>7. InputSafe(s) => InputSafe(w)
    BY <1>1, <1>3, <2>3 DEF InputSafe
  <2>8. w.next_client # NULL => w.next_client \in Members(w)
    BY <2>3, <2>4 DEF SeatInv, Queued
  <2> QED
    BY <2>2, <2>3, <2>6, <2>7, <2>8, ActivateKeeps DEF Preserves, SeatInv
<1> QED
  BY <1>2, <1>3

\* What linked_list_insert and linked_list_remove are built from: a slice of a
\* list, and one list after another.
LEMMA SubSeqFacts ==
  ASSUME NEW S, NEW q \in Seq(S), NEW m \in Nat \ {0}, NEW n \in Nat,
         n <= Len(q), m <= n + 1
  PROVE  /\ SubSeq(q, m, n) \in Seq(S)
         /\ Len(SubSeq(q, m, n)) = n - m + 1
         /\ \A k \in 1 .. n - m + 1 : SubSeq(q, m, n)[k] = q[m + k - 1]
OBVIOUS

\* What \o does to lengths and elements, for the client list of seat_add_client.
LEMMA ConcatFacts ==
  ASSUME NEW S, NEW p \in Seq(S), NEW q \in Seq(S)
  PROVE  /\ p \o q \in Seq(S)
         /\ Len(p \o q) = Len(p) + Len(q)
         /\ \A k \in 1 .. Len(p) + Len(q) :
              (p \o q)[k] = IF k <= Len(p) THEN p[k] ELSE q[k - Len(p)]
OBVIOUS

\* Taking c out of a list without repetitions leaves the others.
LEMMA RemoveAtFacts ==
  ASSUME NEW q \in Seq(Client), Distinct(q), NEW c \in Range(q)
  PROVE  LET r == RemoveAt(q, IndexIn(q, c))
         IN  r \in Seq(Client) /\ Distinct(r) /\ Range(r) = Range(q) \ {c}
<1> DEFINE i == IndexIn(q, c)
           r == RemoveAt(q, i)
<1>1. i \in 1 .. Len(q) /\ q[i] = c
  <2>1. \E k \in DOMAIN q : q[k] = c
    BY DEF Range
  <2> QED
    BY <2>1 DEF IndexIn
<1> HIDE DEF i
<1>2. /\ r \in Seq(Client) /\ Len(r) = Len(q) - 1
      /\ \A k \in 1 .. Len(r) : r[k] = IF k < i THEN q[k] ELSE q[k + 1]
  <2> DEFINE A == SubSeq(q, 1, i - 1)
             B == SubSeq(q, i + 1, Len(q))
  <2>1. /\ A \in Seq(Client) /\ Len(A) = i - 1
        /\ \A k \in 1 .. i - 1 : A[k] = q[k]
    BY <1>1, SubSeqFacts
  <2>2. /\ B \in Seq(Client) /\ Len(B) = Len(q) - i
        /\ \A k \in 1 .. Len(q) - i : B[k] = q[i + k]
    BY <1>1, SubSeqFacts
  <2>3. r = A \o B
    BY DEF RemoveAt
  <2> HIDE DEF A, B, r
  <2>4. /\ r \in Seq(Client) /\ Len(r) = Len(A) + Len(B)
        /\ \A k \in 1 .. Len(A) + Len(B) : r[k] = IF k <= Len(A) THEN A[k] ELSE B[k - Len(A)]
    BY <2>1, <2>2, <2>3, ConcatFacts
  <2>5. ASSUME NEW k \in 1 .. Len(r), k >= i PROVE r[k] = q[k + 1]
    <3>1. k - (i - 1) \in 1 .. Len(q) - i /\ i + (k - (i - 1)) = k + 1
      BY <1>1, <2>1, <2>2, <2>4, <2>5
    <3> QED
      BY <1>1, <2>1, <2>2, <2>4, <2>5, <3>1
  <2>6. ASSUME NEW k \in 1 .. Len(r), k < i PROVE r[k] = q[k]
    <3>1. k \in 1 .. i - 1 /\ k <= Len(A) /\ k \in 1 .. Len(A) + Len(B)
      BY <1>1, <2>1, <2>2, <2>4, <2>6
    <3> QED
      BY <2>1, <2>4, <3>1
  <2>7. Len(r) = Len(q) - 1
    BY <1>1, <2>1, <2>2, <2>4
  <2>8. \A k \in 1 .. Len(r) : k \in Int /\ (k < i \/ k >= i)
    BY <1>1, <2>7
  <2> QED
    BY <2>4, <2>5, <2>6, <2>7, <2>8
<1> HIDE DEF r
<1>3. DOMAIN q = 1 .. Len(q) /\ DOMAIN r = 1 .. Len(r) /\ Len(q) \in Nat /\ Len(r) \in Nat
  BY <1>2
<1>4. ASSUME NEW k \in DOMAIN r
      PROVE  \E j \in DOMAIN q : j # i /\ r[k] = q[j] /\ j = (IF k < i THEN k ELSE k + 1)
  BY <1>1, <1>2, <1>3
<1>5. Distinct(r)
  <2> SUFFICES ASSUME NEW k \in DOMAIN r, NEW l \in DOMAIN r, r[k] = r[l]
               PROVE  k = l
    BY DEF Distinct
  <2>1. PICK m \in DOMAIN q : r[k] = q[m] /\ m = (IF k < i THEN k ELSE k + 1)
    BY <1>4
  <2>2. PICK n \in DOMAIN q : r[l] = q[n] /\ n = (IF l < i THEN l ELSE l + 1)
    BY <1>4
  <2>3. m = n
    BY <2>1, <2>2 DEF Distinct
  <2> QED
    BY <1>1, <1>3, <2>1, <2>2, <2>3
<1>6. ASSUME NEW x \in Range(r) PROVE x \in Range(q) /\ x # c
  <2>1. PICK k \in DOMAIN r : r[k] = x
    BY DEF Range
  <2>2. PICK j \in DOMAIN q : j # i /\ r[k] = q[j]
    BY <1>4
  <2> QED
    BY <1>1, <1>3, <2>1, <2>2 DEF Range, Distinct
<1>7. ASSUME NEW x \in Range(q), x # c PROVE x \in Range(r)
  <2>1. PICK k \in 1 .. Len(q) : q[k] = x
    BY DEF Range
  <2>2. k # i
    BY <2>1, <1>1, <1>7
  <2>3. CASE k < i
    BY <1>1, <1>2, <2>1, <2>3 DEF Range
  <2>4. CASE k > i
    <3>1. k - 1 \in 1 .. Len(r) /\ r[k - 1] = x
      BY <1>1, <1>2, <2>1, <2>4
    <3> QED
      BY <3>1, <1>2 DEF Range
  <2> QED
    BY <2>2, <2>3, <2>4, <1>1
<1> QED
  BY <1>2, <1>7, <1>5, <1>6 DEF r, i

\* seat_add_client puts a connected client that has no session yet on the
\* seat.  Its state is NEW: a closed session keeps its number.
LEMMA AddClientPreserves ==
  ASSUME NEW s, NEW c \in Client, NEW n \in Int, NEW f, SeatInv(s),
         c \notin Members(s), s.state[c] # "none", s.session[c] = -1, n # -1
  PROVE  /\ Preserves(s, f, SeatAddClient(s, c, n))
         /\ Members(SeatAddClient(s, c, n)) = Members(s) \cup {c}
<1> DEFINE r == SeatAddClient(s, c, n)
           q == <<c>> \o s.clients
<1>1. s \in SeatState /\ Members(s) \subseteq Client /\ s.clients \in Seq(Client)
  BY MembersAreClients DEF SeatInv, PartInv, SeatState
<1>2. /\ q \in Seq(Client) /\ Len(q) = Len(s.clients) + 1
      /\ \A i \in 1 .. Len(q) : q[i] = IF i = 1 THEN c ELSE s.clients[i - 1]
  <2>1. /\ <<c>> \in Seq(Client) /\ Len(<<c>>) = 1 /\ <<c>>[1] = c
    OBVIOUS
  <2>2. /\ q \in Seq(Client) /\ Len(q) = 1 + Len(s.clients)
        /\ \A i \in 1 .. 1 + Len(s.clients) : q[i] = IF i <= 1 THEN <<c>>[i] ELSE s.clients[i - 1]
    BY <1>1, <2>1, ConcatFacts
  <2> QED
    BY <1>1, <2>1, <2>2
<1> HIDE DEF q
<1>3. DOMAIN q = 1 .. Len(q) /\ DOMAIN s.clients = 1 .. Len(s.clients) /\ Len(s.clients) \in Nat
  BY <1>1, <1>2
<1>4. Range(q) = Members(s) \cup {c}
  <2>1. ASSUME NEW x \in Members(s) PROVE x \in Range(q)
    <3>1. PICK i \in DOMAIN s.clients : s.clients[i] = x
      BY DEF Members, Range
    <3>2. i + 1 \in DOMAIN q /\ q[i + 1] = x
      BY <1>2, <1>3, <3>1
    <3> QED
      BY <3>2 DEF Range
  <2>2. ASSUME NEW x \in Range(q) PROVE x \in Members(s) \cup {c}
    <3>1. PICK i \in DOMAIN q : q[i] = x
      BY DEF Range
    <3>2. i # 1 => i - 1 \in DOMAIN s.clients /\ s.clients[i - 1] = x
      BY <1>2, <1>3, <3>1
    <3> QED
      BY <1>2, <1>3, <3>1, <3>2 DEF Members, Range
  <2>3. c \in Range(q)
    <3>1. 1 \in DOMAIN q /\ q[1] = c
      BY <1>2, <1>3
    <3> QED
      BY <3>1 DEF Range
  <2> QED
    BY <2>1, <2>2, <2>3
<1>5. Distinct(q)
  <2> SUFFICES ASSUME NEW i \in DOMAIN q, NEW j \in DOMAIN q, q[i] = q[j]
               PROVE  i = j
    BY DEF Distinct
  <2>1. \A k \in DOMAIN q : k # 1 => /\ k - 1 \in DOMAIN s.clients
                                     /\ q[k] = s.clients[k - 1] /\ q[k] # c
    BY <1>2, <1>3 DEF Members, Range
  <2>2. q[1] = c /\ Distinct(s.clients)
    BY <1>2, <1>3 DEF SeatInv, PartInv, Listed
  <2> QED
    BY <1>2, <1>3, <2>1, <2>2 DEF Distinct
<1>6. /\ r \in SeatState /\ r.clients = q /\ SameHolder(s, r)
      /\ r.group_vts = s.group_vts /\ r.dev = s.dev /\ r.tty = s.tty
      /\ r.session[c] = n
      /\ \A x \in Client : x # c => r.session[x] = s.session[x]
  BY <1>1, <1>2 DEF SeatState, SeatAddClient, SameHolder, q
<1> HIDE DEF r
<1>7. Members(r) = Members(s) \cup {c}
  BY <1>4, <1>6, MembersRange
<1>8. ExactBut(r, {}) /\ Listed(r, {})
  BY <1>5, <1>6, <1>7 DEF SeatInv, PartInv, ExactBut, Listed, SameHolder
<1>9. PartInv(r, {})
  BY <1>6, <1>7, <1>8 DEF SeatInv, PartInv
<1>10. Queued(r) /\ (InputSafe(s) => InputSafe(r))
  BY <1>6, <1>7 DEF SeatInv, Queued, SameHolder, InputSafe
<1> QED
  BY <1>7, <1>9, <1>10 DEF Preserves, SeatInv, r

\* seat_open_client on a member.
LEMMA OpenClientPreserves ==
  ASSUME NEW s, NEW c \in Members(s), NEW f, SeatInv(s)
  PROVE  Preserves(s, f, SeatOpenClient(s, c, f))
<1> DEFINE r == SeatOpenClient(s, c, f)
<1>1. s \in SeatState /\ c \in Client
  BY MembersAreClients DEF SeatInv, PartInv
<1>2. GrantStep(s, {c}, r) /\ r.next_client = s.next_client
  BY <1>1, OpenClientStep
<1> HIDE DEF r
<1>3. GrantStep(s, Members(s), r)
  BY <1>2 DEF GrantStep
<1>4. PartInv(r, {}) /\ (InputSafe(s) => InputSafe(r))
  BY <1>3, GrantKeeps DEF SeatInv
<1>5. Queued(r)
  <2>1. s.next_client # NULL => s.active_client # NULL
    BY DEF SeatInv, Queued
  <2>2. s.next_client # NULL => r.state = s.state /\ r.active_client = s.active_client
    BY <1>2, <2>1 DEF GrantStep, Granted
  <2> QED
    BY <1>2, <2>2 DEF SeatInv, Queued, GrantStep, SameMembers, Members
<1> QED
  BY <1>4, <1>5 DEF Preserves, SeatInv, r

\* seat_remove_client closes the client's devices, gives up its group VTs,
\* passes the seat on and leaves no pointer to the client behind.
LEMMA RemoveClientPreserves ==
  ASSUME NEW s, NEW c \in Members(s), NEW f, SeatInv(s)
  PROVE  LET r == SeatRemoveClient(s, c, f)
         IN  /\ Preserves(s, f, r)
             /\ Members(r) = Members(s) \ {c}
             /\ r.state[c] = "CLOSED"
             /\ \A p \in Path : ~Reads(r.dev, c, p)
<1> DEFINE owned == {v \in VT : s.group_vts[v] = c}
           d == SeatCloseAllDevices(s.dev, c, f)
           q == RemoveAt(s.clients, IndexIn(s.clients, c))
           g == [v \in VT |-> IF v \in owned THEN NULL ELSE s.group_vts[v]]
           unlinked == [s EXCEPT !.next_client = IF @ = c THEN NULL ELSE @, !.clients = q,
                                 !.dev = d, !.group_vts = g]
           gone == IF VtBound THEN VtClose(unlinked, owned, f) ELSE unlinked
           free == [gone EXCEPT !.active_client = NULL]
           next == IF s.active_client = c THEN SeatActivate(free, f) ELSE gone
           unused == IF s.active_client = c THEN next.active_client = NULL
                                            ELSE s.state[c] # "CLOSED"
           cleaned == IF VtBound /\ unused THEN VtClose(next, {s.session[c]}, f) ELSE next
           r == [cleaned EXCEPT !.state[c] = "CLOSED"]
<1>1. SeatRemoveClient(s, c, f) = r
  BY DEF SeatRemoveClient
<1>2. /\ s \in SeatState /\ Members(s) \subseteq Client /\ c \in Client
      /\ s.clients \in Seq(Client) /\ s.dev \in DeviceState
  BY MembersAreClients DEF SeatInv, PartInv, SeatState
<1>3. q \in Seq(Client) /\ Distinct(q) /\ Range(q) = Members(s) \ {c}
  BY <1>2, MembersRange, RemoveAtFacts DEF SeatInv, PartInv, Listed
<1>4. SafeStep(s.dev, d) /\ \A p \in Path : ~Reads(d, c, p)
  BY <1>2, ForgetSafe DEF SeatCloseAllDevices
<1>5. /\ g \in [VT -> Client \cup {NULL}]
      /\ \A v \in VT : g[v] # NULL => g[v] = s.group_vts[v] /\ g[v] # c
  BY <1>2 DEF SeatState
<1> HIDE DEF owned, q, d, g
<1>6. /\ unlinked \in SeatState /\ unlinked.clients = q /\ unlinked.dev = d
      /\ unlinked.group_vts = g /\ unlinked.session = s.session
      /\ unlinked.state = s.state /\ unlinked.active_client = s.active_client
      /\ unlinked.next_client = IF s.next_client = c THEN NULL ELSE s.next_client
      /\ unlinked.tty = s.tty
  BY <1>2, <1>3, <1>4, <1>5 DEF SeatState, SafeStep
<1> HIDE DEF unlinked
<1>7. QuietStep(unlinked, gone)
  <2>1. VtStep(unlinked, unlinked)
    BY <1>6 DEF VtStep, SameMembers, SameHolder
  <2> QED
    BY <1>6, <2>1, VtCloseStep, VtStepQuiet
<1> HIDE DEF gone
<1>8. Members(gone) = Members(s) \ {c} /\ gone \in SeatState
  BY <1>3, <1>6, <1>7, MembersRange DEF QuietStep, SameMembers
\* Everything but the state of c is in order once the seat is free of it.
<1>9. ASSUME NEW u, u \in SeatState, SameMembers(gone, u), u.state = gone.state,
             u.next_client = gone.next_client, u.dev = gone.dev, u.tty = gone.tty,
             u.active_client = IF s.active_client = c THEN NULL ELSE gone.active_client
      PROVE  /\ PartInv(u, {c})
             /\ u.next_client # NULL => u.next_client \in Members(u)
             /\ u.active_client # NULL => Queued(u)
             /\ InputSafe(s) => InputSafe(u)
             /\ \A p \in Path : ~Reads(u.dev, c, p)
  <2>1. /\ Members(u) = Members(s) \ {c} /\ u.clients = q /\ u.session = s.session
        /\ u.state = s.state /\ u.group_vts = g /\ SafeStep(d, u.dev)
        /\ u.next_client = IF s.next_client = c THEN NULL ELSE s.next_client
        /\ u.active_client = IF s.active_client = c THEN NULL ELSE s.active_client
        /\ Leavable(s.tty) => Leavable(u.tty)
    BY <1>6, <1>7, <1>8, <1>9 DEF QuietStep, SameMembers, SameHolder, Members
  <2>2. SafeStep(s.dev, u.dev) /\ \A p \in Path : ~Reads(u.dev, c, p)
    BY <1>2, <1>4, <2>1, SafeStepTransitive DEF SafeStep, NoNewInput
  <2>3. ExactBut(u, {c})
    BY <1>2, <2>1, ClientAssumption DEF SeatInv, PartInv, ExactBut
  <2>4. Listed(u, {c})
    BY <1>2, <1>3, <2>1 DEF SeatInv, PartInv, Listed
  <2>5. \A v \in VT : u.group_vts[v] # NULL => u.group_vts[v] \in Members(u)
    BY <1>5, <2>1 DEF SeatInv, PartInv
  <2>6. PartInv(u, {c})
    BY <1>9, <2>1, <2>2, <2>3, <2>4, <2>5 DEF SeatInv, PartInv, SafeStep
  <2>7. /\ u.next_client # NULL => u.next_client \in Members(u)
        /\ u.active_client # NULL => Queued(u)
    BY <2>1 DEF SeatInv, Queued
  <2>8. InputSafe(s) => InputSafe(u)
    BY <2>1, <2>2 DEF InputSafe, SafeStep, NoNewInput
  <2> QED
    BY <2>2, <2>6, <2>7, <2>8
<1>10. /\ PartInv(next, {c}) /\ Queued(next) /\ (InputSafe(s) => InputSafe(next))
       /\ Members(next) = Members(s) \ {c}
       /\ \A p \in Path : ~Reads(next.dev, c, p)
  <2>1. CASE s.active_client = c
    <3>1. /\ free \in SeatState /\ SameMembers(gone, free) /\ free.state = gone.state
          /\ free.next_client = gone.next_client /\ free.dev = gone.dev /\ free.tty = gone.tty
          /\ free.active_client = NULL
      BY <1>8 DEF SeatState, SameMembers
    <3> HIDE DEF free
    <3>2. /\ PartInv(free, {c}) /\ (InputSafe(s) => InputSafe(free))
          /\ free.next_client # NULL => free.next_client \in Members(free)
          /\ \A p \in Path : ~Reads(free.dev, c, p)
      BY <1>9, <2>1, <3>1
    <3>3. next = SeatActivate(free, f)
      BY <2>1
    <3> HIDE DEF next
    <3>4. PartInv(next, {c}) /\ Queued(next) /\ (InputSafe(s) => InputSafe(next))
      BY <3>1, <3>2, <3>3, ActivateKeeps
    <3>5. SameMembers(free, next) /\ SafeStep(free.dev, next.dev)
      BY <3>1, <3>3, ActivateStep DEF GrantStep
    <3> QED
      BY <1>2, <1>8, <3>1, <3>2, <3>4, <3>5 DEF SameMembers, Members, SafeStep, NoNewInput
  <2>2. CASE s.active_client # c
    <3>1. next = gone /\ SameMembers(gone, gone) /\ gone.active_client = s.active_client
      BY <1>6, <1>7, <2>2 DEF SameMembers, QuietStep, SameHolder
    <3> HIDE DEF next
    <3>2. /\ PartInv(gone, {c}) /\ (InputSafe(s) => InputSafe(gone))
          /\ gone.next_client # NULL => gone.next_client \in Members(gone)
          /\ gone.active_client # NULL => Queued(gone)
          /\ \A p \in Path : ~Reads(gone.dev, c, p)
      BY <1>8, <1>9, <2>2, <3>1
    <3>3. Queued(gone)
      <4>1. gone.next_client # NULL => s.next_client # NULL
        BY <1>6, <1>7 DEF QuietStep, SameHolder
      <4> QED
        BY <3>1, <3>2, <4>1 DEF SeatInv, Queued
    <3> QED
      BY <1>8, <3>1, <3>2, <3>3
  <2> QED
    BY <2>1, <2>2
<1> HIDE DEF next, unused
<1>11. /\ PartInv(cleaned, {c}) /\ Queued(cleaned) /\ (InputSafe(s) => InputSafe(cleaned))
       /\ Members(cleaned) = Members(s) \ {c}
       /\ \A p \in Path : ~Reads(cleaned.dev, c, p)
  <2>1. next \in SeatState
    BY <1>10 DEF PartInv
  <2>2. VtStep(next, next)
    BY <2>1 DEF VtStep, SameMembers, SameHolder
  <2>3. VtStep(next, cleaned)
    BY <2>1, <2>2, VtCloseStep
  <2> HIDE DEF cleaned
  <2>4. QuietStep(next, cleaned)
    BY <2>1, <2>3, VtStepQuiet
  <2> QED
    BY <1>10, <2>3, <2>4, QuietKeeps DEF VtStep, SameMembers, Members
<1> HIDE DEF cleaned
<1>12. /\ r \in SeatState /\ SameMembers(cleaned, r) /\ r.dev = cleaned.dev /\ r.tty = cleaned.tty
       /\ r.active_client = cleaned.active_client /\ r.next_client = cleaned.next_client
       /\ r.state[c] = "CLOSED"
       /\ \A x \in Client : x # c => r.state[x] = cleaned.state[x]
  BY <1>2, <1>11 DEF PartInv, SeatState, ClientState, SameMembers
<1> HIDE DEF r
<1>13. Members(r) = Members(s) \ {c} /\ Members(cleaned) = Members(s) \ {c}
  BY <1>11, <1>12 DEF SameMembers, Members
<1>14. ExactBut(r, {}) /\ Listed(r, {})
  <2>1. cleaned.active_client # c
    BY <1>11 DEF PartInv, ExactBut
  <2>2. ExactBut(r, {})
    BY <1>11, <1>12, <1>13, <2>1 DEF PartInv, ExactBut
  <2>3. Listed(r, {})
    BY <1>2, <1>11, <1>12, <1>13 DEF PartInv, Listed, SameMembers
  <2> QED
    BY <2>2, <2>3
<1>15. PartInv(r, {})
  BY <1>11, <1>12, <1>13, <1>14 DEF PartInv, SameMembers
<1>16. Queued(r)
  <2>1. cleaned.active_client # c /\ cleaned.active_client \in Client \cup {NULL}
    BY <1>11 DEF PartInv, ExactBut, SeatState
  <2> QED
    BY <1>2, <1>11, <1>12, <1>13, <2>1 DEF Queued
<1>17. InputSafe(s) => InputSafe(r)
  BY <1>11, <1>12 DEF InputSafe
<1> QED
  BY <1>1, <1>11, <1>12, <1>13, <1>15, <1>16, <1>17 DEF Preserves, SeatInv

\* seat_set_next_session asks for a VT, or queues a member and starts taking
\* the seat from the active client.
LEMMA SetNextSessionPreserves ==
  ASSUME NEW s, NEW c \in Members(s), NEW n, NEW f, SeatInv(s), VtBound => n \in VT
  PROVE  Preserves(s, f, SeatSetNextSession(s, c, n, f))
<1> DEFINE target == FirstClient(s, {x \in Client : s.session[x] = n})
           x0 == CHOOSE x \in target : TRUE
           u == [s EXCEPT !.next_client = x0]
           refused == \/ s.state[c] # "ACTIVE"
                      \/ n = (IF VtBound THEN s.cur_vt ELSE s.session[c])
                      \/ s.pending_vt_switch > 0
                      \/ s.next_client # NULL
<1>1. s \in SeatState /\ c \in Client /\ Members(s) \subseteq Client
  BY MembersAreClients DEF SeatInv, PartInv
<1>2. Preserves(s, f, s)
  BY DEF Preserves
<1>3. CASE refused
  BY <1>2, <1>3 DEF SeatSetNextSession
<1>4. CASE ~refused /\ VtBound
  <2>1. SeatSetNextSession(s, c, n, f) = VtSwitch(s, n, f)
    BY <1>4 DEF SeatSetNextSession
  <2> QED
    BY <1>1, <1>4, <2>1, VtSwitchStep, VtStepPreserves
<1>5. CASE ~refused /\ ~VtBound /\ target = {}
  BY <1>2, <1>5 DEF SeatSetNextSession
<1>6. CASE ~refused /\ ~VtBound /\ target # {}
  <2>1. SeatSetNextSession(s, c, n, f) = SeatDisableClient(u, s.active_client, f)
    BY <1>6 DEF SeatSetNextSession
  <2>2. s.state[c] = "ACTIVE" /\ s.active_client = c
    BY <1>1, <1>6 DEF SeatInv, PartInv, ExactBut
  <2>3. x0 \in Members(s) /\ x0 \in Client /\ x0 # c
    <3>1. x0 \in target
      BY <1>6
    <3>2. target \subseteq {x \in Client : s.session[x] = n} \cap Members(s)
      BY <1>1, FirstClientIsMember
    <3> HIDE DEF target, x0
    <3> QED
      BY <1>6, <3>1, <3>2
  <2> HIDE DEF x0
  <2>4. /\ u \in SeatState /\ SameMembers(s, u) /\ u.state = s.state
        /\ u.active_client = s.active_client
        /\ u.next_client = x0 /\ u.dev = s.dev /\ u.tty = s.tty
    BY <1>1, <2>3 DEF SeatState, SameMembers
  <2> HIDE DEF u
  <2>5. Members(u) = Members(s)
    BY <2>4 DEF Members, SameMembers
  <2>6. PartInv(u, {})
    BY <2>4, <2>5 DEF SeatInv, PartInv, ExactBut, Listed, SameMembers
  <2>7. InputSafe(s) => InputSafe(u)
    BY <2>4 DEF InputSafe
  <2>8. Preserves(u, f, SeatDisableClient(u, c, f))
    BY <1>1, <1>6, <2>2, <2>3, <2>4, <2>5, <2>6, DisableKeeps
  <2> QED
    BY <2>1, <2>2, <2>7, <2>8 DEF Preserves
<1> QED
  BY <1>3, <1>4, <1>5, <1>6, VtBoundAssumption

\* seat_vt_activate and seat_get_active_vt touch VTs alone.
LEMMA VtActivatePreserves ==
  ASSUME NEW s, NEW f, SeatInv(s)
  PROVE  /\ Preserves(s, f, SeatVtActivate(s, f))
         /\ Preserves(s, f, SeatGetActiveVt(s, f))
<1> DEFINE u == SeatUpdateVt(s, f)
<1>1. s \in SeatState
  BY DEF SeatInv, PartInv
<1>2. VtStep(s, u)
  BY <1>1, UpdateVtStep
<1> HIDE DEF u
<1>3. VtStep(s, VtAck(u, f))
  BY <1>2, VtAckStep, VtStepTransitive DEF VtStep
<1>4. Preserves(s, f, s) /\ Preserves(s, f, u) /\ Preserves(s, f, VtAck(u, f))
  BY <1>2, <1>3, VtStepPreserves DEF Preserves
<1> QED
  BY <1>4 DEF SeatVtActivate, SeatGetActiveVt, u

\* seat_vt_release may drop DRM master before it acks.
LEMMA VtReleasePreserves ==
  ASSUME NEW s, NEW f, SeatInv(s)
  PROVE  Preserves(s, f, SeatVtRelease(s, f))
<1> DEFINE u == SeatUpdateVt(s, f)
           d == SeatDropClientDrmMaster(u.dev, u.active_client)
           w == IF KeepsDrmMaster(u) THEN u ELSE [u EXCEPT !.dev = d]
<1>1. s \in SeatState
  BY DEF SeatInv, PartInv
<1>2. u \in SeatState /\ QuietStep(s, u)
  BY <1>1, UpdateVtStep, VtStepQuiet DEF VtStep
<1>3. SeatVtRelease(s, f) = IF VtBound THEN VtAck(w, f) ELSE s
  BY DEF SeatVtRelease
<1> HIDE DEF u
<1>4. QuietStep(u, u)
  BY <1>2, VtStepQuiet DEF VtStep, SameMembers, SameHolder
<1>5. ~KeepsDrmMaster(u) => u.active_client \in Client /\ u.dev \in DeviceState
  BY <1>2 DEF KeepsDrmMaster, SeatState
<1>6. ~KeepsDrmMaster(u) => SafeStep(u.dev, d)
  BY <1>5, DeactivateSafe DEF SeatDropClientDrmMaster
<1> HIDE DEF d
<1>7. QuietStep(u, w)
  BY <1>2, <1>4, <1>6, DevStep DEF QuietStep
<1> HIDE DEF w
<1>8. QuietStep(w, VtAck(w, f))
  BY <1>7, VtAckStep, VtStepQuiet DEF QuietStep
<1>9. QuietStep(s, VtAck(w, f))
  BY <1>2, <1>7, <1>8, QuietTransitive
<1> QED
  BY <1>3, <1>9, QuietPreserves DEF Preserves

\* seat_switch_vt touches VTs alone.
LEMMA SwitchVtPreserves ==
  ASSUME NEW s, NEW v \in VT, NEW f, SeatInv(s)
  PROVE  Preserves(s, f, SeatSwitchVt(s, v, f))
<1> DEFINE u == SeatUpdateVt(s, f)
<1>1. s \in SeatState
  BY DEF SeatInv, PartInv
<1>2. VtStep(s, u)
  BY <1>1, UpdateVtStep
<1>3. \/ SeatSwitchVt(s, v, f) = s
      \/ SeatSwitchVt(s, v, f) = u
      \/ SeatSwitchVt(s, v, f) = VtSwitch(u, v, f)
  BY DEF SeatSwitchVt
<1> HIDE DEF u
<1>4. VtStep(s, VtSwitch(u, v, f))
  BY <1>2, VtSwitchStep, VtStepTransitive DEF VtStep
<1>5. Preserves(s, f, s) /\ Preserves(s, f, u) /\ Preserves(s, f, VtSwitch(u, v, f))
  BY <1>2, <1>4, VtStepPreserves DEF Preserves
<1> QED
  BY <1>3, <1>5

\* Giving group VT v to o, a member or nobody, keeps the owners in order.
LEMMA SetOwnerPreserves ==
  ASSUME NEW s, NEW u, NEW v \in VT, NEW o \in Members(s) \cup {NULL}, NEW f,
         SeatInv(s), VtStep(s, u)
  PROVE  Preserves(s, f, [u EXCEPT !.group_vts[v] = o])
<1> DEFINE r == [u EXCEPT !.group_vts[v] = o]
<1>1. Preserves(s, f, u) /\ Members(u) = Members(s) /\ u \in SeatState
  BY VtStepPreserves DEF VtStep, SameMembers, Members
<1>2. o \in Client \cup {NULL}
  BY <1>1, MembersAreClients
<1>3. /\ r \in SeatState /\ r.clients = u.clients /\ r.session = u.session
      /\ SameHolder(u, r) /\ r.dev = u.dev /\ r.tty = u.tty
      /\ \A w \in VT : r.group_vts[w] = IF w = v THEN o ELSE u.group_vts[w]
  BY <1>1, <1>2 DEF SeatState, SameHolder
<1> HIDE DEF r
<1>4. Members(r) = Members(u)
  BY <1>3 DEF Members
<1>5. ExactBut(r, {}) /\ Listed(r, {})
  BY <1>1, <1>3, <1>4 DEF Preserves, SeatInv, PartInv, ExactBut, Listed, SameHolder
<1>6. PartInv(r, {})
  BY <1>1, <1>3, <1>4, <1>5 DEF Preserves, SeatInv, PartInv
<1>7. Queued(r) /\ (InputSafe(u) => InputSafe(r))
  BY <1>1, <1>3, <1>4 DEF Preserves, SeatInv, Queued, SameHolder, InputSafe
<1> QED
  BY <1>1, <1>6, <1>7 DEF Preserves, SeatInv, r

\* Group VTs are created for members and destroyed.
LEMMA GroupVtPreserves ==
  ASSUME NEW s, NEW v \in VT, NEW f, SeatInv(s)
  PROVE  /\ \A c \in Members(s) : Preserves(s, f, SeatCreateGroupVt(s, c, v, f))
         /\ Preserves(s, f, SeatDestroyGroupVt(s, v, f))
<1>1. s \in SeatState /\ Preserves(s, f, s)
  BY DEF SeatInv, PartInv, Preserves
<1>2. VtStep(s, VtOpen(s, v)) /\ VtStep(s, s) /\ VtStep(s, VtClose(s, {v}, f))
  BY <1>1, VtOpenStep, VtCloseStep DEF VtStep, SameMembers, SameHolder
<1>3. ASSUME NEW c \in Members(s) PROVE Preserves(s, f, SeatCreateGroupVt(s, c, v, f))
  <2>1. Preserves(s, f, [VtOpen(s, v) EXCEPT !.group_vts[v] = c])
    BY <1>2, SetOwnerPreserves
  <2> QED
    BY <1>1, <2>1 DEF SeatCreateGroupVt
<1>4. Preserves(s, f, SeatDestroyGroupVt(s, v, f))
  <2> DEFINE u == IF VtBound THEN VtClose(s, {v}, f) ELSE s
  <2>1. VtStep(s, u)
    BY <1>2
  <2>2. SeatDestroyGroupVt(s, v, f) =
          IF s.group_vts[v] = NULL THEN s ELSE [u EXCEPT !.group_vts[v] = NULL]
    BY DEF SeatDestroyGroupVt
  <2> HIDE DEF u
  <2>3. Preserves(s, f, [u EXCEPT !.group_vts[v] = NULL])
    BY <2>1, SetOwnerPreserves
  <2> QED
    BY <1>1, <2>2, <2>3
<1> QED
  BY <1>3, <1>4

\* seat_handle_vt_event passes a free seat on, gives the active client its DRM
\* master back, or starts taking the seat from it.
LEMMA HandleVtEventPreserves ==
  ASSUME NEW s, NEW v \in VT, NEW f, SeatInv(s)
  PROVE  Preserves(s, f, SeatHandleVtEvent(s, v, f))
<1> DEFINE u == [s EXCEPT !.pending_vt_switch = 0, !.cur_vt = v]
           a == s.active_client
           d == SeatRestoreClientDrmMaster(u.dev, a)
<1>1. s \in SeatState
  BY DEF SeatInv, PartInv
<1>2. /\ u \in SeatState /\ VtStep(s, u) /\ u.active_client = a /\ u.state = s.state
      /\ u.next_client = s.next_client
  BY <1>1 DEF SeatState, VtStep, SameMembers, SameHolder
<1>3. \/ a = NULL /\ SeatHandleVtEvent(s, v, f) = SeatActivate(u, f)
      \/ a # NULL /\ SeatHandleVtEvent(s, v, f) = [u EXCEPT !.dev = d]
      \/ a # NULL /\ s.state[a] = "ACTIVE" /\ SeatHandleVtEvent(s, v, f) = SeatDisableClient(u, a, f)
      \/ SeatHandleVtEvent(s, v, f) = u
  BY DEF SeatHandleVtEvent
<1> HIDE DEF u
<1>4. SeatInv(u) /\ (InputSafe(s) => InputSafe(u))
  <2>1. QuietStep(s, u)
    BY <1>1, <1>2, VtStepQuiet
  <2> QED
    BY <2>1, QuietKeeps DEF SeatInv
<1>5. ASSUME a = NULL PROVE Preserves(s, f, SeatActivate(u, f))
  <2>1. PartInv(u, {}) /\ Queued(u) /\ (u.next_client # NULL => u.next_client \in Members(u))
    BY <1>4 DEF SeatInv, Queued
  <2> QED
    BY <1>4, <2>1, ActivateKeeps DEF Preserves, SeatInv
<1>6. ASSUME a # NULL PROVE Preserves(s, f, [u EXCEPT !.dev = d])
  <2>1. a \in Client /\ u.dev \in DeviceState
    BY <1>1, <1>2, <1>6 DEF SeatState
  <2>2. SafeStep(u.dev, d)
    BY <2>1, ActivateSafe DEF SeatRestoreClientDrmMaster
  <2> HIDE DEF d
  <2>3. QuietStep(u, [u EXCEPT !.dev = d])
    BY <1>2, <2>2, DevStep DEF QuietStep
  <2> QED
    BY <1>4, <2>3, QuietPreserves DEF Preserves
<1>7. ASSUME a # NULL, s.state[a] = "ACTIVE" PROVE Preserves(s, f, SeatDisableClient(u, a, f))
  <2>1. a \in Client /\ PartInv(u, {}) /\ u.state[a] = "ACTIVE" /\ u.next_client = NULL
    BY <1>1, <1>2, <1>4, <1>7 DEF SeatState, SeatInv, Queued
  <2> HIDE DEF a
  <2> QED
    BY <1>4, <2>1, DisableKeeps DEF Preserves
<1> QED
  BY <1>3, <1>4, <1>5, <1>6, <1>7 DEF Preserves
-----------------------------------------------------------------------------
(***************************************************************************)
(* What the functions of seat.c leave alone: the VT the seat believes to   *)
(* be on, the traffic between the kernel, the event thread and the seat,   *)
(* and the sessions of the members.                                        *)
(***************************************************************************)
SeatFields == {"clients", "state", "session", "active_client", "next_client", "cur_vt",
               "pending_vt_switch", "group_vts", "dev", "tty"}
ConsoleFields == {"fg", "want", "newvt", "proc", "gfx", "sig", "ev", "thread", "missed", "pipe"}

\* s has the fields of a seat, whatever is in its device table.
Formed(s) ==
  /\ DOMAIN s = SeatFields /\ DOMAIN s.tty = ConsoleFields
  /\ DOMAIN s.state = Client /\ DOMAIN s.session = Client /\ DOMAIN s.group_vts = VT
  /\ s.cur_vt \in VT \cup {-1}

\* Nobody switched or told the seat anything between consoles t and u.
SameTraffic(t, u) ==
  /\ DOMAIN u = ConsoleFields
  /\ u.fg = t.fg /\ u.ev = t.ev /\ u.missed = t.missed /\ u.pipe = t.pipe

\* The step from s to r leaves all of this alone; members may leave.
Still(s, r) ==
  /\ Formed(r) /\ r.cur_vt = s.cur_vt /\ SameTraffic(s.tty, r.tty)
  /\ Members(r) \subseteq Members(s)
  /\ \A x \in Members(r) : r.session[x] = s.session[x]

\* On a VT-bound seat, whoever has the seat in r had it in s and owns what it
\* owned, or owns the VT the seat believes to be on.
Fronts(s, r) ==
  VtBound /\ s.next_client = NULL =>
    /\ r.next_client = NULL
    /\ \A x \in Client : r.state[x] = "ACTIVE" =>
         \/ s.state[x] = "ACTIVE" /\ \A v \in VT : ClientOwnsVt(s, x, v) => ClientOwnsVt(r, x, v)
         \/ r.cur_vt # -1 /\ ClientOwnsVt(r, x, r.cur_vt)

\* A step that does both.
Calm(s, r) == Still(s, r) /\ Fronts(s, r)

\* A well-formed seat has the fields.
LEMMA StateIsFormed ==
  ASSUME NEW s \in SeatState
  PROVE  Formed(s)
<1>1. s.tty \in Console
  BY DEF SeatState
<1>2. DOMAIN s.tty = ConsoleFields
  BY <1>1 DEF Console, ConsoleFields
<1> QED
  BY <1>2 DEF SeatState, Formed, SeatFields

\* Doing nothing is calm.
LEMMA CalmReflexive ==
  ASSUME NEW s, Formed(s)
  PROVE  Calm(s, s)
BY DEF Calm, Still, Fronts, SameTraffic, Formed

\* Calm steps compose.
LEMMA CalmTransitive ==
  ASSUME NEW s, NEW r, NEW u, Formed(s)
  PROVE  /\ Still(s, r) /\ Still(r, u) => Still(s, u)
         /\ Calm(s, r) /\ Calm(r, u) => Calm(s, u)
<1>1. ASSUME Still(s, r), Still(r, u) PROVE Still(s, u)
  BY <1>1 DEF Still, SameTraffic
<1>2. ASSUME Calm(s, r), Calm(r, u) PROVE Fronts(s, u)
  <2> SUFFICES ASSUME VtBound, s.next_client = NULL PROVE Fronts(s, u)
    BY DEF Fronts
  <2>1. r.next_client = NULL /\ u.next_client = NULL /\ u.cur_vt = r.cur_vt
        /\ r.cur_vt \in VT \cup {-1}
    BY <1>2 DEF Calm, Fronts, Still, Formed
  <2> SUFFICES ASSUME NEW x \in Client, u.state[x] = "ACTIVE"
               PROVE  \/ s.state[x] = "ACTIVE"
                           /\ \A v \in VT : ClientOwnsVt(s, x, v) => ClientOwnsVt(u, x, v)
                      \/ u.cur_vt # -1 /\ ClientOwnsVt(u, x, u.cur_vt)
    BY <2>1 DEF Fronts
  <2>2. r.state[x] = "ACTIVE" =>
          \/ s.state[x] = "ACTIVE" /\ \A v \in VT : ClientOwnsVt(s, x, v) => ClientOwnsVt(r, x, v)
          \/ r.cur_vt # -1 /\ ClientOwnsVt(r, x, r.cur_vt)
    BY <1>2 DEF Calm, Fronts
  <2>3. u.state[x] = "ACTIVE" =>
          \/ r.state[x] = "ACTIVE" /\ \A v \in VT : ClientOwnsVt(r, x, v) => ClientOwnsVt(u, x, v)
          \/ u.cur_vt # -1 /\ ClientOwnsVt(u, x, u.cur_vt)
    BY <1>2, <2>1 DEF Calm, Fronts
  <2> QED
    BY <2>1, <2>2, <2>3
<1> QED
  BY <1>1, <1>2 DEF Calm

\* The step from s to r touches the devices, the modes of the VTs and the
\* requests for a switch alone.
Modest(s, r) ==
  /\ Formed(r) /\ SameMembers(s, r) /\ SameHolder(s, r) /\ r.cur_vt = s.cur_vt
  /\ SameTraffic(s.tty, r.tty)

\* Such a step is calm, and such steps compose.
LEMMA ModestIsCalm ==
  ASSUME NEW s, NEW r, Modest(s, r)
  PROVE  Calm(s, r) /\ \A u : Modest(r, u) => Modest(s, u)
<1>1. Still(s, r)
  BY DEF Modest, SameMembers, Still, Members
<1>2. Fronts(s, r)
  BY DEF Modest, SameMembers, SameHolder, Fronts, ClientOwnsVt
<1>3. \A u : Modest(r, u) => Modest(s, u)
  BY DEF Modest, SameMembers, SameHolder, SameTraffic
<1> QED
  BY <1>1, <1>2, <1>3 DEF Calm

\* Replacing the console by one with the same traffic, the device table or the
\* requested VT.
LEMMA ModestChanges ==
  ASSUME NEW s, Formed(s), NEW t, NEW d, NEW v
  PROVE  /\ Modest(s, s)
         /\ Modest(s, [s EXCEPT !.dev = d])
         /\ SameTraffic(s.tty, t) => /\ Modest(s, [s EXCEPT !.tty = t])
                                     /\ Modest(s, [s EXCEPT !.tty = t, !.pending_vt_switch = v])
<1> DEFINE Like(r) == /\ DOMAIN r = SeatFields /\ SameMembers(s, r) /\ SameHolder(s, r)
                      /\ r.cur_vt = s.cur_vt
<1>1. /\ Like(s) /\ Like([s EXCEPT !.dev = d]) /\ Like([s EXCEPT !.tty = t])
      /\ Like([s EXCEPT !.tty = t, !.pending_vt_switch = v])
  BY DEF Formed, SeatFields, SameMembers, SameHolder
<1>2. /\ [s EXCEPT !.dev = d].tty = s.tty /\ [s EXCEPT !.tty = t].tty = t
      /\ [s EXCEPT !.tty = t, !.pending_vt_switch = v].tty = t
  BY DEF Formed, SeatFields
<1>3. SameTraffic(s.tty, s.tty)
  BY DEF Formed, SameTraffic
<1>4. ASSUME NEW r, Like(r), SameTraffic(s.tty, r.tty) PROVE Modest(s, r)
  BY <1>4 DEF Modest, Formed, SameMembers, SameHolder, SameTraffic
<1> HIDE DEF Like
<1> QED
  BY <1>1, <1>2, <1>3, <1>4

\* The modes of a VT and a requested switch are not traffic.
LEMMA ModesAreNoTraffic ==
  ASSUME NEW t, DOMAIN t = ConsoleFields, NEW V, NEW b, NEW v
  PROVE  /\ SameTraffic(t, TerminalSetProcessSwitching(t, V, b))
         /\ SameTraffic(t, TerminalSetGraphics(t, V, b))
         /\ SameTraffic(t, TerminalSwitchVt(t, v))
BY DEF SameTraffic, ConsoleFields, TerminalSetProcessSwitching, TerminalSetGraphics, TerminalSwitchVt

\* vt_open, vt_close and vt_switch do no more than that.
LEMMA VtModest ==
  ASSUME NEW s, Formed(s), NEW v, NEW V, NEW f
  PROVE  Modest(s, VtOpen(s, v)) /\ Modest(s, VtClose(s, V, f)) /\ Modest(s, VtSwitch(s, v, f))
<1>1. DOMAIN s.tty = ConsoleFields
  BY DEF Formed
<1>2. ASSUME NEW W, NEW b
      PROVE  LET p == TerminalSetProcessSwitching(s.tty, W, b)
             IN  SameTraffic(s.tty, TerminalSetGraphics(p, W, b))
                 /\ SameTraffic(s.tty, p) /\ SameTraffic(s.tty, TerminalSwitchVt(p, v))
  <2> DEFINE p == TerminalSetProcessSwitching(s.tty, W, b)
  <2>1. SameTraffic(s.tty, p)
    BY <1>1, ModesAreNoTraffic
  <2> HIDE DEF p
  <2>2. SameTraffic(p, TerminalSetGraphics(p, W, b)) /\ SameTraffic(p, TerminalSwitchVt(p, v))
    <3>1. DOMAIN p = ConsoleFields
      BY <2>1 DEF SameTraffic
    <3>2. SameTraffic(p, TerminalSetGraphics(p, W, b))
      BY <3>1, ModesAreNoTraffic
    <3>3. SameTraffic(p, TerminalSwitchVt(p, v))
      BY <3>1, ModesAreNoTraffic
    <3> QED
      BY <3>2, <3>3
  <2>3. SameTraffic(s.tty, TerminalSetGraphics(p, W, b)) /\ SameTraffic(s.tty, TerminalSwitchVt(p, v))
    BY <2>1, <2>2 DEF SameTraffic
  <2> QED
    BY <2>1, <2>3 DEF p
<1>3. Modest(s, VtOpen(s, v))
  BY <1>2, ModestChanges DEF VtOpen
<1>4. Modest(s, VtClose(s, V, f))
  BY <1>2, ModestChanges DEF VtClose
<1>5. Modest(s, VtSwitch(s, v, f))
  BY <1>2, ModestChanges DEF VtSwitch
<1> QED
  BY <1>3, <1>4, <1>5

\* seat_open_client is still, and calm if the client owns the VT the seat
\* believes to be on.
LEMMA OpenClientCalm ==
  ASSUME NEW s, Formed(s), NEW c \in Client, NEW f
  PROVE  LET r == SeatOpenClient(s, c, f)
         IN  /\ Still(s, r) /\ SameMembers(s, r)
             /\ s.cur_vt # -1 /\ ClientOwnsVt(s, c, s.cur_vt) => Calm(s, r)
<1> DEFINE v == VtForClientOpen(s, c)
           vt == IF VtBound THEN VtOpen(s, v) ELSE s
           opened == [vt EXCEPT !.dev = SeatActivateDevices(@, c)]
           undone == [opened EXCEPT !.dev = SeatDeactivateDevices(@, c, Path, f)]
           closed == IF VtBound THEN VtClose(undone, {v}, f) ELSE undone
           given == [opened EXCEPT !.state[c] = "ACTIVE", !.active_client = c]
           r == SeatOpenClient(s, c, f)
<1>1. r \in {s, closed, given}
  BY DEF SeatOpenClient
<1> HIDE DEF r
<1>2. Modest(s, vt)
  BY VtModest, ModestChanges
<1> HIDE DEF vt, v
<1>3. Modest(s, opened)
  BY <1>2, ModestChanges, ModestIsCalm DEF Modest
<1> HIDE DEF opened
<1>4. Modest(s, undone)
  BY <1>3, ModestChanges, ModestIsCalm DEF Modest
<1> HIDE DEF undone
<1>5. Modest(s, closed)
  BY <1>4, VtModest, ModestIsCalm DEF Modest
<1> HIDE DEF closed
<1>6. /\ Formed(given) /\ SameMembers(opened, given) /\ given.cur_vt = opened.cur_vt
      /\ given.next_client = opened.next_client /\ given.tty = opened.tty
      /\ \A x \in Client : x # c => given.state[x] = opened.state[x]
  <2> DEFINE w == [opened.state EXCEPT ![c] = "ACTIVE"]
  <2>1. DOMAIN w = Client /\ \A x \in Client : x # c => w[x] = opened.state[x]
    BY <1>3 DEF Modest, Formed
  <2>2. given = [opened EXCEPT !.state = w, !.active_client = c]
    OBVIOUS
  <2> HIDE DEF w
  <2> QED
    BY <1>3, <2>1, <2>2 DEF Modest, Formed, SameMembers, SeatFields
<1> HIDE DEF given
<1>7. Still(s, given) /\ SameMembers(s, given)
  BY <1>3, <1>6 DEF Modest, SameMembers, Still, Members, SameTraffic
<1>8. ASSUME s.cur_vt # -1, ClientOwnsVt(s, c, s.cur_vt) PROVE Fronts(s, given)
  <2>1. ClientOwnsVt(given, c, given.cur_vt) /\ given.cur_vt # -1
        /\ given.next_client = s.next_client
    BY <1>3, <1>6, <1>8 DEF Modest, SameMembers, SameHolder, ClientOwnsVt
  <2>2. \A x \in Client : \A w \in VT : ClientOwnsVt(s, x, w) => ClientOwnsVt(given, x, w)
    BY <1>7 DEF SameMembers, ClientOwnsVt
  <2>3. \A x \in Client : x # c => given.state[x] = s.state[x]
    BY <1>3, <1>6 DEF Modest, SameHolder
  <2> QED
    BY <2>1, <2>2, <2>3 DEF Fronts
<1>9. Calm(s, s) /\ Calm(s, closed) /\ SameMembers(s, closed) /\ SameMembers(s, s)
  BY <1>5, CalmReflexive, ModestIsCalm DEF Modest, SameMembers
<1> QED
  BY <1>1, <1>7, <1>8, <1>9 DEF Calm, r

\* Taking the seat from a client is calm.
LEMMA StateCalm ==
  ASSUME NEW s, Formed(s), NEW c \in Client, NEW st, st # "ACTIVE", NEW d
  PROVE  /\ Calm(s, [s EXCEPT !.state[c] = st])
         /\ Calm(s, [s EXCEPT !.dev = d, !.state[c] = st])
<1> DEFINE w == [s.state EXCEPT ![c] = st]
           Like(r) == /\ DOMAIN r = SeatFields /\ r.tty = s.tty /\ r.cur_vt = s.cur_vt
                      /\ r.next_client = s.next_client
                      /\ SameMembers(s, r) /\ r.state = w
<1>1. DOMAIN w = Client /\ w[c] = st /\ \A x \in Client : x # c => w[x] = s.state[x]
  BY DEF Formed
<1>2. ASSUME NEW z, z = w
      PROVE  Like([s EXCEPT !.state = z]) /\ Like([s EXCEPT !.dev = d, !.state = z])
  <2> HIDE DEF w
  <2> QED
    BY <1>2 DEF Formed, SeatFields, SameMembers
<1>3. ASSUME NEW r, Like(r) PROVE Calm(s, r)
  <2> HIDE DEF w
  <2>1. Formed(r) /\ \A x \in Client : r.state[x] = "ACTIVE" => s.state[x] = "ACTIVE"
    BY <1>1, <1>3 DEF Formed, SameMembers
  <2>2. Still(s, r)
    BY <1>3, <2>1 DEF Still, SameTraffic, SameMembers, Members, Formed
  <2>3. Fronts(s, r)
    BY <1>3, <2>1 DEF Fronts, SameMembers, ClientOwnsVt
  <2> QED
    BY <2>2, <2>3 DEF Calm
<1> HIDE DEF Like
<1> QED
  BY <1>2, <1>3

\* Forgetting the active client is calm.
LEMMA FreeCalm ==
  ASSUME NEW s, Formed(s)
  PROVE  LET r == [s EXCEPT !.active_client = NULL]
         IN  Calm(s, r) /\ r.next_client = s.next_client
<1> DEFINE r == [s EXCEPT !.active_client = NULL]
<1>1. /\ Formed(r) /\ r.tty = s.tty /\ r.cur_vt = s.cur_vt /\ r.next_client = s.next_client
      /\ SameMembers(s, r) /\ r.state = s.state
  BY DEF Formed, SeatFields, SameMembers
<1> HIDE DEF r
<1>2. Still(s, r)
  BY <1>1 DEF Still, SameTraffic, SameMembers, Members, Formed
<1>3. Fronts(s, r)
  BY <1>1 DEF Fronts, SameMembers, ClientOwnsVt
<1> QED
  BY <1>1, <1>2, <1>3 DEF Calm, r

\* seat_activate is calm: the candidate owns the VT the seat believes to be on.
LEMMA ActivateCalm ==
  ASSUME NEW s, Formed(s), s.next_client \in Client \cup {NULL}, NEW f
  PROVE  LET r == SeatActivate(s, f)
         IN  Calm(s, r) /\ SameMembers(s, r)
<1> DEFINE r == SeatActivate(s, f)
<1>1. CASE s.active_client # NULL
  <2>1. r = s
    BY <1>1 DEF SeatActivate
  <2> HIDE DEF r
  <2> QED
    BY <2>1, CalmReflexive DEF SameMembers, r
<1>2. CASE s.active_client = NULL /\ s.next_client # NULL
  <2> DEFINE u == [s EXCEPT !.next_client = NULL]
             q == s.next_client
  <2>1. q \in Client /\ r = SeatOpenClient(u, q, f)
    BY <1>2 DEF SeatActivate
  <2>2. Still(s, u) /\ SameMembers(s, u)
    BY DEF Formed, SeatFields, Still, SameTraffic, SameMembers, Members
  <2> HIDE DEF r, u, q
  <2>3. Still(u, r) /\ SameMembers(u, r)
    BY <2>1, <2>2, OpenClientCalm DEF Still
  <2>4. Still(s, r) /\ SameMembers(s, r)
    BY <2>2, <2>3, CalmTransitive DEF SameMembers
  <2> QED
    BY <1>2, <2>4 DEF Calm, Fronts, r
<1>3. CASE s.active_client = NULL /\ s.next_client = NULL
  <2>1. CASE Candidate(s) = {}
    <3>1. r = s
      BY <1>3, <2>1 DEF SeatActivate
    <3> HIDE DEF r
    <3> QED
      BY <3>1, CalmReflexive DEF SameMembers, r
  <2>2. CASE Candidate(s) # {}
    <3> DEFINE q == CHOOSE c \in Candidate(s) : TRUE
    <3>1. q \in Candidate(s) /\ r = SeatOpenClient(s, q, f)
      BY <1>3, <2>2 DEF SeatActivate
    <3> HIDE DEF q, r
    <3>2. q \in Client /\ (VtBound => s.cur_vt # -1 /\ ClientOwnsVt(s, q, s.cur_vt))
      BY <3>1 DEF Candidate, FirstClient
    <3>3. Still(s, r) /\ SameMembers(s, r) /\ (VtBound => Calm(s, r))
      BY <3>1, <3>2, OpenClientCalm
    <3> QED
      BY <3>3 DEF Calm, Fronts, r
  <2> QED
    BY <2>1, <2>2
<1> QED
  BY <1>1, <1>2, <1>3

\* seat_ack_disable_client is calm.
LEMMA AckDisableCalm ==
  ASSUME NEW s, Formed(s), s.next_client \in Client \cup {NULL}, NEW c \in Client, NEW f
  PROVE  Calm(s, SeatAckDisableClient(s, c, f))
<1> DEFINE u == [s EXCEPT !.state[c] = "DISABLED"]
           w == [u EXCEPT !.active_client = NULL]
<1>1. SeatAckDisableClient(s, c, f) \in {s, u, SeatActivate(w, f)}
  BY DEF SeatAckDisableClient
<1>2. Calm(s, u) /\ u.next_client = s.next_client
  BY StateCalm DEF Formed, SeatFields
<1> HIDE DEF u
<1>3. Calm(u, w) /\ w.next_client = u.next_client
  BY <1>2, FreeCalm DEF Calm, Still
<1> HIDE DEF w
<1>4. Calm(w, SeatActivate(w, f))
  <2>1. Formed(w) /\ w.next_client \in Client \cup {NULL}
    BY <1>2, <1>3 DEF Calm, Still
  <2> QED
    BY <2>1, ActivateCalm
<1>5. Calm(s, w)
  BY <1>2, <1>3, CalmTransitive
<1>6. Calm(s, SeatActivate(w, f))
  BY <1>4, <1>5, CalmTransitive
<1> QED
  BY <1>1, <1>2, <1>6, CalmReflexive

\* seat_set_next_session is calm.
LEMMA SetNextSessionCalm ==
  ASSUME NEW s, SeatInv(s), NEW c \in Client, NEW n, NEW f
  PROVE  Calm(s, SeatSetNextSession(s, c, n, f))
<1> DEFINE target == FirstClient(s, {x \in Client : s.session[x] = n})
           q == CHOOSE x \in target : TRUE
           a == s.active_client
           u == [s EXCEPT !.next_client = q]
           r == SeatSetNextSession(s, c, n, f)
<1>1. s \in SeatState /\ Formed(s)
  BY StateIsFormed DEF SeatInv, PartInv
<1>2. CASE r = s
  BY <1>1, <1>2, CalmReflexive
<1>3. CASE r = VtSwitch(s, n, f)
  BY <1>1, <1>3, VtModest, ModestIsCalm
<1>4. CASE ~VtBound /\ r = SeatDisableClient(u, a, f) /\ s.state[c] = "ACTIVE"
  <2>1. a = c
    BY <1>4 DEF SeatInv, PartInv, ExactBut
  <2>2. Still(s, u)
    BY <1>1 DEF Formed, SeatFields, Still, SameTraffic, SameMembers, Members
  <2> HIDE DEF u, a
  <2>3. Still(u, SeatDisableClient(u, c, f))
    <3>1. Formed(u) /\ "PENDING_DISABLE" # "ACTIVE"
      BY <2>2 DEF Still
    <3>2. Calm(u, SeatDisableClient(u, c, f))
      BY <3>1, StateCalm DEF SeatDisableClient
    <3> QED
      BY <3>2 DEF Calm
  <2>4. Still(s, r)
    BY <1>1, <1>4, <2>1, <2>2, <2>3, CalmTransitive
  <2> QED
    BY <1>4, <2>4 DEF Calm, Fronts
<1>5. \/ r = s \/ r = VtSwitch(s, n, f)
      \/ ~VtBound /\ r = SeatDisableClient(u, a, f) /\ s.state[c] = "ACTIVE"
  BY DEF SeatSetNextSession
<1> QED
  BY <1>2, <1>3, <1>4, <1>5

\* seat_remove_client is calm.
LEMMA RemoveClientCalm ==
  ASSUME NEW s, NEW c \in Members(s), NEW f, SeatInv(s)
  PROVE  Calm(s, SeatRemoveClient(s, c, f))
<1> DEFINE owned == {v \in VT : s.group_vts[v] = c}
           d == SeatCloseAllDevices(s.dev, c, f)
           q == RemoveAt(s.clients, IndexIn(s.clients, c))
           g == [v \in VT |-> IF v \in owned THEN NULL ELSE s.group_vts[v]]
           unlinked == [s EXCEPT !.next_client = IF @ = c THEN NULL ELSE @, !.clients = q,
                                 !.dev = d, !.group_vts = g]
           gone == IF VtBound THEN VtClose(unlinked, owned, f) ELSE unlinked
           free == [gone EXCEPT !.active_client = NULL]
           next == IF s.active_client = c THEN SeatActivate(free, f) ELSE gone
           unused == IF s.active_client = c THEN next.active_client = NULL
                                            ELSE s.state[c] # "CLOSED"
           cleaned == IF VtBound /\ unused THEN VtClose(next, {s.session[c]}, f) ELSE next
           r == [cleaned EXCEPT !.state[c] = "CLOSED"]
           Left(u) == /\ Still(s, u)
                      /\ VtBound /\ s.next_client = NULL =>
                           /\ u.next_client = NULL
                           /\ \A x \in Client \ {c} : u.state[x] = "ACTIVE" =>
                                \/ /\ s.state[x] = "ACTIVE"
                                   /\ \A v \in VT : ClientOwnsVt(s, x, v) => ClientOwnsVt(u, x, v)
                                \/ u.cur_vt # -1 /\ ClientOwnsVt(u, x, u.cur_vt)
<1>1. SeatRemoveClient(s, c, f) = r
  BY DEF SeatRemoveClient
<1>2. /\ s \in SeatState /\ Formed(s) /\ Members(s) \subseteq Client /\ c \in Client
      /\ s.clients \in Seq(Client) /\ s.next_client \in Client \cup {NULL}
  BY MembersAreClients, StateIsFormed DEF SeatInv, PartInv, SeatState
<1>3. Range(q) = Members(s) \ {c}
  BY <1>2, MembersRange, RemoveAtFacts DEF SeatInv, PartInv, Listed
<1>4. DOMAIN g = VT /\ \A v \in VT : s.group_vts[v] # c => g[v] = s.group_vts[v]
  OBVIOUS
<1> HIDE DEF d, q, g, owned
<1>5. /\ Formed(unlinked) /\ unlinked.cur_vt = s.cur_vt /\ unlinked.tty = s.tty
      /\ unlinked.session = s.session /\ unlinked.state = s.state
      /\ unlinked.next_client \in {NULL, s.next_client} /\ unlinked.clients = q
      /\ unlinked.group_vts = g
  BY <1>2, <1>4 DEF Formed, SeatFields
<1> HIDE DEF unlinked
<1>6. Left(unlinked)
  <2>1. Members(unlinked) = Range(q)
    BY <1>5 DEF Members, Range
  <2>2. Still(s, unlinked)
    BY <1>2, <1>3, <1>5, <2>1 DEF Still, SameTraffic, Formed
  <2>3. \A x \in Client \ {c}, v \in VT : ClientOwnsVt(s, x, v) => ClientOwnsVt(unlinked, x, v)
    BY <1>4, <1>5 DEF ClientOwnsVt
  <2> QED
    BY <1>5, <2>2, <2>3
<1>7. ASSUME NEW u, NEW w, Left(u), Calm(u, w) PROVE Left(w)
  <2>1. Still(s, w) /\ w.cur_vt = u.cur_vt /\ u.cur_vt \in VT \cup {-1}
    BY <1>2, <1>7, CalmTransitive DEF Calm, Still, Formed
  <2>2. ASSUME VtBound, s.next_client = NULL, NEW x \in Client \ {c}, w.state[x] = "ACTIVE",
               ~(w.cur_vt # -1 /\ ClientOwnsVt(w, x, w.cur_vt))
        PROVE  /\ s.state[x] = "ACTIVE"
               /\ \A v \in VT : ClientOwnsVt(s, x, v) => ClientOwnsVt(w, x, v)
    <3>1. u.state[x] = "ACTIVE" /\ \A v \in VT : ClientOwnsVt(u, x, v) => ClientOwnsVt(w, x, v)
      BY <1>7, <2>2 DEF Calm, Fronts
    <3>2. ~(u.cur_vt # -1 /\ ClientOwnsVt(u, x, u.cur_vt))
      BY <2>1, <2>2, <3>1
    <3> QED
      BY <1>7, <2>2, <3>1, <3>2
  <2>3. VtBound /\ s.next_client = NULL => w.next_client = NULL
    BY <1>7 DEF Calm, Fronts
  <2> QED
    BY <2>1, <2>2, <2>3
<1>8. /\ Left(gone) /\ Formed(gone) /\ gone.next_client \in Client \cup {NULL}
  <2>1. Modest(unlinked, gone)
    BY <1>5, VtModest, ModestChanges
  <2> HIDE DEF gone, Left
  <2> QED
    BY <1>2, <1>5, <1>6, <1>7, <2>1, ModestIsCalm DEF Modest, SameHolder
<1> HIDE DEF gone
<1>9. Left(next) /\ Formed(next)
  <2>1. Calm(gone, free) /\ free.next_client = gone.next_client
    BY <1>8, FreeCalm
  <2> HIDE DEF free
  <2>2. Calm(free, SeatActivate(free, f))
    <3>1. Formed(free) /\ free.next_client \in Client \cup {NULL}
      BY <1>8, <2>1 DEF Calm, Still
    <3> QED
      BY <3>1, ActivateCalm
  <2>3. Calm(gone, SeatActivate(free, f))
    BY <1>8, <2>1, <2>2, CalmTransitive
  <2>4. Calm(gone, next)
    BY <1>8, <2>3, CalmReflexive
  <2> HIDE DEF next, Left
  <2> QED
    BY <1>7, <1>8, <2>4 DEF Calm, Still
<1> HIDE DEF next, unused
<1>10. Left(cleaned) /\ Formed(cleaned)
  <2>1. Modest(next, cleaned)
    BY <1>9, VtModest, ModestChanges
  <2> HIDE DEF cleaned, Left
  <2> QED
    BY <1>7, <1>9, <2>1, ModestIsCalm DEF Modest
<1> HIDE DEF cleaned
<1>11. Calm(cleaned, r)
  <2>1. "CLOSED" # "ACTIVE"
    OBVIOUS
  <2> QED
    BY <1>2, <1>10, <2>1, StateCalm
<1>12. r.state[c] # "ACTIVE"
  BY <1>2, <1>10 DEF Formed, SeatFields
<1> HIDE DEF r
<1>13. Left(r)
  <2> HIDE DEF Left
  <2> QED
    BY <1>7, <1>10, <1>11
<1> QED
  BY <1>1, <1>12, <1>13 DEF Calm, Fronts

\* A new owner of a group VT is still, and calm if no client owned the VT.
LEMMA SetOwnerCalm ==
  ASSUME NEW s, Formed(s), NEW v \in VT, NEW o
  PROVE  LET r == [s EXCEPT !.group_vts[v] = o]
         IN  Still(s, r) /\ (s.group_vts[v] \notin Client => Calm(s, r))
<1> DEFINE g == [s.group_vts EXCEPT ![v] = o]
           r == [s EXCEPT !.group_vts = g]
<1>1. DOMAIN g = VT /\ \A w \in VT : w # v => g[w] = s.group_vts[w]
  BY DEF Formed
<1> HIDE DEF g
<1>2. /\ Formed(r) /\ r.clients = s.clients /\ r.session = s.session /\ r.state = s.state
      /\ r.cur_vt = s.cur_vt /\ r.tty = s.tty /\ r.next_client = s.next_client
      /\ r.group_vts = g
  BY <1>1 DEF Formed, SeatFields
<1> HIDE DEF r
<1>3. Still(s, r)
  BY <1>2 DEF Still, SameTraffic, Members, Formed
<1>4. ASSUME s.group_vts[v] \notin Client PROVE Fronts(s, r)
  <2>1. \A x \in Client, w \in VT : ClientOwnsVt(s, x, w) => ClientOwnsVt(r, x, w)
    BY <1>1, <1>2, <1>4 DEF ClientOwnsVt
  <2> QED
    BY <1>2, <2>1 DEF Fronts
<1> QED
  BY <1>3, <1>4 DEF Calm, r, g

\* seat_create_group_vt is calm.
LEMMA GroupVtCalm ==
  ASSUME NEW s, Formed(s), NEW c \in Client, NEW v \in VT, NEW f
  PROVE  Calm(s, SeatCreateGroupVt(s, c, v, f))
<1> DEFINE u == VtOpen(s, v)
           r == [u EXCEPT !.group_vts[v] = c]
<1>1. Modest(s, u)
  BY VtModest
<1>2. \/ SeatCreateGroupVt(s, c, v, f) = s
      \/ s.group_vts[v] = NULL /\ SeatCreateGroupVt(s, c, v, f) = r
  BY DEF SeatCreateGroupVt
<1> HIDE DEF u
<1>3. s.group_vts[v] = NULL => Calm(u, r)
  BY <1>1, SetOwnerCalm, ClientAssumption DEF Modest, SameMembers
<1> HIDE DEF r
<1>4. s.group_vts[v] = NULL => Calm(s, r)
  BY <1>1, <1>3, ModestIsCalm, CalmTransitive
<1> QED
  BY <1>2, <1>4, CalmReflexive

\* seat_destroy_group_vt is still; it takes the VT from its owner.
LEMMA DestroyStill ==
  ASSUME NEW s, Formed(s), NEW v \in VT, NEW f
  PROVE  Still(s, SeatDestroyGroupVt(s, v, f))
<1> DEFINE u == IF VtBound THEN VtClose(s, {v}, f) ELSE s
           r == [u EXCEPT !.group_vts[v] = NULL]
<1>1. Modest(s, u)
  BY VtModest, ModestChanges
<1>2. SeatDestroyGroupVt(s, v, f) = s \/ SeatDestroyGroupVt(s, v, f) = r
  BY DEF SeatDestroyGroupVt
<1> HIDE DEF u
<1>3. Still(u, r)
  BY <1>1, SetOwnerCalm DEF Modest
<1> HIDE DEF r
<1>4. Still(s, r)
  BY <1>1, <1>3, ModestIsCalm, CalmTransitive DEF Calm
<1> QED
  BY <1>2, <1>4, CalmReflexive DEF Calm
-----------------------------------------------------------------------------
(***************************************************************************)
(* What the seat believes about the VTs.                                   *)
(***************************************************************************)

\* The last message on its way to the seat names the foreground VT, unless
\* the watcher missed a switch; with no message on its way, cur_vt does.
Tracks(s) ==
  LET t == s.tty
  IN ~t.missed =>
       IF t.ev # 0 THEN t.ev = t.fg
       ELSE IF t.pipe # <<>> THEN t.pipe[Len(t.pipe)] = t.fg
       ELSE s.cur_vt \in {-1, t.fg}

\* ActiveClientInForeground of Server, for a seat record.
Fronted(s) ==
  VtBound /\ ~s.tty.missed /\ s.tty.ev = 0 /\ s.tty.pipe = <<>> =>
    \A c \in Client : s.state[c] = "ACTIVE" => ClientOwnsVt(s, c, s.tty.fg)

\* SessionsDistinct of Server, for a seat record.
Numbered(s) ==
  ~VtBound => \A c, d \in Members(s) : s.session[c] = s.session[d] => c = d

\* Before the seat first looks at a VT it has no member and no VT is under
\* its control.
Found(s) ==
  VtBound /\ s.cur_vt = -1 =>
    Members(s) = {} /\ s.tty.sig = {} /\ \A v \in VT : ~s.tty.proc[v]

\* Running from s to r keeps what a seat knows whatever control peers do ...
Remembers(s, r) ==
  /\ Tracks(s) => Tracks(r)
  /\ Numbered(s) => Numbered(r)
  /\ Found(s) => Found(r)

\* ... and what it knows while no group VT is destroyed.
Keeps(s, r) == Remembers(s, r) /\ (Tracks(s) /\ Fronted(s) => Fronted(r))

\* Such steps compose.
LEMMA KeepsTransitive ==
  ASSUME NEW s, NEW r, NEW u
  PROVE  /\ Remembers(s, r) /\ Remembers(r, u) => Remembers(s, u)
         /\ Keeps(s, r) /\ Keeps(r, u) => Keeps(s, u)
BY DEF Keeps, Remembers

\* Calm steps keep all of this, once a VT is known.
LEMMA CalmKeeps ==
  ASSUME NEW s, NEW r, SeatInv(s),
         Members(s) # {} \/ s.cur_vt # -1 \/ r.tty = s.tty
  PROVE  /\ Still(s, r) => Remembers(s, r)
         /\ Calm(s, r) => Keeps(s, r)
<1>1. ASSUME Still(s, r) PROVE Remembers(s, r)
  <2>1. Tracks(s) => Tracks(r)
    BY <1>1 DEF Still, SameTraffic, Tracks
  <2>2. Numbered(s) => Numbered(r)
    BY <1>1 DEF Still, Numbered
  <2>3. Found(s) => Found(r)
    BY <1>1 DEF Still, Found
  <2> QED
    BY <2>1, <2>2, <2>3 DEF Remembers
<1>2. ASSUME Calm(s, r), Tracks(s), Fronted(s) PROVE Fronted(r)
  <2> SUFFICES ASSUME VtBound, ~r.tty.missed, r.tty.ev = 0, r.tty.pipe = <<>>,
                      NEW x \in Client, r.state[x] = "ACTIVE"
               PROVE  ClientOwnsVt(r, x, r.tty.fg)
    BY DEF Fronted
  <2>1. /\ ~s.tty.missed /\ s.tty.ev = 0 /\ s.tty.pipe = <<>> /\ r.tty.fg = s.tty.fg
        /\ r.cur_vt = s.cur_vt /\ s.next_client = NULL /\ s.tty.fg \in VT
    <3>1. s.next_client = NULL /\ s.tty \in Console
      BY DEF SeatInv, PartInv, Queued, SeatState
    <3>2. s.tty.fg \in VT
      BY <3>1 DEF Console
    <3> QED
      BY <1>2, <3>1, <3>2 DEF Calm, Still, SameTraffic
  <2>2. s.cur_vt \in {-1, s.tty.fg}
    BY <1>2, <2>1 DEF Tracks
  <2>3. CASE r.cur_vt # -1 /\ ClientOwnsVt(r, x, r.cur_vt)
    BY <2>1, <2>2, <2>3
  <2>4. CASE s.state[x] = "ACTIVE" /\ \A v \in VT : ClientOwnsVt(s, x, v) => ClientOwnsVt(r, x, v)
    BY <1>2, <2>1, <2>4 DEF Fronted
  <2> QED
    BY <1>2, <2>1, <2>3, <2>4 DEF Calm, Fronts
<1> QED
  BY <1>1, <1>2 DEF Calm, Keeps

\* A console step keeps it if the traffic stays, or if a switch is posted.
LEMMA TtyKeeps ==
  ASSUME NEW s \in SeatState, NEW t \in Console,
         \/ SameTraffic(s.tty, t)
         \/ ~t.missed => t.ev = t.fg
         \/ /\ t.fg = s.tty.fg /\ t.missed = s.tty.missed
            /\ t.ev = 0 /\ t.pipe = Append(s.tty.pipe, s.tty.ev) /\ s.tty.ev # 0,
         t.proc = s.tty.proc,
         s.tty.sig = {} /\ (\A v \in VT : ~s.tty.proc[v]) => t.sig = {}
  PROVE  Keeps(s, [s EXCEPT !.tty = t])
<1> DEFINE r == [s EXCEPT !.tty = t]
<1>1. /\ r.tty = t /\ r.cur_vt = s.cur_vt /\ SameMembers(s, r) /\ SameHolder(s, r)
      /\ t.fg \in VT /\ 0 \notin VT /\ s.tty.pipe \in Seq(VT) /\ s.tty.ev \in VT \cup {0}
  <2>1. s.tty \in Console
    BY DEF SeatState
  <2> QED
    BY <2>1, VTAssumption DEF SeatState, SameMembers, SameHolder, Console
<1> HIDE DEF r
<1>2. Numbered(s) => Numbered(r)
  BY <1>1 DEF Numbered, SameMembers, Members
<1>3. Found(s) => Found(r)
  <2>1. Members(r) = Members(s)
    BY <1>1 DEF SameMembers, Members
  <2> SUFFICES ASSUME Found(s), VtBound, s.cur_vt = -1
               PROVE  Members(s) = {} /\ t.sig = {} /\ \A v \in VT : ~t.proc[v]
    BY <1>1, <2>1 DEF Found
  <2>2. Members(s) = {} /\ s.tty.sig = {} /\ \A v \in VT : ~s.tty.proc[v]
    BY DEF Found
  <2> QED
    BY <2>2
<1>4. CASE SameTraffic(s.tty, t)
  <2>1. Tracks(s) => Tracks(r)
    BY <1>1, <1>4 DEF Tracks, SameTraffic
  <2>2. Fronted(s) => Fronted(r)
    BY <1>1, <1>4 DEF Fronted, SameTraffic, SameMembers, SameHolder, ClientOwnsVt
  <2> QED
    BY <1>2, <1>3, <2>1, <2>2 DEF Keeps, Remembers, r
<1>5. CASE ~t.missed => t.ev = t.fg
  <2>1. Tracks(r) /\ Fronted(r)
    BY <1>1, <1>5 DEF Tracks, Fronted
  <2> QED
    BY <1>2, <1>3, <2>1 DEF Keeps, Remembers, r
<1>6. CASE /\ t.fg = s.tty.fg /\ t.missed = s.tty.missed
           /\ t.ev = 0 /\ t.pipe = Append(s.tty.pipe, s.tty.ev) /\ s.tty.ev # 0
  <2>1. t.pipe # <<>> /\ t.pipe[Len(t.pipe)] = s.tty.ev
    BY <1>1, <1>6
  <2>2. Tracks(s) => Tracks(r)
    BY <1>1, <1>6, <2>1 DEF Tracks
  <2>3. Fronted(r)
    BY <1>1, <2>1 DEF Fronted
  <2> QED
    BY <1>2, <1>3, <2>2, <2>3 DEF Keeps, Remembers, r
<1> QED
  BY <1>4, <1>5, <1>6

\* A completed switch is posted to the seat or missed.
LEMMA SwitchIsPosted ==
  ASSUME NEW t \in Console, NEW v \in VT
  PROVE  LET u == CompleteSwitch(t, v)
         IN  /\ u \in Console /\ u.proc = t.proc
             /\ ~u.missed => u.ev = u.fg
             /\ t.sig = {} /\ (\A w \in VT : ~t.proc[w]) => u.sig = {}
<1>1. CompleteSwitch(t, v) \in Console /\ CompleteSwitch(t, v).proc = t.proc
  BY CompleteSwitchType, ModesKept
<1> QED
  BY <1>1 DEF Console, CompleteSwitch, PostEvent

\* Acking a VT signal keeps it.
LEMMA VtAckKeeps ==
  ASSUME NEW s \in SeatState, NEW f
  PROVE  Keeps(s, VtAck(s, f))
<1>1. s.tty \in Console /\ s = [s EXCEPT !.tty = s.tty] /\ Formed(s)
  BY StateIsFormed DEF SeatState
<1>2. Keeps(s, s)
  BY DEF Keeps, Remembers
<1>3. s.tty.newvt # 0 => s.tty.newvt \in VT
  BY <1>1 DEF Console
<1>4. ASSUME s.tty.newvt # 0
      PROVE  Keeps(s, [s EXCEPT !.tty = CompleteSwitch(s.tty, s.tty.newvt)])
  <2> DEFINE t == CompleteSwitch(s.tty, s.tty.newvt)
  <2>1. /\ t \in Console /\ t.proc = s.tty.proc
        /\ ~t.missed => t.ev = t.fg
        /\ s.tty.sig = {} /\ (\A w \in VT : ~s.tty.proc[w]) => t.sig = {}
    BY <1>1, <1>3, <1>4, SwitchIsPosted
  <2> HIDE DEF t
  <2>2. Keeps(s, [s EXCEPT !.tty = t])
    BY <2>1, TtyKeeps
  <2> QED
    BY <2>2 DEF t
<1> QED
  BY <1>1, <1>2, <1>4 DEF VtAck, TerminalAck

\* Looking up the foreground VT keeps it.
LEMMA UpdateVtKeeps ==
  ASSUME NEW s \in SeatState, NEW f
  PROVE  /\ Keeps(s, SeatUpdateVt(s, f))
         /\ "update" \notin f => SeatUpdateVt(s, f).cur_vt \in VT
<1> DEFINE r == SeatUpdateVt(s, f)
<1>1. /\ SameMembers(s, r) /\ SameHolder(s, r) /\ r.tty = s.tty
      /\ r.cur_vt \in {s.cur_vt, s.tty.fg} /\ ("update" \notin f => r.cur_vt = s.tty.fg)
  BY DEF SeatState, SameMembers, SameHolder, SeatUpdateVt
<1>2. s.tty.fg \in VT /\ -1 \notin VT
  <2>1. s.tty \in Console
    BY DEF SeatState
  <2>2. -1 \notin VT
    BY VTAssumption
  <2> QED
    BY <2>1, <2>2 DEF Console
<1> HIDE DEF r
<1>3. Tracks(s) => Tracks(r)
  BY <1>1 DEF Tracks
<1>4. Numbered(s) => Numbered(r)
  BY <1>1 DEF Numbered, SameMembers, Members
<1>5. Found(s) => Found(r)
  BY <1>1, <1>2 DEF Found, SameMembers, Members
<1>6. Fronted(s) => Fronted(r)
  BY <1>1 DEF Fronted, SameMembers, SameHolder, ClientOwnsVt
<1> QED
  BY <1>1, <1>2, <1>3, <1>4, <1>5, <1>6 DEF Keeps, Remembers, r

\* Device changes keep it.
LEMMA DevKeeps ==
  ASSUME NEW s, SeatInv(s), NEW d
  PROVE  Keeps(s, [s EXCEPT !.dev = d])
<1>1. Formed(s)
  BY StateIsFormed DEF SeatInv, PartInv
<1>2. [s EXCEPT !.dev = d].tty = s.tty
  BY <1>1 DEF Formed, SeatFields
<1>3. Calm(s, [s EXCEPT !.dev = d])
  BY <1>1, ModestChanges, ModestIsCalm
<1> QED
  BY <1>2, <1>3, CalmKeeps

\* The callbacks of the VT signals keep it.
LEMMA VtSignalKeeps ==
  ASSUME NEW s, NEW f, SeatInv(s)
  PROVE  Keeps(s, SeatVtRelease(s, f)) /\ Keeps(s, SeatVtActivate(s, f))
<1> DEFINE u == SeatUpdateVt(s, f)
           d == SeatDropClientDrmMaster(u.dev, u.active_client)
           w == IF KeepsDrmMaster(u) THEN u ELSE [u EXCEPT !.dev = d]
<1>1. s \in SeatState
  BY DEF SeatInv, PartInv
<1>2. SeatInv(u) /\ u \in SeatState /\ Keeps(s, u)
  BY <1>1, UpdateVtStep, VtStepPreserves, UpdateVtKeeps DEF Preserves, VtStep
<1>3. /\ SeatVtRelease(s, f) = (IF VtBound THEN VtAck(w, f) ELSE s)
      /\ SeatVtActivate(s, f) = (IF VtBound THEN VtAck(u, f) ELSE s)
  BY DEF SeatVtRelease, SeatVtActivate
<1> HIDE DEF u
<1>4. ~KeepsDrmMaster(u) => u.active_client \in Client /\ u.dev \in DeviceState
  BY <1>2 DEF KeepsDrmMaster, SeatState
<1>5. ~KeepsDrmMaster(u) => SafeStep(u.dev, d)
  BY <1>4, DeactivateSafe DEF SeatDropClientDrmMaster
<1> HIDE DEF d
<1>6. Keeps(s, s) /\ Keeps(u, u)
  BY DEF Keeps, Remembers
<1>7. w \in SeatState /\ Keeps(u, w)
  BY <1>2, <1>5, <1>6, DevStep, DevKeeps DEF QuietStep
<1> HIDE DEF w
<1>8. Keeps(s, VtAck(w, f)) /\ Keeps(s, VtAck(u, f))
  BY <1>2, <1>7, VtAckKeeps, KeepsTransitive
<1> QED
  BY <1>3, <1>6, <1>8

\* seat_switch_vt and seat_get_active_vt keep it.
LEMMA SwitchVtKeeps ==
  ASSUME NEW s, NEW v \in VT, NEW f, SeatInv(s)
  PROVE  Keeps(s, SeatSwitchVt(s, v, f)) /\ Keeps(s, SeatGetActiveVt(s, f))
<1> DEFINE u == SeatUpdateVt(s, f)
<1>1. s \in SeatState /\ -1 \notin VT
  <2>1. s \in SeatState
    BY DEF SeatInv, PartInv
  <2>2. -1 \notin VT
    BY VTAssumption
  <2> QED
    BY <2>1, <2>2
<1>2. SeatInv(u) /\ u \in SeatState /\ Keeps(s, u) /\ ("update" \notin f => u.cur_vt # -1)
  BY <1>1, UpdateVtStep, VtStepPreserves, UpdateVtKeeps DEF Preserves, VtStep
<1>3. /\ \/ SeatSwitchVt(s, v, f) = s
         \/ SeatSwitchVt(s, v, f) = u
         \/ "update" \notin f /\ SeatSwitchVt(s, v, f) = VtSwitch(u, v, f)
      /\ SeatGetActiveVt(s, f) \in {u, s}
  BY DEF SeatSwitchVt, SeatGetActiveVt
<1> HIDE DEF u
<1>4. Calm(u, VtSwitch(u, v, f))
  BY <1>2, StateIsFormed, VtModest, ModestIsCalm
<1>5. "update" \notin f => Keeps(u, VtSwitch(u, v, f))
  BY <1>2, <1>4, CalmKeeps
<1>6. Keeps(s, s)
  BY DEF Keeps, Remembers
<1> QED
  BY <1>2, <1>3, <1>5, <1>6, KeepsTransitive

\* A message taken from the pipe leaves the later ones, or was the last.
LEMMA TailFacts ==
  ASSUME NEW q \in Seq(VT), q # <<>>
  PROVE  /\ Head(q) \in VT /\ Tail(q) \in Seq(VT)
         /\ Tail(q) = <<>> => Head(q) = q[Len(q)]
         /\ Tail(q) # <<>> => Tail(q)[Len(Tail(q))] = q[Len(q)]
<1>1. Head(q) \in VT /\ Tail(q) \in Seq(VT) /\ Head(q) = q[1]
  OBVIOUS
<1>2. Len(Tail(q)) = Len(q) - 1 /\ Len(q) \in Nat \ {0}
  OBVIOUS
<1>3. ASSUME NEW z \in Seq(VT), Len(z) # 0 PROVE z # <<>>
  BY <1>3
<1>4. ASSUME NEW z \in Seq(VT), z # <<>> PROVE Len(z) \in Nat \ {0}
  BY <1>4
<1>5. ASSUME Tail(q) # <<>> PROVE Tail(q)[Len(Tail(q))] = q[Len(Tail(q)) + 1]
  BY <1>1, <1>2, <1>4, <1>5
<1>6. Tail(q) = <<>> => Len(q) = 1
  <2>1. Len(Tail(q)) # 0 => Tail(q) # <<>>
    BY <1>1, <1>3
  <2> QED
    BY <1>2, <2>1
<1> QED
  BY <1>1, <1>2, <1>5, <1>6

\* seat_handle_vt_event takes the message at the head of the pipe for the
\* current VT; if it was the last one, whoever then has the seat owns it.
LEMMA VtEventKeeps ==
  ASSUME NEW s, NEW f, SeatInv(s), s.tty.pipe # <<>>,
         NEW u, u = [s EXCEPT !.tty.pipe = Tail(@)], SeatInv(u)
  PROVE  Keeps(s, SeatHandleVtEvent(u, Head(s.tty.pipe), f))
<1> DEFINE v == Head(s.tty.pipe)
           w == [u EXCEPT !.pending_vt_switch = 0, !.cur_vt = v]
           a == u.active_client
           d == SeatRestoreClientDrmMaster(w.dev, a)
           r == SeatHandleVtEvent(u, v, f)
<1>1. s \in SeatState /\ u \in SeatState /\ s.tty \in Console
  BY DEF SeatInv, PartInv, SeatState
<1>2. s.tty.pipe \in Seq(VT)
  BY <1>1 DEF Console
<1>3. v \in VT /\ -1 \notin VT
  <2>1. -1 \notin VT
    BY VTAssumption
  <2> QED
    BY <1>2, <2>1, TailFacts
<1>4. /\ SameMembers(s, u) /\ SameHolder(s, u)
      /\ u.tty.fg = s.tty.fg /\ u.tty.ev = s.tty.ev /\ u.tty.missed = s.tty.missed
      /\ u.tty.pipe = Tail(s.tty.pipe)
  BY <1>1 DEF SeatState, Console, SameMembers, SameHolder
<1>5. \/ a = NULL /\ r = SeatActivate(w, f)
      \/ a # NULL /\ ClientOwnsVt(w, a, v) /\ r = [w EXCEPT !.dev = d]
      \/ a # NULL /\ u.state[a] = "ACTIVE" /\ r = SeatDisableClient(w, a, f)
      \/ a # NULL /\ u.state[a] # "ACTIVE" /\ r = w
  BY DEF SeatHandleVtEvent
<1>6. /\ w \in SeatState /\ SameMembers(u, w) /\ SameHolder(u, w) /\ w.tty = u.tty
      /\ w.cur_vt = v
  BY <1>1, <1>3 DEF SeatState, SameMembers, SameHolder
<1>7. SeatInv(w) /\ Formed(w)
  <2>1. VtStep(u, w)
    BY <1>6 DEF VtStep
  <2> HIDE DEF w
  <2> QED
    BY <1>1, <1>6, <2>1, VtStepPreserves, StateIsFormed DEF Preserves
<1> HIDE DEF w, r, d, v
<1>8. Remembers(s, w)
  <2>1. Tracks(s) => Tracks(w)
    <3> DEFINE q == s.tty.pipe
               z == Tail(q)
    <3>1. /\ z = <<>> => v = q[Len(q)]
          /\ z # <<>> => z[Len(z)] = q[Len(q)]
      BY <1>2, TailFacts DEF v
    <3>2. w.tty.pipe = z /\ q # <<>>
      BY <1>4, <1>6
    <3> HIDE DEF z
    <3> QED
      BY <1>4, <1>6, <3>1, <3>2 DEF Tracks
  <2>2. Numbered(s) => Numbered(w)
    BY <1>4, <1>6 DEF Numbered, SameMembers, Members
  <2>3. Found(w)
    BY <1>3, <1>6 DEF Found
  <2> QED
    BY <2>1, <2>2, <2>3 DEF Remembers
<1>9. \A x \in Client : u.state[x] = "ACTIVE" => a = x
  BY DEF SeatInv, PartInv, ExactBut
<1>10. Calm(w, r)
  <2>1. a = NULL => Calm(w, SeatActivate(w, f))
    <3>1. w.next_client \in Client \cup {NULL}
      BY <1>6 DEF SeatState
    <3> QED
      BY <1>7, <3>1, ActivateCalm
  <2>2. Calm(w, [w EXCEPT !.dev = d])
    BY <1>7, ModestChanges, ModestIsCalm
  <2>3. a # NULL => Calm(w, SeatDisableClient(w, a, f))
    <3>1. a # NULL => a \in Client
      BY <1>1 DEF SeatState
    <3>2. "PENDING_DISABLE" # "ACTIVE"
      OBVIOUS
    <3> QED
      BY <1>7, <3>1, <3>2, StateCalm DEF SeatDisableClient
  <2> QED
    BY <1>5, <1>7, <2>1, <2>2, <2>3, CalmReflexive
<1>11. Keeps(w, r)
  BY <1>3, <1>6, <1>7, <1>10, CalmKeeps
<1>12. ASSUME Tracks(s) PROVE Fronted(r)
  <2>1. Tracks(w)
    BY <1>8, <1>12 DEF Remembers
  <2>2. CASE a # NULL /\ u.state[a] = "ACTIVE" /\ r = SeatDisableClient(w, a, f)
    <3>1. a \in Client
      BY <1>1, <2>2 DEF SeatState
    <3>2. \A x \in Client : r.state[x] # "ACTIVE"
      BY <1>6, <1>9, <2>2, <3>1 DEF SeatDisableClient, SeatState, SameHolder
    <3> QED
      BY <3>2 DEF Fronted
  <2>3. CASE ~(a # NULL /\ u.state[a] = "ACTIVE" /\ r = SeatDisableClient(w, a, f))
    <3>1. Fronted(w)
      <4> SUFFICES ASSUME ~w.tty.missed, w.tty.ev = 0, w.tty.pipe = <<>>,
                          NEW x \in Client, w.state[x] = "ACTIVE"
                   PROVE  ClientOwnsVt(w, x, w.tty.fg)
        BY DEF Fronted
      <4>1. v = w.tty.fg
        BY <1>3, <1>6, <2>1 DEF Tracks
      <4>2. a = x /\ a # NULL
        BY <1>6, <1>9, ClientAssumption DEF SameHolder
      <4>3. ClientOwnsVt(w, a, v)
        BY <1>5, <1>6, <2>3, <4>2 DEF SameHolder
      <4> QED
        BY <4>1, <4>2, <4>3
    <3> QED
      BY <1>11, <2>1, <3>1 DEF Keeps
  <2> QED
    BY <2>2, <2>3
<1> QED
  BY <1>8, <1>11, <1>12 DEF Keeps, Remembers, r, v
=============================================================================
