------------------------------- MODULE Server -------------------------------
(***************************************************************************)
(* The seatd process: the callbacks its poll loop dispatches (requests of  *)
(* clients and of control peers, VT signals, messages of the VT event      *)
(* thread, termination), the VT event thread, and the kernel's console     *)
(* worker.  The main thread runs one callback at a time, so each callback  *)
(* is one action; the thread and the kernel interleave with it.            *)
(***************************************************************************)
EXTENDS Seat

CONSTANTS
  Faults,           \* the sets of calls that may fail in one callback
  ControlRequests,  \* the requests control peers send
  GroupVT,          \* VTs that control peers name in group requests
  PidOf,            \* PidOf[c]: the process behind client c
  SessionRequest,   \* the session numbers clients ask to switch to
  Terminates        \* whether SIGTERM or SIGINT may arrive

ASSUME FaultsAssumption == Faults \subseteq SUBSET Fault /\ {} \in Faults
ASSUME GroupAssumption == GroupVT \subseteq VT
ASSUME TerminatesAssumption == Terminates \in BOOLEAN
ASSUME SessionAssumption ==
  SessionRequest \subseteq Nat \ {0} /\ (VtBound => SessionRequest \subseteq VT)

VARIABLES
  seat,     \* the seat, see SeatState
  running   \* "yes", "finishing" (in server_finish) or "no"

vars == <<seat, running>>

Init == /\ \E v \in VT : seat = SeatCreate(v)
        /\ running = "yes"
-----------------------------------------------------------------------------
(***************************************************************************)
(* Clients (client.c).                                                     *)
(***************************************************************************)

ClientDestroy(s, c, f) ==
  [(IF c \in Members(s) THEN SeatRemoveClient(s, c, f) ELSE s)
     EXCEPT !.state[c] = "none", !.session[c] = -1]

\* A reply that cannot be queued ends the connection.
Reply(s, c, f) == IF "reply" \in f THEN ClientDestroy(s, c, f) ELSE s

ClientCreate(s, c) == [s EXCEPT !.state[c] = "NEW"]

\* n is the session seat_add_client assigns.
HandleOpenSeat(s, c, n, f) ==
  LET u == IF VtBound THEN SeatUpdateVt(s, f) ELSE s
      added == SeatAddClient(u, c, n)
  IN CASE ~MayAddClient(s, c) -> ClientDestroy(s, c, f)
       [] MayAddClient(s, c) /\ ~VtAcceptsClient(u) -> ClientDestroy(u, c, f)
       [] OTHER -> IF "reply" \in f THEN ClientDestroy(added, c, f)
                   ELSE SeatOpenClient(added, c, f)

\* (mutant) A client that closed the seat is as good as new.
HandleCloseSeatReusable(s, c, f) ==
  Reply([SeatRemoveClient(s, c, f) EXCEPT !.state[c] = "NEW"], c, f)

HandleCloseSeat(s, c, f) == Reply(SeatRemoveClient(s, c, f), c, f)

HandleOpenDevice(s, c, p, f) ==
  Reply(IF s.state[c] = "ACTIVE" /\ CanOpenDevice(s.dev, c, p)
          THEN [s EXCEPT !.dev = SeatOpenDevice(@, c, p)] ELSE s, c, f)

HandleCloseDevice(s, c, p, f) ==
  Reply(IF p \in OpenPaths(s.dev, c)
          THEN [s EXCEPT !.dev = SeatCloseDevice(@, c, p, f)] ELSE s, c, f)

HandleSwitchSession(s, c, n, f) == Reply(SeatSetNextSession(s, c, n, f), c, f)

HandleDisableSeat(s, c, f) == Reply(SeatAckDisableClient(s, c, f), c, f)
-----------------------------------------------------------------------------
(***************************************************************************)
(* The callbacks as actions.                                               *)
(***************************************************************************)

Connected(c) == seat.state[c] # "none"

Handle(s) == running = "yes" /\ seat' = s /\ UNCHANGED running

Connect(c) == ~Connected(c) /\ Handle(ClientCreate(seat, c))

OpenSeat(c) ==
  /\ Connected(c)
  /\ \E f \in Faults :
       \E n \in NewSession(IF VtBound THEN SeatUpdateVt(seat, f) ELSE seat) :
         Handle(HandleOpenSeat(seat, c, n, f))

CloseSeat(c) ==
  /\ c \in Members(seat)
  /\ \E f \in Faults : Handle(HandleCloseSeat(seat, c, f))

OpenDevice(c, p) ==
  /\ c \in Members(seat)
  /\ \E f \in Faults : Handle(HandleOpenDevice(seat, c, p, f))

CloseDevice(c, p) ==
  /\ c \in Members(seat)
  /\ \E f \in Faults : Handle(HandleCloseDevice(seat, c, p, f))

SwitchSession(c, n) ==
  /\ c \in Members(seat)
  /\ \E f \in Faults : Handle(HandleSwitchSession(seat, c, n, f))

DisableSeat(c) ==
  /\ c \in Members(seat)
  /\ \E f \in Faults : Handle(HandleDisableSeat(seat, c, f))

\* Hangup, connection error or protocol error.
Disconnect(c) ==
  /\ Connected(c)
  /\ \E f \in Faults : Handle(ClientDestroy(seat, c, f))

\* server_handle_vt_rel and server_handle_vt_acq.  The poller clears the
\* raised flag after the callback.
Lower(s, sig) == [s EXCEPT !.tty.sig = @ \ {sig}]

VtRel ==
  /\ SIGUSR1 \in seat.tty.sig
  /\ \E f \in Faults : Handle(Lower(SeatVtRelease(seat, f), SIGUSR1))

VtAcq ==
  /\ SIGUSR2 \in seat.tty.sig
  /\ \E f \in Faults : Handle(Lower(SeatVtActivate(seat, f), SIGUSR2))

\* One round of the loop of server_handle_vt_event.  A message that is left
\* after a round may as well have been written just after the loop ended, so
\* other callbacks may come in between.
VtEvent ==
  /\ seat.tty.pipe # <<>>
  /\ \E f \in Faults :
       Handle(SeatHandleVtEvent([seat EXCEPT !.tty.pipe = Tail(@)], Head(seat.tty.pipe), f))
-----------------------------------------------------------------------------
(***************************************************************************)
(* Control peers (control.c).                                              *)
(***************************************************************************)

\* (mutant) Clients that are not on the seat are found as well.
ControlFindAnyClient(s, pid) == {c \in Client : PidOf[c] = pid /\ s.state[c] # "none"}

ControlFindOwnerClient(s, pid) == FirstClient(s, {c \in Client : PidOf[c] = pid})

CreateGroupVt(pid, v) ==
  /\ "create" \in ControlRequests
  /\ \E f \in Faults, c \in ControlFindOwnerClient(seat, pid) :
       Handle(SeatCreateGroupVt(seat, c, v, f))

DestroyGroupVt(v) ==
  /\ "destroy" \in ControlRequests
  /\ \E f \in Faults : Handle(SeatDestroyGroupVt(seat, v, f))

GetActiveVt ==
  /\ "get" \in ControlRequests
  /\ \E f \in Faults : Handle(SeatGetActiveVt(seat, f))

SwitchVt(v) ==
  /\ "switch" \in ControlRequests
  /\ \E f \in Faults : Handle(SeatSwitchVt(seat, v, f))
-----------------------------------------------------------------------------
(***************************************************************************)
(* Termination: server_handle_kill, then server_finish.                    *)
(***************************************************************************)

\* The VT event thread is joined and its pipe closed.
Kill ==
  /\ Terminates
  /\ running = "yes"
  /\ running' = "finishing"
  /\ seat' = [seat EXCEPT !.tty.thread = "off", !.tty.ev = 0, !.tty.pipe = <<>>]

\* Idle clients go first, then the seat's clients from the head of the list.
FinishClient(c) ==
  /\ running = "finishing"
  /\ Connected(c)
  /\ \/ c \notin Members(seat)
     \/ /\ \A d \in Client : Connected(d) => d \in Members(seat)
        /\ c = Head(seat.clients)
  /\ \E f \in Faults : seat' = ClientDestroy(seat, c, f)
  /\ UNCHANGED running

Exit ==
  /\ running = "finishing"
  /\ \A c \in Client : ~Connected(c)
  /\ running' = "no"
  /\ UNCHANGED seat
-----------------------------------------------------------------------------
(***************************************************************************)
(* The VT event thread and the kernel.                                     *)
(***************************************************************************)

Tty(t) == seat' = [seat EXCEPT !.tty = t] /\ UNCHANGED running

ThreadWrite == WatcherCanWrite(seat.tty) /\ Tty(WatcherWrite(seat.tty))

ThreadWait == WatcherCanWait(seat.tty) /\ Tty(WatcherWait(seat.tty))

\* (kernel) Somebody else asks for a switch: chvt, a key, another program.
Chvt(v) == running # "no" /\ seat.tty.want # v /\ Tty(TerminalSwitchVt(seat.tty, v))

\* (kernel) The console worker runs.
KernelSwitch == seat.tty.want # 0 /\ Tty(ConsoleWorker(seat.tty))
-----------------------------------------------------------------------------
ClientRequest(c) ==
  \/ Connect(c) \/ OpenSeat(c) \/ CloseSeat(c) \/ DisableSeat(c) \/ Disconnect(c)
  \/ \E p \in Path : OpenDevice(c, p) \/ CloseDevice(c, p)
  \/ \E n \in SessionRequest : SwitchSession(c, n)

ControlRequest ==
  \/ \E c \in Client, v \in GroupVT : CreateGroupVt(PidOf[c], v)
  \/ \E v \in GroupVT : DestroyGroupVt(v)
  \/ \E v \in VT : SwitchVt(v)
  \/ GetActiveVt

Terminate == Kill \/ Exit \/ \E c \in Client : FinishClient(c)

Environment == KernelSwitch \/ ThreadWrite \/ ThreadWait \/ \E v \in VT : Chvt(v)

Next ==
  \/ \E c \in Client : ClientRequest(c)
  \/ VtRel \/ VtAcq \/ VtEvent
  \/ ControlRequest
  \/ Terminate
  \/ Environment

Spec == Init /\ [][Next]_vars

\* The main loop dispatches every callback that stays ready, the thread and
\* the kernel make progress, and a client acks a disable as libseat.h asks.
Fairness ==
  /\ WF_vars(VtRel) /\ WF_vars(VtAcq) /\ WF_vars(VtEvent)
  /\ WF_vars(ThreadWrite) /\ WF_vars(ThreadWait) /\ WF_vars(KernelSwitch)
  /\ \A c \in Client : WF_vars(seat.state[c] = "PENDING_DISABLE" /\ DisableSeat(c))

FairSpec == Spec /\ Fairness
-----------------------------------------------------------------------------
(***************************************************************************)
(* Safety.                                                                 *)
(***************************************************************************)

\* The fields of struct seat, of its clients and of the console have their
\* types after every callback; what the event thread writes to its pipe is a VT.
TypeOK == seat \in SeatState /\ running \in {"yes", "finishing", "no"}

\* At most one client has or is giving up the seat, and active_client points
\* at it for exactly that time: the asserts of seat_open_device,
\* seat_disable_client and seat_set_next_session never fail, and no pointer
\* is left to a client that left the seat.
ActiveClientExact ==
  \A c \in Client :
    /\ seat.active_client = c <=> seat.state[c] \in {"ACTIVE", "PENDING_DISABLE"}
    /\ seat.active_client = c => c \in Members(seat)

\* A session switch is queued only while the client it takes the seat from is
\* giving it up, and it is queued for a member that can be opened: next_client
\* never dangles and seat_open_client never refuses it for its state.
QueuedClientReady ==
  LET q == seat.next_client
  IN q # NULL => /\ ~VtBound
                 /\ q \in Members(seat) /\ seat.state[q] \in {"NEW", "DISABLED"}
                 /\ seat.active_client # NULL
                 /\ seat.state[seat.active_client] = "PENDING_DISABLE"

\* A client reads an input device only while it has the seat: every way of
\* losing the seat revokes evdev and hidraw devices first, and no later step
\* gives them back.  (Revoking itself must not fail.)
InputExclusion ==
  (\A f \in Faults : "revoke" \notin f) =>
    \A c \in Client : \A p \in OpenPaths(seat.dev, c) :
      Type[p] \in {"EVDEV", "HIDRAW"} /\ seat.dev.tab[c][p].active => seat.state[c] = "ACTIVE"

\* DRM master is held only through a device of the table that counts as
\* active, so the calls that drop it on release, disable and close find it.
MasterAccounted ==
  \A p \in Path : LET c == seat.dev.master[p]
                  IN c # NULL => /\ p \in OpenPaths(seat.dev, c)
                                 /\ seat.dev.tab[c][p].active

\* A grouped VT belongs to a member of the seat: seat_remove_client leaves no
\* owner pointer behind.
GroupOwnersAreMembers ==
  \A v \in VT : seat.group_vts[v] # NULL => seat.group_vts[v] \in Members(seat)

\* A VT in graphics mode is under process switching: otherwise the kernel
\* would refuse to leave it and the user could never switch away.
GraphicsCanBeLeft == \A v \in VT : seat.tty.gfx[v] => seat.tty.proc[v]

\* While a VT signal can arrive, cur_vt is a VT: vt_ack and vt_switch never
\* call terminal_open with -1, which its assert refuses.
SignalsFindVt ==
  VtBound /\ (seat.tty.sig # {} \/ \E v \in VT : seat.tty.proc[v]) => seat.cur_vt # -1

\* No switch event is on its way to the seat and the last one was not missed.
EventsHandled ==
  ~seat.tty.missed /\ seat.tty.ev = 0 /\ seat.tty.pipe = <<>>

\* Once every switch event has been handled, the seat's idea of the current
\* VT is the foreground VT, whatever the signal handlers, the control peers
\* and the event handler stored in cur_vt in between.
CurVtTracksForeground ==
  running = "yes" /\ EventsHandled /\ seat.cur_vt # -1 => seat.cur_vt = seat.tty.fg

\* Once every switch event has been handled, a client that has the seat of a
\* VT-bound seat owns the foreground VT.
ActiveClientInForeground ==
  VtBound /\ running = "yes" /\ EventsHandled =>
    \A c \in Client : seat.state[c] = "ACTIVE" => ClientOwnsVt(seat, c, seat.tty.fg)

\* On a seat that is not VT-bound the session numbers of the members differ,
\* so that a switch request names one client.
SessionsDistinct ==
  ~VtBound => \A c, d \in Members(seat) : seat.session[c] = seat.session[d] => c = d

\* The seat as its clients see it.
Arbiter == INSTANCE SeatArbiter WITH
  members <- Members(seat),
  holder <- seat.active_client,
  revoking <- seat.active_client # NULL /\ seat.state[seat.active_client] = "PENDING_DISABLE"

\* seatd arbitrates the seat as SeatArbiter promises: whatever VT events,
\* session switches, failures and departures do, the seat is never taken from
\* a client that neither acked a disable nor left.
ArbitratesSeat == Arbiter!Spec

\* The seat as client c sees it.
Session(c) == INSTANCE SeatSession WITH st <- seat.state[c], joined <- (c \in Members(seat))

\* Every client's session follows SeatSession: whatever other clients, VT
\* events, signals and failures do, the client's enable and disable events
\* alternate, and it is never enabled again before its ack.
FollowsSession ==
  [][\A c \in Client : Session(c)!SessionNext
                         \/ UNCHANGED <<seat.state[c], c \in Members(seat)>>]_vars
-----------------------------------------------------------------------------
(***************************************************************************)
(* Liveness.                                                               *)
(***************************************************************************)

\* A client the user has switched away from loses the seat, if the watcher
\* saw the switch.
BackgroundLosesSeat ==
  \A c \in Client, v \in VT :
    <>[](seat.tty.fg = v /\ ~seat.tty.missed /\ ~ClientOwnsVt(seat, c, v))
      => <>[](seat.state[c] # "ACTIVE")

\* If the foreground VT settles on a client's VT and the watcher saw it, a
\* client that owns the VT gets the seat.
ForegroundGetsSeat ==
  \A c \in Client, v \in VT :
    <>[](seat.tty.fg = v /\ ~seat.tty.missed /\ c \in Members(seat) /\ seat.session[c] = v)
      => []<>(\E d \in Client : seat.state[d] = "ACTIVE" /\ ClientOwnsVt(seat, d, v))

\* A queued session switch takes place unless its target leaves.
QueuedClientGetsSeat ==
  \A c \in Client : seat.next_client = c ~> (seat.state[c] = "ACTIVE" \/ c \notin Members(seat))
-----------------------------------------------------------------------------
(***************************************************************************)
(* What a comment in the code says and the code does not do.               *)
(***************************************************************************)

\* When the foreground VT changes, whoever is DRM master owns the new one: "drop
\* DRM master before acking so a compositor frame cannot leak onto the newly
\* active text VT" (seat_vt_release, which trusts pending_vt_switch).
NoFrameLeak ==
  [][seat'.tty.fg # seat.tty.fg =>
       \A p \in Path : LET c == seat'.dev.master[p]
                      IN c # NULL => ClientOwnsVt(seat', c, seat'.tty.fg)]_vars
=============================================================================
