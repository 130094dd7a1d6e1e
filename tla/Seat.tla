-------------------------------- MODULE Seat --------------------------------
(***************************************************************************)
(* The seat arbitration of seatd/seat.c.  One record s is the struct seat  *)
(* with the clients it knows, their devices and the console:               *)
(*   clients            the list seat->clients, newest first               *)
(*   state, session     the fields of every client; "none" is a client     *)
(*                      that is not connected                              *)
(*   active_client, next_client, cur_vt, pending_vt_switch                 *)
(*   group_vts          group_vts[v] is the owner of group VT v, or NULL   *)
(*   dev, tty           see Devices and Terminal                           *)
(* Every function of seat.c that changes state is an operator from one     *)
(* record to the next.  Its last argument f is the set of the kinds of     *)
(* calls that fail while it runs (see Fault).                              *)
(***************************************************************************)
EXTENDS Terminal, Devices

CONSTANTS
  VtBound    \* seat->vt_bound

ASSUME VtBoundAssumption == VtBound \in BOOLEAN

\* The calls that can fail in a way the seat's state depends on.
Fault == {"update",       \* seat_update_vt: tty0 cannot be opened or read
          "vt_open",      \* vt_open: the tty cannot be opened
          "vt_close",     \* vt_close: the tty cannot be opened
          "vt_switch",    \* vt_switch: open or VT_SETMODE
          "vt_activate",  \* vt_switch: VT_ACTIVATE
          "vt_ack",       \* vt_ack: the tty cannot be opened
          "enable",       \* client_send_enable_seat
          "reply",        \* connection_put of a reply
          "revoke"}       \* evdev_revoke, hidraw_revoke

ClientState == {"none", "NEW", "ACTIVE", "PENDING_DISABLE", "DISABLED", "CLOSED"}

SeatState ==
  [clients : Seq(Client), state : [Client -> ClientState], session : [Client -> Int],
   active_client : Client \cup {NULL}, next_client : Client \cup {NULL},
   cur_vt : VT \cup {-1}, pending_vt_switch : VT \cup {0},
   group_vts : [VT -> Client \cup {NULL}], dev : DeviceState, tty : Console]

\* seat_create, in front of a console whose foreground is v.
SeatCreate(v) ==
  [clients |-> <<>>, state |-> [c \in Client |-> "none"], session |-> [c \in Client |-> -1],
   active_client |-> NULL, next_client |-> NULL,
   cur_vt |-> -1, pending_vt_switch |-> 0,
   group_vts |-> [w \in VT |-> NULL], dev |-> NoDevices, tty |-> BootConsole(v)]

\* The clients with client->seat set.
Members(s) == {s.clients[i] : i \in DOMAIN s.clients}

\* The first client of the list that is in S, as a set of at most one.
FirstClient(s, S) ==
  {c \in S : \E i \in DOMAIN s.clients :
                s.clients[i] = c /\ \A j \in 1 .. i-1 : s.clients[j] \notin S}
-----------------------------------------------------------------------------
(***************************************************************************)
(* VTs.                                                                    *)
(***************************************************************************)

SeatUpdateVt(s, f) == IF "update" \in f THEN s ELSE [s EXCEPT !.cur_vt = s.tty.fg]

VtOpen(s, v) ==
  [s EXCEPT !.tty = TerminalSetGraphics(TerminalSetProcessSwitching(@, {v}, TRUE), {v}, TRUE)]

\* (mutant) The VT stays in graphics mode.
VtCloseGraphical(s, V, f) ==
  [s EXCEPT !.tty = TerminalSetProcessSwitching(@, V, FALSE)]

\* vt_close on every VT in V.
VtClose(s, V, f) ==
  IF "vt_close" \in f THEN s
  ELSE [s EXCEPT !.tty = TerminalSetGraphics(TerminalSetProcessSwitching(@, V, FALSE), V, FALSE)]

\* (mutant) The switch is taken for granted.
VtSwitchEager(s, v, f) ==
  [s EXCEPT !.tty = TerminalSwitchVt(@, v), !.pending_vt_switch = v, !.cur_vt = v]

\* vt_switch together with the pending_vt_switch its two callers keep: set
\* before the call and reset if it fails.
VtSwitch(s, v, f) ==
  LET proc == TerminalSetProcessSwitching(s.tty, {s.cur_vt}, TRUE)
  IN CASE "vt_switch" \in f -> s
       [] "vt_switch" \notin f /\ "vt_activate" \in f -> [s EXCEPT !.tty = proc]
       [] OTHER -> [s EXCEPT !.tty = TerminalSwitchVt(proc, v), !.pending_vt_switch = v]

VtAck(s, f) == IF "vt_ack" \in f THEN s ELSE [s EXCEPT !.tty = TerminalAck(@, s.cur_vt)]

ClientOwnsVt(s, c, v) == s.session[c] = v \/ s.group_vts[v] = c

VtForClientOpen(s, c) ==
  IF s.cur_vt > 0 /\ ClientOwnsVt(s, c, s.cur_vt) THEN s.cur_vt ELSE s.session[c]
-----------------------------------------------------------------------------
(***************************************************************************)
(* Giving the seat to a client and taking it away.                         *)
(***************************************************************************)

SeatOpenClient(s, c, f) ==
  LET v == VtForClientOpen(s, c)
      opened == [(IF VtBound THEN VtOpen(s, v) ELSE s) EXCEPT !.dev = SeatActivateDevices(@, c)]
      undone == [opened EXCEPT !.dev = SeatDeactivateDevices(@, c, Path, f)]
  IN CASE \/ s.state[c] \notin {"NEW", "DISABLED"}
          \/ s.active_client # NULL
          \/ VtBound /\ "vt_open" \in f -> s
       [] OTHER ->
          IF "enable" \in f
            THEN IF VtBound THEN VtClose(undone, {v}, f) ELSE undone
            ELSE [opened EXCEPT !.state[c] = "ACTIVE", !.active_client = c]

\* (mutant) The first client is picked on every VT.
CandidateAnywhere(s) == FirstClient(s, Client)

\* The client seat_activate picks if none is queued.
Candidate(s) ==
  FirstClient(s, IF VtBound
                   THEN {c \in Client : s.cur_vt # -1 /\ ClientOwnsVt(s, c, s.cur_vt)}
                   ELSE Client)

\* (mutant) The queued client stays queued.
SeatActivateQueued(s, f) ==
  CASE s.active_client # NULL -> s
    [] s.active_client = NULL /\ s.next_client # NULL -> SeatOpenClient(s, s.next_client, f)
    [] OTHER ->
         IF Candidate(s) = {} THEN s
         ELSE SeatOpenClient(s, CHOOSE c \in Candidate(s) : TRUE, f)

\* (mutant) The queued client is forgotten.
SeatActivateFirst(s, f) ==
  IF s.active_client # NULL \/ Candidate(s) = {} THEN s
  ELSE SeatOpenClient([s EXCEPT !.next_client = NULL], CHOOSE c \in Candidate(s) : TRUE, f)

SeatActivate(s, f) ==
  CASE s.active_client # NULL -> s
    [] s.active_client = NULL /\ s.next_client # NULL ->
         SeatOpenClient([s EXCEPT !.next_client = NULL], s.next_client, f)
    [] OTHER ->
         IF Candidate(s) = {} THEN s
         ELSE SeatOpenClient(s, CHOOSE c \in Candidate(s) : TRUE, f)

\* (mutant) The seat is free without an ack.
SeatDisableClientAtOnce(s, c, f) ==
  [s EXCEPT !.dev = SeatDeactivateDevices(@, c, Path, f), !.state[c] = "DISABLED",
            !.active_client = NULL]

SeatDisableClient(s, c, f) ==
  [s EXCEPT !.dev = SeatDeactivateDevices(@, c, Path, f), !.state[c] = "PENDING_DISABLE"]

\* (mutant) active_client still points at the client.
SeatAckDisableClientKept(s, c, f) ==
  IF s.state[c] # "PENDING_DISABLE" THEN s
  ELSE SeatActivate([s EXCEPT !.state[c] = "DISABLED"], f)

\* (mutant) The seat is not passed on.
SeatAckDisableClientIdle(s, c, f) ==
  IF s.state[c] # "PENDING_DISABLE" THEN s
  ELSE [s EXCEPT !.state[c] = "DISABLED", !.active_client = NULL]

SeatAckDisableClient(s, c, f) ==
  LET u == [s EXCEPT !.state[c] = "DISABLED"]
  IN CASE s.state[c] # "PENDING_DISABLE" -> s
       [] s.state[c] = "PENDING_DISABLE" /\ s.active_client # c -> u
       [] OTHER -> SeatActivate([u EXCEPT !.active_client = NULL], f)
-----------------------------------------------------------------------------
(***************************************************************************)
(* Joining and leaving the seat.                                           *)
(***************************************************************************)

\* The checks of seat_add_client before the VT is looked up.
MayAddClient(s, c) ==
  /\ c \notin Members(s)
  /\ ~(VtBound /\ s.active_client # NULL /\ s.state[s.active_client] # "PENDING_DISABLE")
  /\ s.session[c] = -1

\* (mutant) A VT that could not be looked up is accepted.
VtAcceptsClientUnread(s) ==
  VtBound /\ s.active_client # NULL => \A c \in Members(s) : s.session[c] # s.cur_vt

\* ... and after: s is the seat with the VT looked up.
VtAcceptsClient(s) ==
  VtBound =>
    /\ s.cur_vt # -1
    /\ s.active_client # NULL => \A c \in Members(s) : s.session[c] # s.cur_vt

\* (mutant) Numbers are counted, not searched.
NewSessionCounted(s) == IF VtBound THEN {s.cur_vt} ELSE {Len(s.clients) + 1}

\* The session a new client gets: its VT, or the smallest unused number.
NewSession(s) ==
  IF VtBound THEN {s.cur_vt}
  ELSE LET used == {s.session[c] : c \in Members(s)}
       IN {n \in 1 .. Len(s.clients) + 1 : n \notin used /\ 1 .. n-1 \subseteq used}

SeatAddClient(s, c, n) == [s EXCEPT !.session[c] = n, !.clients = <<c>> \o @]

\* linked_list_remove, on the list as a sequence.
RemoveAt(seq, i) == SubSeq(seq, 1, i-1) \o SubSeq(seq, i+1, Len(seq))

IndexIn(seq, c) == CHOOSE i \in DOMAIN seq : seq[i] = c

SeatRemoveClient(s, c, f) ==
  LET owned == {v \in VT : s.group_vts[v] = c}
      unlinked == [s EXCEPT
        !.next_client = IF @ = c THEN NULL ELSE @,
        !.clients = RemoveAt(@, IndexIn(@, c)),
        !.dev = SeatCloseAllDevices(@, c, f),
        !.group_vts = [v \in VT |-> IF v \in owned THEN NULL ELSE @[v]]]
      gone == IF VtBound THEN VtClose(unlinked, owned, f) ELSE unlinked
      was_current == s.active_client = c
      next == IF was_current THEN SeatActivate([gone EXCEPT !.active_client = NULL], f) ELSE gone
      unused == IF was_current THEN next.active_client = NULL ELSE s.state[c] # "CLOSED"
      cleaned == IF VtBound /\ unused
                   THEN VtClose(next, {s.session[c]}, f) ELSE next
  IN [cleaned EXCEPT !.state[c] = "CLOSED"]
-----------------------------------------------------------------------------
(***************************************************************************)
(* Switching.                                                              *)
(***************************************************************************)

SeatSetNextSession(s, c, n, f) ==
  LET target == FirstClient(s, {x \in Client : s.session[x] = n})
  IN CASE \/ s.state[c] # "ACTIVE"
          \/ n = (IF VtBound THEN s.cur_vt ELSE s.session[c])
          \/ s.pending_vt_switch > 0
          \/ s.next_client # NULL -> s
       [] OTHER ->
          IF VtBound THEN VtSwitch(s, n, f)
          ELSE IF target = {} THEN s
          ELSE SeatDisableClient([s EXCEPT !.next_client = CHOOSE x \in target : TRUE],
                                 s.active_client, f)

SeatVtActivate(s, f) == IF VtBound THEN VtAck(SeatUpdateVt(s, f), f) ELSE s

\* The active client may keep DRM master if seatd itself asked for a switch
\* to another VT of that client.
KeepsDrmMaster(s) ==
  \/ s.active_client = NULL
  \/ s.state[s.active_client] # "ACTIVE"
  \/ s.pending_vt_switch > 0 /\ ClientOwnsVt(s, s.active_client, s.pending_vt_switch)

SeatVtRelease(s, f) ==
  LET u == SeatUpdateVt(s, f)
      dropped == IF KeepsDrmMaster(u) THEN u
                 ELSE [u EXCEPT !.dev = SeatDropClientDrmMaster(@, u.active_client)]
  IN IF VtBound THEN VtAck(dropped, f) ELSE s

SeatGetActiveVt(s, f) == IF VtBound THEN SeatUpdateVt(s, f) ELSE s

SeatSwitchVt(s, v, f) ==
  LET u == SeatUpdateVt(s, f)
  IN CASE ~VtBound \/ "update" \in f -> s
       [] VtBound /\ "update" \notin f /\ (u.cur_vt = v \/ u.pending_vt_switch > 0) -> u
       [] OTHER -> VtSwitch(u, v, f)

SeatCreateGroupVt(s, c, v, f) ==
  IF ~VtBound \/ v = s.session[c] \/ s.group_vts[v] # NULL \/ "vt_open" \in f THEN s
  ELSE [VtOpen(s, v) EXCEPT !.group_vts[v] = c]

SeatDestroyGroupVt(s, v, f) ==
  IF s.group_vts[v] = NULL THEN s
  ELSE [(IF VtBound THEN VtClose(s, {v}, f) ELSE s) EXCEPT !.group_vts[v] = NULL]

\* (mutant) The active client is never disabled.
SeatHandleVtEventPassive(s, new_vt, f) ==
  LET u == [s EXCEPT !.pending_vt_switch = 0, !.cur_vt = new_vt]
  IN IF s.active_client = NULL THEN SeatActivate(u, f) ELSE u

SeatHandleVtEvent(s, new_vt, f) ==
  LET u == [s EXCEPT !.pending_vt_switch = 0, !.cur_vt = new_vt]
      a == s.active_client
  IN CASE a = NULL -> SeatActivate(u, f)
       [] a # NULL /\ ClientOwnsVt(u, a, new_vt) ->
            [u EXCEPT !.dev = SeatRestoreClientDrmMaster(@, a)]
       [] a # NULL /\ ~ClientOwnsVt(u, a, new_vt) /\ s.state[a] = "ACTIVE" ->
            SeatDisableClient(u, a, f)
       [] OTHER -> u
=============================================================================
