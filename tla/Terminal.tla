------------------------------ MODULE Terminal ------------------------------
(***************************************************************************)
(* The virtual terminals (VTs) as seatd sees them, and the ioctls of       *)
(* common/terminal.c through which it drives them.  The console record t   *)
(* holds                                                                   *)
(*   fg      the foreground VT                                             *)
(*   want    a requested VT the console worker has not looked at yet, or 0 *)
(*   newvt   the VT a release of fg was asked for, or 0                    *)
(*   proc    which VTs are in VT_PROCESS mode (switches need our ack)      *)
(*   gfx     which VTs are in KD_GRAPHICS mode with the keyboard off       *)
(*   sig     the VT signals raised in the poller and not yet handled       *)
(*   ev      the switch event parked in the watcher's VT_WAITEVENT, or 0   *)
(*   thread  the watcher thread of server.c: "waiting" in VT_WAITEVENT,    *)
(*           "busy" between two such calls, or "off"                       *)
(*   missed  the latest switch event found no one in VT_WAITEVENT (a       *)
(*           history variable, nothing reads it)                           *)
(*   pipe    the messages the thread has written for the main loop         *)
(* The reactions of the kernel are not part of the repository; they are    *)
(* what src/ relies on: see the operators marked (kernel).                 *)
(***************************************************************************)
EXTENDS Integers, Sequences

CONSTANTS
  VT,             \* the VT numbers in use
  Watcher,        \* whether server_init could start the VT event thread
  PipeCapacity    \* how many messages fit into the event pipe

ASSUME VTAssumption == VT \subseteq Nat \ {0} /\ VT # {}
ASSUME WatcherAssumption == Watcher \in BOOLEAN
ASSUME PipeAssumption == PipeCapacity \in Nat \ {0}

SIGUSR1 == "SIGUSR1"   \* relsig: please release the foreground VT
SIGUSR2 == "SIGUSR2"   \* acqsig: you have been switched to

Console ==
  [fg : VT, want : VT \cup {0}, newvt : VT \cup {0},
   proc : [VT -> BOOLEAN], gfx : [VT -> BOOLEAN],
   sig : SUBSET {SIGUSR1, SIGUSR2}, ev : VT \cup {0},
   thread : {"waiting", "busy", "off"}, missed : BOOLEAN, pipe : Seq(VT)]

\* All VTs are text VTs switched by the kernel alone; v is in front.
BootConsole(v) ==
  [fg |-> v, want |-> 0, newvt |-> 0,
   proc |-> [w \in VT |-> FALSE], gfx |-> [w \in VT |-> FALSE],
   sig |-> {}, ev |-> 0,
   thread |-> IF Watcher THEN "waiting" ELSE "off", missed |-> FALSE, pipe |-> <<>>]
-----------------------------------------------------------------------------
(***************************************************************************)
(* The kernel.                                                             *)
(***************************************************************************)

\* (kernel) A switch event reaches the watcher only while it sits in
\* VT_WAITEVENT; a later event overwrites one it has not returned with.
PostEvent(t, v) ==
  IF t.thread = "waiting" THEN [t EXCEPT !.ev = v, !.missed = FALSE]
                          ELSE [t EXCEPT !.missed = TRUE]

\* (kernel) The switch to v happens.
CompleteSwitch(t, v) ==
  PostEvent([t EXCEPT !.fg = v, !.newvt = 0,
                      !.sig = IF t.proc[v] THEN @ \cup {SIGUSR2} ELSE @], v)

\* (kernel) The console worker takes up the requested VT.  It asks the owner
\* of a VT_PROCESS foreground to release it; it never leaves a graphics VT
\* nobody answers for.
ConsoleWorker(t) ==
  LET u == [t EXCEPT !.want = 0]
  IN CASE t.want = t.fg -> u
       [] t.want # t.fg /\ t.proc[t.fg] ->
            [u EXCEPT !.newvt = t.want, !.sig = @ \cup {SIGUSR1}]
       [] t.want # t.fg /\ ~t.proc[t.fg] /\ t.gfx[t.fg] -> u
       [] OTHER -> CompleteSwitch(u, t.want)
-----------------------------------------------------------------------------
(***************************************************************************)
(* common/terminal.c.                                                      *)
(***************************************************************************)

\* VT_SETMODE on the VTs in V.  It forgets a release asked of a VT.
TerminalSetProcessSwitching(t, V, enable) ==
  [t EXCEPT !.proc = [v \in VT |-> IF v \in V THEN enable ELSE @[v]],
            !.newvt = IF t.fg \in V THEN 0 ELSE @]

\* KDSKBMODE and KDSETMODE; seatd always sets both together.
TerminalSetGraphics(t, V, enable) ==
  [t EXCEPT !.gfx = [v \in VT |-> IF v \in V THEN enable ELSE @[v]]]

\* VT_ACTIVATE only records the wish; ConsoleWorker acts on it.
TerminalSwitchVt(t, v) == [t EXCEPT !.want = v]

\* VT_RELDISP on VT v.  If v has been asked to release, any non-zero argument
\* completes the switch, VT_ACKACQ included; otherwise nothing happens.
TerminalAck(t, v) ==
  IF v = t.fg /\ t.proc[v] /\ t.newvt # 0 THEN CompleteSwitch(t, t.newvt) ELSE t
-----------------------------------------------------------------------------
(***************************************************************************)
(* The watcher thread, server_vt_event_loop.                               *)
(***************************************************************************)

\* VT_WAITEVENT returns and the message is written; the pipe blocks when full.
WatcherCanWrite(t) ==
  t.thread = "waiting" /\ t.ev # 0 /\ Len(t.pipe) < PipeCapacity

\* (mutant) The event is cleared before it is copied into the message.
WatcherWriteCleared(t) ==
  [t EXCEPT !.pipe = Append(@, 0), !.ev = 0, !.thread = "busy"]

WatcherWrite(t) ==
  [t EXCEPT !.pipe = Append(@, t.ev), !.ev = 0, !.thread = "busy"]

\* The thread enters VT_WAITEVENT again.
WatcherCanWait(t) == t.thread = "busy"

WatcherWait(t) == [t EXCEPT !.thread = "waiting"]
=============================================================================
