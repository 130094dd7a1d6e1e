------------------------------- MODULE Launch -------------------------------
(***************************************************************************)
(* How seatd starts and stops (main in seatd/seatd.c) and how seatd-launch *)
(* runs a command with a seatd of its own (seatd-launch.c).  Either a      *)
(* service manager keeps one seatd running, which also has a control       *)
(* socket, or users start several seatd-launch, each with a seatd in -z    *)
(* mode, on the one socket path.  A step is a system call, or several that *)
(* no other process can tell apart.                                        *)
(***************************************************************************)
EXTENDS Naturals

CONSTANTS
  Launcher,   \* instances of seatd-launch
  Service,    \* the instance the service manager runs
  NULL

Instance == Launcher \cup {Service}
Path == {"socket", "control"}

ASSUME InstanceAssumption ==
  Service \notin Launcher /\ "leftover" \notin Instance /\ NULL \notin Instance \cup {"leftover"}

VARIABLES
  managed,   \* seatd runs under a service manager, not under seatd-launch
  file,      \* for each path, the instance whose bind made the file,
             \* "leftover" for one of an earlier process, or NULL
  owner,     \* the launcher that has chowned the socket, or NULL
  pc,        \* what the seatd of an instance does next
  ret,       \* why that seatd is stopping: "ok", "crash", or a failure
  sigterm,   \* SIGTERM was sent to it and not yet handled
  ready,     \* it has written to its readiness pipe
  launch     \* what the seatd-launch of an instance does next

vars == <<managed, file, owner, pc, ret, sigterm, ready, launch>>
socketVars == <<file, owner>>
launchVars == <<managed, ready, launch>>

Init ==
  /\ managed \in BOOLEAN
  /\ file = [p \in Path |-> NULL] /\ owner = NULL
  /\ pc = [d \in Instance |-> "off"] /\ ret = [d \in Instance |-> "ok"]
  /\ sigterm = [d \in Instance |-> FALSE] /\ ready = [d \in Instance |-> FALSE]
  /\ launch = [d \in Instance |-> "none"]

\* Mutant: the option is always set.
unlink_existing_socket_never(d) == FALSE

\* main has an option -z under seatd-launch: unlink_existing_socket is FALSE.
unlink_existing_socket(d) == d = Service
\* The paths of an instance in the order main opens them.
HasControl(d) == d = Service
-----------------------------------------------------------------------------
(***************************************************************************)
(* seatd.                                                                  *)
(***************************************************************************)
\* Program points that main has once for each path.
unlink == [socket |-> "unlink_socket", control |-> "unlink_control"]
bind == [socket |-> "bind_socket", control |-> "bind_control"]
chmod == [socket |-> "chmod_socket", control |-> "chmod_control"]
add == [socket |-> "add_socket", control |-> "add_control"]

Goto(d, from, to) == pc[d] = from /\ pc' = [pc EXCEPT ![d] = to]
Stops(d, why) == ret' = [ret EXCEPT ![d] = why]
Removed(p) ==
  /\ file' = [file EXCEPT ![p] = NULL]
  /\ owner' = IF p = "socket" THEN NULL ELSE owner

\* lstat of a path: nothing there is the best; a socket is removed, unless -z.
Lstat(d, p, here, next) ==
  /\ pc[d] = here
  /\ CASE file[p] = NULL -> Goto(d, here, next) /\ UNCHANGED ret
       [] file[p] # NULL /\ ~unlink_existing_socket(d) -> Goto(d, here, "off") /\ Stops(d, "refused")
       [] OTHER -> Goto(d, here, unlink[p]) /\ UNCHANGED ret
  /\ UNCHANGED <<socketVars, sigterm, launchVars>>

UnlinkLeftover(d, p, next) ==
  /\ Goto(d, unlink[p], next)
  /\ Removed(p)
  /\ UNCHANGED <<ret, sigterm, launchVars>>

\* server_init installs the signal handlers.
server_init(d, ok) ==
  /\ Goto(d, "server_init", IF ok THEN "bind_socket" ELSE "off")
  /\ IF ok THEN UNCHANGED ret ELSE Stops(d, "error")
  /\ UNCHANGED <<socketVars, sigterm, launchVars>>

\* open_socket_internal up to bind, which fails on a path that is taken, and
\* the jump to a label of main's end when it fails.
Bind(d, p, label) ==
  /\ pc[d] = bind[p]
  /\ IF file[p] = NULL
     THEN /\ pc' = [pc EXCEPT ![d] = chmod[p]]
          /\ file' = [file EXCEPT ![p] = d]
          /\ UNCHANGED ret
     ELSE pc' = [pc EXCEPT ![d] = label] /\ Stops(d, "error") /\ UNCHANGED file
  /\ UNCHANGED <<owner, sigterm, launchVars>>

\* The rest of it: a failure closes the descriptor and leaves the file.
Chmod(d, p, ok, next, label) ==
  /\ Goto(d, chmod[p], IF ok THEN next ELSE label)
  /\ IF ok THEN UNCHANGED ret ELSE Stops(d, "chmod")
  /\ UNCHANGED <<socketVars, sigterm, launchVars>>

\* poller_add_fd for the socket, or for the control socket.
AddToPoller(d, p, ok, next, label) ==
  /\ Goto(d, add[p], IF ok THEN next ELSE label)
  /\ IF ok THEN UNCHANGED ret ELSE Stops(d, "error")
  /\ UNCHANGED <<socketVars, sigterm, launchVars>>

\* Mutant: every failure to open the socket removes the path.
OpenSocketRemoving(d) ==
  \/ Bind(d, "socket", "error_socket")
  \/ \E ok \in BOOLEAN : Chmod(d, "socket", ok, "add_socket", "error_socket")
  \/ \E ok \in BOOLEAN :
       AddToPoller(d, "socket", ok, IF HasControl(d) THEN "bind_control" ELSE "ready", "error_socket")

\* Mutant: a poller that cannot take the socket leaves the path.
OpenSocketLeaving(d) ==
  \/ Bind(d, "socket", "error_server")
  \/ \E ok \in BOOLEAN : Chmod(d, "socket", ok, "add_socket", "error_server")
  \/ \E ok \in BOOLEAN :
       AddToPoller(d, "socket", ok, IF HasControl(d) THEN "bind_control" ELSE "ready", "error_server")

OpenSocket(d) ==
  \/ Bind(d, "socket", "error_server")
  \/ \E ok \in BOOLEAN : Chmod(d, "socket", ok, "add_socket", "error_server")
  \/ \E ok \in BOOLEAN :
       AddToPoller(d, "socket", ok, IF HasControl(d) THEN "bind_control" ELSE "ready", "error_socket")

OpenControlSocket(d) ==
  \/ Bind(d, "control", "error_socket")
  \/ \E ok \in BOOLEAN : Chmod(d, "control", ok, "add_control", "error_socket")
  \/ \E ok \in BOOLEAN : AddToPoller(d, "control", ok, "ready", "error_control")

WriteReadiness(d) ==
  /\ Goto(d, "ready", "run")
  /\ ready' = [ready EXCEPT ![d] = TRUE]
  /\ UNCHANGED <<managed, socketVars, ret, sigterm, launch>>

\* The loop ends when server.running is cleared, or when poller_poll fails.
MainLoopEnds(d, ok) ==
  /\ Goto(d, "run", IF HasControl(d) THEN "error_control" ELSE "error_socket")
  /\ ok => sigterm[d]
  /\ Stops(d, IF ok THEN "ok" ELSE "error")
  /\ sigterm' = [sigterm EXCEPT ![d] = FALSE]
  /\ UNCHANGED <<socketVars, launchVars>>

\* The labels of main's end; server_finish and exit are the last step.
Unlink(d, p, here, next) ==
  /\ Goto(d, here, next)
  /\ Removed(p)
  /\ UNCHANGED <<ret, sigterm, launchVars>>

Exit(d) ==
  /\ Goto(d, "error_server", "off")
  /\ sigterm' = [sigterm EXCEPT ![d] = FALSE]
  /\ UNCHANGED <<socketVars, ret, launchVars>>

\* SIGTERM before server_init has its default action.
Killed(d) ==
  /\ pc[d] \in {"lstat_socket", "lstat_control", "unlink_socket", "unlink_control", "server_init"}
  /\ sigterm[d]
  /\ pc' = [pc EXCEPT ![d] = "off"] /\ Stops(d, "error")
  /\ sigterm' = [sigterm EXCEPT ![d] = FALSE]
  /\ UNCHANGED <<socketVars, launchVars>>

Crash(d) ==
  /\ pc[d] # "off"
  /\ pc' = [pc EXCEPT ![d] = "off"] /\ Stops(d, "crash")
  /\ sigterm' = [sigterm EXCEPT ![d] = FALSE]
  /\ UNCHANGED <<socketVars, launchVars>>

Main(d) ==
  \/ Lstat(d, "socket", "lstat_socket", IF HasControl(d) THEN "lstat_control" ELSE "server_init")
  \/ Lstat(d, "control", "lstat_control", "server_init")
  \/ UnlinkLeftover(d, "socket", "lstat_control")
  \/ UnlinkLeftover(d, "control", "server_init")
  \/ \E ok \in BOOLEAN : server_init(d, ok)
  \/ OpenSocket(d) \/ OpenControlSocket(d) \/ WriteReadiness(d)
  \/ MainLoopEnds(d, TRUE)
  \/ Unlink(d, "control", "error_control", "error_socket")
  \/ Unlink(d, "socket", "error_socket", "error_server")
  \/ Exit(d) \/ Killed(d)

\* A new process; a file that an earlier one of this instance made is no longer its.
Exec(d) ==
  /\ pc' = [pc EXCEPT ![d] = "lstat_socket"]
  /\ sigterm' = [sigterm EXCEPT ![d] = FALSE]
  /\ ready' = [ready EXCEPT ![d] = FALSE]
  /\ ret' = [ret EXCEPT ![d] = "ok"]
  /\ file' = [p \in Path |-> IF file[p] = d THEN "leftover" ELSE file[p]]

\* The service manager starts seatd, and stops it.
ServiceStarts ==
  /\ managed /\ pc[Service] = "off"
  /\ Exec(Service)
  /\ UNCHANGED <<managed, owner, launch>>

ServiceStops ==
  /\ managed /\ pc[Service] # "off"
  /\ sigterm' = [sigterm EXCEPT ![Service] = TRUE]
  /\ UNCHANGED <<socketVars, pc, ret, launchVars>>
-----------------------------------------------------------------------------
(***************************************************************************)
(* seatd-launch.                                                           *)
(***************************************************************************)
Step(l, from, to) == launch[l] = from /\ launch' = [launch EXCEPT ![l] = to]

\* pipe and fork; the last instance's seatd is gone.
StartSeatd(l) ==
  /\ ~managed /\ pc[l] = "off" /\ Step(l, "none", "wait")
  /\ Exec(l)
  /\ UNCHANGED <<managed, owner>>

\* The loop that waits for seatd: waitpid comes before the pipe, and poll times
\* out, so that an exit is always noticed.
AwaitReady(l) ==
  /\ pc[l] = "off" \/ ready[l]
  /\ Step(l, "wait", IF pc[l] = "off" THEN "error_seatd" ELSE "chown")
  /\ UNCHANGED <<managed, socketVars, pc, ret, sigterm, ready>>

\* chown and chmod of SEATD_DEFAULTPATH fail if nothing is there.
ChownSocket(l, ok) ==
  /\ ok => file["socket"] # NULL
  /\ Step(l, "chown", IF ok THEN "setuid" ELSE "error_seatd")
  /\ owner' = IF ok THEN l ELSE owner
  /\ UNCHANGED <<managed, file, pc, ret, sigterm, ready>>

\* Mutant: a failure jumps over the kill.
StartCommandLeaking(l, ok) ==
  /\ Step(l, "setuid", IF ok THEN "command" ELSE "none")
  /\ UNCHANGED <<managed, socketVars, pc, ret, sigterm, ready>>

\* setgid, setuid and fork of the command.
StartCommand(l, ok) ==
  /\ Step(l, "setuid", IF ok THEN "command" ELSE "error_seatd")
  /\ UNCHANGED <<managed, socketVars, pc, ret, sigterm, ready>>

CommandEnds(l) ==
  /\ Step(l, "command", "error_seatd")
  /\ UNCHANGED <<managed, socketVars, pc, ret, sigterm, ready>>

\* kill(seatd_child, SIGTERM), after the command and on every error alike.
KillSeatd(l) ==
  /\ Step(l, "error_seatd", "none")
  /\ sigterm' = [sigterm EXCEPT ![l] = pc[l] # "off"]
  /\ UNCHANGED <<managed, socketVars, pc, ret, ready>>

SeatdLaunch(l) ==
  \/ AwaitReady(l)
  \/ \E ok \in BOOLEAN : ChownSocket(l, ok) \/ StartCommand(l, ok)
  \/ KillSeatd(l)

Next ==
  \/ \E d \in Instance : Main(d) \/ MainLoopEnds(d, FALSE) \/ Crash(d)
  \/ ServiceStarts \/ ServiceStops
  \/ \E l \in Launcher : StartSeatd(l) \/ SeatdLaunch(l) \/ CommandEnds(l)

Spec == Init /\ [][Next]_vars
-----------------------------------------------------------------------------
(***************************************************************************)
(* Safety.                                                                 *)
(***************************************************************************)
Points == {"off", "lstat_socket", "lstat_control", "server_init", "ready", "run", "error_control",
  "error_socket", "error_server"} \cup UNION {{unlink[p], bind[p], chmod[p], add[p]} : p \in Path}

\* Only the instances of the chosen setting run, and a seatd without a control
\* socket never reaches its code.
TypeOK ==
  /\ managed \in BOOLEAN
  /\ file \in [Path -> Instance \cup {"leftover", NULL}] /\ owner \in Launcher \cup {NULL}
  /\ pc \in [Instance -> Points] /\ ret \in [Instance -> {"ok", "error", "refused", "chmod", "crash"}]
  /\ sigterm \in [Instance -> BOOLEAN] /\ ready \in [Instance -> BOOLEAN]
  /\ launch \in [Instance -> {"none", "wait", "chown", "setuid", "command", "error_seatd"}]
  /\ \A d \in Instance : pc[d] # "off" => (d = Service) = managed
  /\ \A l \in Launcher : pc[l] \notin {"lstat_control", "error_control"} \cup {unlink[p] : p \in Path}

\* A seatd that has bound its path and not yet come to remove it.
Serves(d) ==
  pc[d] \in {chmod[p] : p \in Path} \cup {add[p] : p \in Path}
            \cup {"bind_control", "ready", "run", "error_control", "error_socket"}

\* "We do not unlink files to protect against multiple instances": as long as a
\* seatd runs, the socket at the path is its own, however many others are
\* started, fail or stop meanwhile.
SocketIsOurs == \A d \in Instance : Serves(d) => file["socket"] = d

\* A seatd that stops leaves no file behind, except if it crashed or could not
\* set the mode of a file it had made.
NothingLeft ==
  \A d \in Instance, p \in Path : file[p] = d /\ pc[d] = "off" => ret[d] \in {"crash", "chmod"}
-----------------------------------------------------------------------------
(***************************************************************************)
(* Liveness: seatd and seatd-launch run until they wait; commands end; the *)
(* service manager restarts seatd.                                         *)
(***************************************************************************)
Fairness ==
  /\ \A d \in Instance : WF_vars(Main(d))
  /\ \A l \in Launcher : WF_vars(SeatdLaunch(l))
  /\ WF_vars(ServiceStarts)

FairSpec == Spec /\ Fairness

\* "Once the specified command terminates, the seatd instance is also
\* terminated": a seatd does not outlive the seatd-launch that started it,
\* whether a command ran or a step before it failed.
SeatdStopsWithLaunch ==
  \A l \in Launcher : launch[l] = "none" ~> pc[l] = "off"

\* The service comes back after whatever happened to it: leftover files never
\* keep it from starting.
ServiceReturns ==
  managed => []<>(pc[Service] = "run" \/ ret[Service] \notin {"ok", "refused"} \/ sigterm[Service])
=============================================================================
