---------------------------- MODULE LaunchProofs ----------------------------
(***************************************************************************)
(* Who owns the socket path, for every number of seatd-launch: a running   *)
(* seatd finds its own socket there, and one that stops leaves nothing.    *)
(***************************************************************************)
EXTENDS Launch, TLAPS

\* The program points of main: before the first bind, while the socket's path
\* is seatd's, and those of them at which the control path is.
Early == {"lstat_socket", "lstat_control", "unlink_socket", "unlink_control", "server_init",
          "bind_socket"}
Serving == {"chmod_socket", "add_socket", "bind_control", "chmod_control", "add_control",
            "ready", "run", "error_control", "error_socket"}
Controlling == {"chmod_control", "add_control", "ready", "run", "error_control"}

\* The points at which only a seatd with a control socket can be.
WithControl == {"lstat_control", "unlink_socket", "unlink_control", "bind_control",
                "chmod_control", "add_control", "error_control"}

Outcomes == {"ok", "error", "refused", "chmod", "crash"}

\* The inductive invariant: besides the type and SocketIsOurs, a file that an
\* instance made is its to remove, or stays behind for a reason.
IInv ==
  /\ TypeOK
  /\ \A d \in Instance : pc[d] \in Serving => file["socket"] = d
  /\ \A d \in Instance : file["socket"] = d =>
       \/ pc[d] \in Serving
       \/ pc[d] \in {"error_server", "off"} /\ ret[d] \in {"crash", "chmod"}
  /\ \A d \in Instance : file["control"] = d =>
       \/ pc[d] \in Controlling
       \/ pc[d] \in {"error_socket", "error_server", "off"} /\ ret[d] \in {"crash", "chmod"}
  /\ \A l \in Launcher : pc[l] \notin WithControl /\ file["control"] # l
-----------------------------------------------------------------------------
\* The points of main that exist once for each path.
LEMMA Names ==
  /\ unlink["socket"] = "unlink_socket" /\ unlink["control"] = "unlink_control"
  /\ bind["socket"] = "bind_socket" /\ bind["control"] = "bind_control"
  /\ chmod["socket"] = "chmod_socket" /\ chmod["control"] = "chmod_control"
  /\ add["socket"] = "add_socket" /\ add["control"] = "add_control"
BY DEF unlink, bind, chmod, add

\* All of them.
LEMMA PointsAre == Points = {"off", "error_server"} \cup Early \cup Serving
BY Names DEF Points, Path, Early, Serving

\* Serves, in words.
LEMMA ServesIs == ASSUME NEW d PROVE Serves(d) <=> pc[d] \in Serving
BY Names DEF Serves, Path, Serving

\* The points at which a leftover file is removed.
LEMMA UnlinkPoints == {unlink[p] : p \in Path} = {"unlink_socket", "unlink_control"}
BY Names DEF Path

\* The invariant holds at first.
LEMMA InitHolds == Init => IInv
<1> SUFFICES ASSUME Init PROVE IInv
  OBVIOUS
<1>1. TypeOK
  BY PointsAre, UnlinkPoints, InstanceAssumption DEF TypeOK, Init, Instance, Serving, Early
<1> QED
  BY <1>1, InstanceAssumption DEF Init, IInv, Instance, Path, Serving, Controlling, WithControl
-----------------------------------------------------------------------------
\* A seatd that moves from one point to another keeps the invariant if it
\* leaves the files alone and both points say the same of them.
LEMMA MoveKeeps ==
  ASSUME IInv, NEW d \in Instance, NEW q \in {"off", "error_server"} \cup Early \cup Serving,
         NEW w \in Outcomes,
         pc[d] # "off", d \in Launcher => q \notin WithControl,
         pc' = [pc EXCEPT ![d] = q], ret' = [ret EXCEPT ![d] = w],
         q \in Serving => pc[d] \in Serving,
         file["socket"] = d => q \in Serving \/ (q \in {"error_server", "off"} /\ w \in {"crash", "chmod"}),
         file["control"] = d =>
           q \in Controlling \/ (q \in {"error_socket", "error_server", "off"} /\ w \in {"crash", "chmod"}),
         sigterm' \in [Instance -> BOOLEAN], ready' \in [Instance -> BOOLEAN],
         UNCHANGED <<file, owner, managed, launch>>
  PROVE  IInv'
<1>1. /\ pc \in [Instance -> Points] /\ ret \in [Instance -> Outcomes] /\ Launcher \subseteq Instance
  BY DEF IInv, TypeOK, Instance, Outcomes
<1>2. TypeOK'
  BY <1>1, PointsAre, UnlinkPoints DEF IInv, TypeOK, WithControl, Outcomes
<1> QED
  BY <1>1, <1>2 DEF IInv

\* What a step may use of the type, and that only one kind of instance runs.
LEMMA Facts ==
  ASSUME IInv
  PROVE  /\ pc \in [Instance -> Points] /\ ret \in [Instance -> Outcomes]
         /\ file \in [Path -> Instance \cup {"leftover", NULL}]
         /\ sigterm \in [Instance -> BOOLEAN] /\ ready \in [Instance -> BOOLEAN]
         /\ Launcher \subseteq Instance /\ Service \in Instance /\ NULL \notin Instance
         /\ \A d \in Instance : d # Service => d \in Launcher
         /\ "socket" \in DOMAIN file /\ "control" \in DOMAIN file
         /\ pc[Service] # "off" => \A l \in Launcher : pc[l] = "off"
BY InstanceAssumption DEF IInv, TypeOK, Instance, Outcomes, Path

\* lstat of a path, before server_init.
LEMMA LstatKeeps ==
  ASSUME IInv, NEW d \in Instance,
         \/ Lstat(d, "socket", "lstat_socket",
                  IF HasControl(d) THEN "lstat_control" ELSE "server_init")
         \/ Lstat(d, "control", "lstat_control", "server_init")
  PROVE  IInv'
<1>1. PICK q \in Early \cup {"off"}, w \in Outcomes :
        /\ pc[d] \in {"lstat_socket", "lstat_control"}
        /\ pc' = [pc EXCEPT ![d] = q] /\ ret' = [ret EXCEPT ![d] = w]
        /\ d \in Launcher => q \notin WithControl
  <2>1. ret = [ret EXCEPT ![d] = ret[d]] /\ ret[d] \in Outcomes
    BY Facts
  <2>2. d \in Launcher => d # Service /\ pc[d] # "lstat_control"
    BY InstanceAssumption DEF IInv, WithControl
  <2>3. pc[d] \in {"lstat_socket", "lstat_control"}
    BY DEF Lstat
  <2>4. CASE Lstat(d, "socket", "lstat_socket",
                   IF HasControl(d) THEN "lstat_control" ELSE "server_init")
    BY <2>1, <2>2, <2>3, <2>4, Names, Facts
       DEF Lstat, Goto, Stops, unlink_existing_socket, HasControl, Early, WithControl, Outcomes
  <2>5. CASE Lstat(d, "control", "lstat_control", "server_init")
    BY <2>1, <2>2, <2>3, <2>5, Names, Facts
       DEF Lstat, Goto, Stops, unlink_existing_socket, Early, WithControl, Outcomes
  <2> QED
    BY <2>4, <2>5
<1>2. file["socket"] # d /\ file["control"] # d
  BY <1>1 DEF IInv, Serving, Controlling
<1>3. UNCHANGED <<file, owner, sigterm, managed, ready, launch>>
  BY DEF Lstat, socketVars, launchVars
<1> QED
  BY <1>1, <1>2, <1>3, Facts, MoveKeeps DEF Early, Serving

\* server_init and the default action of SIGTERM.
LEMMA EarlyKeeps ==
  ASSUME IInv, NEW d \in Instance,
         (\E ok \in BOOLEAN : server_init(d, ok)) \/ Killed(d)
  PROVE  IInv'
<1>1. PICK q \in {"bind_socket", "off"}, w \in Outcomes :
        /\ pc[d] \in Early
        /\ pc' = [pc EXCEPT ![d] = q] /\ ret' = [ret EXCEPT ![d] = w]
        /\ sigterm' \in [Instance -> BOOLEAN]
        /\ UNCHANGED <<file, owner, managed, ready, launch>>
  <2>1. ret = [ret EXCEPT ![d] = ret[d]] /\ ret[d] \in Outcomes
    BY Facts
  <2>2. CASE Killed(d)
    BY <2>2, Facts DEF Killed, Stops, socketVars, launchVars, Early, Outcomes
  <2>3. ASSUME NEW ok \in BOOLEAN, server_init(d, ok)
        PROVE  \E q \in {"bind_socket", "off"}, w \in Outcomes :
                 /\ pc[d] \in Early
                 /\ pc' = [pc EXCEPT ![d] = q] /\ ret' = [ret EXCEPT ![d] = w]
                 /\ sigterm' \in [Instance -> BOOLEAN]
                 /\ UNCHANGED <<file, owner, managed, ready, launch>>
    BY <2>1, <2>3, Facts DEF server_init, Goto, Stops, socketVars, launchVars, Early, Outcomes
  <2> QED
    BY <2>2, <2>3
<1>2. file["socket"] # d /\ file["control"] # d
  BY <1>1 DEF IInv, Early, Serving, Controlling
<1> QED
  BY <1>1, <1>2, Facts, MoveKeeps DEF Early, Serving, WithControl

\* The steps after the first bind that leave the files alone.
LEMMA LateKeeps ==
  ASSUME IInv, NEW d \in Instance,
         \/ \E ok \in BOOLEAN : Chmod(d, "socket", ok, "add_socket", "error_server")
         \/ \E ok \in BOOLEAN :
              AddToPoller(d, "socket", ok, IF HasControl(d) THEN "bind_control" ELSE "ready",
                          "error_socket")
         \/ \E ok \in BOOLEAN : Chmod(d, "control", ok, "add_control", "error_socket")
         \/ \E ok \in BOOLEAN : AddToPoller(d, "control", ok, "ready", "error_control")
         \/ WriteReadiness(d) \/ Exit(d) \/ Crash(d)
         \/ \E ok \in BOOLEAN : MainLoopEnds(d, ok)
  PROVE  IInv'
<1>1. ret = [ret EXCEPT ![d] = ret[d]] /\ ret[d] \in Outcomes
  BY Facts
<1>2. d \in Launcher => d # Service
  BY InstanceAssumption
<1>3. ASSUME NEW ok \in BOOLEAN, Chmod(d, "socket", ok, "add_socket", "error_server") PROVE IInv'
  <2>1. pc[d] = "chmod_socket" /\ file["control"] # d
    BY <1>3, Names DEF Chmod, Goto, IInv, Controlling
  <2>2. /\ pc' = [pc EXCEPT ![d] = IF ok THEN "add_socket" ELSE "error_server"]
        /\ ret' = [ret EXCEPT ![d] = IF ok THEN ret[d] ELSE "chmod"]
        /\ UNCHANGED <<file, owner, sigterm, managed, ready, launch>>
    BY <1>1, <1>3 DEF Chmod, Goto, Stops, socketVars, launchVars
  <2> QED
    BY <1>1, <2>1, <2>2, Facts, MoveKeeps DEF Serving, WithControl, Outcomes
<1>4. ASSUME NEW ok \in BOOLEAN, Chmod(d, "control", ok, "add_control", "error_socket") PROVE IInv'
  <2>1. pc[d] = "chmod_control"
    BY <1>4, Names DEF Chmod, Goto
  <2>2. /\ pc' = [pc EXCEPT ![d] = IF ok THEN "add_control" ELSE "error_socket"]
        /\ ret' = [ret EXCEPT ![d] = IF ok THEN ret[d] ELSE "chmod"]
        /\ UNCHANGED <<file, owner, sigterm, managed, ready, launch>>
    BY <1>1, <1>4 DEF Chmod, Goto, Stops, socketVars, launchVars
  <2>3. d \notin Launcher
    BY <2>1 DEF IInv, WithControl
  <2> QED
    BY <1>1, <2>1, <2>2, <2>3, Facts, MoveKeeps DEF Serving, Controlling, Outcomes
<1>5. ASSUME NEW ok \in BOOLEAN,
             AddToPoller(d, "socket", ok, IF HasControl(d) THEN "bind_control" ELSE "ready",
                         "error_socket")
      PROVE  IInv'
  <2>1. pc[d] = "add_socket" /\ file["control"] # d
    BY <1>5, Names DEF AddToPoller, Goto, IInv, Controlling
  <2>2. /\ pc' = [pc EXCEPT ![d] = IF ok THEN IF d = Service THEN "bind_control" ELSE "ready"
                                         ELSE "error_socket"]
        /\ ret' = [ret EXCEPT ![d] = IF ok THEN ret[d] ELSE "error"]
        /\ UNCHANGED <<file, owner, sigterm, managed, ready, launch>>
    BY <1>1, <1>5 DEF AddToPoller, Goto, Stops, HasControl, socketVars, launchVars
  <2> QED
    BY <1>1, <1>2, <2>1, <2>2, Facts, MoveKeeps DEF Serving, WithControl, Outcomes
<1>6. ASSUME NEW ok \in BOOLEAN, AddToPoller(d, "control", ok, "ready", "error_control") PROVE IInv'
  <2>1. pc[d] = "add_control"
    BY <1>6, Names DEF AddToPoller, Goto
  <2>2. /\ pc' = [pc EXCEPT ![d] = IF ok THEN "ready" ELSE "error_control"]
        /\ ret' = [ret EXCEPT ![d] = IF ok THEN ret[d] ELSE "error"]
        /\ UNCHANGED <<file, owner, sigterm, managed, ready, launch>>
    BY <1>1, <1>6 DEF AddToPoller, Goto, Stops, socketVars, launchVars
  <2>3. d \notin Launcher
    BY <2>1 DEF IInv, WithControl
  <2> QED
    BY <1>1, <2>1, <2>2, <2>3, Facts, MoveKeeps DEF Serving, Controlling, Outcomes
<1>7. CASE WriteReadiness(d)
  <2>1. /\ pc[d] = "ready" /\ pc' = [pc EXCEPT ![d] = "run"] /\ ret' = [ret EXCEPT ![d] = ret[d]]
        /\ ready' \in [Instance -> BOOLEAN]
        /\ UNCHANGED <<file, owner, sigterm, managed, launch>>
    BY <1>1, <1>7, Facts DEF WriteReadiness, Goto, socketVars
  <2> QED
    BY <1>1, <2>1, Facts, MoveKeeps DEF Serving, Controlling, WithControl
<1>8. CASE Exit(d)
  <2>1. /\ pc[d] = "error_server" /\ pc' = [pc EXCEPT ![d] = "off"]
        /\ ret' = [ret EXCEPT ![d] = ret[d]] /\ sigterm' \in [Instance -> BOOLEAN]
        /\ UNCHANGED <<file, owner, managed, ready, launch>>
    BY <1>1, <1>8, Facts DEF Exit, Goto, socketVars, launchVars
  <2>2. /\ file["socket"] = d => ret[d] \in {"crash", "chmod"}
        /\ file["control"] = d => ret[d] \in {"crash", "chmod"}
    BY <2>1 DEF IInv, Serving, Controlling
  <2> QED
    BY <1>1, <2>1, <2>2, Facts, MoveKeeps DEF Serving, WithControl
<1>9. CASE Crash(d)
  <2>1. /\ pc[d] # "off" /\ pc' = [pc EXCEPT ![d] = "off"]
        /\ ret' = [ret EXCEPT ![d] = "crash"] /\ sigterm' \in [Instance -> BOOLEAN]
        /\ UNCHANGED <<file, owner, managed, ready, launch>>
    BY <1>9, Facts DEF Crash, Stops, socketVars, launchVars
  <2> QED
    BY <2>1, Facts, MoveKeeps DEF Serving, WithControl, Outcomes
<1>10. ASSUME NEW ok \in BOOLEAN, MainLoopEnds(d, ok) PROVE IInv'
  <2>1. /\ pc[d] = "run"
        /\ pc' = [pc EXCEPT ![d] = IF d = Service THEN "error_control" ELSE "error_socket"]
        /\ ret' = [ret EXCEPT ![d] = IF ok THEN "ok" ELSE "error"]
        /\ sigterm' \in [Instance -> BOOLEAN]
        /\ UNCHANGED <<file, owner, managed, ready, launch>>
    BY <1>10, Facts DEF MainLoopEnds, Goto, Stops, HasControl, socketVars, launchVars
  <2>2. d \in Launcher => file["control"] # d
    BY <2>1 DEF IInv
  <2> QED
    BY <1>2, <2>1, <2>2, Facts, MoveKeeps DEF Serving, Controlling, WithControl, Outcomes
<1> QED
  BY <1>3, <1>4, <1>5, <1>6, <1>7, <1>8, <1>9, <1>10

\* bind of a path: it makes the file or changes none.
LEMMA BindKeeps ==
  ASSUME IInv, NEW d \in Instance,
         Bind(d, "socket", "error_server") \/ Bind(d, "control", "error_socket")
  PROVE  IInv'
<1>1. ret = [ret EXCEPT ![d] = ret[d]] /\ ret[d] \in Outcomes
  BY Facts
<1>2. CASE Bind(d, "socket", "error_server") /\ file["socket"] # NULL
  <2>1. /\ pc[d] = "bind_socket" /\ pc' = [pc EXCEPT ![d] = "error_server"]
        /\ ret' = [ret EXCEPT ![d] = "error"]
        /\ UNCHANGED <<file, owner, sigterm, managed, ready, launch>>
    BY <1>2, Names DEF Bind, Stops, launchVars
  <2>2. file["socket"] # d /\ file["control"] # d
    BY <2>1 DEF IInv, Serving, Controlling
  <2> QED
    BY <2>1, <2>2, Facts, MoveKeeps DEF Serving, WithControl, Outcomes
<1>3. CASE Bind(d, "control", "error_socket") /\ file["control"] # NULL
  <2>1. /\ pc[d] = "bind_control" /\ pc' = [pc EXCEPT ![d] = "error_socket"]
        /\ ret' = [ret EXCEPT ![d] = "error"]
        /\ UNCHANGED <<file, owner, sigterm, managed, ready, launch>>
    BY <1>3, Names DEF Bind, Stops, launchVars
  <2>2. file["control"] # d
    BY <2>1 DEF IInv, Controlling
  <2> QED
    BY <2>1, <2>2, Facts, MoveKeeps DEF Serving, WithControl, Outcomes
<1>4. CASE Bind(d, "socket", "error_server") /\ file["socket"] = NULL
  <2>1. /\ pc[d] = "bind_socket" /\ pc' = [pc EXCEPT ![d] = "chmod_socket"]
        /\ file' = [file EXCEPT !["socket"] = d]
        /\ UNCHANGED <<ret, owner, sigterm, managed, ready, launch>>
    BY <1>4, Names DEF Bind, launchVars
  <2>2. /\ file'["socket"] = d /\ file'["control"] = file["control"] /\ file["control"] # d
        /\ file' \in [Path -> Instance \cup {"leftover", NULL}]
    BY <2>1, Facts DEF IInv, Controlling, Path
  <2>3. TypeOK'
    <3>1. pc' \in [Instance -> Points]
      BY <2>1, PointsAre DEF IInv, TypeOK, Serving
    <3>2. \A e \in Instance : pc'[e] = IF e = d THEN "chmod_socket" ELSE pc[e]
      BY <2>1, Facts
    <3> QED
      BY <2>1, <2>2, <3>1, <3>2, Facts, UnlinkPoints DEF IInv, TypeOK
  <2>4. \A e \in Instance : e # d => pc'[e] = pc[e] /\ pc[e] \notin Serving
    BY <1>4, <2>1, Facts DEF IInv
  <2> QED
    BY <2>1, <2>2, <2>3, <2>4, Facts DEF IInv, Serving, WithControl
<1>5. CASE Bind(d, "control", "error_socket") /\ file["control"] = NULL
  <2>1. /\ pc[d] = "bind_control" /\ pc' = [pc EXCEPT ![d] = "chmod_control"]
        /\ file' = [file EXCEPT !["control"] = d]
        /\ UNCHANGED <<ret, owner, sigterm, managed, ready, launch>>
    BY <1>5, Names DEF Bind, launchVars
  <2>2. /\ file'["control"] = d /\ file'["socket"] = file["socket"] /\ d \notin Launcher
        /\ file' \in [Path -> Instance \cup {"leftover", NULL}]
    BY <2>1, Facts DEF IInv, WithControl, Path
  <2>3. TypeOK'
    BY <2>1, <2>2, Facts, PointsAre, UnlinkPoints DEF IInv, TypeOK, Outcomes, Serving
  <2>4. \A e \in Instance : pc'[e] = IF e = d THEN "chmod_control" ELSE pc[e]
    BY <2>1, Facts
  <2> QED
    BY <2>1, <2>2, <2>3, <2>4, Facts DEF IInv, Serving, Controlling
<1> QED
  BY <1>2, <1>3, <1>4, <1>5

\* Removing a file: a leftover one before server_init, or seatd's own at the
\* labels of main's end.
LEMMA UnlinkKeeps ==
  ASSUME IInv, NEW d \in Instance, NEW p \in Path, NEW q,
         Removed(p), UNCHANGED <<ret, sigterm, managed, ready, launch>>,
         pc' = [pc EXCEPT ![d] = q],
         \/ /\ p = "socket" /\ pc[d] = "unlink_socket" /\ q = "lstat_control"
         \/ /\ p = "control" /\ pc[d] = "unlink_control" /\ q = "server_init"
         \/ /\ p = "control" /\ pc[d] = "error_control" /\ q = "error_socket"
         \/ /\ p = "socket" /\ pc[d] = "error_socket" /\ q = "error_server"
  PROVE  IInv'
<1>1. /\ file' \in [Path -> Instance \cup {"leftover", NULL}] /\ file'[p] = NULL
      /\ \A o \in Path : o # p => file'[o] = file[o]
      /\ owner' \in Launcher \cup {NULL}
  BY Facts DEF Removed, IInv, TypeOK
<1>2. \A e \in Instance : pc'[e] = IF e = d THEN q ELSE pc[e]
  BY Facts
<1>3. pc[d] # "error_socket" => d = Service
  BY Facts DEF IInv, WithControl
<1>4. TypeOK'
  BY <1>1, <1>3, Facts, PointsAre, UnlinkPoints, InstanceAssumption
     DEF IInv, TypeOK, Outcomes, Serving, Early
<1>5. p = "socket" => \A e \in Instance : e # d => pc[e] \notin Serving
  <2>1. CASE pc[d] = "error_socket"
    BY <2>1, Facts DEF IInv, Serving
  <2>2. CASE pc[d] # "error_socket"
    BY <1>3, <2>2, Facts DEF Serving
  <2> QED
    BY <2>1, <2>2
<1>6. "socket" \in Path /\ "control" \in Path /\ NULL \notin Instance
  BY Facts DEF Path
<1>7. \A e \in Instance : pc'[e] \in Serving => file'["socket"] = e
  BY <1>1, <1>2, <1>5, <1>6 DEF IInv, Serving, Path
<1>8. \A e \in Instance : file'["socket"] = e =>
       \/ pc'[e] \in Serving
       \/ pc'[e] \in {"error_server", "off"} /\ ret'[e] \in {"crash", "chmod"}
  BY <1>1, <1>2, <1>6 DEF IInv, Serving, Path
<1>9. \A e \in Instance : file'["control"] = e =>
       \/ pc'[e] \in Controlling
       \/ pc'[e] \in {"error_socket", "error_server", "off"} /\ ret'[e] \in {"crash", "chmod"}
  BY <1>1, <1>2, <1>6 DEF IInv, Controlling, Path
<1>10. \A l \in Launcher : pc'[l] \notin WithControl /\ file'["control"] # l
  BY <1>1, <1>2, <1>3, <1>6, Facts, InstanceAssumption DEF IInv, WithControl, Path
<1> QED
  BY <1>4, <1>7, <1>8, <1>9, <1>10 DEF IInv

\* A new process of an instance that is off.
LEMMA ExecKeeps ==
  ASSUME IInv, NEW d \in Instance, pc[d] = "off", (d = Service) = managed, Exec(d),
         UNCHANGED <<managed, owner>>,
         launch' \in [Instance -> {"none", "wait", "chown", "setuid", "command", "error_seatd"}]
  PROVE  IInv'
<1>1. /\ file' \in [Path -> Instance \cup {"leftover", NULL}] /\ DOMAIN file' = Path
      /\ \A p \in Path : file'[p] = IF file[p] = d THEN "leftover" ELSE file[p]
  BY Facts DEF Exec
<1>2. \A e \in Instance : /\ pc'[e] = IF e = d THEN "lstat_socket" ELSE pc[e]
                          /\ ret'[e] = IF e = d THEN "ok" ELSE ret[e]
  BY Facts DEF Exec
<1>3. TypeOK'
  <2>1. /\ pc' \in [Instance -> Points] /\ ret' \in [Instance -> Outcomes]
        /\ sigterm' \in [Instance -> BOOLEAN] /\ ready' \in [Instance -> BOOLEAN]
    BY Facts, PointsAre DEF IInv, TypeOK, Exec, Outcomes, Early
  <2>2. \A e \in Instance : pc'[e] # "off" => (e = Service) = managed
    BY <1>2 DEF IInv, TypeOK
  <2>3. \A l \in Launcher :
           pc'[l] \notin {"lstat_control", "error_control"} \cup {unlink[p] : p \in Path}
    BY <1>2, Facts, UnlinkPoints DEF IInv, TypeOK
  <2> QED
    BY <1>1, <2>1, <2>2, <2>3 DEF IInv, TypeOK, Outcomes
<1>4. "socket" \in Path /\ "control" \in Path /\ "leftover" \notin Instance
  BY InstanceAssumption DEF Path
<1>5. \A e \in Instance : pc'[e] \in Serving => file'["socket"] = e
  BY <1>1, <1>2, <1>4 DEF IInv, Serving
<1>6. \A e \in Instance : file'["socket"] = e =>
       \/ pc'[e] \in Serving
       \/ pc'[e] \in {"error_server", "off"} /\ ret'[e] \in {"crash", "chmod"}
  BY <1>1, <1>2, <1>4 DEF IInv
<1>7. \A e \in Instance : file'["control"] = e =>
       \/ pc'[e] \in Controlling
       \/ pc'[e] \in {"error_socket", "error_server", "off"} /\ ret'[e] \in {"crash", "chmod"}
  BY <1>1, <1>2, <1>4 DEF IInv
<1>8. \A l \in Launcher : pc'[l] \notin WithControl /\ file'["control"] # l
  BY <1>1, <1>2, <1>4, Facts DEF IInv, WithControl
<1> QED
  BY <1>3, <1>5, <1>6, <1>7, <1>8 DEF IInv

\* Steps that touch neither a file nor a seatd.
LEMMA QuietKeeps ==
  ASSUME IInv, UNCHANGED <<managed, file, pc, ret>>, owner' \in Launcher \cup {NULL},
         sigterm' \in [Instance -> BOOLEAN], ready' \in [Instance -> BOOLEAN],
         launch' \in [Instance -> {"none", "wait", "chown", "setuid", "command", "error_seatd"}]
  PROVE  IInv'
BY DEF IInv, TypeOK
-----------------------------------------------------------------------------
\* A step of main, an error in its loop or a crash keeps the invariant.
LEMMA MainKeeps ==
  ASSUME IInv, NEW d \in Instance, Main(d) \/ MainLoopEnds(d, FALSE) \/ Crash(d)
  PROVE  IInv'
<1>1. CASE UnlinkLeftover(d, "socket", "lstat_control") \/ UnlinkLeftover(d, "control", "server_init")
  BY <1>1, Names, UnlinkKeeps DEF UnlinkLeftover, Goto, launchVars, Path
<1>2. CASE Unlink(d, "control", "error_control", "error_socket")
           \/ Unlink(d, "socket", "error_socket", "error_server")
  BY <1>2, UnlinkKeeps DEF Unlink, Goto, launchVars, Path
<1> QED
  BY <1>1, <1>2, LstatKeeps, EarlyKeeps, LateKeeps, BindKeeps
     DEF Main, OpenSocket, OpenControlSocket

\* So does one of the service manager or of seatd-launch.
LEMMA LaunchKeeps ==
  ASSUME IInv,
         \/ ServiceStarts \/ ServiceStops
         \/ \E l \in Launcher : StartSeatd(l) \/ SeatdLaunch(l) \/ CommandEnds(l)
  PROVE  IInv'
<1>1. CASE ServiceStarts
  BY <1>1, ExecKeeps, Facts DEF ServiceStarts, IInv, TypeOK
<1>2. CASE ServiceStops
  BY <1>2, QuietKeeps, Facts DEF ServiceStops, socketVars, launchVars, IInv, TypeOK
<1>3. ASSUME NEW l \in Launcher, StartSeatd(l) \/ SeatdLaunch(l) \/ CommandEnds(l)
      PROVE  IInv'
  <2>1. l \in Instance /\ l # Service
    BY InstanceAssumption DEF Instance
  <2>2. CASE StartSeatd(l)
    <3>1. (l = Service) = managed
      BY <2>1, <2>2 DEF StartSeatd, IInv, TypeOK
    <3>2. /\ pc[l] = "off" /\ Exec(l) /\ UNCHANGED <<managed, owner>>
          /\ launch' = [launch EXCEPT ![l] = "wait"]
      BY <2>2 DEF StartSeatd, Step
    <3> QED
      BY <2>1, <3>1, <3>2, ExecKeeps DEF IInv, TypeOK
  <2>3. CASE AwaitReady(l) \/ CommandEnds(l) \/ \E ok \in BOOLEAN : StartCommand(l, ok)
    BY <2>1, <2>3, QuietKeeps DEF AwaitReady, CommandEnds, StartCommand, Step, socketVars, IInv, TypeOK
  <2>4. CASE \E ok \in BOOLEAN : ChownSocket(l, ok)
    BY <2>1, <2>4, QuietKeeps DEF ChownSocket, Step, IInv, TypeOK
  <2>5. CASE KillSeatd(l)
    BY <2>1, <2>5, QuietKeeps DEF KillSeatd, Step, socketVars, IInv, TypeOK
  <2> QED
    BY <1>3, <2>2, <2>3, <2>4, <2>5 DEF SeatdLaunch
<1> QED
  BY <1>1, <1>2, <1>3

\* The inductive invariant of main and seatd-launch holds of every behaviour.
THEOREM LaunchInvHolds == Spec => []IInv
<1>1. IInv /\ [Next]_vars => IInv'
  <2> SUFFICES ASSUME IInv, [Next]_vars PROVE IInv'
    OBVIOUS
  <2>1. CASE UNCHANGED vars
    BY <2>1 DEF vars, IInv, TypeOK
  <2>2. CASE Next
    BY <2>2, MainKeeps, LaunchKeeps DEF Next
  <2> QED
    BY <2>1, <2>2
<1> QED
  BY <1>1, InitHolds, PTL DEF Spec

\* The program points of main stay within those of its mode: a seatd started by
\* seatd-launch never unlinks a file it did not make, nor opens a control socket.
THEOREM LaunchTypeCorrect == Spec => []TypeOK
<1>1. IInv => TypeOK
  BY DEF IInv
<1> QED
  BY <1>1, LaunchInvHolds, PTL

\* From its bind to its unlink a seatd's own socket is at the path, for any
\* number of seatd-launch started against each other.
THEOREM SocketStaysOurs == Spec => []SocketIsOurs
<1>1. IInv => SocketIsOurs
  BY ServesIs DEF IInv, SocketIsOurs
<1> QED
  BY <1>1, LaunchInvHolds, PTL

\* main's labels remove every file that main made, on every path to them but
\* the failing chmod.
THEOREM FilesRemoved == Spec => []NothingLeft
<1>1. IInv => NothingLeft
  BY DEF IInv, NothingLeft, Path, Serving, Controlling
<1> QED
  BY <1>1, LaunchInvHolds, PTL
=============================================================================
