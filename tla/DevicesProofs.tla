--------------------------- MODULE DevicesProofs ----------------------------
(***************************************************************************)
(* What the operators of Devices preserve: the type of the tables, that    *)
(* input devices are never given back, and that DRM master is accounted    *)
(* for.                                                                    *)
(***************************************************************************)
EXTENDS Devices, TLAPS

\* Client c can read the input device p.
Reads(d, c, p) ==
  p \in OpenPaths(d, c) /\ Type[p] \in {"EVDEV", "HIDRAW"} /\ d.tab[c][p].active

\* The step from d to e gives nobody an input device.
NoNewInput(d, e) == \A c \in Client, p \in Path : Reads(e, c, p) => Reads(d, c, p)

\* DRM master is held through an active DRM device of the table.
Accounted(d) ==
  \A c \in Client, p \in Path :
    d.master[p] = c => /\ p \in OpenPaths(d, c)
                       /\ d.tab[c][p].active
                       /\ Type[p] = "DRM"

\* The step from d to e hands the input devices to nobody, keeps the tables
\* well-formed and DRM master accounted for.
SafeStep(d, e) ==
  /\ e \in DeviceState
  /\ NoNewInput(d, e)
  /\ Accounted(d) => Accounted(e)
-----------------------------------------------------------------------------
\* Nothing is open at first.
LEMMA NoDevicesSafe ==
  /\ NoDevices \in DeviceState
  /\ Accounted(NoDevices)
  /\ \A c \in Client, p \in Path : ~Reads(NoDevices, c, p)
BY ClientAssumption DEF NoDevices, NoDevice, DeviceState, SeatDevice, Accounted, Reads, OpenPaths

\* Safe steps compose.
LEMMA SafeStepTransitive ==
  ASSUME NEW d, NEW e, NEW g, SafeStep(d, e), SafeStep(e, g)
  PROVE  SafeStep(d, g)
BY DEF SafeStep, NoNewInput

\* MarkActive changes the flags it names and nothing else.
LEMMA MarkActiveFacts ==
  ASSUME NEW d \in DeviceState, NEW c \in Client, NEW S
  PROVE  LET T == MarkActive(d, c, S)
         IN  /\ T \in [Client -> [Path -> SeatDevice]]
             /\ \A x \in Client, p \in Path :
                  /\ T[x][p].ref_cnt = d.tab[x][p].ref_cnt
                  /\ x = c /\ p \in S => T[x][p].active
                  /\ ~(x = c /\ p \in S) => T[x][p] = d.tab[x][p]
<1> DEFINE row == [p \in Path |-> IF p \in S THEN [d.tab[c][p] EXCEPT !.active = TRUE]
                                             ELSE d.tab[c][p]]
<1>1. d.tab \in [Client -> [Path -> SeatDevice]]
  BY DEF DeviceState
<1>2. ASSUME NEW p \in Path
      PROVE  /\ row[p] \in SeatDevice
             /\ row[p].ref_cnt = d.tab[c][p].ref_cnt
             /\ p \in S => row[p].active
             /\ p \notin S => row[p] = d.tab[c][p]
  <2>1. d.tab[c][p] \in SeatDevice
    BY <1>1
  <2> QED
    BY <2>1 DEF SeatDevice
<1>3. row \in [Path -> SeatDevice]
  BY <1>2
<1>4. MarkActive(d, c, S) = [d.tab EXCEPT ![c] = row]
  BY DEF MarkActive
<1> HIDE DEF row
<1> QED
  BY <1>1, <1>2, <1>3, <1>4

\* MarkInactive changes the flags it names and nothing else.
LEMMA MarkInactiveFacts ==
  ASSUME NEW d \in DeviceState, NEW c \in Client, NEW S
  PROVE  LET T == MarkInactive(d, c, S)
         IN  /\ T \in [Client -> [Path -> SeatDevice]]
             /\ \A x \in Client, p \in Path :
                  /\ T[x][p].ref_cnt = d.tab[x][p].ref_cnt
                  /\ x = c /\ p \in S => ~T[x][p].active
                  /\ ~(x = c /\ p \in S) => T[x][p] = d.tab[x][p]
<1> DEFINE row == [p \in Path |-> IF p \in S THEN [d.tab[c][p] EXCEPT !.active = FALSE]
                                             ELSE d.tab[c][p]]
<1>1. d.tab \in [Client -> [Path -> SeatDevice]]
  BY DEF DeviceState
<1>2. ASSUME NEW p \in Path
      PROVE  /\ row[p] \in SeatDevice
             /\ row[p].ref_cnt = d.tab[c][p].ref_cnt
             /\ p \in S => ~row[p].active
             /\ p \notin S => row[p] = d.tab[c][p]
  <2>1. d.tab[c][p] \in SeatDevice
    BY <1>1
  <2> QED
    BY <2>1 DEF SeatDevice
<1>3. row \in [Path -> SeatDevice]
  BY <1>2
<1>4. MarkInactive(d, c, S) = [d.tab EXCEPT ![c] = row]
  BY DEF MarkInactive
<1> HIDE DEF row
<1> QED
  BY <1>1, <1>2, <1>3, <1>4

\* The reference count of one device becomes n.
SetRef(d, c, p, n) == [d EXCEPT !.tab[c][p].ref_cnt = n]

\* Changing one reference count changes nothing else.
LEMMA SetRefFacts ==
  ASSUME NEW d \in DeviceState, NEW c \in Client, NEW p \in Path, NEW n \in Nat
  PROVE  LET e == SetRef(d, c, p, n)
         IN  /\ e \in DeviceState
             /\ e.master = d.master
             /\ \A x \in Client, q \in Path :
                  /\ e.tab[x][q].active = d.tab[x][q].active
                  /\ ~(x = c /\ q = p) => e.tab[x][q] = d.tab[x][q]
             /\ e.tab[c][p].ref_cnt = n
<1> DEFINE x0 == [d.tab[c][p] EXCEPT !.ref_cnt = n]
           T == [d.tab EXCEPT ![c] = [d.tab[c] EXCEPT ![p] = x0]]
           e == [d EXCEPT !.tab = T]
<1>1. d.tab \in [Client -> [Path -> SeatDevice]] /\ d.tab[c][p] \in SeatDevice
  BY DEF DeviceState
<1>2. x0 \in SeatDevice /\ x0.ref_cnt = n /\ x0.active = d.tab[c][p].active
  BY <1>1 DEF SeatDevice
<1> HIDE DEF x0
<1>3. /\ T \in [Client -> [Path -> SeatDevice]]
      /\ T[c][p] = x0
      /\ \A x \in Client, q \in Path : ~(x = c /\ q = p) => T[x][q] = d.tab[x][q]
  BY <1>1, <1>2
<1> HIDE DEF T
<1>4. e \in DeviceState /\ e.tab = T /\ e.master = d.master
  BY <1>3 DEF DeviceState
<1>5. e = SetRef(d, c, p, n)
  BY DEF T, x0, SetRef
<1> HIDE DEF e
<1> QED
  BY <1>2, <1>3, <1>4, <1>5

\* Reactivating a client's devices on enable or restore is safe: only DRM
\* devices are reactivated, and the client becomes master of those alone.
LEMMA ActivateSafe ==
  ASSUME NEW d \in DeviceState, NEW c \in Client
  PROVE  SafeStep(d, SeatActivateDevices(d, c))
<1> DEFINE e == SeatActivateDevices(d, c)
           S == Reactivated(d, c)
<1>1. e.tab = MarkActive(d, c, S) /\ e.master = DrmSetMaster(d, c, S)
  BY DEF SeatActivateDevices
<1>2. /\ DrmSetMaster(d, c, S) \in [Path -> Client \cup {NULL}]
      /\ \A p \in Path : e.master[p] = IF p \in S /\ d.master[p] = NULL THEN c ELSE d.master[p]
  BY <1>1 DEF DeviceState, DrmSetMaster
<1>3. e \in DeviceState
  <2>1. e = [tab |-> MarkActive(d, c, S), master |-> DrmSetMaster(d, c, S)]
    BY DEF SeatActivateDevices
  <2> HIDE DEF e, S
  <2>3. MarkActive(d, c, S) \in [Client -> [Path -> SeatDevice]]
    BY MarkActiveFacts
  <2> QED
    BY <1>2, <2>1, <2>3 DEF DeviceState
<1>4. \A x \in Client, p \in Path :
        /\ e.tab[x][p].ref_cnt = d.tab[x][p].ref_cnt
        /\ ~(x = c /\ p \in S) => e.tab[x][p] = d.tab[x][p]
        /\ x = c /\ p \in S => e.tab[x][p].active
  <2> HIDE DEF e, S
  <2> QED
    BY <1>1, MarkActiveFacts
<1>5. S \subseteq OpenPaths(d, c) /\ \A p \in S : p \in Path /\ Type[p] = "DRM"
  BY DEF Reactivated, OpenPaths
<1>6. \A x \in Client : OpenPaths(e, x) = OpenPaths(d, x)
  BY <1>4 DEF OpenPaths
<1> HIDE DEF e, S
<1>7. NoNewInput(d, e)
  BY <1>4, <1>5, <1>6 DEF NoNewInput, Reads
<1>8. Accounted(d) => Accounted(e)
  BY <1>4, <1>2, <1>5, <1>6, ClientAssumption DEF Accounted
<1> QED
  BY <1>3, <1>7, <1>8 DEF SafeStep, e

\* Taking devices from a client is safe, and afterwards it reads none of the
\* input devices in question unless revoking failed.
LEMMA DeactivateSafe ==
  ASSUME NEW d \in DeviceState, NEW c \in Client, NEW S, NEW f
  PROVE  LET e == SeatDeactivateDevices(d, c, S, f)
         IN  /\ SafeStep(d, e)
             /\ "revoke" \notin f => \A p \in S : ~Reads(e, c, p)
             /\ \A x \in Client : OpenPaths(e, x) = OpenPaths(d, x)
             /\ Accounted(d) => \A p \in S \cap Path : e.master[p] # c
<1> DEFINE e == SeatDeactivateDevices(d, c, S, f)
           A == {p \in S \cap OpenPaths(d, c) : d.tab[c][p].active /\ Revocable(d, c, p, f)}
           M == {p \in A : Type[p] = "DRM"}
<1>1. e.tab = MarkInactive(d, c, A) /\ e.master = DrmDropMaster(d, c, M)
  BY DEF SeatDeactivateDevices
<1>2. /\ DrmDropMaster(d, c, M) \in [Path -> Client \cup {NULL}]
      /\ \A p \in Path : e.master[p] = IF p \in M /\ d.master[p] = c THEN NULL ELSE d.master[p]
  BY <1>1 DEF DeviceState, DrmDropMaster
<1>3. e \in DeviceState
  <2>1. e = [tab |-> MarkInactive(d, c, A), master |-> DrmDropMaster(d, c, M)]
    BY DEF SeatDeactivateDevices
  <2> HIDE DEF e, A, M
  <2>3. MarkInactive(d, c, A) \in [Client -> [Path -> SeatDevice]]
    BY MarkInactiveFacts
  <2> QED
    BY <1>2, <2>1, <2>3 DEF DeviceState
<1>4. \A x \in Client, p \in Path :
        /\ e.tab[x][p].ref_cnt = d.tab[x][p].ref_cnt
        /\ ~(x = c /\ p \in A) => e.tab[x][p] = d.tab[x][p]
        /\ x = c /\ p \in A => ~e.tab[x][p].active
  <2> HIDE DEF e, A, M
  <2> QED
    BY <1>1, MarkInactiveFacts
<1>5. \A x \in Client : OpenPaths(e, x) = OpenPaths(d, x)
  BY <1>4 DEF OpenPaths
<1>6. \A p \in Path : p \in M <=> p \in A /\ Type[p] = "DRM"
  OBVIOUS
<1>7. \A p \in S : p \in OpenPaths(d, c) /\ d.tab[c][p].active =>
        /\ Type[p] \in {"EVDEV", "HIDRAW"} /\ "revoke" \notin f => p \in A
        /\ Type[p] = "DRM" /\ d.master[p] = c => p \in A
  BY DEF Revocable
<1>8. \A p \in A : Type[p] = "DRM" => d.master[p] = c
  BY DEF Revocable
<1> HIDE DEF e, A, M
<1>9. NoNewInput(d, e)
  BY <1>4, <1>5 DEF NoNewInput, Reads
<1>10. Accounted(d) => Accounted(e)
  BY <1>2, <1>4, <1>6, <1>5, <1>8, ClientAssumption DEF Accounted
<1>11. "revoke" \notin f => \A p \in S : ~Reads(e, c, p)
  BY <1>4, <1>5, <1>7 DEF Reads, OpenPaths
<1>12. Accounted(d) => \A p \in S \cap Path : e.master[p] # c
  BY <1>2, <1>6, <1>7, ClientAssumption DEF Accounted
<1> QED
  BY <1>3, <1>5, <1>9, <1>10, <1>11, <1>12 DEF SafeStep, e

\* Forgetting devices is safe: nobody is master through a forgotten device.
LEMMA ForgetSafe ==
  ASSUME NEW d \in DeviceState, NEW c \in Client, NEW S, NEW f
  PROVE  /\ SafeStep(d, ForgetDevices(d, c, S, f))
         /\ \A p \in S : ~Reads(ForgetDevices(d, c, S, f), c, p)
<1> DEFINE e == SeatDeactivateDevices(d, c, S, f)
           g == ForgetDevices(d, c, S, f)
<1>1. /\ e \in DeviceState /\ SafeStep(d, e)
      /\ Accounted(d) => \A p \in S \cap Path : e.master[p] # c
  BY DeactivateSafe DEF SafeStep
<1>2. g = [e EXCEPT !.tab[c] = [p \in Path |-> IF p \in S THEN NoDevice ELSE @[p]]]
  BY DEF ForgetDevices
<1> HIDE DEF e, g
<1>3. /\ g \in DeviceState
      /\ g.master = e.master
      /\ \A x \in Client, p \in Path :
           g.tab[x][p] = IF x = c /\ p \in S THEN NoDevice ELSE e.tab[x][p]
  <2> DEFINE row == [p \in Path |-> IF p \in S THEN NoDevice ELSE e.tab[c][p]]
             T == [e.tab EXCEPT ![c] = row]
  <2>1. e.tab \in [Client -> [Path -> SeatDevice]] /\ NoDevice \in SeatDevice
    BY <1>1 DEF DeviceState, SeatDevice, NoDevice
  <2>2. row \in [Path -> SeatDevice]
    BY <2>1
  <2>3. /\ T \in [Client -> [Path -> SeatDevice]]
        /\ \A x \in Client, p \in Path :
             T[x][p] = IF x = c /\ p \in S THEN NoDevice ELSE e.tab[x][p]
    BY <2>1, <2>2
  <2>4. g = [e EXCEPT !.tab = T]
    BY <1>2
  <2> HIDE DEF T, row
  <2> QED
    BY <1>1, <2>3, <2>4 DEF DeviceState
<1>4. \A x \in Client, p \in Path :
        IF x = c /\ p \in S THEN p \notin OpenPaths(g, x)
                            ELSE p \in OpenPaths(g, x) <=> p \in OpenPaths(e, x)
  BY <1>3 DEF OpenPaths, NoDevice
<1>5. NoNewInput(e, g) /\ \A p \in S : ~Reads(g, c, p)
  BY <1>3, <1>4 DEF NoNewInput, Reads, OpenPaths
<1>6. Accounted(d) => Accounted(g)
  BY <1>1, <1>3, <1>4 DEF Accounted, SafeStep
<1> QED
  BY <1>1, <1>3, <1>5, <1>6 DEF SafeStep, NoNewInput, g

\* Closing one reference is safe.
LEMMA CloseDeviceSafe ==
  ASSUME NEW d \in DeviceState, NEW c \in Client, NEW p \in OpenPaths(d, c), NEW f
  PROVE  SafeStep(d, SeatCloseDevice(d, c, p, f))
<1>1. CASE d.tab[c][p].ref_cnt > 1
  <2> DEFINE e == [d EXCEPT !.tab[c][p].ref_cnt = @ - 1]
  <2>1. p \in Path /\ d.tab[c][p].ref_cnt \in Nat
    BY DEF OpenPaths, DeviceState, SeatDevice
  <2>2. /\ e \in DeviceState
        /\ e.master = d.master
        /\ \A x \in Client, q \in Path :
             /\ e.tab[x][q].active = d.tab[x][q].active
             /\ e.tab[x][q].ref_cnt > 0 <=> d.tab[x][q].ref_cnt > 0
    <3> DEFINE n == d.tab[c][p].ref_cnt - 1
    <3>1. n \in Nat /\ n > 0 /\ p \in Path
      BY <1>1, <2>1
    <3>2. e = SetRef(d, c, p, n)
      BY DEF SetRef
    <3> HIDE DEF e, n
    <3>3. /\ e \in DeviceState
          /\ e.master = d.master
          /\ \A x \in Client, q \in Path :
               /\ e.tab[x][q].active = d.tab[x][q].active
               /\ ~(x = c /\ q = p) => e.tab[x][q] = d.tab[x][q]
          /\ e.tab[c][p].ref_cnt = n
      BY <3>1, <3>2, SetRefFacts
    <3> QED
      BY <1>1, <2>1, <3>1, <3>3
  <2>3. e = SeatCloseDevice(d, c, p, f)
    BY <1>1 DEF SeatCloseDevice
  <2> HIDE DEF e
  <2>4. NoNewInput(d, e)
    BY <2>2 DEF NoNewInput, Reads, OpenPaths
  <2>5. Accounted(d) => Accounted(e)
    BY <2>2 DEF Accounted, OpenPaths
  <2> QED
    BY <2>2, <2>3, <2>4, <2>5 DEF SafeStep
<1>2. CASE ~(d.tab[c][p].ref_cnt > 1)
  BY <1>2, ForgetSafe DEF SeatCloseDevice
<1> QED
  BY <1>1, <1>2

\* Opening gives the input device to its client alone.
LEMMA OpenDeviceSafe ==
  ASSUME NEW d \in DeviceState, NEW c \in Client, NEW p \in Path, Accounted(d)
  PROVE  LET e == SeatOpenDevice(d, c, p)
         IN  /\ e \in DeviceState
             /\ Accounted(e)
             /\ \A x \in Client, q \in Path : Reads(e, x, q) => Reads(d, x, q) \/ x = c
<1>1. CASE p \in OpenPaths(d, c)
  <2> DEFINE e == [d EXCEPT !.tab[c][p].ref_cnt = @ + 1]
  <2>1. d.tab[c][p].ref_cnt \in Nat
    BY DEF DeviceState, SeatDevice
  <2>2. /\ e \in DeviceState
        /\ e.master = d.master
        /\ \A x \in Client, q \in Path :
             /\ e.tab[x][q].active = d.tab[x][q].active
             /\ d.tab[x][q].ref_cnt > 0 => e.tab[x][q].ref_cnt > 0
             /\ x # c => e.tab[x][q] = d.tab[x][q]
    <3> DEFINE n == d.tab[c][p].ref_cnt + 1
    <3>1. n \in Nat /\ n > 0
      BY <2>1
    <3>2. e = SetRef(d, c, p, n)
      BY DEF SetRef
    <3> HIDE DEF e, n
    <3>3. /\ e \in DeviceState
          /\ e.master = d.master
          /\ \A x \in Client, q \in Path :
               /\ e.tab[x][q].active = d.tab[x][q].active
               /\ ~(x = c /\ q = p) => e.tab[x][q] = d.tab[x][q]
          /\ e.tab[c][p].ref_cnt = n
      BY <3>1, <3>2, SetRefFacts
    <3> QED
      BY <3>1, <3>3
  <2>3. e = SeatOpenDevice(d, c, p)
    BY <1>1 DEF SeatOpenDevice, SeatReopenDevice
  <2> HIDE DEF e
  <2>4. Accounted(e)
    BY <2>2 DEF Accounted, OpenPaths
  <2>5. \A x \in Client, q \in Path : Reads(e, x, q) => Reads(d, x, q) \/ x = c
    BY <2>2 DEF Reads, OpenPaths
  <2> QED
    BY <2>2, <2>3, <2>4, <2>5
<1>2. CASE p \notin OpenPaths(d, c)
  <2> DEFINE e == SeatOpenNewDevice(d, c, p)
  <2>1. /\ e \in DeviceState
        /\ \A x \in Client, q \in Path :
             e.tab[x][q] = IF x = c /\ q = p THEN [ref_cnt |-> 1, active |-> TRUE] ELSE d.tab[x][q]
        /\ \A q \in Path : e.master[q] = IF q = p /\ Type[q] = "DRM" /\ d.master[q] = NULL
                                           THEN c ELSE d.master[q]
    BY DEF DeviceState, SeatDevice, SeatOpenNewDevice, DrmSetMaster, DrmPaths
  <2>2. e = SeatOpenDevice(d, c, p)
    BY <1>2 DEF SeatOpenDevice
  <2> HIDE DEF e
  <2>3. Accounted(e)
    BY <2>1 DEF Accounted, OpenPaths
  <2>4. \A x \in Client, q \in Path : Reads(e, x, q) => Reads(d, x, q) \/ x = c
    BY <2>1 DEF Reads, OpenPaths
  <2> QED
    BY <2>1, <2>2, <2>3, <2>4
<1> QED
  BY <1>1, <1>2
=============================================================================
