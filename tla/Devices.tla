------------------------------ MODULE Devices -------------------------------
(***************************************************************************)
(* The device table of every client and the kernel state behind it, as     *)
(* seat.c keeps it.  The record d holds                                    *)
(*   tab     tab[c][p] is the seat_device of client c for path p, or       *)
(*           NoDevice when c has not opened p                              *)
(*   master  master[p] is the client whose file description is DRM master  *)
(*           of p, or NULL                                                 *)
(* The argument f of an operator is the set of the kinds of calls that     *)
(* fail while the handler runs; only "revoke" matters here.                *)
(***************************************************************************)
EXTENDS Integers, FiniteSets

CONSTANTS
  Client,             \* the clients of the seat
  NULL,               \* the null pointer
  Path,               \* canonical device paths
  Type,               \* Type[p]: the seat_device_type found for path p
  MAX_SEAT_DEVICES,   \* device limit of one client
  MaxRef              \* bound on ref_cnt

DeviceType == {"DRM", "EVDEV", "HIDRAW", "WSCONS"}

ASSUME ClientAssumption == NULL \notin Client
ASSUME TypeAssumption == Type \in [Path -> DeviceType]
ASSUME LimitAssumption == MAX_SEAT_DEVICES \in Nat /\ MaxRef \in Nat \ {0}

\* A device is named by its path: device_id is a second name for the entry.
SeatDevice == [ref_cnt : Nat, active : BOOLEAN]
NoDevice == [ref_cnt |-> 0, active |-> FALSE]

DeviceState == [tab : [Client -> [Path -> SeatDevice]],
                master : [Path -> Client \cup {NULL}]]

NoDevices == [tab |-> [c \in Client |-> [p \in Path |-> NoDevice]],
              master |-> [p \in Path |-> NULL]]

OpenPaths(d, c) == {p \in Path : d.tab[c][p].ref_cnt > 0}
-----------------------------------------------------------------------------
(***************************************************************************)
(* Activating and deactivating a set S of the client's paths.              *)
(***************************************************************************)

\* (kernel) DRM_IOCTL_SET_MASTER succeeds while nobody else is master.
DrmSetMaster(d, c, S) ==
  [p \in Path |-> IF p \in S /\ d.master[p] = NULL THEN c ELSE d.master[p]]

\* (kernel) DRM_IOCTL_DROP_MASTER fails for everybody but the master.
DrmDropMaster(d, c, S) ==
  [p \in Path |-> IF p \in S /\ d.master[p] = c THEN NULL ELSE d.master[p]]

\* Sets or clears the active flag of the client's devices in S.
MarkActive(d, c, S) ==
  [d.tab EXCEPT ![c] = [p \in Path |-> IF p \in S THEN [@[p] EXCEPT !.active = TRUE] ELSE @[p]]]

MarkInactive(d, c, S) ==
  [d.tab EXCEPT ![c] = [p \in Path |-> IF p \in S THEN [@[p] EXCEPT !.active = FALSE] ELSE @[p]]]

\* (mutant) Input devices are reactivated as well.
ReactivatedAll(d, c) == {p \in OpenPaths(d, c) : ~d.tab[c][p].active}

\* The inactive DRM devices: the only ones seat_activate_device reactivates.
Reactivated(d, c) ==
  {p \in OpenPaths(d, c) : Type[p] = "DRM" /\ ~d.tab[c][p].active}

\* seat_activate_device on every device of c.  A DRM device counts as active
\* even if it could not be made master.
SeatActivateDevices(d, c) ==
  LET S == Reactivated(d, c)
  IN [tab |-> MarkActive(d, c, S), master |-> DrmSetMaster(d, c, S)]

\* Whether the kernel takes the device away: dropping DRM master fails if it
\* is not held, revoking an input device may fail.
Revocable(d, c, p, f) ==
  CASE Type[p] = "DRM" -> d.master[p] = c
    [] Type[p] \in {"EVDEV", "HIDRAW"} -> "revoke" \notin f
    [] OTHER -> TRUE

\* seat_deactivate_device on the devices of c in S.  A device that could not
\* be taken away stays active.
SeatDeactivateDevices(d, c, S, f) ==
  LET A == {p \in S \cap OpenPaths(d, c) : d.tab[c][p].active /\ Revocable(d, c, p, f)}
  IN [tab |-> MarkInactive(d, c, A),
      master |-> DrmDropMaster(d, c, {p \in A : Type[p] = "DRM"})]

DrmPaths == {p \in Path : Type[p] = "DRM"}

SeatDropClientDrmMaster(d, c) == SeatDeactivateDevices(d, c, DrmPaths, {})

\* Only inactive DRM devices are touched, as in SeatActivateDevices.
SeatRestoreClientDrmMaster(d, c) == SeatActivateDevices(d, c)
-----------------------------------------------------------------------------
(***************************************************************************)
(* Opening and closing.                                                    *)
(***************************************************************************)

SeatReopenDevice(d, c, p) == [d EXCEPT !.tab[c][p].ref_cnt = @ + 1]

SeatOpenNewDevice(d, c, p) ==
  [tab |-> [d.tab EXCEPT ![c][p] = [ref_cnt |-> 1, active |-> TRUE]],
   master |-> DrmSetMaster(d, c, {p} \cap DrmPaths)]

\* Whether the open may go through, apart from open(2) itself failing.
CanOpenDevice(d, c, p) ==
  \/ p \in OpenPaths(d, c) /\ d.tab[c][p].ref_cnt < MaxRef
  \/ p \notin OpenPaths(d, c) /\ Cardinality(OpenPaths(d, c)) < MAX_SEAT_DEVICES

SeatOpenDevice(d, c, p) ==
  IF p \in OpenPaths(d, c) THEN SeatReopenDevice(d, c, p) ELSE SeatOpenNewDevice(d, c, p)

\* (mutant) The entry is dropped without deactivating the device.
ForgetDevicesOnly(d, c, S, f) ==
  [d EXCEPT !.tab[c] = [p \in Path |-> IF p \in S THEN NoDevice ELSE @[p]]]

\* The last reference to each device in S is gone: deactivate and forget.
ForgetDevices(d, c, S, f) ==
  LET e == SeatDeactivateDevices(d, c, S, f)
  IN [e EXCEPT !.tab[c] = [p \in Path |-> IF p \in S THEN NoDevice ELSE @[p]]]

SeatCloseDevice(d, c, p, f) ==
  IF d.tab[c][p].ref_cnt > 1
    THEN [d EXCEPT !.tab[c][p].ref_cnt = @ - 1]
    ELSE ForgetDevices(d, c, {p}, f)

\* seat_remove_client closes every device until none is left.
SeatCloseAllDevices(d, c, f) == ForgetDevices(d, c, Path, f)
=============================================================================
