------------------------------ MODULE MCServer ------------------------------
(***************************************************************************)
(* Instances of Server for TLC.                                            *)
(***************************************************************************)
EXTENDS Server, TLC

CONSTANTS drm, evdev   \* a graphics card and an input device

MCType == [p \in Path |-> IF p = drm THEN "DRM" ELSE "EVDEV"]

\* Every client is a process of its own.
MCPidOf == [c \in Client |-> c]

Symmetry == Permutations(Client)
=============================================================================
