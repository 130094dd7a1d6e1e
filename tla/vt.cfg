SPECIFICATION Spec
CONSTANTS
  c1 = c1
  c2 = c2
  NULL = NULL
  drm = drm
  evdev = evdev
  Client = {c1, c2}
  VT = {1, 2}
  VtBound = TRUE
  Watcher = TRUE
  PipeCapacity = 1
  Path = {}
  MAX_SEAT_DEVICES = 2
  MaxRef = 1
  Faults = {{}}
  ControlRequests = {"create", "switch", "get"}
  GroupVT = {2}
  SessionRequest = {}
  Terminates = FALSE
  Type <- MCType
  PidOf <- MCPidOf
SYMMETRY Symmetry
INVARIANTS TypeOK
  ActiveClientExact
  ActiveClientInForeground
  GroupOwnersAreMembers
PROPERTIES ArbitratesSeat
  FollowsSession
