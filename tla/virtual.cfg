SPECIFICATION FairSpec
CONSTANTS
  c1 = c1
  c2 = c2
  NULL = NULL
  drm = drm
  evdev = evdev
  Client = {c1, c2}
  VT = {1, 2}
  VtBound = FALSE
  Watcher = TRUE
  PipeCapacity = 1
  Path = {evdev}
  MAX_SEAT_DEVICES = 2
  MaxRef = 2
  Faults = {{}, {"reply"}}
  ControlRequests = {}
  GroupVT = {}
  SessionRequest = {1, 2, 3}
  Terminates = FALSE
  Type <- MCType
  PidOf <- MCPidOf
INVARIANTS QueuedClientReady
  SessionsDistinct
PROPERTIES QueuedClientGetsSeat
