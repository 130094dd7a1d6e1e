SPECIFICATION Spec
CONSTANTS
  c1 = c1
  NULL = NULL
  drm = drm
  evdev = evdev
  Client = {c1}
  VT = {1, 2}
  VtBound = TRUE
  Watcher = TRUE
  PipeCapacity = 1
  Path = {}
  MAX_SEAT_DEVICES = 2
  MaxRef = 1
  Faults = {{}, {"update"}, {"vt_open"}, {"vt_close"}, {"vt_switch"}, {"vt_activate"}, {"vt_ack"}, {"enable"}, {"update", "vt_ack"}}
  ControlRequests = {"destroy", "create", "switch", "get"}
  GroupVT = {2}
  SessionRequest = {1}
  Terminates = TRUE
  Type <- MCType
  PidOf <- MCPidOf
SYMMETRY Symmetry
INVARIANTS SignalsFindVt
  
  CurVtTracksForeground
CHECK_DEADLOCK FALSE
