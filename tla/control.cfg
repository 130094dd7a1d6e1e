SPECIFICATION FairSpec
CONSTANTS
  Peer = {"ddm"}
  VT = {1, 2}
  Operations = {"GET_ACTIVE_VT", "DESTROY_GROUP_VT", "CREATE_GROUP_VT"}
  InSize = 3
  OutSize = 2
  RequestsSize = 4
  SocketSize = 1
INVARIANTS  OutputArmed LastChangeArrives
PROPERTY RequestsHandled
