SPECIFICATION FairSpec
CONSTANTS
  Launcher = {"l1", "l2"}
  Service = "service"
  NULL = "NULL"
INVARIANTS SocketIsOurs NothingLeft
PROPERTIES SeatdStopsWithLaunch 
