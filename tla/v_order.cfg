SPECIFICATION Spec
CONSTANTS
  UserRequest = {}
  PeerFails = FALSE
  Backlog = 2
  LIBSEAT_BACKEND = {"seatd"}
INVARIANT SeatdAgrees
