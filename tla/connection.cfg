SPECIFICATION FairSpec
CONSTANTS
  CONNECTION_BUFFER_SIZE = 4
  IndexRange = 8
  MAX_FDS = 4
  SocketSize = 3
  Kind = {"reply", "device"}
  PayloadSize <- MCPayloadSize
  FdKind = {"device"}
  Ids = 2
INVARIANTS ReceiverAccepts
  FdBelongsToMessage
PROPERTIES ImplementsByteStream
  
