CONSTANTS
  bbox = bbox
  pcloud = pcloud
  Tracks <- McTracks
  Priority <- McPriority
  ObjectsPerGroup <- McObjectsPerGroup
  ObjectBytes <- McObjectBytes
  SendInterval <- McSendInterval
  DeliveryTimeout <- McBulkOnly
  CheckInterval = 1
  SendBufferLimit = 3
  ChunkBytes = 2
  SendQueueLimit = 6
  LowWaterMark = 4
  MaxObjects = 4
  MaxSubscribeOk = 1
SPECIFICATION Spec
INVARIANTS TypeOK Accounting TeardownClean NothingRejected OccupancyBound ReliableLossless
