CONSTANTS
  bbox = bbox
  pcloud = pcloud
  Tracks <- McTracks
  Priority <- McPriority
  ObjectsPerGroup <- McObjectsPerGroup
  ObjectBytes <- McObjectBytes
  SendInterval <- McSendInterval
  DeliveryTimeout <- McPartial
  CheckInterval = 2
  SendBufferLimit = 4
  ChunkBytes = 2
  SendQueueLimit = 6
  LowWaterMark = 4
  MaxObjects = 4
  MaxSubscribeOk = 1
SPECIFICATION Spec
INVARIANTS FrameIntegrity AgeBound NoOrphans
PROPERTY StreamDiscipline
