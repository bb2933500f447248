CONSTANTS
  bbox = bbox
  pcloud = pcloud
  Tracks <- McTracks
  Priority <- McPriority
  ObjectsPerGroup <- McObjectsPerGroup
  ObjectBytes <- McObjectBytes
  SendInterval <- McSendInterval
  DeliveryTimeout <- McReliable
  CheckInterval = 2
  SendBufferLimit = 3
  ChunkBytes = 2
  SendQueueLimit = 3
  LowWaterMark = 2
  MaxObjects = 2
  MaxSubscribeOk = 2
SPECIFICATION LiveSpec
PROPERTY BufferDrains
