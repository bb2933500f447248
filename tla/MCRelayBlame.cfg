CONSTANTS
  bbox = bbox
  pcloud = pcloud
  car = car
  s1 = s1
  s2 = s2
  Nobody = Nobody
  Subscribers <- McBoth
  Publishers <- McCar
  Tracks <- McTracks
  PublisherOf <- McPublisherOf
  Priority <- McPriority
  ObjectsPerGroup <- McObjectsPerGroup
  ObjectBytes <- McObjectBytes
  DeliveryTimeout <- McReliable
  CheckInterval = 1
  ForwardLimit = 1
  ChunkBytes = 2
  SendQueueLimit = 4
  LowWaterMark = 3
  MaxGroups = 1
  MayClose <- McNone
SPECIFICATION Spec
INVARIANTS OverflowEndsThatPeer
