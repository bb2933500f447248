CONSTANTS
  bbox = bbox
  pcloud = pcloud
  car = car
  s1 = s1
  s2 = s2
  Nobody = Nobody
  Subscribers <- McOne
  Publishers <- McCar
  Tracks <- McTracks
  PublisherOf <- McPublisherOf
  Priority <- McPriority
  ObjectsPerGroup <- McSingles
  ObjectBytes <- McTwoBytes
  DeliveryTimeout <- McReliable
  CheckInterval = 1
  ForwardLimit = 3
  ChunkBytes = 2
  SendQueueLimit = 4
  LowWaterMark = 3
  MaxGroups = 1
  MayClose <- McNone
SPECIFICATION LiveSpec
PROPERTIES QueueDrains
