CONSTANTS
  bbox = bbox
  pcloud = pcloud
  Topics <- McTopics
  MessageBytes <- McMessageBytes
  MessagesPerBurst <- McMessagesPerBurst
  ConnectBytes = 1
  QoS = 1
  PacketIds = 3
  SendQueueLimitMsgs = 1
  SendQueueLimit = 3
  LowWaterMark = 2
  Protocols <- McQuic
  MaxBursts <- McMaxBursts
SPECIFICATION Spec
INVARIANT NothingRejected
CHECK_DEADLOCK FALSE
