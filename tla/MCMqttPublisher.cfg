CONSTANTS
  bbox = bbox
  pcloud = pcloud
  Topics <- McTopics
  MessageBytes <- McMessageBytes
  MessagesPerBurst <- McMessagesPerBurst
  ConnectBytes = 1
  QoS = 1
  PacketIds = 3
  SendQueueLimitMsgs = 3
  SendQueueLimit = 4
  LowWaterMark = 3
  Protocols <- McBoth
  MaxBursts <- McMaxBursts
SPECIFICATION LiveSpec
INVARIANTS Accounting FreshestWait IdentifiersFresh
PROPERTIES QueueDrains
CHECK_DEADLOCK FALSE
