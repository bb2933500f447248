CONSTANTS
  pub = pub
  s1 = s1
  s2 = s2
  bbox = bbox
  pcloud = pcloud
  Publishers <- McPublishers
  Subscribers <- McSubscribers
  None = None
  Topics <- McTopics
  PublisherOf <- McPublisherOf
  Filters <- McFilters
  QoS = 1
  PacketIds = 3
  Protocols <- McProtocols
  MaxMessages <- McMaxMessages
  MayLeave <- McMayLeave
SPECIFICATION LiveSpec
INVARIANTS TypeOK ForwardedAccounted GapsHonest PacketsSurvive
PROPERTIES Registered
CHECK_DEADLOCK FALSE
