CONSTANTS
  Publisher = Publisher
  Relay = Relay
  s1 = s1
  s2 = s2
  bbox = bbox
  pcloud = pcloud
  Subscribers <- McSubscribers
  Tracks <- McTracks
  Wants <- McWants
  ObjectsPerGroup <- McObjectsPerGroup
  Fragments <- McFragments
  Protocols <- McProtocols
  MaxObjects <- McMaxObjects
  MaxFaults = 1
  MayLeave <- McMayLeave
SPECIFICATION LiveSpec
INVARIANTS TypeOK ObjectsWhole RecordedHonestly FramesSurvive
PROPERTIES Delivered
CHECK_DEADLOCK FALSE
