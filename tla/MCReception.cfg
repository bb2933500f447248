CONSTANTS
  Streams <- McStreams
  Ends <- McEnds
  Resettable <- McResettable
  Dones <- McDones
  EmptyReads = TRUE
SPECIFICATION LiveSpec
INVARIANTS TypeOK RightStream NoLostWakeup NothingAfterReset
PROPERTIES InOrder EveryFrameHandled
CHECK_DEADLOCK FALSE
