SPECIFICATION FairSpec
CONSTANTS
  FrameModulus = 4
  MaxBacklog = 3
  Pads = {0, 1}
INVARIANTS
  TypeOK
  PendingFrameIsSeen
  AcceptedFrameIsPolled
PROPERTIES
  ReadingsAreConsecutive
  WaitsReturn
  ImplementsFrameScheduler
