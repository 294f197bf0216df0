SPECIFICATION FairSpec
CONSTANTS
  Axis <- ThreeBytes
  CallbackStages = TRUE
INVARIANTS
  TypeOK
  NoCallIsLost
PROPERTIES
  OnlyOvertakenCallsAreTorn
  ScrollSettles
