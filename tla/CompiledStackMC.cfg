SPECIFICATION Spec
CONSTANTS
  Ids <- ChainIds
  Program <- ProgramOf
  Initial <- InitialOf
  Wholes <- WholesOf
  Frames <- FramesOf
INVARIANT StackNeverOverflows
