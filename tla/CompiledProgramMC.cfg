SPECIFICATION Spec
CONSTANTS
  Ids <- PassingIds
  Program <- ProgramOf
  Initial <- InitialOf
  Wholes <- WholesOf
  Frames <- FramesOf
INVARIANTS
  CompiledCodeComputesSource
  AcceptedProgramsReadOnlyAssigned
  TemporariesStayReserved
  FramesShowWholeSprites
PROPERTY ProgramsFinish
