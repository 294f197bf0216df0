SPECIFICATION Spec
CONSTANTS
  PointQueries <- SampledPoints
  BoxQueries <- SampledBoxes
  SpriteQueries <- SampledSprites
  FrameQueries <- SampledFrames
  RangeQueries <- SampledRanges
  ZeroPageRuntimeSize = 16
  TemporaryCapacity = 16
  ExplicitReserveSize = 96
  AutomaticSize = 20
  PromotionThreshold = 3
  LayoutPrograms <- LayoutQueries
  HardwareSprites = 5
  SpritePrograms <- SiteQueries
  MaxInstances = 2
  VariableNames = {"A", "T", "R"}
  FunctionNames = {"F"}
INVARIANTS
  BackgroundCallsReachTheirAddress
  ConfirmationMeetsQuery
  ComponentsAreClippedExactly
  CollisionAnswersAreExact
  BoundsFollowTheObject
  BoundedDrawsAreUniform
  GeneratorNeverSticks
  EveryByteHasOneOwner
  EverySpriteHasOneOwner
  ParserRecoversTheProgram
CHECK_DEADLOCK FALSE
