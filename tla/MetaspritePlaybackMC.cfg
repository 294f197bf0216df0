CONSTANTS
  Assets <- MCAssets
  Frames <- MCFrames
  AnimationCount <- MCAnimationCount
  FrameAsset <- MCFrameAsset
  InitialFrame <- MCInitialFrame
  AnimationAsset <- MCAnimationAsset
  Loops <- MCLoops
  FrameIds <- MCFrameIds
  Durations <- MCDurations
  Starts <- MCStarts
  Instances <- MCAssets
  InstanceAsset <- MCInstanceAsset
  Poses = {origin, moved}
  InitialPose = origin
SPECIFICATION Spec
INVARIANTS
  PlaybackFollowsItsTable
  ShadowShowsSelection
  FramesBelongToTheInstance
