CONSTANTS
  Assets <- LongAssets
  Frames <- LongFrames
  AnimationCount <- LongAnimationCount
  FrameAsset <- LongFrameAsset
  InitialFrame <- LongInitialFrame
  AnimationAsset <- LongAnimationAsset
  Loops <- LongLoops
  FrameIds <- LongFrameIds
  Durations <- LongDurations
  Starts <- LongStarts
  Instances <- LongAssets
  InstanceAsset <- LongInstanceAsset
  Poses = {origin}
  InitialPose = origin
SPECIFICATION Spec
INVARIANTS
  PlaybackFollowsItsTable
