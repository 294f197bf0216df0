------------------------ MODULE MetaspritePlaybackMC ------------------------
(***************************************************************************)
(* Instances of MetaspritePlayback for TLC: two assets with one instance   *)
(* each and three animations (a loop, a one-shot and one of a single       *)
(* entry), and one animation of as many frames as the loader admits.       *)
(***************************************************************************)
EXTENDS MetaspritePlayback, SequencesExt

MCAssets == {"hero", "foe"}
MCInstanceAsset == [i \in MCAssets |-> i]
MCFrames == 0 .. 4
MCFrameAsset == [f \in MCFrames |-> IF f < 3 THEN "hero" ELSE "foe"]
MCInitialFrame == [i \in MCAssets |-> IF i = "hero" THEN 0 ELSE 3]
MCAnimationCount == 3
MCAnimationAsset == [a \in 0 .. 2 |-> IF a < 2 THEN "hero" ELSE "foe"]
MCLoops == [a \in 0 .. 2 |-> a = 0]
MCFrameIds == [a \in 0 .. 2 |-> <<<<0, 1>>, <<2, 1, 0>>, <<4>>>>[a + 1]]
MCDurations == [a \in 0 .. 2 |-> <<<<2, 1>>, <<1, 3, 1>>, <<2>>>>[a + 1]]

RunningSums(durations) ==
  [k \in 1 .. Len(durations) + 1 |->
     FoldSeq(LAMBDA d, sum : d + sum, 0, SubSeq(durations, 1, k - 1))]

MCStarts == [a \in 0 .. 2 |-> RunningSums(MCDurations[a])]

\* One looping animation of LongCount frames, one logical frame each.
LongCount == 255
LongAssets == {"hero"}
LongInstanceAsset == [i \in LongAssets |-> i]
LongFrames == 0 .. LongCount - 1
LongFrameAsset == [f \in LongFrames |-> "hero"]
LongInitialFrame == [i \in {"hero"} |-> 0]
LongAnimationCount == 1
LongAnimationAsset == [a \in {0} |-> "hero"]
LongLoops == [a \in {0} |-> TRUE]
LongFrameIds == [a \in {0} |-> [k \in 1 .. LongCount |-> k - 1]]
LongDurations == [a \in {0} |-> [k \in 1 .. LongCount |-> 1]]
LongStarts == [a \in {0} |-> [k \in 1 .. LongCount + 1 |-> k - 1]]

=============================================================================
