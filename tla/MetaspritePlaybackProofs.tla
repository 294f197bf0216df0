---------------------- MODULE MetaspritePlaybackProofs ----------------------
(***************************************************************************)
(* Proofs about MetaspritePlayback, for any instances, assets and tables.  *)
(* What an instance shows and which frames it may select holds for every   *)
(* table the loader admits; that playback keeps its durations needs tables *)
(* whose eight-bit pair offset does not wrap.                              *)
(***************************************************************************)
EXTENDS MetaspritePlayback, TLAPS

\* Every entry of every table is reached by an eight-bit pair offset.
ShortTables == \A a \in Animations : FrameCount(a) <= 128

\* The entry of an active playback exists.
EntryInv(p) == p.active => p.entry < FrameCount(p.animation)

\* The frame an instance selects, and the animation it plays, fit it.
FitInv(i, p) ==
  /\ FrameAsset[p.frame] = InstanceAsset[i]
  /\ p.active => AnimationAsset[p.animation] = InstanceAsset[i]

BaseInv ==
  /\ TypeOK
  /\ \A i \in Instances : EntryInv(play[i]) /\ FitInv(i, play[i])
  /\ ShadowShowsSelection

\* The timer is what the clock has left of the selected entry.
TimeInv(p, t) ==
  p.active =>
    /\ p.frame = FrameIds[p.animation][p.entry + 1]
    /\ IF p.finished
       THEN /\ ~Loops[p.animation]
            /\ p.entry + 1 = FrameCount(p.animation)
            /\ t = TotalDuration(p.animation)
       ELSE /\ p.timer > 0
            /\ p.timer <= Durations[p.animation][p.entry + 1]
            /\ t + p.timer = Starts[p.animation][p.entry + 2]

PlaybackInv == \A i \in Instances : TimeInv(play[i], elapsed[i])

Clock(p, t) == IF p.active THEN TickClock(p.animation, t) ELSE t

-----------------------------------------------------------------------------

LEMMA TableFacts ==
  ASSUME NEW a \in Animations, NEW e \in Nat, e < FrameCount(a)
  PROVE  /\ FrameCount(a) \in 1 .. MaxFrames
         /\ FrameIds[a][e + 1] \in Frames
         /\ FrameAsset[FrameIds[a][e + 1]] = AnimationAsset[a]
         /\ Durations[a][e + 1] \in ByteDurations
         /\ Starts[a][e + 1] \in Nat
         /\ Starts[a][e + 2] = Starts[a][e + 1] + Durations[a][e + 1]
         /\ Starts[a][e + 2] <= TotalDuration(a)
         /\ TotalDuration(a) \in Nat
<1> DEFINE k == e + 1
<1>1. FrameCount(a) \in 1 .. MaxFrames BY TableAssumption DEF FrameCount
<1>2. k \in 1 .. Len(FrameIds[a]) BY <1>1 DEF FrameCount, MaxFrames
<1>3. FrameIds[a][k] \in Frames /\ FrameAsset[FrameIds[a][k]] = AnimationAsset[a]
  BY <1>2, TableAssumption
<1>4. Durations[a][k] \in ByteDurations BY <1>2, TableAssumption
<1>5. Starts[a][k] \in Nat /\ Starts[a][Len(FrameIds[a]) + 1] \in Nat
  <2>1. Starts[a] \in Seq(Nat) /\ Len(Starts[a]) = Len(FrameIds[a]) + 1
    BY StartsAssumption
  <2>2. \A n \in 1 .. Len(Starts[a]) : Starts[a][n] \in Nat BY <2>1
  <2>3. k \in 1 .. Len(Starts[a]) /\ Len(FrameIds[a]) + 1 \in 1 .. Len(Starts[a])
    BY <1>1, <1>2, <2>1 DEF FrameCount, MaxFrames
  <2> QED BY <2>2, <2>3
<1>6. /\ Starts[a][k + 1] = Starts[a][k] + Durations[a][k]
      /\ Starts[a][k + 1] <= Starts[a][Len(FrameIds[a]) + 1]
  BY <1>2, StartsAssumption
<1>7. k + 1 = e + 2 OBVIOUS
<1> QED BY <1>1, <1>3, <1>4, <1>5, <1>6, <1>7 DEF FrameCount, TotalDuration

LEMMA TableEntryBound ==
  ASSUME NEW e \in Nat
  PROVE  TableEntry(e) \in Nat /\ 1 <= TableEntry(e) /\ TableEntry(e) <= e + 1
BY DEF TableEntry, PairOffset

LEMMA TableEntryIsExact ==
  ASSUME NEW e \in Nat, e < 128
  PROVE  TableEntry(e) = e + 1
BY DEF TableEntry, PairOffset

LEMMA SelectKeepsTypes ==
  ASSUME NEW a \in Animations, NEW e \in Nat, e < FrameCount(a)
  PROVE  /\ Select(a, e) \in PlaybackStates
         /\ EntryInv(Select(a, e))
         /\ FrameAsset[Select(a, e).frame] = AnimationAsset[a]
<1> DEFINE d == TableEntry(e) - 1
<1>1. d \in Nat /\ d <= e /\ d + 1 = TableEntry(e) BY TableEntryBound
<1>2. FrameCount(a) \in 1 .. MaxFrames BY TableFacts
<1>3. d < FrameCount(a) BY <1>1, <1>2 DEF MaxFrames
<1>4. /\ FrameIds[a][TableEntry(e)] \in Frames
      /\ FrameAsset[FrameIds[a][TableEntry(e)]] = AnimationAsset[a]
      /\ Durations[a][TableEntry(e)] \in ByteDurations
  BY <1>1, <1>3, TableFacts
<1>5. e \in 0 .. MaxFrames - 1 BY <1>2 DEF MaxFrames
<1>6. Durations[a][TableEntry(e)] \in 0 .. 255 BY <1>4 DEF ByteDurations
<1> QED BY <1>4, <1>5, <1>6 DEF Select, PlaybackStates, EntryInv

LEMMA SelectKeepsTime ==
  ASSUME ShortTables, NEW a \in Animations, NEW e \in Nat, e < FrameCount(a)
  PROVE  TimeInv(Select(a, e), Starts[a][e + 1])
<1>1. FrameCount(a) \in 1 .. MaxFrames BY TableFacts
<1>2. TableEntry(e) = e + 1
  BY <1>1, TableEntryIsExact DEF ShortTables, MaxFrames
<1>3. /\ Durations[a][e + 1] \in ByteDurations
      /\ Starts[a][e + 1] \in Nat
      /\ Starts[a][e + 2] = Starts[a][e + 1] + Durations[a][e + 1]
  BY TableFacts
<1> QED BY <1>2, <1>3 DEF TimeInv, ByteDurations, Select

\* A logical frame keeps an instance's record well formed.
LEMMA TickKeepsTypes ==
  ASSUME NEW p \in PlaybackStates, EntryInv(p)
  PROVE  /\ Tick(p) \in PlaybackStates
         /\ EntryInv(Tick(p))
         /\ Tick(p).active = p.active
         /\ Tick(p).animation = p.animation
         /\ SelectsEntry(p) =>
              FrameAsset[Tick(p).frame] = AnimationAsset[p.animation]
         /\ ~SelectsEntry(p) => Tick(p).frame = p.frame
<1> DEFINE a == p.animation
<1>1. /\ a \in Animations /\ p.entry \in 0 .. MaxFrames - 1
      /\ p.timer \in 0 .. 255
  BY DEF PlaybackStates
<1>2. CASE ~Playing(p)
  BY <1>2 DEF Tick, Expires, SelectsEntry
<1>3. CASE Playing(p) /\ ~Expires(p)
  <2>1. Tick(p) = [p EXCEPT !.timer = p.timer - 1] BY <1>3 DEF Tick
  <2>2. p.timer - 1 \in 0 .. 255 BY <1>1, <1>3 DEF Expires
  <2> QED BY <1>3, <2>1, <2>2 DEF PlaybackStates, EntryInv, SelectsEntry
<1>4. CASE Expires(p) /\ SelectsEntry(p)
  <2>1. PICK e \in Nat : e < FrameCount(a) /\ Tick(p) = Select(a, e)
    <3>1. p.active BY <1>4 DEF Expires, Playing
    <3>2. FrameCount(a) \in 1 .. MaxFrames
      BY <1>1, <3>1, TableFacts DEF EntryInv
    <3>3. CASE HasNextEntry(p)
      <4>1. Tick(p) = Select(a, p.entry + 1)
        BY <1>4, <3>3 DEF Tick, Advance
      <4> QED BY <1>1, <3>3, <4>1 DEF HasNextEntry
    <3>4. CASE ~HasNextEntry(p)
      <4>1. Tick(p) = Select(a, 0)
        BY <1>4, <3>4 DEF Tick, Advance, SelectsEntry
      <4> QED BY <3>2, <4>1 DEF MaxFrames
    <3> QED BY <3>3, <3>4
  <2>2. Select(a, e).active = TRUE /\ Select(a, e).animation = a BY DEF Select
  <2>3. p.active = TRUE BY <1>4 DEF Expires, Playing, PlaybackStates
  <2> QED BY <1>1, <1>4, <2>1, <2>2, <2>3, SelectKeepsTypes
<1>5. CASE Expires(p) /\ ~SelectsEntry(p)
  <2>1. Tick(p) = Complete(p) BY <1>5 DEF Tick, Advance, SelectsEntry
  <2>2. p.active = TRUE BY <1>5 DEF Expires, Playing, PlaybackStates
  <2>3. /\ Complete(p).frame = p.frame /\ Complete(p).animation = a
        /\ Complete(p).active = TRUE /\ Complete(p).entry = p.entry
    BY DEF Complete
  <2>4. Complete(p) \in PlaybackStates BY DEF Complete, PlaybackStates
  <2> QED BY <1>5, <2>1, <2>2, <2>3, <2>4 DEF EntryInv
<1> QED BY <1>2, <1>3, <1>4, <1>5 DEF Expires

\* A logical frame moves the selected entry and the clock together.
LEMMA TickKeepsTime ==
  ASSUME ShortTables, NEW p \in PlaybackStates, EntryInv(p),
         NEW t \in Nat, TimeInv(p, t)
  PROVE  TimeInv(Tick(p), Clock(p, t)) /\ Clock(p, t) \in Nat
<1> DEFINE a == p.animation
<1>1. /\ a \in Animations /\ p.entry \in 0 .. MaxFrames - 1
      /\ p.timer \in 0 .. 255
  BY DEF PlaybackStates
<1>2. CASE ~p.active
  <2>1. Tick(p) = p BY <1>2 DEF Tick, Expires, Playing
  <2> QED BY <1>2, <2>1 DEF TimeInv, Clock
<1> SUFFICES ASSUME p.active PROVE TimeInv(Tick(p), Clock(p, t)) /\ Clock(p, t) \in Nat
  BY <1>2
<1>3. p.entry \in Nat /\ p.entry < FrameCount(a) BY <1>1 DEF EntryInv
<1>4. /\ FrameCount(a) \in 1 .. MaxFrames
      /\ Durations[a][p.entry + 1] \in ByteDurations
      /\ Starts[a][p.entry + 1] \in Nat
      /\ Starts[a][p.entry + 2] = Starts[a][p.entry + 1] + Durations[a][p.entry + 1]
      /\ Starts[a][p.entry + 2] <= TotalDuration(a)
      /\ TotalDuration(a) \in Nat
  BY <1>1, <1>3, TableFacts
<1>5. Clock(p, t) = TickClock(a, t) BY DEF Clock
<1>6. CASE p.finished
  <2>1. Tick(p) = p BY <1>6 DEF Tick, Expires, Playing
  <2>2. t = TotalDuration(a) /\ ~Loops[a] BY <1>6 DEF TimeInv
  <2>3. TickClock(a, t) = t BY <1>4, <2>2 DEF TickClock
  <2> QED BY <1>5, <2>1, <2>3
<1>7. CASE ~p.finished /\ p.timer > 1
  <2>1. Tick(p) = [p EXCEPT !.timer = p.timer - 1]
    BY <1>1, <1>7 DEF Tick, Expires, Playing
  <2>2. /\ p.frame = FrameIds[a][p.entry + 1]
        /\ p.timer <= Durations[a][p.entry + 1]
        /\ t + p.timer = Starts[a][p.entry + 2]
    BY <1>7 DEF TimeInv
  <2>3. TickClock(a, t) = t + 1 BY <1>1, <1>4, <1>7, <2>2 DEF TickClock
  <2>4. (t + 1) + (p.timer - 1) = Starts[a][p.entry + 2] BY <1>1, <2>2
  <2>5. /\ Tick(p).frame = p.frame /\ Tick(p).animation = a
        /\ Tick(p).entry = p.entry /\ Tick(p).timer = p.timer - 1
        /\ Tick(p).finished = p.finished
    BY <2>1 DEF PlaybackStates
  <2>6. p.timer - 1 > 0 /\ p.timer - 1 <= Durations[a][p.entry + 1]
    <3> DEFINE n == p.timer
               d == Durations[a][p.entry + 1]
    <3>1. n \in Int /\ d \in Int /\ n > 1 /\ n <= d
      BY <1>1, <1>4, <1>7, <2>2 DEF ByteDurations
    <3> HIDE DEF n, d
    <3>2. n - 1 > 0 /\ n - 1 <= d BY <3>1
    <3> QED BY <3>2 DEF n, d
  <2> QED BY <1>5, <1>7, <2>2, <2>3, <2>4, <2>5, <2>6 DEF TimeInv
<1>8. CASE ~p.finished /\ p.timer <= 1
  <2>1. Tick(p) = Advance(p) BY <1>1, <1>8 DEF Tick, Expires, Playing
  <2>2. t + 1 = Starts[a][p.entry + 2] BY <1>1, <1>8 DEF TimeInv
  <2>3. CASE HasNextEntry(p)
    <3> DEFINE e == p.entry + 1
    <3>1. e \in Nat /\ e < FrameCount(a) BY <1>3, <2>3 DEF HasNextEntry
    <3>2. Tick(p) = Select(a, e) BY <2>1, <2>3 DEF Advance
    <3>3. /\ Durations[a][e + 1] \in ByteDurations
          /\ Starts[a][e + 2] = Starts[a][e + 1] + Durations[a][e + 1]
          /\ Starts[a][e + 2] <= TotalDuration(a)
          /\ Starts[a][e + 1] \in Nat
      BY <1>1, <3>1, TableFacts
    <3>4. e + 1 = p.entry + 2 BY <1>3
    <3>5. t + 1 < TotalDuration(a) BY <1>4, <2>2, <3>3, <3>4 DEF ByteDurations
    <3>6. TickClock(a, t) = Starts[a][e + 1] BY <2>2, <3>4, <3>5 DEF TickClock
    <3>7. TimeInv(Select(a, e), Starts[a][e + 1]) BY <1>1, <3>1, SelectKeepsTime
    <3> QED BY <1>5, <3>2, <3>3, <3>6, <3>7
  <2>4. CASE ~HasNextEntry(p)
    <3>1. p.entry + 1 = FrameCount(a)
      BY <1>3, <1>4, <2>4 DEF HasNextEntry, MaxFrames
    <3>2. t + 1 = TotalDuration(a) BY <1>3, <2>2, <3>1 DEF TotalDuration
    <3>3. CASE Loops[a]
      <4>1. Tick(p) = Select(a, 0) BY <2>1, <2>4, <3>3 DEF Advance
      <4>2. TickClock(a, t) = 0 BY <3>2, <3>3, <1>4 DEF TickClock
      <4>3. Starts[a][0 + 1] = 0 BY <1>1, StartsAssumption
      <4>4. 0 < FrameCount(a) BY <1>4 DEF MaxFrames
      <4> QED BY <1>1, <1>5, <4>1, <4>2, <4>3, <4>4, SelectKeepsTime
    <3>4. CASE ~Loops[a]
      <4>1. Tick(p) = Complete(p) BY <2>1, <2>4, <3>4 DEF Advance
      <4>2. TickClock(a, t) = TotalDuration(a) BY <3>2, <3>4, <1>4 DEF TickClock
      <4>3. /\ Tick(p).frame = p.frame /\ Tick(p).animation = a
            /\ Tick(p).entry = p.entry /\ Tick(p).finished = TRUE
        BY <4>1 DEF Complete, PlaybackStates
      <4>4. p.frame = FrameIds[a][p.entry + 1] BY DEF TimeInv
      <4> QED BY <1>4, <1>5, <3>1, <3>4, <4>2, <4>3, <4>4 DEF TimeInv
    <3> QED BY <3>3, <3>4
  <2> QED BY <2>3, <2>4
<1> QED BY <1>1, <1>6, <1>7, <1>8

-----------------------------------------------------------------------------

\* Setting one instance to a well-formed record keeps BaseInv.
LEMMA InstanceStep ==
  ASSUME BaseInv, NEW i \in Instances, NEW p \in PlaybackStates,
         EntryInv(p), FitInv(i, p),
         NEW v \in BOOLEAN, NEW s \in Poses, NEW t \in Nat,
         play' = [play EXCEPT ![i] = p],
         visible' = [visible EXCEPT ![i] = v],
         pose' = [pose EXCEPT ![i] = s],
         elapsed' = [elapsed EXCEPT ![i] = t],
         shown' = Rendered(i, v, p.frame, s)
  PROVE  BaseInv'
<1> USE DEF BaseInv, TypeOK
<1>1. p.frame \in Frames BY DEF PlaybackStates
<1>2. <<p.frame, s>> \in Frames \X Poses BY <1>1
<1>3. Image(v, p.frame, s) \in (Frames \X Poses) \cup {Nothing}
  BY <1>2 DEF Image
<1>4. shown' \in [Instances -> (Frames \X Poses) \cup {Nothing}]
  BY <1>3 DEF Rendered
<1>5. TypeOK' BY <1>4
<1>6. \A j \in Instances : EntryInv(play'[j]) /\ FitInv(j, play'[j])
  <2> TAKE j \in Instances
  <2>1. play'[j] = IF j = i THEN p ELSE play[j] OBVIOUS
  <2> QED BY <2>1
<1>7. \A j \in Instances : shown'[j] = Image(visible'[j], play'[j].frame, pose'[j])
  <2> TAKE j \in Instances
  <2>1. /\ play'[j] = IF j = i THEN p ELSE play[j]
        /\ visible'[j] = IF j = i THEN v ELSE visible[j]
        /\ pose'[j] = IF j = i THEN s ELSE pose[j]
        /\ shown'[j] = IF j = i THEN Image(v, p.frame, s) ELSE shown[j]
    BY DEF Rendered
  <2>2. shown[j] = Image(visible[j], play[j].frame, pose[j])
    BY DEF ShadowShowsSelection
  <2> QED BY <2>1, <2>2
<1> QED BY <1>5, <1>6, <1>7 DEF ShadowShowsSelection

LEMMA SameValue ==
  ASSUME NEW S, NEW T, NEW f \in [S -> T], NEW x \in S
  PROVE  f = [f EXCEPT ![x] = f[x]]
OBVIOUS

LEMMA SetPoseStep ==
  ASSUME BaseInv, NEW i \in Instances, NEW s \in Poses, SetPose(i, s)
  PROVE  BaseInv'
<1>1. /\ play[i] \in PlaybackStates /\ EntryInv(play[i]) /\ FitInv(i, play[i])
      /\ visible[i] \in BOOLEAN /\ elapsed[i] \in Nat
  BY DEF BaseInv, TypeOK
<1>2. /\ play' = [play EXCEPT ![i] = play[i]]
      /\ visible' = [visible EXCEPT ![i] = visible[i]]
      /\ elapsed' = [elapsed EXCEPT ![i] = elapsed[i]]
  BY SameValue DEF SetPose, BaseInv, TypeOK
<1>3. /\ pose' = [pose EXCEPT ![i] = s]
      /\ shown' = Rendered(i, visible[i], play[i].frame, s)
  BY DEF SetPose
<1> QED BY <1>1, <1>2, <1>3, InstanceStep

LEMMA SetVisibleStep ==
  ASSUME BaseInv, NEW i \in Instances, NEW v \in BOOLEAN, SetVisible(i, v)
  PROVE  BaseInv'
<1>1. /\ play[i] \in PlaybackStates /\ EntryInv(play[i]) /\ FitInv(i, play[i])
      /\ pose[i] \in Poses /\ elapsed[i] \in Nat
  BY DEF BaseInv, TypeOK
<1>2. /\ play' = [play EXCEPT ![i] = play[i]]
      /\ pose' = [pose EXCEPT ![i] = pose[i]]
      /\ elapsed' = [elapsed EXCEPT ![i] = elapsed[i]]
  BY SameValue DEF SetVisible, BaseInv, TypeOK
<1>3. /\ visible' = [visible EXCEPT ![i] = v]
      /\ shown' = Rendered(i, v, play[i].frame, pose[i])
  BY DEF SetVisible
<1> QED BY <1>1, <1>2, <1>3, InstanceStep

LEMMA SetFrameStep ==
  ASSUME BaseInv, NEW i \in Instances, NEW f \in Frames, SetFrame(i, f)
  PROVE  BaseInv'
<1> DEFINE p == Manual(play[i], f)
<1>1. play[i].animation \in Animations BY DEF BaseInv, TypeOK, PlaybackStates
<1>2. p \in PlaybackStates /\ p.frame = f /\ p.active = FALSE
  BY <1>1 DEF Manual, PlaybackStates, MaxFrames
<1>3. EntryInv(p) /\ FitInv(i, p) BY <1>2 DEF EntryInv, FitInv, SetFrame
<1>4. visible[i] \in BOOLEAN /\ pose[i] \in Poses BY DEF BaseInv, TypeOK
<1>5. /\ visible' = [visible EXCEPT ![i] = visible[i]]
      /\ pose' = [pose EXCEPT ![i] = pose[i]]
  BY SameValue DEF SetFrame, BaseInv, TypeOK
<1>6. /\ play' = [play EXCEPT ![i] = p]
      /\ elapsed' = [elapsed EXCEPT ![i] = 0]
      /\ shown' = Rendered(i, visible[i], p.frame, pose[i])
  BY <1>2 DEF SetFrame
<1> HIDE DEF p
<1> QED BY <1>2, <1>3, <1>4, <1>5, <1>6, InstanceStep

LEMMA BeginStep ==
  ASSUME BaseInv, NEW i \in Instances, NEW a \in Animations,
         AnimationAsset[a] = InstanceAsset[i], BeginPlayback(i, a)
  PROVE  BaseInv'
<1> DEFINE p == Begin(a)
<1>1. 0 < FrameCount(a) BY TableAssumption DEF FrameCount
<1>2. /\ p \in PlaybackStates /\ EntryInv(p)
      /\ FrameAsset[p.frame] = AnimationAsset[a]
  BY <1>1, SelectKeepsTypes DEF Begin
<1>3. p.animation = a BY DEF Begin, Select
<1>4. FitInv(i, p) BY <1>2, <1>3 DEF FitInv
<1>5. visible[i] \in BOOLEAN /\ pose[i] \in Poses BY DEF BaseInv, TypeOK
<1>6. /\ visible' = [visible EXCEPT ![i] = visible[i]]
      /\ pose' = [pose EXCEPT ![i] = pose[i]]
  BY SameValue DEF BeginPlayback, BaseInv, TypeOK
<1>7. /\ play' = [play EXCEPT ![i] = p]
      /\ elapsed' = [elapsed EXCEPT ![i] = 0]
      /\ shown' = Rendered(i, visible[i], p.frame, pose[i])
  BY DEF BeginPlayback
<1> HIDE DEF p
<1> QED BY <1>2, <1>4, <1>5, <1>6, <1>7, InstanceStep

LEMMA ClockKeepsTypes ==
  ASSUME NEW p \in PlaybackStates, EntryInv(p), NEW t \in Nat
  PROVE  Clock(p, t) \in Nat
<1>1. CASE p.active
  <2>1. TotalDuration(p.animation) \in Nat
    BY <1>1, TableFacts DEF EntryInv, PlaybackStates
  <2> QED BY <2>1 DEF Clock, TickClock
<1>2. CASE ~p.active BY <1>2 DEF Clock
<1> QED BY <1>1, <1>2

LEMMA UpdateStep ==
  ASSUME BaseInv, UpdateAnimations
  PROVE  BaseInv'
<1> USE DEF BaseInv, TypeOK
<1>1. ASSUME NEW i \in Instances
      PROVE  /\ play'[i] = Tick(play[i])
             /\ elapsed'[i] = Clock(play[i], elapsed[i])
             /\ visible'[i] = visible[i] /\ pose'[i] = pose[i]
             /\ shown'[i] = IF SelectsEntry(play[i])
                            THEN Image(visible[i], Tick(play[i]).frame, pose[i])
                            ELSE shown[i]
  BY DEF UpdateAnimations, Clock
<1>2. ASSUME NEW i \in Instances
      PROVE  /\ Tick(play[i]) \in PlaybackStates /\ EntryInv(Tick(play[i]))
             /\ FitInv(i, Tick(play[i]))
             /\ Clock(play[i], elapsed[i]) \in Nat
             /\ ~SelectsEntry(play[i]) => Tick(play[i]).frame = play[i].frame
  <2> DEFINE p == play[i]
  <2>1. p \in PlaybackStates /\ EntryInv(p) /\ FitInv(i, p) OBVIOUS
  <2>2. elapsed[i] \in Nat OBVIOUS
  <2> HIDE DEF p
  <2>3. /\ Tick(p) \in PlaybackStates /\ EntryInv(Tick(p))
        /\ Tick(p).active = p.active /\ Tick(p).animation = p.animation
        /\ SelectsEntry(p) => FrameAsset[Tick(p).frame] = AnimationAsset[p.animation]
        /\ ~SelectsEntry(p) => Tick(p).frame = p.frame
    BY <2>1, TickKeepsTypes
  <2>4. SelectsEntry(p) => p.active BY DEF SelectsEntry, Expires, Playing
  <2>5. FitInv(i, Tick(p)) BY <2>1, <2>3, <2>4 DEF FitInv
  <2>6. Clock(p, elapsed[i]) \in Nat BY <2>1, <2>2, ClockKeepsTypes
  <2> QED BY <2>3, <2>5, <2>6 DEF p
<1>3. play' \in [Instances -> PlaybackStates]
  BY <1>1, <1>2 DEF UpdateAnimations
<1>4. elapsed' \in [Instances -> Nat]
  <2>1. elapsed' = [i \in Instances |-> elapsed'[i]] BY DEF UpdateAnimations
  <2> QED BY <1>1, <1>2, <2>1
<1>5. ASSUME NEW i \in Instances
      PROVE  /\ shown'[i] = Image(visible[i], Tick(play[i]).frame, pose[i])
             /\ shown'[i] \in (Frames \X Poses) \cup {Nothing}
  <2>1. shown[i] = Image(visible[i], play[i].frame, pose[i])
    BY DEF ShadowShowsSelection
  <2>2. shown'[i] = Image(visible[i], Tick(play[i]).frame, pose[i])
    BY <1>1, <1>2, <2>1
  <2>3. Tick(play[i]).frame \in Frames BY <1>2 DEF PlaybackStates
  <2>4. <<Tick(play[i]).frame, pose[i]>> \in Frames \X Poses BY <2>3
  <2> QED BY <2>2, <2>4 DEF Image
<1>6. shown' \in [Instances -> (Frames \X Poses) \cup {Nothing}]
  <2>1. shown' = [i \in Instances |-> shown'[i]] BY DEF UpdateAnimations
  <2> QED BY <1>5, <2>1
<1>7. TypeOK' BY <1>3, <1>4, <1>6 DEF UpdateAnimations
<1>8. ShadowShowsSelection' BY <1>1, <1>5 DEF ShadowShowsSelection
<1>9. \A i \in Instances : EntryInv(play'[i]) /\ FitInv(i, play'[i])
  BY <1>1, <1>2
<1> QED BY <1>7, <1>8, <1>9

LEMMA InitBase == Init => BaseInv
<1> SUFFICES ASSUME Init PROVE BaseInv OBVIOUS
<1> USE DEF Init
<1>1. 0 \in Animations BY AssetAssumption DEF Animations
<1>2. ASSUME NEW i \in Instances
      PROVE  /\ play[i] \in PlaybackStates /\ EntryInv(play[i])
             /\ FitInv(i, play[i])
  BY <1>1, AssetAssumption DEF PlaybackStates, EntryInv, FitInv, MaxFrames
<1>3. play \in [Instances -> PlaybackStates]
  <2>1. play = [i \in Instances |-> play[i]] OBVIOUS
  <2> QED BY <1>2, <2>1
<1>4. TypeOK BY <1>3, AssetAssumption DEF TypeOK
<1>5. ShadowShowsSelection BY DEF ShadowShowsSelection, Image
<1> QED BY <1>2, <1>4, <1>5 DEF BaseInv

LEMMA BaseStep == BaseInv /\ [Next]_vars => BaseInv'
<1> SUFFICES ASSUME BaseInv, [Next]_vars PROVE BaseInv' OBVIOUS
<1>1. CASE UNCHANGED vars
  BY <1>1 DEF vars, BaseInv, TypeOK, ShadowShowsSelection
<1>2. ASSUME NEW i \in Instances, NEW s \in Poses, SetPose(i, s)
      PROVE  BaseInv'
  BY <1>2, SetPoseStep
<1>3. ASSUME NEW i \in Instances, NEW f \in Frames, SetFrame(i, f)
      PROVE  BaseInv'
  BY <1>3, SetFrameStep
<1>4. ASSUME NEW i \in Instances, NEW v \in BOOLEAN, SetVisible(i, v)
      PROVE  BaseInv'
  BY <1>4, SetVisibleStep
<1>5. ASSUME NEW i \in Instances, NEW a \in Animations, SetAnimation(i, a)
      PROVE  BaseInv'
  BY <1>5, BeginStep DEF SetAnimation
<1>6. ASSUME NEW i \in Instances, RestartAnimation(i)
      PROVE  BaseInv'
  <2> DEFINE a == play[i].animation
  <2>1. a \in Animations BY DEF BaseInv, TypeOK, PlaybackStates
  <2>2. AnimationAsset[a] = InstanceAsset[i]
    BY <1>6 DEF BaseInv, FitInv, RestartAnimation
  <2>3. BeginPlayback(i, a) BY <1>6 DEF RestartAnimation
  <2> HIDE DEF a
  <2> QED BY <2>1, <2>2, <2>3, BeginStep
<1>7. CASE UpdateAnimations BY <1>7, UpdateStep
<1> QED BY <1>1, <1>2, <1>3, <1>4, <1>5, <1>6, <1>7 DEF Next

-----------------------------------------------------------------------------

LEMMA TimeUntouched ==
  ASSUME PlaybackInv, UNCHANGED <<play, elapsed>>
  PROVE  PlaybackInv'
BY DEF PlaybackInv

LEMMA TimeBegin ==
  ASSUME ShortTables, BaseInv, PlaybackInv,
         NEW i \in Instances, NEW a \in Animations, BeginPlayback(i, a)
  PROVE  PlaybackInv'
<1>1. 0 < FrameCount(a) /\ Starts[a][0 + 1] = 0
  BY TableAssumption, StartsAssumption DEF FrameCount
<1>2. TimeInv(Begin(a), 0) BY <1>1, SelectKeepsTime DEF Begin
<1>3. ASSUME NEW j \in Instances PROVE TimeInv(play'[j], elapsed'[j])
  <2>1. /\ play'[j] = IF j = i THEN Begin(a) ELSE play[j]
        /\ elapsed'[j] = IF j = i THEN 0 ELSE elapsed[j]
    BY DEF BeginPlayback, BaseInv, TypeOK
  <2>2. TimeInv(play[j], elapsed[j]) BY DEF PlaybackInv
  <2> QED BY <1>2, <2>1, <2>2
<1> QED BY <1>3 DEF PlaybackInv

LEMMA TimeManual ==
  ASSUME BaseInv, PlaybackInv,
         NEW i \in Instances, NEW f \in Frames, SetFrame(i, f)
  PROVE  PlaybackInv'
<1>1. TimeInv(Manual(play[i], f), 0) BY DEF Manual, TimeInv
<1>2. ASSUME NEW j \in Instances PROVE TimeInv(play'[j], elapsed'[j])
  <2>1. /\ play'[j] = IF j = i THEN Manual(play[i], f) ELSE play[j]
        /\ elapsed'[j] = IF j = i THEN 0 ELSE elapsed[j]
    BY DEF SetFrame, BaseInv, TypeOK
  <2>2. TimeInv(play[j], elapsed[j]) BY DEF PlaybackInv
  <2> QED BY <1>1, <2>1, <2>2
<1> QED BY <1>2 DEF PlaybackInv

LEMMA TimeUpdate ==
  ASSUME ShortTables, BaseInv, PlaybackInv, UpdateAnimations
  PROVE  PlaybackInv'
<1>1. ASSUME NEW i \in Instances PROVE TimeInv(play'[i], elapsed'[i])
  <2>1. /\ play'[i] = Tick(play[i])
        /\ elapsed'[i] = Clock(play[i], elapsed[i])
    BY DEF UpdateAnimations, Clock
  <2>2. /\ play[i] \in PlaybackStates /\ EntryInv(play[i])
        /\ elapsed[i] \in Nat /\ TimeInv(play[i], elapsed[i])
    BY DEF BaseInv, TypeOK, PlaybackInv
  <2>3. TimeInv(Tick(play[i]), Clock(play[i], elapsed[i]))
    BY <2>2, TickKeepsTime
  <2> QED BY <2>1, <2>3
<1> QED BY <1>1 DEF PlaybackInv

LEMMA PlaybackStep ==
  ASSUME ShortTables, BaseInv, PlaybackInv, [Next]_vars
  PROVE  PlaybackInv'
<1>1. CASE UNCHANGED vars BY <1>1, TimeUntouched DEF vars
<1>2. ASSUME NEW i \in Instances, NEW s \in Poses, SetPose(i, s)
      PROVE  PlaybackInv'
  BY <1>2, TimeUntouched DEF SetPose
<1>3. ASSUME NEW i \in Instances, NEW f \in Frames, SetFrame(i, f)
      PROVE  PlaybackInv'
  BY <1>3, TimeManual
<1>4. ASSUME NEW i \in Instances, NEW v \in BOOLEAN, SetVisible(i, v)
      PROVE  PlaybackInv'
  BY <1>4, TimeUntouched DEF SetVisible
<1>5. ASSUME NEW i \in Instances, NEW a \in Animations, SetAnimation(i, a)
      PROVE  PlaybackInv'
  BY <1>5, TimeBegin DEF SetAnimation
<1>6. ASSUME NEW i \in Instances, RestartAnimation(i)
      PROVE  PlaybackInv'
  <2>1. play[i].animation \in Animations
    BY DEF BaseInv, TypeOK, PlaybackStates
  <2> QED BY <1>6, <2>1, TimeBegin DEF RestartAnimation
<1>7. CASE UpdateAnimations BY <1>7, TimeUpdate
<1> QED BY <1>1, <1>2, <1>3, <1>4, <1>5, <1>6, <1>7 DEF Next

\* n is what is left at time t of an entry that lasts d from s on.
LEMMA Deadline ==
  ASSUME NEW s \in Nat, NEW d \in Nat, NEW n \in Nat, NEW t \in Nat,
         NEW q \in Nat, n > 0, n <= d, t + n = s + d, s + d <= q
  PROVE  s <= t /\ t < s + d /\ t < q
OBVIOUS

LEMMA TimeMeetsTable ==
  ASSUME BaseInv, PlaybackInv
  PROVE  PlaybackFollowsItsTable
<1> SUFFICES ASSUME NEW i \in Instances, play[i].active
    PROVE LET a == play[i].animation IN
          /\ EntryIsDue(a, play[i].entry, elapsed[i])
          /\ play[i].frame = FrameIds[a][play[i].entry + 1]
          /\ play[i].finished <=> elapsed[i] = TotalDuration(a)
          /\ play[i].finished => ~Loops[a]
  BY DEF PlaybackFollowsItsTable
<1> DEFINE p == play[i]
           a == p.animation
           t == elapsed[i]
<1>1. /\ a \in Animations /\ p.entry \in 0 .. MaxFrames - 1
      /\ p.timer \in 0 .. 255 /\ t \in Nat /\ EntryInv(p) /\ TimeInv(p, t)
  BY DEF BaseInv, TypeOK, PlaybackStates, PlaybackInv
<1>2. p.entry \in Nat /\ p.entry < FrameCount(a) BY <1>1 DEF EntryInv
<1>3. /\ FrameCount(a) \in 1 .. MaxFrames
      /\ Durations[a][p.entry + 1] \in ByteDurations
      /\ Starts[a][p.entry + 1] \in Nat
      /\ Starts[a][p.entry + 2] = Starts[a][p.entry + 1] + Durations[a][p.entry + 1]
      /\ Starts[a][p.entry + 2] <= TotalDuration(a)
      /\ TotalDuration(a) \in Nat
  BY <1>1, <1>2, TableFacts
<1>4. p.frame = FrameIds[a][p.entry + 1] BY <1>1 DEF TimeInv
<1>5. CASE p.finished
  <2>1. ~Loops[a] /\ t = TotalDuration(a) BY <1>1, <1>5 DEF TimeInv
  <2>2. Starts[a][p.entry + 1] <= t BY <1>3, <2>1 DEF ByteDurations
  <2> QED BY <1>2, <1>4, <1>5, <2>1, <2>2 DEF EntryIsDue
<1>6. CASE ~p.finished
  <2>1. /\ p.timer > 0 /\ p.timer <= Durations[a][p.entry + 1]
        /\ t + p.timer = Starts[a][p.entry + 2]
    BY <1>1, <1>6 DEF TimeInv
  <2>2. p.timer \in Nat /\ Durations[a][p.entry + 1] \in Nat
    BY <1>1, <1>3 DEF ByteDurations
  <2>3. /\ Starts[a][p.entry + 1] <= t /\ t < Starts[a][p.entry + 2]
        /\ t < TotalDuration(a)
    BY <1>1, <1>3, <2>1, <2>2, Deadline
  <2>4. t # TotalDuration(a) BY <1>1, <1>3, <2>3
  <2> QED BY <1>2, <1>4, <1>6, <2>3, <2>4 DEF EntryIsDue
<1> QED BY <1>5, <1>6

-----------------------------------------------------------------------------

(***************************************************************************)
(* Every variable keeps its type, for every table the loader admits: the   *)
(* entry and the timer stay bytes although neither is range-checked.       *)
(***************************************************************************)
THEOREM TypeCorrectness == Spec => []TypeOK
<1>1. BaseInv => TypeOK BY DEF BaseInv
<1> QED BY <1>1, InitBase, BaseStep, PTL DEF Spec

(***************************************************************************)
(* The slots of an instance show its selected frame and pose, or nothing   *)
(* while it is hidden, whatever the calls and logical frames so far.       *)
(***************************************************************************)
THEOREM ShadowIsCurrent == Spec => []ShadowShowsSelection
<1>1. BaseInv => ShadowShowsSelection BY DEF BaseInv
<1> QED BY <1>1, InitBase, BaseStep, PTL DEF Spec

(***************************************************************************)
(* An instance never selects a frame of another asset, even where a pair   *)
(* offset wraps: the wrapped entry belongs to the same table.              *)
(***************************************************************************)
THEOREM SlotsSuffice == Spec => []FramesBelongToTheInstance
<1>1. BaseInv => FramesBelongToTheInstance
  BY DEF BaseInv, FramesBelongToTheInstance, FitInv
<1> QED BY <1>1, InitBase, BaseStep, PTL DEF Spec

(***************************************************************************)
(* Playback follows the table of its animation, for any number of          *)
(* instances, animations and durations, if no table has more entries than  *)
(* an eight-bit pair offset reaches.                                       *)
(***************************************************************************)
THEOREM PlaybackIsExact ==
  ASSUME ShortTables
  PROVE  Spec => []PlaybackFollowsItsTable
<1> DEFINE IInv == BaseInv /\ PlaybackInv
<1>1. Init => IInv
  <2>1. Init => PlaybackInv BY DEF Init, PlaybackInv, TimeInv
  <2> QED BY <2>1, InitBase
<1>2. IInv /\ [Next]_vars => IInv' BY BaseStep, PlaybackStep
<1>3. IInv => PlaybackFollowsItsTable BY TimeMeetsTable
<1> HIDE DEF IInv
<1> QED BY <1>1, <1>2, <1>3, PTL DEF Spec

=============================================================================
