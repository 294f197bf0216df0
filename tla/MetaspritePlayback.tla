------------------------- MODULE MetaspritePlayback -------------------------
(***************************************************************************)
(* Metasprite instances and their automatic animation, as the routines of  *)
(* _generate_metasprite_runtime_routines keep them.  Everything here runs  *)
(* on the main thread: the program's calls between two logical frames, and *)
(* one runtime_metasprite_update_animations per accepted logical frame.    *)
(*                                                                         *)
(* Rendering is abstracted to what the OAM shadow shows of an instance:    *)
(* nothing, or a frame in a pose (position and whole-object flips).        *)
(***************************************************************************)
EXTENDS Integers, Sequences

CONSTANTS
  Assets, Instances, Frames,
  AnimationCount,   \* animations are numbered from zero
  FrameAsset,       \* metasprite_frame_asset
  InstanceAsset,    \* metasprite_instance_asset
  InitialFrame,     \* the frame an instance is created with
  AnimationAsset,   \* metasprite_animation_asset
  Loops,            \* bit 0 of metasprite_animation_flags
  FrameIds,         \* the frame identifiers of an animation's table
  Durations,        \* the durations of an animation's table
  Starts,           \* running sums of the durations (a reader's clock)
  Poses,
  InitialPose       \* position zero, not flipped

\* The loader rejects more than 255 frames and durations outside 1..255.
MaxFrames == 255
ByteDurations == 1 .. 255
Animations == 0 .. AnimationCount - 1

ASSUME AssetAssumption ==
  /\ AnimationCount \in 1 .. 256
  /\ InitialPose \in Poses
  /\ FrameAsset \in [Frames -> Assets]
  /\ InstanceAsset \in [Instances -> Assets]
  /\ InitialFrame \in [Instances -> Frames]
  /\ \A i \in Instances : FrameAsset[InitialFrame[i]] = InstanceAsset[i]
  /\ AnimationAsset \in [Animations -> Assets]
  /\ Loops \in [Animations -> BOOLEAN]

ASSUME TableAssumption ==
  \A a \in Animations :
    /\ FrameIds[a] \in Seq(Frames)
    /\ Len(FrameIds[a]) \in 1 .. MaxFrames
    /\ \A k \in 1 .. Len(FrameIds[a]) :
         FrameAsset[FrameIds[a][k]] = AnimationAsset[a]
    /\ Durations[a] \in Seq(ByteDurations)
    /\ Len(Durations[a]) = Len(FrameIds[a])

ASSUME StartsAssumption ==
  \A a \in Animations :
    /\ Starts[a] \in Seq(Nat)
    /\ Len(Starts[a]) = Len(FrameIds[a]) + 1
    /\ Starts[a][1] = 0
    /\ \A k \in 1 .. Len(FrameIds[a]) :
         /\ Starts[a][k + 1] = Starts[a][k] + Durations[a][k]
         /\ Starts[a][k + 1] <= Starts[a][Len(FrameIds[a]) + 1]

VARIABLES
  play,      \* per instance: frame, animation, flags, entry and timer
  visible,   \* bit 0 of runtime_metasprite_flags
  pose,      \* runtime_metasprite_x, _y and the flip bits
  shown,     \* what the instance's slots of runtime_oam_shadow show
  elapsed    \* history: logical frames since the playback began

vars == <<play, visible, pose, shown, elapsed>>

Nothing == <<>>

FrameCount(a) == Len(FrameIds[a])
TotalDuration(a) == Starts[a][FrameCount(a) + 1]

(***************************************************************************)
(* The table of an animation holds two bytes per entry; the entry index is *)
(* doubled by an eight-bit shift to reach them.                            *)
(***************************************************************************)
PairOffset(entry) == (2 * entry) % 256
TableEntry(entry) == (PairOffset(entry) \div 2) + 1

(***************************************************************************)
(* @metasprite_animation_select_frame of an active, unfinished animation.  *)
(* runtime_metasprite_begin_animation sets the flags and selects entry 0.  *)
(***************************************************************************)
Select(a, entry) ==
  [frame |-> FrameIds[a][TableEntry(entry)], animation |-> a,
   active |-> TRUE, finished |-> FALSE,
   entry |-> entry, timer |-> Durations[a][TableEntry(entry)]]

Begin(a) == Select(a, 0)

\* @metasprite_animation_complete.
Complete(p) ==
  [frame |-> p.frame, animation |-> p.animation, active |-> TRUE,
   finished |-> TRUE, entry |-> p.entry, timer |-> 0]

\* runtime_metasprite_advance_animation.
HasNextEntry(p) == p.entry + 1 < FrameCount(p.animation)

Advance(p) ==
  IF HasNextEntry(p) THEN Select(p.animation, p.entry + 1)
  ELSE IF Loops[p.animation] THEN Select(p.animation, 0)
  ELSE Complete(p)

\* One instance in runtime_metasprite_update_animations.
Playing(p) == p.active /\ ~p.finished
Expires(p) == Playing(p) /\ p.timer < 2

Tick(p) ==
  IF Expires(p) THEN Advance(p)
  ELSE IF Playing(p) THEN [p EXCEPT !.timer = p.timer - 1]
  ELSE p

\* Fault: the wrap to entry zero is not rendered.
SelectsNextEntry(p) == Expires(p) /\ HasNextEntry(p)

\* Whether Tick selects an entry, and so renders the instance.
SelectsEntry(p) == Expires(p) /\ (HasNextEntry(p) \/ Loops[p.animation])

\* Fault: a manual frame does not stop playback.
ManualKeepsPlaying(p, f) == [p EXCEPT !.frame = f]

\* The manual frame of runtime_metasprite_set_frame, which stops playback.
Manual(p, f) ==
  [frame |-> f, animation |-> p.animation, active |-> FALSE,
   finished |-> FALSE, entry |-> 0, timer |-> 0]

\* What runtime_metasprite_render leaves in the slots of an instance.
Image(isVisible, frame, inPose) ==
  IF isVisible THEN <<frame, inPose>> ELSE Nothing

Rendered(i, isVisible, frame, inPose) ==
  [shown EXCEPT ![i] = Image(isVisible, frame, inPose)]

\* A clock that a looping animation sets back after its total duration.
TickClock(a, t) ==
  IF t + 1 < TotalDuration(a) THEN t + 1
  ELSE IF Loops[a] THEN 0 ELSE TotalDuration(a)

\* _generate_metasprite_initialization; other RAM is cleared at reset.
Init ==
  /\ play = [i \in Instances |->
               [frame |-> InitialFrame[i], animation |-> 0, active |-> FALSE,
                finished |-> FALSE, entry |-> 0, timer |-> 0]]
  /\ visible = [i \in Instances |-> FALSE]
  /\ pose = [i \in Instances |-> InitialPose]
  /\ shown = [i \in Instances |-> Nothing]
  /\ elapsed = [i \in Instances |-> 0]

\* nes.metasprite_set_position and the two flip setters.
SetPose(i, s) ==
  /\ pose' = [pose EXCEPT ![i] = s]
  /\ shown' = Rendered(i, visible[i], play[i].frame, s)
  /\ UNCHANGED <<play, visible, elapsed>>

\* nes.metasprite_set_frame; a frame of another asset is ignored.
SetFrame(i, f) ==
  /\ FrameAsset[f] = InstanceAsset[i]
  /\ play' = [play EXCEPT ![i] = Manual(play[i], f)]
  /\ shown' = Rendered(i, visible[i], f, pose[i])
  /\ elapsed' = [elapsed EXCEPT ![i] = 0]
  /\ UNCHANGED <<visible, pose>>

\* nes.metasprite_hide and nes.metasprite_show.
SetVisible(i, v) ==
  /\ visible' = [visible EXCEPT ![i] = v]
  /\ shown' = Rendered(i, v, play[i].frame, pose[i])
  /\ UNCHANGED <<play, pose, elapsed>>

BeginPlayback(i, a) ==
  /\ play' = [play EXCEPT ![i] = Begin(a)]
  /\ shown' = Rendered(i, visible[i], Begin(a).frame, pose[i])
  /\ elapsed' = [elapsed EXCEPT ![i] = 0]
  /\ UNCHANGED <<visible, pose>>

\* Fault: the asset of the animation is not compared.
SetAnyAnimation(i, a) ==
  /\ ~(play[i].active /\ play[i].animation = a)
  /\ BeginPlayback(i, a)

\* nes.metasprite_set_animation: ignores other assets and an active match.
SetAnimation(i, a) ==
  /\ AnimationAsset[a] = InstanceAsset[i]
  /\ ~(play[i].active /\ play[i].animation = a)
  /\ BeginPlayback(i, a)

\* nes.metasprite_restart_animation.
RestartAnimation(i) ==
  /\ play[i].active
  /\ BeginPlayback(i, play[i].animation)

\* runtime_metasprite_update_animations, once per accepted logical frame.
UpdateAnimations ==
  /\ play' = [i \in Instances |-> Tick(play[i])]
  /\ shown' = [i \in Instances |->
                 IF SelectsEntry(play[i])
                 THEN Image(visible[i], Tick(play[i]).frame, pose[i])
                 ELSE shown[i]]
  /\ elapsed' = [i \in Instances |->
                   IF play[i].active
                   THEN TickClock(play[i].animation, elapsed[i])
                   ELSE elapsed[i]]
  /\ UNCHANGED <<visible, pose>>

Next ==
  \/ \E i \in Instances :
       \/ \E s \in Poses : SetPose(i, s)
       \/ \E f \in Frames : SetFrame(i, f)
       \/ \E v \in BOOLEAN : SetVisible(i, v)
       \/ \E a \in Animations : SetAnimation(i, a)
       \/ RestartAnimation(i)
  \/ UpdateAnimations

Spec == Init /\ [][Next]_vars

-----------------------------------------------------------------------------
PlaybackStates ==
  [frame : Frames, animation : Animations, active : BOOLEAN,
   finished : BOOLEAN, entry : 0 .. MaxFrames - 1, timer : 0 .. 255]

\* Type invariant.
TypeOK ==
  /\ play \in [Instances -> PlaybackStates]
  /\ visible \in [Instances -> BOOLEAN]
  /\ pose \in [Instances -> Poses]
  /\ shown \in [Instances -> (Frames \X Poses) \cup {Nothing}]
  /\ elapsed \in [Instances -> Nat]

(***************************************************************************)
(* The entry whose duration contains the time t since the playback began;  *)
(* a one-shot animation stays on its last entry.                           *)
(***************************************************************************)
EntryIsDue(a, entry, t) ==
  /\ entry < FrameCount(a)
  /\ Starts[a][entry + 1] <= t
  /\ t < Starts[a][entry + 2] \/ t = TotalDuration(a)

(***************************************************************************)
(* An active animation selects, at any time, the frame of the entry that   *)
(* its durations make due: each entry lasts exactly its duration, entries  *)
(* follow in order, a looping animation starts over, and completion is     *)
(* reported exactly when a one-shot animation has consumed all durations   *)
(* - through any mixture of ticks, selections, restarts and manual frames. *)
(***************************************************************************)
PlaybackFollowsItsTable ==
  \A i \in Instances : play[i].active =>
    LET a == play[i].animation IN
    /\ EntryIsDue(a, play[i].entry, elapsed[i])
    /\ play[i].frame = FrameIds[a][play[i].entry + 1]
    /\ play[i].finished <=> elapsed[i] = TotalDuration(a)
    /\ play[i].finished => ~Loops[a]

(***************************************************************************)
(* Between two calls, the slots of every visible instance show its         *)
(* selected frame in its pose and those of a hidden one show nothing: no   *)
(* handler forgets to render, and a hidden instance that is animated or    *)
(* moved stays hidden.                                                     *)
(***************************************************************************)
ShadowShowsSelection ==
  \A i \in Instances :
    shown[i] = Image(visible[i], play[i].frame, pose[i])

(***************************************************************************)
(* An instance only ever selects frames of the asset it was created from,  *)
(* the one whose largest frame its slots were reserved for, although the   *)
(* identities passed at run time are opaque bytes.                         *)
(***************************************************************************)
FramesBelongToTheInstance ==
  \A i \in Instances :
    /\ FrameAsset[play[i].frame] = InstanceAsset[i]
    /\ play[i].active => AnimationAsset[play[i].animation] = InstanceAsset[i]

=============================================================================
