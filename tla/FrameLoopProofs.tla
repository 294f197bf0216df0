--------------------------- MODULE FrameLoopProofs ---------------------------
(***************************************************************************)
(* Proofs about FrameLoop, for every counter size and every backlog        *)
(* smaller than it.                                                        *)
(*                                                                         *)
(* CountInv relates the wrapping counter to the true number of NMIs since  *)
(* the main thread read it, and PollInv to the number since the frame the  *)
(* controllers were read for.  Both numbers stay below the modulus, which  *)
(* is what makes an equality test of two bytes mean what it should.        *)
(***************************************************************************)
EXTENDS FrameLoop, TLAPS

\* Counter value n frames after the value c, for n below the modulus.
After(c, n) == IF c + n < FrameModulus THEN c + n ELSE c + n - FrameModulus

\* The main thread has read the counter at least once.
HasRead == pc # "program" \/ pollValid

\* A frame has been accepted and its poll is still to come.
Accepting == pc \in {"waitPoll", "accept", "clear", "poll"}

CountInv ==
  /\ HasRead => counter = After(a, unseen)
  /\ unseen <= since
  /\ pc \in {"loop", "clear", "poll", "callback"} => last = a
  /\ pc \in {"waited", "reread"} => unseen > 0

PollInv ==
  /\ Accepting => unseen = since
  /\ Accepting /\ pollValid => polled # a
  /\ ~Accepting /\ pollValid => fresh /\ counter = After(polled, since)
  /\ pc = "callback" => pollValid

IInv == TypeOK /\ CountInv /\ PollInv

USE DEF history, controllerVars

-----------------------------------------------------------------------------

LEMMA Increment ==
  ASSUME NEW c \in Frames
  PROVE  /\ (c + 1) % FrameModulus \in Frames
         /\ (c + 1) % FrameModulus = After(c, 1)
<1>1. CASE c + 1 < FrameModulus
  BY <1>1, ModulusAssumption DEF Frames, After
<1>2. CASE c + 1 = FrameModulus
  BY <1>2, ModulusAssumption DEF Frames, After
<1> QED BY <1>1, <1>2, ModulusAssumption DEF Frames

LEMMA AfterIncrement ==
  ASSUME NEW c \in Frames, NEW n \in Nat, n + 1 < FrameModulus
  PROVE  (After(c, n) + 1) % FrameModulus = After(c, n + 1)
<1>1. After(c, n) \in Frames BY ModulusAssumption DEF After, Frames
<1>2. (After(c, n) + 1) % FrameModulus = After(After(c, n), 1)
  BY <1>1, Increment
<1>3. After(After(c, n), 1) = After(c, n + 1)
  BY ModulusAssumption DEF After, Frames
<1> QED BY <1>2, <1>3

LEMMA AfterZero == \A c \in Frames : After(c, 0) = c
BY ModulusAssumption DEF After, Frames

LEMMA AfterDiffers ==
  ASSUME NEW c \in Frames, NEW n \in Nat, 0 < n, n < FrameModulus
  PROVE  After(c, n) # c
BY ModulusAssumption DEF After, Frames

-----------------------------------------------------------------------------

LEMMA TypeStep == TypeOK /\ CountInv /\ [Next]_vars => TypeOK'
<1> SUFFICES ASSUME TypeOK, CountInv, [Next]_vars PROVE TypeOK' OBVIOUS
<1> USE DEF TypeOK
<1>1. CASE UNCHANGED vars BY <1>1 DEF vars
<1>2. CASE WaitSample \/ ReadBaseline \/ WaitAccept \/ SeeFrame
  <2>1. 0 \in 0 .. MaxBacklog BY BacklogAssumption
  <2>2. fresh' \in BOOLEAN
    BY <1>2 DEF WaitSample, ReadBaseline, WaitAccept, SeeFrame, ReadCounter
  <2> QED BY <1>2, <2>1, <2>2
          DEF WaitSample, ReadBaseline, WaitAccept, SeeFrame, ReadCounter,
              PcValues
<1>3. CASE \/ WaitChanged \/ WaitClear \/ StoreBaseline \/ AcceptFrame
           \/ ClearReady \/ Return
  BY <1>3 DEF WaitChanged, WaitClear, StoreBaseline, AcceptFrame, ClearReady,
              Return, PcValues
<1>4. CASE Poll BY <1>4 DEF Poll, UpdateControllers, PcValues
<1>5. CASE Nmi
  <2>1. counter' \in Frames BY <1>5, Increment DEF Nmi
  <2>2. since' \in 0 .. MaxBacklog
    BY <1>5, BacklogAssumption DEF Nmi, WithinBacklog
  <2>3. unseen' \in 0 .. MaxBacklog
    BY <1>5, <2>2, BacklogAssumption DEF Nmi, CountInv
  <2> QED BY <1>5, <2>1, <2>2, <2>3 DEF Nmi
<1> QED BY <1>1, <1>2, <1>3, <1>4, <1>5 DEF Next, Main, Loop, Wait

LEMMA InitIInv == Init => IInv
<1> SUFFICES ASSUME Init PROVE IInv OBVIOUS
<1> USE DEF Init
<1>1. 0 \in Frames /\ 0 \in 0 .. MaxBacklog
  BY ModulusAssumption, BacklogAssumption DEF Frames
<1>2. [p \in Ports |-> 0] \in [Ports -> Pads] BY PadsAssumption
<1>3. TypeOK BY <1>1, <1>2 DEF TypeOK, PcValues
<1>4. CountInv /\ PollInv BY DEF CountInv, PollInv, HasRead, Accepting
<1> QED BY <1>3, <1>4 DEF IInv

\* A read that accepts no frame starts a new count.
LEMMA ReadStep ==
  ASSUME IInv, WaitSample \/ ReadBaseline
  PROVE  CountInv' /\ PollInv'
<1>1. /\ a' = counter /\ counter' = counter /\ unseen' = 0
      /\ pollValid' = pollValid /\ polled' = polled /\ pc = "program"
      /\ pc' \in {"wait", "baseline"}
      /\ since' = IF pollValid THEN since ELSE 0
  BY DEF WaitSample, ReadBaseline, ReadCounter
<1>2. fresh' <=> fresh
  BY DEF WaitSample, ReadBaseline, ReadCounter, IInv, TypeOK
<1>3. After(a', 0) = a' BY <1>1, AfterZero DEF IInv, TypeOK
<1>4. CountInv' BY <1>1, <1>3 DEF CountInv, HasRead, After, IInv, TypeOK
<1>5. PollInv'
  BY <1>1, <1>2 DEF PollInv, Accepting, After, IInv, TypeOK
<1> QED BY <1>4, <1>5

\* An accepted frame differs from the one polled before it.
LEMMA AcceptStep ==
  ASSUME MaxBacklog < FrameModulus, IInv, WaitAccept \/ SeeFrame
  PROVE  CountInv' /\ PollInv'
<1>1. /\ a' = counter /\ counter' = counter /\ unseen' = 0 /\ since' = 0
      /\ pollValid' = pollValid /\ polled' = polled
      /\ pc \in {"reread", "loop"} /\ pc' \in {"waitPoll", "accept"}
  BY DEF WaitAccept, SeeFrame, ReadCounter
<1>2. After(a', 0) = a' BY <1>1, AfterZero DEF IInv, TypeOK
<1>3. CountInv' BY <1>1, <1>2 DEF CountInv, HasRead, After, IInv, TypeOK
<1>4. unseen > 0
  <2>1. CASE SeeFrame
    <3>1. counter # a BY <1>1, <2>1 DEF SeeFrame, IInv, CountInv
    <3>2. counter = After(a, unseen)
      BY <1>1 DEF IInv, CountInv, HasRead
    <3> QED BY <3>1, <3>2, AfterZero DEF IInv, TypeOK
  <2>2. CASE WaitAccept BY <2>2 DEF WaitAccept, IInv, CountInv
  <2> QED BY <2>1, <2>2
<1>5. pollValid => polled # counter
  <2>1. since \in Nat /\ 0 < since /\ since < FrameModulus
    BY <1>4, BacklogAssumption, ModulusAssumption DEF IInv, CountInv, TypeOK
  <2>2. pollValid => counter = After(polled, since)
    BY <1>1 DEF IInv, PollInv, Accepting
  <2> QED BY <2>1, <2>2, AfterDiffers DEF IInv, TypeOK
<1>6. PollInv' BY <1>1, <1>5 DEF PollInv, Accepting
<1> QED BY <1>3, <1>6

\* Main steps that touch neither the counter nor the controllers.
LEMMA SilentStep ==
  ASSUME MaxBacklog < FrameModulus, IInv,
         \/ WaitChanged \/ WaitClear \/ StoreBaseline \/ AcceptFrame
         \/ ClearReady \/ Return
  PROVE  CountInv' /\ PollInv'
<1> USE DEF IInv
<1>1. /\ counter' = counter /\ unseen' = unseen /\ since' = since
      /\ pollValid' = pollValid /\ polled' = polled /\ (fresh' <=> fresh)
      /\ a' = a /\ pc # "program" /\ pc' # "program"
  BY DEF WaitChanged, WaitClear, StoreBaseline, AcceptFrame, ClearReady, Return,
         CountInv, TypeOK
<1>2. pc' \in {"loop", "clear", "poll", "callback"} => last' = a'
  BY <1>1 DEF WaitChanged, WaitClear, StoreBaseline, AcceptFrame, ClearReady,
              Return, CountInv
<1>3. pc' \in {"waited", "reread"} => unseen' > 0
  <2>1. CASE WaitChanged
    BY <1>1, <2>1, AfterZero DEF WaitChanged, CountInv, HasRead, TypeOK
  <2>2. CASE ~WaitChanged
    BY <1>1, <2>2 DEF WaitClear, StoreBaseline, AcceptFrame, ClearReady, Return,
                      CountInv
  <2> QED BY <2>1, <2>2
<1>4. Accepting' <=> Accepting
  BY DEF Accepting, WaitChanged, WaitClear, StoreBaseline, AcceptFrame,
         ClearReady, Return
<1>5. CountInv' BY <1>1, <1>2, <1>3 DEF CountInv, HasRead, After
<1>6. pc' # "callback"
  BY DEF WaitChanged, WaitClear, StoreBaseline, AcceptFrame, ClearReady, Return
<1>7. PollInv' BY <1>1, <1>4, <1>6 DEF PollInv, After
<1> QED BY <1>5, <1>7

\* The poll of an accepted frame is never suppressed.
LEMMA PollStep ==
  ASSUME IInv, Poll
  PROVE  CountInv' /\ PollInv' /\ fresh'
<1> USE DEF IInv
<1>1. Accepting /\ ~AlreadyCurrent
  BY DEF Poll, Accepting, AlreadyCurrent, PollInv
<1>2. /\ counter' = counter /\ unseen' = unseen /\ since' = since
      /\ a' = a /\ last' = last /\ pollValid' /\ polled' = a /\ fresh'
      /\ pc' \in {"program", "callback"} /\ pc # "program"
      /\ pc' = "callback" => pc = "poll"
  BY <1>1 DEF Poll, UpdateControllers
<1>3. CountInv' BY <1>2 DEF CountInv, HasRead, After
<1>4. PollInv' BY <1>1, <1>2 DEF CountInv, HasRead, PollInv, Accepting, After
<1> QED BY <1>2, <1>3, <1>4

LEMMA NmiStep ==
  ASSUME MaxBacklog < FrameModulus, IInv, Nmi
  PROVE  CountInv' /\ PollInv'
<1> USE DEF IInv
<1>1. /\ counter' = (counter + 1) % FrameModulus
      /\ pc' = pc /\ a' = a /\ last' = last
      /\ pollValid' = pollValid /\ polled' = polled /\ fresh' = fresh
  BY DEF Nmi
<1>2. CASE ~HasRead
  BY <1>1, <1>2 DEF Nmi, HasRead, CountInv, PollInv, Accepting
<1>3. CASE HasRead
  <2>1. /\ unseen' = unseen + 1 /\ since' = since + 1
        /\ since + 1 <= MaxBacklog
    BY <1>3, BacklogAssumption DEF Nmi, HasRead, WithinBacklog, TypeOK
  <2>2. /\ unseen \in Nat /\ unseen + 1 < FrameModulus
        /\ since \in Nat /\ since + 1 < FrameModulus
    BY <2>1, BacklogAssumption, ModulusAssumption DEF TypeOK, CountInv
  <2>3. counter' = After(a, unseen + 1)
    BY <1>1, <1>3, <2>2, AfterIncrement DEF CountInv, TypeOK
  <2>4. ~Accepting /\ pollValid => counter' = After(polled, since + 1)
    BY <1>1, <2>2, AfterIncrement DEF PollInv, TypeOK
  <2>5. CountInv' BY <1>1, <2>1, <2>2, <2>3 DEF CountInv, After, TypeOK
  <2>6. PollInv'
    BY <1>1, <2>1, <2>4 DEF PollInv, Accepting, After, TypeOK
  <2> QED BY <2>5, <2>6
<1> QED BY <1>2, <1>3

LEMMA StepIInv ==
  ASSUME MaxBacklog < FrameModulus
  PROVE  IInv /\ [Next]_vars => IInv'
<1> SUFFICES ASSUME IInv, [Next]_vars PROVE IInv' OBVIOUS
<1>1. TypeOK' BY TypeStep DEF IInv
<1>2. CASE UNCHANGED vars
  BY <1>1, <1>2 DEF vars, IInv, CountInv, PollInv, HasRead, Accepting, After
<1>3. CASE Next
  BY <1>1, <1>3, ReadStep, AcceptStep, SilentStep, PollStep, NmiStep
  DEF IInv, Next, Main, Wait, Loop
<1> QED BY <1>2, <1>3

-----------------------------------------------------------------------------

(***************************************************************************)
(* For a program whose accepted frames are less than FrameModulus apart,   *)
(* the strengthened invariant holds in every reachable state.              *)
(***************************************************************************)
THEOREM FrameInvariance ==
  ASSUME MaxBacklog < FrameModulus
  PROVE  Spec => []IInv
<1>1. IInv /\ [Next]_vars => IInv' BY StepIInv
<1> QED BY <1>1, InitIInv, PTL DEF Spec

(***************************************************************************)
(* Every location keeps to its range.                                      *)
(***************************************************************************)
THEOREM FrameTypeCorrectness ==
  ASSUME MaxBacklog < FrameModulus
  PROVE  Spec => []TypeOK
<1>1. IInv => TypeOK BY DEF IInv
<1>2. Spec => []IInv BY FrameInvariance
<1> QED BY <1>1, <1>2, PTL

(***************************************************************************)
(* The loop's equality test sees a pending frame exactly when there is one *)
(* (runtime main loop of generate).                                        *)
(***************************************************************************)
THEOREM PendingFramesAreSeen ==
  ASSUME MaxBacklog < FrameModulus
  PROVE  Spec => []PendingFrameIsSeen
<1>1. IInv => PendingFrameIsSeen
  <2> SUFFICES ASSUME IInv, pc = "loop" PROVE counter # last <=> unseen > 0
    BY DEF PendingFrameIsSeen
  <2>1. counter = After(a, unseen) /\ last = a /\ a \in Frames
    BY DEF IInv, CountInv, HasRead, TypeOK
  <2>2. unseen \in Nat /\ unseen < FrameModulus
    BY BacklogAssumption, ModulusAssumption DEF IInv, TypeOK
  <2>3. CASE unseen = 0 BY <2>1, <2>3, AfterZero
  <2>4. CASE unseen > 0 BY <2>1, <2>2, <2>4, AfterDiffers
  <2> QED BY <2>2, <2>3, <2>4
<1>2. Spec => []IInv BY FrameInvariance
<1> QED BY <1>1, <1>2, PTL

(***************************************************************************)
(* The guard against double polling never suppresses the poll of a newly   *)
(* accepted frame (runtime_update_controllers).                            *)
(***************************************************************************)
THEOREM AcceptedFramesArePolled ==
  ASSUME MaxBacklog < FrameModulus
  PROVE  Spec => []AcceptedFrameIsPolled
<1>1. IInv => AcceptedFrameIsPolled
  BY DEF IInv, PollInv, AcceptedFrameIsPolled, Accepting
<1>2. Spec => []IInv BY FrameInvariance
<1> QED BY <1>1, <1>2, PTL

\* Between accepting a frame and its poll the readings are older than the
\* frame, however many frames the program has missed.
UnreadInv == Accepting => ~fresh

LEMMA UnreadInvariance == UnreadInv /\ [Next]_vars => UnreadInv'
<1> SUFFICES ASSUME UnreadInv, [Next]_vars PROVE UnreadInv' OBVIOUS
<1> USE DEF UnreadInv, Accepting
<1>1. CASE UNCHANGED vars BY <1>1 DEF vars
<1>2. CASE WaitSample \/ ReadBaseline \/ WaitAccept \/ SeeFrame
  BY <1>2 DEF WaitSample, ReadBaseline, WaitAccept, SeeFrame, ReadCounter
<1>3. CASE \/ WaitChanged \/ WaitClear \/ StoreBaseline \/ AcceptFrame
           \/ ClearReady \/ Return
  BY <1>3 DEF WaitChanged, WaitClear, StoreBaseline, AcceptFrame, ClearReady,
              Return
<1>4. CASE Poll BY <1>4 DEF Poll
<1>5. CASE Nmi BY <1>5 DEF Nmi
<1> QED BY <1>1, <1>2, <1>3, <1>4, <1>5 DEF Next, Main, Loop, Wait

(***************************************************************************)
(* The two readings are those of consecutive accepted frames: a reading is *)
(* replaced only by the first poll after a frame was accepted, and moves   *)
(* to the previous bytes (runtime_update_controllers).  This needs no      *)
(* bound on the backlog: a suppressed poll changes neither reading.        *)
(***************************************************************************)
THEOREM ReadingsFollowFrames == Spec => ReadingsAreConsecutive
<1> DEFINE readings == <<current, previous>>
<1>1. Init => UnreadInv BY DEF Init, UnreadInv, Accepting
<1>2. UnreadInv /\ [Next]_vars =>
        [readings' # readings => previous' = current /\ ~fresh]_vars
  <2> SUFFICES ASSUME UnreadInv, [Next]_vars, readings' # readings
               PROVE  previous' = current /\ ~fresh
    OBVIOUS
  <2>1. Poll
    BY DEF Next, Main, Loop, Wait, Nmi, WaitSample, ReadBaseline, WaitAccept,
           SeeFrame, WaitChanged, WaitClear, StoreBaseline, AcceptFrame,
           ClearReady, Return, vars
  <2>2. UpdateControllers /\ Accepting BY <2>1 DEF Poll, Accepting
  <2>3. ~AlreadyCurrent BY <2>2 DEF UpdateControllers
  <2>4. previous' = current BY <2>2, <2>3 DEF UpdateControllers
  <2> QED BY <2>2, <2>4 DEF UnreadInv
<1> QED BY <1>1, <1>2, UnreadInvariance, PTL DEF Spec, ReadingsAreConsecutive

(***************************************************************************)
(* Every step of the loop is a step of FrameScheduler or a stutter: an     *)
(* update starts only for a new frame, and takes all the pending ones.     *)
(***************************************************************************)
THEOREM LoopImplementsScheduler ==
  ASSUME MaxBacklog < FrameModulus
  PROVE  Spec => Scheduler!Init /\ [][Scheduler!Next]_(Scheduler!vars)
<1> USE DEF Looping
<1>1. Init => Scheduler!Init BY DEF Init, Scheduler!Init
<1>2. IInv /\ [Next]_vars => [Scheduler!Next]_(Scheduler!vars)
  <2> SUFFICES ASSUME IInv, [Next]_vars
               PROVE  Scheduler!Next \/ UNCHANGED Scheduler!vars
    OBVIOUS
  <2> USE DEF Scheduler!vars
  <2>1. CASE UNCHANGED vars BY <2>1 DEF vars
  <2>2. CASE WaitSample \/ ReadBaseline \/ WaitAccept
    <3>1. Scheduler!Forget
      BY <2>2 DEF WaitSample, ReadBaseline, WaitAccept, ReadCounter,
                  Scheduler!Forget
    <3> QED BY <3>1 DEF Scheduler!Next
  <2>3. CASE SeeFrame
    <3>1. unseen > 0
      <4>1. counter = After(a, unseen) /\ last = a /\ a \in Frames
        BY <2>3 DEF SeeFrame, IInv, CountInv, HasRead, TypeOK
      <4>2. unseen # 0 BY <2>3, <4>1, AfterZero DEF SeeFrame
      <4> QED BY <4>2 DEF IInv, TypeOK
    <3>2. Scheduler!StartUpdate
      BY <2>3, <3>1 DEF SeeFrame, ReadCounter, Scheduler!StartUpdate
    <3> QED BY <3>2 DEF Scheduler!Next
  <2>4. CASE Return
    <3>1. Scheduler!FinishUpdate BY <2>4 DEF Return, Scheduler!FinishUpdate
    <3> QED BY <3>1 DEF Scheduler!Next
  <2>5. CASE \/ WaitChanged \/ WaitClear \/ StoreBaseline \/ AcceptFrame
             \/ ClearReady
    BY <2>5 DEF WaitChanged, WaitClear, StoreBaseline, AcceptFrame, ClearReady
  <2>6. CASE Poll
    BY <2>6 DEF Poll, UpdateControllers
  <2>7. CASE Nmi
    <3>1. CASE unseen' = unseen BY <2>7, <3>1 DEF Nmi
    <3>2. CASE unseen' # unseen
      <4>1. unseen < MaxBacklog
        BY <2>7, <3>2, BacklogAssumption
        DEF Nmi, WithinBacklog, IInv, CountInv, TypeOK
      <4>2. Scheduler!Frame BY <2>7, <3>2, <4>1 DEF Nmi, Scheduler!Frame
      <4> QED BY <4>2 DEF Scheduler!Next
    <3> QED BY <3>1, <3>2
  <2> QED BY <2>1, <2>2, <2>3, <2>4, <2>5, <2>6, <2>7 DEF Next, Main, Wait, Loop
<1>3. Spec => []IInv BY FrameInvariance
<1> QED BY <1>1, <1>2, <1>3, PTL DEF Spec

=============================================================================
