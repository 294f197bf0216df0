------------------------- MODULE ScrollStagingProofs -------------------------
(***************************************************************************)
(* Proofs about ScrollStaging for every set of scroll bytes.               *)
(*                                                                         *)
(* StagingInv says what the pending bytes are worth in each state: unless  *)
(* the callback staged over them, they are the bytes the call in progress  *)
(* has stored so far, or the newest pair once it is published.             *)
(***************************************************************************)
EXTENDS ScrollStaging, TLAPS

StagingInv ==
  /\ pc # "idle" => ~ready
  /\ pc \in {"y", "publish"} /\ ~overtaken => pendingX = callX
  /\ pc = "publish" /\ ~overtaken => pendingY = callY
  /\ ready /\ ~overtaken => <<pendingX, pendingY>> = newest

\* The PPU scroll is what NMI or nes.run last restored from the shadows.
RestoredInv == ppu = <<shadowX, shadowY>>

USE DEF pendingVars, shadowVars, callVars, history

-----------------------------------------------------------------------------

LEMMA TypeStep == TypeOK /\ [Next]_vars => TypeOK'
<1> SUFFICES ASSUME TypeOK, [Next]_vars PROVE TypeOK' OBVIOUS
<1> USE DEF TypeOK
<1>1. CASE UNCHANGED vars BY <1>1 DEF vars
<1>2. CASE Invalidate \/ Publish
  <2>1. <<callX, callY>> \in Axis \X Axis OBVIOUS
  <2> QED BY <1>2, <2>1 DEF Invalidate, Publish
<1>3. CASE \E a \in Axis : StageX(a) \/ StageY(a)
  BY <1>3 DEF StageX, StageY
<1>4. CASE Run
  <2>1. <<shadowX, shadowY>> \in Axis \X Axis OBVIOUS
  <2> QED BY <1>4, <2>1 DEF Run
<1>5. CASE Nmi
  <2>1. CASE NmiAlone BY <1>5, <2>1 DEF Nmi, NmiAlone, Commit
  <2>2. ASSUME NEW x \in Axis, NEW y \in Axis, NmiWithCallback(x, y)
        PROVE  TypeOK'
    <3>1. <<x, y>> \in Axis \X Axis OBVIOUS
    <3>2. shadowX' = x /\ shadowY' = y /\ ppu' = <<x, y>>
      BY <2>2 DEF NmiWithCallback, Commit
    <3>3. (pc \in {"y", "publish"}) \in BOOLEAN OBVIOUS
    <3> QED BY <1>5, <2>2, <3>1, <3>2, <3>3 DEF Nmi, NmiWithCallback, Commit
  <2> QED BY <1>5, <2>1, <2>2 DEF Nmi
<1> QED BY <1>1, <1>2, <1>3, <1>4, <1>5 DEF Next, Call

(***************************************************************************)
(* Every scroll byte is one a call passed, or the reset value.             *)
(***************************************************************************)
THEOREM ScrollTypeCorrectness == Spec => []TypeOK
<1>1. Init => TypeOK
  <2>1. <<0, 0>> \in Axis \X Axis BY AxisAssumption
  <2> QED BY <2>1, AxisAssumption DEF Init, TypeOK
<1> QED BY <1>1, TypeStep, PTL DEF Spec

LEMMA StagingStep == StagingInv /\ [Next]_vars => StagingInv'
<1> SUFFICES ASSUME StagingInv, [Next]_vars PROVE StagingInv' OBVIOUS
<1> USE DEF StagingInv
<1>1. CASE UNCHANGED vars BY <1>1 DEF vars
<1>2. CASE Invalidate \/ Publish BY <1>2 DEF Invalidate, Publish
<1>3. CASE \E a \in Axis : StageX(a) \/ StageY(a)
  BY <1>3 DEF StageX, StageY
<1>4. CASE Run BY <1>4 DEF Run
<1>5. CASE Nmi
  <2>1. CASE NmiAlone BY <1>5, <2>1 DEF Nmi, NmiAlone, Commit
  <2>2. ASSUME NEW x \in Axis, NEW y \in Axis, NmiWithCallback(x, y)
        PROVE  StagingInv'
    <3>1. overtaken' <=> pc \in {"y", "publish"}
      BY <2>2 DEF NmiWithCallback
    <3>2. pc' = pc /\ ~ready' BY <1>5, <2>2 DEF Nmi, NmiWithCallback, Commit
    <3> QED BY <3>1, <3>2
  <2> QED BY <1>5, <2>1, <2>2 DEF Nmi
<1> QED BY <1>1, <1>2, <1>3, <1>4, <1>5 DEF Next, Call

LEMMA RestoredStep == RestoredInv /\ [Next]_vars => RestoredInv'
BY DEF RestoredInv, vars, Next, Call, Invalidate, Publish, StageX, StageY, Run,
       Nmi, NmiAlone, NmiWithCallback, Commit

LEMMA StagingInvariance == Spec => [](StagingInv /\ RestoredInv)
<1>1. Init => StagingInv /\ RestoredInv
  BY DEF Init, StagingInv, RestoredInv
<1>2. StagingInv /\ RestoredInv /\ [Next]_vars => StagingInv' /\ RestoredInv'
  BY StagingStep, RestoredStep
<1> QED BY <1>1, <1>2, PTL DEF Spec

\* A step that changes the PPU scroll is a commit, of the pending pair or of
\* the callback's.
LEMMA ScrollChange ==
  ASSUME StagingInv, RestoredInv, [Next]_vars, ppu' # ppu, ~overtaken'
  PROVE  ppu' = newest'
<1>1. Nmi
  BY DEF RestoredInv, vars, Next, Call, Invalidate, Publish, StageX, StageY, Run
<1>2. CASE NmiAlone
  BY <1>1, <1>2 DEF NmiAlone, Commit, StagingInv, RestoredInv
<1>3. CASE \E x, y \in Axis : NmiWithCallback(x, y)
  BY <1>1, <1>3 DEF NmiWithCallback, Commit
<1> QED BY <1>1, <1>2, <1>3 DEF Nmi

(***************************************************************************)
(* With or without a callback that stages, the PPU scroll changes only to  *)
(* the pair of the newest complete call, unless the callback staged over   *)
(* a call in progress (_emit_set_scroll and the scroll commit of NMI).     *)
(***************************************************************************)
THEOREM TearingIsOvertaking == Spec => OnlyOvertakenCallsAreTorn
<1>1. StagingInv /\ RestoredInv /\ [Next]_vars
        => [ppu' # ppu /\ ~overtaken' => ppu' = newest']_vars
  BY ScrollChange
<1> QED BY <1>1, StagingInvariance, PTL DEF Spec, OnlyOvertakenCallsAreTorn

(***************************************************************************)
(* No call is lost, with or without a callback that stages, unless the     *)
(* callback staged over it: the last complete call is on screen or still   *)
(* published whenever the main thread is not in the middle of another.     *)
(***************************************************************************)
LEMMA NoCallIsLostStep ==
  StagingInv /\ NoCallIsLost /\ [Next]_vars => NoCallIsLost'
<1> SUFFICES ASSUME StagingInv, NoCallIsLost, [Next]_vars
             PROVE  NoCallIsLost'
  OBVIOUS
<1> USE DEF NoCallIsLost
<1>1. CASE UNCHANGED vars BY <1>1 DEF vars
<1>2. CASE Call BY <1>2 DEF Call, Invalidate, Publish, StageX, StageY
<1>3. CASE Run BY <1>3 DEF Run
<1>4. CASE Nmi
  BY <1>4 DEF Nmi, NmiAlone, NmiWithCallback, Commit, StagingInv
<1> QED BY <1>1, <1>2, <1>3, <1>4 DEF Next

THEOREM CallsAreNotLost == Spec => []NoCallIsLost
<1>1. Init => NoCallIsLost BY DEF Init, NoCallIsLost
<1> QED BY <1>1, NoCallIsLostStep, StagingInvariance, PTL DEF Spec

-----------------------------------------------------------------------------
(***************************************************************************)
(* Publication is atomic, as the documentation claims without conditions,  *)
(* for a program whose VBlank callback does not call nes.set_scroll: its   *)
(* calls are never overtaken.                                              *)
(***************************************************************************)
THEOREM AtomicPublication ==
  ASSUME CallbackStages = FALSE
  PROVE  Spec => ScrollChangesToNewestPair
<1>1. Init => ~overtaken BY DEF Init
<1>2. ~overtaken /\ [Next]_vars => ~overtaken'
  BY DEF vars, Next, Call, Invalidate, Publish, StageX, StageY, Run, Nmi,
         NmiAlone, NmiWithCallback
<1>3. StagingInv /\ RestoredInv /\ [Next]_vars /\ ~overtaken'
        => [ppu' # ppu => ppu' = newest']_vars
  BY ScrollChange
<1> QED BY <1>1, <1>2, <1>3, StagingInvariance, PTL
        DEF Spec, ScrollChangesToNewestPair

=============================================================================
