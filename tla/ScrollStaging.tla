---------------------------- MODULE ScrollStaging ----------------------------
(***************************************************************************)
(* nes.set_scroll: main-thread code stages a horizontal and a vertical     *)
(* scroll byte and publishes the pair through a ready flag; NMI commits a  *)
(* published pair to the active scroll shadows and restores the PPU scroll *)
(* from them.  The optional VBlank callback runs inside NMI, before the    *)
(* commit, and may call nes.set_scroll itself.                             *)
(*                                                                         *)
(* The main thread takes one step per store that NMI can observe.          *)
(***************************************************************************)
EXTENDS Integers

CONSTANTS
  Axis,           \* scroll bytes the program uses
  CallbackStages  \* the program's VBlank callback calls nes.set_scroll

ASSUME AxisAssumption == 0 \in Axis
ASSUME CallbackAssumption == CallbackStages \in BOOLEAN

VARIABLES
  enabled,             \* nes.run has enabled NMI
  ready,               \* runtime_scroll_ready
  pendingX, pendingY,  \* runtime_scroll_pending_x and _pending_y
  shadowX, shadowY,    \* runtime_scroll_x_shadow and _y_shadow
  ppu,                 \* pair last written to $2005
  pc,                  \* next store of the main thread's call
  callX, callY,        \* history: the bytes that call has loaded
  newest,              \* history: the pair of the latest complete call
  overtaken            \* history: the callback staged over that call's bytes

pendingVars == <<ready, pendingX, pendingY>>
shadowVars == <<shadowX, shadowY, ppu>>
callVars == <<callX, callY>>
history == <<newest, overtaken>>
vars == <<enabled, pendingVars, shadowVars, pc, callVars, history>>

Init ==
  /\ enabled = FALSE
  /\ ready = FALSE
  /\ pendingX = 0 /\ pendingY = 0
  /\ shadowX = 0 /\ shadowY = 0
  /\ ppu = <<0, 0>>
  /\ pc = "idle"
  /\ callX = 0 /\ callY = 0
  /\ newest = <<0, 0>>
  /\ overtaken = FALSE

(***************************************************************************)
(* Faults: a byte incremented on its way, a call that does not withdraw    *)
(* the pair before, and commits that forget the vertical axis or the PPU.  *)
(***************************************************************************)
StageXIncremented(x) ==
  /\ pc = "x"
  /\ pendingX' = x + 1 /\ callX' = x
  /\ overtaken' = FALSE
  /\ pc' = "y"
  /\ UNCHANGED <<enabled, ready, pendingY, shadowVars, callY, newest>>

InvalidateNothing ==
  /\ pc = "idle"
  /\ pc' = "x"
  /\ UNCHANGED <<enabled, pendingVars, shadowVars, callVars, history>>

CommitOneAxis(isReady, x, y) ==
  /\ ready' = FALSE
  /\ shadowX' = IF isReady THEN x ELSE shadowX
  /\ shadowY' = shadowY
  /\ ppu' = <<shadowX', shadowY'>>

CommitWithoutRestore(isReady, x, y) ==
  /\ ready' = FALSE
  /\ shadowX' = IF isReady THEN x ELSE shadowX
  /\ shadowY' = IF isReady THEN y ELSE shadowY
  /\ ppu' = ppu

(***************************************************************************)
(* nes.set_scroll(x, y) on the main thread: invalidate, evaluate and store *)
(* each byte, publish (_emit_set_scroll).                                  *)
(***************************************************************************)
Invalidate ==
  /\ pc = "idle"
  /\ ready' = FALSE
  /\ pc' = "x"
  /\ UNCHANGED <<enabled, pendingX, pendingY, shadowVars, callVars, history>>

StageX(x) ==
  /\ pc = "x"
  /\ pendingX' = x /\ callX' = x
  /\ overtaken' = FALSE
  /\ pc' = "y"
  /\ UNCHANGED <<enabled, ready, pendingY, shadowVars, callY, newest>>

StageY(y) ==
  /\ pc = "y"
  /\ pendingY' = y /\ callY' = y
  /\ pc' = "publish"
  /\ UNCHANGED <<enabled, ready, pendingX, shadowVars, callX, history>>

Publish ==
  /\ pc = "publish"
  /\ ready' = TRUE
  /\ newest' = <<callX, callY>>
  /\ pc' = "idle"
  /\ UNCHANGED <<enabled, pendingX, pendingY, shadowVars, callVars, overtaken>>

\* nes.run, once, at top level: restore the scroll and enable NMI.
Run ==
  /\ pc = "idle" /\ ~enabled
  /\ enabled' = TRUE
  /\ ppu' = <<shadowX, shadowY>>
  /\ UNCHANGED <<pendingVars, shadowX, shadowY, pc, callVars, history>>

(***************************************************************************)
(* NMI: the callback's own call, if it makes one, is invalidated, staged   *)
(* and published before the commit that follows it.                        *)
(***************************************************************************)
Commit(isReady, x, y) ==
  /\ ready' = FALSE
  /\ shadowX' = IF isReady THEN x ELSE shadowX
  /\ shadowY' = IF isReady THEN y ELSE shadowY
  /\ ppu' = <<shadowX', shadowY'>>

NmiAlone ==
  /\ enabled
  /\ Commit(ready, pendingX, pendingY)
  /\ UNCHANGED <<enabled, pendingX, pendingY, pc, callVars, history>>

NmiWithCallback(x, y) ==
  /\ enabled /\ CallbackStages
  /\ pendingX' = x /\ pendingY' = y
  /\ newest' = <<x, y>>
  /\ overtaken' = (pc \in {"y", "publish"})
  /\ Commit(TRUE, x, y)
  /\ UNCHANGED <<enabled, pc, callVars>>

Nmi == NmiAlone \/ \E x, y \in Axis : NmiWithCallback(x, y)

Call == \/ Invalidate \/ Publish
        \/ \E a \in Axis : StageX(a) \/ StageY(a)

Next == Call \/ Run \/ Nmi

(***************************************************************************)
(* Once nes.run has enabled it, NMI is raised in every VBlank.  The        *)
(* callback need not call, so the fairness is about NMIs that have         *)
(* something to commit.                                                    *)
(***************************************************************************)
Spec == Init /\ [][Next]_vars
FairSpec == Spec /\ WF_vars(NmiAlone)

-----------------------------------------------------------------------------

TypeOK ==
  /\ enabled \in BOOLEAN /\ ready \in BOOLEAN
  /\ pendingX \in Axis /\ pendingY \in Axis
  /\ shadowX \in Axis /\ shadowY \in Axis
  /\ ppu \in Axis \X Axis
  /\ pc \in {"idle", "x", "y", "publish"}
  /\ callX \in Axis /\ callY \in Axis
  /\ newest \in Axis \X Axis
  /\ overtaken \in BOOLEAN

(***************************************************************************)
(* "Publication is atomic: NMI sees either the previous complete pair or   *)
(* the newest complete pair, never one old and one new axis"               *)
(* (scrolling-and-ppu-state.md): the PPU scroll only ever changes to the   *)
(* pair of the newest complete call.                                       *)
(***************************************************************************)
ScrollChangesToNewestPair == [][ppu' # ppu => ppu' = newest']_vars

(***************************************************************************)
(* What the staging protocol guarantees whether or not the callback calls  *)
(* nes.set_scroll: a pair can only be torn or lost when the callback has   *)
(* staged over the bytes of a main-thread call in progress.                *)
(***************************************************************************)
OnlyOvertakenCallsAreTorn ==
  [][ppu' # ppu /\ ~overtaken' => ppu' = newest']_vars

(***************************************************************************)
(* No call is lost: when no call is in progress and none is published, the *)
(* active scroll is the pair of the newest complete call, although a       *)
(* published pair is withdrawn each time a later call begins.  The         *)
(* exception is, again, a call the callback has staged over.               *)
(***************************************************************************)
NoCallIsLost ==
  pc = "idle" /\ ~ready /\ ~overtaken => <<shadowX, shadowY>> = newest

(***************************************************************************)
(* Once the program stops calling nes.set_scroll, the screen settles on    *)
(* the pair of the newest call, whatever the callback goes on staging.     *)
(***************************************************************************)
ScrollSettles ==
  <>[](pc = "idle" /\ enabled /\ ~overtaken) => <>[](ppu = newest)

=============================================================================
