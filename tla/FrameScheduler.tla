---------------------------- MODULE FrameScheduler ----------------------------
(***************************************************************************)
(* What the frame-synchronized loop promises, without counters: frames     *)
(* that pass during an update are remembered and coalesced, an update runs *)
(* only for a new frame, and a remembered frame starts the next update     *)
(* without waiting for another one.                                        *)
(***************************************************************************)
EXTENDS Integers

CONSTANT MaxBacklog  \* most frames that pass between two updates

VARIABLES
  looping,   \* the program has reached the implicit loop
  updating,  \* an update is running
  missed     \* frames since the one the loop has last looked at

vars == <<looping, updating, missed>>

Init == ~looping /\ ~updating /\ missed = 0

Frame ==
  /\ missed < MaxBacklog
  /\ missed' = missed + 1
  /\ UNCHANGED <<looping, updating>>

\* Before the loop, nes.wait_frame and the loop's baseline forget frames.
Forget ==
  /\ ~looping
  /\ missed' = 0
  /\ looping' \in BOOLEAN
  /\ UNCHANGED updating

StartUpdate ==
  /\ looping /\ ~updating /\ missed > 0
  /\ updating' = TRUE
  /\ missed' = 0
  /\ UNCHANGED looping

FinishUpdate ==
  /\ updating
  /\ updating' = FALSE
  /\ UNCHANGED <<looping, missed>>

Next == Frame \/ Forget \/ StartUpdate \/ FinishUpdate

Spec == /\ Init /\ [][Next]_vars
        /\ WF_vars(StartUpdate) /\ WF_vars(FinishUpdate)

=============================================================================
