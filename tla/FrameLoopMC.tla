----------------------------- MODULE FrameLoopMC -----------------------------
(***************************************************************************)
(* FrameLoop for TLC.  A counter of four values stands for the code's 256: *)
(* a program that keeps within MaxBacklog = FrameModulus - 1 frames wraps  *)
(* the counter all the time, and one more frame exceeds its window.        *)
(***************************************************************************)
EXTENDS FrameLoop

=============================================================================
