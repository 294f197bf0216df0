------------------------------- MODULE Plans -------------------------------
(***************************************************************************)
(* A query that a planner of the compiler answers by a loop: one action    *)
(* per iteration, and the variables of the loop in progress.               *)
(***************************************************************************)
EXTENDS Queries

VARIABLE
  progress   \* NotStarted, or <<the variables of the loop>>

planVars == <<kind, query, answer, progress>>

NotStarted == <<>>
Plan == progress[1]

Starts(k, plan) ==
  /\ kind = k /\ answer = Unanswered /\ progress = NotStarted
  /\ progress' = <<plan>>
  /\ UNCHANGED vars

InLoop(k) == kind = k /\ answer = Unanswered /\ progress # NotStarted

Continues(plan) == progress' = <<plan>> /\ UNCHANGED vars

Ends(k, value) == Answers(k, value) /\ UNCHANGED progress
=============================================================================
