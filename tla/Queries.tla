------------------------------ MODULE Queries ------------------------------
(***************************************************************************)
(* A behaviour in which one routine is called with some arguments and      *)
(* answers once.                                                           *)
(***************************************************************************)
VARIABLES
  kind,    \* which routine is called
  query,   \* its arguments
  answer   \* Unanswered, or <<what it returns>>

vars == <<kind, query, answer>>

Unanswered == <<>>

Answers(k, value) ==
  /\ kind = k
  /\ answer = Unanswered
  /\ answer' = <<value>>
  /\ UNCHANGED <<kind, query>>

Answered(k) == kind = k /\ answer # Unanswered
Result == answer[1]
=============================================================================
