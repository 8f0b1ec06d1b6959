-------------------------- MODULE MCKnowledgeApply --------------------------
(***************************************************************************)
(* KnowledgeApply with two proposals, at least one of them accepted.  The  *)
(* instances: one call with two faults, one with a fault and an edit of    *)
(* the user, and two calls with a fault.                                   *)
(***************************************************************************)
EXTENDS KnowledgeApply, TLC
CONSTANTS c1, c2

MCAnswers == {s \in [Targets -> {"yes", "no"}] : \E p \in Targets : s[p] = "yes"}
MCBudgets == {[calls |-> {c1}, faults |-> 2, edits |-> 0],
              [calls |-> {c1}, faults |-> 1, edits |-> 1],
              [calls |-> {c1, c2}, faults |-> 1, edits |-> 0]}
=============================================================================
