----------------------------- MODULE MCWorkflow -----------------------------
(* Small instances of Workflow for TLC. *)
EXTENDS Workflow

\* The last step depends on the first.
FirstBeforeLast == [s \in StepId |-> IF s = StepCount /\ s > 1 THEN {1} ELSE {}]

NoDependencies == [s \in StepId |-> {}]
=============================================================================
