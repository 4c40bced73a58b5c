------------------------------- MODULE MCWorkflow -------------------------------
(* WorkflowLifecycle on small instances                                        *)
EXTENDS WorkflowLifecycle, TLC

\* A workflow of its own, or a plan whose root was started in an existing worktree
\* and is followed by reviewers
NobodyAfter == [w \in Workflow |-> {}]
OtherReviewers == [w \in Workflow |-> IF w \in Guest THEN {} ELSE Workflow \ (Guest \cup {w})]
RootFirst == [w \in Workflow |-> IF w \in Guest THEN Workflow \ Guest ELSE {}]

\* Commands, terminals and reviewers are interchangeable.
ProcessSymmetry == Permutations(Proc) \cup Permutations(Terminal)
PlanSymmetry == ProcessSymmetry \cup Permutations(Workflow \ Guest)
===============================================================================
