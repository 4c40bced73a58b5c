----------------------- MODULE ResourceQueueRefinement -----------------------
(***************************************************************************)
(* The queue and its dispatcher implement ExclusiveResource: a resource    *)
(* belongs to the request that holds its lease or, after a lease that      *)
(* ended without cleanup proof, to the request its recovery block names.   *)
(***************************************************************************)
EXTENDS ResourceQueue

Holder(r) ==
  IF HasStatus(status, r, "leased")
  THEN CHOOSE q \in Id : resource[q] = r /\ status[q] = "leased"
  ELSE block[r]

Exclusive == INSTANCE ExclusiveResource WITH
  wants <- resource,
  waiting <- {q \in Id : status[q] = "waiting"},
  user <- [r \in Resource |-> Holder(r)],
  using <- occupied

\* Every behaviour of the queue, its jobs and its dispatcher is one of the
\* abstract hand-over of exclusive resources in arrival order (queue.py and
\* dispatcher.py as a whole).
ImplementsExclusive == Exclusive!Spec
=============================================================================
