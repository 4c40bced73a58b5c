--------------------------- MODULE MCResourceQueue ---------------------------
(* ResourceQueue, and its refinement of ExclusiveResource, on small instances; *)
(* owners are interchangeable.                                                *)
EXTENDS ResourceQueueRefinement, TLC

OwnerSymmetry == Permutations(Owner)
=============================================================================
