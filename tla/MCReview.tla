------------------------------- MODULE MCReview -------------------------------
(* ReviewCycles on small instances; reviewers are interchangeable.            *)
EXTENDS ReviewCycles, TLC

ReviewerSymmetry == Permutations(Reviewers)
===============================================================================
