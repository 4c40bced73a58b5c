----------------------------- MODULE MCReconcile -----------------------------
(* LinkedReconcile on small instances: scanners are interchangeable, owners   *)
(* make a plan in which each comes after those before it, or are unrelated.   *)
EXTENDS LinkedReconcile, TLC

CONSTANTS root, follower

Plan == [w \in Owner |-> IF w = root THEN {follower} ELSE {}]
Unrelated == [w \in Owner |-> {}]
==============================================================================
