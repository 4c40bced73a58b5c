----------------------------- MODULE MCWorktrees ------------------------------
(* Worktrees on small instances.                                              *)
EXTENDS Worktrees, TLC

===============================================================================
