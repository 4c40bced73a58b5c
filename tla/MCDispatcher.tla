----------------------------- MODULE MCDispatcher -----------------------------
(* DispatcherControl on small instances; commands, services and jobs are each *)
(* interchangeable.                                                          *)
EXTENDS DispatcherControl, TLC

ProcessSymmetry ==
  Permutations(Caller) \cup Permutations(Service) \cup Permutations(Job)
===============================================================================
