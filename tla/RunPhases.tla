------------------------------ MODULE RunPhases ------------------------------
(***************************************************************************)
(* What an orchestrated run promises, without roles, signals and processes *)
(* (compare progress_stage): a plan, then work and review in turn, once    *)
(* for each cycle; a run that stopped goes on where it was; one that is    *)
(* completed stays so, and only from a review.                             *)
(***************************************************************************)
EXTENDS Naturals

CONSTANT MaxCycles
VARIABLES phase, cycle, outcome

pvars == <<phase, cycle, outcome>>

PhaseInit == phase = "planning" /\ cycle = 1 /\ outcome = "running"

Plans == /\ outcome = "running" /\ phase = "planning"
         /\ phase' = "implementing" /\ UNCHANGED <<cycle, outcome>>
Implements == /\ outcome = "running" /\ phase = "implementing"
              /\ phase' = "reviewing" /\ UNCHANGED <<cycle, outcome>>
SendsBack == /\ outcome = "running" /\ phase = "reviewing" /\ cycle < MaxCycles
             /\ phase' = "implementing" /\ cycle' = cycle + 1 /\ UNCHANGED outcome
Completes == /\ outcome = "running" /\ phase = "reviewing"
             /\ outcome' = "completed" /\ UNCHANGED <<phase, cycle>>
Stops == /\ outcome # "completed"
         /\ outcome' \in {"blocked", "failed"} /\ UNCHANGED <<phase, cycle>>
Resumes == /\ outcome \in {"blocked", "failed"}
           /\ outcome' = "running" /\ UNCHANGED <<phase, cycle>>

PhaseNext == Plans \/ Implements \/ SendsBack \/ Completes \/ Stops \/ Resumes
PhaseSpec == PhaseInit /\ [][PhaseNext]_pvars
=============================================================================
