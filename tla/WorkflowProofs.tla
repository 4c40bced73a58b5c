--------------------------- MODULE WorkflowProofs ---------------------------
(***************************************************************************)
(* Theorems about WorkflowLifecycle for every set of workflows, plans,     *)
(* processes, terminals and commands.                                      *)
(***************************************************************************)
EXTENDS WorkflowLifecycle, TLAPS

Process == [at : Places, on : Workflow \cup {None}, goal : Goals,
            handle : Terminal \cup {None}, seen : Terminal \cup {None}]

-----------------------------------------------------------------------------
(* What a step does to its process. *)

LEMMA NoneIsNobody == None \notin Workflow /\ None \notin Terminal
BY LifecycleAssumption

LEMMA Goes ==
  ASSUME NEW p \in Proc, NEW place \in Places, proc \in [Proc -> Process], Go(p, place)
  PROVE  /\ proc' \in [Proc -> Process]
         /\ proc'[p].at = place /\ proc'[p].on = proc[p].on /\ proc'[p].goal = proc[p].goal
         /\ proc'[p].handle = proc[p].handle /\ proc'[p].seen = proc[p].seen
         /\ \A q \in Proc \ {p} : proc'[q] = proc[q]
BY DEF Go, Process

LEMMA IdleIsProcess == Idle \in Process
BY DEF Idle, Process, Places, Goals

LEMMA Returns ==
  ASSUME NEW p \in Proc, proc \in [Proc -> Process], Return(p)
  PROVE  /\ proc' \in [Proc -> Process] /\ proc'[p] = Idle
         /\ \A q \in Proc \ {p} : proc'[q] = proc[q]
BY IdleIsProcess DEF Return

\* A place, and the terminal read from the row
LEMMA Rereads ==
  ASSUME NEW p \in Proc, NEW place \in Places, proc \in [Proc -> Process],
         terminal \in [Workflow -> Terminal \cup {None}], proc[p].on \in Workflow,
         proc' = [proc EXCEPT ![p].at = place, ![p].handle = terminal[proc[p].on]]
  PROVE  /\ proc' \in [Proc -> Process]
         /\ proc'[p].at = place /\ proc'[p].on = proc[p].on /\ proc'[p].goal = proc[p].goal
         /\ proc'[p].seen = proc[p].seen /\ proc'[p].handle = terminal[proc[p].on]
         /\ \A q \in Proc \ {p} : proc'[q] = proc[q]
<1>1. terminal[proc[p].on] \in Terminal \cup {None}
  OBVIOUS
<1> QED BY <1>1 DEF Process

\* A place and a terminal that was made or not
LEMMA Makes ==
  ASSUME NEW p \in Proc, NEW place \in Places, NEW t \in Terminal,
         proc \in [Proc -> Process],
         proc' = [proc EXCEPT ![p].at = place, ![p].handle = t]
  PROVE  /\ proc' \in [Proc -> Process]
         /\ proc'[p].at = place /\ proc'[p].on = proc[p].on /\ proc'[p].goal = proc[p].goal
         /\ proc'[p].seen = proc[p].seen /\ proc'[p].handle = t
         /\ \A q \in Proc \ {p} : proc'[q] = proc[q]
BY DEF Process

LEMMA Creates ==
  ASSUME NEW p \in Proc, proc \in [Proc -> Process], CreateExternal(p)
  PROVE  /\ proc' \in [Proc -> Process] /\ proc[p].at = "create"
         /\ proc'[p].at \in {"attach", "undo"} /\ proc'[p].on = proc[p].on
         /\ proc'[p].handle \in Terminal \cup {None}
         /\ proc'[p].at = "attach" => proc'[p].handle # None
         /\ proc'[p].handle # None => Fresh(proc'[p].handle) /\ proc'[p].goal = "known"
         /\ alive' = alive \cup ({proc'[p].handle} \ {None})
         /\ proc'[p].goal \in {"known", "unknown"}
         /\ \A q \in Proc \ {p} : proc'[q] = proc[q]
<1>1. PICK t \in Terminal \cup {None}, place \in {"attach", "undo"},
           goal \in {"known", "unknown"} :
        /\ place = "attach" => t # None
        /\ t # None => Fresh(t) /\ goal = "known"
        /\ alive' = alive \cup ({t} \ {None})
        /\ proc' = [proc EXCEPT ![p] = [at |-> place, on |-> proc[p].on, goal |-> goal,
                                        handle |-> t, seen |-> None]]
  BY DEF CreateExternal
<1> DEFINE new == [at |-> place, on |-> proc[p].on, goal |-> goal, handle |-> t, seen |-> None]
<1>2. proc[p] \in Process /\ proc[p].at = "create"
  BY DEF CreateExternal, At
<1>3. new \in Process
  BY <1>2 DEF Process, Places, Goals
<1>4. new.at = place /\ new.on = proc[p].on /\ new.goal = goal /\ new.handle = t
  OBVIOUS
<1>5. proc' = [proc EXCEPT ![p] = new]
  BY <1>1
<1> HIDE DEF new
<1>6. proc'[p] = new /\ proc' \in [Proc -> Process] /\ \A q \in Proc \ {p} : proc'[q] = proc[q]
  BY <1>3, <1>5
<1> QED BY <1>1, <1>2, <1>4, <1>6

LEMMA BeginsAt ==
  ASSUME NEW p \in Proc, NEW w \in Workflow, NEW place \in Places, NEW goal \in Goals,
         NEW command, proc \in [Proc -> Process], terminal \in [Workflow -> Terminal \cup {None}],
         Begins(p, command, w, place, goal)
  PROVE  /\ proc' \in [Proc -> Process] /\ proc[p].at = "idle" /\ command \in Commands
         /\ proc'[p].at = place /\ proc'[p].on = w /\ proc'[p].goal = goal
         /\ proc'[p].handle = terminal[w] /\ proc'[p].seen = terminal[w]
         /\ \A q \in Proc \ {p} : proc'[q] = proc[q]
<1> DEFINE new == [at |-> place, on |-> w, goal |-> goal, handle |-> terminal[w],
                   seen |-> terminal[w]]
<1>1. new \in Process
  BY DEF Process
<1>2. /\ new.at = place /\ new.on = w /\ new.goal = goal
      /\ new.handle = terminal[w] /\ new.seen = terminal[w]
  OBVIOUS
<1>3. proc' = [proc EXCEPT ![p] = new] /\ proc[p].at = "idle" /\ command \in Commands
  BY DEF Begins, At
<1> HIDE DEF new
<1> QED BY <1>1, <1>2, <1>3

\* Orca closes terminals of a set, all of them or not.
LEMMA Closing ==
  ASSUME Types, NEW H, Closes(H) \/ FailsToClose(H)
  PROVE  /\ alive' \in SUBSET Terminal /\ mishaps' \in 0 .. MaxMishaps
         /\ alive' \subseteq alive /\ alive \ alive' \subseteq H
BY LifecycleAssumption DEF Types, Closes, FailsToClose

LEMMA OperationsAre ==
  /\ NoOp \in Operation
  /\ \A t \in Ended : Claim("terminal", t) \in Operation
  /\ Claim("activation", "none") \in Operation
BY DEF NoOp, Claim, Operation

\* fail_terminal_update and fail_stale_reconciliation keep what is claimed.
LEMMA NotesError ==
  ASSUME NEW w \in Workflow, op \in [Workflow -> Operation],
         op' = [op EXCEPT ![w].error = @ \/ op[w].kind = "terminal"]
  PROVE  /\ op' \in [Workflow -> Operation]
         /\ op'[w].kind = op[w].kind /\ op'[w].target = op[w].target
         /\ op[w].kind # "terminal" => op' = op
         /\ \A v \in Workflow \ {w} : op'[v] = op[v]
<1> DEFINE e == op[w].error \/ op[w].kind = "terminal"
           new == [op[w] EXCEPT !.error = e]
<1>1. op[w] \in Operation
  OBVIOUS
<1>2. e \in BOOLEAN
  OBVIOUS
<1>3. op' = [op EXCEPT ![w] = new]
  BY Zenon
<1>4. op[w].kind # "terminal" => (e <=> op[w].error)
  OBVIOUS
<1>5. op[w].error \in BOOLEAN
  BY <1>1 DEF Operation
<1> HIDE DEF e
<1>6. new \in Operation /\ new.kind = op[w].kind /\ new.target = op[w].target
  BY <1>1, <1>2 DEF Operation
<1>7. ASSUME e = op[w].error PROVE new = op[w]
  BY <1>1, <1>7 DEF Operation
<1> HIDE DEF new
<1>8. op[w].kind # "terminal" => op' = op
  BY <1>2, <1>3, <1>4, <1>5, <1>7
<1> QED BY <1>3, <1>6, <1>8

\* A claim that gets old is the same claim.
LEMMA Ages ==
  ASSUME NEW w \in Workflow, op \in [Workflow -> Operation],
         op' = [op EXCEPT ![w].old = TRUE]
  PROVE  /\ op' \in [Workflow -> Operation]
         /\ op'[w].kind = op[w].kind /\ op'[w].target = op[w].target
         /\ \A v \in Workflow \ {w} : op'[v] = op[v]
<1>1. op[w] \in Operation
  OBVIOUS
<1> DEFINE new == [op[w] EXCEPT !.old = TRUE]
<1>2. op' = [op EXCEPT ![w] = new]
  BY Zenon
<1>3. new \in Operation /\ new.kind = op[w].kind /\ new.target = op[w].target
  BY <1>1 DEF Operation
<1> HIDE DEF new
<1> QED BY <1>2, <1>3

\* What is done to the followers of w.
LEMMA FollowersEnd ==
  ASSUME NEW w \in Workflow, NEW s \in Active \cup Ended,
         status \in [Workflow -> Active \cup Ended]
  PROVE  /\ WithFollowers(w, s) \in [Workflow -> Active \cup Ended]
         /\ WithFollowers(w, s)[w] = s
         /\ \A v \in Workflow \ {w} :
              \/ WithFollowers(w, s)[v] = status[v]
              \/ /\ v \in After[w] /\ status[v] = "requested"
                 /\ WithFollowers(w, s)[v] = "cancelled"
         /\ \A v \in After[w] : WithFollowers(w, s)[v] # "requested"
BY LifecycleAssumption DEF WithFollowers, Followers, Active, Ended

\* The same by role
LEMMA RolesEnd ==
  ASSUME NEW w \in Workflow, NEW s \in Active \cup Ended,
         status \in [Workflow -> Active \cup Ended]
  PROVE  /\ WithRoles(w, s) \in [Workflow -> Active \cup Ended]
         /\ WithRoles(w, s)[w] = s
         /\ \A v \in Workflow \ {w} :
              \/ WithRoles(w, s)[v] = status[v]
              \/ /\ v \in After[w] \cup Beside[w] /\ status[v] = "requested"
                 /\ WithRoles(w, s)[v] = "cancelled"
         /\ \A v \in After[w] : WithRoles(w, s)[v] # "requested"
BY FollowersEnd, LifecycleAssumption DEF WithRoles, Active, Ended

-----------------------------------------------------------------------------
(* Types. *)

Finishing == {"timing", "first", "early", "update", "complete", "tidy", "finalize", "shut"}

\* Who has begun a command has a workflow to run it on; who is to record a
\* terminal has one; who finishes a workflow has an outcome for it.
Bound(q) ==
  /\ q.at # "idle" => q.on \in Workflow
  /\ q.at \in {"attach", "replace", "discard"} => q.handle # None
  /\ q.at \in Finishing => q.goal \in Ended \cup {"timeout"}

Typed == Types /\ \A p \in Proc : Bound(proc[p])

LEMMA StartTypes ==
  ASSUME Typed, NEW p \in Proc, StartStep(p)
  PROVE  Typed'
<1>0. Types
  BY DEF Typed
<1>1. status \in [Workflow -> Active \cup Ended]
  BY <1>0 DEF Types
<1>2. attached \in [Workflow -> BOOLEAN]
  BY <1>0 DEF Types
<1>3. terminal \in [Workflow -> Terminal \cup {None}]
  BY <1>0 DEF Types
<1>4. owned \in [Workflow -> SUBSET Terminal]
  BY <1>0 DEF Types
<1>5. reconciled \in [Workflow -> BOOLEAN]
  BY <1>0 DEF Types
<1>6. unclean \in [Workflow -> BOOLEAN]
  BY <1>0 DEF Types
<1>7. op \in [Workflow -> Operation]
  BY <1>0 DEF Types
<1>8. request \in [Workflow -> Terminal \cup {None}]
  BY <1>0 DEF Types
<1>9. alive \in SUBSET Terminal
  BY <1>0 DEF Types
<1>10. lost \in SUBSET Terminal
  BY <1>0 DEF Types
<1>11. mishaps \in 0 .. MaxMishaps
  BY <1>0 DEF Types
<1>12. outdated \in SUBSET Proc
  BY <1>0 DEF Types
<1>13. proc \in [Proc -> Process] /\ \A q \in Proc : Bound(proc[q])
  BY DEF Typed, Types, Process
<1>14. /\ proc[p].handle \in Terminal \cup {None}
       /\ proc[p].at # "idle" => proc[p].on \in Workflow
       /\ proc[p].at \in {"attach", "replace", "discard"} => proc[p].handle # None
  BY <1>13 DEF Process, Bound
<1>15. CASE CreateExternal(p)
  <2>1. proc[p].on \in Workflow
    BY <1>14, <1>15 DEF CreateExternal, At
  <2>2. /\ proc' \in [Proc -> Process] /\ Bound(proc'[p])
        /\ \A q \in Proc \ {p} : proc'[q] = proc[q]
    BY <1>13, <1>14, <2>1, <1>15, Creates, NoneIsNobody DEF Bound, Finishing
  <2>3. UNCHANGED <<status, attached, terminal, owned, reconciled, unclean, op, request, lost,
                    mishaps, outdated>>
    BY <1>15 DEF CreateExternal, rows, world, Closes, FailsToClose
  <2>4. alive' \in SUBSET Terminal
    BY <1>9, <1>13, <1>15, Creates
  <2> QED BY <1>1, <1>2, <1>3, <1>4, <1>5, <1>6, <1>7, <1>8, <1>10, <1>11, <1>12, <1>13, <2>2,
             <2>3, <2>4 DEF Typed, Types, Process
<1>16. CASE AttachExternal(p)
  <2>1. proc[p].on \in Workflow
    BY <1>14, <1>16 DEF AttachExternal, At
  <2>2. /\ proc' \in [Proc -> Process] /\ Bound(proc'[p])
        /\ \A q \in Proc \ {p} : proc'[q] = proc[q]
    BY <1>13, <1>14, <2>1, <1>16, Goes, Returns, NoneIsNobody DEF AttachExternal, Places, Idle,
       Bound, Finishing, MayAttach
  <2>3. UNCHANGED <<status, reconciled, unclean, op, request, alive, lost, mishaps, outdated>>
    BY <1>16 DEF AttachExternal, rows, world
  <2>4. attached' \in [Workflow -> BOOLEAN]
    BY <1>2, <2>1, <1>16 DEF AttachExternal
  <2>5. terminal' \in [Workflow -> Terminal \cup {None}]
    BY <1>3, <1>14, <2>1, <1>16 DEF AttachExternal, At
  <2>6. owned' \in [Workflow -> SUBSET Terminal]
    BY <1>4, <1>14, <2>1, <1>16 DEF AttachExternal, At
  <2> QED BY <1>1, <1>5, <1>6, <1>7, <1>8, <1>9, <1>10, <1>11, <1>12, <1>13, <2>2, <2>3, <2>4,
             <2>5, <2>6 DEF Typed, Types, Process
<1>17. CASE ClaimActivation(p)
  <2>1. proc[p].on \in Workflow
    BY <1>14, <1>17 DEF ClaimActivation, At
  <2>2. /\ proc' \in [Proc -> Process] /\ Bound(proc'[p])
        /\ \A q \in Proc \ {p} : proc'[q] = proc[q]
    BY <1>13, <1>14, <2>1, <1>17, Goes, Returns, NoneIsNobody DEF ClaimActivation, Places,
       Idle, Bound, Finishing
  <2>3. UNCHANGED <<status, attached, terminal, owned, reconciled, unclean, request, alive,
                    lost, mishaps, outdated>>
    BY <1>17 DEF ClaimActivation, rows, world
  <2>4. op' \in [Workflow -> Operation]
    BY <1>7, <2>1, <1>17, OperationsAre DEF ClaimActivation
  <2> QED BY <1>1, <1>2, <1>3, <1>4, <1>5, <1>6, <1>8, <1>9, <1>10, <1>11, <1>12, <1>13, <2>2,
             <2>3, <2>4 DEF Typed, Types, Process
<1>18. CASE Activate(p)
  <2>1. proc[p].on \in Workflow
    BY <1>14, <1>18 DEF Activate, At
  <2>2. /\ proc' \in [Proc -> Process] /\ Bound(proc'[p])
        /\ \A q \in Proc \ {p} : proc'[q] = proc[q]
    BY <1>13, <1>14, <2>1, <1>18, Goes, Returns, NoneIsNobody DEF Activate, Places, Idle,
       Bound, Finishing
  <2>3. UNCHANGED <<status, attached, terminal, owned, reconciled, unclean, request, alive,
                    lost, mishaps, outdated>>
    BY <1>18 DEF Activate, rows, world
  <2>4. op' \in [Workflow -> Operation]
    BY <1>7, <2>1, <1>18, OperationsAre DEF Activate
  <2> QED BY <1>1, <1>2, <1>3, <1>4, <1>5, <1>6, <1>8, <1>9, <1>10, <1>11, <1>12, <1>13, <2>2,
             <2>3, <2>4 DEF Typed, Types, Process
<1>19. CASE CompleteActivation(p)
  <2>1. proc[p].on \in Workflow
    BY <1>14, <1>19 DEF CompleteActivation, At
  <2>2. /\ proc' \in [Proc -> Process] /\ Bound(proc'[p])
        /\ \A q \in Proc \ {p} : proc'[q] = proc[q]
    BY <1>13, <1>14, <2>1, <1>19, Goes, Returns, NoneIsNobody DEF CompleteActivation, Places,
       Idle, Bound, Finishing
  <2>3. UNCHANGED <<attached, terminal, owned, reconciled, unclean, request, alive, lost, mishaps>>
    BY <1>19 DEF CompleteActivation, rows, world
  <2>4. status' \in [Workflow -> Active \cup Ended]
    BY <1>1, <2>1, <1>19 DEF CompleteActivation, Active, Ended
  <2>5. op' \in [Workflow -> Operation]
    BY <1>7, <2>1, <1>19, OperationsAre DEF CompleteActivation
  <2>6. outdated' \in SUBSET Proc
    BY <1>12, <2>1, <1>19 DEF CompleteActivation, Outdated
  <2> QED BY <1>2, <1>3, <1>4, <1>5, <1>6, <1>8, <1>9, <1>10, <1>11, <1>13, <2>2, <2>3, <2>4,
             <2>5, <2>6 DEF Typed, Types, Process
<1>20. CASE AttachPartialExternal(p)
  <2>1. proc[p].on \in Workflow
    BY <1>14, <1>20 DEF AttachPartialExternal, At
  <2>2. /\ proc' \in [Proc -> Process] /\ Bound(proc'[p])
        /\ \A q \in Proc \ {p} : proc'[q] = proc[q]
    BY <1>13, <1>14, <2>1, <1>20, Goes, Returns, NoneIsNobody DEF AttachPartialExternal,
       Places, Idle, Bound, Finishing
  <2>3. UNCHANGED <<status, terminal, owned, reconciled, unclean, op, request, alive, lost,
                    mishaps, outdated>>
    BY <1>20 DEF AttachPartialExternal, rows, world
  <2>4. attached' \in [Workflow -> BOOLEAN]
    BY <1>2, <2>1, <1>20 DEF AttachPartialExternal
  <2> QED BY <1>1, <1>3, <1>4, <1>5, <1>6, <1>7, <1>8, <1>9, <1>10, <1>11, <1>12, <1>13, <2>2,
             <2>3, <2>4 DEF Typed, Types, Process
<1>21. CASE CloseStarted(p)
  <2>1. proc[p].on \in Workflow
    BY <1>14, <1>21 DEF CloseStarted, At
  <2>2. /\ proc' \in [Proc -> Process] /\ Bound(proc'[p])
        /\ \A q \in Proc \ {p} : proc'[q] = proc[q]
    BY <1>13, <1>14, <2>1, <1>21, Goes, Returns, NoneIsNobody DEF CloseStarted, Places, Idle,
       Bound, Finishing
  <2>3. UNCHANGED <<status, attached, terminal, owned, reconciled, unclean, op, request, outdated>>
    BY <1>21 DEF CloseStarted, rows, world, Closes, FailsToClose
  <2>4. alive' \in SUBSET Terminal
    BY <1>0, <1>9, <1>11, <1>21, Closing DEF CloseStarted, world
  <2>5. lost' \in SUBSET Terminal
    BY <1>10, <1>4, <1>14, <2>1, <1>21 DEF CloseStarted, Closes, StartedTerminals, world
  <2>6. mishaps' \in 0 .. MaxMishaps
    BY <1>0, <1>9, <1>11, <1>21, Closing DEF CloseStarted, world
  <2> QED BY <1>1, <1>2, <1>3, <1>4, <1>5, <1>6, <1>7, <1>8, <1>12, <1>13, <2>2, <2>3, <2>4,
             <2>5, <2>6 DEF Typed, Types, Process
<1>22. CASE MarkReconciled(p)
  <2>1. proc[p].on \in Workflow
    BY <1>14, <1>22 DEF MarkReconciled, At
  <2>2. /\ proc' \in [Proc -> Process] /\ Bound(proc'[p])
        /\ \A q \in Proc \ {p} : proc'[q] = proc[q]
    BY <1>13, <1>14, <2>1, <1>22, Goes, Returns, NoneIsNobody DEF MarkReconciled, Places, Idle,
       Bound, Finishing
  <2>3. UNCHANGED <<status, attached, terminal, request, alive, lost, mishaps, outdated>>
    BY <1>22 DEF MarkReconciled, rows, world
  <2>4. reconciled' \in [Workflow -> BOOLEAN]
    BY <1>5, <2>1, <1>22 DEF MarkReconciled
  <2>5. unclean' \in [Workflow -> BOOLEAN]
    BY <1>6, <2>1, <1>22 DEF MarkReconciled
  <2>6. owned' \in [Workflow -> SUBSET Terminal]
    BY <1>4, <1>14, <2>1, <1>22 DEF MarkReconciled, At
  <2>7. op' \in [Workflow -> Operation]
    BY <1>7, <2>1, <1>22, OperationsAre DEF MarkReconciled
  <2> QED BY <1>1, <1>2, <1>3, <1>8, <1>9, <1>10, <1>11, <1>12, <1>13, <2>2, <2>3, <2>4, <2>5,
             <2>6, <2>7 DEF Typed, Types, Process
<1>23. CASE FailStart(p)
  <2>1. proc[p].on \in Workflow
    BY <1>14, <1>23 DEF FailStart, At
  <2>2. /\ proc' \in [Proc -> Process] /\ Bound(proc'[p])
        /\ \A q \in Proc \ {p} : proc'[q] = proc[q]
    BY <1>13, <1>14, <2>1, <1>23, Goes, Returns, NoneIsNobody DEF FailStart, Places, Idle,
       Bound, Finishing
  <2>3. UNCHANGED <<attached, terminal, owned, reconciled, unclean, op, alive, lost, mishaps,
                    outdated>>
    BY <1>23 DEF FailStart, rows, world
  <2>4. status' \in [Workflow -> Active \cup Ended]
    BY <1>1, <2>1, <1>23 DEF FailStart, Active, Ended
  <2>5. request' \in [Workflow -> Terminal \cup {None}]
    BY <1>8, <1>3, <2>1, <1>23 DEF FailStart, Cancelled, CancelledAll, OfOwner
  <2> QED BY <1>2, <1>3, <1>4, <1>5, <1>6, <1>7, <1>9, <1>10, <1>11, <1>12, <1>13, <2>2, <2>3,
             <2>4, <2>5 DEF Typed, Types, Process
<1>24. CASE CancelSuccessors(p)
  <2>1. proc[p].on \in Workflow
    BY <1>14, <1>24 DEF CancelSuccessors, At
  <2>2. /\ proc' \in [Proc -> Process] /\ Bound(proc'[p])
        /\ \A q \in Proc \ {p} : proc'[q] = proc[q]
    BY <1>3, <1>13, <1>14, <2>1, <1>24, Rereads, NoneIsNobody DEF CancelSuccessors, Places,
       Idle, Bound, Finishing
  <2>3. UNCHANGED <<attached, terminal, owned, reconciled, unclean, op, request, alive, lost,
                    mishaps, outdated>>
    BY <1>24 DEF CancelSuccessors, rows, world
  <2>4. status' \in [Workflow -> Active \cup Ended]
    BY <1>1, <2>1, <1>24, RolesEnd DEF CancelSuccessors
  <2> QED BY <1>2, <1>3, <1>4, <1>5, <1>6, <1>7, <1>8, <1>9, <1>10, <1>11, <1>12, <1>13, <2>2,
             <2>3, <2>4 DEF Typed, Types, Process
<1>25. CASE CancelOwnedRequests(p)
  <2>1. proc[p].on \in Workflow
    BY <1>14, <1>25 DEF CancelOwnedRequests, At
  <2>2. /\ proc' \in [Proc -> Process] /\ Bound(proc'[p])
        /\ \A q \in Proc \ {p} : proc'[q] = proc[q]
    BY <1>13, <1>14, <2>1, <1>25, Goes, Returns, NoneIsNobody DEF CancelOwnedRequests, Places,
       Idle, Bound, Finishing
  <2>3. UNCHANGED <<status, attached, terminal, owned, reconciled, unclean, op, alive, lost,
                    mishaps, outdated>>
    BY <1>25 DEF CancelOwnedRequests, rows, world
  <2>4. request' \in [Workflow -> Terminal \cup {None}]
    BY <1>8, <1>3, <2>1, <1>25 DEF CancelOwnedRequests, Cancelled, CancelledAll, OfOwner
  <2> QED BY <1>1, <1>2, <1>3, <1>4, <1>5, <1>6, <1>7, <1>9, <1>10, <1>11, <1>12, <1>13, <2>2,
             <2>3, <2>4 DEF Typed, Types, Process
<1> QED BY <1>15, <1>16, <1>17, <1>18, <1>19, <1>20, <1>21, <1>22, <1>23, <1>24, <1>25 DEF StartStep

LEMMA FinishTypes ==
  ASSUME Typed, NEW p \in Proc, FinishStep(p)
  PROVE  Typed'
<1>0. Types
  BY DEF Typed
<1>1. status \in [Workflow -> Active \cup Ended]
  BY <1>0 DEF Types
<1>2. attached \in [Workflow -> BOOLEAN]
  BY <1>0 DEF Types
<1>3. terminal \in [Workflow -> Terminal \cup {None}]
  BY <1>0 DEF Types
<1>4. owned \in [Workflow -> SUBSET Terminal]
  BY <1>0 DEF Types
<1>5. reconciled \in [Workflow -> BOOLEAN]
  BY <1>0 DEF Types
<1>6. unclean \in [Workflow -> BOOLEAN]
  BY <1>0 DEF Types
<1>7. op \in [Workflow -> Operation]
  BY <1>0 DEF Types
<1>8. request \in [Workflow -> Terminal \cup {None}]
  BY <1>0 DEF Types
<1>9. alive \in SUBSET Terminal
  BY <1>0 DEF Types
<1>10. lost \in SUBSET Terminal
  BY <1>0 DEF Types
<1>11. mishaps \in 0 .. MaxMishaps
  BY <1>0 DEF Types
<1>12. outdated \in SUBSET Proc
  BY <1>0 DEF Types
<1>13. proc \in [Proc -> Process] /\ \A q \in Proc : Bound(proc[q])
  BY DEF Typed, Types, Process
<1>14. /\ proc[p].handle \in Terminal \cup {None}
       /\ proc[p].at # "idle" => proc[p].on \in Workflow
       /\ proc[p].at \in {"attach", "replace", "discard"} => proc[p].handle # None
       /\ proc[p].at \in Finishing => proc[p].goal \in Ended \cup {"timeout"}
  BY <1>13 DEF Process, Bound
<1>15. CASE ClaimTerminal(p)
  <2>1. proc[p].on \in Workflow
    BY <1>14, <1>15 DEF ClaimTerminal, At
  <2>2. proc[p].goal \in Ended \cup {"timeout"} /\ Target(p) \in Ended
    BY <1>14, <1>15 DEF ClaimTerminal, At, Finishing, Target, Ended
  <2>3. /\ proc' \in [Proc -> Process] /\ Bound(proc'[p])
        /\ \A q \in Proc \ {p} : proc'[q] = proc[q]
    BY <1>3, <1>13, <1>14, <2>1, <2>2, <1>15, Rereads, NoneIsNobody DEF ClaimTerminal, Places,
       Idle, Bound, Finishing
  <2>4. UNCHANGED <<attached, terminal, owned, reconciled, unclean, alive, lost, mishaps, outdated>>
    BY <1>15 DEF ClaimTerminal, rows, world
  <2>5. status' \in [Workflow -> Active \cup Ended]
    BY <1>1, <2>1, <2>2, <1>15, RolesEnd DEF ClaimTerminal, Active, Ended
  <2>6. op' \in [Workflow -> Operation]
    BY <1>7, <2>1, <2>2, <1>15, OperationsAre DEF ClaimTerminal
  <2>7. request' \in [Workflow -> Terminal \cup {None}]
    BY <1>8, <1>3, <2>1, <1>15 DEF ClaimTerminal, Cancelled, CancelledAll, OfOwner
  <2> QED BY <1>2, <1>3, <1>4, <1>5, <1>6, <1>9, <1>10, <1>11, <1>12, <1>13, <2>3, <2>4, <2>5,
             <2>6, <2>7 DEF Typed, Types, Process
<1>16. CASE FinishRefused(p)
  <2>1. proc[p].on \in Workflow
    BY <1>14, <1>16 DEF FinishRefused, At
  <2>2. proc[p].goal \in Ended \cup {"timeout"} /\ Target(p) \in Ended
    BY <1>14, <1>16 DEF FinishRefused, At, Finishing, Target, Ended
  <2>3. /\ proc' \in [Proc -> Process] /\ Bound(proc'[p])
        /\ \A q \in Proc \ {p} : proc'[q] = proc[q]
    BY <1>13, <1>14, <2>1, <2>2, <1>16, Goes, Returns, NoneIsNobody DEF FinishRefused, Places,
       Idle, Bound, Finishing
  <2>4. UNCHANGED <<status, attached, terminal, owned, reconciled, unclean, op, request, alive,
                    lost, mishaps, outdated>>
    BY <1>16 DEF FinishRefused, rows, world
  <2> QED BY <1>1, <1>2, <1>3, <1>4, <1>5, <1>6, <1>7, <1>8, <1>9, <1>10, <1>11, <1>12, <1>13,
             <2>3, <2>4 DEF Typed, Types, Process
<1>17. CASE CancelFirst(p)
  <2>1. proc[p].on \in Workflow
    BY <1>14, <1>17 DEF CancelFirst, At
  <2>2. proc[p].goal \in Ended \cup {"timeout"} /\ Target(p) \in Ended
    BY <1>14, <1>17 DEF CancelFirst, At, Finishing, Target, Ended
  <2>3. /\ proc' \in [Proc -> Process] /\ Bound(proc'[p])
        /\ \A q \in Proc \ {p} : proc'[q] = proc[q]
    BY <1>13, <1>14, <2>1, <2>2, <1>17, Goes, Returns, NoneIsNobody DEF CancelFirst, Places,
       Idle, Bound, Finishing
  <2>4. UNCHANGED <<status, attached, terminal, owned, reconciled, unclean, op, alive, lost,
                    mishaps, outdated>>
    BY <1>17 DEF CancelFirst, rows, world
  <2>5. request' \in [Workflow -> Terminal \cup {None}]
    BY <1>8, <1>3, <2>1, <1>17 DEF CancelFirst, Cancelled, CancelledAll, OfOwner
  <2> QED BY <1>1, <1>2, <1>3, <1>4, <1>5, <1>6, <1>7, <1>9, <1>10, <1>11, <1>12, <1>13, <2>3,
             <2>4, <2>5 DEF Typed, Types, Process
<1>18. CASE UpdateExternal(p)
  <2>1. proc[p].on \in Workflow
    BY <1>14, <1>18 DEF UpdateExternal, At
  <2>2. proc[p].goal \in Ended \cup {"timeout"} /\ Target(p) \in Ended
    BY <1>14, <1>18 DEF UpdateExternal, At, Finishing, Target, Ended
  <2>3. /\ proc' \in [Proc -> Process] /\ Bound(proc'[p])
        /\ \A q \in Proc \ {p} : proc'[q] = proc[q]
    BY <1>13, <1>14, <2>1, <2>2, <1>18, Goes, Returns, NoneIsNobody DEF UpdateExternal, Places,
       Idle, Bound, Finishing
  <2>4. UNCHANGED <<status, attached, terminal, owned, reconciled, unclean, request, alive,
                    lost, mishaps, outdated>>
    BY <1>18 DEF UpdateExternal, rows, world
  <2>5. op' \in [Workflow -> Operation]
    BY <1>7, <2>1, <1>18, NotesError DEF UpdateExternal
  <2> QED BY <1>1, <1>2, <1>3, <1>4, <1>5, <1>6, <1>8, <1>9, <1>10, <1>11, <1>12, <1>13, <2>3,
             <2>4, <2>5 DEF Typed, Types, Process
<1>19. CASE CompleteTerminal(p)
  <2>1. proc[p].on \in Workflow
    BY <1>14, <1>19 DEF CompleteTerminal, At
  <2>2. proc[p].goal \in Ended \cup {"timeout"} /\ Target(p) \in Ended
    BY <1>14, <1>19 DEF CompleteTerminal, At, Finishing, Target, Ended
  <2>3a. Return(p) \/ Go(p, "tidy")
    BY <1>19 DEF CompleteTerminal
  <2>3. /\ proc' \in [Proc -> Process] /\ Bound(proc'[p])
        /\ \A q \in Proc \ {p} : proc'[q] = proc[q]
    BY <1>13, <1>14, <2>1, <2>2, <2>3a, <1>19, Goes, Returns, NoneIsNobody DEF Places, Idle,
       Bound, Finishing
  <2>4. UNCHANGED <<attached, terminal, owned, reconciled, alive, lost, mishaps, outdated>>
    BY <1>19 DEF CompleteTerminal, rows, world
  <2>5. op' \in [Workflow -> Operation]
    BY <1>7, <2>1, <2>2, <1>19, OperationsAre DEF CompleteTerminal
  <2>6. status' \in [Workflow -> Active \cup Ended]
    BY <1>1, <2>1, <2>2, <1>19, FollowersEnd DEF CompleteTerminal, Active, Ended
  <2>7. unclean' \in [Workflow -> BOOLEAN]
    BY <1>6, <2>1, <1>19 DEF CompleteTerminal
  <2>8. request' \in [Workflow -> Terminal \cup {None}]
    BY <1>8, <1>3, <2>1, <1>19 DEF CompleteTerminal, Cancelled, CancelledAll, OfOwner
  <2> QED BY <1>2, <1>3, <1>4, <1>5, <1>9, <1>10, <1>11, <1>12, <1>13, <2>3, <2>4, <2>5, <2>6,
             <2>7, <2>8 DEF Typed, Types, Process
<1>20. CASE Tidy(p)
  <2>1. proc[p].on \in Workflow
    BY <1>14, <1>20 DEF Tidy, At
  <2>2. proc[p].goal \in Ended \cup {"timeout"} /\ Target(p) \in Ended
    BY <1>14, <1>20 DEF Tidy, At, Finishing, Target, Ended
  <2>3. /\ proc' \in [Proc -> Process] /\ Bound(proc'[p])
        /\ \A q \in Proc \ {p} : proc'[q] = proc[q]
    BY <1>3, <1>13, <1>14, <2>1, <2>2, <1>20, Rereads, NoneIsNobody DEF Tidy, Places, Idle,
       Bound, Finishing
  <2>4. UNCHANGED <<attached, terminal, owned, reconciled, unclean, op, request, alive, lost,
                    mishaps, outdated>>
    BY <1>20 DEF Tidy, rows, world
  <2>5. status' \in [Workflow -> Active \cup Ended]
    BY <1>1, <2>1, <1>20, RolesEnd DEF Tidy
  <2> QED BY <1>2, <1>3, <1>4, <1>5, <1>6, <1>7, <1>8, <1>9, <1>10, <1>11, <1>12, <1>13, <2>3,
             <2>4, <2>5 DEF Typed, Types, Process
<1>21. CASE CancelFinally(p)
  <2>1. proc[p].on \in Workflow
    BY <1>14, <1>21 DEF CancelFinally, At
  <2>2. proc[p].goal \in Ended \cup {"timeout"} /\ Target(p) \in Ended
    BY <1>14, <1>21 DEF CancelFinally, At, Finishing, Target, Ended
  <2>3. /\ proc' \in [Proc -> Process] /\ Bound(proc'[p])
        /\ \A q \in Proc \ {p} : proc'[q] = proc[q]
    BY <1>13, <1>14, <2>1, <2>2, <1>21, Goes, Returns, NoneIsNobody DEF CancelFinally, Places,
       Idle, Bound, Finishing
  <2>4. UNCHANGED <<status, attached, terminal, owned, reconciled, unclean, op, alive, lost,
                    mishaps, outdated>>
    BY <1>21 DEF CancelFinally, rows, world
  <2>5. request' \in [Workflow -> Terminal \cup {None}]
    BY <1>8, <1>3, <2>1, <1>21 DEF CancelFinally, Cancelled, CancelledAll, OfOwner
  <2> QED BY <1>1, <1>2, <1>3, <1>4, <1>5, <1>6, <1>7, <1>9, <1>10, <1>11, <1>12, <1>13, <2>3,
             <2>4, <2>5 DEF Typed, Types, Process
<1>22. CASE CloseFinished(p)
  <2>1. proc[p].on \in Workflow
    BY <1>14, <1>22 DEF CloseFinished, At
  <2>2. proc[p].goal \in Ended \cup {"timeout"} /\ Target(p) \in Ended
    BY <1>14, <1>22 DEF CloseFinished, At, Finishing, Target, Ended
  <2>3a. Return(p)
    BY <1>22 DEF CloseFinished
  <2>3. /\ proc' \in [Proc -> Process] /\ Bound(proc'[p])
        /\ \A q \in Proc \ {p} : proc'[q] = proc[q]
    BY <1>13, <1>14, <2>1, <2>2, <2>3a, <1>22, Returns, NoneIsNobody DEF Places, Idle, Bound,
       Finishing
  <2>4. UNCHANGED <<status, attached, terminal, request, outdated>>
    BY <1>22 DEF CloseFinished, rows, world, Closes, FailsToClose
  <2>5. reconciled' \in [Workflow -> BOOLEAN]
    BY <1>5, <2>1, <1>22 DEF CloseFinished
  <2>6. owned' \in [Workflow -> SUBSET Terminal]
    BY <1>4, <2>1, <1>22 DEF CloseFinished, OwnedHandles
  <2>7. unclean' \in [Workflow -> BOOLEAN]
    BY <1>6, <2>1, <1>22 DEF CloseFinished
  <2>8. op' \in [Workflow -> Operation]
    BY <1>7, <2>1, <1>22, OperationsAre DEF CloseFinished
  <2>9. alive' \in SUBSET Terminal
    BY <1>0, <1>9, <1>11, <1>22, Closing DEF CloseFinished, world
  <2>10. lost' \in SUBSET Terminal
    BY <1>10, <1>22 DEF CloseFinished, Closes, world
  <2>11. mishaps' \in 0 .. MaxMishaps
    BY <1>0, <1>9, <1>11, <1>22, Closing DEF CloseFinished, world
  <2> QED BY <1>1, <1>2, <1>3, <1>8, <1>12, <1>13, <2>3, <2>4, <2>5, <2>6, <2>7, <2>8, <2>9,
             <2>10, <2>11 DEF Typed, Types, Process
<1> QED BY <1>15, <1>16, <1>17, <1>18, <1>19, <1>20, <1>21, <1>22 DEF FinishStep

LEMMA OtherTypes ==
  ASSUME Typed, NEW p \in Proc, OtherStep(p)
  PROVE  Typed'
<1>0. Types
  BY DEF Typed
<1>1. status \in [Workflow -> Active \cup Ended]
  BY <1>0 DEF Types
<1>2. attached \in [Workflow -> BOOLEAN]
  BY <1>0 DEF Types
<1>3. terminal \in [Workflow -> Terminal \cup {None}]
  BY <1>0 DEF Types
<1>4. owned \in [Workflow -> SUBSET Terminal]
  BY <1>0 DEF Types
<1>5. reconciled \in [Workflow -> BOOLEAN]
  BY <1>0 DEF Types
<1>6. unclean \in [Workflow -> BOOLEAN]
  BY <1>0 DEF Types
<1>7. op \in [Workflow -> Operation]
  BY <1>0 DEF Types
<1>8. request \in [Workflow -> Terminal \cup {None}]
  BY <1>0 DEF Types
<1>9. alive \in SUBSET Terminal
  BY <1>0 DEF Types
<1>10. lost \in SUBSET Terminal
  BY <1>0 DEF Types
<1>11. mishaps \in 0 .. MaxMishaps
  BY <1>0 DEF Types
<1>12. outdated \in SUBSET Proc
  BY <1>0 DEF Types
<1>13. proc \in [Proc -> Process] /\ \A q \in Proc : Bound(proc[q])
  BY DEF Typed, Types, Process
<1>14. /\ proc[p].handle \in Terminal \cup {None}
       /\ proc[p].at # "idle" => proc[p].on \in Workflow
       /\ proc[p].at \in {"attach", "replace", "discard"} => proc[p].handle # None
  BY <1>13 DEF Process, Bound
<1>15. CASE MarkResumed(p)
  <2>1. proc[p].on \in Workflow
    BY <1>14, <1>15 DEF MarkResumed, At
  <2>2. /\ proc' \in [Proc -> Process] /\ Bound(proc'[p])
        /\ \A q \in Proc \ {p} : proc'[q] = proc[q]
    BY <1>13, <1>14, <2>1, <1>15, Goes, Returns, NoneIsNobody DEF MarkResumed, Places, Idle,
       Bound, Finishing, At
  <2>3. UNCHANGED <<status, attached, terminal, owned, reconciled, unclean, op, request, alive,
                    lost, mishaps>>
    BY <1>15 DEF MarkResumed, rows, world
  <2>4. outdated' \in SUBSET Proc
    BY <1>12, <2>1, <1>15 DEF MarkResumed, Outdated
  <2> QED BY <1>1, <1>2, <1>3, <1>4, <1>5, <1>6, <1>7, <1>8, <1>9, <1>10, <1>11, <1>13, <2>2,
             <2>3, <2>4 DEF Typed, Types, Process
<1>16. CASE LaunchAgent(p)
  <2>1. proc[p].on \in Workflow
    BY <1>14, <1>16 DEF LaunchAgent, At
  <2>2a. Return(p) \/ \E t \in Terminal : proc' = [proc EXCEPT ![p].at = "replace", ![p].handle = t]
    BY <1>16 DEF LaunchAgent
  <2>2. /\ proc' \in [Proc -> Process] /\ Bound(proc'[p])
        /\ \A q \in Proc \ {p} : proc'[q] = proc[q]
    <3>1. CASE Return(p)
      BY <1>13, <3>1, Returns DEF Idle, Bound, Finishing
    <3>2. ASSUME NEW t \in Terminal, proc' = [proc EXCEPT ![p].at = "replace", ![p].handle = t]
          PROVE  /\ proc' \in [Proc -> Process] /\ Bound(proc'[p])
                 /\ \A q \in Proc \ {p} : proc'[q] = proc[q]
      <4>1. /\ proc' \in [Proc -> Process] /\ \A q \in Proc \ {p} : proc'[q] = proc[q]
            /\ proc'[p].at = "replace" /\ proc'[p].on = proc[p].on /\ proc'[p].handle = t
        BY <1>13, <2>1, <3>2, Makes DEF Places
      <4> QED BY <2>1, <4>1, NoneIsNobody DEF Bound, Finishing
    <3> QED BY <2>2a, <3>1, <3>2
  <2>3. UNCHANGED <<status, attached, terminal, owned, reconciled, unclean, op, request, lost,
                    mishaps, outdated>>
    BY <1>16 DEF LaunchAgent, rows, world, Closes, FailsToClose
  <2>4. alive' \in SUBSET Terminal
    BY <1>9, <2>1, <1>16 DEF LaunchAgent
  <2> QED BY <1>1, <1>2, <1>3, <1>4, <1>5, <1>6, <1>7, <1>8, <1>10, <1>11, <1>12, <1>13, <2>2,
             <2>3, <2>4 DEF Typed, Types, Process
<1>17. CASE ReplaceAgent(p)
  <2>1. proc[p].on \in Workflow
    BY <1>14, <1>17 DEF ReplaceAgent, At
  <2>2a. Return(p) \/ Go(p, "remark") \/ Go(p, "discard")
    BY <1>17 DEF ReplaceAgent
  <2>2. /\ proc' \in [Proc -> Process] /\ Bound(proc'[p])
        /\ \A q \in Proc \ {p} : proc'[q] = proc[q]
    BY <1>13, <1>14, <2>1, <2>2a, <1>17, Goes, Returns, NoneIsNobody DEF ReplaceAgent, At,
       Places, Idle, Bound, Finishing
  <2>3. UNCHANGED <<status, attached, reconciled, unclean, op, request, alive, mishaps, outdated>>
    BY <1>17 DEF ReplaceAgent, rows, world
  <2>4. terminal' \in [Workflow -> Terminal \cup {None}]
    BY <1>3, <1>14, <2>1, <1>17 DEF ReplaceAgent, At
  <2>5. owned' \in [Workflow -> SUBSET Terminal]
    BY <1>4, <1>14, <2>1, <1>17 DEF ReplaceAgent, At
  <2>6. lost' \in SUBSET Terminal
    BY <1>10, <1>4, <1>9, <2>1, <1>17 DEF ReplaceAgent
  <2> QED BY <1>1, <1>2, <1>5, <1>6, <1>7, <1>8, <1>9, <1>11, <1>12, <1>13, <2>2, <2>3, <2>4,
             <2>5, <2>6 DEF Typed, Types, Process
<1>18. CASE DiscardAgent(p)
  <2>1. proc[p].on \in Workflow
    BY <1>14, <1>18 DEF DiscardAgent, At
  <2>2. /\ proc' \in [Proc -> Process] /\ Bound(proc'[p])
        /\ \A q \in Proc \ {p} : proc'[q] = proc[q]
    BY <1>13, <1>14, <2>1, <1>18, Goes, Returns, NoneIsNobody DEF DiscardAgent, Places, Idle,
       Bound, Finishing
  <2>3. UNCHANGED <<status, attached, terminal, owned, reconciled, unclean, op, request, outdated>>
    BY <1>18 DEF DiscardAgent, rows, world, Closes, FailsToClose
  <2>4. alive' \in SUBSET Terminal
    BY <1>0, <1>9, <1>11, <1>18, Closing DEF DiscardAgent, world
  <2>5. lost' \in SUBSET Terminal
    BY <1>10, <1>14, <2>1, <1>18 DEF DiscardAgent, Closes, At
  <2>6. mishaps' \in 0 .. MaxMishaps
    BY <1>0, <1>9, <1>11, <1>18, Closing DEF DiscardAgent, world
  <2> QED BY <1>1, <1>2, <1>3, <1>4, <1>5, <1>6, <1>7, <1>8, <1>12, <1>13, <2>2, <2>3, <2>4,
             <2>5, <2>6 DEF Typed, Types, Process
<1>19. CASE CloseCompleted(p)
  <2>1. proc[p].on \in Workflow
    BY <1>14, <1>19 DEF CloseCompleted, At
  <2>2a. Return(p) \/ proc' = [proc EXCEPT ![p].at = "cancel", ![p].handle = terminal[proc[p].on]]
    BY <1>19 DEF CloseCompleted
  <2>2. /\ proc' \in [Proc -> Process] /\ Bound(proc'[p])
        /\ \A q \in Proc \ {p} : proc'[q] = proc[q]
    <3>1. CASE Return(p)
      BY <1>13, <3>1, Returns DEF Idle, Bound, Finishing
    <3>2. CASE proc' = [proc EXCEPT ![p].at = "cancel", ![p].handle = terminal[proc[p].on]]
      <4>1. /\ proc' \in [Proc -> Process] /\ \A q \in Proc \ {p} : proc'[q] = proc[q]
            /\ proc'[p].at = "cancel" /\ proc'[p].on = proc[p].on
        BY <1>3, <1>13, <2>1, <3>2, Rereads DEF Places
      <4> QED BY <2>1, <4>1 DEF Bound, Finishing
    <3> QED BY <2>2a, <3>1, <3>2
  <2>3. UNCHANGED <<status, attached, terminal, owned, reconciled, op, request, outdated>>
    BY <1>19 DEF CloseCompleted, rows, world, Closes, FailsToClose
  <2>4. unclean' \in [Workflow -> BOOLEAN]
    BY <1>6, <2>1, <1>19 DEF CloseCompleted
  <2>5. alive' \in SUBSET Terminal
    BY <1>0, <1>9, <1>11, <1>19, Closing DEF CloseCompleted, world
  <2>6. lost' \in SUBSET Terminal
    BY <1>10, <1>19 DEF CloseCompleted, Closes, world
  <2>7. mishaps' \in 0 .. MaxMishaps
    BY <1>0, <1>9, <1>11, <1>19, Closing DEF CloseCompleted, world
  <2> QED BY <1>1, <1>2, <1>3, <1>4, <1>5, <1>7, <1>8, <1>12, <1>13, <2>2, <2>3, <2>4, <2>5,
             <2>6, <2>7 DEF Typed, Types, Process
<1>20. CASE TakeOver(p)
  <2>1. proc[p].on \in Workflow
    BY <1>14, <1>20 DEF TakeOver, At
  <2>2. /\ proc' \in [Proc -> Process] /\ Bound(proc'[p])
        /\ \A q \in Proc \ {p} : proc'[q] = proc[q]
    BY <1>13, <1>14, <2>1, <1>20, Goes, Returns, NoneIsNobody DEF TakeOver, Places, Idle,
       Bound, Finishing
  <2>3. UNCHANGED <<status, attached, terminal, owned, reconciled, unclean, request, alive,
                    lost, mishaps, outdated>>
    BY <1>20 DEF TakeOver, rows, world
  <2>4. op' \in [Workflow -> Operation]
    BY <1>7, <2>1, <1>20, OperationsAre DEF TakeOver, Ended
  <2> QED BY <1>1, <1>2, <1>3, <1>4, <1>5, <1>6, <1>8, <1>9, <1>10, <1>11, <1>12, <1>13, <2>2,
             <2>3, <2>4 DEF Typed, Types, Process
<1>21. CASE CloseStale(p)
  <2>1. proc[p].on \in Workflow
    BY <1>14, <1>21 DEF CloseStale, At
  <2>2. /\ proc' \in [Proc -> Process] /\ Bound(proc'[p])
        /\ \A q \in Proc \ {p} : proc'[q] = proc[q]
    BY <1>13, <1>14, <2>1, <1>21, Goes, Returns, NoneIsNobody DEF CloseStale, Places, Idle,
       Bound, Finishing
  <2>3. UNCHANGED <<status, attached, terminal, owned, reconciled, unclean, request, outdated>>
    BY <1>21 DEF CloseStale, rows, world, Closes, FailsToClose
  <2>4. op' \in [Workflow -> Operation]
    BY <1>7, <2>1, <1>21, NotesError DEF CloseStale
  <2>5. alive' \in SUBSET Terminal
    BY <1>0, <1>9, <1>11, <1>21, Closing DEF CloseStale, world
  <2>6. lost' \in SUBSET Terminal
    BY <1>10, <1>21 DEF CloseStale, Closes, world
  <2>7. mishaps' \in 0 .. MaxMishaps
    BY <1>0, <1>9, <1>11, <1>21, Closing DEF CloseStale, world
  <2> QED BY <1>1, <1>2, <1>3, <1>4, <1>5, <1>6, <1>8, <1>12, <1>13, <2>2, <2>3, <2>4, <2>5,
             <2>6, <2>7 DEF Typed, Types, Process
<1>22. CASE ReleaseStale(p)
  <2>1. proc[p].on \in Workflow
    BY <1>14, <1>22 DEF ReleaseStale, At
  <2>2a. Return(p) \/ proc' = [proc EXCEPT ![p].at = "cancel", ![p].handle = terminal[proc[p].on]]
    BY <1>22 DEF ReleaseStale
  <2>2. /\ proc' \in [Proc -> Process] /\ Bound(proc'[p])
        /\ \A q \in Proc \ {p} : proc'[q] = proc[q]
    <3>1. CASE Return(p)
      BY <1>13, <3>1, Returns DEF Idle, Bound, Finishing
    <3>2. CASE proc' = [proc EXCEPT ![p].at = "cancel", ![p].handle = terminal[proc[p].on]]
      <4>1. /\ proc' \in [Proc -> Process] /\ \A q \in Proc \ {p} : proc'[q] = proc[q]
            /\ proc'[p].at = "cancel" /\ proc'[p].on = proc[p].on
        BY <1>3, <1>13, <2>1, <3>2, Rereads DEF Places
      <4> QED BY <2>1, <4>1 DEF Bound, Finishing
    <3> QED BY <2>2a, <3>1, <3>2
  <2>3. UNCHANGED <<attached, terminal, owned, request, alive, lost, mishaps, outdated>>
    BY <1>22 DEF ReleaseStale, rows, world
  <2>4. status' \in [Workflow -> Active \cup Ended]
    BY <1>1, <2>1, <1>22, RolesEnd DEF ReleaseStale, Active, Ended
  <2>5. reconciled' \in [Workflow -> BOOLEAN]
    BY <1>5, <2>1, <1>22 DEF ReleaseStale
  <2>6. unclean' \in [Workflow -> BOOLEAN]
    BY <1>6, <2>1, <1>22 DEF ReleaseStale
  <2>7. op' \in [Workflow -> Operation]
    BY <1>7, <2>1, <1>22, OperationsAre DEF ReleaseStale
  <2> QED BY <1>2, <1>3, <1>4, <1>8, <1>9, <1>10, <1>11, <1>12, <1>13, <2>2, <2>3, <2>4, <2>5,
             <2>6, <2>7 DEF Typed, Types, Process
<1>23. CASE CancelStale(p)
  <2>1. proc[p].on \in Workflow
    BY <1>14, <1>23 DEF CancelStale, At
  <2>2. /\ proc' \in [Proc -> Process] /\ Bound(proc'[p])
        /\ \A q \in Proc \ {p} : proc'[q] = proc[q]
    BY <1>13, <1>14, <2>1, <1>23, Goes, Returns, NoneIsNobody DEF CancelStale, Places, Idle,
       Bound, Finishing
  <2>3. UNCHANGED <<attached, terminal, owned, reconciled, unclean, op, alive, lost, mishaps,
                    outdated>>
    BY <1>23 DEF CancelStale, rows, world
  <2>4. status' \in [Workflow -> Active \cup Ended]
    BY <1>1, <2>1, <1>23 DEF CancelStale, Active, Ended
  <2>5. request' \in [Workflow -> Terminal \cup {None}]
    BY <1>8, <1>3, <2>1, <1>23 DEF CancelStale, Cancelled, CancelledAll, OfOwner
  <2> QED BY <1>2, <1>3, <1>4, <1>5, <1>6, <1>7, <1>9, <1>10, <1>11, <1>12, <1>13, <2>2, <2>3,
             <2>4, <2>5 DEF Typed, Types, Process
<1>24. CASE RetryFailed(p)
  <2>1. proc[p].on \in Workflow
    BY <1>14, <1>24 DEF RetryFailed, At
  <2>2. /\ proc' \in [Proc -> Process] /\ Bound(proc'[p])
        /\ \A q \in Proc \ {p} : proc'[q] = proc[q]
    BY <1>13, <1>14, <2>1, <1>24, Goes, Returns, NoneIsNobody DEF RetryFailed, Places, Idle,
       Bound, Finishing
  <2>3. UNCHANGED <<op, request, alive, lost, mishaps, outdated>>
    BY <1>24 DEF RetryFailed, rows, world
  <2>4. status' \in [Workflow -> Active \cup Ended]
    BY <1>1, <2>1, <1>24 DEF RetryFailed, Active, Ended
  <2>5. attached' \in [Workflow -> BOOLEAN]
    BY <1>2, <2>1, <1>24 DEF RetryFailed
  <2>6. terminal' \in [Workflow -> Terminal \cup {None}]
    BY <1>3, <1>14, <2>1, <1>24 DEF RetryFailed, At
  <2>7. owned' \in [Workflow -> SUBSET Terminal]
    BY <1>4, <1>14, <2>1, <1>24 DEF RetryFailed, At
  <2>8. reconciled' \in [Workflow -> BOOLEAN]
    BY <1>5, <2>1, <1>24 DEF RetryFailed
  <2>9. unclean' \in [Workflow -> BOOLEAN]
    BY <1>6, <2>1, <1>24 DEF RetryFailed
  <2> QED BY <1>7, <1>8, <1>9, <1>10, <1>11, <1>12, <1>13, <2>2, <2>3, <2>4, <2>5, <2>6, <2>7,
             <2>8, <2>9 DEF Typed, Types, Process
<1>25. CASE MaintainCancels(p)
  <2>1. proc[p].on \in Workflow
    BY <1>14, <1>25 DEF MaintainCancels, At
  <2>2. /\ proc' \in [Proc -> Process] /\ Bound(proc'[p])
        /\ \A q \in Proc \ {p} : proc'[q] = proc[q]
    BY <1>13, <1>14, <2>1, <1>25, Goes, Returns, NoneIsNobody DEF MaintainCancels, Places,
       Idle, Bound, Finishing
  <2>3. UNCHANGED <<status, attached, terminal, owned, reconciled, unclean, op, alive, lost,
                    mishaps, outdated>>
    BY <1>25 DEF MaintainCancels, rows, world
  <2>4. request' \in [Workflow -> Terminal \cup {None}]
    BY <1>8, <1>3, <2>1, <1>25 DEF MaintainCancels, Cancelled, CancelledAll, OfOwner
  <2> QED BY <1>1, <1>2, <1>3, <1>4, <1>5, <1>6, <1>7, <1>9, <1>10, <1>11, <1>12, <1>13, <2>2,
             <2>3, <2>4 DEF Typed, Types, Process
<1>26. CASE Acquire(p)
  <2>1. proc[p].on \in Workflow
    BY <1>14, <1>26 DEF Acquire, At
  <2>2. /\ proc' \in [Proc -> Process] /\ Bound(proc'[p])
        /\ \A q \in Proc \ {p} : proc'[q] = proc[q]
    BY <1>13, <1>14, <2>1, <1>26, Goes, Returns, NoneIsNobody DEF Acquire, Places, Idle, Bound,
       Finishing
  <2>3. UNCHANGED <<status, attached, terminal, owned, reconciled, unclean, op, alive, lost,
                    mishaps, outdated>>
    BY <1>26 DEF Acquire, rows, world
  <2>4. request' \in [Workflow -> Terminal \cup {None}]
    BY <1>8, <1>3, <2>1, <1>26 DEF Acquire, Cancelled, CancelledAll, OfOwner
  <2> QED BY <1>1, <1>2, <1>3, <1>4, <1>5, <1>6, <1>7, <1>9, <1>10, <1>11, <1>12, <1>13, <2>2,
             <2>3, <2>4 DEF Typed, Types, Process
<1>27. CASE RecheckOwner(p)
  <2>1. proc[p].on \in Workflow
    BY <1>14, <1>27 DEF RecheckOwner, At
  <2>2. /\ proc' \in [Proc -> Process] /\ Bound(proc'[p])
        /\ \A q \in Proc \ {p} : proc'[q] = proc[q]
    BY <1>13, <1>14, <2>1, <1>27, Goes, Returns, NoneIsNobody DEF RecheckOwner, Places, Idle,
       Bound, Finishing
  <2>3. UNCHANGED <<status, attached, terminal, owned, reconciled, unclean, op, alive, lost,
                    mishaps, outdated>>
    BY <1>27 DEF RecheckOwner, rows, world
  <2>4. request' \in [Workflow -> Terminal \cup {None}]
    BY <1>8, <1>3, <2>1, <1>27 DEF RecheckOwner, Cancelled, CancelledAll, OfOwner
  <2> QED BY <1>1, <1>2, <1>3, <1>4, <1>5, <1>6, <1>7, <1>9, <1>10, <1>11, <1>12, <1>13, <2>2,
             <2>3, <2>4 DEF Typed, Types, Process
<1> QED BY <1>15, <1>16, <1>17, <1>18, <1>19, <1>20, <1>21, <1>22, <1>23, <1>24, <1>25, <1>26,
           <1>27 DEF OtherStep

\* Whatever command begins, its process is idle and reads the row first.
LEMMA CommandBegins ==
  ASSUME Typed, NEW p \in Proc, NEW w \in Workflow, Command(p, w)
  PROVE  /\ proc' \in [Proc -> Process] /\ Bound(proc'[p]) /\ proc[p].at = "idle"
         /\ proc'[p].on = w /\ proc'[p].handle = terminal[w] /\ proc'[p].seen = terminal[w]
         /\ \A q \in Proc \ {p} : proc'[q] = proc[q]
         /\ \/ BeginStart(p, w) /\ proc'[p].at = "create" /\ "start" \in Commands
            \/ /\ ObserveTimeout(p, w) /\ proc'[p].at = "timing" /\ proc'[p].goal = "timeout"
            \/ /\ status' = status
               /\ proc'[p].at \in {"timing", "mark", "launch", "shutCompleted", "takeOver",
                    "cancelStale", "cancel", "retry", "maintain", "acquire", "remark"}
               /\ proc'[p].at = "timing" => proc'[p].goal \in Ended
               /\ proc'[p].at = "takeOver" => "cleanup" \in Commands
               /\ proc'[p].at = "retry" => "retry" \in Commands
               /\ proc'[p].at \in {"mark", "launch"} => {"resume", "restart"} \cap Commands # {}
<1>1. proc \in [Proc -> Process] /\ terminal \in [Workflow -> Terminal \cup {None}]
  BY DEF Typed, Types, Process
<1> DEFINE Ok(place, goal) ==
      /\ proc' \in [Proc -> Process] /\ proc[p].at = "idle"
      /\ proc'[p].at = place /\ proc'[p].on = w /\ proc'[p].goal = goal
      /\ proc'[p].handle = terminal[w] /\ proc'[p].seen = terminal[w]
      /\ \A q \in Proc \ {p} : proc'[q] = proc[q]
<1>2. ASSUME NEW place \in Places, NEW goal \in Goals, NEW command,
             Begins(p, command, w, place, goal)
      PROVE  Ok(place, goal) /\ command \in Commands
  BY <1>1, <1>2, BeginsAt
<1>3. ASSUME NEW place, NEW goal, Ok(place, goal), place \notin {"attach", "replace", "discard"},
             place \in Finishing => goal \in Ended \cup {"timeout"}
      PROVE  Bound(proc'[p])
  BY <1>3 DEF Bound
<1>4. CASE BeginStart(p, w)
  <2>1. Ok("create", "unknown") /\ "start" \in Commands
    BY <1>2, <1>4 DEF BeginStart, Places, Goals
  <2> QED BY <1>3, <1>4, <2>1 DEF Finishing
<1>5. CASE ObserveTimeout(p, w)
  <2>1. Ok("timing", "timeout")
    BY <1>2, <1>5 DEF ObserveTimeout, Places, Goals
  <2> QED BY <1>3, <1>5, <2>1
<1>6. ASSUME NEW t \in Ended, FinishBegins(p, w, t)
      PROVE  status' = status /\ Ok("timing", t)
  BY <1>2, <1>6 DEF FinishBegins, Places, Goals, rows
<1>7. ASSUME NEW again \in BOOLEAN, ResumeBegins(p, w, again)
      PROVE  \E place \in {"mark", "launch"}, goal \in {"prompt", "resume"} :
               /\ status' = status /\ Ok(place, goal)
               /\ {"resume", "restart"} \cap Commands # {}
  <2>1. PICK place \in {"mark", "launch"}, goal \in {"prompt", "resume"},
             command \in {"resume", "restart"} : Begins(p, command, w, place, goal)
    BY <1>7 DEF ResumeBegins
  <2>2. Ok(place, goal) /\ command \in Commands
    BY <1>2, <2>1 DEF Places, Goals
  <2>3. status' = status
    BY <1>7 DEF ResumeBegins, rows
  <2> HIDE DEF Ok
  <2> QED BY <2>2, <2>3
<1>8. ASSUME CleanupBegins(p, w)
      PROVE  \E place \in {"shutCompleted", "takeOver", "cancelStale", "cancel"} :
               status' = status /\ Ok(place, "none") /\ "cleanup" \in Commands
  <2>1. PICK place \in {"shutCompleted", "takeOver", "cancelStale", "cancel"} :
          Begins(p, "cleanup", w, place, "none")
    BY <1>8 DEF CleanupBegins
  <2>2. Ok(place, "none") /\ "cleanup" \in Commands
    BY <1>2, <2>1 DEF Places, Goals
  <2>3. status' = status
    BY <1>8 DEF CleanupBegins, rows
  <2> HIDE DEF Ok
  <2> QED BY <2>2, <2>3
<1>9. ASSUME RetryBegins(p, w)
      PROVE  status' = status /\ Ok("retry", "none") /\ "retry" \in Commands
  BY <1>2, <1>9 DEF RetryBegins, Places, Goals
<1>10. ASSUME MaintainBegins(p, w) PROVE status' = status /\ Ok("maintain", "none")
  BY <1>2, <1>10 DEF MaintainBegins, Places, Goals, rows
<1>11. ASSUME NEW kind \in {"none", "run"}, AcquireBegins(p, w, kind)
       PROVE  status' = status /\ Ok("acquire", kind)
  BY <1>2, <1>11 DEF AcquireBegins, Places, Goals, rows
<1>12. ASSUME Release(p, w) PROVE status' = status /\ Ok("remark", "release")
  BY <1>2, <1>12 DEF Release, Places, Goals
<1>13. ASSUME NEW place \in {"mark", "launch", "shutCompleted", "takeOver", "cancelStale",
                             "cancel", "retry", "maintain", "acquire", "remark"},
              NEW goal, Ok(place, goal), status' = status,
              place = "takeOver" => "cleanup" \in Commands,
              place = "retry" => "retry" \in Commands,
              place \in {"mark", "launch"} => {"resume", "restart"} \cap Commands # {}
       PROVE  /\ Bound(proc'[p])
              /\ proc'[p].at \in {"timing", "mark", "launch", "shutCompleted", "takeOver",
                   "cancelStale", "cancel", "retry", "maintain", "acquire", "remark"}
              /\ proc'[p].at = "timing" => proc'[p].goal \in Ended
              /\ proc'[p].at = "takeOver" => "cleanup" \in Commands
              /\ proc'[p].at = "retry" => "retry" \in Commands
              /\ proc'[p].at \in {"mark", "launch"} => {"resume", "restart"} \cap Commands # {}
  BY <1>3, <1>13 DEF Finishing
<1>14. ASSUME NEW t \in Ended, Ok("timing", t) PROVE Bound(proc'[p])
  BY <1>3, <1>14
<1>15. Command(p, w)
  OBVIOUS
<1>16. CASE \E t \in Ended : FinishBegins(p, w, t)
  BY <1>6, <1>14, <1>16
<1>17. CASE \E again \in BOOLEAN : ResumeBegins(p, w, again)
  BY <1>7, <1>13, <1>17
<1>18. CASE CleanupBegins(p, w)
  BY <1>8, <1>13, <1>18
<1>19. CASE RetryBegins(p, w)
  BY <1>9, <1>13, <1>19
<1>20. CASE MaintainBegins(p, w)
  BY <1>10, <1>13, <1>20
<1>21. CASE \E kind \in {"none", "run"} : AcquireBegins(p, w, kind)
  BY <1>11, <1>13, <1>21
<1>22. CASE Release(p, w)
  BY <1>12, <1>13, <1>22
<1> QED BY <1>4, <1>5, <1>15, <1>16, <1>17, <1>18, <1>19, <1>20, <1>21, <1>22 DEF Command

\* What a command that begins does to the rows.
LEMMA CommandFrame ==
  ASSUME Typed, NEW p \in Proc, NEW w \in Workflow, Command(p, w)
  PROVE  /\ UNCHANGED <<attached, terminal, owned, reconciled, unclean, op, world>>
         /\ request' \in [Workflow -> Terminal \cup {None}]
         /\ \A v \in Workflow : request'[v] \in {request[v], None}
         /\ outdated' \subseteq outdated
         /\ \/ status' = status
            \/ /\ status[w] = "requested" /\ status' = [status EXCEPT ![w] = "starting"]
               /\ \A v \in Workflow : w \in After[v] => status[v] = "completed"
BY DEF Typed, Types, Command, BeginStart, ObserveTimeout, FinishBegins, ResumeBegins,
       CleanupBegins, RetryBegins, MaintainBegins, AcquireBegins, Release, CancelledAll, rows,
       world

LEMMA CommandTypes ==
  ASSUME Typed, NEW p \in Proc, NEW w \in Workflow, Command(p, w)
  PROVE  Typed'
<1>1. /\ proc' \in [Proc -> Process] /\ Bound(proc'[p])
      /\ \A q \in Proc \ {p} : proc'[q] = proc[q]
  BY CommandBegins
<1>2. status' \in [Workflow -> Active \cup Ended]
  BY CommandFrame DEF Typed, Types, Active, Ended
<1>3. Types'
  BY <1>1, <1>2, CommandFrame DEF Typed, Types, Process, world
<1> QED BY <1>1, <1>3 DEF Typed

LEMMA CrashTypes ==
  ASSUME Typed, NEW p \in Proc, Crash(p) PROVE Typed'
<1>1. proc \in [Proc -> Process] /\ \A q \in Proc : Bound(proc[q])
  BY DEF Typed, Types, Process
<1>2. /\ proc' \in [Proc -> Process] /\ Bound(proc'[p])
      /\ \A q \in Proc \ {p} : proc'[q] = proc[q]
  BY <1>1, Returns DEF Crash, Idle, Bound, Finishing
<1>3. Carried(p) \subseteq Terminal
  <2>1. proc[p].at # "idle" => proc[p].on \in Workflow
    BY <1>1 DEF Bound
  <2>2. proc[p].handle \in Terminal \cup {None} /\ owned \in [Workflow -> SUBSET Terminal]
    BY <1>1 DEF Process, Typed, Types
  <2> QED BY <2>1, <2>2 DEF Carried, At
<1>4. /\ UNCHANGED <<rows, alive, outdated>> /\ lost' = lost \cup Carried(p)
      /\ mishaps' \in 0 .. MaxMishaps
  BY LifecycleAssumption DEF Crash, Typed, Types
<1> QED BY <1>1, <1>2, <1>3, <1>4 DEF Typed, Types, rows, Process

LEMMA OutsideTypes ==
  ASSUME Typed, \/ \E t \in Terminal : AgentExits(t)
                \/ \E w \in Workflow : ClaimAges(w)
  PROVE  Typed'
<1>1. CASE \E t \in Terminal : AgentExits(t)
  BY <1>1 DEF AgentExits, Typed, Types, rows
<1>2. ASSUME NEW w \in Workflow, ClaimAges(w) PROVE Typed'
  <2>1. op' \in [Workflow -> Operation]
    BY <1>2, Ages DEF ClaimAges, Typed, Types
  <2> QED BY <1>2, <2>1 DEF ClaimAges, Typed, Types, world
<1> QED BY <1>1, <1>2

LEMMA TypedInit == Init => Typed
<1> SUFFICES ASSUME Init PROVE Typed
  OBVIOUS
<1>1. proc \in [Proc -> Process] /\ \A q \in Proc : Bound(proc[q])
  BY IdleIsProcess DEF Init, Idle, Bound, Finishing
<1>2. op \in [Workflow -> Operation]
  BY OperationsAre DEF Init
<1> QED BY <1>1, <1>2, LifecycleAssumption
        DEF Init, Typed, Types, Active, Ended, Process

LEMMA TypedNext == Typed /\ [Next]_vars => Typed'
<1> SUFFICES ASSUME Typed, [Next]_vars PROVE Typed'
  OBVIOUS
<1>1. CASE UNCHANGED vars
  BY <1>1 DEF vars, rows, world, Typed, Types
<1>2. ASSUME NEW p \in Proc, Step(p) PROVE Typed'
  BY <1>2, StartTypes, FinishTypes, OtherTypes DEF Step
<1> QED BY <1>1, <1>2, CommandTypes, CrashTypes, OutsideTypes DEF Next
-----------------------------------------------------------------------------
(* How a workflow is started, and how often. *)

Starting ==
  {"create", "attach", "claim", "activate", "activated", "undo", "close", "release", "fail"}
Starts(p) == proc[p].at \in Starting

\* All the roles before w are through; they stay so.
Reached(w) == \A v \in Workflow : w \in After[v] => status[v] = "completed"

\* A workflow that has not been reached was never started, so the retry of one
\* before it cannot bring back one that a command is still starting.
StartsInOrder ==
  /\ \A w \in Workflow :
       attached[w] \/ reconciled[w] \/ status[w] \notin {"requested", "cancelled"} => Reached(w)
  /\ \A p \in Proc : Starts(p) =>
       status[proc[p].on] \in {"starting", "cancelled"} /\ Reached(proc[p].on)

\* One command at a time starts a workflow, however often that is retried.
OneStart ==
  \A p, q \in Proc : Starts(p) /\ Starts(q) /\ proc[p].on = proc[q].on => p = q

\* What a start knows of its row until it is through or the workflow cancelled.
StartKnowsRow ==
  \A p \in Proc :
    LET w == proc[p].on IN
    /\ proc[p].at \in {"claim", "activate", "activated"} => attached[w] /\ terminal[w] # None
    /\ proc[p].at \in {"create", "attach"} /\ status[w] = "starting" => ~attached[w]
    /\ /\ proc[p].at \in {"create", "attach", "claim", "activate", "activated"}
       /\ status[w] = "starting"
       => ~reconciled[w]

\* The row of a workflow, by its status.
RowInv ==
  \A w \in Workflow :
    /\ status[w] = "requested" => ~attached[w] /\ ~reconciled[w]
    /\ status[w] = "running" => attached[w] /\ terminal[w] # None /\ ~reconciled[w]
    /\ op[w].kind = "none" <=> op[w] = NoOp
    /\ op[w] # NoOp => attached[w]
    /\ reconciled[w] => op[w] = NoOp \/ status[w] = "cancelled"

LifeInv == Typed /\ StartsInOrder /\ OneStart /\ StartKnowsRow /\ RowInv

\* A step that leaves the rows alone and starts nothing
LEMMA QuietLife ==
  ASSUME LifeInv, NEW p \in Proc, UNCHANGED <<status, attached, terminal, reconciled, op>>,
         proc'[p].at \notin Starting, \A q \in Proc \ {p} : proc'[q] = proc[q]
  PROVE  StartsInOrder' /\ OneStart' /\ StartKnowsRow' /\ RowInv'
<1>1. \A q \in Proc : proc'[q].at \in Starting => proc'[q] = proc[q]
  OBVIOUS
<1>2. StartsInOrder'
  BY <1>1 DEF LifeInv, StartsInOrder, Starts, Reached
<1>3. OneStart'
  BY <1>1 DEF LifeInv, OneStart, Starts
<1>4. StartKnowsRow'
  BY <1>1 DEF LifeInv, StartKnowsRow, Starting
<1>5. RowInv'
  BY DEF LifeInv, RowInv
<1> QED BY <1>2, <1>3, <1>4, <1>5

LEMMA OperationsDiffer ==
  /\ NoOp.kind = "none"
  /\ \A t : Claim("terminal", t) # NoOp /\ Claim("terminal", t).kind = "terminal"
  /\ Claim("activation", "none") # NoOp /\ Claim("activation", "none").kind = "activation"
BY DEF NoOp, Claim

OperationsFit ==
  \A w \in Workflow :
    /\ op[w].kind = "none" <=> op[w] = NoOp
    /\ op[w] # NoOp => attached[w]
    /\ reconciled[w] => op[w] = NoOp \/ status[w] = "cancelled"

\* What a step of p that starts nothing does to the status of a workflow.
Evolves(p, v) ==
  \/ status'[v] = status[v]
  \/ status[v] = "requested" /\ status'[v] = "cancelled"
  \/ status[v] = "running" /\ status'[v] \in Ended
  \/ status[v] = "starting" /\ status'[v] = "cancelled"
  \/ /\ status[v] = "starting" /\ status'[v] = "failed"
     /\ \A q \in Proc \ {p} : Starts(q) => proc[q].on # v

LEMMA EndsLife ==
  ASSUME LifeInv, NEW p \in Proc, proc'[p].at \notin Starting,
         \A q \in Proc \ {p} : proc'[q] = proc[q],
         UNCHANGED <<attached, terminal>>, \A v \in Workflow : Evolves(p, v),
         \A v \in Workflow :
           reconciled'[v] # reconciled[v] => attached[v] /\ status'[v] \in Ended,
         OperationsFit'
  PROVE  StartsInOrder' /\ OneStart' /\ StartKnowsRow' /\ RowInv'
<1>1. \A q \in Proc : proc'[q].at \in Starting => proc'[q] = proc[q] /\ q # p
  OBVIOUS
<1>2. \A v \in Workflow : status[v] = "completed" => status'[v] = "completed"
  BY DEF Evolves
<1>3. ASSUME NEW q \in Proc, Starts(q)'
      PROVE  /\ Starts(q) /\ proc'[q] = proc[q] /\ q # p /\ proc[q].on \in Workflow
             /\ status[proc[q].on] \in {"starting", "cancelled"} /\ Reached(proc[q].on)
  BY <1>1, <1>3 DEF LifeInv, StartsInOrder, Starts, Typed, Bound, Starting
<1>4. OneStart'
  BY <1>3 DEF LifeInv, OneStart
<1>5. StartsInOrder'
  <2>1. ASSUME NEW q \in Proc, Starts(q)'
        PROVE  status'[proc'[q].on] \in {"starting", "cancelled"} /\ Reached(proc[q].on)'
    <3>1. proc[q].on \in Workflow /\ Evolves(p, proc[q].on)
      BY <1>3, <2>1
    <3>2. status'[proc[q].on] \in {"starting", "cancelled"}
      BY <1>3, <2>1, <3>1 DEF Evolves
    <3>3. \A v \in Workflow : proc[q].on \in After[v] => status'[v] = "completed"
      BY <1>2, <1>3, <2>1 DEF Reached
    <3> QED BY <1>3, <2>1, <3>2, <3>3 DEF Reached
  <2>2. ASSUME NEW v \in Workflow,
               attached'[v] \/ reconciled'[v] \/ status'[v] \notin {"requested", "cancelled"}
        PROVE  Reached(v)'
    <3>1. attached[v] \/ reconciled[v] \/ status[v] \notin {"requested", "cancelled"}
      BY <2>2 DEF Evolves
    <3>2. Reached(v)
      BY <3>1 DEF LifeInv, StartsInOrder
    <3> QED BY <1>2, <3>2 DEF Reached
  <2> QED BY <2>1, <2>2 DEF StartsInOrder
<1>6. StartKnowsRow'
  <2> SUFFICES ASSUME NEW q \in Proc, Starts(q)'
               PROVE  LET v == proc'[q].on IN
                      /\ proc'[q].at \in {"claim", "activate", "activated"} =>
                           attached'[v] /\ terminal'[v] # None
                      /\ /\ proc'[q].at \in {"create", "attach"} /\ status'[v] = "starting"
                         => ~attached'[v]
                      /\ /\ proc'[q].at \in {"create", "attach", "claim", "activate", "activated"}
                         /\ status'[v] = "starting"
                         => ~reconciled'[v]
    BY DEF StartKnowsRow, Starts, Starting
  <2>1. /\ proc'[q] = proc[q] /\ proc[q].on \in Workflow
        /\ status'[proc[q].on] = "starting" => status[proc[q].on] = "starting"
    BY <1>3 DEF Evolves
  <2>2. status'[proc[q].on] = "starting" => reconciled'[proc[q].on] = reconciled[proc[q].on]
    BY <2>1 DEF Ended
  <2> QED BY <2>1, <2>2 DEF LifeInv, StartKnowsRow
<1>7. RowInv'
  <2> SUFFICES ASSUME NEW v \in Workflow
               PROVE  /\ status'[v] = "requested" => ~attached'[v] /\ ~reconciled'[v]
                      /\ status'[v] = "running" =>
                           attached'[v] /\ terminal'[v] # None /\ ~reconciled'[v]
    BY DEF RowInv, OperationsFit
  <2>1. status'[v] \in {"requested", "running"} => status'[v] = status[v]
    BY DEF Evolves, Ended
  <2>2. status'[v] \in {"requested", "running"} => reconciled'[v] = reconciled[v]
    BY DEF Ended
  <2> QED BY <2>1, <2>2 DEF LifeInv, RowInv
<1> QED BY <1>4, <1>5, <1>6, <1>7

LEMMA LifeStart ==
  ASSUME LifeInv, Typed', NEW p \in Proc, StartStep(p)
  PROVE  StartsInOrder' /\ OneStart' /\ StartKnowsRow' /\ RowInv'
<1> DEFINE w == proc[p].on
           t == Target(p)
<1>0. /\ proc \in [Proc -> Process] /\ \A q \in Proc : Bound(proc[q])
      /\ proc' \in [Proc -> Process] /\ \A q \in Proc : Bound(proc'[q])
  BY DEF LifeInv, Typed, Types, Process
<1>1. /\ status \in [Workflow -> Active \cup Ended] /\ attached \in [Workflow -> BOOLEAN]
      /\ terminal \in [Workflow -> Terminal \cup {None}] /\ reconciled \in [Workflow -> BOOLEAN]
      /\ op \in [Workflow -> Operation]
  BY DEF LifeInv, Typed, Types
<1>2. /\ proc[p].at # "idle" => w \in Workflow
      /\ proc[p].at \in Finishing => t \in Ended
      /\ proc[p].at \in {"attach", "replace"} => proc[p].handle # None
  BY <1>0 DEF Bound, Target, Ended
<1>3. CASE CreateExternal(p)
  <2>1. w \in Workflow
    BY <1>2, <1>3 DEF CreateExternal, At
  <2>2. /\ \A q \in Proc \ {p} : proc'[q] = proc[q]
        /\ proc[p].at = "create" /\ proc'[p].at \in {"attach", "undo"} /\ proc'[p].on = proc[p].on
        /\ UNCHANGED <<status, attached, terminal, reconciled, op>>
    BY <1>0, <2>1, <1>3, Creates DEF CreateExternal, rows, At
  <2> HIDE DEF w, t
  <2>3. \A v \in Workflow : status[v] = "completed" => status'[v] = "completed"
    BY <1>1, <1>2, <2>1, <2>2 DEF LifeInv, RowInv, Active, Ended, Finishing
  <2>4. OneStart'
    BY <2>2 DEF LifeInv, OneStart, Starts, Starting
  <2>5. StartsInOrder'
    BY <1>0, <1>1, <1>2, <2>1, <2>2, <2>3 DEF Reached, LifeInv, StartsInOrder, RowInv,
       OneStart, Starts, Starting, Bound, Active, Ended, Finishing, w
  <2>6. StartKnowsRow'
    BY <1>0, <1>1, <1>2, <2>1, <2>2, NoneIsNobody DEF LifeInv, StartKnowsRow, StartsInOrder,
       OneStart, RowInv, Starts, Starting, Bound, Active, Ended, w
  <2>7. RowInv'
    BY <2>2 DEF LifeInv, RowInv
  <2> QED BY <2>4, <2>5, <2>6, <2>7
<1>4. CASE AttachExternal(p)
  <2>1. w \in Workflow
    BY <1>2, <1>4 DEF AttachExternal, At
  <2>2. /\ \A q \in Proc \ {p} : proc'[q] = proc[q]
        /\ proc[p].at = "attach" /\ proc'[p].on = proc[p].on
        /\ \/ /\ status[w] = "starting" /\ proc'[p].at = "claim"
              /\ attached' = [attached EXCEPT ![w] = TRUE]
              /\ terminal' = [terminal EXCEPT ![w] = proc[p].handle]
           \/ proc'[p].at = "undo" /\ UNCHANGED <<attached, terminal>>
        /\ UNCHANGED <<status, reconciled, op>>
    BY <1>0, <2>1, <1>4, Goes DEF AttachExternal, MayAttach, At, Places
  <2> HIDE DEF w, t
  <2>3. \A v \in Workflow : status[v] = "completed" => status'[v] = "completed"
    BY <1>1, <1>2, <2>1, <2>2 DEF LifeInv, RowInv, Active, Ended, Finishing
  <2>4. OneStart'
    BY <2>2 DEF LifeInv, OneStart, Starts, Starting
  <2>5. StartsInOrder'
    BY <1>0, <1>1, <1>2, <2>1, <2>2, <2>3 DEF Reached, LifeInv, StartsInOrder, RowInv,
       OneStart, Starts, Starting, Bound, Active, Ended, Finishing, w
  <2>6. StartKnowsRow'
    BY <1>0, <1>1, <1>2, <2>1, <2>2, NoneIsNobody DEF LifeInv, StartKnowsRow, StartsInOrder,
       OneStart, RowInv, Starts, Starting, Bound, Active, Ended, w
  <2>7. OperationsFit'
    BY <1>0, <1>1, <1>2, <2>1, <2>2, OperationsDiffer DEF LifeInv, RowInv, OperationsFit,
       StartKnowsRow, StartsInOrder, Starts, Starting, w
  <2>8. RowInv'
    BY <1>0, <1>1, <1>2, <2>1, <2>2, <2>7, NoneIsNobody DEF LifeInv, RowInv, OperationsFit,
       StartKnowsRow, StartsInOrder, Starts, Starting, w
  <2> QED BY <2>4, <2>5, <2>6, <2>8
<1>5. CASE ClaimActivation(p)
  <2>1. w \in Workflow
    BY <1>2, <1>5 DEF ClaimActivation, At
  <2>2. /\ \A q \in Proc \ {p} : proc'[q] = proc[q]
        /\ proc[p].at = "claim" /\ proc'[p].on = proc[p].on
        /\ \/ /\ status[w] = "starting" /\ attached[w] /\ proc'[p].at = "activate"
              /\ op' = [op EXCEPT ![w] = Claim("activation", "none")]
           \/ proc'[p].at = "undo" /\ op' = op
        /\ UNCHANGED <<status, attached, terminal, reconciled>>
    BY <1>0, <2>1, <1>5, Goes DEF ClaimActivation, At, Places
  <2> HIDE DEF w, t
  <2>3. \A v \in Workflow : status[v] = "completed" => status'[v] = "completed"
    BY <1>1, <1>2, <2>1, <2>2 DEF LifeInv, RowInv, Active, Ended, Finishing
  <2>4. OneStart'
    BY <2>2 DEF LifeInv, OneStart, Starts, Starting
  <2>5. StartsInOrder'
    BY <1>0, <1>1, <1>2, <2>1, <2>2, <2>3 DEF Reached, LifeInv, StartsInOrder, RowInv,
       OneStart, Starts, Starting, Bound, Active, Ended, Finishing, w
  <2>6. StartKnowsRow'
    BY <1>0, <1>1, <1>2, <2>1, <2>2, NoneIsNobody DEF LifeInv, StartKnowsRow, StartsInOrder,
       OneStart, RowInv, Starts, Starting, Bound, Active, Ended, w
  <2>7. OperationsFit'
    BY <1>0, <1>1, <1>2, <2>1, <2>2, OperationsDiffer DEF LifeInv, RowInv, OperationsFit,
       StartKnowsRow, StartsInOrder, Starts, Starting, w
  <2>8. RowInv'
    BY <1>0, <1>1, <1>2, <2>1, <2>2, <2>7, NoneIsNobody DEF LifeInv, RowInv, OperationsFit,
       StartKnowsRow, StartsInOrder, Starts, Starting, w
  <2> QED BY <2>4, <2>5, <2>6, <2>8
<1>6. CASE Activate(p)
  <2>1. w \in Workflow
    BY <1>2, <1>6 DEF Activate, At
  <2>2. /\ \A q \in Proc \ {p} : proc'[q] = proc[q]
        /\ proc[p].at = "activate" /\ proc'[p].on = proc[p].on
        /\ \/ proc'[p].at = "activated" /\ op' = op
           \/ /\ proc'[p].at = "undo"
              /\ op' = [op EXCEPT ![w] = IF @.kind = "activation" THEN NoOp ELSE @]
        /\ UNCHANGED <<status, attached, terminal, reconciled>>
    BY <1>0, <2>1, <1>6, Goes DEF Activate, At, Places
  <2> HIDE DEF w, t
  <2>3. \A v \in Workflow : status[v] = "completed" => status'[v] = "completed"
    BY <1>1, <1>2, <2>1, <2>2 DEF LifeInv, RowInv, Active, Ended, Finishing
  <2>4. OneStart'
    BY <2>2 DEF LifeInv, OneStart, Starts, Starting
  <2>5. StartsInOrder'
    BY <1>0, <1>1, <1>2, <2>1, <2>2, <2>3 DEF Reached, LifeInv, StartsInOrder, RowInv,
       OneStart, Starts, Starting, Bound, Active, Ended, Finishing, w
  <2>6. StartKnowsRow'
    BY <1>0, <1>1, <1>2, <2>1, <2>2, NoneIsNobody DEF LifeInv, StartKnowsRow, StartsInOrder,
       OneStart, RowInv, Starts, Starting, Bound, Active, Ended, w
  <2>7. OperationsFit'
    BY <1>0, <1>1, <1>2, <2>1, <2>2, OperationsDiffer DEF LifeInv, RowInv, OperationsFit,
       StartKnowsRow, StartsInOrder, Starts, Starting, w
  <2>8. RowInv'
    BY <1>0, <1>1, <1>2, <2>1, <2>2, <2>7, NoneIsNobody DEF LifeInv, RowInv, OperationsFit,
       StartKnowsRow, StartsInOrder, Starts, Starting, w
  <2> QED BY <2>4, <2>5, <2>6, <2>8
<1>7. CASE CompleteActivation(p)
  <2>1. w \in Workflow
    BY <1>2, <1>7 DEF CompleteActivation, At
  <2>2. /\ \A q \in Proc \ {p} : proc'[q] = proc[q]
        /\ proc[p].at = "activated"
        /\ \/ /\ status[w] = "starting" /\ proc'[p].at = "idle"
              /\ status' = [status EXCEPT ![w] = "running"]
              /\ op' = [op EXCEPT ![w] = NoOp]
           \/ /\ proc'[p].at = "undo" /\ proc'[p].on = proc[p].on
              /\ UNCHANGED <<status, op>>
        /\ UNCHANGED <<attached, terminal, reconciled>>
    BY <1>0, <2>1, <1>7, Goes, Returns DEF CompleteActivation, At, Places, Idle
  <2> HIDE DEF w, t
  <2>3. \A v \in Workflow : status[v] = "completed" => status'[v] = "completed"
    BY <1>1, <1>2, <2>1, <2>2 DEF LifeInv, RowInv, Active, Ended, Finishing
  <2>4. OneStart'
    BY <2>2 DEF LifeInv, OneStart, Starts, Starting
  <2>5. StartsInOrder'
    BY <1>0, <1>1, <1>2, <2>1, <2>2, <2>3 DEF Reached, LifeInv, StartsInOrder, RowInv,
       OneStart, Starts, Starting, Bound, Active, Ended, Finishing, w
  <2>6. StartKnowsRow'
    BY <1>0, <1>1, <1>2, <2>1, <2>2, NoneIsNobody DEF LifeInv, StartKnowsRow, StartsInOrder,
       OneStart, RowInv, Starts, Starting, Bound, Active, Ended, w
  <2>7. OperationsFit'
    BY <1>0, <1>1, <1>2, <2>1, <2>2, OperationsDiffer DEF LifeInv, RowInv, OperationsFit,
       StartKnowsRow, StartsInOrder, Starts, Starting, w
  <2>8. RowInv'
    BY <1>0, <1>1, <1>2, <2>1, <2>2, <2>7, NoneIsNobody DEF LifeInv, RowInv, OperationsFit,
       StartKnowsRow, StartsInOrder, Starts, Starting, w
  <2> QED BY <2>4, <2>5, <2>6, <2>8
<1>8. CASE AttachPartialExternal(p)
  <2>1. w \in Workflow
    BY <1>2, <1>8 DEF AttachPartialExternal, At
  <2>2. /\ \A q \in Proc \ {p} : proc'[q] = proc[q]
        /\ proc[p].at = "undo" /\ proc'[p].at = "close" /\ proc'[p].on = proc[p].on
        /\ attached' = [attached EXCEPT ![w] =
                @ \/ (proc[p].goal = "known" /\ status[w] = "starting")]
        /\ UNCHANGED <<status, terminal, reconciled, op>>
    BY <1>0, <2>1, <1>8, Goes DEF AttachPartialExternal, At, Places
  <2> HIDE DEF w, t
  <2>3. \A v \in Workflow : status[v] = "completed" => status'[v] = "completed"
    BY <1>1, <1>2, <2>1, <2>2 DEF LifeInv, RowInv, Active, Ended, Finishing
  <2>4. OneStart'
    BY <2>2 DEF LifeInv, OneStart, Starts, Starting
  <2>5. StartsInOrder'
    BY <1>0, <1>1, <1>2, <2>1, <2>2, <2>3 DEF Reached, LifeInv, StartsInOrder, RowInv,
       OneStart, Starts, Starting, Bound, Active, Ended, Finishing, w
  <2>6. StartKnowsRow'
    BY <1>0, <1>1, <1>2, <2>1, <2>2, NoneIsNobody DEF LifeInv, StartKnowsRow, StartsInOrder,
       OneStart, RowInv, Starts, Starting, Bound, Active, Ended, w
  <2>7. OperationsFit'
    BY <1>0, <1>1, <1>2, <2>1, <2>2, OperationsDiffer DEF LifeInv, RowInv, OperationsFit,
       StartKnowsRow, StartsInOrder, Starts, Starting, w
  <2>8. RowInv'
    BY <1>0, <1>1, <1>2, <2>1, <2>2, <2>7, NoneIsNobody DEF LifeInv, RowInv, OperationsFit,
       StartKnowsRow, StartsInOrder, Starts, Starting, w
  <2> QED BY <2>4, <2>5, <2>6, <2>8
<1>9. CASE CloseStarted(p)
  <2>1. w \in Workflow
    BY <1>2, <1>9 DEF CloseStarted, At
  <2>2. /\ \A q \in Proc \ {p} : proc'[q] = proc[q]
        /\ proc[p].at = "close" /\ proc'[p].at \in {"release", "fail"} /\ proc'[p].on = proc[p].on
        /\ UNCHANGED <<status, attached, terminal, reconciled, op>>
    BY <1>0, <2>1, <1>9, Goes DEF CloseStarted, At, Places, rows
  <2> HIDE DEF w, t
  <2>3. \A v \in Workflow : status[v] = "completed" => status'[v] = "completed"
    BY <1>1, <1>2, <2>1, <2>2 DEF LifeInv, RowInv, Active, Ended, Finishing
  <2>4. OneStart'
    BY <2>2 DEF LifeInv, OneStart, Starts, Starting
  <2>5. StartsInOrder'
    BY <1>0, <1>1, <1>2, <2>1, <2>2, <2>3 DEF Reached, LifeInv, StartsInOrder, RowInv,
       OneStart, Starts, Starting, Bound, Active, Ended, Finishing, w
  <2>6. StartKnowsRow'
    BY <1>0, <1>1, <1>2, <2>1, <2>2, NoneIsNobody DEF LifeInv, StartKnowsRow, StartsInOrder,
       OneStart, RowInv, Starts, Starting, Bound, Active, Ended, w
  <2>7. RowInv'
    BY <2>2 DEF LifeInv, RowInv
  <2> QED BY <2>4, <2>5, <2>6, <2>7
<1>10. CASE MarkReconciled(p)
  <2>1. w \in Workflow
    BY <1>2, <1>10 DEF MarkReconciled, At
  <2>2. /\ \A q \in Proc \ {p} : proc'[q] = proc[q]
        /\ proc[p].at = "release" /\ proc'[p].at = "fail" /\ proc'[p].on = proc[p].on
        /\ reconciled' = [reconciled EXCEPT ![w] = TRUE] /\ op' = [op EXCEPT ![w] = NoOp]
        /\ UNCHANGED <<status, attached, terminal>>
    BY <1>0, <2>1, <1>10, Goes DEF MarkReconciled, At, Places
  <2> HIDE DEF w, t
  <2>3. \A v \in Workflow : status[v] = "completed" => status'[v] = "completed"
    BY <1>1, <1>2, <2>1, <2>2 DEF LifeInv, RowInv, Active, Ended, Finishing
  <2>4. OneStart'
    BY <2>2 DEF LifeInv, OneStart, Starts, Starting
  <2>5. StartsInOrder'
    BY <1>0, <1>1, <1>2, <2>1, <2>2, <2>3 DEF Reached, LifeInv, StartsInOrder, RowInv,
       OneStart, Starts, Starting, Bound, Active, Ended, Finishing, w
  <2>6. StartKnowsRow'
    BY <1>0, <1>1, <1>2, <2>1, <2>2, NoneIsNobody DEF LifeInv, StartKnowsRow, StartsInOrder,
       OneStart, RowInv, Starts, Starting, Bound, Active, Ended, w
  <2>7. OperationsFit'
    BY <1>0, <1>1, <1>2, <2>1, <2>2, OperationsDiffer DEF LifeInv, RowInv, OperationsFit,
       StartKnowsRow, StartsInOrder, Starts, Starting, w
  <2>8. RowInv'
    BY <1>0, <1>1, <1>2, <2>1, <2>2, <2>7, NoneIsNobody DEF LifeInv, RowInv, OperationsFit,
       StartKnowsRow, StartsInOrder, Starts, Starting, w
  <2> QED BY <2>4, <2>5, <2>6, <2>8
<1>11. CASE FailStart(p)
  <2>1. w \in Workflow
    BY <1>2, <1>11 DEF FailStart, At
  <2>2. /\ \A q \in Proc \ {p} : proc'[q] = proc[q]
        /\ proc[p].at = "fail" /\ proc'[p].at \in {"successors", "idle"}
        /\ \/ status[w] = "starting" /\ status' = [status EXCEPT ![w] = "failed"]
           \/ status' = status
        /\ UNCHANGED <<attached, terminal, reconciled, op>>
    BY <1>0, <2>1, <1>11, Goes, Returns DEF FailStart, At, Places, Idle
  <2> HIDE DEF w, t
  <2>0. \A q \in Proc \ {p} : Starts(q) => proc[q].on # w
    BY <2>2 DEF LifeInv, OneStart, Starts, Starting, w
  <2>3. \A v \in Workflow : Evolves(p, v)
    BY <1>1, <1>2, <2>1, <2>2, <2>0 DEF Evolves, Ended, Active, Finishing
  <2>4. \A v \in Workflow : reconciled'[v] # reconciled[v] =>
          attached[v] /\ status'[v] \in Ended
    BY <1>1, <2>1, <2>2 DEF Ended, Active
  <2>5. OperationsFit'
    BY <1>0, <1>1, <1>2, <2>1, <2>2, OperationsDiffer DEF LifeInv, RowInv, OperationsFit,
       Ended, Active, Finishing
  <2> QED BY <2>3, <2>4, <2>5, <2>2, EndsLife DEF Starting
<1>12. CASE CancelSuccessors(p)
  <2>1. w \in Workflow
    BY <1>2, <1>12 DEF CancelSuccessors, At
  <2>2. /\ \A q \in Proc \ {p} : proc'[q] = proc[q]
        /\ proc[p].at = "successors" /\ proc'[p].at = "cancel"
        /\ status' = WithRoles(w, status[w])
        /\ UNCHANGED <<attached, terminal, reconciled, op>>
    BY <1>0, <1>1, <2>1, <1>12, Rereads DEF CancelSuccessors, At, Places
  <2> HIDE DEF w, t
  <2>3. \A v \in Workflow : Evolves(p, v)
    BY <1>1, <1>2, <2>1, <2>2, RolesEnd DEF Evolves, Ended, Active, Finishing
  <2>4. \A v \in Workflow : reconciled'[v] # reconciled[v] =>
          attached[v] /\ status'[v] \in Ended
    BY <1>1, <2>1, <2>2, RolesEnd DEF Ended, Active
  <2>5. \A v \in Workflow : status'[v] \in {status[v], "cancelled"}
    BY <1>1, <2>1, <2>2, RolesEnd
  <2>6. OperationsFit'
    BY <2>2, <2>5 DEF LifeInv, RowInv, OperationsFit
  <2> QED BY <2>3, <2>4, <2>6, <2>2, EndsLife DEF Starting
<1>13. CASE CancelOwnedRequests(p)
  <2>1. w \in Workflow
    BY <1>2, <1>13 DEF CancelOwnedRequests, At
  <2>2. /\ \A q \in Proc \ {p} : proc'[q] = proc[q]
        /\ proc'[p].at = "idle"
        /\ UNCHANGED <<status, attached, terminal, reconciled, op>>
    BY <1>0, <2>1, <1>13, Returns DEF CancelOwnedRequests, Idle
  <2> QED BY <2>2, QuietLife DEF Starting
<1> QED BY <1>3, <1>4, <1>5, <1>6, <1>7, <1>8, <1>9, <1>10, <1>11, <1>12, <1>13 DEF StartStep

LEMMA LifeFinish ==
  ASSUME LifeInv, Typed', NEW p \in Proc, FinishStep(p)
  PROVE  StartsInOrder' /\ OneStart' /\ StartKnowsRow' /\ RowInv'
<1> DEFINE w == proc[p].on
           t == Target(p)
<1>0. /\ proc \in [Proc -> Process] /\ \A q \in Proc : Bound(proc[q])
      /\ proc' \in [Proc -> Process] /\ \A q \in Proc : Bound(proc'[q])
  BY DEF LifeInv, Typed, Types, Process
<1>1. /\ status \in [Workflow -> Active \cup Ended] /\ attached \in [Workflow -> BOOLEAN]
      /\ terminal \in [Workflow -> Terminal \cup {None}] /\ reconciled \in [Workflow -> BOOLEAN]
      /\ op \in [Workflow -> Operation]
  BY DEF LifeInv, Typed, Types
<1>2. /\ proc[p].at # "idle" => w \in Workflow
      /\ proc[p].at \in Finishing => t \in Ended
      /\ proc[p].at \in {"attach", "replace"} => proc[p].handle # None
  BY <1>0 DEF Bound, Target, Ended
<1>3. CASE ClaimTerminal(p)
  <2>1. w \in Workflow
    BY <1>2, <1>3 DEF ClaimTerminal, At
  <2>2. /\ \A q \in Proc \ {p} : proc'[q] = proc[q]
        /\ proc[p].at = "timing" /\ proc'[p].at \in {"update", "first", "early"}
        /\ \/ /\ op[w].kind = "terminal" /\ op' = [op EXCEPT ![w] = IF @.error THEN Claim("terminal", t) ELSE @]
              /\ status' = status
           \/ /\ status[w] = "running" /\ op' = [op EXCEPT ![w] = Claim("terminal", t)]
              /\ status' = status
           \/ /\ status[w] \in {"requested", "starting"} /\ status' = WithRoles(w, "cancelled")
              /\ op' = [op EXCEPT ![w] = IF attached[w] THEN Claim("terminal", t) ELSE @]
        /\ UNCHANGED <<attached, terminal, reconciled>>
    BY <1>0, <1>1, <2>1, <1>3, Rereads DEF ClaimTerminal, At, Places, NeedsOrca
  <2> HIDE DEF w, t
  <2>3. \A v \in Workflow : Evolves(p, v)
    BY <1>1, <1>2, <2>1, <2>2, RolesEnd DEF Evolves, Ended, Active, Finishing
  <2>4. \A v \in Workflow : reconciled'[v] # reconciled[v] =>
          attached[v] /\ status'[v] \in Ended
    BY <1>1, <2>1, <2>2, RolesEnd DEF Ended, Active
  <2>5. OperationsFit'
    BY <1>0, <1>1, <1>2, <2>1, <2>2, OperationsDiffer, RolesEnd DEF LifeInv, RowInv,
       OperationsFit, Ended, Active, Finishing
  <2> QED BY <2>3, <2>4, <2>5, <2>2, EndsLife DEF Starting
<1>4. CASE FinishRefused(p)
  <2>1. w \in Workflow
    BY <1>2, <1>4 DEF FinishRefused, At
  <2>2. /\ \A q \in Proc \ {p} : proc'[q] = proc[q]
        /\ proc'[p].at = "idle"
        /\ UNCHANGED <<status, attached, terminal, reconciled, op>>
    BY <1>0, <2>1, <1>4, Returns DEF FinishRefused, Idle, rows
  <2> QED BY <2>2, QuietLife DEF Starting
<1>5. CASE CancelFirst(p)
  <2>1. w \in Workflow
    BY <1>2, <1>5 DEF CancelFirst, At
  <2>2. /\ \A q \in Proc \ {p} : proc'[q] = proc[q]
        /\ proc'[p].at \in {"update", "tidy"}
        /\ UNCHANGED <<status, attached, terminal, reconciled, op>>
    BY <1>0, <2>1, <1>5, Goes DEF CancelFirst, Places
  <2> QED BY <2>2, QuietLife DEF Starting
<1>6. CASE UpdateExternal(p)
  <2>1. w \in Workflow
    BY <1>2, <1>6 DEF UpdateExternal, At
  <2>2. /\ \A q \in Proc \ {p} : proc'[q] = proc[q]
        /\ proc'[p].at \in {"complete", "idle"}
        /\ op' = op \/ op' = [op EXCEPT ![w].error = @ \/ op[w].kind = "terminal"]
        /\ UNCHANGED <<status, attached, terminal, reconciled>>
    BY <1>0, <2>1, <1>6, Goes, Returns DEF UpdateExternal, Places, Idle
  <2> HIDE DEF w, t
  <2>3. \A v \in Workflow : Evolves(p, v)
    BY <1>1, <1>2, <2>1, <2>2 DEF Evolves, Ended, Active, Finishing
  <2>4. \A v \in Workflow : reconciled'[v] # reconciled[v] =>
          attached[v] /\ status'[v] \in Ended
    BY <1>1, <2>1, <2>2 DEF Ended, Active
  <2>5. OperationsFit'
    BY <1>0, <1>1, <1>2, <2>1, <2>2, OperationsDiffer, NotesError DEF LifeInv, RowInv,
       OperationsFit, Ended, Active, Finishing
  <2> QED BY <2>3, <2>4, <2>5, <2>2, EndsLife DEF Starting
<1>7. CASE CompleteTerminal(p)
  <2>1. w \in Workflow
    BY <1>2, <1>7 DEF CompleteTerminal, At
  <2>0. t \in Ended
    BY <1>2, <1>7 DEF CompleteTerminal, At, Finishing
  <2>a. Return(p) \/ Go(p, "tidy")
    BY <1>7 DEF CompleteTerminal
  <2>b. /\ \A q \in Proc \ {p} : proc'[q] = proc[q]
        /\ proc'[p].at \in {"tidy", "idle"}
    BY <1>0, <2>a, Goes, Returns DEF Places, Idle
  <2>2. /\ \/ /\ status[w] = "running" \/ (status[w] = "cancelled" /\ t = "cancelled")
              /\ op[w].kind = "terminal" /\ op[w].target = t
              /\ op' = [op EXCEPT ![w] = NoOp]
              /\ \/ t = "completed" /\ status' = [status EXCEPT ![w] = t]
                 \/ status' = WithFollowers(w, t)
           \/ UNCHANGED <<status, op>>
        /\ UNCHANGED <<attached, terminal, reconciled>>
    BY <1>7 DEF CompleteTerminal, IsClaimOf
  <2> HIDE DEF w, t
  <2>3. \A v \in Workflow : /\ Evolves(p, v)
                            /\ v # w => status'[v] \in {status[v], "cancelled"}
    <3>1. CASE UNCHANGED <<status, op>>
      BY <3>1 DEF Evolves
    <3>2. CASE status[w] = "running" /\ status' = [status EXCEPT ![w] = t]
      BY <1>1, <2>0, <2>1, <3>2 DEF Evolves
    <3>3. CASE status' = WithFollowers(w, t) /\ (status[w] = "running" \/ status[w] = t)
      BY <1>1, <2>0, <2>1, <3>3, FollowersEnd DEF Evolves
    <3>4. CASE t = "completed" /\ status' = [status EXCEPT ![w] = t] /\ status[w] = "cancelled"
               /\ t = "cancelled"
      BY <3>4
    <3> QED BY <2>2, <3>1, <3>2, <3>3, <3>4
  <2>4. \A v \in Workflow : reconciled'[v] # reconciled[v] =>
          attached[v] /\ status'[v] \in Ended
    BY <2>2
  <2>5. OperationsFit'
    <3>1. \A v \in Workflow : v # w => op'[v] = op[v]
      BY <1>1, <2>2
    <3>2. op'[w] = NoOp \/ (op'[w] = op[w] /\ status' = status)
      BY <1>1, <2>1, <2>2
    <3> QED BY <2>2, <2>3, <3>1, <3>2, OperationsDiffer DEF LifeInv, RowInv, OperationsFit
  <2>6. \A v \in Workflow : Evolves(p, v)
    BY <2>3
  <2> QED BY <2>2, <2>b, <2>4, <2>5, <2>6, EndsLife DEF Starting
<1>8. CASE Tidy(p)
  <2>1. w \in Workflow
    BY <1>2, <1>8 DEF Tidy, At
  <2>2. /\ \A q \in Proc \ {p} : proc'[q] = proc[q]
        /\ proc'[p].at = "finalize"
        /\ status' = status \/ status' = WithRoles(w, status[w])
        /\ UNCHANGED <<attached, terminal, reconciled, op>>
    BY <1>0, <1>1, <2>1, <1>8, Rereads DEF Tidy, Places
  <2> HIDE DEF w, t
  <2>3. \A v \in Workflow : Evolves(p, v)
    BY <1>1, <1>2, <2>1, <2>2, RolesEnd DEF Evolves, Ended, Active, Finishing
  <2>4. \A v \in Workflow : reconciled'[v] # reconciled[v] =>
          attached[v] /\ status'[v] \in Ended
    BY <1>1, <2>1, <2>2, RolesEnd DEF Ended, Active
  <2>5. \A v \in Workflow : status'[v] \in {status[v], "cancelled"}
    BY <1>1, <2>1, <2>2, RolesEnd
  <2>6. OperationsFit'
    BY <2>2, <2>5 DEF LifeInv, RowInv, OperationsFit
  <2> QED BY <2>3, <2>4, <2>6, <2>2, EndsLife DEF Starting
<1>9. CASE CancelFinally(p)
  <2>1. w \in Workflow
    BY <1>2, <1>9 DEF CancelFinally, At
  <2>2. /\ \A q \in Proc \ {p} : proc'[q] = proc[q]
        /\ proc'[p].at = "shut"
        /\ UNCHANGED <<status, attached, terminal, reconciled, op>>
    BY <1>0, <2>1, <1>9, Goes DEF CancelFinally, Places
  <2> QED BY <2>2, QuietLife DEF Starting
<1>10. CASE CloseFinished(p)
  <2>1. w \in Workflow
    BY <1>2, <1>10 DEF CloseFinished, At
  <2>2. /\ \A q \in Proc \ {p} : proc'[q] = proc[q]
        /\ proc'[p].at = "idle"
        /\ \/ /\ w \in Guest /\ status[w] \in {"failed", "cancelled"} /\ attached[w]
              /\ reconciled' = [reconciled EXCEPT ![w] = TRUE] /\ op' = [op EXCEPT ![w] = NoOp]
           \/ UNCHANGED <<reconciled, op>>
        /\ UNCHANGED <<status, attached, terminal>>
    BY <1>0, <2>1, <1>10, Returns DEF CloseFinished, Idle
  <2> HIDE DEF w, t
  <2>3. \A v \in Workflow : Evolves(p, v)
    BY <1>1, <1>2, <2>1, <2>2 DEF Evolves, Ended, Active, Finishing
  <2>4. \A v \in Workflow : reconciled'[v] # reconciled[v] =>
          attached[v] /\ status'[v] \in Ended
    BY <1>1, <2>1, <2>2 DEF Ended, Active
  <2>5. OperationsFit'
    BY <1>0, <1>1, <1>2, <2>1, <2>2, OperationsDiffer DEF LifeInv, RowInv, OperationsFit,
       Ended, Active, Finishing
  <2> QED BY <2>3, <2>4, <2>5, <2>2, EndsLife DEF Starting
<1> QED BY <1>3, <1>4, <1>5, <1>6, <1>7, <1>8, <1>9, <1>10 DEF FinishStep

LEMMA LifeOther ==
  ASSUME LifeInv, Typed', NEW p \in Proc, OtherStep(p)
  PROVE  StartsInOrder' /\ OneStart' /\ StartKnowsRow' /\ RowInv'
<1> DEFINE w == proc[p].on
           t == Target(p)
<1>0. /\ proc \in [Proc -> Process] /\ \A q \in Proc : Bound(proc[q])
      /\ proc' \in [Proc -> Process] /\ \A q \in Proc : Bound(proc'[q])
  BY DEF LifeInv, Typed, Types, Process
<1>1. /\ status \in [Workflow -> Active \cup Ended] /\ attached \in [Workflow -> BOOLEAN]
      /\ terminal \in [Workflow -> Terminal \cup {None}] /\ reconciled \in [Workflow -> BOOLEAN]
      /\ op \in [Workflow -> Operation]
  BY DEF LifeInv, Typed, Types
<1>2. /\ proc[p].at # "idle" => w \in Workflow
      /\ proc[p].at \in Finishing => t \in Ended
      /\ proc[p].at \in {"attach", "replace"} => proc[p].handle # None
  BY <1>0 DEF Bound, Target, Ended
<1>3. CASE MarkResumed(p)
  <2>1. w \in Workflow
    BY <1>2, <1>3 DEF MarkResumed, At
  <2>2. /\ \A q \in Proc \ {p} : proc'[q] = proc[q]
        /\ proc'[p].at \in {"launch", "idle"}
        /\ UNCHANGED <<status, attached, terminal, reconciled, op>>
    BY <1>0, <2>1, <1>3, Goes, Returns DEF MarkResumed, Places, Idle, rows
  <2> QED BY <2>2, QuietLife DEF Starting
<1>4. CASE LaunchAgent(p)
  <2>1. w \in Workflow
    BY <1>2, <1>4 DEF LaunchAgent, At
  <2>a. Return(p) \/ \E h \in Terminal : proc' = [proc EXCEPT ![p].at = "replace", ![p].handle = h]
    BY <1>4 DEF LaunchAgent
  <2>b. /\ \A q \in Proc \ {p} : proc'[q] = proc[q]
        /\ proc'[p].at \in {"replace", "idle"}
    <3>1. CASE Return(p)
      BY <1>0, <3>1, Returns DEF Idle
    <3>2. ASSUME NEW h \in Terminal, proc' = [proc EXCEPT ![p].at = "replace", ![p].handle = h]
          PROVE  /\ \A q \in Proc \ {p} : proc'[q] = proc[q]
                 /\ proc'[p].at \in {"replace", "idle"}
      BY <1>0, <3>2, Makes DEF Places
    <3> QED BY <2>a, <3>1, <3>2
  <2>2. /\ UNCHANGED <<status, attached, terminal, reconciled, op>>
    BY <1>4 DEF LaunchAgent, Places, Idle, rows
  <2> QED BY <2>2, <2>b, QuietLife DEF Starting
<1>5. CASE ReplaceAgent(p)
  <2>1. w \in Workflow
    BY <1>2, <1>5 DEF ReplaceAgent, At
  <2>2. /\ \A q \in Proc \ {p} : proc'[q] = proc[q]
        /\ proc[p].at = "replace" /\ proc'[p].at \in {"idle", "remark", "discard"}
        /\ terminal' = terminal \/ terminal' = [terminal EXCEPT ![w] = proc[p].handle]
        /\ UNCHANGED <<status, attached, reconciled, op>>
    BY <1>0, <2>1, <1>5, Goes, Returns DEF ReplaceAgent, At, Places, Idle
  <2> HIDE DEF w, t
  <2>3. \A v \in Workflow : status[v] = "completed" => status'[v] = "completed"
    BY <1>1, <1>2, <2>1, <2>2 DEF LifeInv, RowInv, Active, Ended, Finishing
  <2>4. OneStart'
    BY <2>2 DEF LifeInv, OneStart, Starts, Starting
  <2>5. StartsInOrder'
    BY <1>0, <1>1, <1>2, <2>1, <2>2, <2>3 DEF Reached, LifeInv, StartsInOrder, RowInv,
       OneStart, Starts, Starting, Bound, Active, Ended, Finishing, w
  <2>6. StartKnowsRow'
    BY <1>0, <1>1, <1>2, <2>1, <2>2, NoneIsNobody DEF LifeInv, StartKnowsRow, StartsInOrder,
       OneStart, RowInv, Starts, Starting, Bound, Active, Ended, w
  <2>7. OperationsFit'
    BY <1>0, <1>1, <1>2, <2>1, <2>2, OperationsDiffer DEF LifeInv, RowInv, OperationsFit,
       StartKnowsRow, StartsInOrder, Starts, Starting, w
  <2>8. RowInv'
    BY <1>0, <1>1, <1>2, <2>1, <2>2, <2>7, NoneIsNobody DEF LifeInv, RowInv, OperationsFit,
       StartKnowsRow, StartsInOrder, Starts, Starting, w
  <2> QED BY <2>4, <2>5, <2>6, <2>8
<1>6. CASE DiscardAgent(p)
  <2>1. w \in Workflow
    BY <1>2, <1>6 DEF DiscardAgent, At
  <2>2. /\ \A q \in Proc \ {p} : proc'[q] = proc[q]
        /\ proc'[p].at = "idle"
        /\ UNCHANGED <<status, attached, terminal, reconciled, op>>
    BY <1>0, <2>1, <1>6, Returns DEF DiscardAgent, Idle, rows
  <2> QED BY <2>2, QuietLife DEF Starting
<1>7. CASE CloseCompleted(p)
  <2>1. w \in Workflow
    BY <1>2, <1>7 DEF CloseCompleted, At
  <2>a. Return(p) \/ proc' = [proc EXCEPT ![p].at = "cancel", ![p].handle = terminal[proc[p].on]]
    BY <1>7 DEF CloseCompleted
  <2>b. /\ \A q \in Proc \ {p} : proc'[q] = proc[q]
        /\ proc'[p].at \in {"cancel", "idle"}
    <3>1. CASE Return(p)
      BY <1>0, <3>1, Returns DEF Idle
    <3>2. CASE proc' = [proc EXCEPT ![p].at = "cancel", ![p].handle = terminal[proc[p].on]]
      BY <1>0, <1>1, <2>1, <3>2, Rereads DEF Places
    <3> QED BY <2>a, <3>1, <3>2
  <2>2. /\ UNCHANGED <<status, attached, terminal, reconciled, op>>
    BY <1>7 DEF CloseCompleted, Places, Idle
  <2> QED BY <2>2, <2>b, QuietLife DEF Starting
<1>8. CASE TakeOver(p)
  <2>1. w \in Workflow
    BY <1>2, <1>8 DEF TakeOver, At
  <2>2. /\ \A q \in Proc \ {p} : proc'[q] = proc[q]
        /\ proc'[p].at \in {"closeStale", "idle"}
        /\ \/ /\ attached[w] /\ ~reconciled[w] /\ status[w] # "completed"
              /\ op' = [op EXCEPT ![w] = Claim("terminal", "cancelled")]
           \/ op' = op
        /\ UNCHANGED <<status, attached, terminal, reconciled>>
    BY <1>0, <2>1, <1>8, Goes, Returns DEF TakeOver, Places, Idle
  <2> HIDE DEF w, t
  <2>3. \A v \in Workflow : Evolves(p, v)
    BY <1>1, <1>2, <2>1, <2>2 DEF Evolves, Ended, Active, Finishing
  <2>4. \A v \in Workflow : reconciled'[v] # reconciled[v] =>
          attached[v] /\ status'[v] \in Ended
    BY <1>1, <2>1, <2>2 DEF Ended, Active
  <2>5. OperationsFit'
    BY <1>0, <1>1, <1>2, <2>1, <2>2, OperationsDiffer DEF LifeInv, RowInv, OperationsFit,
       Ended, Active, Finishing
  <2> QED BY <2>3, <2>4, <2>5, <2>2, EndsLife DEF Starting
<1>9. CASE CloseStale(p)
  <2>1. w \in Workflow
    BY <1>2, <1>9 DEF CloseStale, At
  <2>2. /\ \A q \in Proc \ {p} : proc'[q] = proc[q]
        /\ proc'[p].at \in {"releaseStale", "idle"}
        /\ op' = op \/ op' = [op EXCEPT ![w].error = @ \/ op[w].kind = "terminal"]
        /\ UNCHANGED <<status, attached, terminal, reconciled>>
    BY <1>0, <2>1, <1>9, Goes, Returns DEF CloseStale, Places, Idle
  <2> HIDE DEF w, t
  <2>3. \A v \in Workflow : Evolves(p, v)
    BY <1>1, <1>2, <2>1, <2>2 DEF Evolves, Ended, Active, Finishing
  <2>4. \A v \in Workflow : reconciled'[v] # reconciled[v] =>
          attached[v] /\ status'[v] \in Ended
    BY <1>1, <2>1, <2>2 DEF Ended, Active
  <2>5. OperationsFit'
    BY <1>0, <1>1, <1>2, <2>1, <2>2, OperationsDiffer, NotesError DEF LifeInv, RowInv,
       OperationsFit, Ended, Active, Finishing
  <2> QED BY <2>3, <2>4, <2>5, <2>2, EndsLife DEF Starting
<1>10. CASE ReleaseStale(p)
  <2>1. w \in Workflow
    BY <1>2, <1>10 DEF ReleaseStale, At
  <2>a. Return(p) \/ proc' = [proc EXCEPT ![p].at = "cancel", ![p].handle = terminal[proc[p].on]]
    BY <1>10 DEF ReleaseStale
  <2>b. /\ \A q \in Proc \ {p} : proc'[q] = proc[q]
        /\ proc'[p].at \in {"cancel", "idle"}
    <3>1. CASE Return(p)
      BY <1>0, <3>1, Returns DEF Idle
    <3>2. CASE proc' = [proc EXCEPT ![p].at = "cancel", ![p].handle = terminal[proc[p].on]]
      BY <1>0, <1>1, <2>1, <3>2, Rereads DEF Places
    <3> QED BY <2>a, <3>1, <3>2
  <2>2. /\ \/ /\ attached[w] /\ status[w] # "completed" /\ op' = [op EXCEPT ![w] = NoOp]
              /\ \/ status[w] \in Active /\ status' = WithRoles(w, "cancelled")
                 \/ status[w] \notin Active /\ status' = status
              /\ reconciled' = [reconciled EXCEPT ![w] = TRUE]
           \/ UNCHANGED <<status, reconciled, op>>
        /\ UNCHANGED <<attached, terminal>>
    BY <1>10 DEF ReleaseStale, Places, Idle
  <2> HIDE DEF w, t
  <2>3. \A v \in Workflow : Evolves(p, v)
    BY <1>1, <1>2, <2>1, <2>2, <2>b, RolesEnd DEF Evolves, Ended, Active, Finishing
  <2>4. \A v \in Workflow : reconciled'[v] # reconciled[v] =>
          attached[v] /\ status'[v] \in Ended
    BY <1>1, <2>1, <2>2, <2>b, RolesEnd DEF Ended, Active
  <2>5. OperationsFit'
    BY <1>0, <1>1, <1>2, <2>1, <2>2, <2>b, OperationsDiffer, RolesEnd DEF LifeInv, RowInv,
       OperationsFit, Ended, Active, Finishing
  <2> QED BY <2>3, <2>4, <2>5, <2>2, <2>b, EndsLife DEF Starting
<1>11. CASE CancelStale(p)
  <2>1. w \in Workflow
    BY <1>2, <1>11 DEF CancelStale, At
  <2>2. /\ \A q \in Proc \ {p} : proc'[q] = proc[q]
        /\ proc'[p].at \in {"successors", "idle"}
        /\ \/ status[w] \in Active /\ status' = [status EXCEPT ![w] = "cancelled"]
           \/ status' = status
        /\ UNCHANGED <<attached, terminal, reconciled, op>>
    BY <1>0, <2>1, <1>11, Goes, Returns DEF CancelStale, Places, Idle
  <2> HIDE DEF w, t
  <2>3. \A v \in Workflow : Evolves(p, v)
    BY <1>1, <1>2, <2>1, <2>2 DEF Evolves, Ended, Active, Finishing
  <2>4. \A v \in Workflow : reconciled'[v] # reconciled[v] =>
          attached[v] /\ status'[v] \in Ended
    BY <1>1, <2>1, <2>2 DEF Ended, Active
  <2>5. OperationsFit'
    BY <1>0, <1>1, <1>2, <2>1, <2>2, OperationsDiffer DEF LifeInv, RowInv, OperationsFit,
       Ended, Active, Finishing
  <2> QED BY <2>3, <2>4, <2>5, <2>2, EndsLife DEF Starting
<1>12. CASE RetryFailed(p)
  <2>1. w \in Workflow
    BY <1>2, <1>12 DEF RetryFailed, At
  <2>2. /\ \A q \in Proc \ {p} : proc'[q] = proc[q]
        /\ proc'[p].at = "idle"
        /\ \/ /\ status[w] = "failed" /\ (attached[w] => reconciled[w])
              /\ status' = [v \in Workflow |->
                   IF v = w \/ (v \in After[w] /\ status[v] = "cancelled") THEN "requested"
                   ELSE status[v]]
              /\ attached' = [attached EXCEPT ![w] = FALSE]
              /\ terminal' = [terminal EXCEPT ![w] = None]
              /\ reconciled' = [reconciled EXCEPT ![w] = FALSE]
           \/ UNCHANGED <<status, attached, terminal, reconciled>>
        /\ op' = op
    BY <1>0, <2>1, <1>12, Returns DEF RetryFailed, Retriable, Idle
  <2> HIDE DEF w, t
  <2>3. \A v \in Workflow : status[v] = "completed" => status'[v] = "completed"
    <3>1. ASSUME NEW v \in Workflow, status[v] = "completed" PROVE status'[v] = "completed"
      BY <2>1, <2>2, <3>1
    <3> QED BY <3>1
  <2>4. OneStart'
    BY <2>2 DEF LifeInv, OneStart, Starts, Starting
  <2>r. CASE UNCHANGED <<status, attached, terminal, reconciled>>
    BY <2>2, <2>r, QuietLife DEF Starting
  <2>s. CASE ~UNCHANGED <<status, attached, terminal, reconciled>>
    <3>1. status[w] = "failed" /\ op[w] = NoOp
      BY <1>1, <2>1, <2>2, <2>s DEF LifeInv, RowInv
    <3>2. ASSUME NEW v \in Workflow, status[v] # "completed", NEW x \in After[v]
          PROVE  ~attached[x] /\ ~reconciled[x] /\ \A q \in Proc : Starts(q) => proc[q].on # x
      BY <3>2, LifecycleAssumption DEF LifeInv, StartsInOrder, Reached
    <3>3. \A q \in Proc : Starts(q) => proc[q].on # w
      BY <3>1 DEF LifeInv, StartsInOrder
    <3>4. \A v \in Workflow \ {w} : status'[v] # status[v] =>
            v \in After[w] /\ status[v] = "cancelled" /\ status'[v] = "requested"
      BY <2>2, <2>s
    <3>5. ASSUME NEW q \in Proc, Starts(q)'
          PROVE  /\ Starts(q) /\ proc'[q] = proc[q] /\ proc[q].on \in Workflow \ {w}
                 /\ status'[proc[q].on] = status[proc[q].on]
                 /\ attached'[proc[q].on] = attached[proc[q].on]
                 /\ terminal'[proc[q].on] = terminal[proc[q].on]
                 /\ reconciled'[proc[q].on] = reconciled[proc[q].on]
      <4>1. Starts(q) /\ proc'[q] = proc[q] /\ proc[q].on \in Workflow
        BY <1>0, <2>2, <3>5 DEF Starts, Starting, Bound
      <4>2. proc[q].on # w /\ proc[q].on \notin After[w]
        BY <2>1, <3>1, <3>2, <3>3, <4>1
      <4> QED BY <1>1, <2>1, <2>2, <2>s, <3>4, <4>1, <4>2
    <3>6. StartsInOrder'
      <4>1. ASSUME NEW q \in Proc, Starts(q)'
            PROVE  status'[proc'[q].on] \in {"starting", "cancelled"} /\ Reached(proc[q].on)'
        BY <2>3, <3>5, <4>1 DEF LifeInv, StartsInOrder, Reached
      <4>2. ASSUME NEW v \in Workflow,
                   attached'[v] \/ reconciled'[v] \/ status'[v] \notin {"requested", "cancelled"}
            PROVE  Reached(v)'
        <5>1. v # w
          BY <1>1, <2>1, <2>2, <2>s, <4>2
        <5>2. attached[v] \/ reconciled[v] \/ status[v] \notin {"requested", "cancelled"}
          BY <1>1, <2>1, <2>2, <2>s, <4>2, <5>1
        <5> QED BY <2>3, <5>2 DEF LifeInv, StartsInOrder, Reached
      <4> QED BY <4>1, <4>2 DEF StartsInOrder
    <3>7. StartKnowsRow'
      BY <3>5 DEF LifeInv, StartKnowsRow, Starts, Starting
    <3>8. RowInv'
      <4> SUFFICES ASSUME NEW v \in Workflow
                   PROVE  /\ status'[v] = "requested" => ~attached'[v] /\ ~reconciled'[v]
                          /\ status'[v] = "running" =>
                               attached'[v] /\ terminal'[v] # None /\ ~reconciled'[v]
                          /\ op'[v].kind = "none" <=> op'[v] = NoOp
                          /\ op'[v] # NoOp => attached'[v]
                          /\ reconciled'[v] => op'[v] = NoOp \/ status'[v] = "cancelled"
        BY DEF RowInv
      <4>1. CASE v = w
        BY <1>1, <2>1, <2>2, <2>s, <3>1, <4>1, OperationsDiffer
      <4>2. CASE v # w /\ status'[v] = status[v]
        BY <1>1, <2>1, <2>2, <2>s, <4>2 DEF LifeInv, RowInv
      <4>3. CASE v # w /\ status'[v] # status[v]
        <5>1. v \in After[w] /\ status[v] = "cancelled" /\ status'[v] = "requested"
          BY <3>4, <4>3
        <5>2. ~attached[v] /\ ~reconciled[v]
          BY <2>1, <3>1, <3>2, <5>1
        <5>3. attached'[v] = attached[v] /\ reconciled'[v] = reconciled[v] /\ op'[v] = op[v]
          BY <1>1, <2>1, <2>2, <2>s, <4>3
        <5> QED BY <5>1, <5>2, <5>3 DEF LifeInv, RowInv
      <4> QED BY <4>1, <4>2, <4>3
    <3> QED BY <2>4, <3>6, <3>7, <3>8
  <2> QED BY <2>r, <2>s
<1>13. CASE MaintainCancels(p)
  <2>1. w \in Workflow
    BY <1>2, <1>13 DEF MaintainCancels, At
  <2>2. /\ \A q \in Proc \ {p} : proc'[q] = proc[q]
        /\ proc'[p].at = "idle"
        /\ UNCHANGED <<status, attached, terminal, reconciled, op>>
    BY <1>0, <2>1, <1>13, Returns DEF MaintainCancels, Idle
  <2> QED BY <2>2, QuietLife DEF Starting
<1>14. CASE Acquire(p)
  <2>1. w \in Workflow
    BY <1>2, <1>14 DEF Acquire, At
  <2>2. /\ \A q \in Proc \ {p} : proc'[q] = proc[q]
        /\ proc'[p].at \in {"recheck", "idle"}
        /\ UNCHANGED <<status, attached, terminal, reconciled, op>>
    BY <1>0, <2>1, <1>14, Goes, Returns DEF Acquire, Places, Idle
  <2> QED BY <2>2, QuietLife DEF Starting
<1>15. CASE RecheckOwner(p)
  <2>1. w \in Workflow
    BY <1>2, <1>15 DEF RecheckOwner, At
  <2>2. /\ \A q \in Proc \ {p} : proc'[q] = proc[q]
        /\ proc'[p].at \in {"remark", "idle"}
        /\ UNCHANGED <<status, attached, terminal, reconciled, op>>
    BY <1>0, <2>1, <1>15, Goes, Returns DEF RecheckOwner, Places, Idle
  <2> QED BY <2>2, QuietLife DEF Starting
<1> QED BY <1>3, <1>4, <1>5, <1>6, <1>7, <1>8, <1>9, <1>10, <1>11, <1>12, <1>13, <1>14, <1>15
           DEF OtherStep

LEMMA LifeCommand ==
  ASSUME LifeInv, Typed', NEW p \in Proc, NEW w \in Workflow, Command(p, w)
  PROVE  StartsInOrder' /\ OneStart' /\ StartKnowsRow' /\ RowInv'
<1>1. /\ \A q \in Proc \ {p} : proc'[q] = proc[q]
      /\ proc'[p].on = w /\ proc \in [Proc -> Process]
      /\ status \in [Workflow -> Active \cup Ended]
  BY CommandBegins DEF LifeInv, Typed, Types, Process
<1>2. UNCHANGED <<attached, terminal, reconciled, op>>
  BY CommandFrame DEF LifeInv
<1>3. CASE BeginStart(p, w)
  <2>1. /\ status[w] = "requested" /\ status' = [status EXCEPT ![w] = "starting"]
        /\ \A v \in Workflow : w \in After[v] => status[v] = "completed"
    BY <1>3 DEF BeginStart
  <2>2. proc'[p].at = "create"
    <3>1. Begins(p, "start", w, "create", "unknown")
      BY <1>3 DEF BeginStart
    <3>2. terminal \in [Workflow -> Terminal \cup {None}]
      BY DEF LifeInv, Typed, Types
    <3>3. "create" \in Places /\ "unknown" \in Goals
      BY DEF Places, Goals
    <3> QED BY <1>1, <3>1, <3>2, <3>3, BeginsAt
  <2>3. ~attached[w] /\ ~reconciled[w] /\ op[w] = NoOp
    BY <2>1 DEF LifeInv, RowInv
  <2>4. \A q \in Proc : Starts(q) => proc[q].on # w /\ proc[q].on \in Workflow
    BY <2>1 DEF LifeInv, StartsInOrder, Typed, Bound, Starts, Starting
  <2>5. \A v \in Workflow : status[v] = "completed" => status'[v] = "completed"
    BY <1>1, <2>1
  <2>6. ASSUME NEW q \in Proc, Starts(q)', q # p
        PROVE  /\ Starts(q) /\ proc'[q] = proc[q] /\ proc[q].on \in Workflow \ {w}
               /\ status'[proc[q].on] = status[proc[q].on]
    BY <1>1, <2>1, <2>4, <2>6 DEF Starts
  <2>7. OneStart'
    BY <1>1, <2>6 DEF LifeInv, OneStart
  <2>8. StartsInOrder'
    <3>1. ASSUME NEW q \in Proc, Starts(q)'
          PROVE  status'[proc'[q].on] \in {"starting", "cancelled"} /\ Reached(proc[q].on)'
      <4>1. CASE q = p
        BY <1>1, <2>1, <2>5, <4>1 DEF Reached
      <4>2. CASE q # p
        BY <2>5, <2>6, <3>1, <4>2 DEF LifeInv, StartsInOrder, Reached
      <4> QED BY <4>1, <4>2
    <3>2. ASSUME NEW v \in Workflow,
                 attached'[v] \/ reconciled'[v] \/ status'[v] \notin {"requested", "cancelled"}
          PROVE  Reached(v)'
      BY <1>1, <1>2, <2>1, <2>5, <3>2 DEF LifeInv, StartsInOrder, Reached
    <3> QED BY <3>1, <3>2 DEF StartsInOrder
  <2>9. StartKnowsRow'
    <3> SUFFICES ASSUME NEW q \in Proc, Starts(q)'
                 PROVE  LET v == proc'[q].on IN
                        /\ proc'[q].at \in {"claim", "activate", "activated"} =>
                             attached'[v] /\ terminal'[v] # None
                        /\ /\ proc'[q].at \in {"create", "attach"} /\ status'[v] = "starting"
                           => ~attached'[v]
                        /\ /\ proc'[q].at \in {"create", "attach", "claim", "activate", "activated"}
                           /\ status'[v] = "starting"
                           => ~reconciled'[v]
      BY DEF StartKnowsRow, Starts, Starting
    <3>1. CASE q = p
      BY <1>1, <1>2, <2>2, <2>3, <3>1
    <3>2. CASE q # p
      BY <1>2, <2>6, <3>2 DEF LifeInv, StartKnowsRow
    <3> QED BY <3>1, <3>2
  <2>10. RowInv'
    BY <1>1, <1>2, <2>1, <2>3 DEF LifeInv, RowInv
  <2> QED BY <2>7, <2>8, <2>9, <2>10
<1>4. CASE ~BeginStart(p, w)
  <2>1. status' = status /\ proc'[p].at \notin Starting
    BY <1>4, CommandBegins DEF LifeInv, ObserveTimeout, rows, Starting
  <2> QED BY <1>1, <1>2, <2>1, QuietLife
<1> QED BY <1>3, <1>4

LEMMA LifeOutside ==
  ASSUME LifeInv, NEW w \in Workflow, UNCHANGED <<status, attached, terminal, reconciled, proc>>,
         op' = op \/ (op[w] # NoOp /\ op' = [op EXCEPT ![w].old = TRUE])
  PROVE  StartsInOrder' /\ OneStart' /\ StartKnowsRow' /\ RowInv'
<1>1. StartsInOrder' /\ OneStart' /\ StartKnowsRow'
  BY DEF LifeInv, StartsInOrder, OneStart, StartKnowsRow, Starts, Reached
<1>2. CASE op' = op
  BY <1>1, <1>2 DEF LifeInv, RowInv
<1>3. CASE op[w] # NoOp /\ op' = [op EXCEPT ![w].old = TRUE]
  <2>1. op'[w].kind = op[w].kind /\ \A v \in Workflow \ {w} : op'[v] = op[v]
    BY <1>3, Ages DEF LifeInv, Typed, Types
  <2>2. op'[w] # NoOp /\ op'[w].kind # "none"
    BY <1>3, <2>1, OperationsDiffer DEF LifeInv, RowInv
  <2> QED BY <1>1, <1>3, <2>1, <2>2 DEF LifeInv, RowInv
<1> QED BY <1>1, <1>2, <1>3

LEMMA LifeInit == Init => LifeInv
BY TypedInit, OperationsDiffer
   DEF Init, LifeInv, StartsInOrder, OneStart, StartKnowsRow, RowInv, Starts, Starting, Idle

LEMMA LifeNext == LifeInv /\ [Next]_vars => LifeInv'
<1> SUFFICES ASSUME LifeInv, [Next]_vars PROVE LifeInv'
  OBVIOUS
<1> DEFINE Parts == StartsInOrder /\ OneStart /\ StartKnowsRow /\ RowInv
<1>1. Typed'
  BY TypedNext DEF LifeInv
<1>2. CASE UNCHANGED vars
  BY <1>2 DEF vars, rows, world, LifeInv, StartsInOrder, OneStart, StartKnowsRow, RowInv,
              Starts, Reached, Typed, Types
<1>3. ASSUME NEW p \in Proc, Step(p) PROVE Parts'
  BY <1>1, <1>3, LifeStart, LifeFinish, LifeOther DEF Step
<1>4. ASSUME NEW p \in Proc, Crash(p) PROVE Parts'
  <2>1. proc'[p].at = "idle" /\ \A q \in Proc \ {p} : proc'[q] = proc[q]
    BY <1>4, Returns DEF LifeInv, Typed, Types, Process, Crash, Idle
  <2> QED BY <1>4, <2>1, QuietLife DEF Crash, rows, Starting
<1>5. ASSUME NEW p \in Proc, NEW w \in Workflow, Command(p, w) PROVE Parts'
  BY <1>1, <1>5, LifeCommand
<1>6. ASSUME NEW w \in Workflow, ClaimAges(w) PROVE Parts'
  BY <1>6, LifeOutside DEF ClaimAges
<1>7. ASSUME NEW x \in Terminal, AgentExits(x) PROVE Parts'
  BY <1>7 DEF AgentExits, rows, LifeInv, StartsInOrder, OneStart, StartKnowsRow, RowInv,
              Starts, Reached
<1>8. ASSUME Next PROVE Parts'
  BY <1>3, <1>4, <1>5, <1>6, <1>7, <1>8 DEF Next
<1> QED BY <1>1, <1>2, <1>8 DEF LifeInv

LEMMA LifeAlways == Spec => []LifeInv
BY LifeInit, LifeNext, PTL DEF Spec

-----------------------------------------------------------------------------
(* Which steps change what. *)

LEMMA Frames ==
  ASSUME NEW p \in Proc, Step(p)
  PROVE  /\ \/ status' = status
            \/ CompleteActivation(p) \/ FailStart(p) \/ CancelSuccessors(p)
            \/ ClaimTerminal(p) \/ CompleteTerminal(p) \/ Tidy(p) \/ ReleaseStale(p)
            \/ CancelStale(p) \/ RetryFailed(p)
         /\ \/ attached' = attached
            \/ AttachExternal(p) \/ AttachPartialExternal(p) \/ RetryFailed(p)
         /\ \/ op' = op
            \/ ClaimActivation(p) \/ Activate(p) \/ CompleteActivation(p)
            \/ MarkReconciled(p) \/ ClaimTerminal(p) \/ UpdateExternal(p)
            \/ CompleteTerminal(p) \/ CloseFinished(p) \/ TakeOver(p) \/ CloseStale(p)
            \/ ReleaseStale(p)
         /\ \/ request' = request
            \/ FailStart(p) \/ CancelOwnedRequests(p) \/ ClaimTerminal(p) \/ CancelFirst(p)
            \/ CompleteTerminal(p) \/ CancelFinally(p) \/ CancelStale(p)
            \/ MaintainCancels(p) \/ Acquire(p) \/ RecheckOwner(p)
         /\ \/ outdated' = outdated
            \/ CompleteActivation(p) \/ MarkResumed(p)
<1>1. CASE StartStep(p)
  <2>1. \/ status' = status
       \/ CompleteActivation(p) \/ FailStart(p) \/ CancelSuccessors(p)
    BY <1>1 DEF StartStep, CreateExternal, AttachExternal, ClaimActivation, Activate,
       AttachPartialExternal, CloseStarted, MarkReconciled, CancelOwnedRequests, rows, world
  <2>2. \/ attached' = attached
       \/ AttachExternal(p) \/ AttachPartialExternal(p)
    BY <1>1 DEF StartStep, CreateExternal, ClaimActivation, Activate, CompleteActivation,
       CloseStarted, MarkReconciled, FailStart, CancelSuccessors, CancelOwnedRequests, rows,
       world
  <2>3. \/ op' = op
       \/ ClaimActivation(p) \/ Activate(p) \/ CompleteActivation(p) \/ MarkReconciled(p)
    BY <1>1 DEF StartStep, CreateExternal, AttachExternal, AttachPartialExternal, CloseStarted,
       FailStart, CancelSuccessors, CancelOwnedRequests, rows, world
  <2>4. \/ request' = request
       \/ FailStart(p) \/ CancelOwnedRequests(p)
    BY <1>1 DEF StartStep, CreateExternal, AttachExternal, ClaimActivation, Activate,
       CompleteActivation, AttachPartialExternal, CloseStarted, MarkReconciled,
       CancelSuccessors, rows, world
  <2>5. \/ outdated' = outdated
       \/ CompleteActivation(p)
    BY <1>1 DEF StartStep, CreateExternal, AttachExternal, ClaimActivation, Activate,
       AttachPartialExternal, CloseStarted, MarkReconciled, FailStart, CancelSuccessors,
       CancelOwnedRequests, rows, world
  <2> QED BY <2>1, <2>2, <2>3, <2>4, <2>5
<1>2. CASE FinishStep(p)
  <2>1. \/ status' = status
       \/ ClaimTerminal(p) \/ CompleteTerminal(p) \/ Tidy(p)
    BY <1>2 DEF FinishStep, FinishRefused, CancelFirst, UpdateExternal, CancelFinally,
       CloseFinished, rows, world
  <2>2. \/ attached' = attached
    BY <1>2 DEF FinishStep, ClaimTerminal, FinishRefused, CancelFirst, UpdateExternal,
       CompleteTerminal, Tidy, CancelFinally, CloseFinished, rows, world
  <2>3. \/ op' = op
       \/ ClaimTerminal(p) \/ UpdateExternal(p) \/ CompleteTerminal(p) \/ CloseFinished(p)
    BY <1>2 DEF FinishStep, FinishRefused, CancelFirst, Tidy, CancelFinally, rows, world
  <2>4. \/ request' = request
       \/ ClaimTerminal(p) \/ CancelFirst(p) \/ CompleteTerminal(p) \/ CancelFinally(p)
    BY <1>2 DEF FinishStep, FinishRefused, UpdateExternal, Tidy, CloseFinished, rows, world
  <2>5. \/ outdated' = outdated
    BY <1>2 DEF FinishStep, ClaimTerminal, FinishRefused, CancelFirst, UpdateExternal,
       CompleteTerminal, Tidy, CancelFinally, CloseFinished, rows, world
  <2> QED BY <2>1, <2>2, <2>3, <2>4, <2>5
<1>3. CASE OtherStep(p)
  <2>1. \/ status' = status
       \/ ReleaseStale(p) \/ CancelStale(p) \/ RetryFailed(p)
    BY <1>3 DEF OtherStep, MarkResumed, LaunchAgent, ReplaceAgent, DiscardAgent,
       CloseCompleted, TakeOver, CloseStale, MaintainCancels, Acquire, RecheckOwner, rows,
       world
  <2>2. \/ attached' = attached
       \/ RetryFailed(p)
    BY <1>3 DEF OtherStep, MarkResumed, LaunchAgent, ReplaceAgent, DiscardAgent,
       CloseCompleted, TakeOver, CloseStale, ReleaseStale, CancelStale, MaintainCancels,
       Acquire, RecheckOwner, rows, world
  <2>3. \/ op' = op
       \/ TakeOver(p) \/ CloseStale(p) \/ ReleaseStale(p)
    BY <1>3 DEF OtherStep, MarkResumed, LaunchAgent, ReplaceAgent, DiscardAgent,
       CloseCompleted, CancelStale, RetryFailed, MaintainCancels, Acquire, RecheckOwner, rows,
       world
  <2>4. \/ request' = request
       \/ CancelStale(p) \/ MaintainCancels(p) \/ Acquire(p) \/ RecheckOwner(p)
    BY <1>3 DEF OtherStep, MarkResumed, LaunchAgent, ReplaceAgent, DiscardAgent,
       CloseCompleted, TakeOver, CloseStale, ReleaseStale, RetryFailed, rows, world
  <2>5. \/ outdated' = outdated
       \/ MarkResumed(p)
    BY <1>3 DEF OtherStep, LaunchAgent, ReplaceAgent, DiscardAgent, CloseCompleted, TakeOver,
       CloseStale, ReleaseStale, CancelStale, RetryFailed, MaintainCancels, Acquire,
       RecheckOwner, rows, world
  <2> QED BY <2>1, <2>2, <2>3, <2>4, <2>5
<1> QED BY <1>1, <1>2, <1>3 DEF Step

\* The ways through the commands, each of which may also end where it is.
Routes ==
  {<<"create", "attach">>, <<"create", "undo">>, <<"attach", "claim">>,
   <<"attach", "undo">>, <<"claim", "activate">>, <<"claim", "undo">>,
   <<"activate", "activated">>, <<"activate", "undo">>, <<"activated", "undo">>,
   <<"undo", "close">>, <<"close", "release">>, <<"close", "fail">>,
   <<"release", "fail">>, <<"fail", "successors">>, <<"successors", "cancel">>,
   <<"timing", "update">>, <<"timing", "first">>, <<"timing", "early">>,
   <<"first", "update">>, <<"early", "tidy">>, <<"update", "complete">>,
   <<"complete", "tidy">>, <<"tidy", "finalize">>, <<"finalize", "shut">>,
   <<"mark", "launch">>, <<"launch", "replace">>, <<"replace", "remark">>,
   <<"replace", "discard">>, <<"shutCompleted", "cancel">>,
   <<"takeOver", "closeStale">>, <<"closeStale", "releaseStale">>,
   <<"releaseStale", "cancel">>, <<"cancelStale", "successors">>,
   <<"acquire", "recheck">>, <<"recheck", "remark">>}

LEMMA Routed ==
  ASSUME Typed, NEW p \in Proc, Step(p)
  PROVE  /\ \A q \in Proc \ {p} : proc'[q] = proc[q]
         /\ proc[p].at # "idle"
         /\ \/ proc'[p] = Idle
            \/ /\ <<proc[p].at, proc'[p].at>> \in Routes /\ proc'[p].on = proc[p].on
               /\ proc[p].at # "create" =>
                    proc'[p].goal = proc[p].goal /\ proc'[p].seen = proc[p].seen
               /\ proc[p].at \in {"attach", "claim", "activate", "activated", "undo", "close",
                                  "replace"} => proc'[p].handle = proc[p].handle
<1> DEFINE Through ==
         /\ \A q \in Proc \ {p} : proc'[q] = proc[q]
         /\ proc[p].at # "idle"
         /\ \/ proc'[p] = Idle
            \/ /\ <<proc[p].at, proc'[p].at>> \in Routes /\ proc'[p].on = proc[p].on
               /\ proc[p].at # "create" =>
                    proc'[p].goal = proc[p].goal /\ proc'[p].seen = proc[p].seen
               /\ proc[p].at \in {"attach", "claim", "activate", "activated", "undo", "close",
                                  "replace"} => proc'[p].handle = proc[p].handle
<1> DEFINE Moved ==
         /\ proc'[p].on = proc[p].on /\ proc'[p].goal = proc[p].goal
         /\ proc'[p].seen = proc[p].seen
<1>0. proc \in [Proc -> Process] /\ terminal \in [Workflow -> Terminal \cup {None}]
      /\ \A q \in Proc : Bound(proc[q])
  BY DEF Typed, Types, Process
<1>1. ASSUME NEW a \in Places, NEW b \in Places, proc[p].at = a, <<a, b>> \in Routes, Go(p, b)
      PROVE  Through
  <2>1. /\ proc'[p].at = b /\ Moved /\ proc'[p].handle = proc[p].handle
        /\ \A q \in Proc \ {p} : proc'[q] = proc[q]
    BY <1>0, <1>1, Goes
  <2>2. a # "idle"
    BY <1>1 DEF Routes
  <2> QED BY <1>1, <2>1, <2>2
<1>2. ASSUME proc[p].at # "idle", Return(p)
      PROVE  Through
  BY <1>0, <1>2, Returns
<1>3. ASSUME NEW a \in Places, NEW b \in Places, proc[p].at = a, <<a, b>> \in Routes,
             a \notin {"create", "attach", "claim", "activate", "activated", "undo", "close", "replace"},
             proc' = [proc EXCEPT ![p].at = b, ![p].handle = terminal[proc[p].on]]
      PROVE  Through
  <2>1. a # "idle" /\ proc[p].on \in Workflow
    BY <1>0, <1>3 DEF Routes, Bound
  <2>2. proc'[p].at = b /\ Moved /\ \A q \in Proc \ {p} : proc'[q] = proc[q]
    BY <1>0, <1>3, <2>1, Rereads
  <2> QED BY <1>3, <2>1, <2>2
<1>4. ASSUME CreateExternal(p) PROVE Through
  <2>1. /\ proc[p].at = "create" /\ proc'[p].at \in {"attach", "undo"}
        /\ proc'[p].on = proc[p].on /\ \A q \in Proc \ {p} : proc'[q] = proc[q]
    BY <1>0, <1>4, Creates
  <2> QED BY <2>1 DEF Routes
<1>5. ASSUME AttachExternal(p) PROVE Through
  <2>1. proc[p].at = "attach" /\ (Go(p, "claim") \/ Go(p, "undo"))
    BY <1>5 DEF AttachExternal, At
  <2>2. /\ <<"attach", "claim">> \in Routes
        /\ <<"attach", "undo">> \in Routes
        /\ {"attach", "claim", "undo"} \subseteq Places
    BY DEF Routes, Places
  <2> HIDE DEF Through
  <2> QED BY <1>1, <1>2, <2>1, <2>2
<1>6. ASSUME ClaimActivation(p) PROVE Through
  <2>1. proc[p].at = "claim" /\ (Go(p, "activate") \/ Go(p, "undo"))
    BY <1>6 DEF ClaimActivation, At
  <2>2. /\ <<"claim", "activate">> \in Routes
        /\ <<"claim", "undo">> \in Routes
        /\ {"claim", "activate", "undo"} \subseteq Places
    BY DEF Routes, Places
  <2> HIDE DEF Through
  <2> QED BY <1>1, <1>2, <2>1, <2>2
<1>7. ASSUME Activate(p) PROVE Through
  <2>1. proc[p].at = "activate" /\ (Go(p, "activated") \/ Go(p, "undo"))
    BY <1>7 DEF Activate, At
  <2>2. /\ <<"activate", "activated">> \in Routes
        /\ <<"activate", "undo">> \in Routes
        /\ {"activate", "activated", "undo"} \subseteq Places
    BY DEF Routes, Places
  <2> HIDE DEF Through
  <2> QED BY <1>1, <1>2, <2>1, <2>2
<1>8. ASSUME CompleteActivation(p) PROVE Through
  <2>1. proc[p].at = "activated" /\ (Go(p, "undo") \/ Return(p))
    BY <1>8 DEF CompleteActivation, At
  <2>2. /\ <<"activated", "undo">> \in Routes
        /\ {"activated", "undo"} \subseteq Places
    BY DEF Routes, Places
  <2> HIDE DEF Through
  <2> QED BY <1>1, <1>2, <2>1, <2>2
<1>9. ASSUME AttachPartialExternal(p) PROVE Through
  <2>1. proc[p].at = "undo" /\ (Go(p, "close"))
    BY <1>9 DEF AttachPartialExternal, At
  <2>2. /\ <<"undo", "close">> \in Routes
        /\ {"undo", "close"} \subseteq Places
    BY DEF Routes, Places
  <2> HIDE DEF Through
  <2> QED BY <1>1, <1>2, <2>1, <2>2
<1>10. ASSUME CloseStarted(p) PROVE Through
  <2>1. proc[p].at = "close" /\ (Go(p, "release") \/ Go(p, "fail"))
    BY <1>10 DEF CloseStarted, At
  <2>2. /\ <<"close", "release">> \in Routes
        /\ <<"close", "fail">> \in Routes
        /\ {"close", "release", "fail"} \subseteq Places
    BY DEF Routes, Places
  <2> HIDE DEF Through
  <2> QED BY <1>1, <1>2, <2>1, <2>2
<1>11. ASSUME MarkReconciled(p) PROVE Through
  <2>1. proc[p].at = "release" /\ (Go(p, "fail"))
    BY <1>11 DEF MarkReconciled, At
  <2>2. /\ <<"release", "fail">> \in Routes
        /\ {"release", "fail"} \subseteq Places
    BY DEF Routes, Places
  <2> HIDE DEF Through
  <2> QED BY <1>1, <1>2, <2>1, <2>2
<1>12. ASSUME FailStart(p) PROVE Through
  <2>1. proc[p].at = "fail" /\ (Go(p, "successors") \/ Return(p))
    BY <1>12 DEF FailStart, At
  <2>2. /\ <<"fail", "successors">> \in Routes
        /\ {"fail", "successors"} \subseteq Places
    BY DEF Routes, Places
  <2> HIDE DEF Through
  <2> QED BY <1>1, <1>2, <2>1, <2>2
<1>13. ASSUME CancelSuccessors(p) PROVE Through
  <2>1. proc[p].at = "successors"
    BY <1>13 DEF CancelSuccessors, At
  <2>2. proc' = [proc EXCEPT ![p].at = "cancel", ![p].handle = terminal[proc[p].on]]
    BY <1>13 DEF CancelSuccessors
  <2>3. /\ <<"successors", "cancel">> \in Routes
        /\ {"successors", "cancel"} \subseteq Places
    BY DEF Routes, Places
  <2> HIDE DEF Through
  <2> QED BY <1>2, <1>3, <2>1, <2>2, <2>3
<1>14. ASSUME CancelOwnedRequests(p) PROVE Through
  <2>1. proc[p].at = "cancel" /\ (Return(p))
    BY <1>14 DEF CancelOwnedRequests, At
  <2> HIDE DEF Through
  <2> QED BY <1>1, <1>2, <2>1
<1>15. ASSUME ClaimTerminal(p) PROVE Through
  <2>1. proc[p].at = "timing"
    BY <1>15 DEF ClaimTerminal, At
  <2>2. \/ proc' = [proc EXCEPT ![p].at = "update", ![p].handle = terminal[proc[p].on]]
        \/ proc' = [proc EXCEPT ![p].at = "first", ![p].handle = terminal[proc[p].on]]
        \/ proc' = [proc EXCEPT ![p].at = "early", ![p].handle = terminal[proc[p].on]]
    BY <1>15 DEF ClaimTerminal
  <2>3. /\ <<"timing", "update">> \in Routes
        /\ <<"timing", "first">> \in Routes
        /\ <<"timing", "early">> \in Routes
        /\ {"timing", "update", "first", "early"} \subseteq Places
    BY DEF Routes, Places
  <2> HIDE DEF Through
  <2> QED BY <1>2, <1>3, <2>1, <2>2, <2>3
<1>16. ASSUME FinishRefused(p) PROVE Through
  <2>1. proc[p].at = "timing" /\ (Return(p))
    BY <1>16 DEF FinishRefused, At
  <2> HIDE DEF Through
  <2> QED BY <1>1, <1>2, <2>1
<1>17. ASSUME CancelFirst(p) PROVE Through
  <2>1. \/ proc[p].at = "first" /\ Go(p, "update")
        \/ proc[p].at = "early" /\ Go(p, "tidy")
    BY <1>17 DEF CancelFirst, At
  <2>2. <<"first", "update">> \in Routes /\ <<"early", "tidy">> \in Routes /\ {"first", "update", "early", "tidy"} \subseteq Places
    BY DEF Routes, Places
  <2> HIDE DEF Through
  <2> QED BY <1>1, <1>2, <2>1, <2>2
<1>18. ASSUME UpdateExternal(p) PROVE Through
  <2>1. proc[p].at = "update" /\ (Go(p, "complete") \/ Return(p))
    BY <1>18 DEF UpdateExternal, At
  <2>2. /\ <<"update", "complete">> \in Routes
        /\ {"update", "complete"} \subseteq Places
    BY DEF Routes, Places
  <2> HIDE DEF Through
  <2> QED BY <1>1, <1>2, <2>1, <2>2
<1>19. ASSUME CompleteTerminal(p) PROVE Through
  <2>1. proc[p].at = "complete" /\ (Go(p, "tidy") \/ Return(p))
    BY <1>19 DEF CompleteTerminal, At
  <2>2. /\ <<"complete", "tidy">> \in Routes
        /\ {"complete", "tidy"} \subseteq Places
    BY DEF Routes, Places
  <2> HIDE DEF Through
  <2> QED BY <1>1, <1>2, <2>1, <2>2
<1>20. ASSUME Tidy(p) PROVE Through
  <2>1. proc[p].at = "tidy"
    BY <1>20 DEF Tidy, At
  <2>2. proc' = [proc EXCEPT ![p].at = "finalize", ![p].handle = terminal[proc[p].on]]
    BY <1>20 DEF Tidy
  <2>3. /\ <<"tidy", "finalize">> \in Routes
        /\ {"tidy", "finalize"} \subseteq Places
    BY DEF Routes, Places
  <2> HIDE DEF Through
  <2> QED BY <1>2, <1>3, <2>1, <2>2, <2>3
<1>21. ASSUME CancelFinally(p) PROVE Through
  <2>1. proc[p].at = "finalize" /\ (Go(p, "shut"))
    BY <1>21 DEF CancelFinally, At
  <2>2. /\ <<"finalize", "shut">> \in Routes
        /\ {"finalize", "shut"} \subseteq Places
    BY DEF Routes, Places
  <2> HIDE DEF Through
  <2> QED BY <1>1, <1>2, <2>1, <2>2
<1>22. ASSUME CloseFinished(p) PROVE Through
  <2>1. proc[p].at = "shut" /\ (Return(p))
    BY <1>22 DEF CloseFinished, At
  <2> HIDE DEF Through
  <2> QED BY <1>1, <1>2, <2>1
<1>23. ASSUME MarkResumed(p) PROVE Through
  <2>1. \/ proc[p].at = "mark" /\ Go(p, "launch")
        \/ proc[p].at \in {"mark", "remark"} /\ Return(p)
    BY <1>23 DEF MarkResumed, At
  <2>2. <<"mark", "launch">> \in Routes /\ {"mark", "launch"} \subseteq Places
    BY DEF Routes, Places
  <2> HIDE DEF Through
  <2> QED BY <1>1, <1>2, <2>1, <2>2
<1>24. ASSUME LaunchAgent(p) PROVE Through
  <2>1. proc[p].at = "launch"
    BY <1>24 DEF LaunchAgent, At
  <2>2. ASSUME NEW h \in Terminal, proc' = [proc EXCEPT ![p].at = "replace", ![p].handle = h]
        PROVE  Through
    <3>1. proc'[p].at = "replace" /\ Moved /\ \A q \in Proc \ {p} : proc'[q] = proc[q]
      BY <1>0, <2>2, Makes DEF Places
    <3> QED BY <2>1, <3>1 DEF Routes
  <2>3. Return(p) \/ \E h \in Terminal : proc' = [proc EXCEPT ![p].at = "replace", ![p].handle = h]
    BY <1>24 DEF LaunchAgent
  <2> QED BY <1>2, <2>1, <2>2, <2>3
<1>25. ASSUME ReplaceAgent(p) PROVE Through
  <2>1. proc[p].at = "replace" /\ (Go(p, "remark") \/ Go(p, "discard") \/ Return(p))
    BY <1>25 DEF ReplaceAgent, At
  <2>2. /\ <<"replace", "remark">> \in Routes
        /\ <<"replace", "discard">> \in Routes
        /\ {"replace", "remark", "discard"} \subseteq Places
    BY DEF Routes, Places
  <2> HIDE DEF Through
  <2> QED BY <1>1, <1>2, <2>1, <2>2
<1>26. ASSUME DiscardAgent(p) PROVE Through
  <2>1. proc[p].at = "discard" /\ (Return(p))
    BY <1>26 DEF DiscardAgent, At
  <2> HIDE DEF Through
  <2> QED BY <1>1, <1>2, <2>1
<1>27. ASSUME CloseCompleted(p) PROVE Through
  <2>1. proc[p].at = "shutCompleted"
    BY <1>27 DEF CloseCompleted, At
  <2>2. \/ proc' = [proc EXCEPT ![p].at = "cancel", ![p].handle = terminal[proc[p].on]]
        \/ Return(p)
    BY <1>27 DEF CloseCompleted
  <2>3. /\ <<"shutCompleted", "cancel">> \in Routes
        /\ {"shutCompleted", "cancel"} \subseteq Places
    BY DEF Routes, Places
  <2> HIDE DEF Through
  <2> QED BY <1>2, <1>3, <2>1, <2>2, <2>3
<1>28. ASSUME TakeOver(p) PROVE Through
  <2>1. proc[p].at = "takeOver" /\ (Go(p, "closeStale") \/ Return(p))
    BY <1>28 DEF TakeOver, At
  <2>2. /\ <<"takeOver", "closeStale">> \in Routes
        /\ {"takeOver", "closeStale"} \subseteq Places
    BY DEF Routes, Places
  <2> HIDE DEF Through
  <2> QED BY <1>1, <1>2, <2>1, <2>2
<1>29. ASSUME CloseStale(p) PROVE Through
  <2>1. proc[p].at = "closeStale" /\ (Go(p, "releaseStale") \/ Return(p))
    BY <1>29 DEF CloseStale, At
  <2>2. /\ <<"closeStale", "releaseStale">> \in Routes
        /\ {"closeStale", "releaseStale"} \subseteq Places
    BY DEF Routes, Places
  <2> HIDE DEF Through
  <2> QED BY <1>1, <1>2, <2>1, <2>2
<1>30. ASSUME ReleaseStale(p) PROVE Through
  <2>1. proc[p].at = "releaseStale"
    BY <1>30 DEF ReleaseStale, At
  <2>2. \/ proc' = [proc EXCEPT ![p].at = "cancel", ![p].handle = terminal[proc[p].on]]
        \/ Return(p)
    BY <1>30 DEF ReleaseStale
  <2>3. /\ <<"releaseStale", "cancel">> \in Routes
        /\ {"releaseStale", "cancel"} \subseteq Places
    BY DEF Routes, Places
  <2> HIDE DEF Through
  <2> QED BY <1>2, <1>3, <2>1, <2>2, <2>3
<1>31. ASSUME CancelStale(p) PROVE Through
  <2>1. proc[p].at = "cancelStale" /\ (Go(p, "successors") \/ Return(p))
    BY <1>31 DEF CancelStale, At
  <2>2. /\ <<"cancelStale", "successors">> \in Routes
        /\ {"cancelStale", "successors"} \subseteq Places
    BY DEF Routes, Places
  <2> HIDE DEF Through
  <2> QED BY <1>1, <1>2, <2>1, <2>2
<1>32. ASSUME RetryFailed(p) PROVE Through
  <2>1. proc[p].at = "retry" /\ (Return(p))
    BY <1>32 DEF RetryFailed, At
  <2> HIDE DEF Through
  <2> QED BY <1>1, <1>2, <2>1
<1>33. ASSUME MaintainCancels(p) PROVE Through
  <2>1. proc[p].at = "maintain" /\ (Return(p))
    BY <1>33 DEF MaintainCancels, At
  <2> HIDE DEF Through
  <2> QED BY <1>1, <1>2, <2>1
<1>34. ASSUME Acquire(p) PROVE Through
  <2>1. proc[p].at = "acquire" /\ (Go(p, "recheck") \/ Return(p))
    BY <1>34 DEF Acquire, At
  <2>2. /\ <<"acquire", "recheck">> \in Routes
        /\ {"acquire", "recheck"} \subseteq Places
    BY DEF Routes, Places
  <2> HIDE DEF Through
  <2> QED BY <1>1, <1>2, <2>1, <2>2
<1>35. ASSUME RecheckOwner(p) PROVE Through
  <2>1. proc[p].at = "recheck" /\ (Go(p, "remark") \/ Return(p))
    BY <1>35 DEF RecheckOwner, At
  <2>2. /\ <<"recheck", "remark">> \in Routes
        /\ {"recheck", "remark"} \subseteq Places
    BY DEF Routes, Places
  <2> HIDE DEF Through
  <2> QED BY <1>1, <1>2, <2>1, <2>2
<1> QED BY <1>4, <1>5, <1>6, <1>7, <1>8, <1>9, <1>10, <1>11, <1>12, <1>13, <1>14, <1>15,
        <1>16, <1>17, <1>18, <1>19, <1>20, <1>21, <1>22, <1>23, <1>24, <1>25, <1>26,
        <1>27, <1>28, <1>29, <1>30, <1>31, <1>32, <1>33, <1>34, <1>35
        DEF Step, StartStep, FinishStep, OtherStep

-----------------------------------------------------------------------------
(* The theorems. *)

\* Every row is of its type, and a running row, like one with an operation on
\* it, names what it has in Orca: activation and completion are the only ways to
\* and from "running", and no operation outlives the release of the worktree.
THEOREM TypeCorrect == Spec => []TypeOK
<1>1. LifeInv => TypeOK
  BY DEF LifeInv, Typed, RowInv, TypeOK
<1> QED BY <1>1, LifeAlways, PTL

\* A running workflow goes on, is cancelled, or gets the outcome that is claimed.
LEMMA RunningMoves ==
  ASSUME LifeInv, [Next]_vars, NEW w \in Workflow, status[w] = "running"
  PROVE  \/ status'[w] \in {"running", "cancelled"}
         \/ op[w].kind = "terminal" /\ op[w].target = status'[w]
<1>1. /\ status \in [Workflow -> Active \cup Ended]
      /\ \A q \in Proc : Bound(proc[q])
  BY DEF LifeInv, Typed, Types
<1>2. ASSUME NEW p \in Proc, Step(p)
      PROVE  \/ status'[w] \in {"running", "cancelled"}
             \/ op[w].kind = "terminal" /\ op[w].target = status'[w]
  <2> DEFINE v == proc[p].on
  <2>1. v \in Workflow
    BY <1>1, <1>2, Routed DEF LifeInv, Bound
  <2>2. CASE status' = status
    BY <2>2
  <2>3. CASE CompleteActivation(p)
    BY <1>1, <2>1, <2>3 DEF CompleteActivation
  <2>4. CASE FailStart(p)
    BY <1>1, <2>1, <2>4 DEF FailStart
  <2>5. CASE CancelSuccessors(p) \/ Tidy(p)
    <3>1. status' = status \/ status' = WithRoles(v, status[v])
      BY <2>5 DEF CancelSuccessors, Tidy
    <3> QED BY <1>1, <2>1, <3>1, RolesEnd
  <2>6. CASE ClaimTerminal(p) \/ ReleaseStale(p)
    <3>1. status' = status \/ status' = WithRoles(v, "cancelled")
      BY <2>6 DEF ClaimTerminal, ReleaseStale
    <3> QED BY <1>1, <2>1, <3>1, RolesEnd DEF Ended
  <2>7. CASE CompleteTerminal(p)
    <3> DEFINE t == Target(p)
    <3>1. t \in Ended
      BY <1>1, <2>7 DEF CompleteTerminal, At, Bound, Finishing, Target, Ended
    <3>2. \/ status' = status
          \/ /\ \/ op[v].kind = "terminal" /\ op[v].target = t
                \/ op[v] = NoOp
             /\ op[v] # NoOp
             /\ status' = [status EXCEPT ![v] = t] \/ status' = WithFollowers(v, t)
      BY <2>7 DEF CompleteTerminal, IsClaimOf
    <3>3. status' = WithFollowers(v, t) => status'[w] = (IF v = w THEN t ELSE "running")
      BY <1>1, <2>1, <3>1, FollowersEnd
    <3> HIDE DEF t
    <3>4. CASE v = w
      BY <1>1, <2>1, <3>2, <3>3, <3>4
    <3>5. CASE v # w
      BY <1>1, <2>1, <3>2, <3>3, <3>5
    <3> QED BY <3>4, <3>5
  <2>8. CASE CancelStale(p)
    BY <1>1, <2>1, <2>8 DEF CancelStale
  <2>9. CASE RetryFailed(p)
    BY <1>1, <2>1, <2>9 DEF RetryFailed, Retriable
  <2> QED BY <1>2, <2>2, <2>3, <2>4, <2>5, <2>6, <2>7, <2>8, <2>9, Frames
<1>3. ASSUME NEW p \in Proc, NEW u \in Workflow, Command(p, u)
      PROVE  status'[w] = "running"
  BY <1>1, <1>3, CommandFrame DEF LifeInv
<1>4. CASE UNCHANGED status
  BY <1>4
<1> QED BY <1>2, <1>3, <1>4 DEF Next, vars, rows, Crash, AgentExits, ClaimAges

\* Nobody completes or fails a running workflow without holding the claim of that
\* outcome, however many commands finish, clean up and retry it at once.
THEOREM OutcomeIsClaimedHolds == Spec => OutcomeIsClaimed
<1>1. ASSUME LifeInv, [Next]_vars
      PROVE  [\A w \in Workflow, s \in {"completed", "failed"} :
                status[w] = "running" /\ status'[w] = s =>
                  op[w].kind = "terminal" /\ op[w].target = s]_vars
  BY <1>1, RunningMoves
<1> QED BY <1>1, LifeAlways, PTL DEF OutcomeIsClaimed, Spec

-----------------------------------------------------------------------------
(* Time-outs. *)

\* A command that ends a role because it took too long
Expires(p) == proc[p].goal = "timeout" /\ proc[p].at \in {"first", "update", "complete"}

\* The claim it holds keeps everything away from the row that would make it
\* wrong, until the workflow is cancelled, by whoever completes that claim.
Held(p, w) ==
  /\ attached[w]
  /\ \/ status[w] = "cancelled"
     \/ /\ status[w] = "running" /\ op[w].kind = "terminal" /\ op[w].target = "cancelled"
        /\ p \notin outdated /\ request[w] = None

ExpiryHeld == \A p \in Proc : Expires(p) => Held(p, proc[p].on)

\* What nobody takes from an attached workflow that was cancelled
LEMMA CancelledStays ==
  ASSUME LifeInv, NEW p \in Proc, Step(p), NEW w \in Workflow,
         attached[w], status[w] = "cancelled"
  PROVE  attached'[w] /\ status'[w] = "cancelled"
<1> DEFINE v == proc[p].on
<1>1. /\ status \in [Workflow -> Active \cup Ended] /\ attached \in [Workflow -> BOOLEAN]
      /\ \A q \in Proc : Bound(proc[q])
  BY DEF LifeInv, Typed, Types
<1>2. v \in Workflow
  BY <1>1, Routed DEF LifeInv, Bound
<1>3. attached'[w] \/ RetryFailed(p)
  BY <1>1, <1>2, Frames DEF AttachExternal, AttachPartialExternal
<1>4. CASE RetryFailed(p)
  <2>1. status[v] = "failed" => w # v /\ w \notin After[v]
    BY <1>2 DEF LifeInv, StartsInOrder, Reached
  <2> QED BY <1>1, <1>2, <1>4, <2>1 DEF RetryFailed, Retriable
<1>5. CASE CompleteActivation(p) \/ FailStart(p) \/ CancelStale(p)
  BY <1>1, <1>2, <1>3, <1>5 DEF CompleteActivation, FailStart, CancelStale, RetryFailed, At
<1>6. CASE CancelSuccessors(p) \/ Tidy(p)
  <2>1. status' = status \/ status' = WithRoles(v, status[v])
    BY <1>6 DEF CancelSuccessors, Tidy
  <2>2. attached' = attached
    BY <1>6 DEF CancelSuccessors, Tidy
  <2> QED BY <1>1, <1>2, <2>1, <2>2, RolesEnd
<1>7. CASE ClaimTerminal(p) \/ ReleaseStale(p)
  <2>1. status' = status \/ status' = WithRoles(v, "cancelled")
    BY <1>7 DEF ClaimTerminal, ReleaseStale
  <2>2. attached' = attached
    BY <1>7 DEF ClaimTerminal, ReleaseStale
  <2> QED BY <1>1, <1>2, <2>1, <2>2, RolesEnd DEF Ended
<1>8. CASE CompleteTerminal(p)
  <2> DEFINE t == Target(p)
  <2>1. t \in Ended
    BY <1>1, <1>8 DEF CompleteTerminal, At, Bound, Finishing, Target, Ended
  <2>2. \/ status' = status
        \/ /\ status' = [status EXCEPT ![v] = t] \/ status' = WithFollowers(v, t)
           /\ status[v] = "cancelled" => t = "cancelled"
    BY <1>8 DEF CompleteTerminal
  <2>3. attached' = attached
    BY <1>8 DEF CompleteTerminal
  <2>4. status' = WithFollowers(v, t) => status'[w] = (IF v = w THEN t ELSE "cancelled")
    BY <1>1, <1>2, <2>1, FollowersEnd
  <2> HIDE DEF t
  <2> QED BY <1>1, <1>2, <2>2, <2>3, <2>4
<1>9. CASE status' = status
  <2>1. ~(RetryFailed(p) /\ ~attached'[w])
    BY <1>1, <1>2, <1>4
  <2> QED BY <1>3, <1>9, <2>1
<1> QED BY <1>4, <1>5, <1>6, <1>7, <1>8, <1>9, Frames

\* What a claim to cancel keeps away from a running workflow
LEMMA ClaimKeeps ==
  ASSUME LifeInv, NEW p \in Proc, Step(p), NEW w \in Workflow, NEW q \in Proc,
         proc[q].on = w, Held(q, w), status[w] = "running"
  PROVE  Held(q, w)'
<1> DEFINE v == proc[p].on
<1>1. /\ status \in [Workflow -> Active \cup Ended] /\ attached \in [Workflow -> BOOLEAN]
      /\ op \in [Workflow -> Operation] /\ request \in [Workflow -> Terminal \cup {None}]
      /\ terminal \in [Workflow -> Terminal \cup {None}]
      /\ \A r \in Proc : Bound(proc[r])
  BY DEF LifeInv, Typed, Types
<1>2. v \in Workflow
  BY <1>1, Routed DEF LifeInv, Bound
<1>3. /\ attached[w] /\ op[w].kind = "terminal" /\ op[w].target = "cancelled"
      /\ q \notin outdated /\ request[w] = None /\ op[w] # NoOp
  BY OperationsDiffer DEF Held
<1>4. attached'[w]
  BY <1>1, <1>2, <1>3, Frames DEF AttachExternal, AttachPartialExternal, RetryFailed, Retriable
<1>5. status'[w] \in {"running", "cancelled"}
  BY <1>3, RunningMoves DEF Next
<1>6. request'[w] = None
  <2>1. ASSUME NEW t, request' = Cancelled(v, t) PROVE request'[w] = None
    BY <1>1, <1>2, <1>3, <2>1 DEF Cancelled
  <2>2. ASSUME request' = CancelledAll(v) PROVE request'[w] = None
    BY <1>1, <1>2, <1>3, <2>2 DEF CancelledAll
  <2>3. CASE FailStart(p) \/ CancelOwnedRequests(p) \/ CancelFirst(p) \/ CompleteTerminal(p)
               \/ CancelFinally(p) \/ CancelStale(p)
    BY <1>3, <2>1, <2>3
       DEF FailStart, CancelOwnedRequests, CancelFirst, CompleteTerminal, CancelFinally,
           CancelStale
  <2>4. CASE ClaimTerminal(p) \/ MaintainCancels(p) \/ RecheckOwner(p)
    BY <1>3, <2>2, <2>4 DEF ClaimTerminal, MaintainCancels, RecheckOwner, OfOwner
  <2>5. CASE Acquire(p)
    BY <1>1, <1>2, <1>3, <2>5 DEF Acquire
  <2>6. CASE request' = request
    BY <1>3, <2>6
  <2> QED BY <2>3, <2>4, <2>5, <2>6, Frames
<1>7. q \notin outdated'
  BY <1>3, Frames DEF CompleteActivation, MarkResumed, Resumable, Outdated
<1>8. status'[w] = "running" => op'[w].kind = "terminal" /\ op'[w].target = "cancelled"
  <2>1. CASE op' = op
    BY <1>3, <2>1
  <2>2. CASE ClaimActivation(p)
    BY <1>1, <1>2, <1>3, <2>2 DEF ClaimActivation
  <2>3. CASE Activate(p)
    BY <1>1, <1>2, <1>3, <2>3 DEF Activate
  <2>4. CASE CompleteActivation(p)
    BY <1>1, <1>2, <1>3, <2>4 DEF CompleteActivation
  <2>5. CASE MarkReconciled(p)
    <3>1. v # w
      BY <2>5 DEF MarkReconciled, At, LifeInv, StartsInOrder, Starts, Starting
    <3> QED BY <1>1, <1>2, <1>3, <2>5, <3>1 DEF MarkReconciled
  <2>6. CASE ClaimTerminal(p)
    BY <1>1, <1>2, <1>3, <2>6 DEF ClaimTerminal, Claim
  <2>7. CASE UpdateExternal(p) \/ CloseStale(p)
    <3>1. op' = op \/ op' = [op EXCEPT ![v].error = @ \/ op[v].kind = "terminal"]
      BY <2>7 DEF UpdateExternal, CloseStale
    <3> QED BY <1>1, <1>2, <1>3, <3>1, NotesError
  <2>8. CASE CompleteTerminal(p)
    <3> DEFINE t == Target(p)
    <3>1. t \in Ended
      BY <1>1, <2>8 DEF CompleteTerminal, At, Bound, Finishing, Target, Ended
    <3>2. \/ op' = op
          \/ /\ op' = [op EXCEPT ![v] = NoOp] /\ op[v] # NoOp
             /\ op[v] = NoOp \/ op[v].target = t
             /\ status' = IF t = "completed" THEN [status EXCEPT ![v] = t]
                                             ELSE WithFollowers(v, t)
      BY <2>8 DEF CompleteTerminal, IsClaimOf
    <3>3. WithFollowers(v, t)[v] = t
      BY <1>1, <1>2, <3>1, FollowersEnd
    <3> HIDE DEF t
    <3>4. CASE v = w
      BY <1>1, <1>2, <1>3, <3>2, <3>3, <3>4
    <3>5. CASE v # w
      BY <1>1, <1>2, <1>3, <3>2, <3>5
    <3> QED BY <3>4, <3>5
  <2>9. CASE CloseFinished(p)
    BY <1>1, <1>2, <1>3, <2>9 DEF CloseFinished
  <2>10. CASE TakeOver(p)
    BY <1>1, <1>2, <1>3, <2>10 DEF TakeOver, Claim
  <2>11. CASE ReleaseStale(p)
    <3>1. WithRoles(v, "cancelled")[v] = "cancelled"
      BY <1>1, <1>2, RolesEnd DEF Ended
    <3>2. \/ op' = op
          \/ /\ op' = [op EXCEPT ![v] = NoOp]
             /\ status[v] \in Active => status' = WithRoles(v, "cancelled")
      BY <2>11 DEF ReleaseStale
    <3> QED BY <1>1, <1>2, <1>3, <3>1, <3>2 DEF Active
  <2> QED BY <2>1, <2>2, <2>3, <2>4, <2>5, <2>6, <2>7, <2>8, <2>9, <2>10, <2>11, Frames
<1> QED BY <1>4, <1>5, <1>6, <1>7, <1>8 DEF Held

LEMMA HeldStays ==
  ASSUME LifeInv, Next, NEW q \in Proc, NEW w \in Workflow, proc[q].on = w, Held(q, w)
  PROVE  Held(q, w)'
<1>1. ASSUME NEW p \in Proc, Step(p) PROVE Held(q, w)'
  BY <1>1, CancelledStays, ClaimKeeps DEF Held
<1>2. ASSUME NEW p \in Proc, NEW v \in Workflow, Command(p, v) PROVE Held(q, w)'
  <2>1. /\ attached' = attached /\ op' = op /\ request'[w] \in {request[w], None}
        /\ outdated' \subseteq outdated
        /\ status[w] # "requested" => status'[w] = status[w]
    BY <1>2, CommandFrame DEF LifeInv, Typed, Types
  <2> QED BY <2>1 DEF Held
<1>3. ASSUME NEW v \in Workflow, ClaimAges(v) PROVE Held(q, w)'
  <2>1. op'[w].kind = op[w].kind /\ op'[w].target = op[w].target
    BY <1>3, Ages DEF ClaimAges, LifeInv, Typed, Types
  <2> QED BY <1>3, <2>1 DEF ClaimAges, Held
<1>4. CASE UNCHANGED <<attached, status, op, outdated, request>>
  BY <1>4 DEF Held
<1> QED BY <1>1, <1>2, <1>3, <1>4 DEF Next, Crash, AgentExits, rows

LEMMA ExpiryNext == LifeInv /\ ExpiryHeld /\ [Next]_vars => ExpiryHeld'
<1> SUFFICES ASSUME LifeInv, ExpiryHeld, Next, NEW q \in Proc, Expires(q)'
             PROVE  Held(q, proc[q].on)'
  BY DEF ExpiryHeld, Expires, Held, vars, rows
<1>1. proc \in [Proc -> Process] /\ \A r \in Proc : Bound(proc[r])
  BY DEF LifeInv, Typed, Types, Process
<1>2. ASSUME Expires(q), proc'[q].on = proc[q].on PROVE Held(q, proc[q].on)'
  <2>1. proc[q].on \in Workflow /\ Held(q, proc[q].on)
    BY <1>1, <1>2 DEF ExpiryHeld, Expires, Bound
  <2>2. PICK w \in Workflow : w = proc[q].on
    BY <2>1
  <2>3. Held(q, w)'
    BY <2>1, <2>2, HeldStays
  <2> QED BY <1>2, <2>2, <2>3 DEF Held
<1>3. CASE proc'[q] = proc[q]
  BY <1>2, <1>3 DEF Expires
<1>4. ASSUME Step(q) PROVE Held(q, proc[q].on)'
  <2>1. /\ <<proc[q].at, proc'[q].at>> \in Routes /\ proc'[q].on = proc[q].on
        /\ proc[q].at # "create" => proc'[q].goal = proc[q].goal
    BY <1>4, Routed DEF LifeInv, Expires, Idle
  <2>2. \/ Expires(q)
        \/ proc[q].at = "timing" /\ proc[q].goal = "timeout" /\ proc'[q].at # "idle"
    BY <2>1 DEF Routes, Expires
  <2>3. CASE proc[q].at = "timing" /\ proc[q].goal = "timeout" /\ proc'[q].at # "idle"
    <3>1. ClaimTerminal(q)
      <4>1. ~FinishRefused(q)
        BY <1>1, <2>3, Returns DEF FinishRefused, Idle
      <4> QED BY <1>4, <2>3, <4>1
              DEF Step, StartStep, FinishStep, OtherStep, At, CreateExternal, AttachExternal,
                  ClaimActivation, Activate, CompleteActivation, AttachPartialExternal,
                  CloseStarted, MarkReconciled, FailStart, CancelSuccessors,
                  CancelOwnedRequests, CancelFirst, UpdateExternal, CompleteTerminal, Tidy,
                  CancelFinally, CloseFinished, MarkResumed, LaunchAgent, ReplaceAgent,
                  DiscardAgent, CloseCompleted, TakeOver, CloseStale, ReleaseStale,
                  CancelStale, RetryFailed, MaintainCancels, Acquire, RecheckOwner
    <3> DEFINE w == proc[q].on
    <3>2. w \in Workflow /\ Target(q) = "cancelled"
      BY <1>1, <2>3 DEF Bound, Target
    <3>3. status[w] = "running" /\ q \notin outdated /\ request[w] = None
      BY <2>3, <3>1 DEF ClaimTerminal, StillTimedOut
    <3>4. attached[w] /\ op \in [Workflow -> Operation]
      BY <3>2, <3>3 DEF LifeInv, RowInv, Typed, Types
    <3>5. /\ UNCHANGED <<status, request, attached, outdated>>
          /\ \/ op[w].kind = "terminal" /\ op[w].target = "cancelled"
                /\ op' = [op EXCEPT ![w] = IF @.error THEN Claim("terminal", "cancelled") ELSE @]
             \/ op' = [op EXCEPT ![w] = Claim("terminal", "cancelled")]
      BY <3>1, <3>2, <3>3 DEF ClaimTerminal
    <3>6. op'[w].kind = "terminal" /\ op'[w].target = "cancelled"
      BY <3>2, <3>4, <3>5 DEF Claim
    <3> QED BY <2>1, <3>3, <3>4, <3>5, <3>6 DEF Held
  <2> QED BY <1>2, <2>1, <2>2, <2>3
<1>5. ASSUME NEW p \in Proc, p # q, Step(p) \/ Crash(p) \/ \E w \in Workflow : Command(p, w)
      PROVE  proc'[q] = proc[q]
  BY <1>1, <1>5, Routed, Returns, CommandBegins DEF LifeInv, Crash
<1>6. ~Crash(q)
  BY <1>1, Returns DEF Crash, Idle, Expires
<1>7. ASSUME NEW w \in Workflow, Command(q, w) PROVE FALSE
  BY <1>7, CommandBegins DEF LifeInv, Expires, BeginStart, ObserveTimeout
<1>8. ASSUME NEW x, AgentExits(x) \/ ClaimAges(x) PROVE proc'[q] = proc[q]
  BY <1>8 DEF AgentExits, ClaimAges
<1> QED BY <1>3, <1>4, <1>5, <1>6, <1>7, <1>8 DEF Next

\* A role that is ended because it took too long has not been resumed since the
\* supervisor looked and waits for nothing: the claim made after the second look
\* bars resumes and requests until the role is cancelled.
THEOREM TimeoutIsFreshHolds == Spec => TimeoutIsFresh
<1>1. Init => ExpiryHeld
  BY DEF Init, ExpiryHeld, Expires, Idle
<1>2. Spec => []ExpiryHeld
  BY <1>1, ExpiryNext, LifeAlways, PTL DEF Spec
<1>3. ASSUME ExpiryHeld
      PROVE  [\A p \in Proc :
                LET w == proc[p].on
                IN /\ At(p, "complete") /\ proc[p].goal = "timeout"
                   /\ status[w] = "running" /\ status'[w] = "cancelled"
                   => p \notin outdated /\ request[w] = None]_vars
  BY <1>3 DEF ExpiryHeld, Expires, Held, At
<1> QED BY <1>2, <1>3, PTL DEF TimeoutIsFresh

-----------------------------------------------------------------------------
(* Plans. *)

\* What a plan is like: the manager comes before the worker and the reviewers,
\* the worker before the reviewers, and reviewers are beside one another.
InPlan ==
  /\ \A w \in Workflow : \A v \in After[w] \cup Beside[w] : After[v] \subseteq After[w]
  /\ \A w, u \in Workflow :
       After[w] \cap After[u] # {} => w = u \/ w \in After[u] \/ u \in After[w]

LEMMA MishapsCount ==
  ASSUME LifeInv, [Next]_vars
  PROVE  mishaps' = mishaps \/ (mishaps' = mishaps + 1 /\ mishaps' # 0)
<1>1. mishaps + 1 # 0
  BY LifecycleAssumption DEF LifeInv, Typed, Types
<1>2. ASSUME NEW p \in Proc, StartStep(p) PROVE mishaps' \in {mishaps, mishaps + 1}
  BY <1>2 DEF StartStep, CreateExternal, AttachExternal, ClaimActivation, Activate,
              CompleteActivation, AttachPartialExternal, CloseStarted, MarkReconciled,
              FailStart, CancelSuccessors, CancelOwnedRequests, Closes, FailsToClose, world
<1>3. ASSUME NEW p \in Proc, FinishStep(p) PROVE mishaps' \in {mishaps, mishaps + 1}
  BY <1>3 DEF FinishStep, ClaimTerminal, FinishRefused, CancelFirst, UpdateExternal,
              CompleteTerminal, Tidy, CancelFinally, CloseFinished, Closes, FailsToClose, world
<1>4. ASSUME NEW p \in Proc, OtherStep(p) PROVE mishaps' \in {mishaps, mishaps + 1}
  BY <1>4 DEF OtherStep, MarkResumed, LaunchAgent, ReplaceAgent, DiscardAgent, CloseCompleted,
              TakeOver, CloseStale, ReleaseStale, CancelStale, RetryFailed, MaintainCancels,
              Acquire, RecheckOwner, Closes, FailsToClose, world
<1>5. ASSUME NEW p \in Proc, NEW w \in Workflow, Command(p, w) PROVE mishaps' = mishaps
  BY <1>5, CommandFrame DEF LifeInv, world
<1> QED BY <1>1, <1>2, <1>3, <1>4, <1>5
        DEF Next, Step, vars, world, Crash, AgentExits, ClaimAges

\* Who is to cancel the followers of a workflow does just that.
LEMMA SuccessorsNext ==
  ASSUME Typed, NEW p \in Proc, Step(p), At(p, "successors")
  PROVE  CancelSuccessors(p)
BY DEF Step, StartStep, FinishStep, OtherStep, At, CreateExternal, AttachExternal,
       ClaimActivation, Activate, CompleteActivation, AttachPartialExternal, CloseStarted,
       MarkReconciled, FailStart, CancelOwnedRequests, ClaimTerminal, FinishRefused,
       CancelFirst, UpdateExternal, CompleteTerminal, Tidy, CancelFinally, CloseFinished,
       MarkResumed, LaunchAgent, ReplaceAgent, DiscardAgent, CloseCompleted, TakeOver,
       CloseStale, ReleaseStale, CancelStale, RetryFailed, MaintainCancels, Acquire, RecheckOwner

\* A step other than a retry requests nothing, and what it stops takes its
\* followers with it or leaves them to its process.
LEMMA StopsWhole ==
  ASSUME LifeInv, InPlan, NEW p \in Proc, Step(p), ~RetryFailed(p),
         NEW w \in Workflow, NEW v \in After[w], status'[v] = "requested"
  PROVE  /\ status[v] = "requested"
         /\ status'[w] \in {"failed", "cancelled"} =>
              \/ status[w] \in {"failed", "cancelled"}
              \/ proc'[p].on = w /\ proc'[p].at = "successors"
<1> DEFINE x == proc[p].on
           Unmoved == status'[w] = status[w] /\ status[v] = "requested"
<1>1. /\ status \in [Workflow -> Active \cup Ended] /\ \A q \in Proc : Bound(proc[q])
      /\ v \in Workflow /\ proc \in [Proc -> Process]
  BY LifecycleAssumption DEF LifeInv, Typed, Types, Process
<1>2. x \in Workflow
  BY <1>1, Routed DEF LifeInv, Bound
<1>3. ASSUME NEW s \in Active \cup Ended, status' = WithRoles(x, s),
             s \in {"failed", "cancelled"} \/ s = status[x]
      PROVE  Unmoved
  <2>1. v \notin After[x]
    BY <1>2, <1>3, RolesEnd, <1>1
  <2>2. w \notin After[x] \cup Beside[x]
    BY <1>2, <2>1 DEF InPlan
  <2>3. v # x => status[v] = "requested"
    BY <1>1, <1>2, <1>3, RolesEnd
  <2>4. w # x => status'[w] = status[w]
    BY <1>1, <1>2, <1>3, <2>2, RolesEnd
  <2>5. v = x => status[v] = "requested"
    BY <1>1, <1>2, <1>3, RolesEnd
  <2> QED BY <2>1, <2>3, <2>4, <2>5
<1>4. ASSUME NEW s \in Active \cup Ended, status' = WithFollowers(x, s),
             s \in {"failed", "cancelled"}
      PROVE  Unmoved
  <2>1. v \notin After[x] /\ v # x
    BY <1>2, <1>4, FollowersEnd, <1>1
  <2>2. w \notin After[x] /\ w # x
    BY <1>2, <2>1 DEF InPlan
  <2>3. status[v] = "requested" /\ status'[w] = status[w]
    BY <1>1, <1>2, <1>4, <2>1, <2>2, FollowersEnd
  <2> QED BY <2>3
<1>5. CASE status' = status
  BY <1>5
<1>6. CASE CompleteActivation(p)
  BY <1>1, <1>2, <1>6 DEF CompleteActivation
<1>7. CASE FailStart(p) \/ CancelStale(p)
  <2>1. \/ status' = status
        \/ /\ status' = [status EXCEPT ![x] = "failed"] \/ status' = [status EXCEPT ![x] = "cancelled"]
           /\ Go(p, "successors")
    BY <1>7 DEF FailStart, CancelStale
  <2>2. Go(p, "successors") => proc'[p].on = x /\ proc'[p].at = "successors"
    BY <1>1, Goes DEF Places
  <2> QED BY <1>1, <1>2, <2>1, <2>2
<1>8. CASE CancelSuccessors(p) \/ Tidy(p)
  <2>1. status' = status \/ status' = WithRoles(x, status[x])
    BY <1>8 DEF CancelSuccessors, Tidy
  <2> QED BY <1>1, <1>2, <1>3, <1>5, <2>1
<1>9. CASE ClaimTerminal(p) \/ ReleaseStale(p)
  <2>1. status' = status \/ status' = WithRoles(x, "cancelled")
    BY <1>9 DEF ClaimTerminal, ReleaseStale
  <2> QED BY <1>3, <1>5, <2>1 DEF Ended
<1>10. CASE CompleteTerminal(p)
  <2>1. Target(p) \in Ended
    BY <1>1, <1>10 DEF CompleteTerminal, At, Bound, Finishing, Target, Ended
  <2>2. \/ status' = status \/ status' = [status EXCEPT ![x] = "completed"]
        \/ status' = WithFollowers(x, Target(p)) /\ Target(p) # "completed"
    BY <1>10 DEF CompleteTerminal
  <2>3. CASE status' = WithFollowers(x, Target(p)) /\ Target(p) # "completed"
    BY <1>4, <2>1, <2>3 DEF Ended
  <2>4. CASE status' = [status EXCEPT ![x] = "completed"]
    BY <1>1, <1>2, <2>4
  <2> QED BY <1>5, <2>2, <2>3, <2>4
<1> QED BY <1>5, <1>6, <1>7, <1>8, <1>9, <1>10, Frames

\* The retry of a failed role cannot leave one requested behind another that was
\* stopped: all before the failed one are through, and those between it and the
\* requested one are requested again with it.
LEMMA RetryWhole ==
  ASSUME LifeInv, InPlan, NEW p \in Proc, RetryFailed(p),
         NEW w \in Workflow, NEW v \in After[w],
         status'[v] = "requested", status'[w] \in {"failed", "cancelled"}
  PROVE  status[v] = "requested" /\ status[w] \in {"failed", "cancelled"}
<1> DEFINE x == proc[p].on
<1>1. /\ status \in [Workflow -> Active \cup Ended] /\ x \in Workflow /\ v \in Workflow
  BY LifecycleAssumption DEF LifeInv, Typed, Types, Bound, RetryFailed, At
<1>2. CASE status' = status
  BY <1>2
<1>3. CASE status' # status
  <2>1. /\ status[x] = "failed"
        /\ status' = [u \in Workflow |->
              IF u = x \/ (u \in After[x] /\ status[u] = "cancelled")
              THEN "requested" ELSE status[u]]
    BY <1>3 DEF RetryFailed, Retriable
  <2>2. w # x /\ status[w] = status'[w] /\ ~(w \in After[x] /\ status[w] = "cancelled")
    BY <1>1, <2>1
  <2>3. \A u \in Workflow : x \in After[u] => status[u] = "completed"
    BY <1>1, <2>1 DEF LifeInv, StartsInOrder, Reached
  <2>4. x \notin After[w]
    BY <2>2, <2>3
  <2>5. status[w] = "failed" => w \notin After[x]
    BY <1>1, <2>1 DEF LifeInv, StartsInOrder, Reached
  <2>6. w \notin After[x]
    BY <2>2, <2>5
  <2>7. v \notin After[x]
    BY <1>1, <2>2, <2>4, <2>6 DEF InPlan
  <2> QED BY <1>1, <2>1, <2>2, <2>4, <2>7
<1> QED BY <1>2, <1>3

\* As long as no command has died between its steps, no role is left requested
\* behind one that failed or was cancelled once the command that stopped it is
\* through, whatever is retried in between.
THEOREM NoRoleWaitsInVainHolds ==
  ASSUME InPlan
  PROVE  Spec => [](mishaps = 0 => NoRoleWaitsInVain)
<1> DEFINE Whole == mishaps = 0 => NoRoleWaitsInVain
<1>1. Init => Whole
  BY DEF Init, NoRoleWaitsInVain
<1>2. LifeInv /\ Whole /\ [Next]_vars => Whole'
  <2> SUFFICES ASSUME LifeInv, Whole, [Next]_vars, mishaps' = 0,
                      NEW w \in Workflow, NEW v \in Workflow, v \in After[w],
                      status'[w] \in {"failed", "cancelled"}, status'[v] = "requested"
               PROVE  \E q \in Proc : proc'[q].on = w /\ proc'[q].at = "successors"
    BY DEF NoRoleWaitsInVain, At
  <2>1. mishaps = 0
    BY MishapsCount
  <2>2. /\ status \in [Workflow -> Active \cup Ended] /\ proc \in [Proc -> Process]
    BY DEF LifeInv, Typed, Types, Process
  <2>3. ASSUME status[w] \in {"failed", "cancelled"}, status[v] = "requested"
        PROVE  \E q \in Proc : proc[q].on = w /\ proc[q].at = "successors"
    BY <2>1, <2>3 DEF NoRoleWaitsInVain, At
  <2>4. ASSUME NEW p \in Proc, Step(p)
        PROVE  \E q \in Proc : proc'[q].on = w /\ proc'[q].at = "successors"
    <3>1. \A q \in Proc \ {p} : proc'[q] = proc[q]
      BY <2>4, Routed DEF LifeInv
    <3>2. \/ status[w] \in {"failed", "cancelled"} /\ status[v] = "requested"
          \/ proc'[p].on = w /\ proc'[p].at = "successors"
      BY <2>4, StopsWhole, RetryWhole
    <3>3. ASSUME proc[p].on = w, proc[p].at = "successors" PROVE FALSE
      <4>1. status' = WithRoles(w, status[w])
        BY <2>4, <3>3, SuccessorsNext DEF LifeInv, At, CancelSuccessors
      <4> QED BY <2>2, <4>1, RolesEnd
    <3> QED BY <2>3, <3>1, <3>2, <3>3
  <2>5. ASSUME NEW p \in Proc, NEW u \in Workflow, Command(p, u)
        PROVE  \E q \in Proc : proc'[q].on = w /\ proc'[q].at = "successors"
    <3>1. proc[p].at = "idle" /\ \A q \in Proc \ {p} : proc'[q] = proc[q]
      BY <2>5, CommandBegins DEF LifeInv
    <3>2. status[w] \in {"failed", "cancelled"} /\ status[v] = "requested"
      BY <2>2, <2>5, CommandFrame DEF LifeInv
    <3> QED BY <2>3, <3>1, <3>2
  <2>6. ~\E p \in Proc : Crash(p)
    BY <2>1 DEF Crash
  <2>7. CASE UNCHANGED <<status, proc>>
    BY <2>3, <2>7
  <2> QED BY <2>4, <2>5, <2>6, <2>7 DEF Next, vars, rows, AgentExits, ClaimAges
<1> QED BY <1>1, <1>2, LifeAlways, PTL DEF Spec
LEMMA AgentFrames ==
  ASSUME NEW p \in Proc, Step(p)
  PROVE  /\ \/ owned' = owned
            \/ AttachExternal(p) \/ MarkReconciled(p) \/ CloseFinished(p) \/ ReplaceAgent(p)
            \/ RetryFailed(p)
         /\ \/ reconciled' = reconciled
            \/ MarkReconciled(p) \/ CloseFinished(p) \/ ReleaseStale(p) \/ RetryFailed(p)
         /\ \/ alive' = alive
            \/ CreateExternal(p) \/ CloseStarted(p) \/ CloseFinished(p) \/ LaunchAgent(p)
            \/ DiscardAgent(p) \/ CloseCompleted(p) \/ CloseStale(p)
         /\ \/ lost' = lost
            \/ CloseStarted(p) \/ CloseFinished(p) \/ ReplaceAgent(p) \/ DiscardAgent(p)
            \/ CloseCompleted(p) \/ CloseStale(p)
         /\ \/ terminal' = terminal
            \/ AttachExternal(p) \/ ReplaceAgent(p) \/ RetryFailed(p)
<1>1. CASE StartStep(p)
  <2>1. \/ owned' = owned
        \/ AttachExternal(p)
        \/ MarkReconciled(p)
    BY <1>1 DEF StartStep, CreateExternal, ClaimActivation, Activate,
       CompleteActivation, AttachPartialExternal, CloseStarted, FailStart,
       CancelSuccessors, CancelOwnedRequests, rows, world
  <2>2. \/ reconciled' = reconciled
        \/ MarkReconciled(p)
    BY <1>1 DEF StartStep, CreateExternal, AttachExternal, ClaimActivation, Activate,
       CompleteActivation, AttachPartialExternal, CloseStarted, FailStart,
       CancelSuccessors, CancelOwnedRequests, rows, world
  <2>3. \/ alive' = alive
        \/ CreateExternal(p)
        \/ CloseStarted(p)
    BY <1>1 DEF StartStep, AttachExternal, ClaimActivation, Activate,
       CompleteActivation, AttachPartialExternal, MarkReconciled, FailStart,
       CancelSuccessors, CancelOwnedRequests, rows, world
  <2>4. \/ lost' = lost
        \/ CloseStarted(p)
    BY <1>1 DEF StartStep, CreateExternal, AttachExternal, ClaimActivation, Activate,
       CompleteActivation, AttachPartialExternal, MarkReconciled, FailStart,
       CancelSuccessors, CancelOwnedRequests, rows, world
  <2>5. \/ terminal' = terminal
        \/ AttachExternal(p)
    BY <1>1 DEF StartStep, CreateExternal, ClaimActivation, Activate,
       CompleteActivation, AttachPartialExternal, CloseStarted, MarkReconciled, FailStart,
       CancelSuccessors, CancelOwnedRequests, rows, world
  <2> QED BY <2>1, <2>2, <2>3, <2>4, <2>5
<1>2. CASE FinishStep(p)
  <2>1. \/ owned' = owned
        \/ CloseFinished(p)
    BY <1>2 DEF FinishStep, ClaimTerminal, FinishRefused, CancelFirst, UpdateExternal,
       CompleteTerminal, Tidy, CancelFinally, rows, world
  <2>2. \/ reconciled' = reconciled
        \/ CloseFinished(p)
    BY <1>2 DEF FinishStep, ClaimTerminal, FinishRefused, CancelFirst, UpdateExternal,
       CompleteTerminal, Tidy, CancelFinally, rows, world
  <2>3. \/ alive' = alive
        \/ CloseFinished(p)
    BY <1>2 DEF FinishStep, ClaimTerminal, FinishRefused, CancelFirst, UpdateExternal,
       CompleteTerminal, Tidy, CancelFinally, rows, world
  <2>4. \/ lost' = lost
        \/ CloseFinished(p)
    BY <1>2 DEF FinishStep, ClaimTerminal, FinishRefused, CancelFirst, UpdateExternal,
       CompleteTerminal, Tidy, CancelFinally, rows, world
  <2>5. \/ terminal' = terminal
    BY <1>2 DEF FinishStep, ClaimTerminal, FinishRefused, CancelFirst, UpdateExternal,
       CompleteTerminal, Tidy, CancelFinally, CloseFinished, rows, world
  <2> QED BY <2>1, <2>2, <2>3, <2>4, <2>5
<1>3. CASE OtherStep(p)
  <2>1. \/ owned' = owned
        \/ ReplaceAgent(p)
        \/ RetryFailed(p)
    BY <1>3 DEF OtherStep, MarkResumed, LaunchAgent, DiscardAgent, CloseCompleted,
       TakeOver, CloseStale, ReleaseStale, CancelStale, MaintainCancels, Acquire,
       RecheckOwner, rows, world
  <2>2. \/ reconciled' = reconciled
        \/ ReleaseStale(p)
        \/ RetryFailed(p)
    BY <1>3 DEF OtherStep, MarkResumed, LaunchAgent, ReplaceAgent, DiscardAgent,
       CloseCompleted, TakeOver, CloseStale, CancelStale, MaintainCancels, Acquire,
       RecheckOwner, rows, world
  <2>3. \/ alive' = alive
        \/ LaunchAgent(p)
        \/ DiscardAgent(p)
        \/ CloseCompleted(p)
        \/ CloseStale(p)
    BY <1>3 DEF OtherStep, MarkResumed, ReplaceAgent, TakeOver, ReleaseStale,
       CancelStale, RetryFailed, MaintainCancels, Acquire, RecheckOwner, rows, world
  <2>4. \/ lost' = lost
        \/ ReplaceAgent(p)
        \/ DiscardAgent(p)
        \/ CloseCompleted(p)
        \/ CloseStale(p)
    BY <1>3 DEF OtherStep, MarkResumed, LaunchAgent, TakeOver, ReleaseStale,
       CancelStale, RetryFailed, MaintainCancels, Acquire, RecheckOwner, rows, world
  <2>5. \/ terminal' = terminal
        \/ ReplaceAgent(p)
        \/ RetryFailed(p)
    BY <1>3 DEF OtherStep, MarkResumed, LaunchAgent, DiscardAgent, CloseCompleted,
       TakeOver, CloseStale, ReleaseStale, CancelStale, MaintainCancels, Acquire,
       RecheckOwner, rows, world
  <2> QED BY <2>1, <2>2, <2>3, <2>4, <2>5
<1> QED BY <1>1, <1>2, <1>3 DEF Step

-----------------------------------------------------------------------------
(* Agents. *)

Carrying == {"attach", "undo", "close", "replace", "discard"}

\* Every agent that is not given up is owned by a workflow that is not released
\* or carried by a process.
Agents ==
  \A t \in alive \ lost :
    \/ \E w \in Workflow : ~reconciled[w] /\ t \in owned[w]
    \/ \E p \in Proc : proc[p].at \in Carrying /\ proc[p].handle = t

\* Only what runs no longer is released, and who has nothing in Orca owns nothing.
ReleasedIsGone ==
  \A w \in Workflow : /\ reconciled[w] => owned[w] \cap alive = {}
                      /\ ~attached[w] => owned[w] = {}

\* What a process knows where it is: what it carries, that it has closed what it
\* is about to release, and which command brought it here.
WhatProcessesKnow ==
  \A p \in Proc :
    LET w == proc[p].on IN
    /\ proc[p].at \in {"attach", "claim", "activate", "activated"} => proc[p].goal = "known"
    /\ proc[p].at \in {"undo", "close"} => proc[p].goal = "known" \/ proc[p].handle = None
    /\ proc[p].at \in {"release", "releaseStale"} => owned[w] \cap alive = {}
    /\ proc[p].at \in {"closeStale", "releaseStale"} => attached[w]
    /\ proc[p].at \in {"takeOver", "closeStale", "releaseStale"} => "cleanup" \in Commands
    /\ proc[p].at \in {"mark", "launch", "replace"} => {"resume", "restart"} \cap Commands # {}
    /\ proc[p].at = "retry" => "retry" \in Commands

AgentInv == LifeInv /\ Agents /\ ReleasedIsGone /\ WhatProcessesKnow

\* Nobody runs in a worktree that existed before; who cleans up does not bring
\* workflows back or replace their agents.
OneLife ==
  /\ Guest = {}
  /\ "cleanup" \in Commands => {"retry", "resume", "restart"} \cap Commands = {}

\* A terminal that comes is new and in the hands of its process; the others stay
\* or go.
LEMMA AgentsCome ==
  ASSUME LifeInv, NEW p \in Proc, Step(p), NEW t \in alive', t \notin alive
  PROVE  /\ \A w \in Workflow : t \notin owned[w]
         /\ owned' = owned /\ reconciled' = reconciled
         /\ proc'[p].at \in Carrying /\ proc'[p].handle = t
<1>1. /\ proc \in [Proc -> Process] /\ \A w \in Workflow : owned[w] \in SUBSET Terminal
      /\ NoneIsNobody
  BY NoneIsNobody DEF LifeInv, Typed, Types, Process
<1>2. ASSUME NEW H, Closes(H) \/ FailsToClose(H) PROVE FALSE
  BY <1>2, Closing DEF LifeInv, Typed
<1>3. CASE CreateExternal(p)
  <2>1. t = proc'[p].handle /\ proc'[p].at \in {"attach", "undo"} /\ Fresh(t)
    BY <1>1, <1>3, Creates
  <2> QED BY <1>3, <2>1 DEF CreateExternal, rows, Fresh, Carrying
<1>4. CASE LaunchAgent(p)
  <2>1. \/ \E h \in Terminal :
             /\ Fresh(h) /\ alive' = alive \cup {h}
             /\ proc' = [proc EXCEPT ![p].at = "replace", ![p].handle = h]
        \/ alive' = alive
    BY <1>4 DEF LaunchAgent
  <2>2. PICK h \in Terminal :
             /\ Fresh(h) /\ alive' = alive \cup {h}
             /\ proc' = [proc EXCEPT ![p].at = "replace", ![p].handle = h]
    BY <2>1
  <2>3. h = t /\ proc'[p].at = "replace" /\ proc'[p].handle = h
    BY <1>1, <2>2, Makes DEF Places
  <2> QED BY <1>4, <2>2, <2>3 DEF LaunchAgent, rows, Fresh, Carrying
<1>5. ASSUME alive' = alive PROVE FALSE
  BY <1>5
<1>6. ~CloseStarted(p)
  BY <1>2, <1>5 DEF CloseStarted, world
<1>7. ~CloseFinished(p)
  BY <1>2, <1>5 DEF CloseFinished, world
<1>8. ~DiscardAgent(p)
  BY <1>2 DEF DiscardAgent
<1>9. ~CloseCompleted(p)
  BY <1>2 DEF CloseCompleted
<1>10. ~CloseStale(p)
  BY <1>2 DEF CloseStale
<1> QED BY <1>3, <1>4, <1>5, <1>6, <1>7, <1>8, <1>9, <1>10, AgentFrames

\* What is owned of a workflow grows only while that is not released.
LEMMA OwnedGrows ==
  ASSUME LifeInv, NEW p \in Proc, Step(p), NEW w \in Workflow
  PROVE  \/ owned'[w] \subseteq owned[w]
         \/ /\ AttachExternal(p) /\ proc[p].at = "attach" /\ status[w] = "starting"
            /\ proc[p].on = w /\ attached'[w] /\ ~reconciled'[w]
         \/ /\ ReplaceAgent(p) /\ proc[p].at = "replace" /\ status[w] = "running"
            /\ attached'[w] /\ ~reconciled'[w]
<1>1. /\ owned \in [Workflow -> SUBSET Terminal] /\ proc \in [Proc -> Process]
      /\ \A q \in Proc : Bound(proc[q]) /\ attached \in [Workflow -> BOOLEAN]
  BY DEF LifeInv, Typed, Types, Process
<1>2. proc[p].on \in Workflow
  BY <1>1, Routed DEF LifeInv, Bound
<1>3. CASE owned' = owned
  BY <1>3
<1>4. CASE AttachExternal(p)
  <2>1. /\ proc[p].at = "attach" /\ reconciled' = reconciled
        /\ \/ owned' = owned
           \/ /\ status[proc[p].on] = "starting"
              /\ attached' = [attached EXCEPT ![proc[p].on] = TRUE]
              /\ owned' = [owned EXCEPT ![proc[p].on] = @ \cup {proc[p].handle}]
    BY <1>4 DEF AttachExternal, MayAttach, At
  <2>2. status[proc[p].on] = "starting" => ~reconciled[proc[p].on]
    BY <2>1 DEF LifeInv, StartKnowsRow
  <2> QED BY <1>1, <1>2, <1>4, <2>1, <2>2
<1>5. CASE ReplaceAgent(p)
  <2>1. /\ proc[p].at = "replace" /\ UNCHANGED <<attached, reconciled>>
        /\ \/ owned' = owned
           \/ /\ status[proc[p].on] = "running"
              /\ owned' = [owned EXCEPT ![proc[p].on] = {proc[p].handle}]
    BY <1>5 DEF ReplaceAgent, At
  <2>2. status[proc[p].on] = "running" => attached[proc[p].on] /\ ~reconciled[proc[p].on]
    BY <1>2 DEF LifeInv, RowInv
  <2> QED BY <1>1, <1>2, <1>5, <2>1, <2>2
<1>6. CASE MarkReconciled(p) \/ RetryFailed(p)
  BY <1>1, <1>2, <1>6 DEF MarkReconciled, RetryFailed
<1>7. CASE CloseFinished(p)
  BY <1>1, <1>2, <1>7 DEF CloseFinished, OwnedHandles
<1> QED BY <1>3, <1>4, <1>5, <1>6, <1>7, AgentFrames

\* A workflow keeps what lives and is not given up, unless it is released, which
\* happens only when nothing of it lives.
LEMMA OwnedStays ==
  ASSUME AgentInv, OneLife, NEW p \in Proc, Step(p), NEW w \in Workflow, NEW t \in owned[w],
         ~reconciled[w], t \in alive', t \notin lost'
  PROVE  t \in owned'[w] /\ ~reconciled'[w]
<1> DEFINE v == proc[p].on
<1>1. /\ owned \in [Workflow -> SUBSET Terminal] /\ reconciled \in [Workflow -> BOOLEAN]
      /\ \A q \in Proc : Bound(proc[q])
  BY DEF AgentInv, LifeInv, Typed, Types
<1>2. v \in Workflow
  BY <1>1, Routed DEF AgentInv, LifeInv, Bound
<1>3. t \in alive
  BY AgentsCome DEF AgentInv
<1>4. CASE MarkReconciled(p)
  <2>1. v # w
    BY <1>3, <1>4 DEF MarkReconciled, At, AgentInv, WhatProcessesKnow
  <2> QED BY <1>1, <1>2, <1>4, <2>1 DEF MarkReconciled
<1>5. CASE CloseFinished(p)
  <2> DEFINE H == OwnedHandles(v)
  <2>1. /\ reconciled' = reconciled
        /\ \/ Closes(H) /\ owned' = [owned EXCEPT ![v] = @ \ H]
           \/ owned' = [owned EXCEPT ![v] = (@ \ H) \cup (H \cap alive')]
    BY <1>5 DEF CloseFinished, OneLife
  <2>2. Closes(H) => t \notin H
    BY DEF Closes
  <2> HIDE DEF H
  <2> QED BY <1>1, <1>2, <2>1, <2>2
<1>6. CASE ReplaceAgent(p)
  <2>1. /\ reconciled' = reconciled
        /\ owned' = owned \/ (owned' = [owned EXCEPT ![v] = {proc[p].handle}]
                              /\ lost' = lost \cup (owned[v] \cap alive))
    BY <1>6 DEF ReplaceAgent
  <2> QED BY <1>1, <1>2, <1>3, <2>1
<1>7. CASE ReleaseStale(p)
  <2>1. v # w
    BY <1>3, <1>7 DEF ReleaseStale, At, AgentInv, WhatProcessesKnow
  <2> QED BY <1>1, <1>2, <1>7, <2>1 DEF ReleaseStale
<1>8. CASE RetryFailed(p)
  <2>1. \/ UNCHANGED <<owned, reconciled>>
        \/ /\ attached[v] => reconciled[v]
           /\ owned' = [owned EXCEPT ![v] = {}]
           /\ reconciled' = [reconciled EXCEPT ![v] = FALSE]
    BY <1>8 DEF RetryFailed, Retriable
  <2>2. (attached[v] => reconciled[v]) => v # w
    BY DEF AgentInv, ReleasedIsGone
  <2> QED BY <1>1, <1>2, <2>1, <2>2
<1>9. CASE AttachExternal(p)
  BY <1>1, <1>2, <1>9 DEF AttachExternal
<1>10. CASE UNCHANGED <<owned, reconciled>>
  BY <1>10
<1> QED BY <1>4, <1>5, <1>6, <1>7, <1>8, <1>9, <1>10, AgentFrames

\* What a process carries it hands over, keeps, closes or gives up.
LEMMA CarriedStays ==
  ASSUME AgentInv, NEW p \in Proc, Step(p), NEW t \in alive, proc[p].at \in Carrying,
         proc[p].handle = t, t \in alive', t \notin lost'
  PROVE  \/ \E w \in Workflow : ~reconciled'[w] /\ t \in owned'[w]
         \/ proc'[p].at \in Carrying /\ proc'[p].handle = t
<1> DEFINE v == proc[p].on
<1>1. /\ owned \in [Workflow -> SUBSET Terminal] /\ reconciled \in [Workflow -> BOOLEAN]
      /\ proc \in [Proc -> Process] /\ \A q \in Proc : Bound(proc[q])
      /\ alive \in SUBSET Terminal /\ v \in Workflow /\ t # None
  <2>1. alive \in SUBSET Terminal
    BY DEF AgentInv, LifeInv, Typed, Types
  <2> QED BY <2>1, Routed, NoneIsNobody DEF AgentInv, LifeInv, Typed, Types, Process, Bound
<1>2. CASE AttachExternal(p)
  <2>1. CASE Go(p, "undo")
    BY <1>1, <2>1, Goes DEF Places, Carrying
  <2>2. CASE ~Go(p, "undo")
    <3>1. /\ status[v] = "starting" /\ proc[p].at = "attach" /\ reconciled' = reconciled
          /\ owned' = [owned EXCEPT ![v] = @ \cup {t}]
      BY <1>2, <2>2 DEF AttachExternal, MayAttach, At
    <3>2. ~reconciled[v]
      BY <3>1 DEF AgentInv, LifeInv, StartKnowsRow
    <3> QED BY <1>1, <3>1, <3>2
  <2> QED BY <2>1, <2>2
<1>3. CASE AttachPartialExternal(p)
  BY <1>1, <1>3, Goes DEF AttachPartialExternal, Places, Carrying
<1>4. CASE CloseStarted(p)
  <2> DEFINE H == StartedTerminals(p)
  <2>1. t \in H
    BY <1>1 DEF StartedTerminals
  <2>2. ~Closes(H)
    BY <2>1 DEF Closes
  <2>3. proc[p].goal = "known"
    BY <1>1, <1>4 DEF CloseStarted, At, AgentInv, WhatProcessesKnow
  <2>4. lost' = lost \cup (H \ owned[v]) /\ UNCHANGED <<owned, reconciled>>
    BY <1>4, <2>2, <2>3 DEF CloseStarted, rows
  <2>5. t \in owned[v] /\ ~reconciled[v]
    BY <1>1, <2>1, <2>4 DEF AgentInv, ReleasedIsGone
  <2> QED BY <1>1, <2>4, <2>5
<1>5. CASE ReplaceAgent(p)
  <2>1. CASE Go(p, "discard")
    BY <1>1, <2>1, Goes DEF Places, Carrying
  <2>2. CASE ~Go(p, "discard")
    <3>1. /\ status[v] = "running" /\ reconciled' = reconciled
          /\ owned' = [owned EXCEPT ![v] = {t}]
      BY <1>5, <2>2 DEF ReplaceAgent
    <3>2. ~reconciled[v]
      BY <1>1, <3>1 DEF AgentInv, LifeInv, RowInv
    <3> QED BY <1>1, <3>1, <3>2
  <2> QED BY <2>1, <2>2
<1>6. CASE DiscardAgent(p)
  BY <1>6 DEF DiscardAgent, Closes
<1>7. /\ ~CreateExternal(p) /\ ~ClaimActivation(p) /\ ~Activate(p) /\ ~CompleteActivation(p)
      /\ ~MarkReconciled(p) /\ ~FailStart(p) /\ ~CancelSuccessors(p) /\ ~CancelOwnedRequests(p)
  BY DEF Carrying, At, CreateExternal, ClaimActivation, Activate, CompleteActivation,
         MarkReconciled, FailStart, CancelSuccessors, CancelOwnedRequests
<1>8. ~FinishStep(p)
  BY DEF Carrying, At, FinishStep, ClaimTerminal, FinishRefused, CancelFirst, UpdateExternal,
         CompleteTerminal, Tidy, CancelFinally, CloseFinished
<1>9. /\ ~MarkResumed(p) /\ ~LaunchAgent(p) /\ ~CloseCompleted(p) /\ ~TakeOver(p)
      /\ ~CloseStale(p) /\ ~ReleaseStale(p) /\ ~CancelStale(p) /\ ~RetryFailed(p)
      /\ ~MaintainCancels(p) /\ ~Acquire(p) /\ ~RecheckOwner(p)
  BY DEF Carrying, At, MarkResumed, LaunchAgent, CloseCompleted, TakeOver, CloseStale,
         ReleaseStale, CancelStale, RetryFailed, MaintainCancels, Acquire, RecheckOwner
<1> QED BY <1>2, <1>3, <1>4, <1>5, <1>6, <1>7, <1>8, <1>9 DEF Step, StartStep, OtherStep

LEMMA LostGrows ==
  ASSUME NEW p \in Proc, Step(p)
  PROVE  lost \subseteq lost'
BY AgentFrames DEF CloseStarted, CloseFinished, ReplaceAgent, DiscardAgent, CloseCompleted,
   CloseStale, Closes, FailsToClose, world

LEMMA AgentsStep ==
  ASSUME AgentInv, OneLife, NEW p \in Proc, Step(p)
  PROVE  Agents'
<1> SUFFICES ASSUME NEW t \in alive', t \notin lost'
             PROVE  \/ \E w \in Workflow : ~reconciled'[w] /\ t \in owned'[w]
                    \/ \E q \in Proc : proc'[q].at \in Carrying /\ proc'[q].handle = t
  BY DEF Agents
<1>1. CASE t \notin alive
  BY <1>1, AgentsCome DEF AgentInv
<1>2. ASSUME NEW w \in Workflow, ~reconciled[w], t \in owned[w]
      PROVE  ~reconciled'[w] /\ t \in owned'[w]
  BY <1>2, OwnedStays
<1>3. ASSUME NEW q \in Proc, q # p PROVE proc'[q] = proc[q]
  BY <1>3, Routed DEF AgentInv, LifeInv
<1>4. ASSUME NEW q \in Proc, q = p, t \in alive, proc[q].at \in Carrying, proc[q].handle = t
      PROVE  \/ \E w \in Workflow : ~reconciled'[w] /\ t \in owned'[w]
             \/ proc'[q].at \in Carrying /\ proc'[q].handle = t
  BY <1>4, CarriedStays
<1>5. t \notin lost
  BY LostGrows
<1> QED BY <1>1, <1>2, <1>3, <1>4, <1>5 DEF AgentInv, Agents

\* What is left of what a workflow owns, whoever moves, if nobody adds to it.
LEMMA NothingRevives ==
  ASSUME AgentInv, NEW p \in Proc, Step(p), NEW w \in Workflow, owned'[w] \subseteq owned[w],
         owned[w] \cap alive = {}
  PROVE  owned'[w] \cap alive' = {}
BY AgentsCome DEF AgentInv

LEMMA ReleasedStep ==
  ASSUME AgentInv, OneLife, NEW p \in Proc, Step(p)
  PROVE  ReleasedIsGone'
<1> SUFFICES ASSUME NEW w \in Workflow
             PROVE  /\ reconciled'[w] => owned'[w] \cap alive' = {}
                    /\ ~attached'[w] => owned'[w] = {}
  BY DEF ReleasedIsGone
<1>1. /\ owned \in [Workflow -> SUBSET Terminal] /\ reconciled \in [Workflow -> BOOLEAN]
      /\ attached \in [Workflow -> BOOLEAN] /\ \A q \in Proc : Bound(proc[q])
  BY DEF AgentInv, LifeInv, Typed, Types
<1>2. proc[p].on \in Workflow
  BY <1>1, Routed DEF AgentInv, LifeInv, Bound
<1>3. CASE ~(owned'[w] \subseteq owned[w])
  BY <1>3, OwnedGrows DEF AgentInv
<1>4. CASE owned'[w] \subseteq owned[w]
  <2>1. ASSUME reconciled[w] PROVE owned'[w] \cap alive' = {}
    BY <1>4, <2>1, NothingRevives DEF AgentInv, ReleasedIsGone
  <2>2. ASSUME ~reconciled[w], reconciled'[w] PROVE owned'[w] \cap alive' = {}
    <3>1. CASE MarkReconciled(p)
      BY <1>1, <1>2, <2>2, <3>1 DEF MarkReconciled
    <3>2. ~CloseFinished(p)
      BY <2>2 DEF CloseFinished, OneLife
    <3>3. CASE ReleaseStale(p)
      <4>1. proc[p].on = w
        BY <1>1, <1>2, <2>2, <3>3 DEF ReleaseStale
      <4>2. owned[w] \cap alive = {}
        BY <3>3, <4>1 DEF ReleaseStale, At, AgentInv, WhatProcessesKnow
      <4> QED BY <1>4, <4>2, NothingRevives
    <3>4. ~RetryFailed(p)
      BY <1>1, <1>2, <2>2 DEF RetryFailed
    <3> QED BY <2>2, <3>1, <3>2, <3>3, <3>4, AgentFrames
  <2>3. ASSUME ~attached'[w] PROVE owned'[w] = {}
    <3>1. CASE ~attached[w]
      BY <1>4, <3>1 DEF AgentInv, ReleasedIsGone
    <3>2. CASE attached[w]
      <4>1. ~AttachExternal(p)
        BY <1>1, <1>2, <2>3, <3>2 DEF AttachExternal
      <4>2. ~AttachPartialExternal(p)
        BY <1>1, <1>2, <2>3, <3>2 DEF AttachPartialExternal
      <4>3. RetryFailed(p)
        BY <2>3, <3>2, <4>1, <4>2, Frames
      <4> QED BY <1>1, <1>2, <2>3, <3>2, <4>3 DEF RetryFailed
    <3> QED BY <3>1, <3>2
  <2> QED BY <2>1, <2>2, <2>3
<1> QED BY <1>3, <1>4

\* Which step is taken at three places.
LEMMA WhoCloses ==
  ASSUME NEW p \in Proc, Step(p)
  PROVE  /\ proc[p].at = "create" => CreateExternal(p)
         /\ proc[p].at = "close" => CloseStarted(p)
         /\ proc[p].at = "takeOver" => TakeOver(p)
         /\ proc[p].at = "closeStale" => CloseStale(p)
BY DEF Step, StartStep, FinishStep, OtherStep, At, CreateExternal, AttachExternal,
       ClaimActivation, Activate, CompleteActivation, AttachPartialExternal, CloseStarted,
       MarkReconciled, FailStart, CancelSuccessors, CancelOwnedRequests, ClaimTerminal,
       FinishRefused, CancelFirst, UpdateExternal, CompleteTerminal, Tidy, CancelFinally,
       CloseFinished, MarkResumed, LaunchAgent, ReplaceAgent, DiscardAgent, CloseCompleted,
       TakeOver, CloseStale, ReleaseStale, CancelStale, RetryFailed, MaintainCancels, Acquire,
       RecheckOwner

\* The conjuncts of WhatProcessesKnow, for a process
KnowsGoal(q) ==
  /\ q.at \in {"attach", "claim", "activate", "activated"} => q.goal = "known"
  /\ q.at \in {"undo", "close"} => q.goal = "known" \/ q.handle = None
KnowsCommand(q) ==
  /\ q.at \in {"takeOver", "closeStale", "releaseStale"} => "cleanup" \in Commands
  /\ q.at \in {"mark", "launch", "replace"} => {"resume", "restart"} \cap Commands # {}
  /\ q.at = "retry" => "retry" \in Commands
KnowsClosed(q) == q.at \in {"release", "releaseStale"} => owned[q.on] \cap alive = {}
KnowsAttached(q) == q.at \in {"closeStale", "releaseStale"} => attached[q.on]

LEMMA KnowsParts ==
  WhatProcessesKnow <=>
    \A p \in Proc : /\ KnowsGoal(proc[p]) /\ KnowsCommand(proc[p])
                    /\ KnowsClosed(proc[p]) /\ KnowsAttached(proc[p])
BY DEF WhatProcessesKnow, KnowsGoal, KnowsCommand, KnowsClosed, KnowsAttached

LEMMA KnowsStep ==
  ASSUME AgentInv, OneLife, NEW p \in Proc, Step(p)
  PROVE  WhatProcessesKnow'
<1>1. /\ owned \in [Workflow -> SUBSET Terminal] /\ attached \in [Workflow -> BOOLEAN]
      /\ proc \in [Proc -> Process] /\ \A q \in Proc : Bound(proc[q])
  BY DEF AgentInv, LifeInv, Typed, Types, Process
<1>2. \A q \in Proc : /\ KnowsGoal(proc[q]) /\ KnowsCommand(proc[q])
                      /\ KnowsClosed(proc[q]) /\ KnowsAttached(proc[q])
  BY KnowsParts DEF AgentInv
<1>3. ASSUME NEW q \in Proc \ {p} PROVE proc'[q] = proc[q]
  BY Routed DEF AgentInv, LifeInv
<1> DEFINE r == proc'[p]
<1>4. ASSUME r # Idle
      PROVE  /\ <<proc[p].at, r.at>> \in Routes /\ r.on = proc[p].on
             /\ proc[p].at # "create" => r.goal = proc[p].goal /\ r.seen = proc[p].seen
             /\ proc[p].at \in {"attach", "claim", "activate", "activated", "undo", "close",
                                "replace"} => r.handle = proc[p].handle
  BY <1>4, Routed DEF AgentInv, LifeInv
<1>5. KnowsGoal(r)
  <2>1. CASE r = Idle
    BY <2>1 DEF Idle, KnowsGoal
  <2>2. CASE proc[p].at = "create"
    <3>1. CreateExternal(p)
      BY <2>2, WhoCloses
    <3> HIDE DEF r
    <3> QED BY <1>1, <3>1, Creates DEF KnowsGoal, r
  <2>3. CASE r # Idle /\ proc[p].at # "create"
    <3>1. \/ r.at = "close" /\ proc[p].at = "undo"
          \/ r.at \in {"claim", "activate", "activated", "undo"}
             /\ proc[p].at \in {"attach", "claim", "activate", "activated"}
          \/ r.at \notin {"attach", "claim", "activate", "activated", "undo", "close"}
      BY <1>4, <2>3 DEF Routes
    <3> HIDE DEF r
    <3> QED BY <1>2, <1>4, <2>3, <3>1 DEF KnowsGoal
  <2> QED BY <2>1, <2>2, <2>3
<1>6. KnowsCommand(r)
  <2>1. CASE r = Idle
    BY <2>1 DEF Idle, KnowsCommand
  <2>2. CASE r # Idle
    <3>1. \/ r.at \in {"closeStale", "releaseStale"} /\ proc[p].at \in {"takeOver", "closeStale"}
          \/ r.at \in {"launch", "replace"} /\ proc[p].at \in {"mark", "launch"}
          \/ r.at \notin {"takeOver", "closeStale", "releaseStale", "mark", "launch", "replace",
                          "retry"}
      BY <1>4, <2>2 DEF Routes
    <3> HIDE DEF r
    <3> QED BY <1>2, <3>1 DEF KnowsCommand
  <2> QED BY <2>1, <2>2
<1>7. KnowsClosed(proc[p])' /\ KnowsAttached(proc[p])'
  <2>1. CASE r = Idle
    BY <2>1 DEF Idle, KnowsClosed, KnowsAttached
  <2>2. CASE r # Idle
    <3> DEFINE w == proc[p].on
    <3>1. \/ r.at = "release" /\ proc[p].at = "close"
          \/ r.at = "closeStale" /\ proc[p].at = "takeOver"
          \/ r.at = "releaseStale" /\ proc[p].at = "closeStale"
          \/ r.at \notin {"release", "closeStale", "releaseStale"}
      BY <1>4, <2>2 DEF Routes
    <3>2. r.on = w
      BY <1>4, <2>2
    <3>3. ASSUME r.at = "release", proc[p].at = "close" PROVE owned'[w] \cap alive' = {}
      <4>1. CloseStarted(p)
        BY <3>3, WhoCloses
      <4>2. proc'[p].at # "fail"
        BY <3>3
      <4>3. ~Go(p, "fail")
        BY <1>1, <4>2, Goes DEF Places
      <4>4. Closes(StartedTerminals(p)) /\ owned' = owned
        BY <4>1, <4>3 DEF CloseStarted, rows
      <4>5. owned[w] \subseteq StartedTerminals(p)
        <5>1. w \in Workflow
          BY <1>1, <3>3 DEF Bound
        <5> QED BY <1>1, <5>1, NoneIsNobody DEF StartedTerminals
      <4> QED BY <4>4, <4>5 DEF Closes
    <3>4. ASSUME r.at = "closeStale", proc[p].at = "takeOver" PROVE attached'[w]
      <4>1. TakeOver(p)
        BY <3>4, WhoCloses
      <4>2. ~Return(p)
        BY <2>2, <1>1, Returns
      <4> QED BY <4>1, <4>2 DEF TakeOver
    <3>5. ASSUME r.at = "releaseStale", proc[p].at = "closeStale"
          PROVE  attached'[w] /\ owned'[w] \cap alive' = {}
      <4>1. CloseStale(p)
        BY <3>5, WhoCloses
      <4>2. ~Return(p)
        BY <2>2, <1>1, Returns
      <4>3. Closes(owned[w]) /\ owned' = owned /\ attached' = attached
        BY <4>1, <4>2 DEF CloseStale
      <4>4. attached[w]
        BY <1>2, <3>5 DEF KnowsAttached
      <4> QED BY <4>3, <4>4 DEF Closes
    <3> HIDE DEF w
    <3> QED BY <3>1, <3>2, <3>3, <3>4, <3>5 DEF KnowsClosed, KnowsAttached
  <2> QED BY <2>1, <2>2
<1>8. ASSUME NEW q \in Proc \ {p} PROVE KnowsClosed(proc[q])' /\ KnowsAttached(proc[q])'
  <2> DEFINE w == proc[q].on
  <2>1. proc'[q] = proc[q]
    BY <1>3
  <2>2. ASSUME proc[q].at \in {"release", "releaseStale"}
        PROVE  owned'[w] \cap alive' = {}
    <3>1. w \in Workflow /\ owned[w] \cap alive = {}
      BY <1>1, <1>2, <2>2 DEF Bound, KnowsClosed
    <3>2. CASE owned'[w] \subseteq owned[w]
      BY <3>1, <3>2, NothingRevives
    <3>3. ~(/\ AttachExternal(p) /\ proc[p].at = "attach" /\ status[w] = "starting"
            /\ proc[p].on = w)
      <4>1. CASE proc[q].at = "release"
        BY <4>1 DEF AgentInv, LifeInv, OneStart, Starts, Starting
      <4>2. CASE proc[q].at = "releaseStale"
        <5>1. attached[w]
          BY <1>2, <4>2 DEF KnowsAttached
        <5> QED BY <5>1 DEF AgentInv, LifeInv, StartKnowsRow
      <4> QED BY <2>2, <4>1, <4>2
    <3>4. ~(/\ proc[p].at = "replace" /\ status[w] = "running")
      <4>1. CASE proc[q].at = "release"
        BY <4>1 DEF AgentInv, LifeInv, StartsInOrder, Starts, Starting
      <4>2. CASE proc[q].at = "releaseStale"
        BY <1>2, <4>2 DEF KnowsCommand, OneLife
      <4> QED BY <2>2, <4>1, <4>2
    <3> QED BY <3>1, <3>2, <3>3, <3>4, OwnedGrows DEF AgentInv
  <2>3. ASSUME proc[q].at \in {"closeStale", "releaseStale"} PROVE attached'[w]
    <3>1. w \in Workflow /\ attached[w] /\ "cleanup" \in Commands
      BY <1>1, <1>2, <2>3 DEF Bound, KnowsAttached, KnowsCommand
    <3>2. ~RetryFailed(p)
      BY <1>2, <3>1 DEF RetryFailed, At, KnowsCommand, OneLife
    <3>3. CASE AttachExternal(p) \/ AttachPartialExternal(p)
      BY <1>1, <3>1, <3>3 DEF AttachExternal, AttachPartialExternal
    <3> QED BY <3>1, <3>2, <3>3, Frames
  <2> HIDE DEF w
  <2>4. w = proc'[q].on
    BY <2>1 DEF w
  <2> QED BY <2>1, <2>2, <2>3, <2>4 DEF KnowsClosed, KnowsAttached
<1>9. \A q \in Proc : /\ KnowsGoal(proc'[q]) /\ KnowsCommand(proc'[q])
                      /\ KnowsClosed(proc[q])' /\ KnowsAttached(proc[q])'
  <2> SUFFICES ASSUME NEW q \in Proc
               PROVE  /\ KnowsGoal(proc'[q]) /\ KnowsCommand(proc'[q])
                      /\ KnowsClosed(proc[q])' /\ KnowsAttached(proc[q])'
    OBVIOUS
  <2>1. CASE q # p
    BY <1>2, <1>3, <1>8, <2>1
  <2>2. CASE q = p
    BY <1>5, <1>6, <1>7, <2>2 DEF KnowsClosed, KnowsAttached
  <2> QED BY <2>1, <2>2
<1> QED BY <1>9 DEF WhatProcessesKnow, KnowsGoal, KnowsCommand, KnowsClosed, KnowsAttached

\* Every agent runs in a terminal that is owned by a workflow that is not released,
\* in the hands of a command, or given up: what is created is handed over or closed,
\* and nothing is released before it is closed.
LEMMA AgentNext == AgentInv /\ OneLife /\ [Next]_vars => AgentInv'
<1> SUFFICES ASSUME AgentInv, OneLife, [Next]_vars PROVE AgentInv'
  OBVIOUS
<1>0. LifeInv'
  BY LifeNext DEF AgentInv
<1>1. ASSUME NEW p \in Proc, Step(p) PROVE AgentInv'
  BY <1>0, <1>1, AgentsStep, ReleasedStep, KnowsStep DEF AgentInv
<1>2. ASSUME UNCHANGED <<owned, reconciled, attached, lost>>, alive' \subseteq alive,
             \A q \in Proc : proc'[q] = proc[q]
      PROVE  AgentInv'
  <2>1. Agents'
    BY <1>2 DEF AgentInv, Agents
  <2>2. ReleasedIsGone'
    BY <1>2 DEF AgentInv, ReleasedIsGone
  <2>3. WhatProcessesKnow'
    BY <1>2 DEF AgentInv, WhatProcessesKnow
  <2> QED BY <1>0, <2>1, <2>2, <2>3 DEF AgentInv
<1>3. ASSUME NEW p \in Proc, UNCHANGED <<owned, reconciled, attached, alive>>,
             lost \subseteq lost', \A q \in Proc \ {p} : proc'[q] = proc[q],
             proc'[p].at \notin Carrying,
             \A t \in alive \ lost' :
               proc[p].at \in Carrying /\ proc[p].handle = t =>
                 \E w \in Workflow : ~reconciled[w] /\ t \in owned[w],
             proc'[p].at \notin {"claim", "activate", "activated", "undo",
                                 "release", "releaseStale", "closeStale"},
             proc'[p].at = "takeOver" => "cleanup" \in Commands,
             proc'[p].at = "retry" => "retry" \in Commands,
             proc'[p].at \in {"mark", "launch"} => {"resume", "restart"} \cap Commands # {}
      PROVE  AgentInv'
  <2>1. Agents'
    <3> SUFFICES ASSUME NEW t \in alive', t \notin lost'
                 PROVE  \/ \E w \in Workflow : ~reconciled'[w] /\ t \in owned'[w]
                        \/ \E q \in Proc : proc'[q].at \in Carrying /\ proc'[q].handle = t
      BY DEF Agents
    <3>1. t \in alive /\ t \notin lost
      BY <1>3
    <3>2. CASE \E w \in Workflow : ~reconciled[w] /\ t \in owned[w]
      BY <1>3, <3>2
    <3>3. ASSUME NEW q \in Proc, proc[q].at \in Carrying, proc[q].handle = t, q # p
          PROVE  proc'[q].at \in Carrying /\ proc'[q].handle = t
      BY <1>3, <3>3
    <3> QED BY <1>3, <3>1, <3>2, <3>3 DEF AgentInv, Agents
  <2>2. ReleasedIsGone'
    BY <1>3 DEF AgentInv, ReleasedIsGone
  <2>3. WhatProcessesKnow'
    BY <1>3 DEF AgentInv, WhatProcessesKnow, Carrying
  <2> QED BY <1>0, <2>1, <2>2, <2>3 DEF AgentInv
<1>4. ASSUME NEW p \in Proc, NEW w \in Workflow, Command(p, w) PROVE AgentInv'
  <2>1. /\ proc[p].at = "idle" /\ \A q \in Proc \ {p} : proc'[q] = proc[q]
        /\ proc'[p].at \in {"create", "timing", "mark", "launch", "shutCompleted", "takeOver",
              "cancelStale", "cancel", "retry", "maintain", "acquire", "remark"}
        /\ proc'[p].at = "takeOver" => "cleanup" \in Commands
        /\ proc'[p].at = "retry" => "retry" \in Commands
        /\ proc'[p].at \in {"mark", "launch"} => {"resume", "restart"} \cap Commands # {}
    BY <1>4, CommandBegins DEF AgentInv, LifeInv
  <2>2. UNCHANGED <<owned, reconciled, attached, alive, lost>>
    BY <1>4, CommandFrame DEF AgentInv, LifeInv, world
  <2>3. proc[p].at \notin Carrying /\ proc'[p].at \notin Carrying
    BY <2>1 DEF Carrying
  <2> QED BY <1>3, <2>1, <2>2, <2>3
<1>5. ASSUME NEW p \in Proc, Crash(p) PROVE AgentInv'
  <2>1. proc \in [Proc -> Process] /\ alive \in SUBSET Terminal
    BY DEF AgentInv, LifeInv, Typed, Types, Process
  <2>2. /\ proc'[p] = Idle /\ \A q \in Proc \ {p} : proc'[q] = proc[q]
        /\ UNCHANGED <<owned, reconciled, attached, alive>> /\ lost' = lost \cup Carried(p)
    BY <1>5, <2>1, Returns DEF Crash, rows
  <2>3. ASSUME NEW t \in alive, t \notin lost', proc[p].at \in Carrying, proc[p].handle = t
        PROVE  \E w \in Workflow : ~reconciled[w] /\ t \in owned[w]
    BY <2>1, <2>2, <2>3, NoneIsNobody DEF Carried, Carrying, Kept
  <2>4. proc'[p].at = "idle" /\ "idle" \notin Carrying
    BY <2>2 DEF Idle, Carrying
  <2> QED BY <1>3, <2>2, <2>3, <2>4
<1>6. CASE UNCHANGED vars
  BY <1>2, <1>6 DEF vars, rows, world
<1>7. ASSUME NEW t \in Terminal, AgentExits(t) PROVE AgentInv'
  BY <1>2, <1>7 DEF AgentExits, rows
<1>8. ASSUME NEW w \in Workflow, ClaimAges(w) PROVE AgentInv'
  BY <1>2, <1>8 DEF ClaimAges, world
<1> QED BY <1>1, <1>4, <1>5, <1>6, <1>7, <1>8 DEF Next

\* Whatever commands run, crash or are slow, the agents that live are owned by a
\* workflow that is not released, carried by a command, or given up by one that
\* says so.  With OneLife only: a guest's release forgets its terminals by design, and
\* a cleanup can release the agent of a workflow that was brought back behind it.
THEOREM NoAgentIsForgottenHolds ==
  ASSUME OneLife
  PROVE  Spec => []NoAgentIsForgotten
<1>1. Init => AgentInv
  <2>1. Init => Agents /\ ReleasedIsGone /\ WhatProcessesKnow
    BY DEF Init, Agents, ReleasedIsGone, WhatProcessesKnow, Idle
  <2> QED BY <2>1, LifeInit DEF AgentInv
<1>2. AgentInv /\ [Next]_vars => AgentInv'
  BY AgentNext
<1>3. AgentInv => NoAgentIsForgotten
  <2> SUFFICES ASSUME AgentInv, NEW t \in alive, t \notin lost, t \notin Kept
               PROVE  \E p \in Proc : t \in Carried(p)
    BY DEF NoAgentIsForgotten
  <2>1. t # None
    BY NoneIsNobody DEF AgentInv, LifeInv, Typed, Types
  <2>2. ~ \E w \in Workflow : ~reconciled[w] /\ t \in owned[w]
    BY DEF Kept
  <2>3. PICK p \in Proc : proc[p].at \in Carrying /\ proc[p].handle = t
    BY <2>2 DEF AgentInv, Agents
  <2> QED BY <2>1, <2>3 DEF Carried, Carrying
<1> QED BY <1>1, <1>2, <1>3, PTL DEF Spec
=============================================================================
