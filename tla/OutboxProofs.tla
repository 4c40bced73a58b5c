---------------------------- MODULE OutboxProofs ----------------------------
(***************************************************************************)
(* A report that was superseded stays so.  Requests are never forgotten    *)
(* and never change hands (Keeps), terminals of a workflow are only ever   *)
(* replaced by later ones, and a report is never of a later terminal than  *)
(* the workflow has (ReportIsPast).                                        *)
(***************************************************************************)
EXTENDS Outbox, FiniteSetTheorems, TLAPS

ReportIsPast ==
  \A o \in Owners : report[o] # None => report[o].terminal <= workflow[o].terminal

\* Only a request that was made has an owner and may have a job.
OwnersAreKnown ==
  \A q \in Id : IF request[q].state = "unused" THEN request[q].job = "none"
                                              ELSE request[q].owner \in Owners

\* What a step does to a request: it is as it was, or it was made and stays with
\* its owner, or it is made.
Follows(new, old) ==
  \/ new = old
  \/ old.state # "unused" /\ new.state # "unused" /\ new.owner = old.owner
Keeps(q) ==
  \/ Follows(request'[q], request[q])
  \/ request[q].state = "unused" /\ request'[q].state # "unused" /\ request'[q].owner \in Owners

-----------------------------------------------------------------------------
\* The operators that the transactions are made of.

LEMMA PromotedType ==
  ASSUME NEW r \in [Id -> RequestRow]
  PROVE  /\ Promoted(r) \in [Id -> RequestRow]
         /\ \A q \in Id : Follows(Promoted(r)[q], r[q])
<1>1. \A q \in Id : LET new == [r[q] EXCEPT !.state = "leased"] IN
        new \in RequestRow /\ (r[q].state = "waiting" => Follows(new, r[q]))
  BY DEF RequestRow, Follows
<1>2. \A q \in Id : Promoted(r)[q] = r[q] \/ (r[q].state = "waiting" /\ Promoted(r)[q] = [r[q] EXCEPT !.state = "leased"])
  BY DEF Promoted
<1>3. Promoted(r) \in [Id -> RequestRow]
  BY <1>1 DEF Promoted
<1> QED  BY <1>1, <1>2, <1>3 DEF Follows

LEMMA CancelledType ==
  ASSUME request \in [Id -> RequestRow], NEW Q,
         \A q \in Q \cap Id : request[q].state # "unused"
  PROVE  /\ Cancelled(Q) \in [Id -> RequestRow]
         /\ \A q \in Id : Follows(Cancelled(Q)[q], request[q])
<1> DEFINE Row(q) == [request[q] EXCEPT !.state = "ended",
                                        !.job = IF @ = "queued" THEN "dropped" ELSE @]
<1>1. \A q \in Id : /\ Row(q) \in RequestRow /\ Row(q).owner = request[q].owner
                    /\ Row(q).state = "ended"
  BY DEF RequestRow
<1>2. Cancelled(Q) = [q \in Id |-> IF q \in Q THEN Row(q) ELSE request[q]]
  BY DEF Cancelled
<1> HIDE DEF Row
<1> QED  BY <1>1, <1>2 DEF Follows

LEMMA BlockedByType ==
  ASSUME block \in Id \cup {None}, NEW Q \in SUBSET Id
  PROVE  BlockedBy(Q) \in Id \cup {None}
<1> DEFINE leased == {q \in Q : request[q].state = "leased"}
<1>1. leased # {} => (CHOOSE q \in leased : TRUE) \in Id
  BY Zenon
<1>2. BlockedBy(Q) = IF block = None /\ leased # {} THEN CHOOSE q \in leased : TRUE ELSE block
  BY DEF BlockedBy
<1> HIDE DEF leased
<1> QED  BY <1>1, <1>2

LEMMA MadeBound ==
  Cardinality(Made) \in 0..MaxRequests
<1>1. Made \in SUBSET (1..MaxRequests)
  BY DEF Made, Id
<1>2. IsFiniteSet(1..MaxRequests) /\ Cardinality(1..MaxRequests) = MaxRequests
  BY FS_Interval, OutboxAssumption
<1>3. Cardinality(Made) <= MaxRequests /\ Cardinality(Made) \in Nat
  BY <1>1, <1>2, FS_Subset, FS_CardinalityType
<1> QED  BY <1>3, OutboxAssumption

-----------------------------------------------------------------------------
\* What a step does to one variable.

DispatcherRow ==
  [phase : {"idle"} \cup Phases, kind : {"grant", "result"}, id : Id, failed : BOOLEAN]
TerminalsGrow == \A o \in Owners : workflow'[o].terminal >= workflow[o].terminal

\* What every step keeps and what every step does.
Holds == TypeOK /\ OwnersAreKnown /\ ReportIsPast
Grows == (\A q \in Id : Keeps(q)) /\ TerminalsGrow

LEMMA IdleType == Idle \in DispatcherRow
  BY OutboxAssumption DEF Idle, DispatcherRow, Id

LEMMA Stutters ==
  ASSUME Holds
  PROVE  /\ request' = request => request' \in [Id -> RequestRow] /\ \A q \in Id : Keeps(q)
         /\ workflow' = workflow => workflow' \in [Owners -> WorkflowRow] /\ TerminalsGrow
         /\ report' = report /\ TerminalsGrow /\ workflow' \in [Owners -> WorkflowRow]
              => report' \in [Owners -> ReportRow \cup {None}] /\ ReportIsPast'
<1>1. request \in [Id -> RequestRow] /\ workflow \in [Owners -> WorkflowRow]
      /\ report \in [Owners -> ReportRow \cup {None}]
  BY DEF Holds, TypeOK
<1>2. \A o \in Owners : workflow[o].terminal \in Nat
  BY <1>1 DEF WorkflowRow
<1>3. ASSUME report' = report, TerminalsGrow, workflow' \in [Owners -> WorkflowRow]
      PROVE  ReportIsPast'
  <2>1. SUFFICES ASSUME NEW o \in Owners, report[o] # None
                 PROVE  report[o].terminal <= workflow'[o].terminal
    BY <1>3 DEF ReportIsPast
  <2>2. report[o].terminal \in Nat /\ report[o].terminal <= workflow[o].terminal
    BY <1>1, <2>1 DEF ReportRow, Holds, ReportIsPast
  <2>3. workflow'[o].terminal >= workflow[o].terminal /\ workflow'[o].terminal \in Nat
    BY <1>3 DEF TerminalsGrow, WorkflowRow
  <2> QED  BY <1>2, <2>2, <2>3
<1> QED  BY <1>1, <1>2, <1>3 DEF Keeps, Follows, TerminalsGrow

\* Requests keep their owners, and a workflow that ends keeps its terminal.
LEMMA OwnersStay ==
  ASSUME Holds, \A q \in Id : Keeps(q)
  PROVE  OwnersAreKnown'
  BY DEF Holds, OwnersAreKnown, Keeps, Follows

LEMMA Ending ==
  ASSUME workflow \in [Owners -> WorkflowRow], NEW o,
         workflow' = [workflow EXCEPT ![o] = [@ EXCEPT !.running = FALSE]] \/ workflow' = workflow
  PROVE  workflow' \in [Owners -> WorkflowRow] /\ TerminalsGrow
<1> DEFINE new == [workflow[o] EXCEPT !.running = FALSE]
<1>1. o \in Owners => new \in WorkflowRow /\ new.terminal = workflow[o].terminal
  BY DEF WorkflowRow
<1>2. workflow' = [workflow EXCEPT ![o] = new] \/ workflow' = workflow
  OBVIOUS
<1> HIDE DEF new
<1> QED  BY <1>1, <1>2 DEF TerminalsGrow, WorkflowRow

\* One step of the proof for each action, and under it one for each variable
\* the action may change.
LEMMA StepHolds ==
  ASSUME Holds, [Next]_vars
  PROVE  Holds' /\ Grows
<1>0. /\ request \in [Id -> RequestRow] /\ grant \in [Id -> Notices]
      /\ result \in [Id -> Notices] /\ block \in Id \cup {None}
      /\ workflow \in [Owners -> WorkflowRow]
      /\ inbox \in [Owners -> SUBSET ({"grant", "result"} \X Id)]
      /\ report \in [Owners -> ReportRow \cup {None}]
      /\ dispatcher \in DispatcherRow /\ mishaps \in 0..MaxMishaps
  BY DEF Holds, TypeOK, DispatcherRow
<1>1. ASSUME NEW o \in Owners, NEW q \in Id, NEW job \in {"none", "queued"}, Acquires(o, q, job)
      PROVE  Holds' /\ Grows
  <2>0. Acquires(o, q, job)
    BY <1>1
  <2>1. UNCHANGED <<result, block, workflow, inbox, report, dispatcher, mishaps>>
    BY <2>0 DEF Acquires, queue, notices
  <2>2. request' \in [Id -> RequestRow] /\ \A p \in Id : Keeps(p)
    <3> DEFINE new == request'[q]
    <3>1. new \in RequestRow
      BY <1>0, <2>0 DEF Acquires, RequestRow, WorkflowRow
    <3>2. request' = [request EXCEPT ![q] = new] /\ new.state # "unused" /\ new.owner = o
      BY <1>0, <2>0 DEF Acquires
    <3>3. request[q].state = "unused"
      BY <1>0, <2>0 DEF Acquires, Made
    <3> HIDE DEF new
    <3> QED  BY <1>0, <3>1, <3>2, <3>3 DEF Keeps, Follows, RequestRow
  <2>3. grant' \in [Id -> Notices]
    BY <1>0, <2>0 DEF Acquires, Notices
  <2>4. report' \in [Owners -> ReportRow \cup {None}] /\ ReportIsPast'
    BY <2>1, Stutters
  <2> QED  BY <1>0, <2>1, <2>2, <2>3, <2>4, Stutters, OwnersStay DEF Holds, TypeOK, Grows, DispatcherRow
<1>2. ASSUME NEW o \in Owners, NEW q \in Id, AnswersGrant(o, q)
      PROVE  Holds' /\ Grows
  <2>0. AnswersGrant(o, q)
    BY <1>2
  <2>1. UNCHANGED <<request, result, block, workflow, report, dispatcher, mishaps>>
    BY <2>0 DEF AnswersGrant, queue, notices
  <2>2. grant' \in [Id -> Notices]
    BY <1>0, <2>0 DEF AnswersGrant, Notices
  <2>3. inbox' \in [Owners -> SUBSET ({"grant", "result"} \X Id)]
    BY <1>0, <2>0 DEF AnswersGrant
  <2>4. report' \in [Owners -> ReportRow \cup {None}] /\ ReportIsPast'
    BY <2>1, Stutters
  <2> QED  BY <1>0, <2>1, <2>2, <2>3, <2>4, Stutters, OwnersStay DEF Holds, TypeOK, Grows, DispatcherRow
<1>3. ASSUME NEW o \in Owners, NEW q \in Id, AnswersResult(o, q)
      PROVE  Holds' /\ Grows
  <2>0. AnswersResult(o, q)
    BY <1>3
  <2>1. UNCHANGED <<request, grant, block, workflow, report, dispatcher, mishaps>>
    BY <2>0 DEF AnswersResult, queue, notices
  <2>2. result' \in [Id -> Notices]
    BY <1>0, <2>0 DEF AnswersResult, Notices
  <2>3. inbox' \in [Owners -> SUBSET ({"grant", "result"} \X Id)]
    BY <1>0, <2>0 DEF AnswersResult
  <2>4. report' \in [Owners -> ReportRow \cup {None}] /\ ReportIsPast'
    BY <2>1, Stutters
  <2> QED  BY <1>0, <2>1, <2>2, <2>3, <2>4, Stutters, OwnersStay DEF Holds, TypeOK, Grows, DispatcherRow
<1>4. ASSUME NEW o \in Owners, NEW q \in Id, Releases(o, q)
      PROVE  Holds' /\ Grows
  <2>0. Releases(o, q)
    BY <1>4
  <2>1. UNCHANGED <<grant, result, block, workflow, inbox, report, dispatcher, mishaps>>
    BY <2>0 DEF Releases, queue, notices
  <2>2. request' \in [Id -> RequestRow] /\ \A p \in Id : Keeps(p)
    <3> DEFINE r == [request EXCEPT ![q].state = "ended"]
    <3>1. r \in [Id -> RequestRow]
      BY <1>0 DEF RequestRow
    <3>2. \A p \in Id : Follows(r[p], request[p])
      BY <1>0, <2>0 DEF RequestRow, Follows, Releases
    <3>3. request' = Promoted(r)
      BY <1>0, <2>0 DEF Releases
    <3> HIDE DEF r
    <3>4. /\ Promoted(r) \in [Id -> RequestRow]
          /\ \A p \in Id : Follows(Promoted(r)[p], r[p])
      BY <1>0, <3>1, PromotedType
    <3> QED  BY <1>0, <3>1, <3>2, <3>3, <3>4 DEF Keeps, Follows
  <2>3. report' \in [Owners -> ReportRow \cup {None}] /\ ReportIsPast'
    BY <2>1, Stutters
  <2> QED  BY <1>0, <2>1, <2>2, <2>3, Stutters, OwnersStay DEF Holds, TypeOK, Grows, DispatcherRow
<1>5. ASSUME NEW o \in Owners, NEW final \in BOOLEAN, Reports(o, final)
      PROVE  Holds' /\ Grows
  <2>0. Reports(o, final)
    BY <1>5
  <2>1. UNCHANGED <<request, grant, result, block, workflow, inbox, dispatcher, mishaps>>
    BY <2>0 DEF Reports, queue, notices
  <2>2. report' \in [Owners -> ReportRow \cup {None}] /\ ReportIsPast'
    <3>1. report'[o] \in ReportRow \cup {None} /\ report' = [report EXCEPT ![o] = report'[o]]
      BY <1>0, <2>0, MadeBound DEF Reports, ReportRow, WorkflowRow
    <3>2. report'[o] # None => report'[o].terminal = workflow[o].terminal
      BY <1>0, <2>0 DEF Reports
    <3>3. workflow' = workflow /\ workflow[o].terminal \in Nat
      BY <1>0, <2>0 DEF Reports, WorkflowRow
    <3>4. ASSUME NEW p \in Owners, report'[p] # None
          PROVE  report'[p].terminal <= workflow'[p].terminal
      <4>1. CASE p = o
        BY <1>0, <3>1, <3>2, <3>3, <3>4, <4>1
      <4>2. CASE p # o
        BY <1>0, <3>1, <3>3, <3>4, <4>2 DEF Holds, ReportIsPast
      <4> QED  BY <4>1, <4>2
    <3> QED  BY <1>0, <3>1, <3>4 DEF ReportIsPast
  <2> QED  BY <1>0, <2>1, <2>2, Stutters, OwnersStay DEF Holds, TypeOK, Grows, DispatcherRow
<1>6. ASSUME NEW o \in Owners, Restarts(o)
      PROVE  Holds' /\ Grows
  <2>0. Restarts(o)
    BY <1>6
  <2>1. UNCHANGED <<request, grant, result, block, report, dispatcher, mishaps>>
    BY <2>0 DEF Restarts, queue, notices
  <2>2. workflow' \in [Owners -> WorkflowRow] /\ TerminalsGrow
    <3> DEFINE new == workflow'[o]
    <3>1. workflow[o].terminal \in 1..MaxTerminals /\ workflow[o].terminal < MaxTerminals /\ workflow[o].running \in BOOLEAN
      BY <1>0, <2>0 DEF Restarts, WorkflowRow
    <3>2. new = [running |-> workflow[o].running, terminal |-> workflow[o].terminal + 1, attached |-> TRUE]
      BY <1>0, <2>0 DEF Restarts, WorkflowRow
    <3>3. workflow[o].terminal + 1 \in 1..MaxTerminals
      BY <1>0, <3>1, OutboxAssumption
    <3>4. new \in WorkflowRow /\ new.terminal >= workflow[o].terminal
      BY <1>0, <3>1, <3>2, <3>3 DEF WorkflowRow
    <3>5. workflow' = [workflow EXCEPT ![o] = new]
      BY <1>0, <2>0 DEF Restarts
    <3> HIDE DEF new
    <3> QED  BY <1>0, <3>4, <3>5 DEF TerminalsGrow, WorkflowRow
  <2>3. inbox' \in [Owners -> SUBSET ({"grant", "result"} \X Id)]
    BY <1>0, <2>0 DEF Restarts
  <2>4. report' \in [Owners -> ReportRow \cup {None}] /\ ReportIsPast'
    BY <2>1, <2>2, Stutters
  <2> QED  BY <1>0, <2>1, <2>2, <2>3, <2>4, Stutters, OwnersStay DEF Holds, TypeOK, Grows, DispatcherRow
<1>7. ASSUME NEW o \in Owners, Ends(o)
      PROVE  Holds' /\ Grows
  <2>0. Ends(o)
    BY <1>7
  <2>1. UNCHANGED <<grant, result, inbox, report, dispatcher>>
    BY <2>0 DEF Ends, queue, notices
  <2>2. request' \in [Id -> RequestRow] /\ \A p \in Id : Keeps(p)
    <3>1. request' = Cancelled(Current(o)) \/ request' = request
      BY <2>0 DEF Ends, queue
    <3>2. \A p \in Current(o) \cap Id : request[p].state # "unused"
      BY <2>0 DEF Ends, Active, Current, Of
    <3>3. request' = Cancelled(Current(o)) => request' \in [Id -> RequestRow] /\ \A p \in Id : Keeps(p)
      BY <1>0, <3>2, CancelledType DEF Keeps
    <3> QED  BY <1>0, <3>1, <3>3 DEF Keeps, Follows
  <2>3. block' \in Id \cup {None}
    <3>1. Current(o) \in SUBSET Id /\ (block' = BlockedBy(Current(o)) \/ block' = block)
      BY <1>0, <2>0 DEF Ends, Current, Of, Made, queue, DispatcherRow
    <3> QED  BY <1>0, <3>1, BlockedByType
  <2>4. workflow' \in [Owners -> WorkflowRow] /\ TerminalsGrow
    <3>1. workflow' = [workflow EXCEPT ![o] = [@ EXCEPT !.running = FALSE]] \/ workflow' = workflow
      BY <1>0, <2>0 DEF Ends
    <3> QED  BY <1>0, <3>1, Ending
  <2>5. mishaps' \in 0..MaxMishaps
    BY <1>0, OutboxAssumption, <2>0 DEF Ends, Mishap
  <2>6. report' \in [Owners -> ReportRow \cup {None}] /\ ReportIsPast'
    BY <2>1, <2>4, Stutters
  <2> QED  BY <1>0, <2>1, <2>2, <2>3, <2>4, <2>5, <2>6, Stutters, OwnersStay DEF Holds, TypeOK, Grows, DispatcherRow
<1>8. ASSUME NEW o \in Owners, Reopens(o)
      PROVE  Holds' /\ Grows
  <2>0. Reopens(o)
    BY <1>8
  <2>1. UNCHANGED <<request, grant, result, block, report, dispatcher, mishaps>>
    BY <2>0 DEF Reopens, queue, notices
  <2>2. workflow' \in [Owners -> WorkflowRow] /\ TerminalsGrow
    <3> DEFINE new == workflow'[o]
    <3>1. new \in WorkflowRow /\ new.terminal = workflow[o].terminal
      BY <1>0, <2>0 DEF Reopens, WorkflowRow
    <3>2. workflow' = [workflow EXCEPT ![o] = new]
      BY <1>0, <2>0 DEF Reopens
    <3> HIDE DEF new
    <3> QED  BY <1>0, <3>1, <3>2 DEF TerminalsGrow, WorkflowRow
  <2>3. inbox' \in [Owners -> SUBSET ({"grant", "result"} \X Id)]
    BY <1>0, <2>0 DEF Reopens
  <2>4. report' \in [Owners -> ReportRow \cup {None}] /\ ReportIsPast'
    BY <2>1, <2>2, Stutters
  <2> QED  BY <1>0, <2>1, <2>2, <2>3, <2>4, Stutters, OwnersStay DEF Holds, TypeOK, Grows, DispatcherRow
<1>9. ASSUME NEW o \in Owners, Maintains(o)
      PROVE  Holds' /\ Grows
  <2>0. Maintains(o)
    BY <1>9
  <2>1. UNCHANGED <<grant, result, workflow, inbox, report, dispatcher, mishaps>>
    BY <2>0 DEF Maintains, queue, notices
  <2>2. request' \in [Id -> RequestRow] /\ \A p \in Id : Keeps(p)
    <3>1. request' = Cancelled({p \in Of(o) : Active(p)}) \/ request' = request
      BY <2>0 DEF Maintains, queue
    <3>2. \A p \in {p \in Of(o) : Active(p)} \cap Id : request[p].state # "unused"
      BY <2>0 DEF Maintains, Active, Current, Of
    <3>3. request' = Cancelled({p \in Of(o) : Active(p)}) => request' \in [Id -> RequestRow] /\ \A p \in Id : Keeps(p)
      BY <1>0, <3>2, CancelledType DEF Keeps
    <3> QED  BY <1>0, <3>1, <3>3 DEF Keeps, Follows
  <2>3. block' \in Id \cup {None}
    <3>1. {p \in Of(o) : Active(p)} \in SUBSET Id /\ (block' = BlockedBy({p \in Of(o) : Active(p)}) \/ block' = block)
      BY <1>0, <2>0 DEF Maintains, Current, Of, Made, queue, DispatcherRow
    <3> QED  BY <1>0, <3>1, BlockedByType
  <2>4. report' \in [Owners -> ReportRow \cup {None}] /\ ReportIsPast'
    BY <2>1, Stutters
  <2> QED  BY <1>0, <2>1, <2>2, <2>3, <2>4, Stutters, OwnersStay DEF Holds, TypeOK, Grows, DispatcherRow
<1>10. ASSUME NEW q \in Id, Cancels(q)
      PROVE  Holds' /\ Grows
  <2>0. Cancels(q)
    BY <1>10
  <2>1. UNCHANGED <<grant, result, workflow, inbox, report, dispatcher>>
    BY <2>0 DEF Cancels, queue, notices
  <2>2. request' \in [Id -> RequestRow] /\ \A p \in Id : Keeps(p)
    <3>1. request' = Cancelled({q}) \/ request' = request
      BY <2>0 DEF Cancels, queue
    <3>2. \A p \in {q} \cap Id : request[p].state # "unused"
      BY <2>0 DEF Cancels, Active, Current, Of
    <3>3. request' = Cancelled({q}) => request' \in [Id -> RequestRow] /\ \A p \in Id : Keeps(p)
      BY <1>0, <3>2, CancelledType DEF Keeps
    <3> QED  BY <1>0, <3>1, <3>3 DEF Keeps, Follows
  <2>3. block' \in Id \cup {None}
    <3>1. {q} \in SUBSET Id /\ (block' = BlockedBy({q}) \/ block' = block)
      BY <1>0, <2>0 DEF Cancels, Current, Of, Made, queue, DispatcherRow
    <3> QED  BY <1>0, <3>1, BlockedByType
  <2>4. mishaps' \in 0..MaxMishaps
    BY <1>0, OutboxAssumption, <2>0 DEF Cancels, Mishap
  <2>5. report' \in [Owners -> ReportRow \cup {None}] /\ ReportIsPast'
    BY <2>1, Stutters
  <2> QED  BY <1>0, <2>1, <2>2, <2>3, <2>4, <2>5, Stutters, OwnersStay DEF Holds, TypeOK, Grows, DispatcherRow
<1>11. ASSUME Resolves
      PROVE  Holds' /\ Grows
  <2>0. Resolves
    BY <1>11
  <2>1. UNCHANGED <<grant, result, workflow, inbox, report, dispatcher, mishaps>>
    BY <2>0 DEF Resolves, queue, notices
  <2>2. request' \in [Id -> RequestRow] /\ \A p \in Id : Keeps(p)
    <3> QED  BY <1>0, <2>0, PromotedType DEF Resolves, Keeps, Follows
  <2>3. block' \in Id \cup {None}
    BY <1>0, <2>0 DEF Resolves
  <2>4. report' \in [Owners -> ReportRow \cup {None}] /\ ReportIsPast'
    BY <2>1, Stutters
  <2> QED  BY <1>0, <2>1, <2>2, <2>3, <2>4, Stutters, OwnersStay DEF Holds, TypeOK, Grows, DispatcherRow
<1>12. ASSUME NEW q \in Id, ClaimsJob(q)
      PROVE  Holds' /\ Grows
  <2>0. ClaimsJob(q)
    BY <1>12
  <2>1. UNCHANGED <<grant, result, block, workflow, inbox, report, dispatcher, mishaps>>
    BY <2>0 DEF ClaimsJob, queue, notices
  <2>2. request' \in [Id -> RequestRow] /\ \A p \in Id : Keeps(p)
    BY <1>0, <2>0 DEF ClaimsJob, RequestRow, Keeps, Follows, Holds, OwnersAreKnown
  <2>3. report' \in [Owners -> ReportRow \cup {None}] /\ ReportIsPast'
    BY <2>1, Stutters
  <2> QED  BY <1>0, <2>1, <2>2, <2>3, Stutters, OwnersStay DEF Holds, TypeOK, Grows, DispatcherRow
<1>13. ASSUME NEW q \in Id, NEW safe \in BOOLEAN, JobEnds(q, safe)
      PROVE  Holds' /\ Grows
  <2>0. JobEnds(q, safe)
    BY <1>13
  <2>1. UNCHANGED <<grant, workflow, inbox, report, dispatcher>>
    BY <2>0 DEF JobEnds, queue, notices
  <2>2. request' \in [Id -> RequestRow] /\ \A p \in Id : Keeps(p)
    <3> DEFINE r == [request EXCEPT ![q].job = "done", ![q].state = "ended"]
    <3>1. r \in [Id -> RequestRow]
      BY <1>0 DEF RequestRow
    <3>2. \A p \in Id : Follows(r[p], request[p])
      BY <1>0, <2>0 DEF RequestRow, Follows, JobEnds, Holds, OwnersAreKnown
    <3>3. request' = Promoted(r) \/ request' = r
      BY <1>0, <2>0 DEF JobEnds
    <3> HIDE DEF r
    <3>4. /\ Promoted(r) \in [Id -> RequestRow]
          /\ \A p \in Id : Follows(Promoted(r)[p], r[p])
      BY <1>0, <3>1, PromotedType
    <3> QED  BY <1>0, <3>1, <3>2, <3>3, <3>4 DEF Keeps, Follows
  <2>3. result' \in [Id -> Notices]
    BY <1>0, <2>0 DEF JobEnds, Notices
  <2>4. block' \in Id \cup {None}
    BY <1>0, <2>0 DEF JobEnds
  <2>5. mishaps' \in 0..MaxMishaps
    BY <1>0, OutboxAssumption, <2>0 DEF JobEnds, Mishap
  <2>6. report' \in [Owners -> ReportRow \cup {None}] /\ ReportIsPast'
    BY <2>1, Stutters
  <2> QED  BY <1>0, <2>1, <2>2, <2>3, <2>4, <2>5, <2>6, Stutters, OwnersStay DEF Holds, TypeOK, Grows, DispatcherRow
<1>14. ASSUME NEW q \in Id, Abandons(q)
      PROVE  Holds' /\ Grows
  <2>0. Abandons(q)
    BY <1>14
  <2>1. UNCHANGED <<grant, workflow, inbox, report, dispatcher>>
    BY <2>0 DEF Abandons, queue, notices
  <2>2. request' \in [Id -> RequestRow] /\ \A p \in Id : Keeps(p)
    BY <1>0, <2>0 DEF Abandons, RequestRow, Keeps, Follows, Holds, OwnersAreKnown
  <2>3. result' \in [Id -> Notices]
    BY <1>0, <2>0 DEF Abandons, Notices
  <2>4. block' \in Id \cup {None}
    BY <1>0, <2>0 DEF Abandons
  <2>5. mishaps' \in 0..MaxMishaps
    BY <1>0, OutboxAssumption, <2>0 DEF Abandons, Mishap
  <2>6. report' \in [Owners -> ReportRow \cup {None}] /\ ReportIsPast'
    BY <2>1, Stutters
  <2> QED  BY <1>0, <2>1, <2>2, <2>3, <2>4, <2>5, <2>6, Stutters, OwnersStay DEF Holds, TypeOK, Grows, DispatcherRow
<1>15. ASSUME NEW q \in Id, LooksForDead(q)
      PROVE  Holds' /\ Grows
  <2>0. LooksForDead(q)
    BY <1>15
  <2>1. UNCHANGED <<request, grant, result, block, workflow, inbox, report, mishaps>>
    BY <2>0 DEF LooksForDead, queue, notices
  <2>2. dispatcher' \in DispatcherRow
    <3> DEFINE f == Running(request[q].owner)
    <3>1. request[q].owner \in Owners
      BY <1>0, <2>0 DEF LooksForDead, Active, Holds, OwnersAreKnown
    <3>2. f \in BOOLEAN
      BY <1>0, <3>1 DEF Running, WorkflowRow
    <3>3. dispatcher' = [phase |-> IF request[q].job = "running" THEN "fail" ELSE "cancel",
                         kind |-> "grant", id |-> q, failed |-> f]
      BY <1>0, <2>0 DEF LooksForDead
    <3> HIDE DEF f
    <3> QED  BY <3>2, <3>3 DEF DispatcherRow, Phases
  <2>3. report' \in [Owners -> ReportRow \cup {None}] /\ ReportIsPast'
    BY <2>1, Stutters
  <2> QED  BY <1>0, <2>1, <2>2, <2>3, Stutters, OwnersStay DEF Holds, TypeOK, Grows, DispatcherRow
<1>16. ASSUME CancelsDead
      PROVE  Holds' /\ Grows
  <2>0. CancelsDead
    BY <1>16
  <2>1. UNCHANGED <<grant, result, workflow, inbox, report, mishaps>>
    BY <2>0 DEF CancelsDead, queue, notices
  <2>2. request' \in [Id -> RequestRow] /\ \A p \in Id : Keeps(p)
    <3>1. CASE Active(dispatcher.id)
      <4>1. /\ \A p \in {dispatcher.id} \cap Id : request[p].state # "unused"
            /\ request' = Cancelled({dispatcher.id}) \/ request' = request
        BY <1>0, <2>0, <3>1 DEF CancelsDead, Active, queue
      <4> QED  BY <1>0, <4>1, CancelledType DEF Keeps, Follows
    <3>2. CASE ~Active(dispatcher.id)
      BY <1>0, <2>0, <3>2 DEF CancelsDead, queue, Keeps, Follows
    <3> QED  BY <1>0, <3>1, <3>2
  <2>3. block' \in Id \cup {None}
    <3>1. {dispatcher.id} \in SUBSET Id /\ (block' = BlockedBy({dispatcher.id}) \/ block' = block)
      BY <1>0, <2>0 DEF CancelsDead, Current, Of, Made, queue, DispatcherRow
    <3> QED  BY <1>0, <3>1, BlockedByType
  <2>4. dispatcher' \in DispatcherRow
    BY <1>0, IdleType, <2>0 DEF CancelsDead, DispatcherRow, Phases
  <2>5. report' \in [Owners -> ReportRow \cup {None}] /\ ReportIsPast'
    BY <2>1, Stutters
  <2> QED  BY <1>0, <2>1, <2>2, <2>3, <2>4, <2>5, Stutters, OwnersStay DEF Holds, TypeOK, Grows, DispatcherRow
<1>17. ASSUME FailsOwner
      PROVE  Holds' /\ Grows
  <2>0. FailsOwner
    BY <1>17
  <2>1. UNCHANGED <<grant, result, inbox, report, mishaps>>
    BY <2>0 DEF FailsOwner, queue, notices
  <2>2. request' \in [Id -> RequestRow] /\ \A p \in Id : Keeps(p)
    <3>1. request' = Cancelled(Current(request[dispatcher.id].owner)) \/ request' = request
      BY <2>0 DEF FailsOwner, queue
    <3>2. \A p \in Current(request[dispatcher.id].owner) \cap Id : request[p].state # "unused"
      BY <2>0 DEF FailsOwner, Active, Current, Of
    <3>3. request' = Cancelled(Current(request[dispatcher.id].owner)) => request' \in [Id -> RequestRow] /\ \A p \in Id : Keeps(p)
      BY <1>0, <3>2, CancelledType DEF Keeps
    <3> QED  BY <1>0, <3>1, <3>3 DEF Keeps, Follows
  <2>3. block' \in Id \cup {None}
    <3>1. Current(request[dispatcher.id].owner) \in SUBSET Id /\ (block' = BlockedBy(Current(request[dispatcher.id].owner)) \/ block' = block)
      BY <1>0, <2>0 DEF FailsOwner, Current, Of, Made, queue, DispatcherRow
    <3> QED  BY <1>0, <3>1, BlockedByType
  <2>4. workflow' \in [Owners -> WorkflowRow] /\ TerminalsGrow
    <3>1. workflow' = [workflow EXCEPT ![request[dispatcher.id].owner] = [@ EXCEPT !.running = FALSE]] \/ workflow' = workflow
      BY <1>0, <2>0 DEF FailsOwner
    <3> QED  BY <1>0, <3>1, Ending
  <2>5. dispatcher' \in DispatcherRow
    BY <1>0, IdleType, <2>0 DEF FailsOwner, DispatcherRow, Phases
  <2>6. report' \in [Owners -> ReportRow \cup {None}] /\ ReportIsPast'
    BY <2>1, <2>4, Stutters
  <2> QED  BY <1>0, <2>1, <2>2, <2>3, <2>4, <2>5, <2>6, Stutters, OwnersStay DEF Holds, TypeOK, Grows, DispatcherRow
<1>18. ASSUME NEW q \in Id, Reads(q)
      PROVE  Holds' /\ Grows
  <2>0. Reads(q)
    BY <1>18
  <2>1. UNCHANGED <<request, grant, result, block, workflow, inbox, report, mishaps>>
    BY <2>0 DEF Reads, ReadsGrant, ReadsResult, Delivers, queue, notices
  <2>2. dispatcher' \in DispatcherRow
    <3>1. \E kind \in {"grant", "result"} :
            dispatcher' = [phase |-> "send", kind |-> kind, id |-> q, failed |-> FALSE]
      BY <1>0, <2>0 DEF Reads, ReadsGrant, ReadsResult, Delivers
    <3> QED  BY <1>0, <3>1 DEF DispatcherRow, Phases
  <2>3. report' \in [Owners -> ReportRow \cup {None}] /\ ReportIsPast'
    BY <2>1, Stutters
  <2> QED  BY <1>0, <2>1, <2>2, <2>3, Stutters, OwnersStay DEF Holds, TypeOK, Grows, DispatcherRow
<1>19. ASSUME Sends
      PROVE  Holds' /\ Grows
  <2>0. Sends
    BY <1>19
  <2>1. UNCHANGED <<request, grant, result, block, workflow, report>>
    BY <2>0 DEF Sends, queue, notices
  <2>2. inbox' \in [Owners -> SUBSET ({"grant", "result"} \X Id)]
    <3> DEFINE o == request[dispatcher.id].owner
    <3>1. \/ inbox' = [inbox EXCEPT ![o] = @ \cup {<<dispatcher.kind, dispatcher.id>>}]
          \/ inbox' = inbox
      BY <1>0, <2>0 DEF Sends
    <3>2. <<dispatcher.kind, dispatcher.id>> \in {"grant", "result"} \X Id
      BY <1>0 DEF DispatcherRow
    <3> HIDE DEF o
    <3> QED  BY <1>0, <3>1, <3>2
  <2>3. dispatcher' \in DispatcherRow
    BY <1>0, IdleType, <2>0 DEF Sends, DispatcherRow, Phases
  <2>4. mishaps' \in 0..MaxMishaps
    BY <1>0, OutboxAssumption, <2>0 DEF Sends, Mishap
  <2>5. report' \in [Owners -> ReportRow \cup {None}] /\ ReportIsPast'
    BY <2>1, Stutters
  <2> QED  BY <1>0, <2>1, <2>2, <2>3, <2>4, <2>5, Stutters, OwnersStay DEF Holds, TypeOK, Grows, DispatcherRow
<1>20. ASSUME Records
      PROVE  Holds' /\ Grows
  <2>0. Records
    BY <1>20
  <2>1. UNCHANGED <<request, block, workflow, inbox, report, mishaps>>
    BY <2>0 DEF Records, queue, notices
  <2>2. grant' \in [Id -> Notices]
    BY <1>0, <2>0 DEF Records, Notices
  <2>3. result' \in [Id -> Notices]
    BY <1>0, <2>0 DEF Records, Notices
  <2>4. dispatcher' \in DispatcherRow
    BY <1>0, IdleType, <2>0 DEF Records, DispatcherRow, Phases
  <2>5. report' \in [Owners -> ReportRow \cup {None}] /\ ReportIsPast'
    BY <2>1, Stutters
  <2> QED  BY <1>0, <2>1, <2>2, <2>3, <2>4, <2>5, Stutters, OwnersStay DEF Holds, TypeOK, Grows, DispatcherRow
<1>21. ASSUME DispatcherDies
      PROVE  Holds' /\ Grows
  <2>0. DispatcherDies
    BY <1>21
  <2>1. UNCHANGED <<request, grant, result, block, workflow, inbox, report>>
    BY <2>0 DEF DispatcherDies, queue, notices
  <2>2. dispatcher' \in DispatcherRow
    BY <1>0, IdleType, <2>0 DEF DispatcherDies, DispatcherRow, Phases
  <2>3. mishaps' \in 0..MaxMishaps
    BY <1>0, OutboxAssumption, <2>0 DEF DispatcherDies, Mishap
  <2>4. report' \in [Owners -> ReportRow \cup {None}] /\ ReportIsPast'
    BY <2>1, Stutters
  <2> QED  BY <1>0, <2>1, <2>2, <2>3, <2>4, Stutters, OwnersStay DEF Holds, TypeOK, Grows, DispatcherRow
<1>22. ASSUME NEW q \in Id, TimePasses(q)
      PROVE  Holds' /\ Grows
  <2>0. TimePasses(q)
    BY <1>22
  <2>1. UNCHANGED <<request, block, workflow, inbox, report, dispatcher, mishaps>>
    BY <2>0 DEF TimePasses, queue, notices
  <2>2. grant' \in [Id -> Notices]
    BY <1>0, <2>0 DEF TimePasses, Notices
  <2>3. result' \in [Id -> Notices]
    BY <1>0, <2>0 DEF TimePasses, Notices
  <2>4. report' \in [Owners -> ReportRow \cup {None}] /\ ReportIsPast'
    BY <2>1, Stutters
  <2> QED  BY <1>0, <2>1, <2>2, <2>3, <2>4, Stutters, OwnersStay DEF Holds, TypeOK, Grows, DispatcherRow
<1>23. ASSUME UNCHANGED vars
      PROVE  Holds' /\ Grows
  <2>1. UNCHANGED <<request, grant, result, block, workflow, inbox, report, dispatcher, mishaps>>
    BY <1>23 DEF vars, queue, notices
  <2>2. workflow' \in [Owners -> WorkflowRow] /\ TerminalsGrow
    BY <2>1, Stutters
  <2> QED  BY <1>0, <2>1, <2>2, Stutters, OwnersStay DEF Holds, TypeOK, Grows, DispatcherRow
<1> QED
  BY <1>1, <1>2, <1>3, <1>4, <1>5, <1>6, <1>7, <1>8, <1>9, <1>10, <1>11, <1>12, <1>13, <1>14, <1>15, <1>16, <1>17, <1>18, <1>19, <1>20, <1>21, <1>22, <1>23 DEF Next, Answers, Dispatches

-----------------------------------------------------------------------------
LEMMA InitHolds == ASSUME Init PROVE Holds
<1>1. 1 \in Id /\ 1 \in 1..MaxTerminals /\ 0 \in 0..MaxMishaps /\ 0 \in 0..MaxTerminals
  BY OutboxAssumption DEF Id
<1>2. /\ request \in [Id -> RequestRow] /\ workflow \in [Owners -> WorkflowRow]
      /\ inbox \in [Owners -> SUBSET ({"grant", "result"} \X Id)]
  BY <1>1 DEF Init, RequestRow, WorkflowRow
<1> QED  BY <1>1, <1>2 DEF Init, Holds, TypeOK, OwnersAreKnown, ReportIsPast, Idle, Phases, Notices

LEMMA InvariantHolds == Spec => []Holds
<1>1. Holds /\ [Next]_vars => Holds'
  BY StepHolds
<1> QED  BY InitHolds, <1>1, PTL DEF Spec

\* Every row of the outbox keeps its type.
THEOREM TypeCorrect == Spec => []TypeOK
<1>1. Holds => TypeOK
  BY DEF Holds
<1> QED  BY <1>1, InvariantHolds, PTL

\* For any number of owners, requests and terminals a report that was once
\* superseded, by a later request or another terminal, never counts again
\* (single_report_current).
THEOREM SupersededStaysHolds == Spec => SupersededStays
<1>1. ASSUME Holds, [Next]_vars,
             NEW o \in Owners, report[o] # None, report'[o] = report[o], Superseded(o)
      PROVE  ~(Counts(o)')
  <2>1. Holds' /\ Grows
    BY <1>1, StepHolds
  <2>2. CASE report[o].terminal # workflow[o].terminal
    <3>1. /\ report[o].terminal \in Nat /\ workflow[o].terminal \in Nat
          /\ workflow'[o].terminal \in Nat /\ report[o].terminal <= workflow[o].terminal
      BY <1>1, <2>1 DEF Holds, TypeOK, ReportRow, WorkflowRow, ReportIsPast
    <3>2. report[o].terminal < workflow'[o].terminal
      BY <2>1, <2>2, <3>1 DEF Grows, TerminalsGrow
    <3> QED  BY <1>1, <3>1, <3>2 DEF Counts, OfThisTerminal
  <2>3. CASE \E q \in Of(o) : q > report[o].last
    <3>1. PICK q \in Of(o) : q > report[o].last
      BY <2>3
    <3>2. q \in Id /\ q \in Of(o)'
      BY <2>1, <3>1 DEF Grows, Keeps, Follows, Of, Made
    <3>3. q \in Nat /\ report[o].last \in Nat
      BY <1>1, <3>2 DEF Holds, TypeOK, ReportRow, Id
    <3> QED  BY <1>1, <3>1, <3>2, <3>3 DEF Counts
  <2> QED  BY <1>1, <2>2, <2>3 DEF Superseded
<1>2. Holds /\ [Next]_vars =>
        [\A o \in Owners :
           (report[o] # None /\ report'[o] = report[o] /\ Superseded(o)) => ~(Counts(o)')]_vars
  BY <1>1
<1> QED  BY <1>2, InvariantHolds, PTL DEF Spec, SupersededStays
=============================================================================
