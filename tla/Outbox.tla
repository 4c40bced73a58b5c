------------------------------- MODULE Outbox -------------------------------
(***************************************************************************)
(* What the owners of a resource are told and what they report.  A grant   *)
(* that was waited for and the result of a queued job are kept as rows     *)
(* until their owner acknowledges them; the dispatcher reads the rows that *)
(* are due, writes a prompt to the owner's terminal and records that it    *)
(* did, in three steps.  It also looks for requests of owners that are     *)
(* gone.  A single workflow reports for itself (`workflow single-report`), *)
(* and its report counts until it does something else.                     *)
(*                                                                         *)
(* One resource; the queue itself is ResourceQueue, the barrier and the    *)
(* threads of the dispatcher are in DispatcherControl, claims and closing  *)
(* of workflows in WorkflowLifecycle.  Requests are numbered in the order  *)
(* of created_at, terminals of a workflow in the order they were opened.   *)
(***************************************************************************)
EXTENDS Naturals, FiniteSets

CONSTANTS
  Owners,        \* workflow ids
  Singles,       \* those of single workflows, which report for themselves
  MaxRequests,   \* bound: requests ever made
  MaxTerminals,  \* bound: agent terminals of one workflow
  MaxMishaps,    \* bound: failed prompts, crashes, interventions
  None

ASSUME OutboxAssumption ==
  /\ MaxRequests \in Nat \ {0} /\ MaxTerminals \in Nat \ {0}
  /\ MaxMishaps \in Nat /\ Singles \subseteq Owners
  /\ None \notin Nat

Id == 1..MaxRequests

VARIABLES
  request,     \* queue_requests with queue_jobs.status
  grant,       \* queue_grant_notifications: none, due, sent lately, acked
  result,      \* queue_result_notifications
  block,       \* the request that blocks the resource, or None
  workflow,    \* status (running or not), the terminals opened so far, and
               \* whether terminal_handle is the last of them (or NULL)
  inbox,       \* the prompts that the owner's terminal was given
  report,      \* the final report in single_reports, or None
  dispatcher,  \* what the loop of the dispatcher is at
  mishaps

queue == <<request, block>>
notices == <<grant, result>>
vars == <<queue, notices, workflow, inbox, report, dispatcher, mishaps>>

Notices == {"none", "due", "sent", "acked"}
Phases == {"send", "record", "cancel", "fail"}
Idle == [phase |-> "idle", kind |-> "grant", id |-> 1, failed |-> FALSE]

-----------------------------------------------------------------------------
\* What the transactions read.

Made == {q \in Id : request[q].state # "unused"}
Active(q) == request[q].state \in {"waiting", "leased"}
Of(o) == {q \in Made : request[q].owner = o}
Running(o) == workflow[o].running
Unanswered(n) == n \in {"due", "sent"}
Mishap == mishaps < MaxMishaps /\ mishaps' = mishaps + 1

\* QueueDispatcher._owner: whatever else is "unknown" is not "invalid".
Invalid(o) == ~Running(o) \/ ~workflow[o].attached

\* Active requests of the activation that runs now, which end with it.
Current(o) ==
  {q \in Of(o) : /\ Active(q) /\ workflow[o].attached
                 /\ request[q].terminal = workflow[o].terminal}

\* The oldest waiting request becomes the lease.
Promoted(r) ==
  [q \in Id |->
     IF r[q].state = "waiting" /\ \A p \in Id : r[p].state = "waiting" => q <= p
     THEN [r[q] EXCEPT !.state = "leased"] ELSE r[q]]

\* Cancelled requests: a queued job fails without a result to tell of; a lease
\* leaves a block behind, unless there is one.
Cancelled(Q) ==
  [q \in Id |->
     IF q \in Q
     THEN [request[q] EXCEPT !.state = "ended",
                             !.job = IF @ = "queued" THEN "dropped" ELSE @]
     ELSE request[q]]

BlockedBy(Q) ==
  LET leased == {q \in Q : request[q].state = "leased"} IN
  IF block = None /\ leased # {} THEN CHOOSE q \in leased : TRUE ELSE block

OfThisTerminal(o) ==
  workflow[o].attached /\ report[o].terminal = workflow[o].terminal

\* single_report_current: the final report of this terminal, with nothing
\* asked for since, nothing active and no result unacknowledged.
CountsAnyway(o) ==   \* mutant
  /\ report[o] # None /\ Running(o)
  /\ OfThisTerminal(o)
  /\ \A q \in Of(o) : ~Active(q) /\ ~Unanswered(result[q])
Counts(o) ==
  /\ report[o] # None /\ Running(o)
  /\ OfThisTerminal(o)
  /\ \A q \in Of(o) :
       q <= report[o].last /\ ~Active(q) /\ ~Unanswered(result[q])

-----------------------------------------------------------------------------
Init ==
  /\ request = [q \in Id |-> [state |-> "unused", owner |-> None,
                              terminal |-> 0, job |-> "none"]]
  /\ grant = [q \in Id |-> "none"] /\ result = [q \in Id |-> "none"]
  /\ block = None
  /\ workflow = [o \in Owners |-> [running |-> TRUE, terminal |-> 1, attached |-> TRUE]]
  /\ inbox = [o \in Owners |-> {}]
  /\ report = [o \in Owners |-> None]
  /\ dispatcher = Idle
  /\ mishaps = 0

-----------------------------------------------------------------------------
\* The owner's agent, in its terminal.

\* queue acquire and queue run.
Acquires(o, q, job) ==
  LET free == block = None /\ \A p \in Id : request[p].state # "leased" IN
  /\ ~Invalid(o) /\ q \notin Made /\ Made = 1..(q - 1)
  /\ \A p \in Of(o) : ~Active(p)
  /\ request' = [request EXCEPT ![q] =
       [state |-> IF free THEN "leased" ELSE "waiting", owner |-> o,
        terminal |-> workflow[o].terminal, job |-> job]]
  /\ grant' = [grant EXCEPT ![q] = IF free THEN "none" ELSE "due"]
  /\ UNCHANGED <<result, block, workflow, inbox, report, dispatcher, mishaps>>

\* queue ack: of a lease that ended meanwhile it is an error.
AnswersGrant(o, q) ==
  /\ ~Invalid(o) /\ <<"grant", q>> \in inbox[o]
  /\ inbox' = [inbox EXCEPT ![o] = @ \ {<<"grant", q>>}]
  /\ grant' = IF request[q].state = "leased"
              THEN [grant EXCEPT ![q] = "acked"] ELSE grant
  /\ UNCHANGED <<queue, result, workflow, report, dispatcher, mishaps>>

AnswersResult(o, q) ==
  /\ ~Invalid(o) /\ <<"result", q>> \in inbox[o]
  /\ inbox' = [inbox EXCEPT ![o] = @ \ {<<"result", q>>}]
  /\ result' = [result EXCEPT ![q] = "acked"]
  /\ UNCHANGED <<queue, grant, workflow, report, dispatcher, mishaps>>

Releases(o, q) ==
  /\ ~Invalid(o) /\ q \in Of(o) /\ request[q].state = "leased"
  /\ request[q].job = "none"
  /\ request' = Promoted([request EXCEPT ![q].state = "ended"])
  /\ UNCHANGED <<block, notices, workflow, inbox, report, dispatcher, mishaps>>

\* report_single: a final report wants no active request and no result that
\* was not acknowledged; one that is repeated while it counts is kept.  A progress
\* report takes the place of the final one, and does not count.
Reports(o, final) ==
  /\ ~Invalid(o)
  /\ final => \A q \in Of(o) : ~Active(q) /\ ~Unanswered(result[q])
  /\ report' = [report EXCEPT ![o] =
       IF final THEN [terminal |-> workflow[o].terminal, last |-> Cardinality(Made)]
                ELSE None]
  /\ UNCHANGED <<queue, notices, workflow, inbox, dispatcher, mishaps>>

-----------------------------------------------------------------------------
\* The life of a workflow, as far as its requests and reports go.

\* mark_resumed and a new agent terminal in the place of the old one.  A resume
\* in the same terminal moves activated_at alone, and is left out.
Restarts(o) ==
  /\ Running(o) /\ workflow[o].terminal < MaxTerminals
  /\ workflow' = [workflow EXCEPT ![o].terminal = @ + 1, ![o].attached = TRUE]
  /\ inbox' = [inbox EXCEPT ![o] = {}]
  /\ UNCHANGED <<queue, notices, report, dispatcher, mishaps>>

\* finish: the requests of its last activation go with it.
Ends(o) ==
  LET Q == Current(o) IN
  /\ Running(o) /\ Mishap
  /\ workflow' = [workflow EXCEPT ![o].running = FALSE]
  /\ request' = Cancelled(Q) /\ block' = BlockedBy(Q)
  /\ UNCHANGED <<notices, inbox, report, dispatcher>>

\* The next review cycle: the role runs again and has no terminal yet.
Reopens(o) ==
  /\ o \notin Singles /\ ~Running(o)
  /\ workflow' = [workflow EXCEPT ![o].running = TRUE, ![o].attached = FALSE]
  /\ inbox' = [inbox EXCEPT ![o] = {}]
  /\ UNCHANGED <<queue, notices, report, dispatcher, mishaps>>

\* reconcile_terminal_workflows, when any command starts.
Maintains(o) ==
  LET Q == {q \in Of(o) : Active(q)} IN
  /\ ~Running(o) /\ Q # {}
  /\ request' = Cancelled(Q) /\ block' = BlockedBy(Q)
  /\ UNCHANGED <<notices, workflow, inbox, report, dispatcher, mishaps>>

\* queue cancel, by the operator.
Cancels(q) ==
  /\ Active(q) /\ request[q].job # "running" /\ Mishap
  /\ request' = Cancelled({q}) /\ block' = BlockedBy({q})
  /\ UNCHANGED <<notices, workflow, inbox, report, dispatcher>>

\* queue resolve, by the operator.
Resolves ==
  /\ block # None
  /\ block' = None
  /\ request' = IF \E q \in Id : request[q].state = "leased"
                THEN request ELSE Promoted(request)
  /\ UNCHANGED <<notices, workflow, inbox, report, dispatcher, mishaps>>

-----------------------------------------------------------------------------
\* The dispatcher: jobs, which run in threads of its pool.

\* claim_job of a queued job whose request is leased, by the loop of serve.
ClaimsJob(q) ==
  /\ request[q].state = "leased" /\ request[q].job = "queued" /\ block = None
  /\ request' = [request EXCEPT ![q].job = "running"]
  /\ UNCHANGED <<block, notices, workflow, inbox, report, dispatcher, mishaps>>

\* finish_job: a clean end of a job whose request was cancelled meanwhile
\* takes back the block that the cancellation left.
JobEnds(q, safe) ==
  LET held == request[q].state = "leased"
      ended == [request EXCEPT ![q].job = "done", ![q].state = "ended"]
      frees == safe /\ (held \/ block = q)
  IN
  /\ request[q].job = "running"
  /\ ~safe => Mishap
  /\ safe => UNCHANGED mishaps
  /\ block' = IF safe /\ ~held /\ block = q THEN None
              ELSE IF ~safe /\ held /\ block = None THEN q ELSE block
  /\ request' = IF frees /\ block' = None THEN Promoted(ended) ELSE ended
  /\ result' = [result EXCEPT ![q] = IF @ = "none" THEN "due" ELSE @]
  /\ UNCHANGED <<grant, workflow, inbox, report, dispatcher>>

\* abandon_job: the executor failed, or the dispatcher died with its job and an
\* operator says so (recover-job).
Abandons(q) ==
  /\ request[q].job = "running" /\ Mishap
  /\ request' = [request EXCEPT ![q].job = "done", ![q].state = "ended"]
  /\ block' = IF block = None THEN q ELSE block
  /\ result' = [result EXCEPT ![q] = IF @ = "none" THEN "due" ELSE @]
  /\ UNCHANGED <<grant, workflow, inbox, report, dispatcher>>

-----------------------------------------------------------------------------
\* The dispatcher: its loop, one transaction or one call to Orca at a time.

\* _check_dead_owners reads a request and its owner; then it cancels by the id
\* of the request, and fails the workflow it read as running.
LooksForDead(q) ==
  /\ dispatcher = Idle /\ Active(q) /\ Invalid(request[q].owner)
  /\ dispatcher' =
       [phase |-> IF request[q].job = "running" THEN "fail" ELSE "cancel",
        kind |-> "grant", id |-> q, failed |-> Running(request[q].owner)]
  /\ UNCHANGED <<queue, notices, workflow, inbox, report, mishaps>>

CancelsDead ==
  LET q == dispatcher.id IN
  /\ dispatcher.phase = "cancel"
  /\ IF Active(q) /\ request[q].job # "running"
     THEN /\ request' = Cancelled({q}) /\ block' = BlockedBy({q})
          /\ dispatcher' = [dispatcher EXCEPT !.phase = "fail"]
     ELSE UNCHANGED queue /\ dispatcher' = Idle
  /\ UNCHANGED <<notices, workflow, inbox, report, mishaps>>

FailsOwner ==
  LET o == request[dispatcher.id].owner
      fails == dispatcher.failed /\ Running(o)
      Q == Current(o)
  IN
  /\ dispatcher.phase = "fail"
  /\ workflow' = IF fails THEN [workflow EXCEPT ![o].running = FALSE] ELSE workflow
  /\ request' = IF fails THEN Cancelled(Q) ELSE request
  /\ block' = IF fails THEN BlockedBy(Q) ELSE block
  /\ dispatcher' = Idle
  /\ UNCHANGED <<notices, inbox, report, mishaps>>

Delivers(kind, q) ==
  /\ dispatcher = Idle
  /\ dispatcher' = [phase |-> "send", kind |-> kind, id |-> q, failed |-> FALSE]
  /\ UNCHANGED <<queue, notices, workflow, inbox, report, mishaps>>

\* delivery_candidates: a lease that was waited for, without a job.
ReadsGrant(q) ==
  /\ request[q].state = "leased" /\ request[q].job = "none" /\ grant[q] = "due"
  /\ Delivers("grant", q)

\* result_candidates.
ReadsResult(q) == result[q] = "due" /\ Delivers("result", q)

\* _send: a prompt that Orca refuses, or that its terminal loses, is a mishap;
\* an owner that is gone gets none.
Sends ==
  LET o == request[dispatcher.id].owner IN
  /\ dispatcher.phase = "send"
  /\ \/ /\ ~Invalid(o)
        /\ inbox' = [inbox EXCEPT ![o] = @ \cup {<<dispatcher.kind, dispatcher.id>>}]
        /\ UNCHANGED mishaps
     \/ Invalid(o) /\ UNCHANGED <<inbox, mishaps>>
     \/ ~Invalid(o) /\ Mishap /\ UNCHANGED inbox
  /\ dispatcher' = [dispatcher EXCEPT !.phase = "record"]
  /\ UNCHANGED <<queue, notices, workflow, report>>

\* mark_grant_delivered, note_grant_error and note_result_delivery: sent or
\* not, the row is due again after retry_seconds, unless it is acknowledged.
Records ==
  LET q == dispatcher.id
      Tried(n) == IF n = "acked" THEN n ELSE "sent"
  IN
  /\ dispatcher.phase = "record"
  /\ IF dispatcher.kind = "grant"
     THEN grant' = [grant EXCEPT ![q] = Tried(@)] /\ UNCHANGED result
     ELSE result' = [result EXCEPT ![q] = Tried(@)] /\ UNCHANGED grant
  /\ dispatcher' = Idle
  /\ UNCHANGED <<queue, workflow, inbox, report, mishaps>>

\* The process ends between two steps; the next command starts another.
DispatcherDies ==
  /\ dispatcher # Idle /\ Mishap
  /\ dispatcher' = Idle
  /\ UNCHANGED <<queue, notices, workflow, inbox, report>>

\* retry_seconds go by.
RetriesResults(q) ==   \* mutant
  /\ result[q] = "sent"
  /\ result' = [result EXCEPT ![q] = "due"]
  /\ UNCHANGED <<queue, grant, workflow, inbox, report, dispatcher, mishaps>>
TimePasses(q) ==
  /\ "sent" \in {grant[q], result[q]}
  /\ grant' = [grant EXCEPT ![q] = IF @ = "sent" THEN "due" ELSE @]
  /\ result' = [result EXCEPT ![q] = IF @ = "sent" THEN "due" ELSE @]
  /\ UNCHANGED <<queue, workflow, inbox, report, dispatcher, mishaps>>

-----------------------------------------------------------------------------
Answers(o, q) == AnswersGrant(o, q) \/ AnswersResult(o, q)
Reads(q) == ReadsGrant(q) \/ ReadsResult(q)
Dispatches == CancelsDead \/ FailsOwner \/ Sends \/ Records

Next ==
  \/ \E o \in Owners, q \in Id :
       \/ \E job \in {"none", "queued"} : Acquires(o, q, job)
       \/ Answers(o, q) \/ Releases(o, q)
  \/ \E o \in Owners :
       \/ o \in Singles /\ \E final \in BOOLEAN : Reports(o, final)
       \/ Restarts(o) \/ Ends(o) \/ Reopens(o) \/ Maintains(o)
  \/ \E q \in Id :
       \/ Cancels(q) \/ ClaimsJob(q) \/ Abandons(q)
       \/ \E safe \in BOOLEAN : JobEnds(q, safe)
       \/ LooksForDead(q) \/ Reads(q) \/ TimePasses(q)
  \/ Resolves \/ Dispatches \/ DispatcherDies

Spec == Init /\ [][Next]_vars

\* The loop of serve goes over all candidates in every round, time passes, and
\* an agent does what a prompt asks of it.  A request is waited for with a grant
\* or has a job with a result, never both.
FairSpec ==
  /\ Spec /\ WF_vars(Dispatches)
  /\ \A q \in Id :
       /\ SF_vars(Reads(q)) /\ WF_vars(TimePasses(q))
       /\ WF_vars(\E o \in Owners : Answers(o, q))

-----------------------------------------------------------------------------
RequestRow ==
  [state : {"unused", "waiting", "leased", "ended"}, owner : Owners \cup {None},
   terminal : 0..MaxTerminals, job : {"none", "queued", "dropped", "running", "done"}]
WorkflowRow == [running : BOOLEAN, terminal : 1..MaxTerminals, attached : BOOLEAN]
ReportRow == [terminal : 1..MaxTerminals, last : 0..MaxRequests]

\* Rows have the values of their columns.
TypeOK ==
  /\ request \in [Id -> RequestRow]
  /\ grant \in [Id -> Notices] /\ result \in [Id -> Notices]
  /\ block \in Id \cup {None}
  /\ workflow \in [Owners -> WorkflowRow]
  /\ inbox \in [Owners -> SUBSET ({"grant", "result"} \X Id)]
  /\ report \in [Owners -> ReportRow \cup {None}]
  /\ dispatcher \in [phase : {"idle"} \cup Phases, kind : {"grant", "result"},
                     id : Id, failed : BOOLEAN]
  /\ mishaps \in 0..MaxMishaps

\* A report once superseded, by a request that was made after it or by another
\* terminal, never counts again: not when that request has ended and its result
\* is acknowledged, nor when the workflow runs again (single_report_current).
Superseded(o) ==
  \/ report[o].terminal # workflow[o].terminal
  \/ \E q \in Of(o) : q > report[o].last
SupersededStays ==
  [][\A o \in Owners :
       (report[o] # None /\ report'[o] = report[o] /\ Superseded(o)) => ~(Counts(o)')]_vars

\* A lease that its owner waited for, and the result of its job, are
\* acknowledged in the end, unless the lease ends or the owner stops before:
\* whatever prompt is refused, whenever the dispatcher dies between sending and
\* recording, and however often the owner's terminal is replaced.
Owes(q) ==
  /\ q \in Made /\ ~Invalid(request[q].owner)
  /\ \/ Unanswered(result[q])
     \/ request[q].state = "leased" /\ request[q].job = "none" /\ Unanswered(grant[q])
EveryNoticeIsAnswered ==
  \A q \in Id : Owes(q) ~> (~Owes(q))
=============================================================================
