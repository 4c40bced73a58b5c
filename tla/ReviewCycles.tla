---------------------------- MODULE ReviewCycles ----------------------------
(***************************************************************************)
(* An orchestrated run: a manager plans, a worker implements, reviewers    *)
(* judge, and a coordinator process replays the durable rows of the run    *)
(* one edge at a time (`workflow supervise`).  Its iteration is a sequence *)
(* of transactions and calls of Orca and git; agents report, commit and    *)
(* die, the coordinator crashes and the operator intervenes in between.    *)
(*                                                                         *)
(* Commits of the worker are numbered; the start of the plan is 0.  Claims *)
(* and terminals of one role are in WorkflowLifecycle, its place in the    *)
(* queue in ResourceQueue; here a finish or a launch is what it leaves.    *)
(***************************************************************************)
EXTENDS Naturals, FiniteSets, Sequences

CONSTANTS
  Reviewers,     \* the reviewer roles of the plan
  Coordinators,  \* supervisors in a terminal the run records
  Manual,        \* supervisors somebody started by hand
  MaxCycles,     \* max_review_cycles of the run
  MaxErrors,     \* orchestration.max_coordinator_errors
  MaxCommits,    \* bound: commits of the worker
  MaxMishaps,    \* bound: crashes, failed calls, interventions of the operator
  Silent,        \* the roles that may report a result and no readiness
  Blockers,      \* the roles that may declare a blocker
  Repeats,       \* may the worker report again what it has reported?
  ResumesRetired,  \* may a role be resumed whose terminal was retired?
  None

Supervisors == Coordinators \union Manual
Manager == "manager"
Worker == "worker"
Children == {Worker} \union Reviewers
Roles == {Manager} \union Children
Cycles == 1..MaxCycles
Foreign == MaxCommits + 1     \* a commit that is not the worker's
Commits == 0..MaxCommits
Outcomes == {"done", "approved", "changes-requested", "blocked"}
Readiness == [outcome : Outcomes, sha : Commits, consumed : BOOLEAN]

ASSUME RunAssumption ==
  /\ MaxCycles \in Nat \ {0} /\ MaxErrors \in Nat \ {0}
  /\ MaxCommits \in Nat /\ MaxMishaps \in Nat
  /\ Repeats \in BOOLEAN /\ ResumesRetired \in BOOLEAN
  /\ Coordinators # {} /\ Coordinators \intersect Manual = {}
  /\ Blockers \union Silent \subseteq Roles
  /\ Reviewers # {} /\ Reviewers \intersect {Manager, Worker} = {}
  /\ None \notin Supervisors \union Nat \union Readiness
  /\ IsFiniteSet(Reviewers)

VARIABLES
  status,      \* workflows.status of each role
  agent,       \* the recorded terminal of each role: NULL, live or gone
  reconciled,  \* the children with external_reconciled_at
  handoff,     \* the children with a recorded handoff
  start,       \* start_sha of each role
  silent,      \* roles with a final execution result of this activation
  ready,       \* workflow_role_readiness, by role and attempt
  run,         \* the row of orchestration_runs
  owner,       \* the coordinator the run names
  head,        \* HEAD of the worker's worktree
  tip,         \* HEAD of the manager's worktree
  remote,      \* what was pushed last
  draft,       \* a report of the worker that is being verified
  pc,          \* the steps each supervisor has before it; none: it is dead
  local,       \* what a supervisor has read in this iteration
  mishaps

rows == <<status, agent, reconciled, handoff, start, silent>>
git == <<head, tip, remote>>
vars == <<rows, ready, run, owner, git, draft, pc, local, mishaps>>

Statuses == {"requested", "starting", "running", "completed", "failed",
             "cancelled"}
Steps == {"idle", "watch", "signals", "blocker", "handoff", "finish", "launch",
          "ask", "start", "create", "work", "list", "collect", "decide", "harvest",
          "check", "push", "complete", "giveup", "exhaust", "stop", "read",
          "prepare", "rework", "rest", "stumble", "block", "salvage", "cancel", "fold",
          "reap", "release", "retire", "close"}

Fresh == [manager |-> "running", cycle |-> 1, who |-> Manager, child |-> Worker,
          todo |-> {}, list |-> {}, open |-> {}, sha |-> 0]

-----------------------------------------------------------------------------
\* The rows, as the code asks for them.

Attempt(r) == IF r = Manager THEN 1 ELSE run.cycle
Pending(r, c) == ready[r][c] # None /\ ~ready[r][c].consumed
HasSignalled(r) == \E c \in Cycles : ready[r][c] # None   \* mutant
HasUnconsumed(r) == \E c \in Cycles : Pending(r, c)
Blocker(r) == \E c \in Cycles : Pending(r, c) /\ ready[r][c].outcome = "blocked"
SomeBlocker == \E r \in Roles : Blocker(r)
Source(c) == IF c = Worker THEN Manager ELSE Worker
Successors(r) ==
  CASE r = Manager -> Children
    [] r = Worker -> Reviewers
    [] OTHER -> Reviewers   \* the query for a reviewer names its siblings
Dead == {r \in Roles : status[r] \in {"failed", "cancelled"}}

\* A role ends; the roles behind it that were not started are cancelled.
Ended(r, target) ==
  [q \in Roles |-> CASE q = r -> target
                     [] q # r /\ q \in Successors(r)
                          /\ status[q] = "requested" -> "cancelled"
                     [] OTHER -> status[q]]

NotClosed(R) == agent   \* mutant
Closed(R) == [r \in Roles |-> IF r \in R /\ agent[r] = "live" THEN "gone"
                              ELSE agent[r]]

WorkerSha == IF \A r \in Reviewers : status[r] = "completed" THEN {head} ELSE {}   \* mutant

\* Every reviewer completed, on one starting commit.
ApprovedSha ==
  IF /\ \A r \in Reviewers : status[r] = "completed"
     /\ \A r, q \in Reviewers : start[r] = start[q]
  THEN {start[r] : r \in Reviewers} ELSE {}

At(s, step) == pc[s] # <<>> /\ Head(pc[s]) = step
Then(s, steps) == pc' = [pc EXCEPT ![s] = steps]
Continue(s) == pc' = [pc EXCEPT ![s] = Tail(@)]
Mishap == mishaps < MaxMishaps /\ mishaps' = mishaps + 1

-----------------------------------------------------------------------------
Init ==
  /\ status = [r \in Roles |-> IF r = Manager THEN "running" ELSE "requested"]
  /\ agent = [r \in Roles |-> IF r = Manager THEN "live" ELSE "none"]
  /\ reconciled = {} /\ handoff = {} /\ silent = {}
  /\ start = [r \in Roles |-> 0]
  /\ ready = [r \in Roles |-> [c \in Cycles |-> None]]
  /\ run = [status |-> "running", cycle |-> 1, errors |-> 0,
            waits |-> FALSE, released |-> FALSE]
  /\ owner \in Coordinators
  /\ head = 0 /\ tip = 0 /\ remote = None /\ draft = None
  /\ pc = [s \in Supervisors |-> IF s = owner THEN <<"idle">> ELSE <<>>]
  /\ local = [s \in Supervisors |-> Fresh]
  /\ mishaps = 0

-----------------------------------------------------------------------------
\* The agents.  A completed role keeps its terminal, so its agent may go on;
\* the next cycle forgets the worker's terminal and does not close it.

WorkerThere == agent[Worker] = "live" \/ (run.cycle > 1 /\ agent[Worker] = "none")

WorkerCommits ==
  /\ WorkerThere /\ head < MaxCommits
  /\ head' = head + 1
  /\ UNCHANGED <<rows, ready, run, owner, tip, remote, draft, pc, local, mishaps>>

ManagerCommits ==
  /\ agent[Manager] = "live" /\ status[Manager] # "running" /\ Mishap
  /\ tip # Foreign /\ tip' = Foreign
  /\ UNCHANGED <<rows, ready, run, owner, head, remote, draft, pc, local>>

\* record_role_readiness: one row per role and attempt, the first one stays.
Recorded(r, outcome, sha) ==
  IF ready[r][Attempt(r)] # None THEN ready
  ELSE [ready EXCEPT ![r][Attempt(r)] =
          [outcome |-> outcome, sha |-> sha, consumed |-> FALSE]]

MayReport(r) ==
  status[r] = "running" /\ (agent[r] = "live" \/ (r = Worker /\ WorkerThere))

\* role_ready of the manager and of a reviewer: the checkout is at its start.
ManagerReports ==
  /\ MayReport(Manager) /\ tip = start[Manager]
  /\ ready' = Recorded(Manager, "done", 0)
  /\ UNCHANGED <<rows, run, owner, git, draft, pc, local, mishaps>>

ReviewerReports(r) ==
  /\ MayReport(r)
  /\ \E outcome \in {"approved", "changes-requested"} :
       ready' = Recorded(r, outcome, start[r])
  /\ UNCHANGED <<rows, run, owner, git, draft, pc, local, mishaps>>

\* A declared blocker needs no state of the checkout.
Blocks(r) ==
  /\ MayReport(r)
  /\ ready' = Recorded(r, "blocked", start[r])
  /\ UNCHANGED <<rows, run, owner, git, draft, pc, local, mishaps>>

\* role_ready of the worker: verify_worker_ready wants a commit beyond the
\* start it has read, then record_role_readiness reads role and run again.
WorkerVerifies ==
  /\ MayReport(Worker) /\ draft = None /\ head # start[Worker]
  /\ Repeats \/ ready[Worker][run.cycle] = None
  /\ draft' = head
  /\ UNCHANGED <<rows, ready, run, owner, git, pc, local, mishaps>>

WorkerReports ==
  /\ draft # None
  /\ IF status[Worker] = "running"
     THEN ready' = Recorded(Worker, "done", draft)
     ELSE UNCHANGED ready
  /\ draft' = None
  /\ UNCHANGED <<rows, run, owner, git, pc, local, mishaps>>

\* workflow result-report: a final result of this activation.
ReportsResult(r) ==
  /\ MayReport(r)
  /\ r \notin silent /\ silent' = silent \union {r}
  /\ UNCHANGED <<status, agent, reconciled, handoff, start, ready, run, owner,
                 git, draft, pc, local, mishaps>>

AgentDies(r) ==
  /\ agent[r] = "live" /\ status[r] = "running" /\ Mishap
  /\ agent' = Closed({r})
  /\ draft' = IF r = Worker THEN None ELSE draft
  /\ UNCHANGED <<status, reconciled, handoff, start, silent, ready, run, owner,
                 git, pc, local>>

Agents ==
  \/ WorkerCommits \/ ManagerCommits \/ ManagerReports
  \/ WorkerVerifies \/ WorkerReports
  \/ \E r \in Reviewers : ReviewerReports(r)
  \/ \E r \in Blockers : Blocks(r)
  \/ \E r \in Silent : ReportsResult(r)
  \/ \E r \in Roles : AgentDies(r)

-----------------------------------------------------------------------------
\* The operator.

\* workflow cancel: claim, close the terminals, end the role and its followers.
OperatorCancels(r) ==
  /\ status[r] \in {"requested", "starting", "running"} /\ Mishap
  /\ status' = Ended(r, "cancelled")
  /\ agent' = Closed({r})
  /\ draft' = IF r = Worker THEN None ELSE draft
  /\ UNCHANGED <<reconciled, handoff, start, silent, ready, run, owner, git,
                 pc, local>>

Abandoned(r) ==
  /\ status[r] = "starting"
  /\ ~ \E s \in Supervisors : At(s, "create") /\ local[s].child = r

\* workflow cleanup --apply of a start that is older than the threshold.
CleansStart(r) ==
  /\ Abandoned(r)
  /\ status' = Ended(r, "cancelled")
  /\ UNCHANGED <<agent, reconciled, handoff, start, silent, ready, run, owner,
                 git, draft, pc, local, mishaps>>

\* workflow resume: an agent for a running role, in its worktree.  Whether
\* the role was retired before is neither asked nor reset.
OperatorResumes(r) ==
  /\ status[r] = "running" /\ agent[r] = "gone" /\ Mishap
  /\ r \in reconciled => ResumesRetired
  /\ agent' = [agent EXCEPT ![r] = "live"]
  /\ silent' = silent \ {r}
  /\ UNCHANGED <<status, reconciled, handoff, start, ready, run, owner, git,
                 draft, pc, local>>

\* attach_watchdog: a live coordinator is kept, a dead one is replaced.
Attaches(s) ==
  /\ run.status = "running" /\ pc[s] = <<>>
  /\ run.released \/ pc[owner] = <<>>
  /\ owner' = s
  /\ Then(s, <<"idle">>)
  /\ UNCHANGED <<rows, ready, run, git, draft, local, mishaps>>

\* retry_orchestration: what may be replayed.
Replayable ==
  \/ SomeBlocker
  \/ /\ \A r \in Roles, c \in Cycles :
          ready[r][c] # None => ready[r][c].outcome # "blocked"
     /\ ~(/\ run.cycle >= MaxCycles
          /\ \E r \in Reviewers :
               /\ ready[r][run.cycle] # None
               /\ ready[r][run.cycle].outcome = "changes-requested"
               /\ ready[r][run.cycle].consumed)
     /\ \/ \E r \in Roles : HasUnconsumed(r)
        \/ \E r \in Roles : status[r] = "running"

\* coordinator-retry: close the coordinator the run names, reset the run by
\* its updated_at, attach a new one.
Retries(s) ==
  /\ run.status \in {"blocked", "failed"} /\ Replayable /\ Mishap
  /\ s = owner \/ pc[s] = <<>>
  /\ run' = [run EXCEPT !.status = "running", !.errors = 0, !.waits = FALSE,
                        !.released = FALSE]
  /\ pc' = [t \in Supervisors |-> CASE t = s -> <<"idle">>
                                    [] t # s /\ t = owner -> <<>>
                                    [] OTHER -> pc[t]]
  /\ owner' = s
  /\ UNCHANGED <<rows, ready, git, draft, local>>

\* workflow supervise by hand, beside the coordinator.
StartsByHand(s) ==
  /\ pc[s] = <<>> /\ Mishap /\ Then(s, <<"idle">>)
  /\ UNCHANGED <<rows, ready, run, owner, git, draft, local>>

Operator ==
  \/ \E r \in Roles : OperatorCancels(r) \/ CleansStart(r) \/ OperatorResumes(r)
  \/ \E s \in Coordinators : Attaches(s) \/ Retries(s)
  \/ \E s \in Manual : StartsByHand(s)

-----------------------------------------------------------------------------
\* The coordinator.  What it does once the run is to end:

Fatal == <<"block", "release", "retire", "close">>
Fails(s) == Then(s, Fatal)
Cleared == IF run.status = "running"
           THEN [run EXCEPT !.errors = 0, !.waits = FALSE] ELSE run

\* The end of an iteration without an error.
Rests(s) ==
  /\ run' = Cleared
  /\ Then(s, <<"idle">>)
  /\ local' = [local EXCEPT ![s] = Fresh]

Begins(s) ==
  /\ At(s, "idle")
  /\ \/ /\ run.status = "running" /\ ~run.waits
        /\ local' = [local EXCEPT ![s] = [Fresh EXCEPT !.manager = status[Manager]]]
        /\ Then(s, <<"watch">>)
     \/ /\ run.status # "running"
        /\ Then(s, <<"retire", "close">>)
        /\ UNCHANGED local
  /\ UNCHANGED <<rows, ready, run, owner, git, draft, mishaps>>

\* coordinator_retry_at has come
TimePasses ==
  /\ run.waits /\ run' = [run EXCEPT !.waits = FALSE]
  /\ UNCHANGED <<rows, ready, owner, git, draft, pc, local, mishaps>>

\* _apply_watchdog: a running role whose terminal is gone or whose time is up.
\* One with a signal to be taken, or a final result, or no terminal is left.
Overdue(s, r) ==
  /\ At(s, "watch")
  /\ status[r] = "running" /\ agent[r] # "none"
  /\ ~HasUnconsumed(r) /\ r \notin silent
  /\ local' = [local EXCEPT ![s] = [Fresh EXCEPT !.who = r]]
  /\ Then(s, <<"block", "salvage", "cancel", "release", "retire", "close">>)
  /\ UNCHANGED <<rows, ready, run, owner, git, draft, mishaps>>

NothingOverdue(s) ==
  /\ At(s, "watch") /\ Then(s, <<"signals">>)
  /\ UNCHANGED <<rows, ready, run, owner, git, draft, local, mishaps>>

\* A blocker first, then the manager's readiness, then the rest.
ReadsSignals(s) ==
  /\ At(s, "signals")
  /\ IF SomeBlocker
     THEN /\ \E r \in Roles : Blocker(r) /\ local' = [local EXCEPT ![s] = [Fresh EXCEPT !.who = r]]
          /\ Then(s, <<"blocker", "fold", "salvage", "reap", "retire", "close">>)
     ELSE IF Pending(Manager, 1)
     THEN /\ local' = [local EXCEPT ![s] = [Fresh EXCEPT !.who = Manager, !.todo = {Worker}]]
          /\ Then(s, IF local[s].manager = "running"
                     THEN <<"handoff", "finish", "launch">> ELSE <<"launch">>)
     ELSE /\ Then(s, <<"work">>)
          /\ local' = [local EXCEPT ![s] = Fresh]
  /\ UNCHANGED <<rows, ready, run, owner, git, draft, mishaps>>

HandsOff(s) ==
  /\ At(s, "handoff")
  /\ IF /\ status[local[s].who] \in {"running", "completed"}
        /\ \A c \in local[s].todo : status[c] = "requested"
     THEN handoff' = handoff \union local[s].todo /\ Continue(s)
     ELSE UNCHANGED handoff /\ Fails(s)
  /\ UNCHANGED <<status, agent, reconciled, start, silent, ready, run, owner,
                 git, draft, local, mishaps>>

\* _finish_role: the agent's terminal is kept for inspection.
Finishes(s) ==
  /\ At(s, "finish")
  /\ IF status[local[s].who] = "running"
     THEN status' = [status EXCEPT ![local[s].who] = "completed"] /\ Continue(s)
     ELSE UNCHANGED status /\ Fails(s)
  /\ UNCHANGED <<agent, reconciled, handoff, start, silent, ready, run, owner,
                 git, draft, local, mishaps>>

\* _ensure_child_started, one successor after the other.
Launches(s) ==
  /\ At(s, "launch")
  /\ \E c \in local[s].todo :
       \/ /\ status[c] \in {"running", "starting"}
          /\ local' = [local EXCEPT ![s].todo = @ \ {c}]
          /\ UNCHANGED pc
       \/ /\ status[c] = "requested"
          /\ local' = [local EXCEPT ![s].child = c]
          /\ Then(s, <<"ask", "start", "create", "launch">>)
       \/ /\ status[c] \in Statuses \ {"running", "starting", "requested"}
          /\ Fails(s)
          /\ UNCHANGED local
  /\ UNCHANGED <<rows, ready, run, owner, git, draft, mishaps>>

\* launch_existing asks for the handoff and the role it comes from ...
Startable(c) == c \in handoff /\ status[Source(c)] = "completed"

Asks(s) ==
  /\ At(s, "ask")
  /\ IF Startable(local[s].child) THEN Continue(s) ELSE Fails(s)
  /\ UNCHANGED <<rows, ready, run, owner, git, draft, local, mishaps>>

\* ... and begin_start does not ask again.  Who finds the role started by
\* another goes on.
BeginsStart(s) ==
  LET c == local[s].child IN
  /\ At(s, "start")
  /\ \/ /\ status[c] = "requested"
        /\ status' = [status EXCEPT ![c] = "starting"]
        /\ Continue(s)
     \/ /\ status[c] \in {"running", "starting"}
        /\ Then(s, <<"launch">>)
        /\ UNCHANGED status
     \/ /\ status[c] \in Statuses \ {"running", "starting", "requested"}
        /\ Fails(s)
        /\ UNCHANGED status
  /\ UNCHANGED <<agent, reconciled, handoff, start, silent, ready, run, owner,
                 git, draft, local, mishaps>>

\* A worktree from the worker's branch, an agent in it, complete_activation.
Creates(s) ==
  LET c == local[s].child IN
  /\ At(s, "create")
  /\ IF status[c] = "starting"
     THEN /\ status' = [status EXCEPT ![c] = "running"]
          /\ agent' = [agent EXCEPT ![c] = "live"]
          /\ start' = [start EXCEPT ![c] = head]
          /\ silent' = silent \ {c}
          /\ local' = [local EXCEPT ![s].todo = @ \ {c},
                                    ![s].child = Worker]
          /\ Continue(s)
     ELSE /\ Fails(s)
          /\ UNCHANGED <<status, agent, start, silent, local>>
  /\ UNCHANGED <<reconciled, handoff, ready, run, owner, git, draft, mishaps>>

CreateFails(s) ==
  /\ At(s, "create") /\ status[local[s].child] = "starting" /\ Mishap
  /\ status' = Ended(local[s].child, "failed")
  /\ Then(s, <<"stumble">>)
  /\ UNCHANGED <<agent, reconciled, handoff, start, silent, ready, run, owner,
                 git, draft, local>>

ConsumesFirst(s) ==   \* mutant
  LET r == local[s].who
      c == IF r = Manager THEN 1 ELSE local[s].cycle
  IN /\ At(s, "launch") /\ ~ready[r][c].consumed
     /\ ready' = [ready EXCEPT ![r][c].consumed = TRUE]
     /\ UNCHANGED <<rows, run, owner, git, draft, pc, local, mishaps>>

\* The signal is consumed last, so that a crash before replays it.
Consumes(s) ==
  LET r == local[s].who
      c == IF r = Manager THEN 1 ELSE local[s].cycle
  IN /\ At(s, "launch") /\ local[s].todo = {}
     /\ ready' = [ready EXCEPT ![r][c].consumed = TRUE]
     /\ Rests(s)
     /\ UNCHANGED <<rows, owner, git, draft, mishaps>>

\* The worker's readiness of this cycle, or the gap at the start of a cycle.
Works(s) ==
  LET c == run.cycle IN
  /\ At(s, "work")
  /\ local' = [local EXCEPT ![s] =
                 [Fresh EXCEPT !.cycle = c, !.who = Worker,
                               !.todo = IF Pending(Worker, c) THEN Reviewers ELSE {}]]
  /\ Then(s, IF Pending(Worker, c)
             THEN IF status[Worker] = "running"
                  THEN <<"handoff", "finish", "launch">> ELSE <<"launch">>
             ELSE IF /\ ready[Worker][c] = None /\ c > 1
                     /\ status[Worker] = "running"
                     /\ \A r \in Reviewers : status[r] = "requested"
             THEN <<"rework", "list">> ELSE <<"list">>)
  /\ UNCHANGED <<rows, ready, run, owner, git, draft, mishaps>>

\* _ensure_rework_agent: a new agent unless the recorded one is alive.
Reworks(s) ==
  /\ At(s, "rework")
  /\ IF agent[Worker] = "live"
     THEN UNCHANGED <<agent, silent>> /\ Continue(s)
     ELSE IF status[Worker] = "running"
     THEN /\ agent' = [agent EXCEPT ![Worker] = "live"]
          /\ silent' = silent \ {Worker}
          /\ Continue(s)
     ELSE UNCHANGED <<agent, silent>> /\ Fails(s)
  /\ UNCHANGED <<status, reconciled, handoff, start, ready, run, owner, git,
                 draft, local, mishaps>>

Lists(s) ==
  LET c == local[s].cycle
      open == {r \in Reviewers : Pending(r, c)}
  IN /\ At(s, "list")
     /\ local' = [local EXCEPT ![s].list = {r \in Reviewers : ready[r][c] # None},
                               ![s].open = open,
                               ![s].todo = {r \in open : status[r] = "running"}]
     /\ Then(s, <<"collect", "decide">>)
     /\ UNCHANGED <<rows, ready, run, owner, git, draft, mishaps>>

\* Every reviewer that has reported is finished.
Collects(s) ==
  /\ At(s, "collect")
  /\ \/ /\ local[s].todo = {}
        /\ Continue(s)
        /\ UNCHANGED <<status, local>>
     \/ \E r \in local[s].todo :
          /\ local' = [local EXCEPT ![s].todo = @ \ {r}]
          /\ IF status[r] = "running"
             THEN status' = [status EXCEPT ![r] = "completed"] /\ UNCHANGED pc
             ELSE UNCHANGED status /\ Fails(s)
  /\ UNCHANGED <<agent, reconciled, handoff, start, silent, ready, run, owner,
                 git, draft, mishaps>>

Incomplete(s) == local[s].list # Reviewers \/ local[s].open = {}
Judged(s) == ~Incomplete(s) /\ \A r \in Reviewers : status[r] # "running"
Unanimous(s) ==
  \A r \in local[s].open : ready[r][local[s].cycle].outcome = "approved"
AskedForChanges(s) ==
  \E r \in local[s].open : ready[r][local[s].cycle].outcome = "changes-requested"

Waits(s) ==
  /\ At(s, "decide")
  /\ IF Incomplete(s) THEN Dead = {} ELSE ~Judged(s)
  /\ Rests(s)
  /\ UNCHANGED <<rows, ready, owner, git, draft, mishaps>>

\* _dead_role: a role that cannot go on ends the run.
FindsDeadRole(s) ==
  /\ At(s, "decide") /\ Incomplete(s) /\ Dead # {}
  /\ run' = [run EXCEPT !.status = "failed"]
  /\ Then(s, <<"release", "salvage", "retire", "close">>)
  /\ UNCHANGED <<rows, ready, owner, git, draft, local, mishaps>>

Decides(s) ==
  /\ At(s, "decide") /\ Judged(s)
  /\ Then(s, IF Unanimous(s)
             THEN <<"harvest", "check", "push", "complete", "retire", "close">>
             ELSE IF local[s].cycle >= MaxCycles
             THEN <<"exhaust", "salvage", "retire", "close">>
             ELSE <<"stop", "read", "prepare", "rework", "rest">>)
  /\ UNCHANGED <<rows, ready, run, owner, git, draft, local, mishaps>>

\* deliver_approved: harvest, delivery_check, push_fast_forward.  The manager's
\* checkout is fast-forwarded when it can be, else merged.
Integrated == IF head = start[Manager] \/ tip = Foreign THEN tip ELSE head
Undelivered(s) == Then(s, <<"giveup", "release", "retire", "close">>)

Harvests(s) ==
  /\ At(s, "harvest")
  /\ IF ApprovedSha = {head}
     THEN tip' = Integrated /\ Continue(s)
     ELSE UNCHANGED tip /\ Undelivered(s)
  /\ UNCHANGED <<rows, ready, run, owner, head, remote, draft, local, mishaps>>

ChecksDelivery(s) ==
  /\ At(s, "check")
  /\ IF ApprovedSha = {tip} THEN Continue(s) ELSE Undelivered(s)
  /\ UNCHANGED <<rows, ready, run, owner, git, draft, local, mishaps>>

Pushes(s) ==
  /\ At(s, "push")
  /\ remote' = tip
  /\ Continue(s)
  /\ UNCHANGED <<rows, ready, run, owner, head, tip, draft, local, mishaps>>

DeliveryFails(s) ==
  /\ At(s, "harvest") \/ At(s, "push")
  /\ Mishap
  /\ Undelivered(s)
  /\ UNCHANGED <<rows, ready, run, owner, git, draft, local>>

GivesUp(s) ==
  /\ At(s, "giveup")
  /\ run' = [run EXCEPT !.status = "failed"]
  /\ Continue(s)
  /\ UNCHANGED <<rows, ready, owner, git, draft, local, mishaps>>

\* finalize_reviewer_outcome: the rows, the run and its coordinator in one step.
Finalized(s, outcome) ==
  LET c == local[s].cycle IN
  \/ /\ run.status = "running" /\ \A r \in local[s].open : Pending(r, c)
     /\ outcome = "blocked" => AskedForChanges(s)
     /\ run' = [run EXCEPT !.status = outcome, !.waits = FALSE, !.released = TRUE]
     /\ ready' = [r \in Roles |-> IF r \in local[s].open
                                  THEN [ready[r] EXCEPT ![c].consumed = TRUE]
                                  ELSE ready[r]]
     /\ Continue(s)
  \/ /\ run.status = outcome /\ \A r \in local[s].open : ~Pending(r, c)
     /\ Continue(s)
     /\ UNCHANGED <<run, ready>>
  \/ /\ \/ run.status \notin {"running", outcome}
        \/ run.status = "running" /\ \E r \in local[s].open : ~Pending(r, c)
        \/ run.status = outcome /\ \E r \in local[s].open : Pending(r, c)
        \/ outcome = "blocked" /\ ~AskedForChanges(s)
     /\ Fails(s)
     /\ UNCHANGED <<run, ready>>

Completes(s) ==
  /\ At(s, "complete") /\ Finalized(s, "completed")
  /\ UNCHANGED <<rows, owner, git, draft, local, mishaps>>

Exhausts(s) ==
  /\ At(s, "exhaust") /\ Finalized(s, "blocked")
  /\ UNCHANGED <<rows, owner, git, draft, local, mishaps>>

\* Another cycle.  stop_role_resources of the reviewers; a list without a
\* request for changes (a blocker came late) ends the process.
Unreconciled == {r \in Reviewers : agent[r] # "none"} \ reconciled

StopsReviewers(s) ==
  /\ At(s, "stop")
  /\ agent' = Closed(Unreconciled)
  /\ reconciled' = reconciled \union Unreconciled
  /\ IF AskedForChanges(s)
     THEN Continue(s) /\ UNCHANGED local
     ELSE Then(s, <<>>) /\ local' = [local EXCEPT ![s] = Fresh]
  /\ UNCHANGED <<status, handoff, start, silent, ready, run, owner, git, draft,
                 mishaps>>

ReadsStart(s) ==   \* mutant
  /\ At(s, "read")
  /\ local' = [local EXCEPT ![s].sha = start[Worker]]
  /\ Continue(s)
  /\ UNCHANGED <<rows, ready, run, owner, git, draft, mishaps>>

\* begin_next_review_cycle reads HEAD of the worker's checkout first.
ReadsHead(s) ==
  /\ At(s, "read")
  /\ local' = [local EXCEPT ![s].sha = head]
  /\ Continue(s)
  /\ UNCHANGED <<rows, ready, run, owner, git, draft, mishaps>>

MayReopen(s) ==
  LET c == run.cycle IN
  /\ run.status = "running" /\ c < MaxCycles /\ c = local[s].cycle
  /\ \A r \in Children : status[r] = "completed"
  /\ Reviewers \subseteq reconciled
  /\ \A r \in Reviewers : Pending(r, c)

SameCycle == run   \* mutant
SkipsCycle == [run EXCEPT !.cycle = @ + 2]   \* mutant
NextCycle == [run EXCEPT !.cycle = @ + 1]

\* prepare_next_review_cycle, one transaction.
Prepares(s) ==
  /\ At(s, "prepare")
  /\ IF MayReopen(s)
     THEN /\ status' = [r \in Roles |-> CASE r = Worker -> "running"
                                          [] r \in Reviewers -> "requested"
                                          [] OTHER -> status[r]]
          /\ agent' = [r \in Roles |-> IF r \in Children THEN "none" ELSE agent[r]]
          /\ reconciled' = reconciled \ Reviewers
          /\ start' = [start EXCEPT ![Worker] = local[s].sha]
          /\ run' = NextCycle
          /\ ready' = [r \in Roles |-> IF r \in Reviewers
                         THEN [ready[r] EXCEPT ![run.cycle].consumed = TRUE]
                         ELSE ready[r]]
          /\ Continue(s)
     ELSE /\ Fails(s)
          /\ UNCHANGED <<status, agent, reconciled, start, run, ready>>
  /\ UNCHANGED <<handoff, silent, owner, git, draft, local, mishaps>>

Returns(s) ==
  /\ At(s, "rest")
  /\ Rests(s)
  /\ UNCHANGED <<rows, ready, owner, git, draft, mishaps>>

-----------------------------------------------------------------------------
\* The ways a run ends.

\* finish of a role whose blocker is taken; its terminal is kept for salvage.
CancelsBlocked(s) ==
  LET r == local[s].who IN
  /\ At(s, "blocker")
  /\ IF status[r] = "running"
     THEN status' = Ended(r, "cancelled") /\ Continue(s)
     ELSE /\ UNCHANGED status
          /\ IF status[r] = "cancelled" THEN Continue(s) ELSE Fails(s)
  /\ UNCHANGED <<agent, reconciled, handoff, start, silent, ready, run, owner,
                 git, draft, local, mishaps>>

\* finalize_blocked_readiness of a blocker of the role
Folds(s) ==
  LET r == local[s].who IN
  /\ At(s, "fold")
  /\ IF run.status = "running" /\ status[r] = "cancelled" /\ Blocker(r)
     THEN /\ \E c \in Cycles :
               /\ Pending(r, c) /\ ready[r][c].outcome = "blocked"
               /\ ready' = [ready EXCEPT ![r][c].consumed = TRUE]
          /\ run' = [run EXCEPT !.status = "blocked", !.waits = FALSE,
                                !.released = TRUE]
          /\ Continue(s)
     ELSE /\ IF run.status = "blocked" /\ ~Blocker(r) THEN Continue(s) ELSE Fails(s)
          /\ UNCHANGED <<ready, run>>
  /\ UNCHANGED <<rows, owner, git, draft, local, mishaps>>

Reaps(s) ==
  LET r == local[s].who IN
  /\ At(s, "reap")
  /\ agent' = Closed({r})
  /\ draft' = IF r = Worker THEN None ELSE draft
  /\ Continue(s)
  /\ UNCHANGED <<status, reconciled, handoff, start, silent, ready, run, owner,
                 git, local, mishaps>>

\* set_orchestration_outcome: whatever the run's status is
SetsBlocked(s) ==
  /\ At(s, "block")
  /\ run' = [run EXCEPT !.status = "blocked"]
  /\ Continue(s)
  /\ UNCHANGED <<rows, ready, owner, git, draft, local, mishaps>>

\* harvest of a terminal run: a completed one only at the approved commit
Harvestable ==
  /\ run.status # "running"
  /\ run.status = "completed" => ApprovedSha = {head}

\* salvage_candidate: what the run started from has been built upon, by
\* fast-forward, in the manager's worktree whose head is to be c.
Salvageable(c) == c # Foreign /\ head # start[Manager]

\* salvage_progress: harvest, then push what was fast-forwarded; never an error.
Salvages(s) ==
  /\ At(s, "salvage")
  /\ \/ /\ Harvestable
        /\ tip' = Integrated
        /\ remote' = IF Salvageable(Integrated) THEN Integrated ELSE remote
        /\ UNCHANGED mishaps
     \/ /\ (~Harvestable /\ UNCHANGED mishaps) \/ Mishap
        /\ UNCHANGED <<tip, remote>>
  /\ Continue(s)
  /\ UNCHANGED <<rows, ready, run, owner, head, draft, local>>

\* finish of the role that was overdue, as it was read by the watchdog
CancelsOverdue(s) ==
  LET r == local[s].who IN
  /\ At(s, "cancel")
  /\ IF status[r] = "running"
     THEN /\ status' = Ended(r, "cancelled")
          /\ agent' = Closed({r})
          /\ draft' = IF r = Worker THEN None ELSE draft
          /\ Continue(s)
     ELSE UNCHANGED <<status, agent, draft>> /\ Fails(s)
  /\ UNCHANGED <<reconciled, handoff, start, silent, ready, run, owner, git,
                 local, mishaps>>

\* release_coordinator_ownership
Releases(s) ==
  /\ At(s, "release")
  /\ run' = [run EXCEPT !.released = TRUE]
  /\ Continue(s)
  /\ UNCHANGED <<rows, ready, owner, git, draft, local, mishaps>>

\* retire --keep manager: harvest, then the children's terminals.
Retires(s) ==
  LET there == {r \in Children : agent[r] # "none"} IN
  /\ At(s, "retire")
  /\ \/ /\ Harvestable
        /\ tip' = Integrated
        /\ agent' = Closed(there)
        /\ reconciled' = reconciled \union there
        /\ draft' = IF Worker \in there THEN None ELSE draft
        /\ UNCHANGED mishaps
     \/ /\ (~Harvestable /\ UNCHANGED mishaps) \/ Mishap
        /\ UNCHANGED <<tip, agent, reconciled, draft>>
  /\ Continue(s)
  /\ UNCHANGED <<status, handoff, start, silent, ready, run, owner, head, remote,
                 local>>

\* close_watchdog: the coordinator the run records, which need not be this one.
Closes(s) ==
  /\ At(s, "close")
  /\ run' = [run EXCEPT !.released = TRUE]
  /\ pc' = [t \in Supervisors |-> IF t \in {s, owner} THEN <<>> ELSE pc[t]]
  /\ local' = [t \in Supervisors |-> IF t \in {s, owner} THEN Fresh ELSE local[t]]
  /\ UNCHANGED <<rows, ready, owner, git, draft, mishaps>>

\* A call of Orca or git fails.
Stumbles(s) ==
  /\ \E step \in {"finish", "collect", "blocker", "stop", "read", "rework",
                  "reap", "cancel"} : At(s, step)
  /\ Mishap
  /\ Then(s, <<"stumble">>)
  /\ UNCHANGED <<rows, ready, run, owner, git, draft, local>>

\* record_coordinator_error; of a run that is over there is no time to wait
\* for, and the process ends with that.
RecordsError(s) ==
  LET more == run.errors + 1 IN
  /\ At(s, "stumble")
  /\ \/ /\ run.status = "running" /\ more < MaxErrors
        /\ run' = [run EXCEPT !.errors = more, !.waits = TRUE]
        /\ Then(s, <<"idle">>)
     \/ /\ run.status = "running" /\ more >= MaxErrors
        /\ run' = [run EXCEPT !.status = "blocked", !.errors = more, !.waits = FALSE]
        /\ Then(s, Tail(Fatal))
     \/ /\ run.status = "blocked"
        /\ Then(s, Tail(Fatal))
        /\ UNCHANGED run
     \/ /\ run.status \in {"completed", "failed"}
        /\ Then(s, <<>>)
        /\ UNCHANGED run
  /\ local' = [local EXCEPT ![s] = Fresh]
  /\ UNCHANGED <<rows, ready, owner, git, draft, mishaps>>

Crashes(s) ==
  /\ pc[s] # <<>> /\ Mishap
  /\ Then(s, <<>>)
  /\ local' = [local EXCEPT ![s] = Fresh]
  /\ UNCHANGED <<rows, ready, run, owner, git, draft>>

Supervises(s) ==
  \/ Begins(s) \/ NothingOverdue(s) \/ ReadsSignals(s) \/ HandsOff(s)
  \/ Finishes(s) \/ Launches(s) \/ Asks(s) \/ BeginsStart(s) \/ Creates(s) \/ Consumes(s)
  \/ Works(s) \/ Reworks(s) \/ Lists(s) \/ Collects(s) \/ Waits(s)
  \/ FindsDeadRole(s) \/ Decides(s) \/ Harvests(s) \/ ChecksDelivery(s)
  \/ Pushes(s) \/ GivesUp(s) \/ Completes(s) \/ Exhausts(s)
  \/ StopsReviewers(s) \/ ReadsHead(s) \/ Prepares(s) \/ Returns(s)
  \/ CancelsBlocked(s) \/ Folds(s) \/ Reaps(s) \/ SetsBlocked(s) \/ Salvages(s)
  \/ CancelsOverdue(s) \/ Releases(s) \/ Retires(s) \/ Closes(s)
  \/ RecordsError(s)

Next ==
  \/ Agents \/ Operator \/ TimePasses
  \/ \E s \in Supervisors :
       \/ Supervises(s) \/ CreateFails(s) \/ DeliveryFails(s) \/ Stumbles(s)
       \/ Crashes(s)
       \/ \E r \in Roles : Overdue(s, r)

Spec == Init /\ [][Next]_vars

\* A process that runs goes on, and the clock does: a role whose time is up is
\* found overdue by one of the rounds that look.  Agents, the operator and
\* whatever starts a coordinator owe nothing.
FairSpec ==
  /\ Spec /\ WF_vars(TimePasses)
  /\ \A s \in Supervisors : WF_vars(Supervises(s))
  /\ \A s \in Coordinators, r \in Roles : SF_vars(Overdue(s, r))

-----------------------------------------------------------------------------
\* Types.
TypeOK ==
  /\ status \in [Roles -> Statuses]
  /\ agent \in [Roles -> {"none", "live", "gone"}]
  /\ reconciled \subseteq Children /\ handoff \subseteq Children
  /\ silent \subseteq Roles
  /\ start \in [Roles -> Commits]
  /\ ready \in [Roles -> [Cycles -> Readiness \union {None}]]
  /\ run \in [status : {"running", "completed", "blocked", "failed"},
              cycle : Cycles, errors : 0..MaxErrors,
              waits : BOOLEAN, released : BOOLEAN]
  /\ owner \in Coordinators
  /\ head \in Commits /\ tip \in Commits \union {Foreign}
  /\ remote \in Commits \union {Foreign, None} /\ draft \in Commits \union {None}
  /\ \A s \in Supervisors : \A i \in DOMAIN pc[s] : pc[s][i] \in Steps
  /\ \A s \in Supervisors : local[s].todo \union local[s].open \subseteq Children
  /\ mishaps \in 0..MaxMishaps

\* A completed run has delivered nothing of the worker's but the one commit that
\* every reviewer of its last cycle was given and approved, however the worker
\* went on and wherever the coordinator was replaced (deliver_approved).  What
\* the manager's agent commits between check and push goes out unseen.
DeliveryIsApproved ==
  run.status = "completed" =>
    \A r \in Reviewers :
      /\ ready[r][run.cycle] # None
      /\ ready[r][run.cycle].outcome = "approved"
      /\ remote \in {ready[r][run.cycle].sha, Foreign}

\* A signal is consumed only when the roles it calls for have been started, so
\* a crash in between can be replayed (_supervise_once, "consume last").
ConsumedLast ==
  /\ ready[Manager][1] # None /\ ready[Manager][1].consumed
       => status[Worker] # "requested"
  /\ LET w == ready[Worker][run.cycle] IN
     w # None /\ w.consumed => \A r \in Reviewers : status[r] # "requested"

\* Every cycle of review judges work that the cycle before had not: the gate of
\* the worker's readiness cannot be passed with its old commits.
EveryCycleHasNewWork ==
  \A c, d \in Cycles :
    LET w == ready[Worker][c] v == ready[Worker][d] IN
    c < d /\ w # None /\ v # None /\ w.outcome = "done" /\ v.outcome = "done"
      => w.sha < v.sha

\* A declared blocker that was taken has ended the run; a retry goes on only
\* to take another (finalize_blocked_readiness, retry_orchestration).
BlockerEndsTheRun ==
  (\E r \in Roles, c \in Cycles :
     /\ ready[r][c] # None /\ ready[r][c].outcome = "blocked"
     /\ ready[r][c].consumed)
    => run.status # "running" \/ SomeBlocker

\* progress_snapshot: where the run is, as its rows tell.
Stage == CASE status[Manager] # "completed" -> "planning"
           [] status[Manager] = "completed" /\ status[Worker] # "completed" -> "implementing"
           [] OTHER -> "reviewing"

\* Whatever processes and agents do, the run goes through its phases in order.
Phases == INSTANCE RunPhases WITH
  phase <- Stage,
  cycle <- run.cycle,
  outcome <- run.status

RunsThroughPhases == Phases!PhaseSpec

\* No step forgets the terminal of a reviewer whose agent still runs, unless it
\* was resumed after its retirement (prepare_next_review_cycle forgets those it
\* finds reconciled, and a resume does not undo that).
NoReviewerIsForgotten ==
  [][\A r \in Reviewers : agent[r] = "live" => agent'[r] # "none"]_vars

\* A run that runs ends, unless no coordinator is ever attached again: every
\* round looks for roles that cannot go on (_apply_watchdog, _dead_role).
NeverPollsForever ==
  []<>(run.status # "running") \/ <>[](pc[owner] = <<>>)

\* What it does wait for: a start that was abandoned in the middle, and a role
\* with a final result and no readiness.
Stuck ==
  \/ \E r \in Children : Abandoned(r)
  \/ \E r \in silent : status[r] = "running" /\ \A c \in Cycles : ~Pending(r, c)

\* Apart from these two, every run settles.
RunSettles == NeverPollsForever \/ <>[]Stuck
=============================================================================
