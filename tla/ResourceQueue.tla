---------------------------- MODULE ResourceQueue ----------------------------
(***************************************************************************)
(* The durable resource queue (packages/core/.../queue.py) and the queued  *)
(* jobs its dispatcher runs (packages/cli/.../dispatcher.py).              *)
(*                                                                         *)
(* Every operation of ResourceQueue is one BEGIN IMMEDIATE transaction on  *)
(* one SQLite file, so every operation is one atomic action here.  What is *)
(* not atomic is what the transactions are about: the command a job runs,  *)
(* the cleanup check after it, the owner that uses a manual lease, and the *)
(* dispatcher process itself, which may die between any two transactions   *)
(* while the command it started goes on.                                   *)
(*                                                                         *)
(* Requests are numbered in the order of their created_at stamp, which is  *)
(* taken inside the transaction; a number stands for (created_at, id).     *)
(***************************************************************************)
EXTENDS Integers, FiniteSets

CONSTANTS
  Resource,        \* the configured resource names
  Owner,           \* workflow ids (or plain owner names)
  Activation,      \* (attempt, terminal handle) pairs an owner may run under
  None,            \* no request, no resource, no owner, any activation
  MaxRequests,     \* bound on the requests ever made
  MaxExecutors,    \* worker threads of the dispatcher (8 in the code)
  MaxMishaps,      \* bound on crashes, stops and failed commits
  FinishMayFail,   \* may the transaction of finish_job raise sqlite3.Error?
  ResolveRunning   \* do operators resolve a block whose job is still "running"?

ASSUME ConstantsAssumption ==
  /\ MaxRequests \in Nat
  /\ MaxExecutors \in Nat \ {0}
  /\ MaxMishaps \in Nat
  /\ FinishMayFail \in BOOLEAN
  /\ ResolveRunning \in BOOLEAN
  /\ None \notin Int
  /\ None \notin Resource \cup Owner \cup Activation

Id == 1 .. MaxRequests

Status == {"unused", "waiting", "leased", "released", "cancelled"}
JobStatus == {"none", "queued", "running", "succeeded", "failed",
              "recovery_required"}
ExecutorState == {"idle", "running", "clean", "dirty", "raised"}

VARIABLES
  status,      \* queue_requests.status
  resource,    \* queue_requests.resource
  owner,       \* queue_requests.owner
  activation,  \* queue_requests.(owner_attempt, owner_terminal_handle)
  job,         \* queue_jobs.status, "none" without a row
  block,       \* queue_resource_blocks.request_id, None without a row
  paused,      \* queue_dispatcher_control.paused
  dispatcher,  \* "serving" while a service process holds the lock
  executor,    \* the thread of the service that executes a job
  live,        \* requests whose command or check is a live child process
  occupied,    \* requests whose use of the resource has not been cleaned up
  mishaps      \* how many crashes, stops and failed commits there were

requestVars == <<status, resource, owner, activation>>
serviceVars == <<paused, dispatcher, executor, live>>
vars == <<status, resource, owner, activation, job, block, paused,
          dispatcher, executor, live, occupied, mishaps>>

TypeOK ==
  /\ status \in [Id -> Status]
  /\ resource \in [Id -> Resource \cup {None}]
  /\ owner \in [Id -> Owner \cup {None}]
  /\ activation \in [Id -> Activation \cup {None}]
  /\ job \in [Id -> JobStatus]
  /\ block \in [Resource -> Id \cup {None}]
  /\ paused \in BOOLEAN
  /\ dispatcher \in {"down", "serving"}
  /\ executor \in [Id -> ExecutorState]
  /\ live \in SUBSET Id
  /\ occupied \in SUBSET Id
  /\ mishaps \in Nat
  /\ \A q \in Id : status[q] # "unused" => resource[q] \in Resource

Init ==
  /\ status = [q \in Id |-> "unused"]
  /\ resource = [q \in Id |-> None]
  /\ owner = [q \in Id |-> None]
  /\ activation = [q \in Id |-> None]
  /\ job = [q \in Id |-> "none"]
  /\ block = [r \in Resource |-> None]
  /\ paused = FALSE
  /\ dispatcher = "down"
  /\ executor = [q \in Id |-> "idle"]
  /\ live = {}
  /\ occupied = {}
  /\ mishaps = 0

-----------------------------------------------------------------------------
(* What the transactions read. *)

Active(q) == status[q] \in {"waiting", "leased"}

HasStatus(st, r, s) == \E q \in Id : resource[q] = r /\ st[q] = s

Executing == {q \in Id : executor[q] # "idle"}

\* Mutant: only running jobs that still hold their lease are looked for.
RunningLeasedJobs == {q \in Id : job[q] = "running" /\ status[q] = "leased"}

RunningJobs == {q \in Id : job[q] = "running"}

\* Mutant: a recovery block is not asked for.
HasNoLease(r) == ~HasStatus(status, r, "leased")

\* acquire grants on arrival only what is neither leased nor blocked.
IsFree(r) == ~HasStatus(status, r, "leased") /\ block[r] = None

\* Mutant: requests that wait no longer are compared as well.
IsOldestRequest(st, r, q) ==
  /\ resource[q] = r /\ st[q] = "waiting"
  /\ \A p \in Id : resource[p] = r => q <= p

\* The oldest waiting request for r.
IsOldestWaiter(st, r, q) ==
  /\ resource[q] = r /\ st[q] = "waiting"
  /\ \A p \in Id : resource[p] = r /\ st[p] = "waiting" => q <= p

\* _promote: nothing while the resource is blocked, else the oldest waiter.
Promote(st, blk, r) ==
  [q \in Id |-> IF blk[r] = None /\ IsOldestWaiter(st, r, q)
                THEN "leased" ELSE st[q]]

\* UNIQUE INDEX one_resource_lease: a transaction that would leave two leases
\* on a resource raises IntegrityError and is rolled back.
LeaseIndex(st) ==
  \A p, q \in Id : /\ st[p] = "leased" /\ st[q] = "leased"
                   /\ resource[p] = resource[q]
                   => p = q

\* Mutant: the lease is given up without a block.
BlockNothing(q) == block

\* _block_lease: INSERT OR IGNORE, the block that is there stays.
BlockLease(q) ==
  [block EXCEPT ![resource[q]] = IF @ = None THEN q ELSE @]

\* Mutant: a lease whose job runs is not blocked.
BlockIdleLost(gone) ==
  LET lost(r) == {q \in gone : /\ status[q] = "leased" /\ resource[q] = r
                               /\ job[q] # "running"}
  IN [r \in Resource |-> IF block[r] = None /\ lost(r) # {}
                         THEN CHOOSE q \in lost(r) : TRUE ELSE block[r]]

\* The same for every lease among requests that are cancelled together.
BlockLost(gone) ==
  LET lost(r) == {q \in gone : status[q] = "leased" /\ resource[q] = r}
  IN [r \in Resource |-> IF block[r] = None /\ lost(r) # {}
                         THEN CHOOSE q \in lost(r) : TRUE ELSE block[r]]

\* Mutant: the job gets the status of its request.
CancelledWithRequest(s) == IF s = "queued" THEN "cancelled" ELSE s

\* What a cancelled request does to its job: only a queued one fails.
Withdrawn(s) == IF s = "queued" THEN "failed" ELSE s

\* Mutant: a command that failed cleanly is tried again.
OutcomeOrRetry(safe, commandOk) ==
  IF safe /\ commandOk THEN "succeeded"
  ELSE IF safe THEN "queued" ELSE "recovery_required"

\* finish_job: the status a job ends with.
Outcome(safe, commandOk) ==
  IF safe /\ commandOk THEN "succeeded"
  ELSE IF safe THEN "failed" ELSE "recovery_required"

\* Mutant: the block in the job's own name counts as somebody else's.
NoBlock(q) == block[resource[q]] = None

\* Mutant: any block is lifted by the recovery of any job.
AnyBlock(q) == TRUE

\* recover_dispatcher_job: no block, or the block of this very request.
NoForeignBlock(q) == block[resource[q]] \in {None, q}

\* A promoted manual request starts to use the resource; a promoted job
\* starts only when it is claimed.
NewUsers(st) ==
  {q \in Id : st[q] = "leased" /\ status[q] # "leased" /\ job[q] = "none"}

-----------------------------------------------------------------------------
(* Requests, leases and blocks. *)

\* acquire: a new request of an owner without an active one for the resource.
\* (Repeating it for the active request changes nothing.)
Acquire(q, o, r, a, withJob) ==
  /\ status[q] = "unused" /\ \A p \in Id : p < q => status[p] # "unused"
  /\ ~ \E p \in Id : owner[p] = o /\ resource[p] = r /\ Active(p)
  /\ status' = [status EXCEPT ![q] = IF IsFree(r) THEN "leased" ELSE "waiting"]
  /\ occupied' = IF IsFree(r) /\ ~withJob THEN occupied \cup {q} ELSE occupied
  /\ resource' = [resource EXCEPT ![q] = r]
  /\ owner' = [owner EXCEPT ![q] = o]
  /\ activation' = [activation EXCEPT ![q] = a]
  /\ job' = [job EXCEPT ![q] = IF withJob THEN "queued" ELSE "none"]
  /\ UNCHANGED <<block, serviceVars, mishaps>>

\* release: the owner gives a manual lease back after its cleanup.
Release(q) ==
  /\ status[q] = "leased" /\ job[q] = "none"
  /\ status' = Promote([status EXCEPT ![q] = "released"], block, resource[q])
  /\ LeaseIndex(status')
  /\ occupied' = (occupied \ {q}) \cup NewUsers(status')
  /\ UNCHANGED <<resource, owner, activation, job, block, serviceVars, mishaps>>

\* cancel by request id, refused while the job runs.
Cancel(q, confirmed) ==
  /\ Active(q) /\ job[q] # "running"
  /\ job' = [job EXCEPT ![q] = Withdrawn(@)]
  /\ LET st == [status EXCEPT ![q] = "cancelled"]
     IN \/ /\ status[q] = "waiting"
           /\ status' = st
           /\ UNCHANGED <<block, occupied>>
        \/ /\ status[q] = "leased" /\ ~confirmed
           /\ status' = st
           /\ block' = BlockLease(q)
           /\ UNCHANGED occupied
        \/ /\ status[q] = "leased" /\ confirmed
           /\ status' = Promote(st, block, resource[q])
           /\ LeaseIndex(status')
           /\ occupied' = (occupied \ {q}) \cup NewUsers(status')
           /\ UNCHANGED block
  /\ UNCHANGED <<resource, owner, activation, serviceVars, mishaps>>

\* The active requests of an owner, of one activation unless a = None.
OwnedBy(o, a) ==
  {q \in Id : Active(q) /\ owner[q] = o /\ (a = None \/ activation[q] = a)}

\* cancel_owner and _cancel_queue_owners: running jobs keep running, every
\* lease that is lost blocks its resource.
CancelOwner(o, a) ==
  LET gone == OwnedBy(o, a)
  IN /\ gone # {}
     /\ status' = [q \in Id |-> IF q \in gone THEN "cancelled" ELSE status[q]]
     /\ job' = [q \in Id |-> IF q \in gone THEN Withdrawn(job[q]) ELSE job[q]]
     /\ block' = BlockLost(gone)
     /\ UNCHANGED <<resource, owner, activation, occupied, serviceVars, mishaps>>

\* expire_waiting: waiters made before a cutoff; their job rows are not touched.
ExpireWaiting(cutoff) ==
  LET stale == {q \in Id : status[q] = "waiting" /\ q <= cutoff}
  IN /\ stale # {}
     /\ status' = [q \in Id |-> IF q \in stale THEN "cancelled" ELSE status[q]]
     /\ UNCHANGED <<resource, owner, activation, job, block, occupied,
                    serviceVars, mishaps>>

\* resolve: the operator states that the exact blocked request is cleaned up,
\* which is true only when no child process of it lives.
Resolve(q) ==
  /\ q \notin live
  /\ ResolveRunning \/ job[q] # "running"
  /\ \E r \in Resource :
       /\ block[r] = q
       /\ block' = [block EXCEPT ![r] = None]
       /\ status' = Promote(status, block', r)
  /\ LeaseIndex(status')
  /\ occupied' = (occupied \ {q}) \cup NewUsers(status')
  /\ UNCHANGED <<resource, owner, activation, job, serviceVars, mishaps>>

-----------------------------------------------------------------------------
(* Jobs and the dispatcher that runs them. *)

\* claim_job, then the thread that starts the command.
ClaimJob(q) ==
  /\ dispatcher = "serving" /\ ~paused
  /\ Cardinality(Executing) < MaxExecutors
  /\ job[q] = "queued" /\ status[q] = "leased" /\ block[resource[q]] = None
  /\ job' = [job EXCEPT ![q] = "running"]
  /\ executor' = [executor EXCEPT ![q] = "running"]
  /\ live' = live \cup {q}
  /\ occupied' = occupied \cup {q}
  /\ UNCHANGED <<requestVars, block, paused, dispatcher, mishaps>>

\* _execute: the command ends and the cleanup check after it exits zero or not.
ExecutionEnds(q, clean) ==
  /\ executor[q] = "running"
  /\ executor' = [executor EXCEPT ![q] = IF clean THEN "clean" ELSE "dirty"]
  /\ live' = live \ {q}
  /\ occupied' = IF clean THEN occupied \ {q} ELSE occupied
  /\ UNCHANGED <<requestVars, job, block, paused, dispatcher, mishaps>>

\* finish_job: the lease is released only on proof; a request that lost its
\* lease in the meantime gives back only the block that is its own.
FinishJob(q, commandOk) ==
  LET safe == executor[q] = "clean"
      r == resource[q]
  IN /\ executor[q] \in {"clean", "dirty"} /\ job[q] = "running"
     /\ executor' = [executor EXCEPT ![q] = "idle"]
     /\ job' = [job EXCEPT ![q] = Outcome(safe, commandOk)]
     /\ \/ /\ status[q] = "leased" /\ safe
           /\ status' = Promote([status EXCEPT ![q] = "released"], block, r)
           /\ UNCHANGED block
        \/ /\ status[q] = "leased" /\ ~safe
           /\ status' = [status EXCEPT ![q] = "cancelled"]
           /\ block' = BlockLease(q)
        \/ /\ status[q] # "leased" /\ safe /\ block[r] = q
           /\ block' = [block EXCEPT ![r] = None]
           /\ status' = Promote(status, block', r)
        \/ /\ status[q] # "leased" /\ ~(safe /\ block[r] = q)
           /\ UNCHANGED <<status, block>>
     /\ LeaseIndex(status')
     /\ occupied' = occupied \cup NewUsers(status')
     /\ UNCHANGED <<resource, owner, activation, paused, dispatcher, live, mishaps>>

\* The transaction of finish_job raises: the future holds the exception.
FinishRaises(q) ==
  /\ FinishMayFail /\ mishaps < MaxMishaps
  /\ executor[q] \in {"clean", "dirty"}
  /\ executor' = [executor EXCEPT ![q] = "raised"]
  /\ mishaps' = mishaps + 1
  /\ UNCHANGED <<requestVars, job, block, paused, dispatcher, live, occupied>>

\* abandon_job, called by the service loop for a future that raised.
AbandonJob(q) ==
  /\ executor[q] = "raised" /\ job[q] = "running"
  /\ executor' = [executor EXCEPT ![q] = "idle"]
  /\ job' = [job EXCEPT ![q] = "recovery_required"]
  /\ status' = [status EXCEPT ![q] = IF @ = "leased" THEN "cancelled" ELSE @]
  /\ block' = BlockLease(q)
  /\ UNCHANGED <<resource, owner, activation, paused, dispatcher, live,
                 occupied, mishaps>>

\* recover_dispatcher_job: the operator states that the orphan stopped and
\* that its cleanup is confirmed.
RecoverJob(q) ==
  LET r == resource[q]
      unblocked == [block EXCEPT ![r] = None]
      st == [status EXCEPT ![q] = IF @ = "leased" THEN "released" ELSE @]
  IN /\ dispatcher = "down" /\ paused
     /\ job[q] = "running" /\ NoForeignBlock(q)
     /\ q \notin live
     /\ job' = [job EXCEPT ![q] = "failed"]
     /\ block' = unblocked
     /\ status' = Promote(st, unblocked, r)
     /\ LeaseIndex(status')
     /\ occupied' = (occupied \ {q}) \cup NewUsers(status')
     /\ UNCHANGED <<resource, owner, activation, serviceVars, mishaps>>

-----------------------------------------------------------------------------
(* The dispatcher process. *)

\* serve: startup refuses a barrier and jobs of unknown liveness.
Serve ==
  /\ dispatcher = "down" /\ ~paused /\ RunningJobs = {}
  /\ dispatcher' = "serving"
  /\ UNCHANGED <<requestVars, job, block, paused, executor, live, occupied, mishaps>>

\* The loop returns once it is paused and no executor is left.
ServiceExits ==
  /\ dispatcher = "serving" /\ paused /\ Executing = {}
  /\ dispatcher' = "down"
  /\ UNCHANGED <<requestVars, job, block, paused, executor, live, occupied, mishaps>>

\* The process dies: its threads are gone, its child processes are not.
Crash ==
  /\ dispatcher = "serving" /\ mishaps < MaxMishaps
  /\ dispatcher' = "down"
  /\ executor' = [q \in Id |-> "idle"]
  /\ mishaps' = mishaps + 1
  /\ UNCHANGED <<requestVars, job, block, paused, live, occupied>>

\* The loop is left by an exception: the pool waits for its threads, futures
\* that raised stay unread, and the barrier is set before the lock is released.
ServiceFails ==
  /\ dispatcher = "serving" /\ mishaps < MaxMishaps
  /\ \A q \in Executing : executor[q] = "raised"
  /\ dispatcher' = "down"
  /\ paused' = TRUE
  /\ executor' = [q \in Id |-> "idle"]
  /\ mishaps' = mishaps + 1
  /\ UNCHANGED <<requestVars, job, block, live, occupied>>

\* A child that outlived the service ends; nobody runs its cleanup check.
OrphanEnds(q) ==
  /\ q \in live /\ executor[q] = "idle"
  /\ live' = live \ {q}
  /\ UNCHANGED <<requestVars, job, block, paused, dispatcher, executor,
                 occupied, mishaps>>

\* request_dispatcher_stop, by an operator or by a signal to the service.
StopDispatcher ==
  /\ ~paused /\ mishaps < MaxMishaps
  /\ paused' = TRUE
  /\ mishaps' = mishaps + 1
  /\ UNCHANGED <<requestVars, job, block, dispatcher, executor, live, occupied>>

\* The same barrier as the first step of recovering an orphan.
StopForRecovery ==
  /\ ~paused /\ dispatcher = "down" /\ RunningJobs # {}
  /\ paused' = TRUE
  /\ UNCHANGED <<requestVars, job, block, dispatcher, executor, live,
                 occupied, mishaps>>

\* start_dispatcher: needs the lock and no running job, lifts the barrier.
StartDispatcher ==
  /\ paused /\ dispatcher = "down" /\ RunningJobs = {}
  /\ paused' = FALSE
  /\ UNCHANGED <<requestVars, job, block, dispatcher, executor, live,
                 occupied, mishaps>>

-----------------------------------------------------------------------------

RequestStep ==
  \/ \E q \in Id, o \in Owner, r \in Resource, a \in Activation, j \in BOOLEAN :
       Acquire(q, o, r, a, j)
  \/ \E q \in Id : Release(q)
  \/ \E q \in Id, confirmed \in BOOLEAN : Cancel(q, confirmed)
  \/ \E o \in Owner, a \in Activation \cup {None} : CancelOwner(o, a)
  \/ \E cutoff \in Id : ExpireWaiting(cutoff)
  \/ \E q \in Id : Resolve(q)

JobStep ==
  \/ \E q \in Id : ClaimJob(q)
  \/ \E q \in Id, clean \in BOOLEAN : ExecutionEnds(q, clean)
  \/ \E q \in Id, commandOk \in BOOLEAN : FinishJob(q, commandOk)
  \/ \E q \in Id : FinishRaises(q)
  \/ \E q \in Id : AbandonJob(q)
  \/ \E q \in Id : RecoverJob(q)

ServiceStep ==
  \/ Serve \/ ServiceExits \/ ServiceFails \/ Crash
  \/ StopDispatcher \/ StopForRecovery \/ StartDispatcher
  \/ \E q \in Id : OrphanEnds(q)

Next == RequestStep \/ JobStep \/ ServiceStep

Spec == Init /\ [][Next]_vars

-----------------------------------------------------------------------------
(* Safety. *)

\* A waiting request is never stranded: while anybody waits for a resource
\* there is a lease or a recovery block whose end promotes the oldest waiter
\* (every caller of _promote, and the ones that return without calling it).
NoLostWakeup ==
  \A r \in Resource : HasStatus(status, r, "waiting") =>
    HasStatus(status, r, "leased") \/ block[r] # None

\* At most one request uses a resource at a time, from its grant or its claim
\* until its own release, its own cleanup proof or an operator's confirmation
\* (release, finish_job, resolve, recover_dispatcher_job).
ExclusiveUse ==
  \A p, q \in occupied : resource[p] = resource[q] => p = q

\* A lease that ended without cleanup proof keeps its resource blocked in its
\* own name until its cleanup is confirmed (_block_lease in cancel,
\* cancel_owner, finish_job and abandon_job).
UnverifiedIsBlocked ==
  \A q \in occupied : status[q] # "leased" => block[resource[q]] = q

\* What an operator is entitled to do commits: when the explicit checks of
\* resolve or recover_dispatcher_job pass, the promotion they end with does
\* not run into the one-lease-per-resource index.
RecoveryCommits ==
  \A q \in Id : LET r == resource[q] IN
    (\/ r \in Resource /\ block[r] = q /\ q \notin live
        /\ (ResolveRunning \/ job[q] # "running")
     \/ job[q] = "running" /\ dispatcher = "down" /\ q \notin live
        /\ NoForeignBlock(q))
    => ~(\E p \in Id : p # q /\ resource[p] = r /\ status[p] = "leased")
       \/ ~HasStatus(status, r, "waiting")

\* While a service holds the lock it knows every running job: a job that some
\* earlier service left behind keeps the next one from starting (serve).
ServiceKnowsItsJobs ==
  dispatcher = "serving" =>
    \A q \in Id : job[q] = "running" => executor[q] # "idle"

(* Action properties. *)

\* Leases are granted in arrival order: when a request gets its lease no older
\* request for the same resource is left waiting, neither when it is promoted
\* nor when it is granted on arrival (_promote, acquire).
NoOlderWaits ==
  \A p, q \in Id :
    /\ status[q] # "leased" /\ status'[q] = "leased"
    /\ p < q /\ resource'[p] = resource'[q]
    => status'[p] # "waiting"

GrantInArrivalOrder == [][NoOlderWaits]_vars

\* A job is started once and its outcome is final: it goes from queued to
\* running to one outcome and never back (claim_job, finish_job, abandon_job,
\* recover_dispatcher_job, cancel), whatever crashed in between.
JobRank(s) ==
  CASE s = "none" -> 0 [] s = "queued" -> 1 [] s = "running" -> 2 [] OTHER -> 3

JobsOnlyAdvance ==
  \A q \in Id : job'[q] = job[q] \/ JobRank(job[q]) < JobRank(job'[q])

JobsNeverRerun == [][JobsOnlyAdvance]_vars

-----------------------------------------------------------------------------
(* Liveness. *)

\* Owners finish with a lease and release it, commands end, the loop of the
\* service gets to every future and every claim, operators confirm cleanup,
\* recover orphans and start the service again.  Nobody is obliged to cancel.
Fairness ==
  /\ \A q \in Id :
       /\ WF_vars(Release(q))
       /\ WF_vars(Resolve(q))
       /\ WF_vars(ClaimJob(q))
       /\ WF_vars(\E clean \in BOOLEAN : ExecutionEnds(q, clean))
       /\ WF_vars(\E commandOk \in BOOLEAN : FinishJob(q, commandOk))
       /\ WF_vars(AbandonJob(q))
       /\ WF_vars(RecoverJob(q))
       /\ WF_vars(OrphanEnds(q))
  /\ WF_vars(Serve) /\ WF_vars(ServiceExits)
  /\ WF_vars(StopForRecovery) /\ WF_vars(StartDispatcher)

FairSpec == Spec /\ Fairness

\* Every waiter is served: it gets its lease or is cancelled (_promote and
\* everything that has to call it).
EveryWaiterServed == \A q \in Id : status[q] = "waiting" ~> status[q] # "waiting"

\* A job that was claimed reaches an outcome, whatever happens to the service
\* that claimed it (finish_job, abandon_job, recover_dispatcher_job).
EveryJobSettles == \A q \in Id : job[q] = "running" ~> job[q] # "running"
=============================================================================
