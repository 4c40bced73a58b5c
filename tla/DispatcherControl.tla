--------------------------- MODULE DispatcherControl ---------------------------
(***************************************************************************)
(* How dispatcher processes come and go (packages/cli/.../dispatcher.py):  *)
(* the lock file that admits one service, the durable barrier that stops   *)
(* claims and launches, and the commands that look at both.                *)
(*                                                                         *)
(* Each command of an operator or of an agent is a process of its own that *)
(* takes the lock, reads the database and writes it in separate steps.  A  *)
(* job is only queued, running or done here; what it does to the queue is  *)
(* the subject of ResourceQueue.                                           *)
(***************************************************************************)
EXTENDS Naturals, FiniteSets, Sequences

CONSTANTS
  Caller,      \* command line processes, each of which runs one command
  Service,     \* the processes "queue dispatcher serve" that may be launched
  Job,         \* leased jobs
  None,        \* nobody
  MaxMishaps,  \* bound on crashes and failures of services
  MaxExecutors \* worker threads of a service (8 in the code)

ASSUME ControlAssumption ==
  /\ None \notin Caller \cup Service /\ Caller \cap Service = {}
  /\ MaxMishaps \in Nat /\ MaxExecutors \in Nat \ {0}

VARIABLES
  lock,       \* who holds queue-dispatcher.lock
  paused,     \* queue_dispatcher_control.paused
  heartbeat,  \* is queue_dispatcher_state.heartbeat_at less than 5 seconds old?
  job,        \* queue_jobs.status
  thread,     \* the service whose thread executes a job
  service,    \* where a service process is
  stopping,   \* services that were sent SIGTERM or SIGINT
  caller,     \* where a command is
  child,      \* the service a command launched
  saw,        \* what a status command has read so far
  asked,      \* was the last request about the barrier, if any, a stop?
  restarted,  \* status commands during which the barrier was lifted
  mishaps

processes == <<service, stopping, thread>>
commands == <<caller, child, saw>>
ghosts == <<asked, restarted>>
vars == <<lock, paused, heartbeat, job, thread, service, stopping, caller, child, saw,
          asked, restarted, mishaps>>

Processes == Caller \cup Service

\* The reads of dispatcher_status, in their order.
\* Mutant: the running jobs are counted before the barrier is read.
CountsFirst == <<"jobs", "control", "lock">>

StatusReads == <<"control", "jobs", "lock">>

CallerState ==
  {"idle", "starting", "ensuring", "probing", "looking", "counting", "awaiting",
   "polling", "recovering", "reading", "holding",
   "stopped", "served", "late", "barred", "refused", "failed", "recovered",
   "complete", "incomplete"}
ServiceState ==
  {"unborn", "launched", "admitted", "loop", "claiming", "leaving", "gone"}

TypeOK ==
  /\ lock \in Processes \cup {None}
  /\ {paused, heartbeat, asked} \subseteq BOOLEAN
  /\ job \in [Job -> {"queued", "running", "done"}]
  /\ thread \in [Job -> Service \cup {None}]
  /\ service \in [Service -> ServiceState]
  /\ stopping \in SUBSET Service
  /\ caller \in [Caller -> CallerState]
  /\ child \in [Caller -> Service \cup {None}]
  /\ saw \in [Caller -> Seq(BOOLEAN)] /\ \A c \in Caller : Len(saw[c]) <= 2
  /\ restarted \in SUBSET Caller
  /\ mishaps \in 0 .. MaxMishaps
  /\ \A j \in Job : thread[j] # None => service[thread[j]] \in {"loop", "claiming", "leaving"}

Init ==
  /\ lock = None /\ paused = FALSE /\ heartbeat = FALSE /\ asked = FALSE
  /\ job = [j \in Job |-> "queued"]
  /\ thread = [j \in Job |-> None]
  /\ service = [s \in Service |-> "unborn"]
  /\ stopping = {}
  /\ caller = [c \in Caller |-> "idle"]
  /\ child = [c \in Caller |-> None]
  /\ saw = [c \in Caller |-> <<>>]
  /\ restarted = {}
  /\ mishaps = 0

Running == {j \in Job : job[j] = "running"}
Threads(s) == {j \in Job : thread[j] = s}
Serving(s) == service[s] \in {"loop", "claiming", "leaving"}

CallerGoes(c, pc) == caller' = [caller EXCEPT ![c] = pc]
ServiceGoes(s, pc) == service' = [service EXCEPT ![s] = pc]

-----------------------------------------------------------------------------
(* queue dispatcher stop, start and recover-job. *)

\* request_dispatcher_stop
RequestStop(c) ==
  /\ caller[c] = "idle" /\ CallerGoes(c, "stopped")
  /\ paused' = TRUE /\ asked' = TRUE
  /\ UNCHANGED <<lock, heartbeat, job, processes, child, saw, restarted, mishaps>>

\* start_dispatcher, up to the lock
StartLocks(c) ==
  /\ caller[c] = "idle"
  /\ \/ lock = None /\ lock' = c /\ CallerGoes(c, "starting")
     \/ lock # None /\ CallerGoes(c, "refused") /\ UNCHANGED lock
  /\ UNCHANGED <<paused, heartbeat, job, processes, child, saw, ghosts, mishaps>>

\* its transaction, with the lock in hand
StartClears(c) ==
  /\ caller[c] = "starting" /\ lock' = None
  /\ \/ /\ Running # {} /\ CallerGoes(c, "refused")
        /\ UNCHANGED <<paused, ghosts>>
     \/ /\ Running = {} /\ CallerGoes(c, "ensuring")
        /\ paused' = FALSE /\ asked' = FALSE
        /\ restarted' = restarted \cup {d \in Caller : caller[d] \in {"reading", "holding"}}
  /\ UNCHANGED <<heartbeat, job, processes, child, saw, mishaps>>

\* recover_dispatcher_job: the lock, then the transaction
RecoverLocks(c) ==
  /\ caller[c] = "idle"
  /\ \/ lock = None /\ lock' = c /\ CallerGoes(c, "recovering")
     \/ lock # None /\ CallerGoes(c, "refused") /\ UNCHANGED lock
  /\ UNCHANGED <<paused, heartbeat, job, processes, child, saw, ghosts, mishaps>>

RecoverJob(c, j) ==
  /\ caller[c] = "recovering" /\ lock' = None
  /\ \/ /\ paused /\ job[j] = "running"
        /\ job' = [job EXCEPT ![j] = "done"] /\ CallerGoes(c, "recovered")
     \/ /\ ~(paused /\ job[j] = "running")
        /\ CallerGoes(c, "refused") /\ UNCHANGED job
  /\ UNCHANGED <<paused, heartbeat, processes, child, saw, ghosts, mishaps>>

-----------------------------------------------------------------------------
(* ensure_dispatcher, the end of start and of every queue command. *)

\* It looks whether the lock is held by taking it.
EnsureLocks(c) ==
  /\ caller[c] \in {"idle", "ensuring"}
  /\ \/ lock = None /\ lock' = c /\ CallerGoes(c, "probing")
     \/ lock # None /\ CallerGoes(c, "served") /\ UNCHANGED lock
  /\ UNCHANGED <<paused, heartbeat, job, processes, child, saw, ghosts, mishaps>>

EnsureUnlocks(c) ==
  /\ caller[c] = "probing" /\ lock' = None /\ CallerGoes(c, "looking")
  /\ UNCHANGED <<paused, heartbeat, job, processes, child, saw, ghosts, mishaps>>

EnsureReadsBarrier(c) ==
  /\ caller[c] = "looking"
  /\ CallerGoes(c, IF paused THEN "barred" ELSE "counting")
  /\ UNCHANGED <<lock, paused, heartbeat, job, processes, child, saw, ghosts, mishaps>>

\* Jobs of unknown liveness forbid the launch; the child starts some time later.
EnsureLaunches(c) ==
  /\ caller[c] = "counting"
  /\ \/ /\ Running # {} /\ CallerGoes(c, "refused")
        /\ UNCHANGED <<service, child>>
     \/ /\ Running = {} /\ CallerGoes(c, "awaiting")
        /\ \E s \in Service :
             /\ service[s] = "unborn" /\ ServiceGoes(s, "launched")
             /\ child' = [child EXCEPT ![c] = s]
  /\ UNCHANGED <<lock, paused, heartbeat, job, thread, stopping, saw, ghosts, mishaps>>

\* The polling loop probes the lock again and again, in dispatcher_status and
\* after it.
EnsurePolls(c) ==
  /\ caller[c] = "awaiting" /\ lock = None
  /\ lock' = c /\ CallerGoes(c, "polling")
  /\ UNCHANGED <<paused, heartbeat, job, processes, child, saw, ghosts, mishaps>>

EnsurePolled(c) ==
  /\ caller[c] = "polling" /\ lock' = None /\ CallerGoes(c, "awaiting")
  /\ UNCHANGED <<paused, heartbeat, job, processes, child, saw, ghosts, mishaps>>

\* It ends when the barrier is up, when the lock is held beside a recent
\* heartbeat, when the child is gone and the lock is free, or after 30 rounds.
EnsureReturns(c) ==
  /\ caller[c] = "awaiting"
  /\ \/ paused /\ CallerGoes(c, "barred")
     \/ lock \notin {None, c} /\ heartbeat /\ CallerGoes(c, "served")
     \/ /\ lock = None /\ service[child[c]] = "gone"
        /\ CallerGoes(c, "failed")
     \/ CallerGoes(c, "late")
  /\ UNCHANGED <<lock, paused, heartbeat, job, processes, child, saw, ghosts, mishaps>>

-----------------------------------------------------------------------------
(* dispatcher_status: two reads of the database, then a probe of the lock. *)

Fact(what) ==
  CASE what = "control" -> paused
    [] what = "jobs" -> Running = {}

StatusStep(c) == StatusReads[Len(saw[c]) + 1]

StatusRead(c) ==
  /\ caller[c] \in {"idle", "reading"} /\ Len(saw[c]) < 2
  /\ caller[c] = "reading" <=> saw[c] # <<>>
  /\ CallerGoes(c, "reading")
  /\ saw' = [saw EXCEPT ![c] = Append(@, Fact(StatusStep(c)))]
  /\ UNCHANGED <<lock, paused, heartbeat, job, processes, child, ghosts, mishaps>>

\* stop_complete is reported when the barrier was up, no job was running and
\* the lock was free.
StatusProbes(c) ==
  /\ caller[c] = "reading" /\ Len(saw[c]) = 2
  /\ \/ lock = None /\ lock' = c /\ CallerGoes(c, "holding")
     \/ lock # None /\ CallerGoes(c, "incomplete") /\ UNCHANGED lock
  /\ UNCHANGED <<paused, heartbeat, job, processes, child, saw, ghosts, mishaps>>

StatusReports(c) ==
  /\ caller[c] = "holding" /\ lock' = None
  /\ CallerGoes(c, IF saw[c] = <<TRUE, TRUE>> THEN "complete" ELSE "incomplete")
  /\ UNCHANGED <<paused, heartbeat, job, processes, child, saw, ghosts, mishaps>>

-----------------------------------------------------------------------------
(* The service process. *)

\* serve: the lock decides which of several children goes on.
ServeLocks(s) ==
  /\ service[s] = "launched"
  /\ \/ lock = None /\ lock' = s /\ ServiceGoes(s, "admitted")
     \/ lock # None /\ ServiceGoes(s, "gone") /\ UNCHANGED lock
  /\ UNCHANGED <<paused, heartbeat, job, thread, stopping, commands, ghosts, mishaps>>

\* Mutant: the jobs of an earlier service do not keep a new one from serving.
BarrierOnly == paused

\* What a new service refuses to serve behind.
MayNotServe == paused \/ Running # {}

\* its first transaction: recheck, then put the own name into the control row
ServeBegins(s) ==
  /\ service[s] = "admitted"
  /\ \/ MayNotServe /\ ServiceGoes(s, "gone") /\ lock' = None
     \/ ~MayNotServe /\ ServiceGoes(s, "loop") /\ UNCHANGED lock
  /\ UNCHANGED <<paused, heartbeat, job, thread, stopping, commands, ghosts, mishaps>>

\* drain_signal only notes that a signal came.
Signal(s) ==
  /\ service[s] \in {"loop", "claiming"} /\ s \notin stopping
  /\ stopping' = stopping \cup {s}
  /\ UNCHANGED <<lock, paused, heartbeat, job, thread, service, commands, ghosts, mishaps>>

\* Mutant: a signal is forgotten.
UnsignalledBarrier(s) == paused

\* The loop persists a signal before it reads the barrier.
BarrierAfter(s) == paused \/ s \in stopping

\* The first half of an iteration: behind the barrier nothing but waiting for
\* the own threads is done, and without threads the loop returns.
LoopReads(s) ==
  /\ service[s] = "loop"
  /\ paused' = BarrierAfter(s) /\ asked' = (asked \/ s \in stopping)
  /\ heartbeat' = TRUE
  /\ ServiceGoes(s, IF ~paused' THEN "claiming"
                    ELSE IF Threads(s) = {} THEN "leaving" ELSE "loop")
  /\ UNCHANGED <<lock, job, thread, stopping, commands, restarted, mishaps>>

\* Mutant: claim_job does not look at the barrier again.
ClaimableAnyway(j) == job[j] = "queued"

\* claim_job reads the barrier in its own transaction.
Claimable(j) == job[j] = "queued" /\ ~paused

Claim(s, j) ==
  /\ service[s] = "claiming" /\ s \notin stopping
  /\ Cardinality(Threads(s)) < MaxExecutors /\ Claimable(j)
  /\ job' = [job EXCEPT ![j] = "running"]
  /\ thread' = [thread EXCEPT ![j] = s]
  /\ UNCHANGED <<lock, paused, heartbeat, service, stopping, commands, ghosts, mishaps>>

IterationEnds(s) ==
  /\ service[s] = "claiming" /\ ServiceGoes(s, "loop")
  /\ paused' = BarrierAfter(s) /\ asked' = (asked \/ s \in stopping)
  /\ UNCHANGED <<lock, heartbeat, job, thread, stopping, commands, restarted, mishaps>>

\* A thread records what became of its job (finish_job, or abandon_job).
JobEnds(j) ==
  /\ thread[j] # None /\ job' = [job EXCEPT ![j] = "done"]
  /\ thread' = [thread EXCEPT ![j] = None]
  /\ UNCHANGED <<lock, paused, heartbeat, service, stopping, commands, ghosts, mishaps>>

\* An exception the loop does not catch, such as one of the heartbeat that
\* reports another one.
LoopFails(s) ==
  /\ service[s] \in {"loop", "claiming"} /\ mishaps < MaxMishaps
  /\ ServiceGoes(s, "leaving") /\ mishaps' = mishaps + 1
  /\ UNCHANGED <<lock, paused, heartbeat, job, thread, stopping, commands, ghosts>>

\* Mutant: the service does not wait for its threads.
AtOnce(s) == TRUE

\* The thread pool is left when its threads are done.
PoolIsDone(s) == Threads(s) = {}

\* However the loop ends, the pool waits for its threads and _drain_signals
\* puts the barrier up before the lock is released.
ServeReturns(s) ==
  /\ service[s] = "leaving" /\ PoolIsDone(s)
  /\ ServiceGoes(s, "gone") /\ lock' = None /\ paused' = TRUE
  /\ UNCHANGED <<heartbeat, job, thread, stopping, commands, ghosts, mishaps>>

\* The process dies: the lock is free, its jobs keep their status.
Crash(s) ==
  /\ service[s] = "admitted" \/ Serving(s)
  /\ mishaps < MaxMishaps /\ mishaps' = mishaps + 1
  /\ ServiceGoes(s, "gone") /\ lock' = None
  /\ thread' = [j \in Job |-> IF thread[j] = s THEN None ELSE thread[j]]
  /\ UNCHANGED <<paused, heartbeat, job, stopping, commands, ghosts>>

\* Five seconds pass without a heartbeat.
HeartbeatAges ==
  /\ heartbeat /\ heartbeat' = FALSE
  /\ UNCHANGED <<lock, paused, job, processes, commands, ghosts, mishaps>>

-----------------------------------------------------------------------------

CommandStep(c) ==
  \/ RequestStop(c) \/ StartLocks(c) \/ StartClears(c) \/ RecoverLocks(c)
  \/ \E j \in Job : RecoverJob(c, j)
  \/ EnsureLocks(c) \/ EnsureUnlocks(c) \/ EnsureReadsBarrier(c)
  \/ EnsureLaunches(c) \/ EnsurePolls(c) \/ EnsurePolled(c) \/ EnsureReturns(c)
  \/ StatusRead(c) \/ StatusProbes(c) \/ StatusReports(c)

ServiceRuns(s) ==
  ServeLocks(s) \/ ServeBegins(s) \/ LoopReads(s) \/ IterationEnds(s) \/ ServeReturns(s)

ServiceStep(s) ==
  \/ ServiceRuns(s) \/ Signal(s) \/ LoopFails(s) \/ Crash(s)
  \/ \E j \in Job : Claim(s, j)

Next ==
  \/ \E c \in Caller : CommandStep(c)
  \/ \E s \in Service : ServiceStep(s)
  \/ \E j \in Job : JobEnds(j)
  \/ HeartbeatAges

Spec == Init /\ [][Next]_vars

\* The loop goes round and the commands of jobs end; nobody has to run anything.
Fairness ==
  /\ \A s \in Service : WF_vars(ServiceRuns(s))
  /\ \A j \in Job : WF_vars(JobEnds(j))

FairSpec == Spec /\ Fairness

-----------------------------------------------------------------------------
(* Properties. *)

\* A service that goes round its loop executes every running job itself: what
\* an earlier one left behind keeps it from serving, however long ago it was
\* launched (serve rechecks what ensure_dispatcher and start_dispatcher read).
ServesOnlyItsOwn ==
  \A s \in Service : service[s] \in {"loop", "claiming"} => Running = Threads(s)

\* A stop wins over everything that was under way: until an explicit start no
\* job is claimed and no delayed launch begins to serve (claim_job, serve).
NothingBegins ==
  asked /\ asked' =>
    /\ \A j \in Job : job[j] = "queued" => job'[j] = "queued"
    /\ \A s \in Service : service[s] = "admitted" => service'[s] # "loop"

StopWins == [][NothingBegins]_vars

\* stop_complete is reported only when the drain is over: unless the barrier was
\* lifted meanwhile it is up, no job runs and no service is in its loop, although
\* dispatcher_status reads the three one after the other.
ReportIsTrue ==
  \A c \in Caller :
    caller[c] = "holding" /\ caller'[c] = "complete" /\ c \notin restarted =>
      paused' /\ Running' = {} /\ \A s \in Service : ~Serving(s)'

StopCompleteIsTrue == [][ReportIsTrue]_vars

\* A stop or a signal drains the service: it ends with its last job (serve).
DrainCompletes ==
  \A s \in Service :
    (Serving(s) /\ (paused \/ s \in stopping)) ~> service[s] = "gone"

\* A launch fails only for a reason: a service crashed, a stop was asked for or
\* jobs of unknown liveness are there ("the child lock still ensures exactly
\* one dispatcher performs work", ensure_dispatcher).
LaunchServes ==
  (\E c \in Caller : caller[c] = "failed") => mishaps > 0 \/ asked \/ Running # {}
===============================================================================
