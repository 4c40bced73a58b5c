--------------------------- MODULE DispatcherProofs ---------------------------
(***************************************************************************)
(* Theorems about DispatcherControl for every set of commands, services    *)
(* and jobs and every bound.                                               *)
(***************************************************************************)
EXTENDS DispatcherControl, SequenceTheorems, TLAPS

\* The lock belongs to whoever is between taking and releasing it.
LockIsHeld ==
  /\ \A s \in Service :
       service[s] \in {"admitted", "loop", "claiming", "leaving"} => lock = s
  /\ \A c \in Caller :
       caller[c] \in {"starting", "probing", "polling", "recovering", "holding"} =>
         lock = c

ThreadsRun == \A j \in Job : thread[j] # None => job[j] = "running"

\* The barrier of a stop stays up until a start takes the request back.
StopIsBarrier == asked => paused

\* What a status command has read stays true until the barrier is lifted.
ReadsHold ==
  \A c \in Caller : caller[c] \in {"reading", "holding"} =>
    /\ Len(saw[c]) > 0 /\ (caller[c] = "holding" => Len(saw[c]) = 2)
    /\ c \notin restarted =>
         /\ saw[c][1] = TRUE => paused = TRUE
         /\ Len(saw[c]) = 2 /\ saw[c][1] = TRUE /\ saw[c][2] = TRUE => Running = {}

Inv == TypeOK /\ LockIsHeld /\ ThreadsRun /\ ServesOnlyItsOwn

-----------------------------------------------------------------------------

LEMMA InvInit == Init => Inv
<1> SUFFICES ASSUME Init PROVE Inv
  OBVIOUS
<1>1. TypeOK
  <2>1. caller \in [Caller -> CallerState] /\ service \in [Service -> ServiceState]
    BY DEF Init, CallerState, ServiceState
  <2>2. saw \in [Caller -> Seq(BOOLEAN)] /\ \A c \in Caller : Len(saw[c]) <= 2
    BY DEF Init
  <2>3. {paused, heartbeat, asked} \subseteq BOOLEAN
    BY DEF Init
  <2>4. thread \in [Job -> Service \cup {None}] /\ \A j \in Job : thread[j] = None
    BY DEF Init
  <2> QED BY <2>1, <2>2, <2>3, <2>4, ControlAssumption DEF Init, TypeOK
<1>2. LockIsHeld /\ ThreadsRun /\ ServesOnlyItsOwn
  BY DEF Init, LockIsHeld, ThreadsRun, ServesOnlyItsOwn
<1> QED BY <1>1, <1>2 DEF Inv

\* A command moves from one of its places to another, the other commands stay.
LEMMA CallerMoves ==
  \A c \in Caller :
    CommandStep(c) => \E pc \in CallerState : CallerGoes(c, pc)
BY DEF CommandStep, RequestStop, StartLocks, StartClears, RecoverLocks, RecoverJob,
       EnsureLocks, EnsureUnlocks, EnsureReadsBarrier, EnsureLaunches, EnsurePolls,
       EnsurePolled, EnsureReturns, StatusRead, StatusProbes, StatusReports, CallerState

LEMMA InvCommand == \A c \in Caller : Inv /\ CommandStep(c) => Inv'
<1> SUFFICES ASSUME NEW c \in Caller, Inv, CommandStep(c) PROVE Inv'
  OBVIOUS
<1>0. caller' \in [Caller -> CallerState]
  BY CallerMoves DEF CallerGoes, Inv, TypeOK
<1> USE ControlAssumption
<1> USE DEF Inv, TypeOK, LockIsHeld, ThreadsRun, ServesOnlyItsOwn,
        CallerGoes, processes, ghosts, Running, Threads, Processes
<1>1. CASE RequestStop(c)
  BY <1>0, <1>1 DEF RequestStop
<1>2. CASE StartLocks(c)
  BY <1>0, <1>2 DEF StartLocks
<1>3. CASE StartClears(c)
  <2>1. {paused', heartbeat', asked'} \subseteq BOOLEAN
    BY <1>3 DEF StartClears
  <2>2. restarted' \in SUBSET Caller
    BY <1>3 DEF StartClears
  <2>3. LockIsHeld'
    <3>1. /\ lock = c /\ service' = service
          /\ CallerGoes(c, "refused") \/ CallerGoes(c, "ensuring")
      BY <1>3 DEF StartClears
    <3>2. /\ \A d \in Caller : d # c => caller'[d] = caller[d]
          /\ caller'[c] \in {"refused", "ensuring"}
      BY <3>1
    <3>3. \A s \in Service :
            service[s] \notin {"admitted", "loop", "claiming", "leaving"}
      BY <3>1
    <3> QED BY <3>1, <3>2, <3>3
  <2>4. ThreadsRun' /\ ServesOnlyItsOwn'
    BY <1>3 DEF StartClears
  <2> QED BY <1>0, <1>3, <2>1, <2>2, <2>3, <2>4 DEF StartClears
<1>4. CASE RecoverLocks(c)
  BY <1>0, <1>4 DEF RecoverLocks
<1>5. ASSUME NEW j \in Job, RecoverJob(c, j) PROVE Inv'
  <2>1. \A s \in Service : service[s] \notin {"loop", "claiming", "leaving"}
    BY <1>5 DEF RecoverJob
  <2>2. \A i \in Job : thread[i] = None
    BY <2>1
  <2>3. job' \in [Job -> {"queued", "running", "done"}]
    BY <1>5 DEF RecoverJob
  <2>4. LockIsHeld'
    BY <1>0, <1>5 DEF RecoverJob
  <2>5. ThreadsRun' /\ ServesOnlyItsOwn'
    BY <1>5, <2>1, <2>2 DEF RecoverJob
  <2> QED BY <1>0, <1>5, <2>3, <2>4, <2>5 DEF RecoverJob
<1>6. CASE EnsureLocks(c)
  BY <1>0, <1>6 DEF EnsureLocks
<1>7. CASE EnsureUnlocks(c)
  BY <1>0, <1>7 DEF EnsureUnlocks
<1>8. CASE EnsureReadsBarrier(c)
  BY <1>0, <1>8 DEF EnsureReadsBarrier
<1>9. CASE EnsureLaunches(c)
  <2>1. CASE service' = service /\ child' = child
    BY <1>0, <1>9, <2>1 DEF EnsureLaunches
  <2>2. ASSUME NEW s \in Service, service[s] = "unborn", ServiceGoes(s, "launched"),
               child' = [child EXCEPT ![c] = s]
        PROVE  Inv'
    <3>1. service' \in [Service -> ServiceState] /\ child' \in [Caller -> Service \cup {None}]
      BY <2>2 DEF ServiceGoes, ServiceState
    <3>2. \A t \in Service : t # s => service'[t] = service[t]
      BY <2>2 DEF ServiceGoes
    <3>3. service'[s] = "launched"
      BY <2>2 DEF ServiceGoes
    <3>4. \A j \in Job : thread[j] # s
      BY <2>2
    <3>5. LockIsHeld' /\ ThreadsRun' /\ ServesOnlyItsOwn'
      BY <1>0, <1>9, <3>2, <3>3 DEF EnsureLaunches
    <3> QED BY <1>0, <1>9, <3>1, <3>2, <3>4, <3>5 DEF EnsureLaunches
  <2> QED BY <1>9, <2>1, <2>2 DEF EnsureLaunches
<1>10. CASE EnsurePolls(c)
  BY <1>0, <1>10 DEF EnsurePolls
<1>11. CASE EnsurePolled(c)
  BY <1>0, <1>11 DEF EnsurePolled
<1>12. CASE EnsureReturns(c)
  BY <1>0, <1>12 DEF EnsureReturns
<1>13. CASE StatusRead(c)
  <2>1. saw' \in [Caller -> Seq(BOOLEAN)] /\ \A d \in Caller : Len(saw'[d]) <= 2
    <3>1. StatusStep(c) \in {"control", "jobs"}
      BY <1>13 DEF StatusRead, StatusStep, StatusReads
    <3>2. Fact(StatusStep(c)) \in BOOLEAN
      BY <3>1 DEF Fact
    <3> HIDE DEF Fact
    <3>3. saw' = [saw EXCEPT ![c] = Append(@, Fact(StatusStep(c)))] /\ Len(saw[c]) < 2
      BY <1>13 DEF StatusRead
    <3> QED BY <3>2, <3>3
  <2>2. LockIsHeld' /\ ThreadsRun' /\ ServesOnlyItsOwn'
    BY <1>0, <1>13 DEF StatusRead
  <2> QED BY <1>0, <1>13, <2>1, <2>2 DEF StatusRead
<1>14. CASE StatusProbes(c)
  BY <1>0, <1>14 DEF StatusProbes
<1>15. CASE StatusReports(c)
  BY <1>0, <1>15 DEF StatusReports
<1> QED BY <1>1, <1>2, <1>3, <1>4, <1>5, <1>6, <1>7, <1>8, <1>9, <1>10, <1>11, <1>12,
           <1>13, <1>14, <1>15 DEF CommandStep

LEMMA InvService == \A s \in Service : Inv /\ ServiceStep(s) => Inv'
<1> SUFFICES ASSUME NEW s \in Service, Inv, ServiceStep(s) PROVE Inv'
  OBVIOUS
<1> USE ControlAssumption
<1> USE DEF Inv, TypeOK, LockIsHeld, ThreadsRun, ServesOnlyItsOwn, ServiceState,
        ServiceGoes, commands, ghosts, Running, Threads, Processes
<1>1. CASE ServeLocks(s)
  <2>1. service' \in [Service -> ServiceState] /\ \A j \in Job : thread[j] # s
    BY <1>1 DEF ServeLocks
  <2>2. \A t \in Service : t # s => service'[t] = service[t]
    BY <1>1 DEF ServeLocks
  <2>3. LockIsHeld'
    BY <1>1, <2>2 DEF ServeLocks
  <2>4. ThreadsRun' /\ ServesOnlyItsOwn'
    BY <1>1, <2>2 DEF ServeLocks
  <2> QED BY <1>1, <2>1, <2>2, <2>3, <2>4 DEF ServeLocks
<1>2. CASE ServeBegins(s)
  <2>0. /\ service[s] = "admitted" /\ caller' = caller
        /\ \/ service' = [service EXCEPT ![s] = "gone"] /\ lock' = None
           \/ service' = [service EXCEPT ![s] = "loop"] /\ lock' = lock
    BY <1>2 DEF ServeBegins
  <2>1. service' \in [Service -> ServiceState] /\ \A j \in Job : thread[j] # s
    BY <2>0
  <2>2. \A t \in Service : t # s => service'[t] = service[t]
    BY <2>0
  <2>3. LockIsHeld'
    BY <2>0, <2>2
  <2>4. service'[s] = "loop" => Running = {}
    BY <1>2 DEF ServeBegins, MayNotServe
  <2>5. \A t \in Service : t # s => service[t] \notin {"loop", "claiming", "leaving"}
    BY <1>2 DEF ServeBegins
  <2>6. ThreadsRun' /\ ServesOnlyItsOwn'
    BY <1>2, <2>1, <2>2, <2>4, <2>5 DEF ServeBegins
  <2> QED BY <1>2, <2>1, <2>2, <2>3, <2>6 DEF ServeBegins
<1>3. CASE Signal(s)
  BY <1>3 DEF Signal
<1>4. CASE LoopReads(s)
  BY <1>4 DEF LoopReads, BarrierAfter
<1>5. ASSUME NEW j \in Job, Claim(s, j) PROVE Inv'
  BY <1>5 DEF Claim, Claimable
<1>6. CASE IterationEnds(s)
  BY <1>6 DEF IterationEnds, BarrierAfter
<1>7. CASE LoopFails(s)
  BY <1>7 DEF LoopFails
<1>8. CASE ServeReturns(s)
  BY <1>8 DEF ServeReturns, PoolIsDone
<1>9. CASE Crash(s)
  BY <1>9 DEF Crash, Serving
<1> QED BY <1>1, <1>2, <1>3, <1>4, <1>5, <1>6, <1>7, <1>8, <1>9
        DEF ServiceStep, ServiceRuns

LEMMA InvNext == Inv /\ [Next]_vars => Inv'
<1> SUFFICES ASSUME Inv, [Next]_vars PROVE Inv'
  OBVIOUS
<1>1. ASSUME NEW j \in Job, JobEnds(j) PROVE Inv'
  BY <1>1 DEF JobEnds, Inv, TypeOK, LockIsHeld, ThreadsRun, ServesOnlyItsOwn, Running,
              Threads, commands, ghosts
<1>2. CASE HeartbeatAges
  BY <1>2 DEF HeartbeatAges, Inv, TypeOK, LockIsHeld, ThreadsRun, ServesOnlyItsOwn,
              Running, Threads, processes, commands, ghosts
<1>3. CASE UNCHANGED vars
  BY <1>3 DEF vars, Inv, TypeOK, LockIsHeld, ThreadsRun, ServesOnlyItsOwn, Running, Threads
<1> QED BY <1>1, <1>2, <1>3, InvCommand, InvService DEF Next

LEMMA InvHolds == Spec => []Inv
BY InvInit, InvNext, PTL DEF Spec

\* Every variable keeps its type; a thread belongs to a service that serves
\* (QueueDispatcher.serve).
THEOREM TypeCorrect == Spec => []TypeOK
<1>1. Inv => TypeOK
  BY DEF Inv
<1> QED BY <1>1, InvHolds, PTL

\* Whoever goes round the loop executes every running job itself
\* (the recheck of QueueDispatcher.serve).
THEOREM ServesOnlyItsOwnHolds == Spec => []ServesOnlyItsOwn
<1>1. Inv => ServesOnlyItsOwn
  BY DEF Inv
<1> QED BY <1>1, InvHolds, PTL

-----------------------------------------------------------------------------
(* Stops. *)

LEMMA StopIsBarrierInit == Init => StopIsBarrier
BY DEF Init, StopIsBarrier

\* The barrier comes down only in start_dispatcher.
LEMMA BarrierIsLifted ==
  [Next]_vars /\ paused =>
    \/ paused'
    \/ \E c \in Caller : StartClears(c) /\ ~ asked' /\ Running = {}
BY Zenon DEF Next, vars, CommandStep, ServiceStep, ServiceRuns, RequestStop, StartLocks,
       StartClears, RecoverLocks, RecoverJob, EnsureLocks, EnsureUnlocks,
       EnsureReadsBarrier, EnsureLaunches, EnsurePolls, EnsurePolled, EnsureReturns,
       StatusRead, StatusProbes, StatusReports, ServeLocks, ServeBegins, Signal,
       LoopReads, BarrierAfter, Claim, IterationEnds, LoopFails, ServeReturns, Crash,
       JobEnds, HeartbeatAges
\* Whatever counts as a request to stop raises the barrier.
LEMMA StopRaises == [Next]_vars /\ asked' => asked \/ paused'
BY Zenon DEF Next, vars, CommandStep, ServiceStep, ServiceRuns, RequestStop, StartLocks,
       StartClears, RecoverLocks, RecoverJob, EnsureLocks, EnsureUnlocks,
       EnsureReadsBarrier, EnsureLaunches, EnsurePolls, EnsurePolled, EnsureReturns,
       StatusRead, StatusProbes, StatusReports, ServeLocks, ServeBegins, Signal,
       LoopReads, BarrierAfter, Claim, IterationEnds, LoopFails, ServeReturns, Crash,
       JobEnds, HeartbeatAges, ghosts

LEMMA StopIsBarrierNext == StopIsBarrier /\ [Next]_vars => StopIsBarrier'
BY BarrierIsLifted, StopRaises, Zenon DEF StopIsBarrier

\* Behind the barrier no job is claimed; and only claims make a job run.
LEMMA JobsBehindBarrier ==
  Inv /\ [Next]_vars /\ paused =>
    \A j \in Job : job'[j] = job[j] \/ (job[j] = "running" /\ job'[j] = "done")
<1> SUFFICES ASSUME Inv, [Next]_vars, paused, NEW j \in Job
             PROVE  job'[j] = job[j] \/ (job[j] = "running" /\ job'[j] = "done")
  OBVIOUS
<1> USE DEF Inv, TypeOK
<1>1. ASSUME NEW c \in Caller, NEW i \in Job, RecoverJob(c, i)
      PROVE  job'[j] = job[j] \/ (job[j] = "running" /\ job'[j] = "done")
  BY <1>1 DEF RecoverJob
<1>2. ASSUME NEW i \in Job, JobEnds(i)
      PROVE  job'[j] = job[j] \/ (job[j] = "running" /\ job'[j] = "done")
  BY <1>2 DEF JobEnds, ThreadsRun
<1>3. ASSUME NEW s \in Service, NEW i \in Job, Claim(s, i) PROVE FALSE
  BY <1>3, Zenon DEF Claim, Claimable
<1>4. \/ \E c \in Caller, i \in Job : RecoverJob(c, i)
      \/ \E i \in Job : JobEnds(i)
      \/ \E s \in Service, i \in Job : Claim(s, i)
      \/ job' = job
  BY Zenon DEF Next, vars, CommandStep, ServiceStep, ServiceRuns, RequestStop, StartLocks,
         StartClears, RecoverLocks, EnsureLocks, EnsureUnlocks, EnsureReadsBarrier,
         EnsureLaunches, EnsurePolls, EnsurePolled, EnsureReturns, StatusRead,
         StatusProbes, StatusReports, ServeLocks, ServeBegins, Signal, LoopReads,
         IterationEnds, LoopFails, ServeReturns, Crash, HeartbeatAges
<1> QED BY <1>1, <1>2, <1>3, <1>4

\* Behind the barrier no admitted service begins to serve.
LEMMA NoneBeginsBehindBarrier ==
  Inv /\ [Next]_vars /\ paused =>
    \A s \in Service : service[s] = "admitted" => service'[s] # "loop"
<1> SUFFICES ASSUME Inv, [Next]_vars, paused, NEW s \in Service,
                    service[s] = "admitted"
             PROVE  service'[s] # "loop"
  OBVIOUS
<1> USE DEF Inv, TypeOK, ServiceGoes
<1>1. ASSUME NEW t \in Service, ServeBegins(t) PROVE service'[s] # "loop"
  <2>1. service' = [service EXCEPT ![t] = "gone"]
    BY <1>1, Zenon DEF ServeBegins, MayNotServe
  <2> QED BY <2>1
<1>2. ASSUME NEW t \in Service,
             ServeLocks(t) \/ LoopReads(t) \/ IterationEnds(t) \/ LoopFails(t)
               \/ ServeReturns(t) \/ Crash(t)
      PROVE  service'[s] # "loop"
  <2>1. CASE ServeLocks(t)
    BY <2>1 DEF ServeLocks
  <2>2. CASE LoopReads(t) \/ IterationEnds(t)
    <3>1. service[t] # "admitted" /\ \E pc : service' = [service EXCEPT ![t] = pc]
      BY <2>2 DEF LoopReads, IterationEnds
    <3> QED BY <3>1
  <2>3. CASE LoopFails(t) \/ ServeReturns(t) \/ Crash(t)
    BY <2>3 DEF LoopFails, ServeReturns, Crash
  <2> QED BY <1>2, <2>1, <2>2, <2>3
<1>3. ASSUME NEW c \in Caller, EnsureLaunches(c) PROVE service'[s] # "loop"
  BY <1>3 DEF EnsureLaunches
<1>4. \/ \E t \in Service : ServeBegins(t)
      \/ \E t \in Service : \/ ServeLocks(t) \/ LoopReads(t) \/ IterationEnds(t)
                            \/ LoopFails(t) \/ ServeReturns(t) \/ Crash(t)
      \/ \E c \in Caller : EnsureLaunches(c)
      \/ service' = service
  BY Zenon DEF Next, vars, processes, CommandStep, ServiceStep, ServiceRuns, RequestStop,
         StartLocks, StartClears, RecoverLocks, RecoverJob, EnsureLocks, EnsureUnlocks,
         EnsureReadsBarrier, EnsurePolls, EnsurePolled, EnsureReturns, StatusRead,
         StatusProbes, StatusReports, Signal, Claim, JobEnds, HeartbeatAges
<1> QED BY <1>1, <1>2, <1>3, <1>4

\* A stop wins over every claim and delayed launch that was under way
\* (request_dispatcher_stop, claim_job, serve).
THEOREM StopWinsHolds == Spec => StopWins
<1>1. Inv /\ StopIsBarrier /\ [Next]_vars => [NothingBegins]_vars
  <2> SUFFICES ASSUME Inv, StopIsBarrier, [Next]_vars, asked
               PROVE  /\ \A j \in Job : job[j] = "queued" => job'[j] = "queued"
                      /\ \A s \in Service : service[s] = "admitted" => service'[s] # "loop"
    BY Zenon DEF NothingBegins
  <2>1. paused
    BY Zenon DEF StopIsBarrier
  <2> QED BY <2>1, JobsBehindBarrier, NoneBeginsBehindBarrier
<1> QED BY <1>1, InvHolds, StopIsBarrierInit, StopIsBarrierNext, PTL DEF Spec, StopWins

-----------------------------------------------------------------------------
(* Reports of status commands. *)

LEMMA ReadsHoldInit == Init => ReadsHold
BY DEF Init, ReadsHold

\* A command whose reads change has just read; the reads of the others stay.
LEMMA ReaderMoves ==
  TypeOK /\ [Next]_vars => \A c \in Caller :
    \/ caller'[c] = caller[c] /\ saw'[c] = saw[c]
    \/ StatusRead(c)
    \/ StatusProbes(c)
    \/ caller'[c] \notin {"reading", "holding"}
<1> SUFFICES ASSUME TypeOK, [Next]_vars, NEW c \in Caller
             PROVE  \/ caller'[c] = caller[c] /\ saw'[c] = saw[c]
                    \/ StatusRead(c)
                    \/ StatusProbes(c)
                    \/ caller'[c] \notin {"reading", "holding"}
  OBVIOUS
<1> USE DEF TypeOK, CallerGoes
<1>1. ASSUME NEW d \in Caller,
             \/ RequestStop(d) \/ StartLocks(d) \/ StartClears(d) \/ RecoverLocks(d)
             \/ (\E j \in Job : RecoverJob(d, j)) \/ EnsureLocks(d) \/ EnsureUnlocks(d)
             \/ EnsureReadsBarrier(d) \/ EnsureLaunches(d) \/ EnsurePolls(d)
             \/ EnsurePolled(d) \/ EnsureReturns(d) \/ StatusReports(d)
      PROVE  \/ caller'[c] = caller[c] /\ saw'[c] = saw[c]
             \/ caller'[c] \notin {"reading", "holding"}
  <2>1. \E pc \in CallerState \ {"reading", "holding"} : CallerGoes(d, pc)
    BY <1>1 DEF RequestStop, StartLocks, StartClears, RecoverLocks, RecoverJob,
           EnsureLocks, EnsureUnlocks, EnsureReadsBarrier, EnsureLaunches, EnsurePolls,
           EnsurePolled, EnsureReturns, StatusReports, CallerState
  <2>2. saw' = saw
    BY <1>1 DEF RequestStop, StartLocks, StartClears, RecoverLocks, RecoverJob,
           EnsureLocks, EnsureUnlocks, EnsureReadsBarrier, EnsureLaunches, EnsurePolls,
           EnsurePolled, EnsureReturns, StatusReports
  <2> QED BY <2>1, <2>2
<1>2. ASSUME NEW d \in Caller, d # c, StatusRead(d) \/ StatusProbes(d)
      PROVE  caller'[c] = caller[c] /\ saw'[c] = saw[c]
  BY <1>2 DEF StatusRead, StatusProbes
<1>3. ASSUME UNCHANGED commands
      PROVE  caller'[c] = caller[c] /\ saw'[c] = saw[c]
  BY <1>3 DEF commands
<1>4. \/ \E d \in Caller : CommandStep(d)
      \/ UNCHANGED commands
  BY Zenon DEF Next, vars, commands, ServiceStep, ServiceRuns, ServeLocks, ServeBegins,
         Signal, LoopReads, Claim, IterationEnds, LoopFails, ServeReturns, Crash, JobEnds,
         HeartbeatAges
<1> QED BY <1>1, <1>2, <1>3, <1>4, Zenon DEF CommandStep

LEMMA ShortSequence ==
  ASSUME NEW S, NEW q \in Seq(S), Len(q) < 2 PROVE Len(q) \in {0, 1}
<1> DEFINE n == Len(q)
<1>1. n \in Nat /\ n < 2
  OBVIOUS
<1> HIDE DEF n
<1>2. n \in {0, 1}
  BY <1>1
<1> QED BY <1>2 DEF n

LEMMA SecondRead ==
  ASSUME NEW S, NEW q \in Seq(S), Len(q) = 1, NEW x \in S
  PROVE  Len(Append(q, x)) = 2 /\ Append(q, x)[1] = q[1] /\ Append(q, x)[2] = x
<1>1. Append(q, x)[1] = q[1]
  OBVIOUS
<1> DEFINE n == Len(q) + 1
<1>2. Len(Append(q, x)) = n /\ Append(q, x)[n] = x
  BY AppendProperties, Zenon
<1>3. n = 2
  BY SMT
<1> HIDE DEF n
<1> QED BY <1>1, <1>2, <1>3

LEMMA RestartedGrows == [Next]_vars => \A c \in restarted : c \in restarted'
BY Zenon DEF Next, vars, CommandStep, ServiceStep, ServiceRuns, RequestStop, StartLocks,
       StartClears, RecoverLocks, RecoverJob, EnsureLocks, EnsureUnlocks,
       EnsureReadsBarrier, EnsureLaunches, EnsurePolls, EnsurePolled, EnsureReturns,
       StatusRead, StatusProbes, StatusReports, ServeLocks, ServeBegins, Signal,
       LoopReads, Claim, IterationEnds, LoopFails, ServeReturns, Crash, JobEnds,
       HeartbeatAges, ghosts

LEMMA ReadsHoldNext == Inv /\ ReadsHold /\ [Next]_vars => ReadsHold'
<1> SUFFICES ASSUME Inv, ReadsHold, [Next]_vars, NEW c \in Caller,
                    caller'[c] \in {"reading", "holding"}
             PROVE  /\ Len(saw'[c]) > 0 /\ (caller'[c] = "holding" => Len(saw'[c]) = 2)
                    /\ c \notin restarted' =>
                         /\ saw'[c][1] = TRUE => paused' = TRUE
                         /\ Len(saw'[c]) = 2 /\ saw'[c][1] = TRUE /\ saw'[c][2] = TRUE
                              => Running' = {}
  BY DEF ReadsHold
<1> USE DEF Inv, TypeOK
<1>1. CASE StatusRead(c)
  <2>1. /\ saw' = [saw EXCEPT ![c] = Append(@, Fact(StatusStep(c)))]
        /\ caller'[c] = "reading" /\ Len(saw[c]) < 2 /\ restarted' = restarted
        /\ caller[c] = "reading" <=> saw[c] # <<>>
    BY <1>1 DEF StatusRead, CallerGoes, ghosts
  <2>2. paused' = paused /\ Running' = Running
    BY <1>1 DEF StatusRead, Running
  <2>3. saw[c] \in Seq(BOOLEAN) /\ Len(saw[c]) \in {0, 1}
    <3>1. saw[c] \in Seq(BOOLEAN) /\ Len(saw[c]) < 2
      BY <1>1 DEF StatusRead
    <3> QED BY <3>1, ShortSequence
  <2>4. CASE Len(saw[c]) = 0
    <3>1. Fact(StatusStep(c)) = paused
      BY <2>4 DEF Fact, StatusStep, StatusReads
    <3>2. Len(saw'[c]) = 1 /\ saw'[c][1] = Fact(StatusStep(c))
      BY <2>1, <2>4
    <3> QED BY <2>1, <2>2, <3>1, <3>2
  <2>5. CASE Len(saw[c]) = 1
    <3>1. Fact(StatusStep(c)) = (Running = {})
      BY <2>5 DEF Fact, StatusStep, StatusReads
    <3>2. Len(saw'[c]) = 2 /\ saw'[c][1] = saw[c][1] /\ saw'[c][2] = Fact(StatusStep(c))
      <4> DEFINE x == Fact(StatusStep(c))
      <4>1. saw'[c] = Append(saw[c], x) /\ x \in BOOLEAN
        BY <2>1, <3>1
      <4> HIDE DEF x
      <4>2. /\ Len(Append(saw[c], x)) = 2 /\ Append(saw[c], x)[1] = saw[c][1]
            /\ Append(saw[c], x)[2] = x
        BY <2>3, <2>5, <4>1, SecondRead
      <4> QED BY <4>1, <4>2, Zenon DEF x
    <3>3. caller[c] = "reading"
      BY <2>1, <2>5
    <3>4. c \notin restarted' /\ saw'[c][1] = TRUE => paused' = TRUE
      BY <2>1, <2>2, <2>5, <3>2, <3>3 DEF ReadsHold
    <3>5. saw'[c][2] = TRUE => Running' = {}
      BY <2>2, <3>1, <3>2, Zenon
    <3> QED BY <2>1, <3>2, <3>4, <3>5
  <2> QED BY <2>3, <2>4, <2>5
<1>2. CASE StatusProbes(c)
  <2>1. /\ caller[c] = "reading" /\ Len(saw[c]) = 2 /\ saw' = saw
        /\ restarted' = restarted /\ paused' = paused /\ Running' = Running
    BY <1>2 DEF StatusProbes, ghosts, Running
  <2> QED BY <2>1 DEF ReadsHold
<1>3. CASE caller'[c] = caller[c] /\ saw'[c] = saw[c]
  <2>1. CASE \E d \in Caller : StartClears(d) /\ ~ asked' /\ Running = {}
    <3>1. c \in restarted' \/ (restarted' = restarted /\ paused' = paused)
      BY <1>3, <2>1 DEF StartClears, ghosts
    <3>2. Running' = Running
      BY <2>1 DEF StartClears, Running
    <3> QED BY <1>3, <3>1, <3>2 DEF ReadsHold
  <2>2. CASE ~ \E d \in Caller : StartClears(d) /\ ~ asked' /\ Running = {}
    <3>1. paused = TRUE => paused' = TRUE
      BY <2>2, BarrierIsLifted, Zenon
    <3>2. paused = TRUE => (Running = {} => Running' = {})
      BY JobsBehindBarrier DEF Running
    <3>3. c \in restarted => c \in restarted'
      BY RestartedGrows
    <3> QED BY <1>3, <3>1, <3>2, <3>3 DEF ReadsHold
  <2> QED BY <2>1, <2>2
<1> QED BY <1>1, <1>2, <1>3, ReaderMoves

\* stop_complete is reported only when the drain is over
\* (dispatcher_status).
THEOREM StopCompleteIsTrueHolds == Spec => StopCompleteIsTrue
<1>1. Inv /\ ReadsHold /\ [Next]_vars => [ReportIsTrue]_vars
  <2> SUFFICES ASSUME Inv, ReadsHold, [Next]_vars, NEW c \in Caller,
                      caller[c] = "holding", caller'[c] = "complete", c \notin restarted
               PROVE  /\ paused' /\ Running' = {}
                      /\ \A s \in Service : ~ (Serving(s)')
    BY DEF ReportIsTrue
  <2>1. StatusReports(c)
    <3>1. ASSUME NEW d \in Caller, CommandStep(d), ~ StatusReports(d)
          PROVE  \E pc \in CallerState \ {"complete"} : CallerGoes(d, pc)
      BY <3>1 DEF CommandStep, RequestStop, StartLocks, StartClears, RecoverLocks,
             RecoverJob, EnsureLocks, EnsureUnlocks, EnsureReadsBarrier, EnsureLaunches,
             EnsurePolls, EnsurePolled, EnsureReturns, StatusRead, StatusProbes, CallerState
    <3>2. \/ \E d \in Caller : CommandStep(d)
          \/ caller' = caller
      BY Zenon DEF Next, vars, commands, ServiceStep, ServiceRuns, ServeLocks, ServeBegins,
             Signal, LoopReads, Claim, IterationEnds, LoopFails, ServeReturns, Crash,
             JobEnds, HeartbeatAges
    <3>3. PICK d \in Caller : CommandStep(d)
      BY <3>2
    <3>4. StatusReports(d) \/ \E pc \in CallerState \ {"complete"} : CallerGoes(d, pc)
      BY <3>1, <3>3
    <3>5. ASSUME NEW e \in Caller, StatusReports(e) PROVE \E pc : CallerGoes(e, pc)
      BY <3>5 DEF StatusReports
    <3>6. d = c
      BY <3>4, <3>5 DEF CallerGoes, Inv, TypeOK
    <3>7. ~ \E pc \in CallerState \ {"complete"} : CallerGoes(c, pc)
      BY DEF CallerGoes, Inv, TypeOK
    <3> QED BY <3>4, <3>6, <3>7
  <2>2. /\ lock = c /\ saw[c] = <<TRUE, TRUE>> /\ service' = service /\ job' = job
        /\ paused' = paused
    BY <2>1 DEF StatusReports, CallerGoes, Inv, TypeOK, LockIsHeld, processes
  <2>3. paused' /\ Running' = {}
    <3>1. Len(saw[c]) = 2 /\ saw[c][1] = TRUE /\ saw[c][2] = TRUE
      BY <2>2
    <3>2. paused = TRUE /\ Running = {}
      BY <3>1 DEF ReadsHold
    <3> QED BY <2>2, <3>2, Zenon DEF Running
  <2>4. \A s \in Service : ~ (Serving(s)')
    BY <2>2, ControlAssumption DEF Serving, Inv, LockIsHeld
  <2> QED BY <2>3, <2>4
<1> QED BY <1>1, InvHolds, ReadsHoldInit, ReadsHoldNext, PTL DEF Spec, StopCompleteIsTrue
===============================================================================
