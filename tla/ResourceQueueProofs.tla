------------------------- MODULE ResourceQueueProofs -------------------------
(***************************************************************************)
(* Theorems about ResourceQueue for every set of resources, owners and     *)
(* activations and every bound.                                            *)
(***************************************************************************)
EXTENDS ResourceQueueRefinement, WellFoundedInduction, TLAPS

-----------------------------------------------------------------------------
(* Lemmas about the operators the transactions are built from. *)

\* A non-empty set of request numbers has a smallest member.
LEMMA OldestExists ==
  ASSUME NEW S \in SUBSET Id, S # {}
  PROVE  \E m \in S : \A n \in S : m <= n
<1>1. S \subseteq Nat
  BY ConstantsAssumption DEF Id
<1>2. PICK m \in S : \A n \in S : ~ (<<n, m>> \in OpToRel(<, Nat))
  BY <1>1, NatLessThanWellFounded, WFMin, Zenon
<1>3. ASSUME NEW n \in S PROVE m <= n
  <2>1. n \in Nat /\ m \in Nat
    BY <1>1
  <2>2. ~ (n < m)
    BY <1>2, <2>1 DEF OpToRel
  <2> QED BY <2>1, <2>2
<1> QED BY <1>3

LEMMA NoneIsNoId == \A q \in Id : q # None
BY ConstantsAssumption DEF Id

\* _promote changes nothing but the status of one waiter, and only while the
\* resource is not blocked.
LEMMA PromoteFrame ==
  ASSUME NEW st \in [Id -> Status], NEW blk, NEW r
  PROVE  /\ Promote(st, blk, r) \in [Id -> Status]
         /\ \A q \in Id : \/ Promote(st, blk, r)[q] = st[q]
                          \/ /\ blk[r] = None
                             /\ IsOldestWaiter(st, r, q)
                             /\ Promote(st, blk, r)[q] = "leased"
BY DEF Promote, Status

\* _promote grants a resource that is not blocked when anybody waits for it.
LEMMA PromoteGrants ==
  ASSUME NEW st \in [Id -> Status], NEW blk, NEW r,
         blk[r] = None, HasStatus(st, r, "waiting")
  PROVE  HasStatus(Promote(st, blk, r), r, "leased")
<1> DEFINE W == {q \in Id : resource[q] = r /\ st[q] = "waiting"}
<1>1. PICK m \in W : \A n \in W : m <= n
  <2>1. W \in SUBSET Id /\ W # {}
    BY DEF HasStatus
  <2> HIDE DEF W
  <2> QED BY <2>1, OldestExists
<1>2. IsOldestWaiter(st, r, m)
  BY <1>1 DEF IsOldestWaiter
<1>3. Promote(st, blk, r)[m] = "leased"
  BY <1>1, <1>2 DEF Promote
<1> QED BY <1>1, <1>3 DEF HasStatus

-----------------------------------------------------------------------------
(* Type correctness. *)

LEMMA TypeInit == Init => TypeOK
<1> SUFFICES ASSUME Init PROVE TypeOK
  OBVIOUS
<1>1. /\ status \in [Id -> Status] /\ job \in [Id -> JobStatus]
      /\ executor \in [Id -> ExecutorState]
  BY DEF Init, Status, JobStatus, ExecutorState
<1>2. /\ resource \in [Id -> Resource \cup {None}]
      /\ owner \in [Id -> Owner \cup {None}]
      /\ activation \in [Id -> Activation \cup {None}]
      /\ block \in [Resource -> Id \cup {None}]
  BY DEF Init
<1> QED BY <1>1, <1>2 DEF Init, TypeOK

LEMMA TypeRequestStep == TypeOK /\ RequestStep => TypeOK'
<1> SUFFICES ASSUME TypeOK, RequestStep PROVE TypeOK'
  OBVIOUS
<1> USE DEF TypeOK, Status, serviceVars
<1>1. ASSUME NEW q \in Id, NEW o \in Owner, NEW r \in Resource,
             NEW a \in Activation, NEW j \in BOOLEAN, Acquire(q, o, r, a, j)
      PROVE  TypeOK'
  BY <1>1 DEF Acquire, JobStatus
<1>2. ASSUME NEW q \in Id, Release(q) PROVE TypeOK'
  <2>1. status' \in [Id -> Status]
    BY <1>2 DEF Release, Promote
  <2>2. \A p \in Id : status'[p] # "unused" => status[p] # "unused"
    BY <1>2 DEF Release, Promote, IsOldestWaiter
  <2> QED BY <1>2, <2>1, <2>2 DEF Release, NewUsers
<1>3. ASSUME NEW q \in Id, NEW c \in BOOLEAN, Cancel(q, c) PROVE TypeOK'
  <2>1. status' \in [Id -> Status]
    BY <1>3 DEF Cancel, Promote
  <2>2. \A p \in Id : status'[p] # "unused" => status[p] # "unused"
    BY <1>3 DEF Cancel, Promote, IsOldestWaiter, Active
  <2>3. job' \in [Id -> JobStatus]
    BY <1>3 DEF Cancel, JobStatus, Withdrawn
  <2>4. block' \in [Resource -> Id \cup {None}]
    BY <1>3 DEF Cancel, BlockLease
  <2>5. occupied' \in SUBSET Id
    BY <1>3 DEF Cancel, NewUsers
  <2> QED BY <1>3, <2>1, <2>2, <2>3, <2>4, <2>5 DEF Cancel
<1>4. ASSUME NEW o \in Owner, NEW a \in Activation \cup {None}, CancelOwner(o, a)
      PROVE  TypeOK'
  <2>1. OwnedBy(o, a) \in SUBSET Id
    BY DEF OwnedBy
  <2>2. BlockLost(OwnedBy(o, a)) \in [Resource -> Id \cup {None}]
    <3> DEFINE lost(r) == {q \in OwnedBy(o, a) :
                             status[q] = "leased" /\ resource[q] = r}
    <3>1. ASSUME NEW r \in Resource, lost(r) # {}
          PROVE  (CHOOSE q \in lost(r) : TRUE) \in Id
      BY <2>1, <3>1
    <3> QED BY <3>1 DEF BlockLost
  <2>3. status' \in [Id -> Status] /\ job' \in [Id -> JobStatus]
    BY <1>4 DEF CancelOwner, Withdrawn, JobStatus
  <2>4. \A p \in Id : status'[p] # "unused" => status[p] # "unused"
    BY <1>4 DEF CancelOwner, OwnedBy, Active
  <2> QED BY <1>4, <2>2, <2>3, <2>4 DEF CancelOwner
<1>5. ASSUME NEW cutoff \in Id, ExpireWaiting(cutoff) PROVE TypeOK'
  BY <1>5 DEF ExpireWaiting
<1>6. ASSUME NEW q \in Id, Resolve(q) PROVE TypeOK'
  <2>1. PICK r \in Resource : /\ block[r] = q
                              /\ block' = [block EXCEPT ![r] = None]
                              /\ status' = Promote(status, block', r)
    BY <1>6 DEF Resolve
  <2>2. status' \in [Id -> Status]
    BY <2>1, PromoteFrame
  <2>3. \A p \in Id : status'[p] # "unused" => status[p] # "unused"
    BY <2>1 DEF Promote, IsOldestWaiter
  <2> QED BY <1>6, <2>1, <2>2, <2>3 DEF Resolve, NewUsers
<1> QED BY <1>1, <1>2, <1>3, <1>4, <1>5, <1>6 DEF RequestStep

LEMMA TypeJobStep == TypeOK /\ JobStep => TypeOK'
<1> SUFFICES ASSUME TypeOK, JobStep PROVE TypeOK'
  OBVIOUS
<1> USE DEF TypeOK, Status, JobStatus, ExecutorState, requestVars, serviceVars
<1>1. ASSUME NEW q \in Id, ClaimJob(q) PROVE TypeOK'
  BY <1>1 DEF ClaimJob
<1>2. ASSUME NEW q \in Id, NEW c \in BOOLEAN, ExecutionEnds(q, c) PROVE TypeOK'
  BY <1>2 DEF ExecutionEnds
<1>3. ASSUME NEW q \in Id, NEW ok \in BOOLEAN, FinishJob(q, ok) PROVE TypeOK'
  <2>1. status' \in [Id -> Status]
    BY <1>3 DEF FinishJob, Promote
  <2>2. \A p \in Id : status'[p] # "unused" => status[p] # "unused"
    BY <1>3 DEF FinishJob, Promote, IsOldestWaiter
  <2>3. job' \in [Id -> JobStatus]
    BY <1>3 DEF FinishJob, Outcome
  <2>4. block' \in [Resource -> Id \cup {None}]
    BY <1>3 DEF FinishJob, BlockLease
  <2> QED BY <1>3, <2>1, <2>2, <2>3, <2>4 DEF FinishJob, NewUsers
<1>4. ASSUME NEW q \in Id, FinishRaises(q) PROVE TypeOK'
  BY <1>4 DEF FinishRaises
<1>5. ASSUME NEW q \in Id, AbandonJob(q) PROVE TypeOK'
  BY <1>5 DEF AbandonJob, BlockLease
<1>6. ASSUME NEW q \in Id, RecoverJob(q) PROVE TypeOK'
  <2>1. status' \in [Id -> Status]
    BY <1>6 DEF RecoverJob, Promote
  <2>2. \A p \in Id : status'[p] # "unused" => status[p] # "unused"
    BY <1>6 DEF RecoverJob, Promote, IsOldestWaiter
  <2> QED BY <1>6, <2>1, <2>2 DEF RecoverJob, NewUsers
<1> QED BY <1>1, <1>2, <1>3, <1>4, <1>5, <1>6 DEF JobStep

LEMMA TypeServiceStep == TypeOK /\ ServiceStep => TypeOK'
<1> USE DEF TypeOK, ExecutorState, requestVars
<1>1. TypeOK /\ (Serve \/ ServiceExits) => TypeOK'
  BY DEF Serve, ServiceExits
<1>2. TypeOK /\ (ServiceFails \/ Crash) => TypeOK'
  <2>1. /\ [q \in Id |-> "idle"] \in [Id -> ExecutorState]
        /\ mishaps \in Nat => mishaps + 1 \in Nat
    OBVIOUS
  <2> QED BY <2>1, Zenon DEF ServiceFails, Crash
<1>3. TypeOK /\ (StopDispatcher \/ StopForRecovery \/ StartDispatcher) => TypeOK'
  <2>1. TRUE \in BOOLEAN /\ FALSE \in BOOLEAN /\ (mishaps \in Nat => mishaps + 1 \in Nat)
    OBVIOUS
  <2> QED BY <2>1, Zenon DEF StopDispatcher, StopForRecovery, StartDispatcher
<1>4. ASSUME TypeOK, NEW q \in Id, OrphanEnds(q) PROVE TypeOK'
  BY <1>4 DEF OrphanEnds
<1> QED BY <1>1, <1>2, <1>3, <1>4 DEF ServiceStep

LEMMA TypeNext == TypeOK /\ [Next]_vars => TypeOK'
<1>1. TypeOK /\ UNCHANGED vars => TypeOK'
  BY DEF TypeOK, vars
<1> QED BY <1>1, TypeRequestStep, TypeJobStep, TypeServiceStep DEF Next

\* Every variable keeps its type, and a request that exists names a configured
\* resource (the CHECK constraints of queue_requests and queue_jobs and the
\* foreign keys of the block and job rows).
THEOREM TypeCorrect == Spec => []TypeOK
BY TypeInit, TypeNext, PTL DEF Spec

-----------------------------------------------------------------------------
(* No lost wake-up. *)

LEMMA WakeupInit == Init => NoLostWakeup
BY DEF Init, NoLostWakeup, HasStatus

\* Whatever ends with _promote leaves no stranded waiter on its resource.
LEMMA PromoteWakesUp ==
  ASSUME NEW st \in [Id -> Status], NEW blk, NEW r,
         HasStatus(Promote(st, blk, r), r, "waiting")
  PROVE  HasStatus(Promote(st, blk, r), r, "leased") \/ blk[r] # None
<1>1. HasStatus(st, r, "waiting")
  BY PromoteFrame DEF HasStatus
<1> QED BY <1>1, PromoteGrants

\* ... and does not touch the other resources.
LEMMA PromoteElsewhere ==
  ASSUME NEW st \in [Id -> Status], NEW blk, NEW r, NEW x, x # r, NEW s
  PROVE  HasStatus(Promote(st, blk, r), x, s) <=> HasStatus(st, x, s)
<1>1. ASSUME NEW q \in Id, resource[q] = x
      PROVE  Promote(st, blk, r)[q] = st[q]
  BY <1>1 DEF Promote, IsOldestWaiter
<1> QED BY <1>1 DEF HasStatus

\* A transaction that takes a request of r out of the queue or its lease, or
\* lifts the block of r, and then promotes: the invariant is restored on r and
\* was never disturbed elsewhere.
LEMMA EndPromotes ==
  ASSUME TypeOK, NoLostWakeup, NEW r \in Resource,
         NEW st \in [Id -> Status], NEW blk,
         \A q \in Id : resource[q] # r => st[q] = status[q],
         \A x \in Resource : x # r => blk[x] = block[x],
         resource' = resource, status' = Promote(st, blk, r), block' = blk
  PROVE  NoLostWakeup'
<1> SUFFICES ASSUME NEW x \in Resource, HasStatus(status, x, "waiting")'
             PROVE  HasStatus(status, x, "leased")' \/ block'[x] # None
  BY DEF NoLostWakeup
<1>1. CASE x = r
  <2>1. HasStatus(Promote(st, blk, r), r, "waiting")
    BY <1>1 DEF HasStatus
  <2>2. HasStatus(Promote(st, blk, r), r, "leased") \/ blk[r] # None
    BY <2>1, PromoteWakesUp
  <2> QED BY <1>1, <2>2 DEF HasStatus
<1>2. CASE x # r
  <2>1. HasStatus(st, x, "waiting")
    <3>1. HasStatus(Promote(st, blk, r), x, "waiting")
      BY DEF HasStatus
    <3> QED BY <1>2, <3>1, PromoteElsewhere
  <2>2. HasStatus(status, x, "leased") \/ block[x] # None
    BY <1>2, <2>1 DEF HasStatus, NoLostWakeup
  <2>3. HasStatus(st, x, "leased") \/ blk[x] # None
    BY <1>2, <2>2 DEF HasStatus
  <2>4. HasStatus(Promote(st, blk, r), x, "leased") \/ blk[x] # None
    BY <1>2, <2>3, PromoteElsewhere
  <2> QED BY <2>4 DEF HasStatus
<1> QED BY <1>1, <1>2

\* A transaction that lets nobody new wait and ends a lease only under a block.
LEMMA EndBlocks ==
  ASSUME TypeOK, NoLostWakeup, resource' = resource,
         \A q \in Id : status'[q] = "waiting" => status[q] = "waiting",
         \A x \in Resource : block[x] # None => block'[x] # None,
         \A q \in Id : status[q] = "leased" /\ resource[q] \in Resource =>
           status'[q] = "leased" \/ block'[resource[q]] # None
  PROVE  NoLostWakeup'
BY DEF NoLostWakeup, HasStatus, TypeOK

LEMMA WakeupRequestStep ==
  TypeOK /\ NoLostWakeup /\ RequestStep => NoLostWakeup'
<1> SUFFICES ASSUME TypeOK, NoLostWakeup, RequestStep PROVE NoLostWakeup'
  OBVIOUS
<1>1. ASSUME NEW q \in Id, NEW o \in Owner, NEW r \in Resource,
             NEW a \in Activation, NEW j \in BOOLEAN, Acquire(q, o, r, a, j)
      PROVE  NoLostWakeup'
  BY <1>1 DEF Acquire, IsFree, NoLostWakeup, HasStatus, TypeOK
<1>2. ASSUME NEW q \in Id, Release(q) PROVE NoLostWakeup'
  <2>1. resource[q] \in Resource
    BY <1>2 DEF Release, TypeOK
  <2>2. [status EXCEPT ![q] = "released"] \in [Id -> Status]
    BY DEF TypeOK, Status
  <2> QED BY <1>2, <2>1, <2>2, EndPromotes DEF Release, TypeOK
<1>3. ASSUME NEW q \in Id, NEW c \in BOOLEAN, Cancel(q, c) PROVE NoLostWakeup'
  <2>1. resource[q] \in Resource
    BY <1>3 DEF Cancel, Active, TypeOK
  <2>2. CASE status[q] = "waiting"
    BY <1>3, <2>2, EndBlocks DEF Cancel, TypeOK
  <2>3. CASE status[q] = "leased" /\ UNCHANGED occupied /\ block' = BlockLease(q)
             /\ status' = [status EXCEPT ![q] = "cancelled"]
    <3>1. block'[resource[q]] # None
      BY <2>1, <2>3, ConstantsAssumption DEF BlockLease, TypeOK, Id
    <3> QED BY <1>3, <2>3, <3>1, EndBlocks DEF Cancel, TypeOK, BlockLease
  <2>4. CASE /\ status' = Promote([status EXCEPT ![q] = "cancelled"], block,
                                  resource[q])
             /\ UNCHANGED block
    <3>1. [status EXCEPT ![q] = "cancelled"] \in [Id -> Status]
      BY DEF TypeOK, Status
    <3> QED BY <1>3, <2>1, <2>4, <3>1, EndPromotes DEF Cancel, TypeOK
  <2> QED BY <1>3, <2>2, <2>3, <2>4 DEF Cancel
<1>4. ASSUME NEW o \in Owner, NEW a \in Activation \cup {None}, CancelOwner(o, a)
      PROVE  NoLostWakeup'
  <2> DEFINE gone == OwnedBy(o, a)
             lost(r) == {q \in gone : status[q] = "leased" /\ resource[q] = r}
  <2>1. gone \in SUBSET Id
    BY DEF OwnedBy
  <2>2. ASSUME NEW q \in Id, status[q] = "leased", resource[q] \in Resource
        PROVE  status'[q] = "leased" \/ block'[resource[q]] # None
    <3>1. CASE q \notin gone
      BY <1>4, <2>2, <3>1 DEF CancelOwner
    <3>2. CASE q \in gone
      <4>1. lost(resource[q]) # {}
        BY <2>2, <3>2
      <4>2. (CHOOSE p \in lost(resource[q]) : TRUE) \in Id
        BY <2>1, <4>1
      <4>3. (CHOOSE p \in lost(resource[q]) : TRUE) # None
        BY <4>2, NoneIsNoId
      <4> QED BY <1>4, <2>2, <4>1, <4>3 DEF CancelOwner, BlockLost
    <3> QED BY <3>1, <3>2
  <2>3. ASSUME NEW x \in Resource, block[x] # None PROVE block'[x] # None
    BY <1>4, <2>3 DEF CancelOwner, BlockLost
  <2>4. ASSUME NEW q \in Id, status'[q] = "waiting" PROVE status[q] = "waiting"
    BY <1>4, <2>4 DEF CancelOwner
  <2>5. resource' = resource
    BY <1>4 DEF CancelOwner
  <2> HIDE DEF gone
  <2> QED BY <2>2, <2>3, <2>4, <2>5, EndBlocks
<1>5. ASSUME NEW cutoff \in Id, ExpireWaiting(cutoff) PROVE NoLostWakeup'
  BY <1>5, EndBlocks DEF ExpireWaiting, TypeOK
<1>6. ASSUME NEW q \in Id, Resolve(q) PROVE NoLostWakeup'
  <2>1. PICK r \in Resource : /\ block[r] = q
                              /\ block' = [block EXCEPT ![r] = None]
                              /\ status' = Promote(status, block', r)
    BY <1>6 DEF Resolve
  <2>2. \A x \in Resource : x # r => block'[x] = block[x]
    BY <2>1 DEF TypeOK
  <2> QED BY <1>6, <2>1, <2>2, EndPromotes DEF Resolve, TypeOK
<1> QED BY <1>1, <1>2, <1>3, <1>4, <1>5, <1>6 DEF RequestStep

LEMMA WakeupJobStep ==
  TypeOK /\ NoLostWakeup /\ JobStep => NoLostWakeup'
<1> SUFFICES ASSUME TypeOK, NoLostWakeup, JobStep PROVE NoLostWakeup'
  OBVIOUS
<1> USE DEF requestVars
<1>1. ASSUME NEW q \in Id, ClaimJob(q) PROVE NoLostWakeup'
  BY <1>1 DEF ClaimJob, NoLostWakeup, HasStatus
<1>2. ASSUME NEW q \in Id, NEW c \in BOOLEAN, ExecutionEnds(q, c)
      PROVE  NoLostWakeup'
  BY <1>2 DEF ExecutionEnds, NoLostWakeup, HasStatus
<1>3. ASSUME NEW q \in Id, NEW ok \in BOOLEAN, FinishJob(q, ok)
      PROVE  NoLostWakeup'
  <2> DEFINE r == resource[q]
  <2>1. resource' = resource
    BY <1>3 DEF FinishJob
  <2>2. CASE /\ status[q] = "leased"
             /\ status' = Promote([status EXCEPT ![q] = "released"], block, r)
             /\ UNCHANGED block
    <3>1. r \in Resource /\ [status EXCEPT ![q] = "released"] \in [Id -> Status]
      BY <2>2 DEF TypeOK, Status
    <3> QED BY <2>1, <2>2, <3>1, EndPromotes DEF TypeOK
  <2>3. CASE /\ status[q] = "leased" /\ block' = BlockLease(q)
             /\ status' = [status EXCEPT ![q] = "cancelled"]
    <3>1. r \in Resource
      BY <2>3 DEF TypeOK
    <3>2. block'[r] # None
      BY <2>3, <3>1, ConstantsAssumption DEF BlockLease, TypeOK, Id
    <3> QED BY <2>1, <2>3, <3>2, EndBlocks DEF TypeOK, BlockLease
  <2>4. CASE /\ block[r] = q /\ block' = [block EXCEPT ![r] = None]
             /\ status' = Promote(status, block', r)
    <3>1. CASE r \in Resource
      <4>1. \A x \in Resource : x # r => block'[x] = block[x]
        BY <2>4 DEF TypeOK
      <4> QED BY <2>1, <2>4, <3>1, <4>1, EndPromotes DEF TypeOK
    <3>2. CASE r \notin Resource
      <4>1. block' = block
        BY <2>4, <3>2 DEF TypeOK
      <4>2. \A p \in Id : status'[p] # status[p] => resource[p] = r
        BY <2>4, PromoteFrame DEF IsOldestWaiter, TypeOK
      <4> QED BY <2>1, <3>2, <4>1, <4>2 DEF NoLostWakeup, HasStatus
    <3> QED BY <3>1, <3>2
  <2>5. CASE UNCHANGED <<status, block>>
    BY <2>1, <2>5 DEF NoLostWakeup, HasStatus
  <2> QED BY <1>3, <2>2, <2>3, <2>4, <2>5 DEF FinishJob
<1>4. ASSUME NEW q \in Id, FinishRaises(q) PROVE NoLostWakeup'
  BY <1>4 DEF FinishRaises, NoLostWakeup, HasStatus
<1>5. ASSUME NEW q \in Id, AbandonJob(q) PROVE NoLostWakeup'
  <2>1. ASSUME status[q] = "leased", resource[q] \in Resource
        PROVE  block'[resource[q]] # None
    BY <1>5, <2>1, ConstantsAssumption DEF AbandonJob, BlockLease, TypeOK, Id
  <2>2. \A x \in Resource : block[x] # None => block'[x] # None
    BY <1>5, ConstantsAssumption DEF AbandonJob, BlockLease, TypeOK, Id
  <2> QED BY <1>5, <2>1, <2>2, EndBlocks DEF AbandonJob, TypeOK
<1>6. ASSUME NEW q \in Id, RecoverJob(q) PROVE NoLostWakeup'
  <2> DEFINE r == resource[q]
             unblocked == [block EXCEPT ![r] = None]
             st == [status EXCEPT ![q] = IF @ = "leased" THEN "released" ELSE @]
  <2>1. /\ resource' = resource /\ block' = unblocked
        /\ status' = Promote(st, unblocked, r)
    BY <1>6 DEF RecoverJob
  <2>2. st \in [Id -> Status]
    BY DEF TypeOK, Status
  <2>3. CASE r \in Resource
    <3>1. \A x \in Resource : x # r => unblocked[x] = block[x]
      BY DEF TypeOK
    <3>2. \A p \in Id : resource[p] # r => st[p] = status[p]
      BY DEF TypeOK
    <3> HIDE DEF st, unblocked
    <3> QED BY <2>1, <2>2, <2>3, <3>1, <3>2, EndPromotes
  <2>4. CASE r \notin Resource
    <3>1. block' = block
      BY <2>1, <2>4 DEF TypeOK
    <3>2. ASSUME NEW p \in Id, resource[p] # r PROVE status'[p] = status[p]
      <4>1. p # q /\ st[p] = status[p]
        BY <3>2 DEF TypeOK
      <4>2. ~IsOldestWaiter(st, r, p)
        BY <3>2 DEF IsOldestWaiter
      <4> HIDE DEF st, unblocked
      <4> QED BY <2>1, <2>2, <4>1, <4>2, PromoteFrame
    <3> QED BY <2>1, <2>4, <3>1, <3>2 DEF NoLostWakeup, HasStatus
  <2> QED BY <2>3, <2>4
<1> QED BY <1>1, <1>2, <1>3, <1>4, <1>5, <1>6 DEF JobStep

LEMMA ServiceStepFrame == ServiceStep => UNCHANGED <<requestVars, job, block, occupied>>
BY DEF ServiceStep, Serve, ServiceExits, ServiceFails, Crash, OrphanEnds,
       StopDispatcher, StopForRecovery, StartDispatcher

LEMMA WakeupNext == TypeOK /\ NoLostWakeup /\ [Next]_vars => NoLostWakeup'
<1>1. NoLostWakeup /\ (ServiceStep \/ UNCHANGED vars) => NoLostWakeup'
  <2>1. ServiceStep \/ UNCHANGED vars => UNCHANGED <<status, resource, block>>
    BY ServiceStepFrame DEF vars, requestVars
  <2> QED BY <2>1 DEF NoLostWakeup, HasStatus
<1> QED BY <1>1, WakeupRequestStep, WakeupJobStep DEF Next

\* A waiting request is never stranded: as long as anybody waits for a
\* resource, there is a lease or a recovery block whose end promotes it (every
\* transaction of the queue and every path through the dispatcher).
THEOREM NoLostWakeupHolds == Spec => []NoLostWakeup
<1>1. TypeOK /\ NoLostWakeup /\ [Next]_vars => (TypeOK /\ NoLostWakeup)'
  BY TypeNext, WakeupNext
<1> QED BY <1>1, TypeInit, WakeupInit, PTL DEF Spec

-----------------------------------------------------------------------------
(* Leases are granted in arrival order. *)

LEMMA PromoteInOrder ==
  ASSUME NEW st \in [Id -> Status], NEW blk, NEW r, NEW p \in Id, NEW q \in Id,
         st[q] # "leased", Promote(st, blk, r)[q] = "leased",
         p < q, resource[p] = resource[q]
  PROVE  Promote(st, blk, r)[p] # "waiting"
<1>1. IsOldestWaiter(st, r, q)
  BY DEF Promote
<1>2. st[p] # "waiting"
  <2>1. p \in Int /\ q \in Int
    BY ConstantsAssumption DEF Id
  <2> QED BY <1>1, <2>1 DEF IsOldestWaiter
<1> QED BY <1>2, PromoteFrame

\* A transaction that ends with _promote, and grants nothing before it.
LEMMA EndGrantsInOrder ==
  ASSUME NEW st \in [Id -> Status], NEW blk, NEW r, resource' = resource,
         \A q \in Id : st[q] = "leased" => status[q] = "leased",
         status' = Promote(st, blk, r)
  PROVE  NoOlderWaits
BY PromoteInOrder DEF NoOlderWaits

LEMMA GrantRequestStep ==
  TypeOK /\ NoLostWakeup /\ RequestStep => NoOlderWaits
<1> SUFFICES ASSUME TypeOK, NoLostWakeup, RequestStep PROVE NoOlderWaits
  OBVIOUS
<1>1. ASSUME NEW q \in Id, NEW o \in Owner, NEW r \in Resource,
             NEW a \in Activation, NEW j \in BOOLEAN, Acquire(q, o, r, a, j)
      PROVE  NoOlderWaits
  <2> SUFFICES ASSUME NEW p \in Id, NEW n \in Id,
                      status[n] # "leased", status'[n] = "leased",
                      p < n, resource'[p] = resource'[n], status'[p] = "waiting"
               PROVE  FALSE
    BY DEF NoOlderWaits
  <2>1. n = q /\ IsFree(r) /\ resource'[n] = r
    BY <1>1 DEF Acquire, TypeOK
  <2>2. p # q
    BY <2>1, ConstantsAssumption DEF Id
  <2>3. HasStatus(status, r, "waiting")
    BY <1>1, <2>1, <2>2 DEF Acquire, TypeOK, HasStatus
  <2> QED BY <2>1, <2>3 DEF NoLostWakeup, IsFree
<1>2. ASSUME NEW q \in Id, Release(q) PROVE NoOlderWaits
  <2>1. [status EXCEPT ![q] = "released"] \in [Id -> Status]
    BY DEF TypeOK, Status
  <2> QED BY <1>2, <2>1, EndGrantsInOrder DEF Release, TypeOK
<1>3. ASSUME NEW q \in Id, NEW c \in BOOLEAN, Cancel(q, c) PROVE NoOlderWaits
  <2> DEFINE st == [status EXCEPT ![q] = "cancelled"]
  <2>1. /\ st \in [Id -> Status]
        /\ \A p \in Id : st[p] = "leased" => status[p] = "leased"
    BY DEF TypeOK, Status
  <2>2. resource' = resource /\ (status' = st \/ status' = Promote(st, block, resource[q]))
    BY <1>3 DEF Cancel
  <2> HIDE DEF st
  <2> QED BY <2>1, <2>2, EndGrantsInOrder DEF NoOlderWaits
<1>4. ASSUME NEW o \in Owner, NEW a \in Activation \cup {None}, CancelOwner(o, a)
      PROVE  NoOlderWaits
  BY <1>4 DEF CancelOwner, NoOlderWaits
<1>5. ASSUME NEW cutoff \in Id, ExpireWaiting(cutoff) PROVE NoOlderWaits
  BY <1>5 DEF ExpireWaiting, NoOlderWaits
<1>6. ASSUME NEW q \in Id, Resolve(q) PROVE NoOlderWaits
  BY <1>6, EndGrantsInOrder DEF Resolve, TypeOK
<1> QED BY <1>1, <1>2, <1>3, <1>4, <1>5, <1>6 DEF RequestStep

LEMMA GrantJobStep == TypeOK /\ JobStep => NoOlderWaits
<1> SUFFICES ASSUME TypeOK, JobStep PROVE NoOlderWaits
  OBVIOUS
<1>1. ASSUME NEW q \in Id,
             \/ ClaimJob(q) \/ FinishRaises(q)
             \/ \E c \in BOOLEAN : ExecutionEnds(q, c)
      PROVE  NoOlderWaits
  BY <1>1 DEF ClaimJob, FinishRaises, ExecutionEnds, NoOlderWaits, requestVars
<1>2. ASSUME NEW q \in Id, NEW ok \in BOOLEAN, FinishJob(q, ok)
      PROVE  NoOlderWaits
  <2>1. PICK s \in {status[q], "released", "cancelled"} :
          \/ status' = Promote([status EXCEPT ![q] = s], block', resource[q])
          \/ status' = [status EXCEPT ![q] = s]
    <3>1. status = [status EXCEPT ![q] = status[q]]
      BY DEF TypeOK
    <3> QED BY <1>2, <3>1 DEF FinishJob
  <2> DEFINE st == [status EXCEPT ![q] = s]
  <2>2. /\ st \in [Id -> Status]
        /\ \A p \in Id : st[p] = "leased" => status[p] = "leased"
    BY DEF TypeOK, Status
  <2>3. resource' = resource
    BY <1>2 DEF FinishJob
  <2> HIDE DEF st
  <2> QED BY <2>1, <2>2, <2>3, EndGrantsInOrder DEF NoOlderWaits, st
<1>3. ASSUME NEW q \in Id, AbandonJob(q) PROVE NoOlderWaits
  BY <1>3 DEF AbandonJob, NoOlderWaits, TypeOK
<1>4. ASSUME NEW q \in Id, RecoverJob(q) PROVE NoOlderWaits
  <2> DEFINE st == [status EXCEPT ![q] = IF @ = "leased" THEN "released" ELSE @]
  <2>1. /\ st \in [Id -> Status]
        /\ \A p \in Id : st[p] = "leased" => status[p] = "leased"
    BY DEF TypeOK, Status
  <2>2. resource' = resource
        /\ status' = Promote(st, [block EXCEPT ![resource[q]] = None], resource[q])
    BY <1>4 DEF RecoverJob
  <2> HIDE DEF st
  <2> QED BY <2>1, <2>2, EndGrantsInOrder
<1> QED BY <1>1, <1>2, <1>3, <1>4 DEF JobStep

\* Leases are granted in arrival order: no older request of the same resource
\* is left waiting by a step that grants a lease (_promote and acquire, and
\* every transaction that calls _promote).
THEOREM GrantsInArrivalOrder == Spec => GrantInArrivalOrder
<1>1. TypeOK /\ NoLostWakeup /\ [Next]_vars => [NoOlderWaits]_vars
  <2>1. ServiceStep => NoOlderWaits
    BY ServiceStepFrame DEF NoOlderWaits, requestVars
  <2> QED BY <2>1, GrantRequestStep, GrantJobStep DEF Next
<1> QED BY <1>1, TypeCorrect, NoLostWakeupHolds, PTL DEF Spec, GrantInArrivalOrder

-----------------------------------------------------------------------------
(***************************************************************************)
(* Mutual exclusion of the users of a resource, and what recovery relies   *)
(* on.                                                                     *)
(*                                                                         *)
(* The invariant is inductive only together with what it says about the    *)
(* holder of a resource: a resource is held by one lease or by one block,  *)
(* never by both, and whoever still uses it is that holder.  It needs that *)
(* a failed commit of finish_job and an operator who resolves the block of *)
(* a job that still counts as running do not both occur: together they     *)
(* lose a block, which a run of the model checker shows.                   *)
(***************************************************************************)

\* A resource is held by one lease or by the block of one former lease.
OneHolder ==
  /\ LeaseIndex(status)
  /\ \A r \in Resource, q \in Id : block[r] = q =>
       /\ resource[q] = r /\ status[q] = "cancelled"
       /\ ~HasStatus(status, r, "leased")

\* What a job's executor and a job's lease say of each other.
JobInv ==
  \A q \in Id :
    /\ status[q] = "unused" => job[q] = "none" /\ q \notin occupied
    /\ executor[q] # "idle" => job[q] = "running" /\ dispatcher = "serving"
    /\ executor[q] = "clean" => q \notin occupied
    /\ ~FinishMayFail => executor[q] # "raised"
    /\ job[q] = "running" => status[q] # "waiting"
    /\ ~ResolveRunning /\ job[q] = "running" =>
         status[q] = "leased" \/ block[resource[q]] = q

HolderInv == TypeOK /\ OneHolder /\ JobInv /\ UnverifiedIsBlocked

-----------------------------------------------------------------------------
(* Most transactions have one of two shapes. *)

\* A lease ends with cleanup proof, or a block is lifted: q is no holder of r
\* any more, r is not blocked, and what st leaves of the queue is promoted.
Ends(q, r, st) ==
  /\ \A p \in Id \ {q} : st[p] = status[p]
  /\ st[q] \in {"released", "cancelled"}
  /\ status[q] # "leased" => st[q] = status[q]
  /\ resource[q] = r /\ block[r] \in {None, q}
  /\ block' = [block EXCEPT ![r] = None]
  /\ status' = Promote(st, block', r) /\ LeaseIndex(status')
  /\ occupied' = (occupied \ {q}) \cup NewUsers(status')
  /\ \A p \in Id \ {q} : job'[p] = job[p] /\ executor'[p] = executor[p]
  /\ executor'[q] # "idle" => executor'[q] = executor[q] /\ job'[q] = job[q]
  /\ ~ResolveRunning => job'[q] # "running"
  /\ UNCHANGED <<resource, dispatcher>>

\* Requests are cancelled, leased ones under a block in their own name.
Blocks(gone) ==
  /\ \A p \in Id \ gone : status'[p] = status[p]
  /\ \A p \in gone : status'[p] = "cancelled" /\ status[p] # "unused"
  /\ \A x \in Resource, p \in gone :
       status[p] = "leased" /\ resource[p] = x => block'[x] = p
  /\ \A x \in Resource :
       \/ block'[x] = block[x]
       \/ \E p \in gone : status[p] = "leased" /\ resource[p] = x /\ block'[x] = p
  /\ \A p \in Id : \/ job'[p] = job[p] /\ executor'[p] = executor[p]
                   \/ executor'[p] = "idle" /\ job'[p] # "running" /\ p \in gone
  /\ UNCHANGED <<resource, occupied, dispatcher>>

-----------------------------------------------------------------------------
(* Lemmas. *)

\* What the promotion at the end of a transaction leaves of an earlier state.
LEMMA Promoted ==
  ASSUME NEW st \in [Id -> Status], NEW blk, NEW r,
         status' = Promote(st, blk, r)
  PROVE  \A p \in Id : \/ status'[p] = st[p]
                       \/ /\ blk[r] = None /\ resource[p] = r
                          /\ st[p] = "waiting" /\ status'[p] = "leased"
BY DEF Promote, IsOldestWaiter

\* The holder of q's resource, when q is leased, is q alone.
LEMMA LeaseIsAlone ==
  ASSUME HolderInv, NEW q \in Id, status[q] = "leased"
  PROVE  /\ resource[q] \in Resource /\ block[resource[q]] = None
         /\ \A p \in Id : status[p] = "leased" /\ resource[p] = resource[q] => p = q
<1>1. resource[q] \in Resource
  BY DEF HolderInv, TypeOK
<1>2. block[resource[q]] = None
  <2>1. block[resource[q]] \in Id \cup {None}
    BY <1>1 DEF HolderInv, TypeOK
  <2> QED BY <1>1, <2>1 DEF HolderInv, OneHolder, HasStatus
<1> QED BY <1>1, <1>2 DEF HolderInv, OneHolder, LeaseIndex

LEMMA HolderInit == Init => HolderInv
<1> SUFFICES ASSUME Init PROVE HolderInv
  OBVIOUS
<1>1. OneHolder
  BY NoneIsNoId DEF Init, OneHolder, LeaseIndex, HasStatus
<1> QED BY <1>1, TypeInit DEF Init, HolderInv, JobInv, UnverifiedIsBlocked

-----------------------------------------------------------------------------
(* Steps of requests, leases and blocks. *)

LEMMA HolderAcquire ==
  ASSUME HolderInv, NEW q \in Id, NEW o \in Owner, NEW r \in Resource,
         NEW a \in Activation, NEW j \in BOOLEAN, Acquire(q, o, r, a, j)
  PROVE  (OneHolder /\ JobInv /\ UnverifiedIsBlocked)'
<1> USE DEF HolderInv, TypeOK
<1>1. /\ status' = [status EXCEPT ![q] = IF IsFree(r) THEN "leased" ELSE "waiting"]
      /\ resource' = [resource EXCEPT ![q] = r]
      /\ UNCHANGED <<block, executor, dispatcher>>
      /\ status[q] = "unused"
  BY DEF Acquire, serviceVars
<1>2. \A x \in Resource : block[x] # q
  BY <1>1 DEF OneHolder
<1>3. OneHolder'
  <2>1. ASSUME NEW p \in Id, status'[p] = "leased", p # q
        PROVE  /\ status[p] = "leased" /\ resource'[p] = resource[p]
               /\ resource[p] = r => status'[q] # "leased"
    BY <1>1, <2>1 DEF IsFree, HasStatus
  <2>2. LeaseIndex(status)'
    BY <1>1, <2>1 DEF OneHolder, LeaseIndex
  <2>3. ASSUME NEW x \in Resource, NEW p \in Id, block[x] = p
        PROVE  /\ resource'[p] = x /\ status'[p] = "cancelled"
               /\ \A n \in Id : resource'[n] = x => status'[n] # "leased"
    <3>1. p # q /\ block[x] # None
      BY <1>2, <2>3, NoneIsNoId
    <3>2. /\ resource[p] = x /\ status[p] = "cancelled"
          /\ \A n \in Id : resource[n] = x => status[n] # "leased"
      BY <2>3 DEF OneHolder, HasStatus
    <3> QED BY <1>1, <3>1, <3>2 DEF IsFree
  <2> QED BY <1>1, <2>2, <2>3 DEF OneHolder, HasStatus
<1>4. JobInv'
  BY <1>1 DEF Acquire, JobInv
<1>5. UnverifiedIsBlocked'
  <2> SUFFICES ASSUME NEW p \in occupied', status'[p] # "leased"
               PROVE  block'[resource'[p]] = p
    BY DEF UnverifiedIsBlocked
  <2>1. p # q
    BY <1>1 DEF Acquire, JobInv
  <2>2. p \in occupied /\ status[p] = status'[p] /\ resource'[p] = resource[p]
    BY <1>1, <2>1 DEF Acquire
  <2> QED BY <1>1, <2>2 DEF UnverifiedIsBlocked
<1> QED BY <1>3, <1>4, <1>5

LEMMA HolderEnds ==
  ASSUME HolderInv, NEW q \in Id, NEW r \in Resource,
         NEW st \in [Id -> Status], Ends(q, r, st)
  PROVE  (OneHolder /\ JobInv /\ UnverifiedIsBlocked)'
<1> USE DEF Ends
<1>1. ASSUME NEW p \in Id, status'[p] # st[p]
      PROVE  resource[p] = r /\ st[p] = "waiting" /\ status'[p] = "leased"
  BY <1>1 DEF Promote, IsOldestWaiter
<1>2. \A x \in Resource : block'[x] = IF x = r THEN None ELSE block[x]
  BY DEF HolderInv, TypeOK
<1>3. OneHolder'
  <2>1. LeaseIndex(status)'
    BY DEF LeaseIndex
  <2>2. ASSUME NEW x \in Resource, NEW p \in Id, block'[x] = p
        PROVE  /\ resource'[p] = x /\ status'[p] = "cancelled"
               /\ ~(HasStatus(status, x, "leased")')
    <3>1. x # r /\ block[x] = p
      BY <1>2, <2>2, NoneIsNoId
    <3>2. /\ resource[p] = x /\ status[p] = "cancelled"
          /\ \A n \in Id : resource[n] = x => status[n] # "leased"
      BY <3>1 DEF HolderInv, OneHolder, HasStatus
    <3>3. \A n \in Id : resource[n] = x => n # q /\ status'[n] = status[n]
      BY <1>1, <3>1
    <3>4. resource'[p] = x /\ status'[p] = "cancelled"
      BY <3>2, <3>3
    <3>5. ~(HasStatus(status, x, "leased")')
      BY <3>2, <3>3 DEF HasStatus
    <3> QED BY <3>4, <3>5
  <2> QED BY <2>1, <2>2 DEF OneHolder
<1>4. JobInv'
  <2> SUFFICES ASSUME NEW p \in Id
               PROVE  /\ status'[p] = "unused" => job'[p] = "none" /\ p \notin occupied'
                      /\ executor'[p] # "idle" =>
                           job'[p] = "running" /\ dispatcher' = "serving"
                      /\ executor'[p] = "clean" => p \notin occupied'
                      /\ ~FinishMayFail => executor'[p] # "raised"
                      /\ job'[p] = "running" => status'[p] # "waiting"
                      /\ ~ResolveRunning /\ job'[p] = "running" =>
                           status'[p] = "leased" \/ block'[resource'[p]] = p
    BY DEF JobInv
  <2>0. /\ status[p] = "unused" => job[p] = "none" /\ p \notin occupied
        /\ executor[p] # "idle" => job[p] = "running" /\ dispatcher = "serving"
        /\ executor[p] = "clean" => p \notin occupied
        /\ ~FinishMayFail => executor[p] # "raised"
        /\ job[p] = "running" => status[p] # "waiting"
        /\ ~ResolveRunning /\ job[p] = "running" =>
             status[p] = "leased" \/ block[resource[p]] = p
    BY DEF HolderInv, JobInv
  <2>n. p \in occupied' => \/ p \in occupied /\ p # q
                           \/ status'[p] = "leased" /\ job[p] = "none"
    BY DEF NewUsers
  <2>1. CASE p = q
    BY <1>1, <2>0, <2>1, <2>n
  <2>2. CASE p # q
    <3>1. st[p] = status[p] /\ job'[p] = job[p] /\ executor'[p] = executor[p]
      BY <2>2
    <3>2. /\ status'[p] = status[p] \/ status'[p] = "leased"
          /\ status'[p] = "unused" => status[p] = "unused"
          /\ status[p] = "leased" => status'[p] = "leased"
      BY <1>1, <3>1
    <3>3. block[resource[p]] = p => block'[resource'[p]] = p
      BY <2>2, NoneIsNoId DEF HolderInv, TypeOK
    <3> QED BY <2>0, <2>n, <3>1, <3>2, <3>3
  <2> QED BY <2>1, <2>2
<1>5. UnverifiedIsBlocked'
  <2> SUFFICES ASSUME NEW p \in occupied', status'[p] # "leased"
               PROVE  block'[resource'[p]] = p
    BY DEF UnverifiedIsBlocked
  <2>1. p \in occupied /\ p # q /\ p \in Id
    BY DEF NewUsers, HolderInv, TypeOK
  <2>2. status[p] = status'[p]
    BY <1>1, <2>1
  <2>3. block[resource[p]] = p
    BY <2>1, <2>2 DEF HolderInv, UnverifiedIsBlocked
  <2>4. resource[p] # r
    BY <2>1, <2>3, NoneIsNoId
  <2> QED BY <2>3, <2>4 DEF HolderInv, TypeOK
<1> QED BY <1>3, <1>4, <1>5

LEMMA HolderBlocks ==
  ASSUME HolderInv, NEW gone \in SUBSET Id, Blocks(gone)
  PROVE  (OneHolder /\ JobInv /\ UnverifiedIsBlocked)'
<1> USE DEF Blocks
<1>1. \A p \in Id : status'[p] = "leased" => status[p] = "leased" /\ p \notin gone
  OBVIOUS
<1>2. OneHolder'
  <2>1. LeaseIndex(status)'
    BY <1>1 DEF HolderInv, OneHolder, LeaseIndex
  <2>2. ASSUME NEW x \in Resource, NEW p \in Id, block'[x] = p
        PROVE  /\ resource'[p] = x /\ status'[p] = "cancelled"
               /\ ~(HasStatus(status, x, "leased")')
    <3>1. CASE block[x] = p
      <4>1. /\ resource[p] = x /\ status[p] = "cancelled"
            /\ ~HasStatus(status, x, "leased")
        BY <3>1 DEF HolderInv, OneHolder
      <4>2. status'[p] = "cancelled"
        BY <4>1
      <4>3. ~(HasStatus(status, x, "leased")')
        BY <1>1, <4>1 DEF HasStatus
      <4> QED BY <4>1, <4>2, <4>3
    <3>2. CASE block[x] # p
      <4>1. p \in gone /\ status[p] = "leased" /\ resource[p] = x
        BY <2>2, <3>2
      <4>2. \A n \in Id : status[n] = "leased" /\ resource[n] = x => n = p
        BY <4>1, LeaseIsAlone
      <4>3. ~(HasStatus(status, x, "leased")')
        BY <1>1, <4>1, <4>2 DEF HasStatus
      <4> QED BY <4>1, <4>3
    <3> QED BY <3>1, <3>2
  <2> QED BY <2>1, <2>2 DEF OneHolder
<1>3. ASSUME NEW p \in Id, status[p] = "leased" \/ block[resource[p]] = p,
             status[p] # "unused", status'[p] # "leased"
      PROVE  block'[resource'[p]] = p
  <2>1. resource[p] \in Resource
    BY <1>3 DEF HolderInv, TypeOK
  <2>2. CASE status[p] = "leased"
    BY <1>3, <2>1, <2>2
  <2>3. CASE block[resource[p]] = p
    <3>1. ~HasStatus(status, resource[p], "leased")
      BY <2>1, <2>3 DEF HolderInv, OneHolder
    <3>2. \A n \in gone : ~(status[n] = "leased" /\ resource[n] = resource[p])
      BY <3>1 DEF HasStatus
    <3> QED BY <2>1, <2>3, <3>2
  <2> QED BY <1>3, <2>2, <2>3
<1>4. JobInv'
  <2> SUFFICES ASSUME NEW p \in Id
               PROVE  /\ status'[p] = "unused" => job'[p] = "none" /\ p \notin occupied'
                      /\ executor'[p] # "idle" =>
                           job'[p] = "running" /\ dispatcher' = "serving"
                      /\ executor'[p] = "clean" => p \notin occupied'
                      /\ ~FinishMayFail => executor'[p] # "raised"
                      /\ job'[p] = "running" => status'[p] # "waiting"
                      /\ ~ResolveRunning /\ job'[p] = "running" =>
                           status'[p] = "leased" \/ block'[resource'[p]] = p
    BY DEF JobInv
  <2>1. /\ status[p] = "unused" => job[p] = "none" /\ p \notin occupied
        /\ executor[p] # "idle" => job[p] = "running" /\ dispatcher = "serving"
        /\ executor[p] = "clean" => p \notin occupied
        /\ ~FinishMayFail => executor[p] # "raised"
        /\ job[p] = "running" => status[p] # "waiting"
        /\ ~ResolveRunning /\ job[p] = "running" =>
             status[p] = "leased" \/ block[resource[p]] = p
    BY DEF HolderInv, JobInv
  <2>2. status'[p] = "unused" => status[p] = "unused" /\ p \notin gone
    OBVIOUS
  <2> QED BY <1>3, <2>1, <2>2
<1>5. UnverifiedIsBlocked'
  <2> SUFFICES ASSUME NEW p \in occupied, status'[p] # "leased"
               PROVE  block'[resource'[p]] = p
    BY DEF UnverifiedIsBlocked
  <2>1. p \in Id /\ status[p] # "unused"
    BY DEF HolderInv, TypeOK, JobInv
  <2>2. status[p] = "leased" \/ block[resource[p]] = p
    BY DEF HolderInv, UnverifiedIsBlocked
  <2> QED BY <1>3, <2>1, <2>2
<1> QED BY <1>2, <1>4, <1>5

LEMMA ReleaseEnds ==
  ASSUME HolderInv, NEW q \in Id, Release(q)
  PROVE  \E r \in Resource, st \in [Id -> Status] : Ends(q, r, st)
<1> DEFINE r == resource[q]
           st == [status EXCEPT ![q] = "released"]
<1>1. r \in Resource /\ block[r] = None
  BY LeaseIsAlone DEF Release
<1>2. block' = [block EXCEPT ![r] = None]
  BY <1>1 DEF Release, HolderInv, TypeOK
<1>3. /\ st \in [Id -> Status] /\ st[q] = "released"
      /\ \A p \in Id \ {q} : st[p] = status[p]
  BY DEF HolderInv, TypeOK, Status
<1>4. Ends(q, r, st)
  BY <1>1, <1>2, <1>3 DEF Release, Ends, serviceVars
<1> HIDE DEF r, st
<1> QED BY <1>1, <1>3, <1>4

LEMMA CancelShape ==
  ASSUME HolderInv, NEW q \in Id, NEW c \in BOOLEAN, Cancel(q, c)
  PROVE  \/ \E gone \in SUBSET Id : Blocks(gone)
         \/ \E r \in Resource, st \in [Id -> Status] : Ends(q, r, st)
<1> DEFINE r == resource[q]
           st == [status EXCEPT ![q] = "cancelled"]
           gone == {q}
<1>1. /\ resource' = resource /\ executor' = executor /\ dispatcher' = dispatcher
      /\ \A p \in Id \ {q} : job'[p] = job[p]
      /\ job'[q] # "running" /\ executor[q] = "idle" /\ status[q] # "unused"
  BY DEF Cancel, Active, Withdrawn, HolderInv, TypeOK, JobInv, serviceVars
<1>2. /\ st \in [Id -> Status] /\ st[q] = "cancelled"
      /\ \A p \in Id \ {q} : st[p] = status[p]
  BY DEF HolderInv, TypeOK, Status
<1>3. CASE status[q] = "waiting" /\ status' = st /\ UNCHANGED <<block, occupied>>
  <2>1. Blocks(gone) /\ gone \in SUBSET Id
    BY <1>1, <1>2, <1>3 DEF Blocks
  <2> QED BY <2>1
<1>4. CASE /\ status[q] = "leased" /\ status' = st
           /\ block' = BlockLease(q) /\ UNCHANGED occupied
  <2>1. r \in Resource /\ block[r] = None
    BY <1>4, LeaseIsAlone
  <2>2. block'[r] = q /\ \A x \in Resource : x # r => block'[x] = block[x]
    BY <1>4, <2>1 DEF BlockLease, HolderInv, TypeOK
  <2>3. Blocks(gone) /\ gone \in SUBSET Id
    BY <1>1, <1>2, <1>4, <2>1, <2>2 DEF Blocks
  <2> QED BY <2>3
<1>5. CASE /\ status[q] = "leased" /\ status' = Promote(st, block, r)
           /\ LeaseIndex(status') /\ UNCHANGED block
           /\ occupied' = (occupied \ {q}) \cup NewUsers(status')
  <2>1. r \in Resource /\ block[r] = None
    BY <1>5, LeaseIsAlone
  <2>2. block' = [block EXCEPT ![r] = None] /\ block' = block
    BY <1>5, <2>1 DEF HolderInv, TypeOK
  <2>3. Ends(q, r, st)
    BY <1>1, <1>2, <1>5, <2>1, <2>2 DEF Ends
  <2> HIDE DEF r, st
  <2> QED BY <1>2, <2>1, <2>3
<1> QED BY <1>3, <1>4, <1>5 DEF Cancel

LEMMA CancelOwnerBlocks ==
  ASSUME HolderInv, NEW o \in Owner, NEW a \in Activation \cup {None},
         CancelOwner(o, a)
  PROVE  \E gone \in SUBSET Id : Blocks(gone)
<1> DEFINE gone == OwnedBy(o, a)
           lost(x) == {q \in gone : status[q] = "leased" /\ resource[q] = x}
<1>1. /\ gone \in SUBSET Id
      /\ \A p \in gone : status[p] # "unused"
  BY DEF OwnedBy, Active
<1>2. /\ \A p \in Id \ gone : status'[p] = status[p]
      /\ \A p \in gone : status'[p] = "cancelled"
      /\ resource' = resource /\ occupied' = occupied /\ executor' = executor
      /\ dispatcher' = dispatcher
  BY <1>1 DEF CancelOwner, serviceVars
<1>3. \A x \in Resource :
        block'[x] = IF block[x] = None /\ lost(x) # {}
                    THEN CHOOSE q \in lost(x) : TRUE ELSE block[x]
  BY DEF CancelOwner, BlockLost
<1>4. ASSUME NEW x \in Resource, NEW p \in gone,
             status[p] = "leased" /\ resource[p] = x
      PROVE  block'[x] = p
  <2>1. block[x] = None /\ \A n \in lost(x) : n = p
    BY <1>1, <1>4, LeaseIsAlone
  <2>2. p \in lost(x)
    BY <1>4
  <2>3. (CHOOSE q \in lost(x) : TRUE) = p
    BY <2>1, <2>2
  <2> QED BY <1>3, <2>1, <2>2, <2>3
<1>5. ASSUME NEW x \in Resource, block'[x] # block[x]
      PROVE  \E p \in gone : /\ status[p] = "leased" /\ resource[p] = x
                             /\ block'[x] = p
  <2>1. PICK p \in lost(x) : TRUE
    BY <1>3, <1>5
  <2> QED BY <1>4, <2>1
<1>6. ASSUME NEW p \in Id, ~(job'[p] = job[p] /\ executor'[p] = executor[p])
      PROVE  executor'[p] = "idle" /\ job'[p] # "running" /\ p \in gone
  BY <1>6 DEF CancelOwner, Withdrawn, HolderInv, JobInv, serviceVars
<1> HIDE DEF gone, lost
<1>7. Blocks(gone)
  BY <1>1, <1>2, <1>4, <1>5, <1>6 DEF Blocks
<1> QED BY <1>1, <1>7

LEMMA ExpireWaitingBlocks ==
  ASSUME HolderInv, NEW cutoff \in Id, ExpireWaiting(cutoff)
  PROVE  \E gone \in SUBSET Id : Blocks(gone)
<1> DEFINE gone == {q \in Id : status[q] = "waiting" /\ q <= cutoff}
<1>1. /\ gone \in SUBSET Id
      /\ \A p \in gone : status[p] = "waiting"
  OBVIOUS
<1>2. /\ \A p \in Id \ gone : status'[p] = status[p]
      /\ \A p \in gone : status'[p] = "cancelled"
      /\ resource' = resource /\ occupied' = occupied /\ executor' = executor
      /\ block' = block /\ job' = job /\ dispatcher' = dispatcher
  BY DEF ExpireWaiting, serviceVars
<1> HIDE DEF gone
<1>3. Blocks(gone)
  BY <1>1, <1>2 DEF Blocks
<1> QED BY <1>1, <1>3

LEMMA ResolveEnds ==
  ASSUME HolderInv, NEW q \in Id, Resolve(q)
  PROVE  \E r \in Resource, st \in [Id -> Status] : Ends(q, r, st)
<1>1. PICK r \in Resource : /\ block[r] = q
                            /\ block' = [block EXCEPT ![r] = None]
                            /\ status' = Promote(status, block', r)
  BY DEF Resolve
<1>2. resource[q] = r /\ status[q] = "cancelled" /\ status \in [Id -> Status]
  BY <1>1 DEF HolderInv, OneHolder, TypeOK
<1>3. Ends(q, r, status)
  BY <1>1, <1>2 DEF Resolve, Ends, serviceVars
<1> QED BY <1>2, <1>3

LEMMA HolderRequestStep ==
  HolderInv /\ RequestStep => (OneHolder /\ JobInv /\ UnverifiedIsBlocked)'
BY HolderAcquire, ReleaseEnds, CancelShape, CancelOwnerBlocks, ExpireWaitingBlocks,
   ResolveEnds, HolderEnds, HolderBlocks DEF RequestStep

-----------------------------------------------------------------------------
(* Steps of jobs and of the dispatcher. *)

\* A step that moves no lease and no block.
LEMMA HolderStays ==
  ASSUME HolderInv, UNCHANGED <<status, resource, block>>,
         \A p \in occupied' : p \in occupied \/ status[p] = "leased"
  PROVE  (OneHolder /\ UnverifiedIsBlocked)'
<1>1. OneHolder'
  BY DEF HolderInv, OneHolder, LeaseIndex, HasStatus
<1>2. UnverifiedIsBlocked'
  BY DEF HolderInv, UnverifiedIsBlocked
<1> QED BY <1>1, <1>2

\* A job whose lease is gone ends without touching the queue.
Settles(q) ==
  /\ job[q] = "running" /\ job'[q] \notin {"none", "running"}
  /\ executor'[q] = "idle"
  /\ \A p \in Id \ {q} : job'[p] = job[p] /\ executor'[p] = executor[p]
  /\ UNCHANGED <<status, resource, block, occupied, dispatcher>>

LEMMA HolderSettles ==
  ASSUME HolderInv, NEW q \in Id, Settles(q)
  PROVE  (OneHolder /\ JobInv /\ UnverifiedIsBlocked)'
<1>1. JobInv'
  <2> SUFFICES ASSUME NEW p \in Id
               PROVE  /\ status[p] = "unused" => job'[p] = "none" /\ p \notin occupied
                      /\ executor'[p] # "idle" =>
                           job'[p] = "running" /\ dispatcher = "serving"
                      /\ executor'[p] = "clean" => p \notin occupied
                      /\ ~FinishMayFail => executor'[p] # "raised"
                      /\ job'[p] = "running" => status[p] # "waiting"
                      /\ ~ResolveRunning /\ job'[p] = "running" =>
                           status[p] = "leased" \/ block[resource[p]] = p
    BY DEF JobInv, Settles
  <2>1. CASE p = q
    BY <2>1 DEF HolderInv, JobInv, Settles
  <2>2. CASE p # q
    BY <2>2 DEF HolderInv, JobInv, Settles
  <2> QED BY <2>1, <2>2
<1> QED BY <1>1, HolderStays DEF Settles

\* A leased job that ends without cleanup proof is cancelled under its block.
LEMMA UncleanBlocks ==
  ASSUME HolderInv, NEW q \in Id, status[q] = "leased",
         status' = [status EXCEPT ![q] = "cancelled"], block' = BlockLease(q),
         executor'[q] = "idle", job'[q] # "running",
         \A p \in Id \ {q} : job'[p] = job[p] /\ executor'[p] = executor[p],
         UNCHANGED <<resource, occupied, dispatcher>>
  PROVE  \E gone \in SUBSET Id : Blocks(gone)
<1> DEFINE r == resource[q]
           gone == {q}
<1>1. r \in Resource /\ block[r] = None
  BY LeaseIsAlone
<1>2. block'[r] = q /\ \A x \in Resource : x # r => block'[x] = block[x]
  BY <1>1 DEF BlockLease, HolderInv, TypeOK
<1>3. Blocks(gone) /\ gone \in SUBSET Id
  BY <1>1, <1>2 DEF Blocks, HolderInv, TypeOK
<1> QED BY <1>3

LEMMA FinishJobShape ==
  ASSUME HolderInv, NEW q \in Id, NEW ok \in BOOLEAN, FinishJob(q, ok)
  PROVE  \/ \E gone \in SUBSET Id : Blocks(gone)
         \/ \E r \in Resource, st \in [Id -> Status] : Ends(q, r, st)
         \/ Settles(q)
<1> DEFINE r == resource[q]
           safe == executor[q] = "clean"
<1>1. /\ resource' = resource /\ dispatcher' = dispatcher
      /\ executor'[q] = "idle" /\ job'[q] \notin {"running", "none"}
      /\ \A p \in Id \ {q} : job'[p] = job[p] /\ executor'[p] = executor[p]
      /\ job[q] = "running"
  BY DEF FinishJob, Outcome, HolderInv, TypeOK
<1>2. r \in Resource /\ status[q] # "unused" /\ (safe => q \notin occupied)
  BY <1>1 DEF HolderInv, TypeOK, JobInv
<1>3. CASE /\ status[q] = "leased" /\ safe
           /\ status' = Promote([status EXCEPT ![q] = "released"], block, r)
           /\ UNCHANGED block
  <2> DEFINE st == [status EXCEPT ![q] = "released"]
  <2>1. /\ st \in [Id -> Status] /\ st[q] = "released"
        /\ \A p \in Id \ {q} : st[p] = status[p]
    BY DEF HolderInv, TypeOK, Status
  <2>2. block[r] \in {None, q} /\ block' = [block EXCEPT ![r] = None]
    BY <1>2, <1>3, LeaseIsAlone DEF HolderInv, TypeOK
  <2>3. status' = Promote(st, block', r) /\ LeaseIndex(status')
    BY <1>3 DEF FinishJob
  <2>4. occupied' = (occupied \ {q}) \cup NewUsers(status')
    BY <1>2, <1>3 DEF FinishJob
  <2>5. Ends(q, r, st)
    BY <1>1, <1>3, <2>1, <2>2, <2>3, <2>4 DEF Ends
  <2> HIDE DEF st, r
  <2> QED BY <1>2, <2>1, <2>5
<1>4. CASE /\ status[q] = "leased" /\ ~safe
           /\ status' = [status EXCEPT ![q] = "cancelled"] /\ block' = BlockLease(q)
  <2>1. occupied' = occupied
    BY <1>4 DEF FinishJob, NewUsers, HolderInv, TypeOK
  <2> QED BY <1>1, <1>4, <2>1, UncleanBlocks
<1>5. CASE /\ safe /\ block[r] = q /\ block' = [block EXCEPT ![r] = None]
           /\ status' = Promote(status, block', r)
  <2>1. status \in [Id -> Status] /\ status[q] = "cancelled"
    BY <1>2, <1>5 DEF HolderInv, TypeOK, OneHolder
  <2>2. LeaseIndex(status') /\ occupied' = (occupied \ {q}) \cup NewUsers(status')
    BY <1>2, <1>5 DEF FinishJob
  <2>3. Ends(q, r, status)
    BY <1>1, <1>5, <2>1, <2>2 DEF Ends
  <2> HIDE DEF r
  <2> QED BY <1>2, <2>1, <2>3
<1>6. CASE UNCHANGED <<status, block>>
  <2>1. occupied' = occupied
    BY <1>6 DEF FinishJob, NewUsers
  <2> QED BY <1>1, <1>6, <2>1 DEF Settles
<1> QED BY <1>3, <1>4, <1>5, <1>6 DEF FinishJob

LEMMA AbandonJobShape ==
  ASSUME ~FinishMayFail \/ ~ResolveRunning,
         HolderInv, NEW q \in Id, AbandonJob(q)
  PROVE  (\E gone \in SUBSET Id : Blocks(gone)) \/ Settles(q)
<1> DEFINE r == resource[q]
<1>1. /\ UNCHANGED <<resource, occupied, dispatcher>>
      /\ executor'[q] = "idle" /\ job'[q] = "recovery_required"
      /\ \A p \in Id \ {q} : job'[p] = job[p] /\ executor'[p] = executor[p]
      /\ job[q] = "running" /\ block' = BlockLease(q)
  BY DEF AbandonJob, HolderInv, TypeOK
<1>2. r \in Resource
  BY DEF AbandonJob, HolderInv, TypeOK, JobInv
<1>3. CASE status[q] = "leased"
  <2>1. status' = [status EXCEPT ![q] = "cancelled"]
    BY <1>3 DEF AbandonJob
  <2> QED BY <1>1, <1>3, <2>1, UncleanBlocks
<1>4. CASE status[q] # "leased"
  <2>1. ~ResolveRunning /\ block[r] = q
    BY <1>4 DEF AbandonJob, HolderInv, JobInv
  <2>2. UNCHANGED <<status, block>>
    BY <1>1, <1>2, <1>4, <2>1, NoneIsNoId
       DEF AbandonJob, BlockLease, HolderInv, TypeOK
  <2> QED BY <1>1, <2>2 DEF Settles
<1> QED BY <1>3, <1>4

LEMMA RecoverJobEnds ==
  ASSUME HolderInv, NEW q \in Id, RecoverJob(q)
  PROVE  \E r \in Resource, st \in [Id -> Status] : Ends(q, r, st)
<1> DEFINE r == resource[q]
           st == [status EXCEPT ![q] = IF @ = "leased" THEN "released" ELSE @]
<1>1. /\ resource' = resource /\ dispatcher' = dispatcher /\ executor' = executor
      /\ job'[q] = "failed" /\ \A p \in Id \ {q} : job'[p] = job[p]
      /\ executor[q] = "idle" /\ block[r] \in {None, q}
      /\ block' = [block EXCEPT ![r] = None] /\ LeaseIndex(status')
      /\ occupied' = (occupied \ {q}) \cup NewUsers(status')
  BY DEF RecoverJob, serviceVars, NoForeignBlock, HolderInv, TypeOK, JobInv
<1>2. r \in Resource /\ status[q] \notin {"unused", "waiting"}
  BY DEF RecoverJob, HolderInv, TypeOK, JobInv
<1>3. /\ st \in [Id -> Status] /\ st[q] \in {"released", "cancelled"}
      /\ status[q] # "leased" => st[q] = status[q]
      /\ \A p \in Id \ {q} : st[p] = status[p]
  BY <1>2 DEF HolderInv, TypeOK, Status
<1>4. status' = Promote(st, block', r)
  BY <1>1 DEF RecoverJob
<1>5. Ends(q, r, st)
  BY <1>1, <1>3, <1>4 DEF Ends
<1> HIDE DEF st, r
<1> QED BY <1>2, <1>3, <1>5

LEMMA HolderJobStep ==
  ASSUME ~FinishMayFail \/ ~ResolveRunning, HolderInv, JobStep
  PROVE  (OneHolder /\ JobInv /\ UnverifiedIsBlocked)'
<1> USE DEF requestVars
<1>1. ASSUME NEW q \in Id, ClaimJob(q)
      PROVE  (OneHolder /\ JobInv /\ UnverifiedIsBlocked)'
  <2>1. /\ UNCHANGED <<status, resource, block, dispatcher>>
        /\ occupied' = occupied \cup {q} /\ status[q] = "leased"
        /\ job' = [job EXCEPT ![q] = "running"]
        /\ executor' = [executor EXCEPT ![q] = "running"]
        /\ job[q] = "queued" /\ dispatcher = "serving"
    BY <1>1 DEF ClaimJob
  <2>2. (OneHolder /\ UnverifiedIsBlocked)'
    BY <2>1, HolderStays
  <2>3. JobInv'
    BY <2>1 DEF JobInv, HolderInv, TypeOK
  <2> QED BY <2>2, <2>3
<1>2. ASSUME NEW q \in Id, NEW c \in BOOLEAN, ExecutionEnds(q, c)
      PROVE  (OneHolder /\ JobInv /\ UnverifiedIsBlocked)'
  <2>1. /\ UNCHANGED <<status, resource, block, dispatcher, job>>
        /\ executor[q] = "running"
        /\ \/ /\ executor' = [executor EXCEPT ![q] = "clean"]
              /\ occupied' = occupied \ {q}
           \/ /\ executor' = [executor EXCEPT ![q] = "dirty"]
              /\ occupied' = occupied
    BY <1>2 DEF ExecutionEnds
  <2>2. (OneHolder /\ UnverifiedIsBlocked)'
    BY <2>1, HolderStays
  <2>3. JobInv'
    BY <2>1 DEF JobInv, HolderInv, TypeOK
  <2> QED BY <2>2, <2>3
<1>3. ASSUME NEW q \in Id, FinishRaises(q)
      PROVE  (OneHolder /\ JobInv /\ UnverifiedIsBlocked)'
  <2>1. /\ UNCHANGED <<status, resource, block, dispatcher, job, occupied>>
        /\ executor[q] # "idle" /\ FinishMayFail
        /\ executor' = [executor EXCEPT ![q] = "raised"]
    BY <1>3 DEF FinishRaises
  <2>2. (OneHolder /\ UnverifiedIsBlocked)'
    BY <2>1, HolderStays
  <2>3. JobInv'
    BY <2>1 DEF JobInv, HolderInv, TypeOK
  <2> QED BY <2>2, <2>3
<1>4. ASSUME NEW q \in Id,
             \/ \E gone \in SUBSET Id : Blocks(gone)
             \/ \E r \in Resource, st \in [Id -> Status] : Ends(q, r, st)
             \/ Settles(q)
      PROVE  (OneHolder /\ JobInv /\ UnverifiedIsBlocked)'
  BY <1>4, HolderBlocks, HolderEnds, HolderSettles
<1> QED BY <1>1, <1>2, <1>3, <1>4, FinishJobShape, AbandonJobShape, RecoverJobEnds
        DEF JobStep

LEMMA HolderServiceStep ==
  ASSUME HolderInv, ServiceStep \/ UNCHANGED vars
  PROVE  (OneHolder /\ JobInv /\ UnverifiedIsBlocked)'
<1>1. UNCHANGED <<status, resource, block, job, occupied>>
  BY ServiceStepFrame DEF requestVars, vars
<1>2. (OneHolder /\ UnverifiedIsBlocked)'
  BY <1>1, HolderStays
<1>3. ASSUME NEW q \in Id
      PROVE  \/ executor'[q] = "idle"
             \/ executor'[q] = executor[q] /\ dispatcher' \in {dispatcher, "serving"}
  <2>1. CASE ServiceExits
    BY <2>1 DEF ServiceExits, Executing
  <2>2. CASE ServiceFails \/ Crash
    BY <2>2 DEF ServiceFails, Crash
  <2>3. CASE Serve \/ StopDispatcher \/ StopForRecovery \/ StartDispatcher
             \/ UNCHANGED vars
    BY <2>3 DEF Serve, StopDispatcher, StopForRecovery, StartDispatcher, vars
  <2>4. CASE \E p \in Id : OrphanEnds(p)
    BY <2>4 DEF OrphanEnds
  <2> QED BY <2>1, <2>2, <2>3, <2>4 DEF ServiceStep
<1>4. JobInv'
  BY <1>1, <1>3 DEF JobInv, HolderInv
<1> QED BY <1>2, <1>4

\* The inductive invariant.
THEOREM HolderInvariant ==
  ASSUME ~FinishMayFail \/ ~ResolveRunning
  PROVE  Spec => []HolderInv
<1>1. HolderInv /\ [Next]_vars => HolderInv'
  <2> SUFFICES ASSUME HolderInv, [Next]_vars PROVE HolderInv'
    OBVIOUS
  <2>1. TypeOK'
    BY TypeNext DEF HolderInv
  <2>2. (OneHolder /\ JobInv /\ UnverifiedIsBlocked)'
    BY HolderRequestStep, HolderJobStep, HolderServiceStep DEF Next
  <2> QED BY <2>1, <2>2 DEF HolderInv
<1> QED BY <1>1, HolderInit, PTL DEF Spec

\* At most one request uses a resource at a time, from its grant or claim to
\* its own release, its cleanup proof or an operator's confirmation (release,
\* finish_job, resolve, recover_dispatcher_job), whatever crashes in between.
THEOREM ExclusiveUseHolds ==
  ASSUME ~FinishMayFail \/ ~ResolveRunning
  PROVE  Spec => []ExclusiveUse
<1>1. HolderInv => ExclusiveUse
  <2> SUFFICES ASSUME HolderInv, NEW p \in occupied, NEW q \in occupied,
                      resource[p] = resource[q]
               PROVE  p = q
    BY DEF ExclusiveUse
  <2>1. p \in Id /\ q \in Id
    BY DEF HolderInv, TypeOK
  <2>2. /\ status[p] # "leased" => block[resource[p]] = p
        /\ status[q] # "leased" => block[resource[q]] = q
    BY DEF HolderInv, UnverifiedIsBlocked
  <2>3. CASE status[p] = "leased"
    BY <2>1, <2>2, <2>3, LeaseIsAlone, NoneIsNoId
  <2>4. CASE status[q] = "leased"
    BY <2>1, <2>2, <2>4, LeaseIsAlone, NoneIsNoId
  <2> QED BY <2>2, <2>3, <2>4
<1> QED BY <1>1, HolderInvariant, PTL

\* A lease that ended without cleanup proof keeps its resource blocked in its
\* own name (_block_lease and its four callers).
THEOREM UnverifiedIsBlockedHolds ==
  ASSUME ~FinishMayFail \/ ~ResolveRunning
  PROVE  Spec => []UnverifiedIsBlocked
<1>1. HolderInv => UnverifiedIsBlocked
  BY DEF HolderInv
<1> QED BY <1>1, HolderInvariant, PTL

\* Where no operator resolves the block of a running job, resolve and
\* recover_dispatcher_job never run into the one-lease-per-resource index.
THEOREM RecoveryCommitsHolds ==
  ASSUME ~ResolveRunning
  PROVE  Spec => []RecoveryCommits
<1>1. HolderInv => RecoveryCommits
  <2> SUFFICES ASSUME HolderInv, NEW q \in Id, NEW p \in Id, p # q,
                      resource[p] = resource[q], status[p] = "leased",
                      \/ resource[q] \in Resource /\ block[resource[q]] = q
                      \/ job[q] = "running"
               PROVE  FALSE
    BY DEF RecoveryCommits
  <2>1. block[resource[q]] # q
    BY LeaseIsAlone, NoneIsNoId
  <2>2. job[q] = "running" /\ status[q] = "leased"
    BY <2>1 DEF HolderInv, JobInv
  <2> QED BY <2>2, LeaseIsAlone
<1> QED BY <1>1, HolderInvariant, PTL

-----------------------------------------------------------------------------
(* Jobs, under any assumption about operators and failing commits. *)

\* While a service holds the lock it knows every running job (serve refuses to
\* start over one that an earlier service left behind).
THEOREM ServiceKnowsItsJobsHolds == Spec => []ServiceKnowsItsJobs
<1> USE DEF ServiceKnowsItsJobs, RunningJobs
<1>1. Init => ServiceKnowsItsJobs
  BY DEF Init
<1>2. TypeOK /\ ServiceKnowsItsJobs /\ [Next]_vars => ServiceKnowsItsJobs'
  <2> SUFFICES ASSUME TypeOK, ServiceKnowsItsJobs, [Next]_vars
               PROVE  ServiceKnowsItsJobs'
    OBVIOUS
  <2>1. CASE RequestStep
    <3>1. /\ UNCHANGED <<dispatcher, executor>>
          /\ \A q \in Id : job'[q] = "running" => job[q] = "running"
      BY <2>1 DEF RequestStep, Acquire, Release, Cancel, CancelOwner, Withdrawn,
                  ExpireWaiting, Resolve, serviceVars, TypeOK
    <3> QED BY <3>1
  <2>2. CASE JobStep
    <3>1. ASSUME NEW q \in Id, NEW ok \in BOOLEAN, FinishJob(q, ok)
          PROVE  ServiceKnowsItsJobs'
      BY <3>1 DEF FinishJob, Outcome, TypeOK
    <3>2. ASSUME NEW q \in Id, NEW c \in BOOLEAN, ExecutionEnds(q, c)
          PROVE  ServiceKnowsItsJobs'
      BY <3>2 DEF ExecutionEnds, TypeOK
    <3>3. ASSUME NEW q \in Id, AbandonJob(q) PROVE ServiceKnowsItsJobs'
      BY <3>3 DEF AbandonJob, TypeOK
    <3>4. ASSUME NEW q \in Id, ClaimJob(q) \/ FinishRaises(q) \/ RecoverJob(q)
          PROVE  ServiceKnowsItsJobs'
      BY <3>4 DEF ClaimJob, FinishRaises, RecoverJob, serviceVars, TypeOK
    <3> QED BY <2>2, <3>1, <3>2, <3>3, <3>4 DEF JobStep
  <2>3. CASE ServiceStep \/ UNCHANGED vars
    BY <2>3 DEF ServiceStep, Serve, ServiceExits, ServiceFails, Crash, OrphanEnds,
                StopDispatcher, StopForRecovery, StartDispatcher, vars
  <2> QED BY <2>1, <2>2, <2>3 DEF Next
<1> QED BY <1>1, <1>2, TypeCorrect, PTL DEF Spec

UnusedHasNoJob == \A q \in Id : status[q] = "unused" => job[q] = "none"

\* The moves a job makes, written out.
JobsMove ==
  \A q \in Id :
    \/ job'[q] = job[q]
    \/ job[q] = "none" /\ job'[q] = "queued"
    \/ job[q] = "queued" /\ job'[q] \in {"running", "failed"}
    \/ job[q] = "running" /\ job'[q] \in {"succeeded", "failed", "recovery_required"}

\* A job that was claimed is never claimed again and an outcome is final
\* (claim_job, finish_job, abandon_job, recover_dispatcher_job, cancel).
THEOREM JobsNeverRerunHolds == Spec => JobsNeverRerun
<1>1. Init => UnusedHasNoJob
  BY DEF Init, UnusedHasNoJob
<1>2. TypeOK /\ UnusedHasNoJob /\ [Next]_vars => UnusedHasNoJob' /\ JobsMove
  <2> SUFFICES ASSUME TypeOK, UnusedHasNoJob, [Next]_vars
               PROVE  UnusedHasNoJob' /\ JobsMove
    OBVIOUS
  <2> USE DEF UnusedHasNoJob, JobsMove
  <2>1. ASSUME NEW q \in Id, NEW o \in Owner, NEW r \in Resource,
               NEW a \in Activation, NEW j \in BOOLEAN, Acquire(q, o, r, a, j)
        PROVE  UnusedHasNoJob' /\ JobsMove
    BY <2>1 DEF Acquire, TypeOK
  <2>2. ASSUME NEW q \in Id, NEW ok \in BOOLEAN, FinishJob(q, ok)
        PROVE  UnusedHasNoJob' /\ JobsMove
    <3>1. /\ job[q] = "running" /\ status[q] # "unused"
          /\ job'[q] \in {"succeeded", "failed", "recovery_required"}
          /\ \A p \in Id \ {q} : job'[p] = job[p]
      BY <2>2 DEF FinishJob, Outcome, TypeOK
    <3>2. \A p \in Id \ {q} : status'[p] = "unused" => status[p] = "unused"
      BY <2>2 DEF FinishJob, Promote, TypeOK
    <3>3. status'[q] # "unused"
      BY <2>2, <3>1 DEF FinishJob, Promote, TypeOK
    <3> QED BY <3>1, <3>2, <3>3
  <2>3. ASSUME NEW q \in Id, AbandonJob(q) \/ ClaimJob(q) \/ FinishRaises(q)
        PROVE  UnusedHasNoJob' /\ JobsMove
    BY <2>3 DEF AbandonJob, ClaimJob, FinishRaises, requestVars, TypeOK
  <2>4. ASSUME NEW q \in Id, NEW c \in BOOLEAN, ExecutionEnds(q, c)
        PROVE  UnusedHasNoJob' /\ JobsMove
    BY <2>4 DEF ExecutionEnds, requestVars
  <2>5. ASSUME NEW q \in Id, RecoverJob(q) PROVE UnusedHasNoJob' /\ JobsMove
    <3>1. /\ job[q] = "running" /\ status[q] # "unused"
          /\ job'[q] = "failed" /\ \A p \in Id \ {q} : job'[p] = job[p]
      BY <2>5 DEF RecoverJob, TypeOK
    <3>2. \A p \in Id : status'[p] = "unused" => status[p] = "unused"
      BY <2>5 DEF RecoverJob, Promote, TypeOK
    <3> QED BY <3>1, <3>2
  <2>6. ASSUME NEW q \in Id, NEW c \in BOOLEAN, Cancel(q, c)
        PROVE  UnusedHasNoJob' /\ JobsMove
    <3>1. /\ job' = [job EXCEPT ![q] = Withdrawn(@)] /\ status[q] # "unused"
      BY <2>6 DEF Cancel, Active
    <3>2. \A p \in Id : status'[p] = "unused" => status[p] = "unused" /\ p # q
      BY <2>6, <3>1 DEF Cancel, Promote, TypeOK
    <3> QED BY <3>1, <3>2 DEF Withdrawn, TypeOK
  <2>7. ASSUME NEW o \in Owner, NEW a \in Activation \cup {None}, CancelOwner(o, a)
        PROVE  UnusedHasNoJob' /\ JobsMove
    BY <2>7 DEF CancelOwner, OwnedBy, Active, Withdrawn, TypeOK
  <2>8. ASSUME job' = job, \A q \in Id : status'[q] = "unused" => status[q] = "unused"
        PROVE  UnusedHasNoJob' /\ JobsMove
    BY <2>8
  <2>9. ASSUME NEW q \in Id, Release(q) \/ Resolve(q)
        PROVE  UnusedHasNoJob' /\ JobsMove
    <3>1. \A p \in Id : status'[p] = "unused" => status[p] = "unused"
      BY <2>9 DEF Release, Resolve, Promote, TypeOK
    <3> QED BY <2>8, <2>9, <3>1 DEF Release, Resolve
  <2>10. ASSUME NEW cutoff \in Id, ExpireWaiting(cutoff)
         PROVE  UnusedHasNoJob' /\ JobsMove
    BY <2>8, <2>10 DEF ExpireWaiting
  <2>11. CASE ServiceStep \/ UNCHANGED vars
    BY <2>8, <2>11, ServiceStepFrame DEF requestVars, vars
  <2> QED BY <2>1, <2>2, <2>3, <2>4, <2>5, <2>6, <2>7, <2>9, <2>10, <2>11
          DEF Next, RequestStep, JobStep
<1>3. JobsMove => JobsOnlyAdvance
  BY DEF JobsMove, JobsOnlyAdvance, JobRank
<1> QED BY <1>1, <1>2, <1>3, TypeCorrect, PTL DEF Spec, JobsNeverRerun

-----------------------------------------------------------------------------
(***************************************************************************)
(* The queue implements ExclusiveResource for every value of the constants *)
(* that HolderInv needs.                                                   *)
(***************************************************************************)

\* The holder of a resource, read off its lease or its block.
HolderFacts ==
  \A r \in Resource :
    /\ Holder(r) \in Id \cup {None}
    /\ \A q \in Id : status[q] = "leased" /\ resource[q] = r => Holder(r) = q
    /\ ~HasStatus(status, r, "leased") => Holder(r) = block[r]
    /\ \A q \in Id : block[r] = q => Holder(r) = q
    /\ Holder(r) = None => ~HasStatus(status, r, "leased") /\ block[r] = None

LEMMA HolderIs == HolderInv => HolderFacts
<1> SUFFICES ASSUME HolderInv, NEW r \in Resource
    PROVE  /\ Holder(r) \in Id \cup {None}
           /\ \A q \in Id : status[q] = "leased" /\ resource[q] = r => Holder(r) = q
           /\ ~HasStatus(status, r, "leased") => Holder(r) = block[r]
           /\ \A q \in Id : block[r] = q => Holder(r) = q
           /\ Holder(r) = None => ~HasStatus(status, r, "leased") /\ block[r] = None
  BY DEF HolderFacts
<1>1. ASSUME NEW q \in Id, status[q] = "leased", resource[q] = r
      PROVE  Holder(r) = q
  <2>1. \A p \in Id : resource[p] = r /\ status[p] = "leased" => p = q
    BY <1>1, LeaseIsAlone
  <2>2. (CHOOSE p \in Id : resource[p] = r /\ status[p] = "leased") = q
    BY <1>1, <2>1
  <2> QED BY <1>1, <2>2 DEF Holder, HasStatus
<1>2. ASSUME ~HasStatus(status, r, "leased") PROVE Holder(r) = block[r]
  BY <1>2 DEF Holder
<1>3. ASSUME HasStatus(status, r, "leased") PROVE Holder(r) \in Id
  BY <1>1, <1>3 DEF HasStatus
<1>4. block[r] \in Id \cup {None}
  BY DEF HolderInv, TypeOK
<1>5. \A q \in Id : block[r] = q => ~HasStatus(status, r, "leased")
  BY DEF HolderInv, OneHolder
<1> QED BY <1>1, <1>2, <1>3, <1>4, <1>5, NoneIsNoId

LEMMA RefinesInit == Init => Exclusive!Init
<1> SUFFICES ASSUME Init PROVE Exclusive!Init
  OBVIOUS
<1>1. Id = Exclusive!Id
  BY DEF Id, Exclusive!Id
<1>2. \A r \in Resource : Holder(r) = None
  BY DEF Init, Holder, HasStatus
<1> QED BY <1>1, <1>2 DEF Init, Exclusive!Init

\* Leases and blocks elsewhere are not disturbed: the holder stays.
LEMMA SameHolder ==
  ASSUME HolderInv, HolderInv', NEW x \in Resource,
         block'[x] = block[x],
         \A p \in Id : resource'[p] = x /\ status'[p] = "leased"
                       <=> resource[p] = x /\ status[p] = "leased"
  PROVE  (Holder(x))' = Holder(x)
<1>1. CASE HasStatus(status, x, "leased")
  <2>1. PICK q \in Id : resource[q] = x /\ status[q] = "leased"
    BY <1>1 DEF HasStatus
  <2>2. Holder(x) = q
    BY <2>1, HolderIs DEF HolderFacts
  <2>3. resource'[q] = x /\ status'[q] = "leased"
    BY <2>1
  <2>4. (Holder(x))' = q
    <3>1. HolderFacts'
      BY HolderIs, PTL
    <3> QED BY <2>3, <3>1 DEF HolderFacts
  <2> QED BY <2>2, <2>4
<1>2. CASE ~HasStatus(status, x, "leased")
  <2>1. (~HasStatus(status, x, "leased"))'
    BY <1>2 DEF HasStatus
  <2> QED BY <1>2, <2>1 DEF Holder
<1> QED BY <1>1, <1>2

\* What ends with _promote and takes the resource from its holder hands it
\* over to the oldest waiter.
LEMMA HandsOver ==
  ASSUME HolderInv, HolderInv', NEW q \in Id, NEW r \in Resource,
         NEW st \in [Id -> Status], Ends(q, r, st), Holder(r) = q
  PROVE  \E n \in Id \cup {None} : Exclusive!HandOver(r, n)
<1> USE DEF Ends
<1> DEFINE W == {p \in Id : status[p] = "waiting"}
           mine == {p \in W : resource[p] = r}
<1>0. status[q] # "waiting"
  BY DEF Holder, HasStatus, HolderInv, OneHolder
<1>1. \A p \in Id : p \in W <=> st[p] = "waiting"
  BY <1>0
<1>2. block'[r] = None /\ \A x \in Resource : x # r => block'[x] = block[x]
  BY DEF HolderInv, TypeOK
<1>3. ASSUME NEW p \in Id, resource[p] = r PROVE st[p] # "leased"
  <2>1. CASE p = q
    BY <2>1
  <2>2. CASE p # q
    <3>1. ~(status[p] = "leased")
      BY <1>3, <2>2, HolderIs DEF HolderFacts
    <3> QED BY <2>2, <3>1
  <2> QED BY <2>1, <2>2
<1>4. \A x \in Resource : x # r => (Holder(x))' = Holder(x)
  <2> SUFFICES ASSUME NEW x \in Resource, x # r PROVE (Holder(x))' = Holder(x)
    OBVIOUS
  <2>1. \A p \in Id : resource[p] = x => status'[p] = status[p]
    <3>1. ASSUME NEW p \in Id, resource[p] = x PROVE status'[p] = status[p]
      <4>1. p # q
        BY <3>1
      <4>2. ~IsOldestWaiter(st, r, p)
        BY <3>1 DEF IsOldestWaiter
      <4> QED BY <4>1, <4>2 DEF Promote
    <3> QED BY <3>1
  <2> QED BY <1>2, <2>1, SameHolder
<1>5. HolderFacts'
  BY HolderIs, PTL
<1>6. CASE mine = {}
  <2>1. status' = st
    <3>1. \A p \in Id : ~IsOldestWaiter(st, r, p)
      BY <1>1, <1>6 DEF IsOldestWaiter
    <3> QED BY <3>1 DEF Promote
  <2>2. (Holder(r))' = None
    <3>1. (~HasStatus(status, r, "leased"))'
      BY <1>3, <2>1 DEF HasStatus
    <3>2. (Holder(r))' = block'[r]
      BY <1>5, <3>1 DEF HolderFacts
    <3> QED BY <1>2, <3>2
  <2>3. NewUsers(status') = {}
    BY <2>1 DEF NewUsers
  <2>4. {p \in Id : status'[p] = "waiting"} = W \ {None}
    BY <1>1, <2>1, NoneIsNoId
  <2>5. [x \in Resource |-> Holder(x)]'
          = [[x \in Resource |-> Holder(x)] EXCEPT ![r] = None]
    BY <1>4, <2>2
  <2>6. Exclusive!IsNext(r, None)
    BY <1>6 DEF Exclusive!IsNext
  <2>7. Exclusive!HandOver(r, None)
    <3>1. [x \in Resource |-> Holder(x)][r] = q
      OBVIOUS
    <3>2. {} \in SUBSET {None} /\ None \notin {}
          /\ occupied' = (occupied \ {q}) \cup {}
      BY <2>3
    <3> HIDE DEF W, mine
    <3> QED BY <2>4, <2>5, <2>6, <3>1, <3>2, NoneIsNoId DEF Exclusive!HandOver, W
  <2> QED BY <2>7
<1>7. CASE mine # {}
  <2>1. PICK m \in mine : \A n \in mine : m <= n
    <3>1. mine \in SUBSET Id
      OBVIOUS
    <3> HIDE DEF mine
    <3> QED BY <1>7, <3>1, OldestExists
  <2>2. \A p \in Id : IsOldestWaiter(st, r, p) <=> p = m
    <3>1. m \in Int /\ \A p \in Id : p \in Int
      BY <2>1, ConstantsAssumption DEF Id
    <3>2. IsOldestWaiter(st, r, m)
      BY <1>1, <2>1 DEF IsOldestWaiter
    <3>3. ASSUME NEW p \in Id, IsOldestWaiter(st, r, p) PROVE p = m
      <4>1. p <= m /\ m <= p
        BY <3>2, <3>3, <2>1 DEF IsOldestWaiter
      <4> QED BY <3>1, <4>1
    <3> QED BY <3>2, <3>3
  <2>3. status' = [st EXCEPT ![m] = "leased"]
    BY <1>2, <2>2 DEF Promote
  <2>4. (Holder(r))' = m
    <3>1. status'[m] = "leased" /\ resource'[m] = r
      BY <2>1, <2>3
    <3> QED BY <1>5, <2>1, <3>1 DEF HolderFacts
  <2>5. NewUsers(status') \in SUBSET {m}
    BY <2>3 DEF NewUsers
  <2>6. {p \in Id : status'[p] = "waiting"} = W \ {m}
    BY <1>1, <2>1, <2>3
  <2>7. [x \in Resource |-> Holder(x)]'
          = [[x \in Resource |-> Holder(x)] EXCEPT ![r] = m]
    BY <1>4, <2>4
  <2>8. Exclusive!IsNext(r, m)
    BY <2>1 DEF Exclusive!IsNext
  <2>9. Exclusive!HandOver(r, m)
    <3>1. [x \in Resource |-> Holder(x)][r] = q
      OBVIOUS
    <3>2. None \notin NewUsers(status')
      BY NoneIsNoId DEF NewUsers
    <3> HIDE DEF W, mine
    <3> QED BY <2>5, <2>6, <2>7, <2>8, <3>1, <3>2, NoneIsNoId
            DEF Exclusive!HandOver, W
  <2> QED BY <2>1, <2>9
<1> QED BY <1>6, <1>7

\* Requests that are cancelled keep the resources they hold and give up
\* waiting.
LEMMA Withdraws ==
  ASSUME HolderInv, HolderInv', NEW gone \in SUBSET Id, Blocks(gone)
  PROVE  Exclusive!Next \/ UNCHANGED Exclusive!vars
<1> USE DEF Blocks
<1> DEFINE W == {p \in Id : status[p] = "waiting"}
<1>1. \A x \in Resource : (Holder(x))' = Holder(x)
  <2> SUFFICES ASSUME NEW x \in Resource PROVE (Holder(x))' = Holder(x)
    OBVIOUS
  <2>0. HolderFacts /\ HolderFacts'
    BY HolderIs, PTL
  <2>1. CASE \E p \in gone : status[p] = "leased" /\ resource[p] = x
    <3>1. PICK p \in gone : status[p] = "leased" /\ resource[p] = x
      BY <2>1
    <3>2. block'[x] = p
      BY <3>1
    <3>3. (Holder(x))' = p
      BY <2>0, <3>2 DEF HolderFacts
    <3>4. Holder(x) = p
      BY <2>0, <3>1 DEF HolderFacts
    <3> QED BY <3>3, <3>4
  <2>2. CASE ~ \E p \in gone : status[p] = "leased" /\ resource[p] = x
    <3>1. block'[x] = block[x]
      BY <2>2
    <3>2. \A p \in Id : resource[p] = x =>
            (status'[p] = "leased" <=> status[p] = "leased")
      BY <2>2
    <3> QED BY <3>1, <3>2, SameHolder
  <2> QED BY <2>1, <2>2
<1>2. {p \in Id : status'[p] = "waiting"} = W \ gone
  OBVIOUS
<1>3. [x \in Resource |-> Holder(x)]' = [x \in Resource |-> Holder(x)]
  BY <1>1
<1>4. CASE W \cap gone = {}
  <2>1. {p \in Id : status'[p] = "waiting"} = W
    BY <1>2, <1>4
  <2> QED BY <1>3, <2>1 DEF Exclusive!vars
<1>5. CASE W \cap gone # {}
  <2>1. {p \in Id : status'[p] = "waiting"} = W \ (W \cap gone)
    BY <1>2
  <2>2. PICK V \in SUBSET W : V = W \cap gone
    OBVIOUS
  <2>3. Exclusive!Withdraw(V)
    BY <1>3, <1>5, <2>1, <2>2 DEF Exclusive!Withdraw
  <2>4. \E U \in SUBSET W : Exclusive!Withdraw(U)
    BY <2>3
  <2> QED BY <2>4 DEF Exclusive!Next
<1> QED BY <1>4, <1>5

\* A step that moves no lease and no block maps to what it does to the use.
LEMMA UseChanges ==
  ASSUME UNCHANGED <<status, resource, block>>
  PROVE  /\ [x \in Resource |-> Holder(x)]' = [x \in Resource |-> Holder(x)]
         /\ occupied' = occupied => UNCHANGED Exclusive!vars
         /\ \A q \in Id : occupied' = occupied \ {q} => Exclusive!End(q)
<1>1. [x \in Resource |-> Holder(x)]' = [x \in Resource |-> Holder(x)]
  BY DEF Holder, HasStatus
<1> QED BY <1>1 DEF Exclusive!vars, Exclusive!End

\* What ends a request that holds nothing promotes nobody: a waiter would have
\* a lease to wait for, and the one-lease index forbids a second one.
LEMMA EndsNothing ==
  ASSUME HolderInv, NoLostWakeup, NEW q \in Id, NEW r \in Resource,
         NEW st \in [Id -> Status], Ends(q, r, st), Holder(r) # q
  PROVE  Exclusive!End(q)
<1> USE DEF Ends
<1>1. status[q] # "leased" /\ block[r] = None
  BY HolderIs DEF HolderFacts
<1>2. st = status
  BY <1>1 DEF HolderInv, TypeOK
<1>3. block' = block
  BY <1>1 DEF HolderInv, TypeOK
<1>4. ASSUME NEW p \in Id, IsOldestWaiter(status, r, p) PROVE FALSE
  <2>1. HasStatus(status, r, "leased")
    BY <1>1, <1>4 DEF NoLostWakeup, HasStatus, IsOldestWaiter
  <2>2. PICK n \in Id : resource[n] = r /\ status[n] = "leased"
    BY <2>1 DEF HasStatus
  <2>3. status'[n] = "leased" /\ status'[p] = "leased"
    BY <1>1, <1>2, <1>3, <1>4, <2>2 DEF Promote, IsOldestWaiter
  <2> QED BY <1>4, <2>2, <2>3 DEF LeaseIndex, IsOldestWaiter
<1>5. status' = status
  BY <1>2, <1>4 DEF Promote, HolderInv, TypeOK
<1>6. NewUsers(status') = {}
  BY <1>5 DEF NewUsers
<1>7. occupied' = occupied \ {q}
  BY <1>6
<1> QED BY <1>3, <1>5, <1>7, UseChanges

\* What is left are steps that move neither a lease nor a block.
MovesUse ==
  /\ UNCHANGED <<status, resource, block>>
  /\ \/ occupied' = occupied
     \/ \E q \in Id : occupied' = occupied \ {q}
     \/ \E q \in Id : status[q] = "leased" /\ occupied' = occupied \cup {q}

LEMMA StepShapes ==
  ASSUME ~FinishMayFail \/ ~ResolveRunning, HolderInv, [Next]_vars
  PROVE  \/ \E q \in Id, o \in Owner, r \in Resource, a \in Activation, j \in BOOLEAN :
              Acquire(q, o, r, a, j)
         \/ \E gone \in SUBSET Id : Blocks(gone)
         \/ \E q \in Id, r \in Resource, st \in [Id -> Status] : Ends(q, r, st)
         \/ MovesUse
<1>1. ASSUME NEW q \in Id, Settles(q) PROVE MovesUse
  BY <1>1 DEF Settles, MovesUse
<1>2. ASSUME ServiceStep \/ UNCHANGED vars PROVE MovesUse
  BY <1>2, ServiceStepFrame DEF MovesUse, requestVars, vars
<1>3. ASSUME NEW q \in Id, ClaimJob(q) PROVE MovesUse
  BY <1>3 DEF ClaimJob, MovesUse, requestVars
<1>4. ASSUME NEW q \in Id, NEW c \in BOOLEAN, ExecutionEnds(q, c) PROVE MovesUse
  BY <1>4 DEF ExecutionEnds, MovesUse, requestVars
<1>5. ASSUME NEW q \in Id, FinishRaises(q) PROVE MovesUse
  BY <1>5 DEF FinishRaises, MovesUse, requestVars
<1> QED BY <1>1, <1>2, <1>3, <1>4, <1>5, ReleaseEnds, CancelShape, CancelOwnerBlocks,
           ExpireWaitingBlocks, ResolveEnds, FinishJobShape, AbandonJobShape,
           RecoverJobEnds DEF Next, RequestStep, JobStep

\* A request that was never made names no resource.
Unmade == \A q \in Id : status[q] = "unused" => resource[q] = None

LEMMA UnmadeStays ==
  ASSUME ~FinishMayFail \/ ~ResolveRunning, HolderInv, Unmade, [Next]_vars
  PROVE  Unmade'
<1>1. ASSUME NEW q \in Id, NEW o \in Owner, NEW r \in Resource,
             NEW a \in Activation, NEW j \in BOOLEAN, Acquire(q, o, r, a, j)
      PROVE  Unmade'
  BY <1>1 DEF Acquire, Unmade, HolderInv, TypeOK
<1>2. ASSUME NEW gone \in SUBSET Id, Blocks(gone) PROVE Unmade'
  BY <1>2 DEF Blocks, Unmade
<1>3. ASSUME NEW q \in Id, NEW r \in Resource, NEW st \in [Id -> Status],
             Ends(q, r, st)
      PROVE  Unmade'
  BY <1>3 DEF Ends, Promote, Unmade
<1>4. ASSUME MovesUse PROVE Unmade'
  BY <1>4 DEF MovesUse, Unmade
<1> QED BY <1>1, <1>2, <1>3, <1>4, StepShapes

LEMMA Arrives ==
  ASSUME HolderInv, HolderInv', Unmade,
         NEW q \in Id, NEW o \in Owner, NEW r \in Resource, NEW a \in Activation,
         NEW j \in BOOLEAN, Acquire(q, o, r, a, j)
  PROVE  Exclusive!Arrive(q, r)
<1> DEFINE W == {p \in Id : status[p] = "waiting"}
<1>1. /\ resource' = [resource EXCEPT ![q] = r] /\ block' = block
      /\ status' = [status EXCEPT ![q] = IF IsFree(r) THEN "leased" ELSE "waiting"]
      /\ status[q] = "unused" /\ resource[q] = None
      /\ \A p \in Id : p < q => resource[p] # None
  BY ConstantsAssumption DEF Acquire, Unmade, HolderInv, TypeOK
<1>2. Exclusive!Id = Id
  BY DEF Id, Exclusive!Id
<1>3. HolderFacts /\ HolderFacts'
  BY HolderIs, PTL
<1>4. /\ \A p \in Id : p # q => status'[p] = status[p] /\ resource'[p] = resource[p]
      /\ resource'[q] = r
      /\ status'[q] = IF IsFree(r) THEN "leased" ELSE "waiting"
  BY <1>1 DEF HolderInv, TypeOK
<1>5. ASSUME NEW x \in Resource, x # r \/ ~IsFree(r)
      PROVE  (Holder(x))' = Holder(x)
  <2>1. \A p \in Id : resource'[p] = x /\ status'[p] = "leased"
                      <=> resource[p] = x /\ status[p] = "leased"
    BY <1>1, <1>4, <1>5
  <2> QED BY <1>1, <2>1, SameHolder
<1>6. CASE IsFree(r)
  <2>1. Holder(r) = None
    BY <1>3, <1>6 DEF HolderFacts, IsFree
  <2>2. (Holder(r))' = q
    BY <1>3, <1>4, <1>6 DEF HolderFacts
  <2>3. [x \in Resource |-> Holder(x)]'
          = [[x \in Resource |-> Holder(x)] EXCEPT ![r] = q]
    BY <1>5, <2>2
  <2>4. {p \in Id : status'[p] = "waiting"} = W
    BY <1>1, <1>4, <1>6
  <2>5. occupied' \in {occupied, occupied \cup {q}}
    BY <1>6 DEF Acquire
  <2>6. [x \in Resource |-> Holder(x)][r] = None
    BY <2>1
  <2> QED BY <1>1, <1>2, <2>3, <2>4, <2>5, <2>6 DEF Exclusive!Arrive
<1>7. CASE ~IsFree(r)
  <2>1. Holder(r) # None
    BY <1>3, <1>7 DEF HolderFacts, IsFree
  <2>2. [x \in Resource |-> Holder(x)]' = [x \in Resource |-> Holder(x)]
    BY <1>5, <1>7
  <2>3. {p \in Id : status'[p] = "waiting"} = W \cup {q}
    BY <1>1, <1>4, <1>7
  <2>4. occupied' = occupied
    BY <1>7 DEF Acquire
  <2>5. [x \in Resource |-> Holder(x)][r] # None
    BY <2>1
  <2> QED BY <1>1, <1>2, <2>2, <2>3, <2>4, <2>5 DEF Exclusive!Arrive
<1> QED BY <1>6, <1>7

LEMMA Uses ==
  ASSUME HolderInv, MovesUse
  PROVE  Exclusive!Next \/ UNCHANGED Exclusive!vars
<1>1. Exclusive!Id = Id
  BY DEF Id, Exclusive!Id
<1>2. CASE occupied' = occupied
  BY <1>2, UseChanges DEF MovesUse
<1>3. ASSUME NEW q \in Id, occupied' = occupied \ {q}
      PROVE  Exclusive!Next
  <2>1. Exclusive!End(q)
    BY <1>3, UseChanges DEF MovesUse
  <2> QED BY <1>1, <2>1 DEF Exclusive!Next
<1>4. ASSUME NEW q \in Id, status[q] = "leased", occupied' = occupied \cup {q}
      PROVE  Exclusive!Next
  <2>1. resource[q] \in Resource /\ Holder(resource[q]) = q
    BY <1>4, HolderIs DEF HolderFacts, HolderInv, TypeOK
  <2>2. [x \in Resource |-> Holder(x)][resource[q]] = q
    BY <2>1
  <2>3. Exclusive!Begin(q)
    BY <1>4, <2>1, <2>2, UseChanges DEF MovesUse, Exclusive!Begin
  <2> QED BY <1>1, <2>3 DEF Exclusive!Next
<1> QED BY <1>2, <1>3, <1>4 DEF MovesUse

\* The queue implements the hand-over of exclusive resources in arrival order:
\* the initial states map to initial states and every step of every operation,
\* job and dispatcher maps to an abstract step or to a stutter.
THEOREM QueueImplementsExclusive ==
  ASSUME ~FinishMayFail \/ ~ResolveRunning
  PROVE  Spec => ImplementsExclusive
<1>1. Init => Unmade
  BY DEF Init, Unmade
<1>2. ASSUME HolderInv, Unmade, [Next]_vars PROVE Unmade'
  BY <1>2, UnmadeStays
<1>3. ASSUME HolderInv, HolderInv', NoLostWakeup, Unmade, [Next]_vars
      PROVE  Exclusive!Next \/ UNCHANGED Exclusive!vars
  <2>1. Exclusive!Id = Id
    BY DEF Id, Exclusive!Id
  <2>2. ASSUME NEW q \in Id, NEW o \in Owner, NEW r \in Resource,
               NEW a \in Activation, NEW j \in BOOLEAN, Acquire(q, o, r, a, j)
        PROVE  Exclusive!Next
    <3>1. Exclusive!Arrive(q, r)
      BY <1>3, <2>2, Arrives
    <3> QED BY <2>1, <3>1 DEF Exclusive!Next
  <2>3. ASSUME NEW q \in Id, NEW r \in Resource, NEW st \in [Id -> Status],
               Ends(q, r, st)
        PROVE  Exclusive!Next
    <3>1. CASE Holder(r) = q
      <4>1. \E n \in Id \cup {None} : Exclusive!HandOver(r, n)
        BY <1>3, <2>3, <3>1, HandsOver
      <4> QED BY <2>1, <4>1 DEF Exclusive!Next
    <3>2. CASE Holder(r) # q
      <4>1. Exclusive!End(q)
        BY <1>3, <2>3, <3>2, EndsNothing
      <4> QED BY <2>1, <4>1 DEF Exclusive!Next
    <3> QED BY <3>1, <3>2
  <2> QED BY <1>3, <2>2, <2>3, StepShapes, Withdraws, Uses
<1> QED BY <1>1, <1>2, <1>3, RefinesInit, HolderInvariant, NoLostWakeupHolds, PTL
        DEF Spec, ImplementsExclusive, Exclusive!Spec
=============================================================================
