------------------------ MODULE LinkedReconcileProofs ------------------------
(***************************************************************************)
(* Theorems about LinkedReconcile for every number of scanners, every plan *)
(* and every number of observations.                                       *)
(***************************************************************************)
EXTENDS LinkedReconcile, ResourceQueueProofs

-----------------------------------------------------------------------------
(* What a scan does to the queue. *)

LEMMA ScanCancelsIds ==
  ASSUME NEW doomed PROVE ScanCancels(doomed) \in SUBSET Id
BY DEF ScanCancels

\* What leaves the queue stays out; of the rest, only waiters change, and they
\* are granted.
LEMMA ScanPromotesFrame ==
  ASSUME TypeOK, NEW gone \in SUBSET Id
  PROVE  /\ ScanPromotes(gone) \in [Id -> Status]
         /\ \A q \in gone : ScanPromotes(gone)[q] = "cancelled"
         /\ \A q \in Id \ gone :
              \/ ScanPromotes(gone)[q] = status[q]
              \/ status[q] = "waiting" /\ ScanPromotes(gone)[q] = "leased"
BY DEF TypeOK, ScanPromotes, IsOldestWaiter, Status

\* A resource on which a lease ended and somebody still waits has a new lease.
LEMMA ScanPromotesGrants ==
  ASSUME TypeOK, NEW gone \in SUBSET Id, NEW p \in gone, status[p] = "leased",
         NEW q \in Id \ gone, status[q] = "waiting", resource[q] = resource[p]
  PROVE  HasStatus(ScanPromotes(gone), resource[p], "leased")
<1> DEFINE st == [i \in Id |-> IF i \in gone THEN "cancelled" ELSE status[i]]
           W == {i \in Id : resource[i] = resource[p] /\ st[i] = "waiting"}
<1>1. PICK m \in W : \A n \in W : m <= n
  <2>1. W \in SUBSET Id /\ q \in W
    OBVIOUS
  <2> HIDE DEF W
  <2> QED BY <2>1, OldestExists
<1>2. IsOldestWaiter(st, resource[p], m) /\ resource[m] = resource[p] /\ m \in Id
  BY <1>1 DEF IsOldestWaiter
<1>3. ScanPromotes(gone)[m] = "leased"
  BY <1>2 DEF ScanPromotes
<1> QED BY <1>2, <1>3 DEF HasStatus

-----------------------------------------------------------------------------
(* The inductive invariant.  What a scan has seen is old when it is applied, so *)
(* the invariant says what it still proves then: a worktree that was counted as *)
(* missing before the listing, and is not in a complete list, is gone; and when *)
(* the grace period is over, every scan under way was listed after that count.  *)

ScanInv ==
  /\ \A w \in Owner : missing[w] > 0 /\ ~linked[w] => tree[w] = "gone"
  /\ \A w \in Owner : grace[w] => \A s \in Scanner : scan[s] # None => w \in scan[s].counted
  /\ \A s \in Scanner : scan[s] # None =>
       /\ \A w \in scan[s].seen : tree[w] # "none"
       /\ \A w \in scan[s].counted \ scan[s].seen : scan[s].complete => tree[w] = "gone"

LinkInv == TypeOK /\ LinkTypeOK /\ ScanInv

\* A record with the fields of a scan is not None.
LEMMA ScanIsRecord == \A s \in Scanner : LinkTypeOK /\ scan[s] # None => scan[s] \in Scans
BY DEF LinkTypeOK

LEMMA LinkInvInit == LinkInit => LinkInv
<1> SUFFICES ASSUME LinkInit PROVE LinkInv
  OBVIOUS
<1>1. TypeOK
  BY TypeInit DEF LinkInit
<1>2. LinkTypeOK
  BY ScanAssumption DEF LinkInit, LinkTypeOK
<1>3. ScanInv
  BY DEF LinkInit, ScanInv
<1> QED BY <1>1, <1>2, <1>3 DEF LinkInv

\* Steps of the workflow or of Orca, and the listing of a scan, leave the queue
\* alone.
LEMMA LinkStepFrame ==
  LinkStep => UNCHANGED vars \/ \E s \in Scanner : ApplyScan(s)
BY DEF LinkStep, StartStep, CreateWorktree, AttachStep, RunStep, RemoveWorktree,
       GracePasses, Observe

\* Who is cancelled by a scan has lost its worktree, however old the scan is.
LEMMA DoomedIsGone ==
  ASSUME LinkInv, NEW s \in Scanner, scan[s] # None, NEW w \in Owner,
         scan[s].complete, w \notin scan[s].seen, grace[w]
  PROVE  tree[w] = "gone"
BY DEF LinkInv, ScanInv

LEMMA ScanKeepsType ==
  ASSUME LinkInv, NEW s \in Scanner, ApplyScan(s)
  PROVE  TypeOK' /\ LinkTypeOK'
<1> USE DEF LinkInv
<1>1. TypeOK'
  <2>1. status' \in [Id -> Status]
    BY ScanPromotesFrame, ScanCancelsIds DEF ApplyScan
  <2>2. \A q \in Id : status'[q] # "unused" => resource'[q] \in Resource
    BY ScanPromotesFrame, ScanCancelsIds DEF ApplyScan, TypeOK, ScanCancels, Active
  <2>3. occupied' \in SUBSET Id
    BY DEF ApplyScan, TypeOK, NewUsers
  <2> QED BY <2>1, <2>2, <2>3 DEF ApplyScan, TypeOK, serviceVars
<1>2. LinkTypeOK'
  <2>1. step' \in [Owner -> {"requested", "starting", "running", "cancelled"}]
    BY DEF ApplyScan, LinkTypeOK
  <2>2. missing' \in [Owner -> 0 .. MissingLimit]
    BY ScanAssumption DEF ApplyScan, LinkTypeOK, Counted
  <2>3. linked' \in [Owner -> BOOLEAN] /\ grace' \in [Owner -> BOOLEAN]
    BY Zenon DEF ApplyScan, LinkTypeOK
  <2>4. scan' \in [Scanner -> Scans \cup {None}] /\ tree' = tree
    BY DEF ApplyScan, LinkTypeOK
  <2>5. ASSUME NEW w \in Owner, linked'[w] \/ missing'[w] > 0
        PROVE  tree'[w] # "none"
    <3>1. w \in scan[s].seen \/ linked[w] \/ missing[w] > 0
      BY <2>5 DEF ApplyScan, Managed
    <3> QED BY <3>1 DEF ApplyScan, LinkTypeOK, ScanInv
  <2>6. ASSUME NEW w \in Owner, grace'[w]
        PROVE  missing'[w] > 0
    <3>1. grace[w] /\ w \notin scan[s].seen
      BY <2>6, Zenon DEF ApplyScan
    <3>2. missing[w] \in Nat /\ missing[w] > 0
      BY <3>1, ScanAssumption DEF LinkTypeOK
    <3> QED BY <3>1, <3>2, ScanAssumption DEF ApplyScan, Counted
  <2> QED BY <2>1, <2>2, <2>3, <2>4, <2>5, <2>6 DEF LinkTypeOK
<1> QED BY <1>1, <1>2

LEMMA ScanKeepsScanInv ==
  ASSUME LinkInv, NEW s \in Scanner, ApplyScan(s)
  PROVE  ScanInv'
<1> USE DEF LinkInv
<1>1. tree' = tree /\ scan' = [scan EXCEPT ![s] = None] /\ scan[s] # None
  BY DEF ApplyScan
<1>2. ASSUME NEW w \in Owner, missing'[w] > 0, ~(linked'[w])
      PROVE  tree'[w] = "gone"
  <2>1. w \notin scan[s].seen
    BY <1>2 DEF ApplyScan
  <2>2. CASE linked[w]
    <3>1. scan[s].complete /\ grace[w]
      BY <1>2, <2>2, Zenon DEF ApplyScan, Overdue
    <3> QED BY <1>1, <2>1, <3>1, DoomedIsGone
  <2>3. CASE ~linked[w]
    <3>1. missing[w] > 0
      BY <1>2, <2>1, <2>3 DEF ApplyScan, Managed
    <3> QED BY <1>1, <2>3, <3>1 DEF ScanInv
  <2> QED BY <2>2, <2>3
<1>3. ASSUME NEW w \in Owner, grace'[w], NEW t \in Scanner, scan'[t] # None
      PROVE  w \in scan'[t].counted
  <2>1. grace[w]
    BY <1>3, Zenon DEF ApplyScan
  <2>2. scan'[t] = scan[t]
    BY <1>1, <1>3 DEF LinkTypeOK
  <2> QED BY <1>3, <2>1, <2>2 DEF ScanInv
<1>4. ASSUME NEW t \in Scanner, scan'[t] # None
      PROVE  /\ \A w \in scan'[t].seen : tree'[w] # "none"
             /\ \A w \in scan'[t].counted \ scan'[t].seen :
                  scan'[t].complete => tree'[w] = "gone"
  <2>1. scan'[t] = scan[t]
    BY <1>1, <1>4 DEF LinkTypeOK
  <2> QED BY <1>1, <1>4, <2>1 DEF ScanInv
<1> QED BY <1>2, <1>3, <1>4 DEF ScanInv

LEMMA LinkStepKeepsInv ==
  ASSUME LinkInv, LinkStep PROVE LinkInv'
<1> USE DEF LinkInv
<1>1. ASSUME NEW s \in Scanner, ApplyScan(s) PROVE LinkInv'
  BY <1>1, ScanKeepsType, ScanKeepsScanInv
<1>2. ASSUME UNCHANGED vars PROVE TypeOK'
  BY <1>2 DEF TypeOK, vars
<1>3. ASSUME NEW w \in Owner, StartStep(w) \/ RunStep(w) PROVE LinkInv'
  <2>1. LinkTypeOK'
    BY <1>3 DEF StartStep, RunStep, LinkTypeOK
  <2>2. ScanInv'
    BY <1>3 DEF StartStep, RunStep, ScanInv
  <2> QED BY <1>2, <1>3, <2>1, <2>2 DEF StartStep, RunStep
<1>4. ASSUME NEW w \in Owner, CreateWorktree(w) \/ RemoveWorktree(w) PROVE LinkInv'
  <2>1. LinkTypeOK'
    BY <1>4 DEF CreateWorktree, RemoveWorktree, LinkTypeOK
  <2>2. \A v \in Owner : tree[v] # "none" => tree'[v] # "none"
    BY <1>4 DEF CreateWorktree, RemoveWorktree, LinkTypeOK
  <2>3. \A v \in Owner : tree[v] = "gone" => tree'[v] = "gone"
    BY <1>4 DEF CreateWorktree, RemoveWorktree, LinkTypeOK
  <2>4. UNCHANGED <<linked, missing, grace, scan>>
    BY <1>4 DEF CreateWorktree, RemoveWorktree
  <2>5. \A s \in Scanner : scan[s] # None =>
          scan[s].seen \subseteq Owner /\ scan[s].counted \subseteq Owner
    BY DEF LinkTypeOK, Scans
  <2>6. ScanInv'
    BY <2>2, <2>3, <2>4, <2>5 DEF ScanInv
  <2> QED BY <1>2, <1>4, <2>1, <2>6 DEF CreateWorktree, RemoveWorktree
<1>5. ASSUME NEW w \in Owner, AttachStep(w) PROVE LinkInv'
  <2>1. LinkTypeOK'
    BY <1>5 DEF AttachStep, LinkTypeOK
  <2>2. ScanInv'
    BY <1>5 DEF AttachStep, LinkTypeOK, ScanInv
  <2> QED BY <1>2, <1>5, <2>1, <2>2 DEF AttachStep
<1>6. ASSUME NEW w \in Owner, GracePasses(w) PROVE LinkInv'
  <2>1. LinkTypeOK'
    BY <1>6 DEF GracePasses, LinkTypeOK
  <2>2. ScanInv'
    BY <1>6 DEF GracePasses, LinkTypeOK, ScanInv
  <2> QED BY <1>2, <1>6, <2>1, <2>2 DEF GracePasses
<1>7. ASSUME NEW s \in Scanner, NEW complete \in BOOLEAN, Observe(s, complete)
      PROVE  LinkInv'
  <2> DEFINE there == {w \in Owner : tree[w] = "there"}
             counted == {w \in Owner : missing[w] > 0}
  <2>1. PICK seen \in SUBSET there :
          /\ complete => \A w \in there : linked[w] => w \in seen
          /\ scan' = [scan EXCEPT ![s] =
                        [seen |-> seen, complete |-> complete, counted |-> counted]]
    BY <1>7 DEF Observe
  <2>2. UNCHANGED <<vars, step, linked, tree, missing, grace>>
    BY <1>7 DEF Observe
  <2>3. LinkTypeOK'
    BY <2>1, <2>2 DEF LinkTypeOK, Scans
  <2>4. scan'[s].seen = seen /\ scan'[s].complete = complete /\ scan'[s].counted = counted
    BY <2>1 DEF LinkTypeOK
  <2>5. \A t \in Scanner : t # s => scan'[t] = scan[t]
    BY <2>1 DEF LinkTypeOK
  <2>6. \A w \in Owner : grace[w] => missing[w] > 0
    BY DEF LinkTypeOK
  <2>7. ASSUME NEW w \in counted \ seen, complete PROVE tree[w] = "gone"
    BY <2>1, <2>7 DEF LinkTypeOK, ScanInv
  <2>8. ScanInv'
    BY <2>2, <2>4, <2>5, <2>6, <2>7 DEF ScanInv
  <2> QED BY <1>2, <2>2, <2>3, <2>8
<1> QED BY <1>1, <1>3, <1>4, <1>5, <1>6, <1>7 DEF LinkStep

LEMMA LinkInvNext == LinkInv /\ [LinkNext]_allVars => LinkInv'
<1> SUFFICES ASSUME LinkInv, [LinkNext]_allVars PROVE LinkInv'
  OBVIOUS
<1>1. CASE LinkStep
  BY <1>1, LinkStepKeepsInv
<1>2. ASSUME [Next]_vars, UNCHANGED linkVars PROVE LinkInv'
  <2>1. TypeOK'
    BY <1>2, TypeNext DEF LinkInv
  <2>2. LinkTypeOK' /\ ScanInv'
    BY <1>2 DEF LinkInv, LinkTypeOK, ScanInv, linkVars
  <2> QED BY <2>1, <2>2 DEF LinkInv
<1> QED BY <1>1, <1>2 DEF LinkNext, QueueStep, allVars

\* Types are right, for the queue and for the workflows, worktrees and scans.
THEOREM LinkTypeCorrect == LinkSpec => [](TypeOK /\ LinkTypeOK)
<1>1. LinkInv => TypeOK /\ LinkTypeOK
  BY DEF LinkInv
<1> QED BY <1>1, LinkInvInit, LinkInvNext, PTL DEF LinkSpec

-----------------------------------------------------------------------------
(* Cancellation. *)

\* Only a scan cancels a workflow.
LEMMA OnlyScansCancel ==
  ASSUME LinkInv, [LinkNext]_allVars,
         NEW w \in Owner, step[w] # "cancelled", step'[w] = "cancelled"
  PROVE  \E s \in Scanner : ApplyScan(s)
<1>1. ~(UNCHANGED step)
  OBVIOUS
<1>2. LinkStep
  BY <1>1 DEF LinkNext, QueueStep, allVars, linkVars
<1>3. ASSUME NEW v \in Owner, StartStep(v) \/ RunStep(v) PROVE FALSE
  BY <1>3 DEF StartStep, RunStep, LinkInv, LinkTypeOK
<1> QED BY <1>1, <1>2, <1>3 DEF LinkStep, CreateWorktree, AttachStep, RemoveWorktree,
                               GracePasses, Observe

\* A scan cancels a workflow that is under way only if its worktree is gone: a
\* stale list cannot outlive the grace period (apply_orca_scan).
THEOREM OnlyTheGoneAreCancelledHolds == LinkSpec => OnlyTheGoneAreCancelled
<1>1. ASSUME LinkInv, [LinkNext]_allVars PROVE UnderWayIsKept
  <2> SUFFICES ASSUME NEW w \in Owner, step[w] \in {"starting", "running"},
                      step'[w] = "cancelled"
               PROVE  tree[w] = "gone"
    BY DEF UnderWayIsKept
  <2>1. PICK s \in Scanner : ApplyScan(s)
    BY <1>1, OnlyScansCancel
  <2>2. scan[s] # None /\ scan[s].complete /\ w \notin scan[s].seen /\ grace[w]
    BY <2>1, Zenon DEF ApplyScan, Overdue
  <2> QED BY <1>1, <2>2, DoomedIsGone
<1>2. LinkInv /\ [LinkNext]_allVars => [UnderWayIsKept]_allVars
  BY <1>1
<1> QED BY <1>2, LinkInvInit, LinkInvNext, PTL DEF LinkSpec, OnlyTheGoneAreCancelled

\* With a workflow, all it has in the queue and all the roles behind it are
\* cancelled in the same transaction (apply_orca_scan, _cancel_queue_owner).
THEOREM CancellationIsWholeHolds == LinkSpec => CancellationIsWhole
<1>1. ASSUME LinkInv, [LinkNext]_allVars PROVE WithAllItHolds
  <2> SUFFICES ASSUME NEW w \in Owner, step[w] # "cancelled", step'[w] = "cancelled"
               PROVE  /\ \A q \in Id : owner[q] = w => status'[q] \notin {"waiting", "leased"}
                      /\ \A v \in After[w] : step'[v] # "requested"
    BY DEF WithAllItHolds
  <2>1. PICK s \in Scanner : ApplyScan(s)
    BY <1>1, OnlyScansCancel
  <2> DEFINE doomed == {v \in Owner : /\ Managed(v) /\ scan[s].complete
                                      /\ v \notin scan[s].seen
                                      /\ step[v] \in {"starting", "running"}
                                      /\ Counted(v) >= MissingLimit /\ Overdue(v)}
             behind == UNION {After[v] : v \in doomed}
             gone == ScanCancels(doomed)
  <2>2. /\ status' = ScanPromotes(gone)
        /\ step' = [v \in Owner |->
             IF v \in doomed \cup {u \in behind : step[u] = "requested"}
             THEN "cancelled" ELSE step[v]]
    BY <2>1 DEF ApplyScan
  <2>3. doomed \subseteq Owner /\ behind \subseteq Owner
    BY ScanAssumption
  <2> HIDE DEF doomed
  <2>4. w \in doomed \cup behind
    BY <2>2
  <2>5. ASSUME NEW q \in Id, owner[q] = w
        PROVE  status'[q] \notin {"waiting", "leased"}
    <3>1. CASE q \in gone
      BY <1>1, <2>2, <3>1, ScanCancelsIds, ScanPromotesFrame DEF LinkInv
    <3>2. CASE q \notin gone
      <4>1. status[q] \notin {"waiting", "leased"}
        BY <2>4, <2>5, <3>2 DEF ScanCancels, Active
      <4> QED BY <1>1, <2>2, <3>2, <4>1, ScanCancelsIds, ScanPromotesFrame DEF LinkInv
    <3> QED BY <3>1, <3>2
  <2>6. ASSUME NEW v \in After[w] PROVE step'[v] # "requested"
    <3>1. v \in behind /\ v \in Owner
      BY <2>3, <2>4, ScanAssumption
    <3> QED BY <2>2, <3>1
  <2> QED BY <2>5, <2>6
<1>2. LinkInv /\ [LinkNext]_allVars => [WithAllItHolds]_allVars
  BY <1>1
<1> QED BY <1>2, LinkInvInit, LinkInvNext, PTL DEF LinkSpec, CancellationIsWhole

-----------------------------------------------------------------------------
(* Waiters. *)

LEMMA ScanKeepsWaiters ==
  ASSUME TypeOK, NoLostWakeup, NEW s \in Scanner, ApplyScan(s)
  PROVE  NoLostWakeup'
<1>1. PICK gone \in SUBSET Id : status' = ScanPromotes(gone)
  BY ScanCancelsIds DEF ApplyScan
<1>2. resource' = resource /\ block' = block
  BY DEF ApplyScan
<1> SUFFICES ASSUME NEW r \in Resource, NEW q \in Id, resource[q] = r,
                    status'[q] = "waiting", block[r] = None
             PROVE  HasStatus(status', r, "leased")
  BY <1>2 DEF NoLostWakeup, HasStatus
<1>3. q \notin gone /\ status[q] = "waiting"
  BY <1>1, ScanPromotesFrame
<1>4. PICK p \in Id : resource[p] = r /\ status[p] = "leased"
  BY <1>3 DEF NoLostWakeup, HasStatus
<1>5. CASE p \in gone
  BY <1>1, <1>3, <1>4, <1>5, ScanPromotesGrants
<1>6. CASE p \notin gone
  BY <1>1, <1>4, <1>6, ScanPromotesFrame DEF HasStatus
<1> QED BY <1>5, <1>6

\* With scans, too, nobody waits for a resource without a lease or a block whose
\* end promotes (_cancel_queue_owner of a scan).
THEOREM ScansStrandNobody == LinkSpec => []NoLostWakeup
<1>1. LinkInit => NoLostWakeup
  BY WakeupInit DEF LinkInit
<1>2. ASSUME TypeOK, NoLostWakeup, [LinkNext]_allVars PROVE NoLostWakeup'
  <2>1. ASSUME NEW s \in Scanner, ApplyScan(s) PROVE NoLostWakeup'
    BY <1>2, <2>1, ScanKeepsWaiters
  <2>2. ASSUME [Next]_vars PROVE NoLostWakeup'
    BY <1>2, <2>2, WakeupNext
  <2> QED BY <1>2, <2>1, <2>2, LinkStepFrame DEF LinkNext, QueueStep, allVars
<1> QED BY <1>1, <1>2, LinkTypeCorrect, PTL DEF LinkSpec
==============================================================================
