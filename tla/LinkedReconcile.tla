--------------------------- MODULE LinkedReconcile ---------------------------
(***************************************************************************)
(* What a scan of Orca's worktrees does to workflows and to the resource   *)
(* queue (packages/core/.../reconcile.py).  Every workflow command begins  *)
(* with a scan: it lists the worktrees outside of any transaction and then *)
(* applies what it has seen in one, so the worktrees and the workflows may *)
(* have changed in between, and several scans may be under way.            *)
(*                                                                         *)
(* An owner of ResourceQueue is a workflow here, with one worktree, which  *)
(* carries the workflow's marker in its comment.                           *)
(***************************************************************************)
EXTENDS ResourceQueue

CONSTANTS
  Scanner,      \* commands that scan
  After,        \* the roles that depend on a workflow, on others through them
  MissingLimit  \* reconcile.missing_observations

ASSUME ScanAssumption ==
  /\ After \in [Owner -> SUBSET Owner]
  /\ \A v, w \in Owner : w \in After[v] => After[w] \subseteq After[v]
  /\ MissingLimit \in Nat \ {0}

VARIABLES
  step,     \* workflows.status
  linked,   \* adapter_reference set, external_reconciled_at not: "managed"
  tree,     \* the worktree in Orca: not made yet, there, or gone
  missing,  \* worktrees.missing_observations, no further than MissingLimit
  grace,    \* missing_grace_seconds have passed since first_missing_at
  scan      \* what a scanner has listed and not yet applied

linkVars == <<step, linked, tree, missing, grace, scan>>
allVars == <<vars, linkVars>>

Scans == [seen : SUBSET Owner, complete : BOOLEAN, counted : SUBSET Owner]

LinkTypeOK ==
  /\ step \in [Owner -> {"requested", "starting", "running", "cancelled"}]
  /\ linked \in [Owner -> BOOLEAN]
  /\ tree \in [Owner -> {"none", "there", "gone"}]
  /\ missing \in [Owner -> 0 .. MissingLimit]
  /\ grace \in [Owner -> BOOLEAN]
  /\ scan \in [Scanner -> Scans \cup {None}]
  /\ \A w \in Owner : (linked[w] \/ missing[w] > 0 => tree[w] # "none")
                      /\ (grace[w] => missing[w] > 0)

LinkInit ==
  /\ Init
  /\ step = [w \in Owner |-> "requested"]
  /\ linked = [w \in Owner |-> FALSE]
  /\ tree = [w \in Owner |-> "none"]
  /\ missing = [w \in Owner |-> 0]
  /\ grace = [w \in Owner |-> FALSE]
  /\ scan = [s \in Scanner |-> None]

-----------------------------------------------------------------------------
(* A workflow and its worktree.  What can go wrong between these steps is   *)
(* in WorkflowLifecycle; a start that dies takes no further step here.      *)

StartStep(w) ==
  /\ step[w] = "requested" /\ \A v \in Owner : w \notin After[v]
  /\ step' = [step EXCEPT ![w] = "starting"]
  /\ UNCHANGED <<vars, linked, tree, missing, grace, scan>>

CreateWorktree(w) ==
  /\ step[w] = "starting" /\ tree[w] = "none"
  /\ tree' = [tree EXCEPT ![w] = "there"]
  /\ UNCHANGED <<vars, step, linked, missing, grace, scan>>

\* attach_external, which does not ask Orca whether the worktree is still there
AttachStep(w) ==
  /\ step[w] = "starting" /\ tree[w] # "none"
  /\ linked' = [linked EXCEPT ![w] = TRUE]
  /\ UNCHANGED <<vars, step, tree, missing, grace, scan>>

RunStep(w) ==
  /\ step[w] = "starting" /\ linked[w]
  /\ step' = [step EXCEPT ![w] = "running"]
  /\ UNCHANGED <<vars, linked, tree, missing, grace, scan>>

\* Somebody removes the worktree in Orca.
RemoveWorktree(w) ==
  /\ tree[w] = "there" /\ tree' = [tree EXCEPT ![w] = "gone"]
  /\ UNCHANGED <<vars, step, linked, missing, grace, scan>>

-----------------------------------------------------------------------------
(* The scan. *)

\* list_worktrees.  A truncated list shows some worktrees; a complete one shows
\* all, but those on excluded paths are kept only if they are managed.
Observe(s, complete) ==
  LET there == {w \in Owner : tree[w] = "there"}
  IN /\ scan[s] = None
     /\ \E seen \in SUBSET there :
          /\ complete => \A w \in there : linked[w] => w \in seen
          /\ scan' = [scan EXCEPT ![s] =
                        [seen |-> seen, complete |-> complete,
                         counted |-> {w \in Owner : missing[w] > 0}]]
     /\ UNCHANGED <<vars, step, linked, tree, missing, grace>>

\* A listing takes less time than missing_grace_seconds: a scan that was under
\* way when a worktree was first counted as missing is over when they are.
GracePasses(w) ==
  /\ missing[w] > 0 /\ ~grace[w]
  /\ \A s \in Scanner : scan[s] # None => w \in scan[s].counted
  /\ grace' = [grace EXCEPT ![w] = TRUE]
  /\ UNCHANGED <<vars, step, linked, tree, missing, scan>>

\* A marker brings back the worktree of a start that died before it was
\* attached.
Recoverable(w) == step[w] = "starting" /\ ~linked[w]

\* Mutant: whatever is not in the list counts, managed or not.
Unfinished(w) == step[w] \in {"starting", "running"}

\* Only managed worktrees are missed.
Managed(w) == linked[w]

\* Mutant: the count is not carried from scan to scan.
CountedOnce(w) == 1

\* missing_observations + 1, as far as it matters
Counted(w) == IF missing[w] < MissingLimit THEN missing[w] + 1 ELSE missing[w]

\* Mutant: scans are counted, however fast they follow each other.
NoGrace(w) == TRUE

Overdue(w) == grace[w]

\* Mutant: only the workflows themselves leave the queue.
ScanCancelsOnly(doomed) == {q \in Id : Active(q) /\ owner[q] \in doomed}

\* _cancel_queue_owner, for each doomed workflow and each that depends on it
ScanCancels(doomed) ==
  {q \in Id : Active(q) /\ owner[q] \in doomed \cup UNION {After[w] : w \in doomed}}

\* Where a lease ended, the oldest waiter gets the next one: no block is set and
\* none is looked for.
ScanPromotes(gone) ==
  LET st == [q \in Id |-> IF q \in gone THEN "cancelled" ELSE status[q]]
      freed == {resource[q] : q \in {p \in gone : status[p] = "leased"}}
  IN [q \in Id |-> IF resource[q] \in freed /\ IsOldestWaiter(st, resource[q], q)
                   THEN "leased" ELSE st[q]]

\* apply_orca_scan, one transaction.  The rows of jobs are not touched.
ApplyScan(s) ==
  LET seen == scan[s].seen
      recovered == {w \in seen : Recoverable(w)}
      absent == {w \in Owner : Managed(w) /\ scan[s].complete /\ w \notin seen}
      doomed == {w \in absent : /\ step[w] \in {"starting", "running"}
                                /\ Counted(w) >= MissingLimit /\ Overdue(w)}
      followers == {v \in UNION {After[w] : w \in doomed} : step[v] = "requested"}
  IN /\ scan[s] # None /\ scan' = [scan EXCEPT ![s] = None]
     /\ missing' = [w \in Owner |-> IF w \in seen THEN 0
                                    ELSE IF w \in absent THEN Counted(w) ELSE missing[w]]
     /\ grace' = [w \in Owner |-> grace[w] /\ w \notin seen]
     /\ linked' = [w \in Owner |-> (linked[w] \/ w \in recovered) /\ w \notin doomed]
     /\ step' = [w \in Owner |-> IF w \in doomed \cup followers THEN "cancelled" ELSE step[w]]
     /\ status' = ScanPromotes(ScanCancels(doomed))
     /\ LeaseIndex(status')
     /\ occupied' = occupied \cup NewUsers(status')
     /\ UNCHANGED <<resource, owner, activation, job, block, serviceVars, mishaps, tree>>

-----------------------------------------------------------------------------

LinkStep ==
  \/ \E w \in Owner : StartStep(w) \/ CreateWorktree(w) \/ AttachStep(w) \/ RunStep(w)
  \/ \E w \in Owner : RemoveWorktree(w) \/ GracePasses(w)
  \/ \E s \in Scanner, complete \in BOOLEAN : Observe(s, complete)
  \/ \E s \in Scanner : ApplyScan(s)

QueueStep == Next /\ UNCHANGED linkVars

LinkNext == LinkStep \/ QueueStep

LinkSpec == LinkInit /\ [][LinkNext]_allVars

-----------------------------------------------------------------------------
(* Properties. *)

\* A scan cancels a workflow that is under way only if its worktree is gone, even
\* when what the scan has seen is older than the worktree: two scans must miss
\* it, the first of them a grace period ago (apply_orca_scan).
UnderWayIsKept ==
  \A w \in Owner : step[w] \in {"starting", "running"} /\ step'[w] = "cancelled"
                   => tree[w] = "gone"

OnlyTheGoneAreCancelled == [][UnderWayIsKept]_allVars

\* A cancellation by a scan is whole: with the status, in the same transaction,
\* the requests of the workflow leave the queue and so do all the roles behind it
\* that have not started, with theirs.
WithAllItHolds ==
  \A w \in Owner : step[w] # "cancelled" /\ step'[w] = "cancelled" =>
    /\ \A q \in Id : owner[q] = w => status'[q] \notin {"waiting", "leased"}
    /\ \A v \in After[w] : step'[v] # "requested"

CancellationIsWhole == [][WithAllItHolds]_allVars

\* Every command scans, scans that have listed go on, and now and then a list is
\* complete.
ScanFairness ==
  /\ \A s \in Scanner : WF_allVars(ApplyScan(s)) /\ SF_allVars(Observe(s, TRUE))
  /\ \A w \in Owner : WF_allVars(GracePasses(w))

FairLinkSpec == LinkSpec /\ ScanFairness

\* A workflow whose worktree is gone is cancelled in the end, however many scans
\* were truncated, stale or under way at the same time.
GoneIsCancelled ==
  \A w \in Owner : linked[w] /\ tree[w] = "gone" ~> step[w] = "cancelled"
=============================================================================
