--------------------------- MODULE WorkflowLifecycle ---------------------------
(***************************************************************************)
(* The life of a workflow (packages/core/.../workflows.py) under the       *)
(* commands that start, finish, resume, clean up and retry it              *)
(* (packages/application/.../workflows.py).                                *)
(*                                                                         *)
(* Each command is a process of its own: a sequence of transactions with   *)
(* calls of Orca between them.  A lifecycle operation, a row in the        *)
(* database, claims the outcome before Orca is called; whoever is slow, or *)
(* dies, may find it taken over.  Agents run in terminals; the terminal in *)
(* the workflow's row names its activation, and queue requests are bound   *)
(* to it (workflows.attempt is never incremented).  Of the queue only the  *)
(* active request of a workflow is kept; the rest is in ResourceQueue.     *)
(***************************************************************************)
EXTENDS Naturals, FiniteSets

CONSTANTS
  Workflow,    \* identifiers of workflows
  Single,      \* those of them in single mode
  Guest,       \* those in a worktree that existed before (start --attach-existing)
  After,       \* After[w]: the roles of the same plan that follow w
  Beside,      \* Beside[w]: the other reviewers of the plan, if w is one of several
  Proc,        \* command line processes
  Terminal,    \* Orca terminals an agent can be launched in
  None,
  Commands,    \* the commands that are run
  MaxMishaps   \* bound on crashes and on terminals Orca fails to close

ASSUME LifecycleAssumption ==
  /\ Single \subseteq Workflow /\ Guest \subseteq Workflow /\ After \in [Workflow -> SUBSET Workflow]
  /\ Beside \in [Workflow -> SUBSET Workflow]
  /\ \A w \in Workflow : w \notin After[w] \cup Beside[w]
  /\ None \notin Workflow \cup Terminal
  /\ MaxMishaps \in Nat

VARIABLES
  status,      \* workflows.status
  attached,    \* is workflows.adapter_reference set?
  terminal,    \* workflows.terminal_handle
  owned,       \* the handles of owned_terminals
  reconciled,  \* is workflows.external_reconciled_at set?
  unclean,     \* is workflows.cleanup_error set?
  op,          \* the row of workflow_lifecycle_operations
  request,     \* the activation whose queue request is waiting or leased
  alive,       \* the terminals that exist in Orca
  proc,        \* where a process is
  outdated,    \* time-outs whose workflow was resumed since they looked
  lost,        \* terminals nobody is to close any more: see NoAgentIsForgotten
  mishaps

rows == <<status, attached, terminal, owned, reconciled, unclean, op, request>>
world == <<alive, lost, mishaps>>
vars == <<rows, world, proc, outdated>>

Active == {"requested", "starting", "running"}
Ended == {"completed", "failed", "cancelled"}

NoOp == [kind |-> "none", target |-> "none", error |-> FALSE, old |-> FALSE]
Claim(kind, target) == [kind |-> kind, target |-> target, error |-> FALSE, old |-> FALSE]

Operation ==
  [kind : {"none", "activation", "terminal"}, target : Ended \cup {"none"},
   error : BOOLEAN, old : BOOLEAN]

\* A process: its place, its workflow, what it is about, the terminal it
\* created or read, and the terminal it expects to replace.
Idle == [at |-> "idle", on |-> None, goal |-> "none", handle |-> None, seen |-> None]

Places ==
  {"idle", "create", "attach", "claim", "activate", "activated", "undo", "close", "release",
   "fail", "successors", "cancel",
   "timing", "first", "early", "update", "complete", "tidy", "finalize", "shut",
   "mark", "launch", "replace", "discard", "remark",
   "shutCompleted", "takeOver", "closeStale", "releaseStale", "cancelStale",
   "retry", "maintain", "acquire", "recheck"}
Goals ==
  Ended \cup {"none", "timeout", "known", "unknown", "resume", "prompt", "release", "run"}

\* The columns of a row and the state of a process.
Types ==
  /\ status \in [Workflow -> Active \cup Ended]
  /\ attached \in [Workflow -> BOOLEAN] /\ reconciled \in [Workflow -> BOOLEAN]
  /\ unclean \in [Workflow -> BOOLEAN]
  /\ terminal \in [Workflow -> Terminal \cup {None}]
  /\ request \in [Workflow -> Terminal \cup {None}]
  /\ owned \in [Workflow -> SUBSET Terminal]
  /\ op \in [Workflow -> Operation]
  /\ alive \in SUBSET Terminal /\ lost \in SUBSET Terminal
  /\ proc \in [Proc -> [at : Places, on : Workflow \cup {None}, goal : Goals,
                        handle : Terminal \cup {None}, seen : Terminal \cup {None}]]
  /\ outdated \in SUBSET Proc
  /\ mishaps \in 0 .. MaxMishaps

\* A running row names what it has in Orca and so does one with an operation on
\* it, which the schema leaves to the transactions.
TypeOK ==
  /\ Types
  /\ \A w \in Workflow :
       /\ status[w] = "running" => attached[w] /\ terminal[w] # None
       /\ op[w].kind = "none" <=> op[w] = NoOp
       /\ op[w] # NoOp => attached[w]

Init ==
  /\ status = [w \in Workflow |-> "requested"]
  /\ attached = [w \in Workflow |-> FALSE]
  /\ terminal = [w \in Workflow |-> None]
  /\ owned = [w \in Workflow |-> {}]
  /\ reconciled = [w \in Workflow |-> FALSE]
  /\ unclean = [w \in Workflow |-> FALSE]
  /\ op = [w \in Workflow |-> NoOp]
  /\ request = [w \in Workflow |-> None]
  /\ alive = {} /\ lost = {}
  /\ proc = [p \in Proc |-> Idle]
  /\ outdated = {}
  /\ mishaps = 0

-----------------------------------------------------------------------------
(* Helpers of the commands. *)

At(p, place) == proc[p].at = place
Go(p, place) == proc' = [proc EXCEPT ![p].at = place]
Return(p) == proc' = [proc EXCEPT ![p] = Idle]

\* A command begins when a process has nothing else to do.
Begins(p, command, w, place, goal) ==
  /\ command \in Commands /\ At(p, "idle")
  /\ proc' = [proc EXCEPT ![p] = [at |-> place, on |-> w, goal |-> goal,
                                  handle |-> terminal[w], seen |-> terminal[w]]]

\* Handles are never used again.
Fresh(t) ==
  /\ t \notin alive \cup lost
  /\ \A w \in Workflow : t \notin owned[w] \cup {terminal[w], request[w]}
  /\ \A p \in Proc : t \notin {proc[p].handle, proc[p].seen}

\* Mutant: those of a workflow that is still active.
FollowersOfActive(w) == {v \in After[w] : status[v] = "requested" /\ status[w] \in Active}

\* The roles after w that have not started.
Followers(w) == {v \in After[w] : status[v] = "requested"}

\* The workflow w gets status s and its followers are cancelled.
WithFollowers(w, s) ==
  [v \in Workflow |-> IF v = w THEN s
                      ELSE IF v \in Followers(w) THEN "cancelled" ELSE status[v]]

\* The same by role: the roles behind that of w, which for a reviewer are those
\* of the other reviewers.
WithRoles(w, s) ==
  [v \in Workflow |-> IF v \in Beside[w] /\ status[v] = "requested" THEN "cancelled"
                      ELSE WithFollowers(w, s)[v]]

\* ResourceQueue.cancel_owner and _cancel_queue_owners: all active requests of
\* w, or those of the activation t.
Cancelled(w, t) == [request EXCEPT ![w] = IF @ = t THEN None ELSE @]
CancelledAll(w) == [request EXCEPT ![w] = None]

\* Refreshing activated_at makes what a time-out has seen outdated.
Outdated(w) == outdated \cup {p \in Proc : proc[p].on = w /\ proc[p].goal = "timeout"}

\* owned_terminal_handles of the activation that runs now.
OwnedHandles(w) == owned[w] \cap {terminal[w]}

\* Orca closes the terminals of a set, or fails to close some of them.
Closes(H) == alive' = alive \ H /\ UNCHANGED <<lost, mishaps>>
FailsToClose(H) ==
  /\ mishaps < MaxMishaps /\ mishaps' = mishaps + 1
  /\ \E some \in SUBSET (H \cap alive) : some # {} /\ alive' = (alive \ H) \cup some

-----------------------------------------------------------------------------
(* start_existing. *)

BeginStart(p, w) ==
  /\ status[w] = "requested" /\ status' = [status EXCEPT ![w] = "starting"]
  /\ \A v \in Workflow : w \in After[v] => status[v] = "completed"
  /\ Begins(p, "start", w, "create", "unknown")
  /\ UNCHANGED <<attached, terminal, owned, reconciled, unclean, op, request, world, outdated>>

\* create_external: a worktree and an agent in it.  An error may still tell
\* the worktree, the terminal, both or neither.
CreateExternal(p) ==
  /\ At(p, "create")
  /\ \E t \in Terminal \cup {None}, place \in {"attach", "undo"}, goal \in {"known", "unknown"} :
       /\ place = "attach" => t # None /\ goal = "known"
       /\ t # None => Fresh(t) /\ goal = "known"
       /\ alive' = alive \cup ({t} \ {None})
       /\ proc' = [proc EXCEPT ![p] = [at |-> place, on |-> proc[p].on, goal |-> goal,
                                       handle |-> t, seen |-> None]]
  /\ UNCHANGED <<rows, lost, mishaps, outdated>>

MayAttach(w) == status[w] = "starting"

AttachExternal(p) ==
  LET w == proc[p].on
      t == proc[p].handle
  IN /\ At(p, "attach")
     /\ \/ /\ MayAttach(w) /\ Go(p, "claim")
           /\ attached' = [attached EXCEPT ![w] = TRUE]
           /\ terminal' = [terminal EXCEPT ![w] = t]
           /\ owned' = [owned EXCEPT ![w] = @ \cup {t}]
        \/ ~MayAttach(w) /\ Go(p, "undo") /\ UNCHANGED <<attached, terminal, owned>>
     /\ UNCHANGED <<status, reconciled, unclean, op, request, world, outdated>>

ClaimActivation(p) ==
  LET w == proc[p].on
      free == status[w] = "starting" /\ attached[w] /\ op[w] = NoOp
  IN /\ At(p, "claim")
     /\ \/ /\ free /\ op' = [op EXCEPT ![w] = Claim("activation", "none")]
           /\ Go(p, "activate")
        \/ ~free /\ Go(p, "undo") /\ UNCHANGED op
     /\ UNCHANGED <<status, attached, terminal, owned, reconciled, unclean, request, world,
                    outdated>>

\* activate_external, and release_activation when it fails
Activate(p) ==
  LET w == proc[p].on
  IN /\ At(p, "activate")
     /\ \/ Go(p, "activated") /\ UNCHANGED op
        \/ /\ Go(p, "undo")
           /\ op' = [op EXCEPT ![w] = IF @.kind = "activation" THEN NoOp ELSE @]
     /\ UNCHANGED <<status, attached, terminal, owned, reconciled, unclean, request, world,
                    outdated>>

CompleteActivation(p) ==
  LET w == proc[p].on
      mine == op[w].kind = "activation" /\ status[w] = "starting"
  IN /\ At(p, "activated")
     /\ \/ /\ mine /\ Return(p)
           /\ status' = [status EXCEPT ![w] = "running"]
           /\ op' = [op EXCEPT ![w] = NoOp]
           /\ outdated' = Outdated(w)
        \/ ~mine /\ Go(p, "undo") /\ UNCHANGED <<status, op, outdated>>
     /\ UNCHANGED <<attached, terminal, owned, reconciled, unclean, request, world>>

\* The start failed: what Orca made is recorded, even without a terminal.
AttachPartialExternal(p) ==
  LET w == proc[p].on
  IN /\ At(p, "undo") /\ Go(p, "close")
     /\ attached' = [attached EXCEPT
                       ![w] = @ \/ (proc[p].goal = "known" /\ status[w] = "starting")]
     /\ UNCHANGED <<status, terminal, owned, reconciled, unclean, op, request, world, outdated>>

\* Mutant: a terminal that was not recorded is not closed.
RecordedOnly(p) == owned[proc[p].on]

\* What an unsuccessful start closes.
StartedTerminals(p) == (owned[proc[p].on] \cup {proc[p].handle}) \ {None}

CloseStarted(p) ==
  LET w == proc[p].on
      H == StartedTerminals(p)
      reachable == attached[w] \/ proc[p].goal = "known"
  IN /\ At(p, "close")
     /\ \/ reachable /\ Closes(H) /\ Go(p, IF attached[w] /\ H # {} THEN "release" ELSE "fail")
        \/ reachable /\ FailsToClose(H) /\ lost' = lost \cup (H \ owned[w]) /\ Go(p, "fail")
        \/ ~reachable /\ Go(p, "fail") /\ UNCHANGED world
     /\ UNCHANGED <<rows, outdated>>

\* mark_external_reconciled
MarkReconciled(p) ==
  LET w == proc[p].on
  IN /\ At(p, "release") /\ Go(p, "fail")
     /\ reconciled' = [reconciled EXCEPT ![w] = TRUE]
     /\ unclean' = [unclean EXCEPT ![w] = FALSE]
     /\ owned' = [owned EXCEPT ![w] = {}]
     /\ op' = [op EXCEPT ![w] = NoOp]
     /\ UNCHANGED <<status, attached, terminal, request, world, outdated>>

\* transition(FAILED), when the workflow is still starting
FailStart(p) ==
  LET w == proc[p].on
  IN /\ At(p, "fail")
     /\ \/ /\ status[w] = "starting" /\ status' = [status EXCEPT ![w] = "failed"]
           /\ request' = Cancelled(w, terminal[w])
           /\ Go(p, "successors")
        \/ status[w] # "starting" /\ Return(p) /\ UNCHANGED <<status, request>>
     /\ UNCHANGED <<attached, terminal, owned, reconciled, unclean, op, world, outdated>>

\* cancel_requested_successors, of a start that failed or a stale workflow that
\* was cancelled; the row is read again for the cancellation that follows.
CancelSuccessors(p) ==
  LET w == proc[p].on
  IN /\ At(p, "successors")
     /\ proc' = [proc EXCEPT ![p].at = "cancel", ![p].handle = terminal[w]]
     /\ status' = WithRoles(w, status[w])
     /\ UNCHANGED <<attached, terminal, owned, reconciled, unclean, op, request, world, outdated>>

\* _cancel_owned_requests
CancelOwnedRequests(p) ==
  /\ At(p, "cancel") /\ Return(p)
  /\ request' = Cancelled(proc[p].on, proc[p].handle)
  /\ UNCHANGED <<status, attached, terminal, owned, reconciled, unclean, op, world, outdated>>

-----------------------------------------------------------------------------
(* finish. *)

Target(p) == IF proc[p].goal = "timeout" THEN "cancelled" ELSE proc[p].goal

\* The supervisor finds a single role too old; it has no active request.
ObserveTimeout(p, w) ==
  /\ w \in Single /\ status[w] = "running" /\ request[w] = None
  /\ Begins(p, "timeout", w, "timing", "timeout")
  /\ outdated' = outdated \ {p}
  /\ UNCHANGED <<rows, world>>

FinishBegins(p, w, target) ==
  /\ Begins(p, "finish", w, "timing", target)
  /\ UNCHANGED <<rows, world, outdated>>

\* Mutant: the claim trusts what the supervisor has seen.
TrustObservation(p) == TRUE

\* claim_terminal_transition looks again at what the supervisor has seen.
StillTimedOut(p) ==
  LET w == proc[p].on
  IN proc[p].goal = "timeout" =>
       /\ status[w] = "running" /\ p \notin outdated
       /\ terminal[w] = proc[p].seen /\ request[w] = None

\* Mutant: there is something to tell Orca even of a workflow it never had.
AlwaysNeedsOrca(w) == TRUE

NeedsOrca(w) == attached[w]

\* claim_terminal_transition.  The row is read again for the cancellation of
\* requests that precedes the call of Orca.
ClaimTerminal(p) ==
  LET w == proc[p].on
      t == Target(p)
      Claims(place) ==
        proc' = [proc EXCEPT ![p].at = place, ![p].handle = terminal[w]]
      next == IF t = "completed" THEN "update" ELSE "first"
  IN /\ At(p, "timing") /\ StillTimedOut(p)
     /\ \/ /\ op[w] # NoOp /\ op[w].kind = "terminal" /\ op[w].target = t
           /\ op' = [op EXCEPT ![w] = IF @.error THEN Claim("terminal", t) ELSE @]
           /\ Claims(next) /\ UNCHANGED <<status, request>>
        \/ /\ op[w] = NoOp /\ status[w] = "running"
           /\ op' = [op EXCEPT ![w] = Claim("terminal", t)]
           /\ Claims(next) /\ UNCHANGED <<status, request>>
        \/ /\ op[w] = NoOp /\ t = "cancelled" /\ status[w] \in {"requested", "starting"}
           /\ status' = WithRoles(w, "cancelled")
           /\ request' = CancelledAll(w)
           /\ op' = [op EXCEPT ![w] = IF NeedsOrca(w) THEN Claim("terminal", t) ELSE @]
           /\ Claims(IF NeedsOrca(w) THEN "first" ELSE "early")
     /\ UNCHANGED <<attached, terminal, owned, reconciled, unclean, world, outdated>>

\* It is refused: the observation is outdated, another operation is there, the
\* successor has no hand-off yet, or the state does not allow it.
FinishRefused(p) ==
  /\ At(p, "timing") /\ Return(p)
  /\ UNCHANGED <<rows, world, outdated>>

\* _cancel_owned_requests of a failure or a cancellation, before Orca is called;
\* a workflow that is not attached needs no call.
CancelFirst(p) ==
  /\ \/ At(p, "first") /\ Go(p, "update")
     \/ At(p, "early") /\ Go(p, "tidy")
  /\ request' = Cancelled(proc[p].on, proc[p].handle)
  /\ UNCHANGED <<status, attached, terminal, owned, reconciled, unclean, op, world, outdated>>

\* update_external, and fail_terminal_update when it fails
UpdateExternal(p) ==
  LET w == proc[p].on
  IN /\ At(p, "update")
     /\ \/ Go(p, "complete") /\ UNCHANGED op
        \/ /\ Return(p)
           /\ op' = [op EXCEPT ![w].error = @ \/ op[w].kind = "terminal"]
     /\ UNCHANGED <<status, attached, terminal, owned, reconciled, unclean, request, world,
                    outdated>>

\* Mutant: whoever has called Orca decides, whatever is claimed now.
AnyTerminal(o, t) == o.kind = "terminal"

IsClaimOf(o, t) == o.kind = "terminal" /\ o.target = t

\* complete_terminal_transition; the last row repeats what somebody else has
\* completed.
CompleteTerminal(p) ==
  LET w == proc[p].on
      t == Target(p)
      done == \/ op[w] = NoOp /\ status[w] = t
              \/ /\ IsClaimOf(op[w], t)
                 /\ \/ status[w] = "running"
                    \/ status[w] = t /\ t = "cancelled"
  IN /\ At(p, "complete")
     /\ \/ /\ done /\ op[w] # NoOp
           /\ op' = [op EXCEPT ![w] = NoOp]
           /\ status' = IF t = "completed" THEN [status EXCEPT ![w] = t]
                                          ELSE WithFollowers(w, t)
           /\ unclean' = [unclean EXCEPT ![w] = @ \/ t = "completed"]
           /\ request' = Cancelled(w, terminal[w])
           /\ Go(p, "tidy")
        \/ done /\ op[w] = NoOp /\ Go(p, "tidy") /\ UNCHANGED <<op, status, unclean, request>>
        \/ ~done /\ Return(p) /\ UNCHANGED <<op, status, unclean, request>>
     /\ UNCHANGED <<attached, terminal, owned, reconciled, world, outdated>>

\* cancel_requested_successors; the row is read again
Tidy(p) ==
  LET w == proc[p].on
  IN /\ At(p, "tidy")
     /\ proc' = [proc EXCEPT ![p].at = "finalize", ![p].handle = terminal[w]]
     /\ status' = IF Target(p) = "completed" THEN status ELSE WithRoles(w, status[w])
     /\ UNCHANGED <<attached, terminal, owned, reconciled, unclean, op, request, world, outdated>>

CancelFinally(p) ==
  /\ At(p, "finalize") /\ Go(p, "shut")
  /\ request' = Cancelled(proc[p].on, proc[p].handle)
  /\ UNCHANGED <<status, attached, terminal, owned, reconciled, unclean, op, world, outdated>>

\* close_cancelled_resources reads the row once more and closes what that
\* activation owns.  In a worktree that existed before, the ownership is released
\* first, which forgets the terminals.
CloseFinished(p) ==
  LET w == proc[p].on
      H == OwnedHandles(w)
      releases == /\ w \in Guest /\ status[w] \in {"failed", "cancelled"}
                  /\ attached[w] /\ ~reconciled[w]
  IN /\ At(p, "shut") /\ Return(p)
     /\ \/ /\ releases
           /\ reconciled' = [reconciled EXCEPT ![w] = TRUE]
           /\ owned' = [owned EXCEPT ![w] = {}]
           /\ unclean' = [unclean EXCEPT ![w] = FALSE]
           /\ op' = [op EXCEPT ![w] = NoOp] /\ UNCHANGED world
        \/ /\ ~releases /\ Closes(H) /\ owned' = [owned EXCEPT ![w] = @ \ H]
           /\ unclean' = [unclean EXCEPT ![w] = @ /\ status[w] # "completed"]
           /\ UNCHANGED <<reconciled, op>>
        \/ /\ ~releases /\ FailsToClose(H) /\ owned' = [owned EXCEPT ![w] = (@ \ H) \cup (H \cap alive')]
           /\ unclean' = [unclean EXCEPT ![w] = TRUE] /\ UNCHANGED <<reconciled, op, lost>>
     /\ UNCHANGED <<status, attached, terminal, request, outdated>>

-----------------------------------------------------------------------------
(* resume and restart_with_new_agent. *)

\* A terminal that is still valid gets a prompt; else, or on a restart, a new
\* agent is launched.  In single mode activated_at is refreshed before.  (The
\* service is written for any runtime; the Orca client of this commit refuses
\* every prompt, and resume with it.)
ResumeBegins(p, w, again) ==
  LET prompt == terminal[w] \in alive /\ ~again
      place == IF w \in Single \/ prompt THEN "mark" ELSE "launch"
  IN /\ status[w] = "running" /\ attached[w]
     /\ Begins(p, IF again THEN "restart" ELSE "resume", w, place,
               IF prompt THEN "prompt" ELSE "resume")
     /\ UNCHANGED <<rows, world, outdated>>

Resumable(w) == status[w] = "running" /\ op[w] = NoOp

\* mark_resumed, before the launch or after it, and after a grant or a release
MarkResumed(p) ==
  LET w == proc[p].on
      launches == proc[p].at = "mark" /\ proc[p].goal = "resume"
  IN /\ proc[p].at \in {"mark", "remark"}
     /\ outdated' = IF Resumable(w) THEN Outdated(w) ELSE outdated
     /\ IF launches /\ Resumable(w) THEN Go(p, "launch") ELSE Return(p)
     /\ UNCHANGED <<rows, world>>

LaunchAgent(p) ==
  /\ At(p, "launch")
  /\ \/ \E t \in Terminal :
          /\ Fresh(t) /\ alive' = alive \cup {t}
          /\ proc' = [proc EXCEPT ![p].at = "replace", ![p].handle = t]
     \/ Return(p) /\ UNCHANGED alive
  /\ UNCHANGED <<rows, lost, mishaps, outdated>>

\* replace_agent_terminal.  The old agent is not stopped.
ReplaceAgent(p) ==
  LET w == proc[p].on
      t == proc[p].handle
      mine == status[w] = "running" /\ terminal[w] = proc[p].seen
  IN /\ At(p, "replace")
     /\ \/ /\ mine
           /\ terminal' = [terminal EXCEPT ![w] = t]
           /\ owned' = [owned EXCEPT ![w] = {t}]
           /\ lost' = lost \cup (owned[w] \cap alive)
           /\ IF w \in Single THEN Return(p) ELSE Go(p, "remark")
        \/ ~mine /\ Go(p, "discard") /\ UNCHANGED <<terminal, owned, lost>>
     /\ UNCHANGED <<status, attached, reconciled, unclean, op, request, alive, mishaps, outdated>>

\* _discard_unowned_terminal, which ignores a failure
DiscardAgent(p) ==
  /\ At(p, "discard") /\ Return(p)
  /\ \/ Closes({proc[p].handle})
     \/ FailsToClose({proc[p].handle}) /\ lost' = lost \cup {proc[p].handle}
  /\ UNCHANGED <<rows, outdated>>

-----------------------------------------------------------------------------
(* reconcile_stale: workflow cleanup --apply. *)

\* stale_reconcilable: it has something in Orca that is not released.
Reconcilable(w) == attached[w] /\ ~reconciled[w]

CleanupBegins(p, w) ==
  LET place ==
        IF status[w] = "completed" THEN "shutCompleted"
        ELSE IF Reconcilable(w) THEN "takeOver"
        ELSE IF status[w] \in Active THEN "cancelStale" ELSE "cancel"
  IN /\ status[w] = "completed" => unclean[w] /\ (op[w] = NoOp \/ op[w].error)
     /\ Begins(p, "cleanup", w, place, "none")
     /\ UNCHANGED <<rows, world, outdated>>

\* A completed workflow whose terminals are still to be closed
CloseCompleted(p) ==
  LET w == proc[p].on
  IN /\ At(p, "shutCompleted")
     /\ \/ /\ Closes(owned[w]) /\ unclean' = [unclean EXCEPT ![w] = FALSE]
           /\ proc' = [proc EXCEPT ![p].at = "cancel", ![p].handle = terminal[w]]
        \/ FailsToClose(owned[w]) /\ Return(p) /\ UNCHANGED <<unclean, lost>>
     /\ UNCHANGED <<status, attached, terminal, owned, reconciled, op, request, outdated>>

\* Mutant: only a claim whose call has failed can be taken over.
FailedOnly(o) == o = NoOp \/ o.error

MayBeTaken(o) == o = NoOp \/ o.error \/ o.old

\* claim_stale_reconciliation
TakeOver(p) ==
  LET w == proc[p].on
      free == /\ attached[w] /\ ~reconciled[w] /\ status[w] # "completed"
              /\ MayBeTaken(op[w])
  IN /\ At(p, "takeOver")
     /\ \/ free /\ op' = [op EXCEPT ![w] = Claim("terminal", "cancelled")] /\ Go(p, "closeStale")
        \/ ~free /\ Return(p) /\ UNCHANGED op
     /\ UNCHANGED <<status, attached, terminal, owned, reconciled, unclean, request, world,
                    outdated>>

CloseStale(p) ==
  LET w == proc[p].on
  IN /\ At(p, "closeStale")
     /\ \/ Closes(owned[w]) /\ Go(p, "releaseStale") /\ UNCHANGED op
        \/ /\ FailsToClose(owned[w]) /\ Return(p) /\ UNCHANGED lost
           /\ op' = [op EXCEPT ![w].error = @ \/ op[w].kind = "terminal"]
     /\ UNCHANGED <<status, attached, terminal, owned, reconciled, unclean, request, outdated>>

\* complete_stale_reconciliation; the row is read again
ReleaseStale(p) ==
  LET w == proc[p].on
      mine == /\ IsClaimOf(op[w], "cancelled") /\ attached[w] /\ ~reconciled[w]
              /\ status[w] # "completed"
  IN /\ At(p, "releaseStale")
     /\ \/ /\ mine
           /\ status' = IF status[w] \in Active THEN WithRoles(w, "cancelled") ELSE status
           /\ reconciled' = [reconciled EXCEPT ![w] = TRUE]
           /\ unclean' = [unclean EXCEPT ![w] = FALSE]
           /\ op' = [op EXCEPT ![w] = NoOp]
           /\ proc' = [proc EXCEPT ![p].at = "cancel", ![p].handle = terminal[w]]
        \/ ~mine /\ Return(p) /\ UNCHANGED <<status, reconciled, unclean, op>>
     /\ UNCHANGED <<attached, terminal, owned, request, world, outdated>>

\* transition(CANCELLED) of a workflow that owned nothing when it was read
CancelStale(p) ==
  LET w == proc[p].on
  IN /\ At(p, "cancelStale")
     /\ \/ /\ status[w] \in Active /\ status' = [status EXCEPT ![w] = "cancelled"]
           /\ request' = Cancelled(w, terminal[w])
           /\ Go(p, "successors")
        \/ status[w] \in Ended /\ Return(p) /\ UNCHANGED <<status, request>>
     /\ UNCHANGED <<attached, terminal, owned, reconciled, unclean, op, world, outdated>>

-----------------------------------------------------------------------------
(* retry, and the commands of the queue. *)

\* retry_failed of the service cancels every request of the workflow first.
RetryBegins(p, w) ==
  /\ Begins(p, "retry", w, "retry", "none")
  /\ request' = CancelledAll(w)
  /\ UNCHANGED <<status, attached, terminal, owned, reconciled, unclean, op, world, outdated>>

\* Mutant: a failed workflow need not be reconciled.
AnyFailed(w) == status[w] = "failed"

Retriable(w) == status[w] = "failed" /\ (attached[w] => reconciled[w])

\* retry_failed of the store; cancelled followers are requested again.
RetryFailed(p) ==
  LET w == proc[p].on
  IN /\ At(p, "retry") /\ Return(p)
     /\ \/ /\ Retriable(w)
           /\ status' = [v \in Workflow |->
                IF v = w \/ (v \in After[w] /\ status[v] = "cancelled")
                THEN "requested" ELSE status[v]]
           /\ attached' = [attached EXCEPT ![w] = FALSE]
           /\ terminal' = [terminal EXCEPT ![w] = None]
           /\ owned' = [owned EXCEPT ![w] = {}]
           /\ reconciled' = [reconciled EXCEPT ![w] = FALSE]
           /\ unclean' = [unclean EXCEPT ![w] = FALSE]
        \/ /\ ~Retriable(w)
           /\ UNCHANGED <<status, attached, terminal, owned, reconciled, unclean>>
     /\ UNCHANGED <<op, request, world, outdated>>

\* Every command that uses the service first cancels what workflows that ended
\* have left in the queue: reconcile_terminal_workflows reads the status and
\* then cancels all requests of the owner.
MaintainBegins(p, w) ==
  /\ request[w] # None /\ status[w] \in Ended
  /\ Begins(p, "maintain", w, "maintain", "none")
  /\ UNCHANGED <<rows, world, outdated>>

\* Mutant: it cancels those of the activation in the row, like the others do.
OfActivation(w) == Cancelled(w, terminal[w])

OfOwner(w) == CancelledAll(w)

MaintainCancels(p) ==
  /\ At(p, "maintain") /\ Return(p)
  /\ request' = OfOwner(proc[p].on)
  /\ UNCHANGED <<status, attached, terminal, owned, reconciled, unclean, op, world, outdated>>

\* queue acquire and queue run: the owner runs, the request is made, and acquire
\* looks again; a lease it did not have before refreshes the activation.
AcquireBegins(p, w, kind) ==
  /\ status[w] = "running" /\ kind \in {"none", "run"}
  /\ Begins(p, "acquire", w, "acquire", kind)
  /\ UNCHANGED <<rows, world, outdated>>

Acquire(p) ==
  LET w == proc[p].on
      free == op[w] = NoOp /\ request[w] \in {None, terminal[w]}
  IN /\ At(p, "acquire")
     /\ request' = IF free THEN [request EXCEPT ![w] = terminal[w]] ELSE request
     /\ IF free /\ proc[p].goal # "run" THEN Go(p, "recheck") ELSE Return(p)
     /\ UNCHANGED <<status, attached, terminal, owned, reconciled, unclean, op, world, outdated>>

RecheckOwner(p) ==
  LET w == proc[p].on
  IN /\ At(p, "recheck")
     /\ \/ status[w] = "running" /\ UNCHANGED request /\ (Go(p, "remark") \/ Return(p))
        \/ status[w] # "running" /\ request' = CancelledAll(w) /\ Return(p)
     /\ UNCHANGED <<status, attached, terminal, owned, reconciled, unclean, op, world, outdated>>

\* queue release
Release(p, w) ==
  /\ request[w] # None /\ request' = [request EXCEPT ![w] = None]
  /\ Begins(p, "acquire", w, "remark", "release")
  /\ UNCHANGED <<status, attached, terminal, owned, reconciled, unclean, op, world, outdated>>

-----------------------------------------------------------------------------
(* What the commands do not decide. *)

\* The terminals of workflows that keep them
Kept == UNION {owned[w] : w \in {v \in Workflow : ~reconciled[v]}}

\* The terminals only this process is going to hand over or to close
Carried(p) ==
  (IF proc[p].at \in {"attach", "undo", "close", "replace", "discard"} THEN {proc[p].handle}
   ELSE IF At(p, "closeStale") THEN owned[proc[p].on] ELSE {}) \ (Kept \cup {None})

\* A process dies between two of its steps; a terminal it launched and did not
\* record is lost.
Crash(p) ==
  /\ ~At(p, "idle") /\ mishaps < MaxMishaps /\ mishaps' = mishaps + 1
  /\ lost' = lost \cup Carried(p) /\ Return(p)
  /\ UNCHANGED <<rows, alive, outdated>>

\* An agent exits.
AgentExits(t) ==
  /\ t \in alive /\ alive' = alive \ {t}
  /\ UNCHANGED <<rows, lost, mishaps, proc, outdated>>

\* A claim gets older than the age the operator gives to cleanup, the only command
\* that looks at it.
ClaimAges(w) ==
  /\ "cleanup" \in Commands
  /\ op[w] # NoOp /\ ~op[w].old /\ op' = [op EXCEPT ![w].old = TRUE]
  /\ UNCHANGED <<status, attached, terminal, owned, reconciled, unclean, request, world, proc,
                 outdated>>

-----------------------------------------------------------------------------

StartStep(p) ==
  \/ CreateExternal(p) \/ AttachExternal(p) \/ ClaimActivation(p) \/ Activate(p)
  \/ CompleteActivation(p) \/ AttachPartialExternal(p) \/ CloseStarted(p)
  \/ MarkReconciled(p) \/ FailStart(p) \/ CancelSuccessors(p) \/ CancelOwnedRequests(p)

FinishStep(p) ==
  \/ ClaimTerminal(p) \/ FinishRefused(p) \/ CancelFirst(p) \/ UpdateExternal(p)
  \/ CompleteTerminal(p) \/ Tidy(p) \/ CancelFinally(p) \/ CloseFinished(p)

OtherStep(p) ==
  \/ MarkResumed(p) \/ LaunchAgent(p) \/ ReplaceAgent(p) \/ DiscardAgent(p)
  \/ CloseCompleted(p) \/ TakeOver(p) \/ CloseStale(p) \/ ReleaseStale(p) \/ CancelStale(p)
  \/ RetryFailed(p) \/ MaintainCancels(p) \/ Acquire(p) \/ RecheckOwner(p)

Step(p) == StartStep(p) \/ FinishStep(p) \/ OtherStep(p)

Command(p, w) ==
  \/ BeginStart(p, w) \/ ObserveTimeout(p, w) \/ (\E t \in Ended : FinishBegins(p, w, t))
  \/ (\E again \in BOOLEAN : ResumeBegins(p, w, again))
  \/ CleanupBegins(p, w) \/ RetryBegins(p, w) \/ MaintainBegins(p, w)
  \/ (\E kind \in {"none", "run"} : AcquireBegins(p, w, kind)) \/ Release(p, w)

Next ==
  \/ \E p \in Proc : Step(p) \/ Crash(p) \/ \E w \in Workflow : Command(p, w)
  \/ \E t \in Terminal : AgentExits(t)
  \/ \E w \in Workflow : ClaimAges(w)

Spec == Init /\ [][Next]_vars

\* A command that has begun goes on, time passes, and commands are run again
\* and again: each looks for requests of workflows that ended, and the operator
\* cleans up what is stale.
Fairness ==
  /\ \A p \in Proc : WF_vars(Step(p))
  /\ \A w \in Workflow :
       /\ WF_vars(ClaimAges(w))
       /\ SF_vars(\E p \in Proc : MaintainBegins(p, w))
       /\ SF_vars(\E p \in Proc : CleanupBegins(p, w))

FairSpec == Spec /\ Fairness

-----------------------------------------------------------------------------
(* Properties. *)

\* Every agent that lives in a terminal Flybridge made is owned by a workflow
\* whose ownership has not been released, or in the hands of a command.  What a
\* crash, a failed compensation or a restart leaves is not Flybridge's to close.
NoAgentIsForgotten ==
  alive \ lost \subseteq Kept \cup UNION {Carried(p) : p \in Proc}

\* A running workflow ends as completed or as failed only while that outcome is
\* claimed, whoever has called Orca for it and however long ago.
OutcomeIsClaimed ==
  [][\A w \in Workflow, s \in {"completed", "failed"} :
       status[w] = "running" /\ status'[w] = s =>
         op[w].kind = "terminal" /\ op[w].target = s]_vars

\* A workflow that a time-out ends has not been resumed since the supervisor
\* looked, and is in nobody's queue.
TimeoutIsFresh ==
  [][\A p \in Proc :
       LET w == proc[p].on
       IN /\ At(p, "complete") /\ proc[p].goal = "timeout"
          /\ status[w] = "running" /\ status'[w] = "cancelled"
          => p \notin outdated /\ request[w] = None]_vars

\* No role is left requested behind one that failed or was cancelled, once the
\* command that stopped it is through.
NoRoleWaitsInVain ==
  \A w \in Workflow, v \in Workflow :
    v \in After[w] /\ status[w] \in {"failed", "cancelled"} /\ status[v] = "requested"
      => \E p \in Proc : proc[p].on = w /\ At(p, "successors")

\* A request of a workflow that ended does not stay in the queue, as long as
\* commands are run.
FinishedReleases ==
  \A w \in Workflow :
    (status[w] \in Ended /\ request[w] # None)
      ~> (request[w] = None \/ status[w] \notin Ended)

\* Whatever happens to the command that starts it, a workflow does not stay in
\* starting, as long as cleanup is run.
StartingIsResolved ==
  \A w \in Workflow : status[w] = "starting" ~> status[w] # "starting"

\* What the comments and the documentation say of it.

\* "A role must never leave a live lease behind after terminal completion."
CompletionLeavesNoLease ==
  [][\A w \in Workflow :
       status[w] = "running" /\ status'[w] = "completed" => request'[w] = None]_vars
===============================================================================
