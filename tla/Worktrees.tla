----------------------------- MODULE Worktrees ------------------------------
(***************************************************************************)
(* The checkouts Flybridge makes, uses and, only when told to, deletes.    *)
(* A start command has Orca allocate a checkout, or opens an agent in one  *)
(* that is there, and records it; when any step fails it closes the agent  *)
(* it knows of and keeps the checkout in the ledger of retained ones.  A   *)
(* role is ended by a finish, a retirement or a cleanup, each of which     *)
(* releases it (external_reconciled_at), and `remove-worktree` deletes a   *)
(* retained checkout.  Orca is only told: its answers may be late or lost. *)
(***************************************************************************)
EXTENDS Naturals, FiniteSets

CONSTANTS
  Creators,    \* workflows started with a new checkout, all of one name
  Attachers,   \* workflows started with --attach-existing, of that name or not
  Removers,    \* bound: remove-worktree commands at a time
  Outcomes,    \* bound: the ends a workflow may be given
  MaxMishaps,  \* bound: deaths, failed calls and claims that grow old
  None

ASSUME WorktreesAssumption ==
  /\ Creators \cap Attachers = {} /\ MaxMishaps \in Nat
  /\ Outcomes \subseteq {"completed", "failed", "cancelled"}
  /\ None \notin Creators \cup Attachers \cup Removers

Flows == Creators \cup Attachers

\* A checkout has the name of the workflow whose start allocates it.
VARIABLES
  row,      \* workflows, workflow_worktree_ownership and the agent's row of
            \* owned_terminals
  op,       \* workflow_lifecycle_operations; over: in error, or older than
            \* the age the cleanup is given
  kept,     \* retained_worktrees
  disk,     \* whether Orca and Git have the checkout
  files,    \* what is in it: what it started from, or more
  agent,    \* the checkout in which a workflow's agent terminal lives
  start,    \* what the start command of a workflow is at
  ending,   \* what its finish, retirement or cleanup is at
  removal,  \* what each remove-worktree command is at
  mishaps

vars == <<row, op, kept, disk, files, agent, start, ending, removal, mishaps>>

NoOp == [kind |-> "none", over |-> FALSE]
Idle == [at |-> "idle", target |-> "none"]
NotRemoving == [at |-> "idle", of |-> None, discard |-> FALSE, saw |-> "start"]
NewStart == [at |-> "idle", of |-> None, knows |-> FALSE, handle |-> FALSE,
             conflict |-> FALSE, errors |-> FALSE, stale |-> {}]

Mishap == mishaps < MaxMishaps /\ mishaps' = mishaps + 1

\* Where a start, the end of a workflow and a removal can be.
StartPlaces ==
  {"idle", "reserve", "name", "call", "attach", "claim", "activate", "complete",
   "fail", "close", "keep", "release", "mark", "ended", "died"}
EndingPlaces == {"idle", "complete", "close", "release", "clean", "reconcile"}
RemovalPlaces == {"idle", "claim", "look", "again", "remove", "done", "error"}

-----------------------------------------------------------------------------
Active(f) == row[f].status \in {"starting", "running"}
Owner(f, c) == row[f].ref = c /\ ~row[f].released
Deleting(c) == kept[c].state \in {"removing", "remove_failed", "deleted"}

\* mark_external_reconciled.
Released(r) == [r EXCEPT !.released = TRUE, !.owned = FALSE]

\* retain_worktree and record_retained_worktree: the first record stays.
Retained(c, f, owns) ==
  IF kept[c].state = "none"
  THEN [kept EXCEPT ![c] = [state |-> "retained", by |-> f, owns |-> owns]]
  ELSE kept

Init ==
  /\ row = [f \in Flows |->
       [status |-> "requested", named |-> f \in Creators, ref |-> None, owns |-> TRUE,
        handle |-> FALSE, owned |-> FALSE, released |-> FALSE]]
  /\ op = [f \in Flows |-> NoOp]
  /\ kept = [c \in Creators |-> [state |-> "none", by |-> None, owns |-> FALSE]]
  /\ disk = [c \in Creators |-> "absent"]
  /\ files = [c \in Creators |-> "start"]
  /\ agent = [f \in Flows |-> None]
  /\ start = [f \in Flows |-> NewStart]
  /\ ending = [f \in Flows |-> Idle]
  /\ removal = [r \in Removers |-> NotRemoving]
  /\ mishaps = 0

-----------------------------------------------------------------------------
\* The start of a workflow: _start_one, launch_existing and start_existing.

To(f, at) == start' = [start EXCEPT ![f].at = at]
Exits(f, at) == start' = [start EXCEPT ![f] = [NewStart EXCEPT !.at = at]]

\* The existing checkout is looked up: its active workflow would be continued
\* or refused; an owner that has ended is stale.
LooksUp(f) ==
  /\ f \in Attachers /\ start[f].at = "idle"
  /\ \E c \in Creators :
       /\ disk[c] = "present"
       /\ ~\E g \in Flows : row[g].ref = c /\ Active(g)
       /\ start' = [start EXCEPT ![f] = [NewStart EXCEPT !.at = "reserve", !.of = c,
                                           !.stale = {g \in Flows : Owner(g, c)}]]
  /\ UNCHANGED <<row, op, kept, disk, files, agent, ending, removal, mishaps>>

\* The stale owner is released, by id, in a transaction of its own.
ReleasesStale(f) ==
  /\ start[f].at = "reserve" /\ start[f].stale # {}
  /\ row' = [g \in Flows |-> IF g \in start[f].stale THEN Released(row[g]) ELSE row[g]]
  /\ op' = [g \in Flows |-> IF g \in start[f].stale THEN NoOp ELSE op[g]]
  /\ start' = [start EXCEPT ![f].stale = {}]
  /\ UNCHANGED <<kept, disk, files, agent, ending, removal, mishaps>>

\* reserve_root_plan: the names of active workflows are unique.
Reserves(f) ==
  /\ start[f].at = IF f \in Attachers THEN "reserve" ELSE "idle"
  /\ start[f].stale = {}
  /\ \E named \in BOOLEAN :
       /\ f \in Creators => named
       /\ named => ~\E g \in Flows : row[g].named /\ Active(g)
       /\ row' = [row EXCEPT ![f] = [@ EXCEPT !.status = "starting", !.named = named]]
  /\ To(f, "name")
  /\ UNCHANGED <<op, kept, disk, files, agent, ending, removal, mishaps>>

\* _reconcile_name_ghost: an owner of the same name whose checkout and agent
\* are gone, or cannot be read, is released; otherwise the name is taken.
ChecksName(f) ==
  LET prior == {g \in Flows \ {f} : /\ row[f].named /\ row[g].named
                                    /\ row[g].ref # None /\ ~row[g].released}
      Gone(g) == disk[row[g].ref] # "present" /\ agent[g] = None
  IN
  /\ start[f].at = "name"
  /\ \/ prior = {} /\ To(f, "call") /\ UNCHANGED <<row, op, mishaps>>
     \/ \E g \in prior :
          /\ IF Gone(g) THEN UNCHANGED mishaps ELSE Mishap
          /\ row' = [row EXCEPT ![g] = Released(@)] /\ op' = [op EXCEPT ![g] = NoOp]
          /\ To(f, "call")
     \/ /\ \E g \in prior : ~Gone(g)
        /\ start' = [start EXCEPT ![f].at = "fail", ![f].conflict = TRUE]
        /\ UNCHANGED <<row, op, mishaps>>
  /\ UNCHANGED <<kept, disk, files, agent, ending, removal>>

\* OrcaClient.start refuses a name that is taken, by whomever.
NameIsTaken(f) ==
  /\ f \in Creators /\ start[f].at = "call"
  /\ IF \E c \in Creators : disk[c] = "present" THEN UNCHANGED mishaps ELSE Mishap
  /\ To(f, "fail")
  /\ UNCHANGED <<row, op, kept, disk, files, agent, ending, removal>>

\* OrcaClient.start: the checkout and its agent.
Allocates(f) ==
  /\ f \in Creators /\ start[f].at = "call"
  /\ \A c \in Creators : disk[c] # "present"
  /\ start' = [start EXCEPT ![f] = [NewStart EXCEPT !.at = "attach", !.of = f,
                                      !.knows = TRUE, !.handle = TRUE]]
  /\ disk' = [disk EXCEPT ![f] = "present"]
  /\ agent' = [agent EXCEPT ![f] = f]
  /\ UNCHANGED <<row, op, kept, files, ending, removal, mishaps>>

\* An error of it has the receipt when Orca gave one: the checkout, perhaps
\* with its terminal.  A checkout found by its name alone is not the start's.
AllocationFails(f) ==
  /\ f \in Creators /\ start[f].at = "call" /\ Mishap
  /\ \A c \in Creators : disk[c] # "present"
  /\ \E made, receipt, runs, handle \in BOOLEAN :
       /\ (receipt \/ runs) => made
       /\ handle => (receipt /\ runs)
       /\ disk' = IF made THEN [disk EXCEPT ![f] = "present"] ELSE disk
       /\ agent' = IF runs THEN [agent EXCEPT ![f] = f] ELSE agent
       /\ start' = [start EXCEPT ![f] = [NewStart EXCEPT !.at = "fail",
                      !.of = IF receipt THEN f ELSE None,
                      !.knows = receipt, !.handle = handle]]
  /\ UNCHANGED <<row, op, kept, files, ending, removal>>

\* attach_new_agent: a terminal in the checkout that is there.
OpensAgent(f) ==
  /\ f \in Attachers /\ start[f].at = "call" /\ disk[start[f].of] = "present"
  /\ agent' = [agent EXCEPT ![f] = start[f].of]
  /\ start' = [start EXCEPT ![f] = [@ EXCEPT !.at = "attach", !.knows = TRUE,
                                             !.handle = TRUE]]
  /\ UNCHANGED <<row, op, kept, disk, files, ending, removal, mishaps>>

\* A failure of it names neither checkout nor terminal, and may leave the
\* terminal: a create that timed out is looked for once, by its title.
OpeningFails(f) ==
  /\ f \in Attachers /\ start[f].at = "call"
  /\ IF disk[start[f].of] = "present" THEN Mishap ELSE UNCHANGED mishaps
  /\ \/ UNCHANGED agent
     \/ disk[start[f].of] = "present" /\ agent' = [agent EXCEPT ![f] = start[f].of]
  /\ To(f, "fail")
  /\ UNCHANGED <<row, op, kept, disk, files, ending, removal>>

\* Both attachments refuse a checkout that is being deleted or owned.
Refused(f) ==
  Deleting(start[f].of) \/ \E g \in Flows \ {f} : Owner(g, start[f].of)

IdentityFails(f) ==
  /\ start[f].at = "attach" /\ Mishap /\ To(f, "fail")
  /\ UNCHANGED <<row, op, kept, disk, files, agent, ending, removal>>

\* attach_external.
Attaches(f) ==
  /\ start[f].at = "attach"
  /\ IF row[f].status = "starting" /\ ~Refused(f)
     THEN /\ row' = [row EXCEPT ![f] = [@ EXCEPT !.ref = start[f].of, !.handle = TRUE,
                                  !.owned = TRUE, !.owns = f \in Creators]]
          /\ To(f, "claim")
     ELSE /\ start' = [start EXCEPT ![f].at = "fail",
                                    ![f].conflict = row[f].status = "starting"]
          /\ UNCHANGED row
  /\ UNCHANGED <<op, kept, disk, files, agent, ending, removal, mishaps>>

ClaimsActivation(f) ==
  /\ start[f].at = "claim"
  /\ IF row[f].status = "starting" /\ op[f] = NoOp
     THEN op' = [op EXCEPT ![f].kind = "activation"] /\ To(f, "activate")
     ELSE UNCHANGED op /\ To(f, "fail")
  /\ UNCHANGED <<row, kept, disk, files, agent, ending, removal, mishaps>>

\* set_lifecycle; a failure gives the claim back.
Activates(f) ==
  /\ start[f].at = "activate"
  /\ \/ To(f, "complete") /\ UNCHANGED <<op, mishaps>>
     \/ /\ Mishap /\ To(f, "fail")
        /\ op' = [op EXCEPT ![f] = IF @.kind = "activation" THEN NoOp ELSE @]
  /\ UNCHANGED <<row, kept, disk, files, agent, ending, removal>>

CompletesActivation(f) ==
  /\ start[f].at = "complete"
  /\ IF op[f].kind = "activation" /\ row[f].status = "starting"
     THEN /\ row' = [row EXCEPT ![f].status = "running"]
          /\ op' = [op EXCEPT ![f] = NoOp]
          /\ Exits(f, "ended")
     ELSE UNCHANGED <<row, op>> /\ To(f, "fail")
  /\ UNCHANGED <<kept, disk, files, agent, ending, removal, mishaps>>

-----------------------------------------------------------------------------
\* The failure of a start.

\* attach_partial_external.
AttachesPartially(f) ==
  /\ start[f].at = "fail"
  /\ IF start[f].knows /\ ~start[f].conflict /\ row[f].ref = None
     THEN IF row[f].status = "starting" /\ ~Refused(f)
          THEN /\ row' = [row EXCEPT ![f].ref = start[f].of] /\ To(f, "close")
          ELSE /\ start' = [start EXCEPT ![f].at = "close",
                                         ![f].errors = row[f].status = "starting"]
               /\ UNCHANGED row
     ELSE UNCHANGED row /\ To(f, IF start[f].knows THEN "close" ELSE "mark")
  /\ UNCHANGED <<op, kept, disk, files, agent, ending, removal, mishaps>>

\* The terminals the row owns and the one the start knows of are closed.
ClosesAgent(f) ==
  LET handles == start[f].handle \/ (row[f].owned /\ ~start[f].conflict) IN
  /\ start[f].at = "close"
  /\ \/ /\ agent' = [agent EXCEPT ![f] = IF handles THEN None ELSE @]
        /\ start' = [start EXCEPT ![f].at = "keep", ![f].handle = handles]
        /\ UNCHANGED mishaps
     \/ /\ handles /\ Mishap
        /\ start' = [start EXCEPT ![f].at = "keep", ![f].handle = TRUE, ![f].errors = TRUE]
        /\ UNCHANGED agent
  /\ UNCHANGED <<row, op, kept, disk, files, ending, removal>>

\* The checkout is never deleted: it is put in the ledger.
KeepsIfAttached(f) ==   \* mutant: only what the row refers to is retained
  /\ start[f].at = "keep"
  /\ kept' = IF start[f].conflict \/ row[f].ref = None THEN kept
             ELSE Retained(start[f].of, f, f \in Creators)
  /\ To(f, IF ~start[f].conflict /\ row[f].ref # None /\ ~start[f].errors /\ start[f].handle
           THEN "release" ELSE "mark")
  /\ UNCHANGED <<row, op, disk, files, agent, ending, removal, mishaps>>
Keeps(f) ==
  /\ start[f].at = "keep"
  /\ kept' = IF start[f].conflict THEN kept ELSE Retained(start[f].of, f, f \in Creators)
  /\ To(f, IF ~start[f].conflict /\ row[f].ref # None /\ ~start[f].errors /\ start[f].handle
           THEN "release" ELSE "mark")
  /\ UNCHANGED <<row, op, disk, files, agent, ending, removal, mishaps>>

ReleasesStart(f) ==
  /\ start[f].at = "release"
  /\ row' = [row EXCEPT ![f] = Released(@)] /\ op' = [op EXCEPT ![f] = NoOp]
  /\ To(f, "mark")
  /\ UNCHANGED <<kept, disk, files, agent, ending, removal, mishaps>>

MarksFailed(f) ==
  /\ start[f].at = "mark"
  /\ row' = [row EXCEPT ![f].status = IF @ = "starting" THEN "failed" ELSE @]
  /\ Exits(f, "ended")
  /\ UNCHANGED <<op, kept, disk, files, agent, ending, removal, mishaps>>

StartDies(f) ==
  /\ start[f].at \notin {"idle", "ended", "died"} /\ Mishap
  /\ Exits(f, "died")
  /\ UNCHANGED <<row, op, kept, disk, files, agent, ending, removal>>

-----------------------------------------------------------------------------
\* The end of a workflow: finish, stop_role_resources, reconcile_stale.
\* Bound: one such command at a time.

Quiet == \A g \in Flows : ending[g].at = "idle"

Ends(f, at, t) == ending' = [ending EXCEPT ![f] = [at |-> at, target |-> t]]

\* claim_terminal_transition.
ClaimsFinish(f, t) ==
  /\ Quiet /\ op[f].kind \in {"none", t}
  /\ \/ row[f].status = "running" \/ op[f].kind = t
     \/ row[f].status = "starting" /\ t = "cancelled"
  /\ row' = [row EXCEPT ![f].status = IF @ = "starting" THEN t ELSE @]
  /\ op' = [op EXCEPT ![f] = IF row[f].ref = None THEN NoOp ELSE [kind |-> t, over |-> FALSE]]
  /\ Ends(f, IF row[f].ref = None THEN "close" ELSE "complete", t)
  /\ UNCHANGED <<kept, disk, files, agent, start, removal, mishaps>>

\* update_external and complete_terminal_transition.
CompletesFinish(f) ==
  LET t == ending[f].target IN
  /\ ending[f].at = "complete"
  /\ \/ /\ Mishap
        /\ op' = [op EXCEPT ![f].over = @ \/ op[f].kind = t]
        /\ ending' = [ending EXCEPT ![f] = Idle] /\ UNCHANGED row
     \/ /\ op[f].kind = t /\ row[f].status \in {"running", "cancelled"}
        /\ row' = [row EXCEPT ![f].status = t] /\ op' = [op EXCEPT ![f] = NoOp]
        /\ Ends(f, "close", t) /\ UNCHANGED mishaps
     \/ /\ op[f].kind # t
        /\ IF op[f] = NoOp /\ row[f].status = t
           THEN Ends(f, "close", t) ELSE ending' = [ending EXCEPT ![f] = Idle]
        /\ UNCHANGED <<row, op, mishaps>>
  /\ UNCHANGED <<kept, disk, files, agent, start, removal>>

\* close_cancelled_resources: a checkout that is not owned is released, which
\* forgets its terminals; then the terminals on record are closed.
ClosesFinished(f) ==
  LET guest == row[f].status \in {"failed", "cancelled"} /\ ~row[f].owns
               /\ row[f].ref # None /\ ~row[f].released
  IN
  /\ ending[f].at = "close"
  /\ \/ /\ guest
        /\ row' = [row EXCEPT ![f] = Released(@)] /\ op' = [op EXCEPT ![f] = NoOp]
        /\ UNCHANGED <<agent, mishaps>>
     \/ /\ ~guest /\ row[f].owned
        /\ \/ /\ agent' = [agent EXCEPT ![f] = None] /\ UNCHANGED mishaps
              /\ row' = [row EXCEPT ![f].owned = FALSE]
           \/ Mishap /\ UNCHANGED <<agent, row>>
        /\ UNCHANGED op
     \/ ~guest /\ ~row[f].owned /\ UNCHANGED <<row, op, agent, mishaps>>
  /\ ending' = [ending EXCEPT ![f] = Idle]
  /\ UNCHANGED <<kept, disk, files, start, removal>>

\* stop_role_resources, by the coordinator or `workflow retire`.
StopsRole(f) ==
  /\ Quiet /\ row[f].status \in {"running", "completed", "cancelled", "failed"}
  /\ row[f].handle /\ kept[row[f].ref].state # "deleted" /\ ~row[f].released
  /\ \/ /\ agent' = [agent EXCEPT ![f] = IF row[f].owned THEN None ELSE @]
        /\ row' = [row EXCEPT ![f].owned = FALSE]
        /\ Ends(f, "release", "none") /\ UNCHANGED mishaps
     \/ row[f].owned /\ Mishap /\ UNCHANGED <<row, agent, ending>>
  /\ UNCHANGED <<op, kept, disk, files, start, removal>>

ReleasesRole(f) ==
  /\ ending[f].at = "release" /\ row[f].ref # None
  /\ kept' = Retained(row[f].ref, f, row[f].owns)
  /\ row' = [row EXCEPT ![f] = Released(@)] /\ op' = [op EXCEPT ![f] = NoOp]
  /\ ending' = [ending EXCEPT ![f] = Idle]
  /\ UNCHANGED <<disk, files, agent, start, removal, mishaps>>

\* claim_stale_reconciliation takes over what is in error or old.
ClaimsCleanup(f) ==
  /\ Quiet /\ (op[f] = NoOp \/ op[f].over)
  /\ row[f].ref # None /\ ~row[f].released /\ row[f].status # "completed"
  /\ op' = [op EXCEPT ![f] = [kind |-> "cancelled", over |-> FALSE]]
  /\ Ends(f, "clean", "cancelled")
  /\ UNCHANGED <<row, kept, disk, files, agent, start, removal, mishaps>>

CleansTerminals(f) ==
  /\ ending[f].at = "clean"
  /\ \/ /\ agent' = [agent EXCEPT ![f] = IF row[f].owned THEN None ELSE @]
        /\ Ends(f, "reconcile", "cancelled") /\ UNCHANGED <<op, mishaps>>
     \/ /\ row[f].owned /\ Mishap
        /\ op' = [op EXCEPT ![f].over = @ \/ op[f].kind \in {"cancelled", "completed", "failed"}]
        /\ ending' = [ending EXCEPT ![f] = Idle] /\ UNCHANGED agent
  /\ UNCHANGED <<row, kept, disk, files, start, removal>>

\* retain_worktree and complete_stale_reconciliation, which fails when the
\* claim was lost.
Reconciles(f) ==
  /\ ending[f].at = "reconcile"
  /\ kept' = Retained(row[f].ref, f, row[f].owns)
  /\ IF op[f].kind = "cancelled" /\ ~row[f].released /\ row[f].status # "completed"
     THEN /\ row' = [row EXCEPT ![f] = [@ EXCEPT !.released = TRUE,
                            !.status = IF Active(f) THEN "cancelled" ELSE row[f].status]]
          /\ op' = [op EXCEPT ![f] = NoOp]
     ELSE UNCHANGED <<row, op>>
  /\ ending' = [ending EXCEPT ![f] = Idle]
  /\ UNCHANGED <<disk, files, agent, start, removal, mishaps>>

\* Without a checkout a stale start is only cancelled.
CancelsStale(f) ==
  /\ ending[f].at = "idle" /\ row[f].status = "starting" /\ row[f].ref = None
  /\ row' = [row EXCEPT ![f].status = "cancelled"]
  /\ UNCHANGED <<op, kept, disk, files, agent, start, ending, removal, mishaps>>

EndingDies(f) ==
  /\ ending[f].at # "idle" /\ Mishap
  /\ ending' = [ending EXCEPT ![f] = Idle]
  /\ UNCHANGED <<row, op, kept, disk, files, agent, start, removal>>

ClaimAges(f) ==
  /\ op[f].kind # "none" /\ ~op[f].over /\ Mishap
  /\ op' = [op EXCEPT ![f].over = TRUE]
  /\ UNCHANGED <<row, kept, disk, files, agent, start, ending, removal>>

-----------------------------------------------------------------------------
\* `workflow remove-worktree`: remove_retained_worktree.

Goes(r, at) == removal' = [removal EXCEPT ![r].at = at]

\* inspect_worktree_removal: it is there, no agent lives in it, and what is in
\* it is what it started from unless that is to be discarded.
Removable(c, discard) ==
  /\ disk[c] = "present" /\ \A f \in Flows : agent[f] # c
  /\ files[c] = "start" \/ discard

Inspects(r) ==
  /\ removal[r].at = "idle"
  /\ \E c \in Creators, discard \in BOOLEAN :
       /\ kept[c].state = "retained" /\ kept[c].owns /\ Removable(c, discard)
       /\ removal' = [removal EXCEPT ![r] = [at |-> "claim", of |-> c,
                                             discard |-> discard, saw |-> files[c]]]
  /\ UNCHANGED <<row, op, kept, disk, files, agent, start, ending, mishaps>>

\* claim_worktree_removal.
ClaimsUnlessActive(r) ==   \* mutant: only an active workflow counts as an owner
  LET c == removal[r].of IN
  /\ removal[r].at = "claim"
  /\ IF kept[c].state = "retained" /\ kept[c].owns /\ ~\E f \in Flows : Owner(f, c) /\ Active(f)
     THEN kept' = [kept EXCEPT ![c].state = "removing"] /\ Goes(r, "look")
     ELSE UNCHANGED kept /\ removal' = [removal EXCEPT ![r] = NotRemoving]
  /\ UNCHANGED <<row, op, disk, files, agent, start, ending, mishaps>>
ClaimsRemoval(r) ==
  LET c == removal[r].of IN
  /\ removal[r].at = "claim"
  /\ IF kept[c].state = "retained" /\ kept[c].owns /\ ~\E f \in Flows : Owner(f, c)
     THEN kept' = [kept EXCEPT ![c].state = "removing"] /\ Goes(r, "look")
     ELSE UNCHANGED kept /\ removal' = [removal EXCEPT ![r] = NotRemoving]
  /\ UNCHANGED <<row, op, disk, files, agent, start, ending, mishaps>>

\* remove_worktree inspects twice and wants the same facts.
Looks(r) ==
  LET c == removal[r].of IN
  /\ removal[r].at = "look"
  /\ removal' = [removal EXCEPT ![r].saw = files[c],
       ![r].at = IF Removable(c, removal[r].discard) THEN "again" ELSE "error"]
  /\ UNCHANGED <<row, op, kept, disk, files, agent, start, ending, mishaps>>

LooksAgain(r) ==
  LET c == removal[r].of IN
  /\ removal[r].at = "again"
  /\ Goes(r, IF Removable(c, removal[r].discard) /\ files[c] = removal[r].saw
             THEN "remove" ELSE "error")
  /\ UNCHANGED <<row, op, kept, disk, files, agent, start, ending, mishaps>>

\* `worktree rm`, which without --force refuses changed files; the command
\* may fail or time out and the checkout be gone all the same.
Removes(r) ==
  LET c == removal[r].of
      allowed == files[c] = "start" \/ removal[r].discard
  IN
  /\ removal[r].at = "remove"
  /\ \/ /\ allowed /\ UNCHANGED mishaps
        /\ disk' = [disk EXCEPT ![c] = "gone"] /\ Goes(r, "done")
     \/ /\ IF allowed THEN Mishap ELSE UNCHANGED mishaps
        /\ disk' \in {disk} \cup IF allowed THEN {[disk EXCEPT ![c] = "gone"]} ELSE {}
        /\ Goes(r, "error")
  /\ UNCHANGED <<row, op, kept, files, agent, start, ending>>

\* finish_worktree_removal.
FinishesRemoval(r) ==
  /\ removal[r].at \in {"done", "error"}
  /\ kept' = [kept EXCEPT ![removal[r].of].state =
                IF removal[r].at = "done" THEN "deleted" ELSE "remove_failed"]
  /\ removal' = [removal EXCEPT ![r] = NotRemoving]
  /\ UNCHANGED <<row, op, disk, files, agent, start, ending, mishaps>>

RemoverDies(r) ==
  /\ removal[r].at # "idle" /\ Mishap
  /\ removal' = [removal EXCEPT ![r] = NotRemoving]
  /\ UNCHANGED <<row, op, kept, disk, files, agent, start, ending>>

-----------------------------------------------------------------------------
\* The agents, in Orca.
AgentWorks(f) ==
  /\ agent[f] # None
  /\ disk[agent[f]] = "present" /\ files' = [files EXCEPT ![agent[f]] = "work"]
  /\ UNCHANGED <<row, op, kept, disk, agent, start, ending, removal, mishaps>>

AgentExits(f) ==
  /\ agent[f] # None /\ Mishap
  /\ agent' = [agent EXCEPT ![f] = None]
  /\ UNCHANGED <<row, op, kept, disk, files, start, ending, removal>>

-----------------------------------------------------------------------------
Starts(f) ==
  \/ LooksUp(f) \/ ReleasesStale(f) \/ Reserves(f) \/ ChecksName(f) \/ NameIsTaken(f)
  \/ Allocates(f) \/ AllocationFails(f) \/ OpensAgent(f) \/ OpeningFails(f)
  \/ IdentityFails(f) \/ Attaches(f) \/ ClaimsActivation(f)
  \/ Activates(f) \/ CompletesActivation(f)
  \/ AttachesPartially(f) \/ ClosesAgent(f) \/ Keeps(f) \/ ReleasesStart(f)
  \/ MarksFailed(f) \/ StartDies(f)

EndsFlow(f) ==
  \/ \E t \in Outcomes : ClaimsFinish(f, t)
  \/ CompletesFinish(f) \/ ClosesFinished(f) \/ StopsRole(f) \/ ReleasesRole(f)
  \/ ClaimsCleanup(f) \/ CleansTerminals(f) \/ Reconciles(f) \/ CancelsStale(f)
  \/ EndingDies(f) \/ ClaimAges(f)

RemovesWorktree(r) ==
  \/ Inspects(r) \/ ClaimsRemoval(r) \/ Looks(r) \/ LooksAgain(r) \/ Removes(r)
  \/ FinishesRemoval(r) \/ RemoverDies(r)

Next ==
  \/ \E f \in Flows : Starts(f) \/ EndsFlow(f) \/ AgentWorks(f) \/ AgentExits(f)
  \/ \E r \in Removers : RemovesWorktree(r)

Spec == Init /\ [][Next]_vars

-----------------------------------------------------------------------------
RowType ==
  [status : {"requested", "starting", "running", "completed", "failed", "cancelled"},
   named : BOOLEAN, ref : Creators \cup {None}, owns : BOOLEAN, handle : BOOLEAN,
   owned : BOOLEAN, released : BOOLEAN]
OpType ==
  [kind : {"none", "activation", "completed", "failed", "cancelled"}, over : BOOLEAN]
KeptType ==
  [state : {"none", "retained", "removing", "remove_failed", "deleted"},
   by : Flows \cup {None}, owns : BOOLEAN]
StartType ==
  [at : StartPlaces, of : Creators \cup {None}, knows : BOOLEAN, handle : BOOLEAN,
   conflict : BOOLEAN, errors : BOOLEAN, stale : SUBSET Flows]
EndingType ==
  [at : EndingPlaces, target : {"none", "completed", "failed", "cancelled"}]
RemovalType ==
  [at : RemovalPlaces, of : Creators \cup {None}, discard : BOOLEAN,
   saw : {"start", "work"}]

\* The rows have the values the schema and the commands give them.
TypeOK ==
  /\ row \in [Flows -> RowType]
  /\ op \in [Flows -> OpType]
  /\ kept \in [Creators -> KeptType]
  /\ disk \in [Creators -> {"absent", "present", "gone"}]
  /\ files \in [Creators -> {"start", "work"}]
  /\ agent \in [Flows -> Creators \cup {None}]
  /\ start \in [Flows -> StartType]
  /\ ending \in [Flows -> EndingType]
  /\ removal \in [Removers -> RemovalType]
  /\ mishaps \in 0..MaxMishaps

\* A checkout that a workflow has on record and has not released is not being
\* deleted and is there, however a start, a cleanup and a removal interleave:
\* a start opens its agent before it records it, and a removal claims the
\* checkout between two inspections.
OwnedIsThere ==
  \A f \in Flows, c \in Creators :
    Owner(f, c) => disk[c] = "present" /\ kept[c].state \in {"none", "retained"}

\* A start that comes to its end with a checkout it knows it allocated leaves
\* that checkout on record, in the row of a workflow or in the ledger:
\* whichever step failed, whoever cancelled the workflow or cleaned it up
\* meanwhile, and whoever attached to the checkout before it did.
Recorded(c) == kept[c].state # "none" \/ \E f \in Flows : row[f].ref = c
NoCheckoutIsLost ==
  [][\A f \in Creators :
       start[f].at # "ended" /\ start'[f].at = "ended" /\ start[f].knows => Recorded(f)']_vars
=============================================================================
