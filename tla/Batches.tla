------------------------------- MODULE Batches ------------------------------
(***************************************************************************)
(* One batch of workflows that a parent agent starts and is told about     *)
(* (`workflow start --batch --notify-terminal`).  The command creates the  *)
(* batch and the terminal of its watcher, starts one item after the other  *)
(* and seals the batch.  The watcher polls the batch; when every item is   *)
(* settled it claims the notification, waits for the parent, reads the     *)
(* batch again, prompts the parent and records that it did.  The           *)
(* supervisors of the started items replace a watcher that stopped, so     *)
(* there may be several.  When a report settles an item is in Outbox.      *)
(***************************************************************************)
EXTENDS Naturals, FiniteSets

CONSTANTS
  Size,          \* items of the file, in its order
  Orchestrated,  \* the items of that mode; the others are single
  Watchers,      \* bound: watcher processes at a time
  MaxMishaps,    \* bound: deaths, failed calls, delays, changes of mind
  None

\* Where the command and a supervisor are while they do not hold a new watcher.
StarterPlaces == {"create", "launch", "list", "start", "register", "ended"}
SupervisorPlaces == {"off", "idle", "replace"}
WatcherPlaces == {"unused", "poll", "claim", "check", "wait", "reread", "send", "mark",
                  "fail", "ended"}

ASSUME BatchesAssumption ==
  /\ Size \in Nat \ {0} /\ Orchestrated \subseteq 1..Size
  /\ MaxMishaps \in Nat /\ None \notin Watchers
  /\ Watchers \cap (StarterPlaces \cup SupervisorPlaces) = {}

Items == 1..Size

VARIABLES
  batch,       \* batch_runs: status, watcher_handle, notification_error and
               \* notification_claim, with whether the claim is over 5 minutes old
  item,        \* batch_items and the state of the workflow behind each
  starter,     \* what the command that starts the batch is at
  watcher,     \* what each watcher process is at
  supervisor,  \* what the supervisor of each started item is at
  parent,      \* whether the parent's terminal is there
  told,        \* whether the parent was ever given the summary
  mishaps

vars == <<batch, item, starter, watcher, supervisor, parent, told, mishaps>>

NoBatch == [status |-> "none", watcher |-> None, error |-> "none",
            claim |-> None, stale |-> FALSE]

Mishap == mishaps < MaxMishaps /\ mishaps' = mishaps + 1

-----------------------------------------------------------------------------
\* status: an item that is listed without an error or a workflow counts as
\* running, and a batch that is not sealed is not ready.
Tried(i) == item[i].state \in {"failed", "started"}
Running(i) == item[i].state # "failed" /\ ~item[i].settled
AllSettled == \A i \in Items : item[i].state # "absent" => ~Running(i)
Ready == batch.status # "starting" /\ AllSettled

\* terminal_is_valid of a watcher: its process is there.
Alive(w) == w # None /\ watcher[w] \notin {"unused", "ended"}

\* A batch that is not notified makes its members look after its watcher.
Member(i) == item[i].state = "started" /\ batch.status \in {"starting", "watching"}

\* note_notification_error: whoever calls it clears the claim, of whomever.
Noted(e) == IF batch.status = "watching"
            THEN [batch EXCEPT !.error = e, !.claim = None, !.stale = FALSE]
            ELSE batch

-----------------------------------------------------------------------------
Init ==
  /\ batch = NoBatch
  /\ item = [i \in Items |-> [state |-> "absent", settled |-> FALSE]]
  /\ starter = [at |-> "create", item |-> 1]
  /\ watcher = [w \in Watchers |-> "unused"]
  /\ supervisor = [i \in Items |-> "off"]
  /\ parent = TRUE /\ told = FALSE /\ mishaps = 0

-----------------------------------------------------------------------------
\* The command: _cmd_start_batch.

CreatesBatch ==
  /\ starter.at = "create"
  /\ batch' = [NoBatch EXCEPT !.status = "starting"]
  /\ starter' = [starter EXCEPT !.at = "launch"]
  /\ UNCHANGED <<item, watcher, supervisor, parent, told, mishaps>>

Launches(w) ==
  /\ watcher[w] \in {"unused", "ended"} /\ batch.claim # w
  /\ watcher' = [watcher EXCEPT ![w] = "poll"]

LaunchesWatcher ==
  /\ starter.at = "launch"
  /\ \E w \in Watchers :
       Launches(w) /\ starter' = [starter EXCEPT !.at = w]
  /\ UNCHANGED <<batch, item, supervisor, parent, told, mishaps>>

\* set_watcher.
RecordsWatcher ==
  /\ starter.at \in Watchers
  /\ batch' = [batch EXCEPT !.watcher = starter.at]
  /\ starter' = [starter EXCEPT !.at = "list"]
  /\ UNCHANGED <<item, watcher, supervisor, parent, told, mishaps>>

\* Without its watcher the batch is taken back: remove_empty.
WatcherFails ==
  /\ starter.at \in {"launch"} \cup Watchers /\ Mishap
  /\ watcher' = [w \in Watchers |-> IF w = starter.at THEN "ended" ELSE watcher[w]]
  /\ batch' = NoBatch
  /\ starter' = [starter EXCEPT !.at = "ended"]
  /\ UNCHANGED <<item, supervisor, parent, told>>

\* The next item is checked and listed, or is in error and listed as such.
ListsItem ==
  LET i == starter.item IN
  /\ starter.at = "list" /\ i \in Items
  /\ \/ /\ item' = [item EXCEPT ![i].state = "listed"]
        /\ starter' = [starter EXCEPT !.at = "start"]
        /\ UNCHANGED mishaps
     \/ /\ Mishap
        /\ item' = [item EXCEPT ![i].state = "failed"]
        /\ starter' = [starter EXCEPT !.item = @ + 1]
  /\ UNCHANGED <<batch, watcher, supervisor, parent, told>>

\* _start_one: the workflow runs, and may report, before the batch knows it.
StartsItem ==
  /\ starter.at = "start"
  /\ \/ starter' = [starter EXCEPT !.at = "register"] /\ UNCHANGED <<item, mishaps>>
     \/ /\ Mishap
        /\ item' = [item EXCEPT ![starter.item].state = "failed"]
        /\ starter' = [at |-> "list", item |-> starter.item + 1]
  /\ UNCHANGED <<batch, watcher, supervisor, parent, told>>

RegistersItem ==
  /\ starter.at = "register"
  /\ item' = [item EXCEPT ![starter.item].state = "started"]
  /\ supervisor' = [supervisor EXCEPT ![starter.item] = "idle"]
  /\ starter' = [at |-> "list", item |-> starter.item + 1]
  /\ UNCHANGED <<batch, watcher, parent, told, mishaps>>

SealsAnyway ==   \* mutant: in a finally
  /\ starter.at \in {"list", "register"}
  /\ batch' = [batch EXCEPT !.status = IF @ = "starting" THEN "watching" ELSE @]
  /\ starter' = [starter EXCEPT !.at = "ended"]
  /\ UNCHANGED <<item, watcher, supervisor, parent, told, mishaps>>
Seals ==
  /\ starter.at = "list" /\ starter.item \notin Items
  /\ batch' = [batch EXCEPT !.status = IF @ = "starting" THEN "watching" ELSE @]
  /\ starter' = [starter EXCEPT !.at = "ended"]
  /\ UNCHANGED <<item, watcher, supervisor, parent, told, mishaps>>

\* The command dies, or cannot register what it started: the batch stays
\* "starting", and nobody seals it.
StarterDies ==
  /\ starter.at \notin {"create", "ended"} /\ Mishap
  /\ starter' = [starter EXCEPT !.at = "ended"]
  /\ UNCHANGED <<batch, item, watcher, supervisor, parent, told>>

-----------------------------------------------------------------------------
\* The started workflows.

\* A final report or an outcome.  The supervisor of a single workflow goes on
\* until the workflow is finished, that of an orchestration ends with it.
Settles(i) ==
  /\ item[i].state = "started" /\ ~item[i].settled
  /\ item' = [item EXCEPT ![i].settled = TRUE]
  /\ supervisor' = [supervisor EXCEPT ![i] = IF i \in Orchestrated THEN "off" ELSE @]
  /\ UNCHANGED <<batch, starter, watcher, parent, told, mishaps>>

\* A resume, a retry or a new request makes it run again.
Continues(i) ==
  /\ item[i].settled /\ Mishap
  /\ item' = [item EXCEPT ![i].settled = FALSE]
  /\ supervisor' = [supervisor EXCEPT ![i] = IF @ = "off" THEN "idle" ELSE @]
  /\ UNCHANGED <<batch, starter, watcher, parent, told>>

\* _maintain_batch_watchers: the row, then the terminal, are looked at ...
FindsWatcherGone(i) ==
  /\ supervisor[i] = "idle" /\ Member(i)
  /\ batch.error # "parent" /\ ~Alive(batch.watcher)
  /\ supervisor' = [supervisor EXCEPT ![i] = "replace"]
  /\ UNCHANGED <<batch, item, starter, watcher, parent, told, mishaps>>

\* ... a new one is launched ...
ReplacesWatcher(i) ==
  /\ supervisor[i] = "replace"
  /\ \E w \in Watchers :
       Launches(w) /\ supervisor' = [supervisor EXCEPT ![i] = w]
  /\ UNCHANGED <<batch, item, starter, parent, told, mishaps>>

\* ... and recorded (set_watcher).
RecordsReplacement(i) ==
  /\ supervisor[i] \in Watchers
  /\ batch' = IF batch.status \in {"starting", "watching"}
              THEN [batch EXCEPT !.watcher = supervisor[i]] ELSE batch
  /\ supervisor' = [supervisor EXCEPT ![i] = "idle"]
  /\ UNCHANGED <<item, starter, watcher, parent, told, mishaps>>

\* Any of these calls failed.
RecoveryFails(i) ==
  /\ supervisor[i] \in {"replace"} \cup Watchers /\ Mishap
  /\ batch' = Noted("other")
  /\ supervisor' = [supervisor EXCEPT ![i] = "idle"]
  /\ UNCHANGED <<item, starter, watcher, parent, told>>

SupervisorDies(i) ==
  /\ supervisor[i] # "off" /\ Mishap
  /\ supervisor' = [supervisor EXCEPT ![i] = "off"]
  /\ UNCHANGED <<batch, item, starter, watcher, parent, told>>

-----------------------------------------------------------------------------
\* A watcher: _cmd_batch_watch, one transaction or call at a time.

Goes(w, at) == watcher' = [watcher EXCEPT ![w] = at]

Polls(w) ==
  /\ watcher[w] = "poll"
  /\ \/ batch.status \in {"none", "notified"} /\ Goes(w, "ended")
     \/ batch.status = "watching" /\ Ready /\ Goes(w, "claim")
  /\ UNCHANGED <<batch, item, starter, supervisor, parent, told, mishaps>>

ClaimsIfFree(w) ==   \* mutant
  LET free == batch.status = "watching" /\ batch.claim = None IN
  /\ watcher[w] = "claim"
  /\ batch' = IF free THEN [batch EXCEPT !.claim = w] ELSE batch
  /\ Goes(w, IF free THEN "check" ELSE "poll")
  /\ UNCHANGED <<item, starter, supervisor, parent, told, mishaps>>

\* claim_notification: free, or claimed more than five minutes ago.
Claims(w) ==
  LET free == batch.status = "watching" /\ (batch.claim = None \/ batch.stale) IN
  /\ watcher[w] = "claim"
  /\ batch' = IF free THEN [batch EXCEPT !.claim = w, !.stale = FALSE] ELSE batch
  /\ Goes(w, IF free THEN "check" ELSE "poll")
  /\ UNCHANGED <<item, starter, supervisor, parent, told, mishaps>>

ChecksParent(w) ==
  /\ watcher[w] = "check"
  /\ IF parent THEN Goes(w, "wait") /\ UNCHANGED batch
               ELSE Goes(w, "ended") /\ batch' = Noted("parent")
  /\ UNCHANGED <<item, starter, supervisor, parent, told, mishaps>>

\* wait_for_agent: the parent is idle.
Waits(w) ==
  /\ watcher[w] = "wait"
  /\ Goes(w, "reread")
  /\ UNCHANGED <<batch, item, starter, supervisor, parent, told, mishaps>>

Rereads(w) ==
  /\ watcher[w] = "reread"
  /\ IF Ready THEN Goes(w, "send") /\ UNCHANGED batch
              ELSE Goes(w, "poll") /\ batch' = Noted("other")
  /\ UNCHANGED <<item, starter, supervisor, parent, told, mishaps>>

Sends(w) ==
  /\ watcher[w] = "send" /\ parent
  /\ told' = TRUE
  /\ Goes(w, "mark")
  /\ UNCHANGED <<batch, item, starter, supervisor, parent, mishaps>>

\* mark_notified: by the claim of this watcher, or not at all.
Marks(w) ==
  LET mine == batch.status = "watching" /\ batch.claim = w IN
  /\ watcher[w] = "mark"
  /\ batch' = IF mine
              THEN [batch EXCEPT !.status = "notified", !.error = "none",
                                 !.claim = None, !.stale = FALSE]
              ELSE batch
  /\ Goes(w, IF mine THEN "ended" ELSE "fail")
  /\ UNCHANGED <<item, starter, supervisor, parent, told, mishaps>>

\* A call fails: the parent does not come to rest, the prompt is refused.
CallFails(w) ==
  /\ watcher[w] \in {"wait", "send"}
  /\ Mishap \/ (~parent /\ UNCHANGED mishaps)
  /\ Goes(w, "fail")
  /\ UNCHANGED <<batch, item, starter, supervisor, parent, told>>

NotesFailure(w) ==
  /\ watcher[w] = "fail"
  /\ batch' = Noted("other")
  /\ Goes(w, "poll")
  /\ UNCHANGED <<item, starter, supervisor, parent, told, mishaps>>

WatcherDies(w) ==
  /\ Alive(w) /\ Mishap
  /\ Goes(w, "ended")
  /\ UNCHANGED <<batch, item, starter, supervisor, parent, told>>

\* Five minutes go by: while its watcher still works they are a mishap.
ClaimAges ==
  /\ batch.claim # None /\ ~batch.stale
  /\ IF Alive(batch.claim) THEN Mishap ELSE UNCHANGED mishaps
  /\ batch' = [batch EXCEPT !.stale = TRUE]
  /\ UNCHANGED <<item, starter, watcher, supervisor, parent, told>>

ParentGoes ==
  /\ parent /\ Mishap
  /\ parent' = FALSE
  /\ UNCHANGED <<batch, item, starter, watcher, supervisor, told>>

-----------------------------------------------------------------------------
Works(w) ==
  \/ Polls(w) \/ Claims(w) \/ ChecksParent(w) \/ Waits(w) \/ Rereads(w)
  \/ Sends(w) \/ Marks(w) \/ NotesFailure(w)
Maintains(i) ==
  FindsWatcherGone(i) \/ ReplacesWatcher(i) \/ RecordsReplacement(i)

Next ==
  \/ CreatesBatch \/ LaunchesWatcher \/ RecordsWatcher \/ WatcherFails
  \/ ListsItem \/ StartsItem \/ RegistersItem \/ Seals \/ StarterDies
  \/ \E i \in Items :
       \/ Settles(i) \/ Continues(i)
       \/ Maintains(i) \/ RecoveryFails(i) \/ SupervisorDies(i)
  \/ \E w \in Watchers : Works(w) \/ CallFails(w) \/ WatcherDies(w)
  \/ ClaimAges \/ ParentGoes

Spec == Init /\ [][Next]_vars

\* Watchers and supervisors run on (they sleep a second at a time, and may
\* find the claim taken each time they look: SF), and time passes.
FairSpec ==
  /\ Spec /\ WF_vars(ClaimAges)
  /\ \A w \in Watchers : SF_vars(Works(w))
  /\ \A i \in Items : WF_vars(Maintains(i))

-----------------------------------------------------------------------------
BatchRow ==
  [status : {"none", "starting", "watching", "notified"}, watcher : Watchers \cup {None},
   error : {"none", "parent", "other"}, claim : Watchers \cup {None}, stale : BOOLEAN]
ItemRow == [state : {"absent", "listed", "failed", "started"}, settled : BOOLEAN]

TypeOK ==
  /\ batch \in BatchRow
  /\ item \in [Items -> ItemRow]
  /\ starter \in [at : StarterPlaces \cup Watchers, item : 1..(Size + 1)]
  /\ watcher \in [Watchers -> WatcherPlaces]
  /\ supervisor \in [Items -> SupervisorPlaces \cup Watchers]
  /\ parent \in BOOLEAN /\ told \in BOOLEAN
  /\ mishaps \in 0..MaxMishaps

\* The parent is told when every item of the file was tried, and never before;
\* the batch is over only when the parent was told (claim_notification,
\* mark_notified): with several watchers, claims that are taken over, and a
\* command that dies half way.
ToldIsWhole ==
  /\ told => \A i \in Items : Tried(i)
  /\ batch.status = "notified" => told

\* A batch whose items are settled is told to the parent in the end, whichever
\* watcher dies with the claim and whichever call fails, as long as it stays
\* settled, the parent is there, and somebody is left to do it: a watcher or the
\* supervisor of a member (the specification: "a stopped watcher is restarted
\* by an active member's supervisor").  That the batch is then marked notified
\* does not follow: NotesFailure of one watcher clears the claim of the other,
\* and two of them may prompt the parent in turn for as long as they go on.
Attended == \E w \in Watchers : Alive(w) \/ \E i \in Items : supervisor[i] # "off"
BatchIsTold ==
  (batch.status = "watching" /\ AllSettled)
    ~> (told \/ ~AllSettled \/ ~parent \/ ~Attended)
=============================================================================
