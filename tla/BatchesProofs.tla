---------------------------- MODULE BatchesProofs ----------------------------
(***************************************************************************)
(* Theorems about Batches for every number of items and watchers: types,   *)
(* and that the parent is told of a whole batch.                           *)
(***************************************************************************)
EXTENDS Batches, TLAPS

\* The command has sealed the batch, which it does last.
Sealed == batch.status \in {"watching", "notified"}

\* What the command has tried while it goes through the file.
InFile == starter.at \in {"list", "start", "register"}
TriedSoFar ==
  /\ InFile => \A i \in Items : i < starter.item => Tried(i)
  /\ starter.at \in {"start", "register"} => starter.item \in Items
  /\ starter.at \in {"create", "launch"} \cup Watchers => starter.item = 1

SealedIsTried == Sealed => starter.at = "ended" /\ \A i \in Items : Tried(i)
WatchersWait ==
  \A w \in Watchers : watcher[w] \notin {"unused", "poll", "ended"} => Sealed
ToldAfterSeal ==
  /\ told => Sealed
  /\ batch.status = "notified" => told
  /\ \A w \in Watchers : watcher[w] = "mark" => told

Safe == TriedSoFar /\ SealedIsTried /\ WatchersWait /\ ToldAfterSeal
IInv == TypeOK /\ Safe

-----------------------------------------------------------------------------
\* Rows of items stay rows of items.
LEMMA ItemListed ==
  ASSUME TypeOK, NEW i \in Items, NEW s \in {"absent", "listed", "failed", "started"}
  PROVE  [item EXCEPT ![i].state = s] \in [Items -> ItemRow]
BY DEF TypeOK, ItemRow

LEMMA ItemSettled ==
  ASSUME TypeOK, NEW i \in Items, NEW b \in BOOLEAN
  PROVE  [item EXCEPT ![i].settled = b] \in [Items -> ItemRow]
BY DEF TypeOK, ItemRow

LEMMA NotedRow ==
  ASSUME TypeOK, NEW e \in {"none", "parent", "other"}
  PROVE  Noted(e) \in BatchRow /\ Noted(e).status = batch.status
BY DEF TypeOK, BatchRow, Noted

\* Every step keeps the types; that the command does not run past the last item
\* needs TriedSoFar.
LEMMA TypeStep ==
  ASSUME TypeOK, TriedSoFar, [Next]_vars PROVE TypeOK'
<1> USE BatchesAssumption DEF TypeOK, BatchRow, StarterPlaces, SupervisorPlaces, WatcherPlaces
<1>1. ASSUME CreatesBatch PROVE TypeOK'
  BY <1>1 DEF Items, CreatesBatch, NoBatch
<1>2. ASSUME LaunchesWatcher PROVE TypeOK'
  <2>1. (item \in [Items -> ItemRow])'
    BY <1>2 DEF Items, LaunchesWatcher, Launches
  <2>2. (batch \in BatchRow)'
    BY <1>2 DEF Items, LaunchesWatcher, Launches
  <2>3. (starter \in [at : StarterPlaces \cup Watchers, item : 1..(Size + 1)])'
    BY <1>2 DEF Items, LaunchesWatcher, Launches, TriedSoFar
  <2>4. (/\ watcher \in [Watchers -> WatcherPlaces]
        /\ supervisor \in [Items -> SupervisorPlaces \cup Watchers])'
    BY <1>2 DEF Items, LaunchesWatcher, Launches
  <2>5. (parent \in BOOLEAN /\ told \in BOOLEAN)'
    BY <1>2 DEF Items, LaunchesWatcher, Launches
  <2>6. (mishaps \in 0..MaxMishaps)'
    BY <1>2 DEF Items, LaunchesWatcher, Launches
  <2> QED BY Zenon, <2>1, <2>2, <2>3, <2>4, <2>5, <2>6 DEF TypeOK
<1>3. ASSUME RecordsWatcher PROVE TypeOK'
  BY <1>3 DEF Items, RecordsWatcher
<1>4. ASSUME WatcherFails PROVE TypeOK'
  BY <1>4 DEF Items, WatcherFails, NoBatch, Mishap
<1>5. ASSUME ListsItem PROVE TypeOK'
  <2>1. item' = [item EXCEPT ![starter.item].state = "listed"]
        \/ item' = [item EXCEPT ![starter.item].state = "failed"]
    BY <1>5, Zenon DEF ListsItem
  <2>2. starter.item \in Items
    BY <1>5 DEF ListsItem
  <2>3. [item EXCEPT ![starter.item].state = "listed"] \in [Items -> ItemRow]
    BY <2>2, ItemListed
  <2>4. [item EXCEPT ![starter.item].state = "failed"] \in [Items -> ItemRow]
    BY <2>2, ItemListed
  <2>5. (item \in [Items -> ItemRow])'
    BY <2>1, <2>3, <2>4
  <2>6. (batch \in BatchRow)'
    BY <1>5 DEF Items, ListsItem, Mishap
  <2>7. (starter \in [at : StarterPlaces \cup Watchers, item : 1..(Size + 1)])'
    BY <1>5 DEF Items, ListsItem, Mishap, TriedSoFar
  <2>8. (/\ watcher \in [Watchers -> WatcherPlaces]
        /\ supervisor \in [Items -> SupervisorPlaces \cup Watchers])'
    BY <1>5 DEF Items, ListsItem, Mishap
  <2>9. (parent \in BOOLEAN /\ told \in BOOLEAN)'
    BY <1>5 DEF Items, ListsItem, Mishap
  <2>10. (mishaps \in 0..MaxMishaps)'
    BY <1>5 DEF Items, ListsItem, Mishap
  <2> QED BY Zenon, <2>5, <2>6, <2>7, <2>8, <2>9, <2>10 DEF TypeOK
<1>6. ASSUME StartsItem PROVE TypeOK'
  <2>1. item' = item \/ item' = [item EXCEPT ![starter.item].state = "failed"]
    BY <1>6, Zenon DEF StartsItem
  <2>2. starter.item \in Items
    BY <1>6 DEF StartsItem, TriedSoFar
  <2>3. [item EXCEPT ![starter.item].state = "failed"] \in [Items -> ItemRow]
    BY <2>2, ItemListed
  <2>4. (item \in [Items -> ItemRow])'
    BY <2>1, <2>3
  <2>5. (batch \in BatchRow)'
    BY <1>6 DEF Items, StartsItem, Mishap
  <2>6. (starter \in [at : StarterPlaces \cup Watchers, item : 1..(Size + 1)])'
    BY <1>6 DEF Items, StartsItem, Mishap, TriedSoFar
  <2>7. (/\ watcher \in [Watchers -> WatcherPlaces]
        /\ supervisor \in [Items -> SupervisorPlaces \cup Watchers])'
    BY <1>6 DEF Items, StartsItem, Mishap
  <2>8. (parent \in BOOLEAN /\ told \in BOOLEAN)'
    BY <1>6 DEF Items, StartsItem, Mishap
  <2>9. (mishaps \in 0..MaxMishaps)'
    BY <1>6 DEF Items, StartsItem, Mishap
  <2> QED BY Zenon, <2>4, <2>5, <2>6, <2>7, <2>8, <2>9 DEF TypeOK
<1>7. ASSUME RegistersItem PROVE TypeOK'
  <2>1. item' = [item EXCEPT ![starter.item].state = "started"]
    BY <1>7, Zenon DEF RegistersItem
  <2>2. starter.item \in Items
    BY <1>7 DEF RegistersItem, TriedSoFar
  <2>3. (item \in [Items -> ItemRow])'
    BY <2>1, <2>2, ItemListed DEF TypeOK
  <2>4. (batch \in BatchRow)'
    BY <1>7 DEF Items, RegistersItem
  <2>5. (starter \in [at : StarterPlaces \cup Watchers, item : 1..(Size + 1)])'
    BY <1>7 DEF Items, RegistersItem, TriedSoFar
  <2>6. (/\ watcher \in [Watchers -> WatcherPlaces]
        /\ supervisor \in [Items -> SupervisorPlaces \cup Watchers])'
    BY <1>7 DEF Items, RegistersItem
  <2>7. (parent \in BOOLEAN /\ told \in BOOLEAN)'
    BY <1>7 DEF Items, RegistersItem
  <2>8. (mishaps \in 0..MaxMishaps)'
    BY <1>7 DEF Items, RegistersItem
  <2> QED BY Zenon, <2>3, <2>4, <2>5, <2>6, <2>7, <2>8 DEF TypeOK
<1>8. ASSUME Seals PROVE TypeOK'
  BY <1>8 DEF Items, Seals
<1>9. ASSUME StarterDies PROVE TypeOK'
  BY <1>9 DEF Items, StarterDies, Mishap
<1>10. ASSUME ClaimAges PROVE TypeOK'
  <2>1. (item \in [Items -> ItemRow])'
    BY <1>10 DEF Items, ClaimAges, Mishap, Alive
  <2>2. (batch \in BatchRow)'
    BY <1>10 DEF Items, ClaimAges, Mishap, Alive
  <2>3. (starter \in [at : StarterPlaces \cup Watchers, item : 1..(Size + 1)])'
    BY <1>10 DEF Items, ClaimAges, Mishap, Alive, TriedSoFar
  <2>4. (/\ watcher \in [Watchers -> WatcherPlaces]
        /\ supervisor \in [Items -> SupervisorPlaces \cup Watchers])'
    BY <1>10 DEF Items, ClaimAges, Mishap, Alive
  <2>5. (parent \in BOOLEAN /\ told \in BOOLEAN)'
    BY <1>10 DEF Items, ClaimAges, Mishap, Alive
  <2>6. (mishaps \in 0..MaxMishaps)'
    BY <1>10 DEF Items, ClaimAges, Mishap, Alive
  <2> QED BY Zenon, <2>1, <2>2, <2>3, <2>4, <2>5, <2>6 DEF TypeOK
<1>11. ASSUME ParentGoes PROVE TypeOK'
  <2>1. (item \in [Items -> ItemRow])'
    BY <1>11 DEF Items, ParentGoes, Mishap
  <2>2. (batch \in BatchRow)'
    BY <1>11 DEF Items, ParentGoes, Mishap
  <2>3. (starter \in [at : StarterPlaces \cup Watchers, item : 1..(Size + 1)])'
    BY <1>11 DEF Items, ParentGoes, Mishap, TriedSoFar
  <2>4. (/\ watcher \in [Watchers -> WatcherPlaces]
        /\ supervisor \in [Items -> SupervisorPlaces \cup Watchers])'
    BY <1>11 DEF Items, ParentGoes, Mishap
  <2>5. (parent \in BOOLEAN /\ told \in BOOLEAN)'
    BY <1>11 DEF Items, ParentGoes, Mishap
  <2>6. (mishaps \in 0..MaxMishaps)'
    BY <1>11 DEF Items, ParentGoes, Mishap
  <2> QED BY Zenon, <2>1, <2>2, <2>3, <2>4, <2>5, <2>6 DEF TypeOK
<1>12. ASSUME NEW i \in Items, Settles(i) PROVE TypeOK'
  <2>1. item' = [item EXCEPT ![i].settled = TRUE]
    BY <1>12, Zenon DEF Settles
  <2>2. (item \in [Items -> ItemRow])'
    BY <2>1, ItemSettled
  <2>3. (batch \in BatchRow)'
    BY <1>12 DEF Items, Settles
  <2>4. (starter \in [at : StarterPlaces \cup Watchers, item : 1..(Size + 1)])'
    BY <1>12 DEF Items, Settles, TriedSoFar
  <2>5. (/\ watcher \in [Watchers -> WatcherPlaces]
        /\ supervisor \in [Items -> SupervisorPlaces \cup Watchers])'
    BY <1>12 DEF Items, Settles
  <2>6. (parent \in BOOLEAN /\ told \in BOOLEAN)'
    BY <1>12 DEF Items, Settles
  <2>7. (mishaps \in 0..MaxMishaps)'
    BY <1>12 DEF Items, Settles
  <2> QED BY Zenon, <2>2, <2>3, <2>4, <2>5, <2>6, <2>7 DEF TypeOK
<1>13. ASSUME NEW i \in Items, Continues(i) PROVE TypeOK'
  <2>1. item' = [item EXCEPT ![i].settled = FALSE]
    BY <1>13, Zenon DEF Continues
  <2>2. (item \in [Items -> ItemRow])'
    BY <2>1, ItemSettled
  <2>3. (batch \in BatchRow)'
    BY <1>13 DEF Items, Continues, Mishap
  <2>4. (starter \in [at : StarterPlaces \cup Watchers, item : 1..(Size + 1)])'
    BY <1>13 DEF Items, Continues, Mishap, TriedSoFar
  <2>5. (/\ watcher \in [Watchers -> WatcherPlaces]
        /\ supervisor \in [Items -> SupervisorPlaces \cup Watchers])'
    BY <1>13 DEF Items, Continues, Mishap
  <2>6. (parent \in BOOLEAN /\ told \in BOOLEAN)'
    BY <1>13 DEF Items, Continues, Mishap
  <2>7. (mishaps \in 0..MaxMishaps)'
    BY <1>13 DEF Items, Continues, Mishap
  <2> QED BY Zenon, <2>2, <2>3, <2>4, <2>5, <2>6, <2>7 DEF TypeOK
<1>14. ASSUME NEW i \in Items, FindsWatcherGone(i) PROVE TypeOK'
  BY <1>14 DEF Items, FindsWatcherGone, Member, Alive
<1>15. ASSUME NEW i \in Items, ReplacesWatcher(i) PROVE TypeOK'
  BY <1>15 DEF Items, ReplacesWatcher, Launches
<1>16. ASSUME NEW i \in Items, RecordsReplacement(i) PROVE TypeOK'
  BY <1>16 DEF Items, RecordsReplacement
<1>17. ASSUME NEW i \in Items, RecoveryFails(i) PROVE TypeOK'
  <2>1. (item \in [Items -> ItemRow])'
    BY <1>17 DEF Items, RecoveryFails, Mishap, Noted
  <2>2. (batch \in BatchRow)'
    BY <1>17, NotedRow DEF RecoveryFails, Mishap, TypeOK
  <2>3. (starter \in [at : StarterPlaces \cup Watchers, item : 1..(Size + 1)])'
    BY <1>17 DEF Items, RecoveryFails, Mishap, Noted, TriedSoFar
  <2>4. (/\ watcher \in [Watchers -> WatcherPlaces]
        /\ supervisor \in [Items -> SupervisorPlaces \cup Watchers])'
    BY <1>17 DEF Items, RecoveryFails, Mishap, Noted
  <2>5. (parent \in BOOLEAN /\ told \in BOOLEAN)'
    BY <1>17 DEF Items, RecoveryFails, Mishap, Noted
  <2>6. (mishaps \in 0..MaxMishaps)'
    BY <1>17 DEF Items, RecoveryFails, Mishap, Noted
  <2> QED BY Zenon, <2>1, <2>2, <2>3, <2>4, <2>5, <2>6 DEF TypeOK
<1>18. ASSUME NEW i \in Items, SupervisorDies(i) PROVE TypeOK'
  BY <1>18 DEF Items, SupervisorDies, Mishap
<1>19. ASSUME NEW w \in Watchers, Polls(w) PROVE TypeOK'
  <2>1. /\ watcher[w] = "poll"
        /\ Goes(w, "ended") \/ (batch.status = "watching" /\ Goes(w, "claim"))
        /\ UNCHANGED <<batch, item, starter, supervisor, parent, told, mishaps>>
    BY <1>19, Zenon DEF Polls
  <2> QED BY <2>1 DEF Goes
<1>20. ASSUME NEW w \in Watchers, Claims(w) PROVE TypeOK'
  BY <1>20 DEF Items, Claims, Goes
<1>21. ASSUME NEW w \in Watchers, ChecksParent(w) PROVE TypeOK'
  <2>1. (item \in [Items -> ItemRow])'
    BY <1>21 DEF Items, ChecksParent, Goes, Noted
  <2>2. (batch \in BatchRow)'
    BY <1>21, NotedRow DEF ChecksParent, Goes, TypeOK
  <2>3. (starter \in [at : StarterPlaces \cup Watchers, item : 1..(Size + 1)])'
    BY <1>21 DEF Items, ChecksParent, Goes, Noted, TriedSoFar
  <2>4. (/\ watcher \in [Watchers -> WatcherPlaces]
        /\ supervisor \in [Items -> SupervisorPlaces \cup Watchers])'
    BY <1>21 DEF Items, ChecksParent, Goes, Noted
  <2>5. (parent \in BOOLEAN /\ told \in BOOLEAN)'
    BY <1>21 DEF Items, ChecksParent, Goes, Noted
  <2>6. (mishaps \in 0..MaxMishaps)'
    BY <1>21 DEF Items, ChecksParent, Goes, Noted
  <2> QED BY Zenon, <2>1, <2>2, <2>3, <2>4, <2>5, <2>6 DEF TypeOK
<1>22. ASSUME NEW w \in Watchers, Waits(w) PROVE TypeOK'
  BY <1>22 DEF Items, Waits, Goes
<1>23. ASSUME NEW w \in Watchers, Rereads(w) PROVE TypeOK'
  <2>1. (item \in [Items -> ItemRow])'
    BY <1>23 DEF Items, Rereads, Goes, Noted, Ready
  <2>2. (batch \in BatchRow)'
    BY <1>23, NotedRow DEF Rereads, Goes, Ready, TypeOK
  <2>3. (starter \in [at : StarterPlaces \cup Watchers, item : 1..(Size + 1)])'
    BY <1>23 DEF Items, Rereads, Goes, Noted, Ready, TriedSoFar
  <2>4. (/\ watcher \in [Watchers -> WatcherPlaces]
        /\ supervisor \in [Items -> SupervisorPlaces \cup Watchers])'
    BY <1>23 DEF Items, Rereads, Goes, Noted, Ready
  <2>5. (parent \in BOOLEAN /\ told \in BOOLEAN)'
    BY <1>23 DEF Items, Rereads, Goes, Noted, Ready
  <2>6. (mishaps \in 0..MaxMishaps)'
    BY <1>23 DEF Items, Rereads, Goes, Noted, Ready
  <2> QED BY Zenon, <2>1, <2>2, <2>3, <2>4, <2>5, <2>6 DEF TypeOK
<1>24. ASSUME NEW w \in Watchers, Sends(w) PROVE TypeOK'
  BY <1>24 DEF Items, Sends, Goes
<1>25. ASSUME NEW w \in Watchers, Marks(w) PROVE TypeOK'
  <2>1. (item \in [Items -> ItemRow])'
    BY <1>25 DEF Items, Marks, Goes
  <2>2. (batch \in BatchRow)'
    BY <1>25 DEF Items, Marks, Goes
  <2>3. (starter \in [at : StarterPlaces \cup Watchers, item : 1..(Size + 1)])'
    BY <1>25 DEF Items, Marks, Goes, TriedSoFar
  <2>4. (/\ watcher \in [Watchers -> WatcherPlaces]
        /\ supervisor \in [Items -> SupervisorPlaces \cup Watchers])'
    BY <1>25 DEF Items, Marks, Goes
  <2>5. (parent \in BOOLEAN /\ told \in BOOLEAN)'
    BY <1>25 DEF Items, Marks, Goes
  <2>6. (mishaps \in 0..MaxMishaps)'
    BY <1>25 DEF Items, Marks, Goes
  <2> QED BY Zenon, <2>1, <2>2, <2>3, <2>4, <2>5, <2>6 DEF TypeOK
<1>26. ASSUME NEW w \in Watchers, NotesFailure(w) PROVE TypeOK'
  <2>1. (item \in [Items -> ItemRow])'
    BY <1>26 DEF Items, NotesFailure, Goes, Noted
  <2>2. (batch \in BatchRow)'
    BY <1>26, NotedRow DEF NotesFailure, Goes, TypeOK
  <2>3. (starter \in [at : StarterPlaces \cup Watchers, item : 1..(Size + 1)])'
    BY <1>26 DEF Items, NotesFailure, Goes, Noted, TriedSoFar
  <2>4. (/\ watcher \in [Watchers -> WatcherPlaces]
        /\ supervisor \in [Items -> SupervisorPlaces \cup Watchers])'
    BY <1>26 DEF Items, NotesFailure, Goes, Noted
  <2>5. (parent \in BOOLEAN /\ told \in BOOLEAN)'
    BY <1>26 DEF Items, NotesFailure, Goes, Noted
  <2>6. (mishaps \in 0..MaxMishaps)'
    BY <1>26 DEF Items, NotesFailure, Goes, Noted
  <2> QED BY Zenon, <2>1, <2>2, <2>3, <2>4, <2>5, <2>6 DEF TypeOK
<1>27. ASSUME NEW w \in Watchers, CallFails(w) PROVE TypeOK'
  BY <1>27 DEF Items, CallFails, Goes, Mishap
<1>28. ASSUME NEW w \in Watchers, WatcherDies(w) PROVE TypeOK'
  BY <1>28 DEF Items, WatcherDies, Goes, Mishap
<1>29. ASSUME UNCHANGED vars PROVE TypeOK'
  BY <1>29 DEF vars, TypeOK
<1> HIDE DEF TypeOK
<1> QED
  BY <1>1, <1>2, <1>3, <1>4, <1>5, <1>6, <1>7, <1>8, <1>9, <1>10, <1>11, <1>12, <1>13, <1>14,
     <1>15, <1>16, <1>17, <1>18, <1>19, <1>20, <1>21, <1>22, <1>23, <1>24, <1>25, <1>26,
        <1>27, <1>28, <1>29 DEF Next, Works, Maintains

\* Every step keeps what the command and the watchers have agreed on.
LEMMA SafeStep ==
  ASSUME TypeOK, Safe, [Next]_vars PROVE Safe'
<1> USE BatchesAssumption DEF Safe, TriedSoFar, InFile, SealedIsTried, WatchersWait,
   ToldAfterSeal, Sealed, Tried,
            TypeOK, BatchRow, ItemRow, Items, StarterPlaces, WatcherPlaces
<1>1. ASSUME CreatesBatch PROVE Safe'
  BY <1>1 DEF CreatesBatch, NoBatch
<1>2. ASSUME LaunchesWatcher PROVE Safe'
  BY <1>2 DEF LaunchesWatcher, Launches
<1>3. ASSUME RecordsWatcher PROVE Safe'
  <2>1. TriedSoFar'
    BY <1>3 DEF RecordsWatcher
  <2>2. SealedIsTried'
    BY <1>3 DEF RecordsWatcher
  <2>3. WatchersWait'
    BY <1>3 DEF RecordsWatcher
  <2>4. ToldAfterSeal'
    BY <1>3 DEF RecordsWatcher
  <2> QED BY <2>1, <2>2, <2>3, <2>4 DEF Safe
<1>4. ASSUME WatcherFails PROVE Safe'
  BY <1>4 DEF WatcherFails, NoBatch, Mishap
<1>5. ASSUME ListsItem PROVE Safe'
  <2>1. TriedSoFar'
    <3>1. \A i \in Items : i # starter.item => item'[i] = item[i]
      BY <1>5, Zenon DEF ListsItem
    <3>2. starter'.item # starter.item => item'[starter.item].state = "failed"
      BY <1>5 DEF ListsItem
    <3>3. starter.at = "list" /\ starter.item \in Items
      BY <1>5 DEF ListsItem
    <3>4. \/ starter' = [starter EXCEPT !.at = "start"]
          \/ starter' = [starter EXCEPT !.item = @ + 1]
      BY <1>5 DEF ListsItem
    <3>5. starter.item \in Nat /\ starter'.item \in Nat
      BY <3>3, <3>4 DEF Items
    <3>6. ASSUME NEW i \in Items, i < starter'.item PROVE Tried(i)'
      <4>1. CASE i = starter.item
        BY <3>2, <3>4, <3>5, <3>6, <4>1
      <4>2. CASE i # starter.item
        <5>1. i < starter.item
          <6>1. starter'.item = starter.item \/ starter'.item = starter.item + 1
            BY <3>4
          <6> QED BY <3>5, <3>6, <4>2, <6>1 DEF Items
        <5>2. Tried(i)
          BY <3>3, <5>1 DEF TriedSoFar, InFile
        <5> QED BY <3>1, <4>2, <5>2 DEF Tried
      <4> QED BY <4>1, <4>2
    <3>7. starter'.at \in {"list", "start",
       "register"} /\ (starter'.at # "list" => starter'.item \in Items)
      BY <3>3, <3>4
    <3> QED BY <3>6, <3>7 DEF TriedSoFar
  <2>2. SealedIsTried'
    BY <1>5 DEF ListsItem, Mishap
  <2>3. WatchersWait'
    BY <1>5 DEF ListsItem, Mishap
  <2>4. ToldAfterSeal'
    BY <1>5 DEF ListsItem, Mishap
  <2> QED BY <2>1, <2>2, <2>3, <2>4 DEF Safe
<1>6. ASSUME StartsItem PROVE Safe'
  <2>1. TriedSoFar'
    <3>1. \A i \in Items : i # starter.item => item'[i] = item[i]
      BY <1>6, Zenon DEF StartsItem
    <3>2. starter'.item # starter.item => item'[starter.item].state = "failed"
      BY <1>6 DEF StartsItem
    <3>3. starter.at = "start" /\ starter.item \in Items
      BY <1>6 DEF StartsItem
    <3>4. \/ starter' = [starter EXCEPT !.at = "register"]
          \/ starter' = [at |-> "list", item |-> starter.item + 1]
      BY <1>6 DEF StartsItem
    <3>5. starter.item \in Nat /\ starter'.item \in Nat
      BY <3>3, <3>4 DEF Items
    <3>6. ASSUME NEW i \in Items, i < starter'.item PROVE Tried(i)'
      <4>1. CASE i = starter.item
        BY <3>2, <3>4, <3>5, <3>6, <4>1
      <4>2. CASE i # starter.item
        <5>1. i < starter.item
          <6>1. starter'.item = starter.item \/ starter'.item = starter.item + 1
            BY <3>4
          <6> QED BY <3>5, <3>6, <4>2, <6>1 DEF Items
        <5>2. Tried(i)
          BY <3>3, <5>1 DEF TriedSoFar, InFile
        <5> QED BY <3>1, <4>2, <5>2 DEF Tried
      <4> QED BY <4>1, <4>2
    <3>7. starter'.at \in {"list", "start",
       "register"} /\ (starter'.at # "list" => starter'.item \in Items)
      BY <3>3, <3>4
    <3> QED BY <3>6, <3>7 DEF TriedSoFar
  <2>2. SealedIsTried'
    BY <1>6 DEF StartsItem, Mishap
  <2>3. WatchersWait'
    BY <1>6 DEF StartsItem, Mishap
  <2>4. ToldAfterSeal'
    BY <1>6 DEF StartsItem, Mishap
  <2> QED BY <2>1, <2>2, <2>3, <2>4 DEF Safe
<1>7. ASSUME RegistersItem PROVE Safe'
  BY <1>7 DEF RegistersItem
<1>8. ASSUME Seals PROVE Safe'
  BY <1>8 DEF Seals
<1>9. ASSUME StarterDies PROVE Safe'
  BY <1>9 DEF StarterDies, Mishap
<1>10. ASSUME ClaimAges PROVE Safe'
  BY <1>10 DEF ClaimAges, Mishap, Alive
<1>11. ASSUME ParentGoes PROVE Safe'
  BY <1>11 DEF ParentGoes, Mishap
<1>12. ASSUME NEW i \in Items, Settles(i) PROVE Safe'
  BY <1>12 DEF Settles
<1>13. ASSUME NEW i \in Items, Continues(i) PROVE Safe'
  BY <1>13 DEF Continues, Mishap
<1>14. ASSUME NEW i \in Items, FindsWatcherGone(i) PROVE Safe'
  BY <1>14 DEF FindsWatcherGone, Member, Alive
<1>15. ASSUME NEW i \in Items, ReplacesWatcher(i) PROVE Safe'
  BY <1>15 DEF ReplacesWatcher, Launches
<1>16. ASSUME NEW i \in Items, RecordsReplacement(i) PROVE Safe'
  BY <1>16 DEF RecordsReplacement
<1>17. ASSUME NEW i \in Items, RecoveryFails(i) PROVE Safe'
  BY <1>17 DEF RecoveryFails, Mishap, Noted
<1>18. ASSUME NEW i \in Items, SupervisorDies(i) PROVE Safe'
  BY <1>18 DEF SupervisorDies, Mishap
<1>19. ASSUME NEW w \in Watchers, Polls(w) PROVE Safe'
  <2>1. /\ watcher[w] = "poll"
        /\ Goes(w, "ended") \/ (batch.status = "watching" /\ Goes(w, "claim"))
        /\ UNCHANGED <<batch, item, starter, supervisor, parent, told, mishaps>>
    BY <1>19, Zenon DEF Polls
  <2> QED BY <2>1 DEF Goes
<1>20. ASSUME NEW w \in Watchers, Claims(w) PROVE Safe'
  BY <1>20 DEF Claims, Goes
<1>21. ASSUME NEW w \in Watchers, ChecksParent(w) PROVE Safe'
  <2>1. TriedSoFar'
    BY <1>21 DEF ChecksParent, Goes, Noted
  <2>2. SealedIsTried'
    BY <1>21 DEF ChecksParent, Goes, Noted
  <2>3. WatchersWait'
    BY <1>21 DEF ChecksParent, Goes, Noted
  <2>4. batch'.status = batch.status
    BY <1>21, NotedRow DEF ChecksParent
  <2>5. ToldAfterSeal'
    BY <1>21, <2>4, Zenon DEF ChecksParent, Goes
  <2> QED BY <2>1, <2>2, <2>3, <2>5 DEF Safe
<1>22. ASSUME NEW w \in Watchers, Waits(w) PROVE Safe'
  BY <1>22 DEF Waits, Goes
<1>23. ASSUME NEW w \in Watchers, Rereads(w) PROVE Safe'
  <2>1. TriedSoFar'
    BY <1>23 DEF Rereads, Goes, Noted, Ready
  <2>2. SealedIsTried'
    BY <1>23 DEF Rereads, Goes, Noted, Ready
  <2>3. WatchersWait'
    BY <1>23 DEF Rereads, Goes, Noted, Ready
  <2>4. batch'.status = batch.status
    BY <1>23, NotedRow DEF Rereads
  <2>5. ToldAfterSeal'
    BY <1>23, <2>4, Zenon DEF Rereads, Goes
  <2> QED BY <2>1, <2>2, <2>3, <2>5 DEF Safe
<1>24. ASSUME NEW w \in Watchers, Sends(w) PROVE Safe'
  BY <1>24 DEF Sends, Goes
<1>25. ASSUME NEW w \in Watchers, Marks(w) PROVE Safe'
  BY <1>25 DEF Marks, Goes
<1>26. ASSUME NEW w \in Watchers, NotesFailure(w) PROVE Safe'
  BY <1>26 DEF NotesFailure, Goes, Noted
<1>27. ASSUME NEW w \in Watchers, CallFails(w) PROVE Safe'
  BY <1>27 DEF CallFails, Goes, Mishap
<1>28. ASSUME NEW w \in Watchers, WatcherDies(w) PROVE Safe'
  BY <1>28 DEF WatcherDies, Goes, Mishap
<1>29. ASSUME UNCHANGED vars PROVE Safe'
  BY <1>29 DEF vars
<1> HIDE DEF Safe
<1> QED
  BY <1>1, <1>2, <1>3, <1>4, <1>5, <1>6, <1>7, <1>8, <1>9, <1>10, <1>11, <1>12, <1>13, <1>14,
     <1>15, <1>16, <1>17, <1>18, <1>19, <1>20, <1>21, <1>22, <1>23, <1>24, <1>25, <1>26,
        <1>27, <1>28, <1>29 DEF Next, Works, Maintains

-----------------------------------------------------------------------------
LEMMA InitHolds == Init => IInv
<1> SUFFICES ASSUME Init PROVE IInv
  OBVIOUS
<1>1. batch \in BatchRow /\ item \in [Items -> ItemRow]
  BY BatchesAssumption DEF Init, NoBatch, BatchRow, ItemRow
<1>2. starter \in [at : StarterPlaces \cup Watchers, item : 1..(Size + 1)]
  BY BatchesAssumption DEF Init, StarterPlaces
<1>3. /\ watcher \in [Watchers -> WatcherPlaces]
      /\ supervisor \in [Items -> SupervisorPlaces \cup Watchers]
  BY DEF Init, WatcherPlaces, SupervisorPlaces
<1>4. parent \in BOOLEAN /\ told \in BOOLEAN
  BY Zenon DEF Init
<1>6. mishaps \in 0..MaxMishaps
  BY BatchesAssumption DEF Init
<1>5. Safe
  BY BatchesAssumption DEF Init, NoBatch, Safe, TriedSoFar, InFile, SealedIsTried,
     WatchersWait, ToldAfterSeal, Sealed, Items, StarterPlaces
<1> QED BY <1>1, <1>2, <1>3, <1>4, <1>5, <1>6, Zenon DEF IInv, TypeOK

LEMMA InvariantHolds == Spec => []IInv
<1>1. IInv /\ [Next]_vars => IInv'
  BY TypeStep, SafeStep DEF IInv, Safe
<1> QED BY InitHolds, <1>1, PTL DEF Spec

\* Every reachable state is typed: the command does not run past the file, and
\* no process is at a place it does not have.
THEOREM TypeCorrect == Spec => []TypeOK
<1>1. IInv => TypeOK
  BY DEF IInv
<1> QED BY InvariantHolds, <1>1, PTL

\* The parent is told only of a batch whose items were all tried, and the batch
\* is over only when the parent was told, with any number of items, watchers and
\* mishaps.
THEOREM ToldIsWholeHolds == Spec => []ToldIsWhole
<1>1. IInv => ToldIsWhole
  BY DEF IInv, Safe, SealedIsTried, ToldAfterSeal, ToldIsWhole
<1> QED BY InvariantHolds, <1>1, PTL
=============================================================================
