--------------------------- MODULE WorktreesProofs ---------------------------
(***************************************************************************)
(* Theorems about Worktrees for every number of workflows, commands and    *)
(* mishaps: types, that what a workflow owns is not deleted, and that no   *)
(* start that ends loses the checkout it allocated.                        *)
(***************************************************************************)
EXTENDS Worktrees, TLAPS

\* The checkout that a start or a row refers to was allocated.
StartIsThere == \A f \in Flows : start[f].of # None => disk[start[f].of] # "absent"
RowIsThere == \A f \in Flows : row[f].ref # None => disk[row[f].ref] # "absent"

\* A start that records or closes something knows of which checkout.
StartKnows ==
  \A f \in Flows :
    \/ start[f].knows \/ start[f].at = "attach"
    \/ f \in Attachers /\ start[f].at \in {"reserve", "name", "call"}
    => start[f].of # None

\* A command that completes a finish knows its outcome.
EndingKnows ==
  \A f \in Flows : ending[f].at = "complete" => ending[f].target # "none"
NotOwnedWhileDeleting ==
  \A f \in Flows, c \in Creators : Owner(f, c) => ~Deleting(c)
GoneIsDeleted == \A c \in Creators : disk[c] = "gone" => Deleting(c)
RemovalHolds ==
  \A r \in Removers :
    /\ removal[r].at # "idle" => removal[r].of # None
    /\ removal[r].at \in {"look", "again", "remove", "done", "error"}
         => Deleting(removal[r].of)

Safe ==
  /\ EndingKnows /\ StartIsThere /\ RowIsThere /\ StartKnows
  /\ NotOwnedWhileDeleting /\ GoneIsDeleted /\ RemovalHolds
IInv == TypeOK /\ Safe

-----------------------------------------------------------------------------
\* Updates that several actions make.
LEMMA RowReleased ==
  ASSUME TypeOK, NEW f \in Flows
  PROVE  [row EXCEPT ![f] = Released(row[f])] \in [Flows -> RowType]
BY DEF TypeOK, RowType, Released

LEMMA AttachedRow ==
  ASSUME NEW r \in RowType, NEW c \in Creators \cup {None}, NEW f
  PROVE  [r EXCEPT !.ref = c, !.handle = TRUE, !.owned = TRUE, !.owns = f \in Creators]
           \in RowType
<1> DEFINE owns == f \in Creators
<1>1. owns \in BOOLEAN
  OBVIOUS
<1> HIDE DEF owns
<1>2. [r EXCEPT !.ref = c, !.handle = TRUE, !.owned = TRUE, !.owns = owns] \in RowType
  BY <1>1 DEF RowType
<1> QED BY <1>2 DEF owns

LEMMA OpenedStart ==
  ASSUME NEW r \in StartType
  PROVE  [r EXCEPT !.at = "attach", !.knows = TRUE, !.handle = TRUE] \in StartType
BY DEF StartType, StartPlaces

LEMMA OpCleared ==
  ASSUME TypeOK, NEW f \in Flows
  PROVE  [op EXCEPT ![f] = NoOp] \in [Flows -> OpType]
BY DEF TypeOK, OpType, NoOp

LEMMA StartTo ==
  ASSUME TypeOK, NEW f \in Flows, NEW at \in StartPlaces
  PROVE  [start EXCEPT ![f].at = at] \in [Flows -> StartType]
BY DEF TypeOK, StartType

LEMMA StartExits ==
  ASSUME TypeOK, NEW f \in Flows, NEW at \in StartPlaces
  PROVE  [start EXCEPT ![f] = [NewStart EXCEPT !.at = at]] \in [Flows -> StartType]
BY DEF TypeOK, StartType, NewStart

LEMMA KeptRetained ==
  ASSUME TypeOK, NEW c, NEW f \in Flows, NEW b \in BOOLEAN
  PROVE  Retained(c, f, b) \in [Creators -> KeptType]
BY DEF TypeOK, KeptType, Retained

\* Most steps of a start leave it with the checkout it has, or with none.
StartMoves ==
  \A g \in Flows :
    \/ start'[g] = start[g]
    \/ /\ start'[g].at \notin {"reserve", "name", "call", "attach"}
       /\ \/ start'[g].of = start[g].of /\ start'[g].knows = start[g].knows
          \/ start'[g].of = None /\ ~start'[g].knows

LEMMA ToMoves ==
  ASSUME TypeOK, NEW f \in Flows,
         NEW at \in StartPlaces \ {"reserve", "name", "call", "attach"}, To(f, at)
  PROVE  StartMoves
BY DEF TypeOK, StartType, StartMoves, To

LEMMA ExitMoves ==
  ASSUME TypeOK, NEW f \in Flows, NEW at \in {"ended", "died"}, Exits(f, at)
  PROVE  StartMoves
BY DEF TypeOK, StartMoves, Exits, NewStart

LEMMA StartMoved ==
  ASSUME StartMoves, StartIsThere, StartKnows, UNCHANGED disk
  PROVE  StartIsThere' /\ StartKnows'
BY DEF StartMoves, StartIsThere, StartKnows

\* No row but that of a start gets a checkout, and none is owned again.
StillReleased ==
  \A g \in Flows : row'[g].ref = row[g].ref /\ (row[g].released => row'[g].released)

\* Retaining a checkout does not make it one that is being deleted.
LEMMA RetainedStays ==
  ASSUME TypeOK, NEW c, NEW f, NEW b, kept' = Retained(c, f, b)
  PROVE  \A d \in Creators : Deleting(d)' = Deleting(d)
BY DEF TypeOK, KeptType, Retained, Deleting

\* Every step keeps the types.
LEMMA TypeStep ==
  ASSUME TypeOK, EndingKnows, [Next]_vars PROVE TypeOK'
<1>1. row \in [Flows -> RowType]
  BY DEF TypeOK
<1>2. op \in [Flows -> OpType]
  BY DEF TypeOK
<1>3. kept \in [Creators -> KeptType]
  BY DEF TypeOK
<1>4. disk \in [Creators -> {"absent", "present", "gone"}]
  BY DEF TypeOK
<1>5. files \in [Creators -> {"start", "work"}]
  BY DEF TypeOK
<1>6. agent \in [Flows -> Creators \cup {None}]
  BY DEF TypeOK
<1>7. start \in [Flows -> StartType]
  BY DEF TypeOK
<1>8. ending \in [Flows -> EndingType]
  BY DEF TypeOK
<1>9. removal \in [Removers -> RemovalType]
  BY DEF TypeOK
<1>10. mishaps \in 0..MaxMishaps
  BY DEF TypeOK
<1>0. TypeOK
  OBVIOUS
<1>11. ASSUME NEW f \in Flows, LooksUp(f) PROVE TypeOK'
  <2>1. UNCHANGED <<row, op, kept, disk, files, agent, ending, removal, mishaps>>
    BY <1>11 DEF LooksUp
  <2>2. (start \in [Flows -> StartType])'
    <3>1. PICK c \in Creators :
            start' = [start EXCEPT ![f] = [NewStart EXCEPT !.at = "reserve", !.of = c,
                                             !.stale = {g \in Flows : Owner(g, c)}]]
      BY <1>11 DEF LooksUp
    <3>2. [NewStart EXCEPT !.at = "reserve", !.of = c, !.stale = {g \in Flows : Owner(g, c)}]
            \in StartType
      BY DEF NewStart, StartType, StartPlaces
    <3> QED BY <1>7, <3>1, <3>2
  <2> QED BY <1>0, <2>1, <2>2, Zenon DEF TypeOK
<1>12. ASSUME NEW f \in Flows, ReleasesStale(f) PROVE TypeOK'
  <2>1. UNCHANGED <<kept, disk, files, agent, ending, removal, mishaps>>
    BY <1>12 DEF ReleasesStale
  <2>2. (row \in [Flows -> RowType])'
    BY <1>12, <1>1 DEF ReleasesStale, Released, RowType
  <2>3. (op \in [Flows -> OpType])'
    BY <1>12, <1>2 DEF ReleasesStale, Released, OpType, NoOp
  <2>4. (start \in [Flows -> StartType])'
    <3>1. start' = [start EXCEPT ![f].stale = {}]
      BY <1>12 DEF ReleasesStale
    <3> QED BY <1>7, <3>1 DEF StartType
  <2> QED BY <1>0, <2>1, <2>2, <2>3, <2>4, Zenon DEF TypeOK
<1>13. ASSUME NEW f \in Flows, Reserves(f) PROVE TypeOK'
  <2>1. UNCHANGED <<op, kept, disk, files, agent, ending, removal, mishaps>>
    BY <1>13 DEF Reserves
  <2>2. (row \in [Flows -> RowType])'
    <3>1. PICK named \in BOOLEAN :
            row' = [row EXCEPT ![f] = [@ EXCEPT !.status = "starting", !.named = named]]
      BY <1>13 DEF Reserves
    <3>2. [row[f] EXCEPT !.status = "starting", !.named = named] \in RowType
      BY <1>1 DEF RowType
    <3> QED BY <1>1, <3>1, <3>2
  <2>3. (start \in [Flows -> StartType])'
    BY <1>13, <1>7 DEF Reserves, To, StartType, StartPlaces, Flows
  <2> QED BY <1>0, <2>1, <2>2, <2>3, Zenon DEF TypeOK
<1>14. ASSUME NEW f \in Flows, ChecksName(f) PROVE TypeOK'
  <2>1. UNCHANGED <<kept, disk, files, agent, ending, removal>>
    BY <1>14 DEF ChecksName
  <2>2. (row \in [Flows -> RowType])'
    <3>1. \/ UNCHANGED <<row, op, mishaps>>
          \/ \E g \in Flows : row' = [row EXCEPT ![g] = Released(row[g])]
      BY <1>14 DEF ChecksName
    <3> QED BY <1>1, <3>1, RowReleased
  <2>3. (op \in [Flows -> OpType])'
    <3>1. \/ UNCHANGED <<row, op, mishaps>>
          \/ \E g \in Flows : op' = [op EXCEPT ![g] = NoOp]
      BY <1>14 DEF ChecksName
    <3> QED BY <1>2, <3>1, OpCleared
  <2>4. (start \in [Flows -> StartType])'
    <3>1. \/ To(f, "call")
          \/ start' = [start EXCEPT ![f].at = "fail", ![f].conflict = TRUE]
      BY <1>14 DEF ChecksName
    <3> QED BY <1>7, <3>1 DEF To, StartType, StartPlaces
  <2>5. (mishaps \in 0..MaxMishaps)'
    <3>1. UNCHANGED mishaps \/ UNCHANGED <<row, op, mishaps>> \/ Mishap
      BY <1>14 DEF ChecksName
    <3> QED BY <1>10, <3>1, WorktreesAssumption DEF Mishap
  <2> QED BY <1>0, <2>1, <2>2, <2>3, <2>4, <2>5, Zenon DEF TypeOK
<1>15. ASSUME NEW f \in Flows, NameIsTaken(f) PROVE TypeOK'
  <2>1. UNCHANGED <<row, op, kept, disk, files, agent, ending, removal>>
    BY <1>15 DEF NameIsTaken
  <2>2. (start \in [Flows -> StartType])'
    BY <1>15, <1>7 DEF NameIsTaken, To, Mishap, StartType, StartPlaces, Flows
  <2>3. (mishaps \in 0..MaxMishaps)'
    BY <1>15, <1>10, WorktreesAssumption DEF NameIsTaken, To, Mishap
  <2> QED BY <1>0, <2>1, <2>2, <2>3, Zenon DEF TypeOK
<1>16. ASSUME NEW f \in Flows, Allocates(f) PROVE TypeOK'
  <2>1. UNCHANGED <<row, op, kept, files, ending, removal, mishaps>>
    BY <1>16 DEF Allocates
  <2>2. (disk \in [Creators -> {"absent", "present", "gone"}])'
    BY <1>16, <1>4 DEF Allocates
  <2>3. (agent \in [Flows -> Creators \cup {None}])'
    BY <1>16, <1>6 DEF Allocates
  <2>4. (start \in [Flows -> StartType])'
    <3>1. [NewStart EXCEPT !.at = "attach", !.of = f, !.knows = TRUE, !.handle = TRUE]
            \in StartType
      BY <1>16 DEF Allocates, NewStart, StartType, StartPlaces
    <3> QED BY <1>16, <1>7, <3>1 DEF Allocates
  <2> QED BY <1>0, <2>1, <2>2, <2>3, <2>4, Zenon DEF TypeOK
<1>17. ASSUME NEW f \in Flows, AllocationFails(f) PROVE TypeOK'
  <2>1. UNCHANGED <<row, op, kept, files, ending, removal>>
    BY <1>17 DEF AllocationFails
  <2>2. (disk \in [Creators -> {"absent", "present", "gone"}])'
    BY <1>17, <1>4 DEF AllocationFails, Mishap
  <2>3. (agent \in [Flows -> Creators \cup {None}])'
    BY <1>17, <1>6 DEF AllocationFails, Mishap
  <2>4. (start \in [Flows -> StartType])'
    <3>1. PICK receipt \in BOOLEAN, handle \in BOOLEAN :
            start' = [start EXCEPT ![f] = [NewStart EXCEPT !.at = "fail",
                        !.of = IF receipt THEN f ELSE None,
                        !.knows = receipt, !.handle = handle]]
      BY <1>17 DEF AllocationFails
    <3>2. [NewStart EXCEPT !.at = "fail", !.of = IF receipt THEN f ELSE None,
             !.knows = receipt, !.handle = handle] \in StartType
      BY <1>17 DEF AllocationFails, NewStart, StartType, StartPlaces
    <3> QED BY <1>7, <3>1, <3>2
  <2>5. (mishaps \in 0..MaxMishaps)'
    BY <1>17, <1>10, WorktreesAssumption DEF AllocationFails, Mishap
  <2> QED BY <1>0, <2>1, <2>2, <2>3, <2>4, <2>5, Zenon DEF TypeOK
<1>18. ASSUME NEW f \in Flows, OpensAgent(f) PROVE TypeOK'
  <2>1. UNCHANGED <<row, op, kept, disk, files, ending, removal, mishaps>>
    BY <1>18 DEF OpensAgent
  <2>2. (agent \in [Flows -> Creators \cup {None}])'
    BY <1>18, <1>6, <1>7 DEF OpensAgent, StartType, StartPlaces
  <2>3. (start \in [Flows -> StartType])'
    <3>1. [start[f] EXCEPT !.at = "attach", !.knows = TRUE, !.handle = TRUE] \in StartType
      BY <1>7, OpenedStart
    <3> QED BY <1>18, <1>7, <3>1 DEF OpensAgent
  <2> QED BY <1>0, <2>1, <2>2, <2>3, Zenon DEF TypeOK
<1>19. ASSUME NEW f \in Flows, OpeningFails(f) PROVE TypeOK'
  <2>1. UNCHANGED <<row, op, kept, disk, files, ending, removal>>
    BY <1>19 DEF OpeningFails
  <2>2. (agent \in [Flows -> Creators \cup {None}])'
    BY <1>19, <1>6, <1>7 DEF OpeningFails, To, Mishap, StartType, StartPlaces
  <2>3. (start \in [Flows -> StartType])'
    BY <1>19, <1>7 DEF OpeningFails, To, Mishap, StartType, StartPlaces, Flows
  <2>4. (mishaps \in 0..MaxMishaps)'
    BY <1>19, <1>10, WorktreesAssumption DEF OpeningFails, To, Mishap
  <2> QED BY <1>0, <2>1, <2>2, <2>3, <2>4, Zenon DEF TypeOK
<1>20. ASSUME NEW f \in Flows, IdentityFails(f) PROVE TypeOK'
  <2>1. UNCHANGED <<row, op, kept, disk, files, agent, ending, removal>>
    BY <1>20 DEF IdentityFails
  <2>2. (start \in [Flows -> StartType])'
    BY <1>20, <1>7 DEF IdentityFails, To, Mishap, StartType, StartPlaces, Flows
  <2>3. (mishaps \in 0..MaxMishaps)'
    BY <1>20, <1>10, WorktreesAssumption DEF IdentityFails, To, Mishap
  <2> QED BY <1>0, <2>1, <2>2, <2>3, Zenon DEF TypeOK
<1>21. ASSUME NEW f \in Flows, Attaches(f) PROVE TypeOK'
  <2>1. UNCHANGED <<op, kept, disk, files, agent, ending, removal, mishaps>>
    BY <1>21 DEF Attaches
  <2>2. (row \in [Flows -> RowType])'
    <3>1. \/ row' = row
          \/ row' = [row EXCEPT ![f] = [row[f] EXCEPT !.ref = start[f].of, !.handle = TRUE,
                                       !.owned = TRUE, !.owns = (f \in Creators)]]
      BY <1>21 DEF Attaches
    <3>2. start[f].of \in Creators \cup {None}
      BY <1>7 DEF StartType
    <3>3. [row[f] EXCEPT !.ref = start[f].of, !.handle = TRUE, !.owned = TRUE] \in RowType
      BY <1>1, <3>2 DEF RowType
    <3>4. row[f] \in RowType
      BY <1>1
    <3>5. [row[f] EXCEPT !.ref = start[f].of, !.handle = TRUE, !.owned = TRUE,
                          !.owns = (f \in Creators)] \in RowType
      BY <3>2, <3>4, AttachedRow
    <3> QED BY <1>1, <3>1, <3>5
  <2>3. (start \in [Flows -> StartType])'
    BY <1>21, <1>7 DEF Attaches, To, Refused, StartType, StartPlaces, Flows
  <2> QED BY <1>0, <2>1, <2>2, <2>3, Zenon DEF TypeOK
<1>22. ASSUME NEW f \in Flows, ClaimsActivation(f) PROVE TypeOK'
  <2>1. UNCHANGED <<row, kept, disk, files, agent, ending, removal, mishaps>>
    BY <1>22 DEF ClaimsActivation
  <2>2. (op \in [Flows -> OpType])'
    BY <1>22, <1>2 DEF ClaimsActivation, To, OpType, NoOp
  <2>3. (start \in [Flows -> StartType])'
    BY <1>22, <1>7 DEF ClaimsActivation, To, StartType, StartPlaces, Flows
  <2> QED BY <1>0, <2>1, <2>2, <2>3, Zenon DEF TypeOK
<1>23. ASSUME NEW f \in Flows, Activates(f) PROVE TypeOK'
  <2>1. UNCHANGED <<row, kept, disk, files, agent, ending, removal>>
    BY <1>23 DEF Activates
  <2>2. (op \in [Flows -> OpType])'
    <3>1. op' = op \/ op' = [op EXCEPT ![f] = NoOp]
      BY <1>23, <1>2 DEF Activates
    <3> QED BY <1>2, <3>1, OpCleared
  <2>3. (start \in [Flows -> StartType])'
    BY <1>23, <1>7 DEF Activates, To, Mishap, StartType, StartPlaces, Flows
  <2>4. (mishaps \in 0..MaxMishaps)'
    BY <1>23, <1>10, WorktreesAssumption DEF Activates, To, Mishap
  <2> QED BY <1>0, <2>1, <2>2, <2>3, <2>4, Zenon DEF TypeOK
<1>24. ASSUME NEW f \in Flows, CompletesActivation(f) PROVE TypeOK'
  <2>1. UNCHANGED <<kept, disk, files, agent, ending, removal, mishaps>>
    BY <1>24 DEF CompletesActivation
  <2>2. (row \in [Flows -> RowType])'
    BY <1>24, <1>1 DEF CompletesActivation, Exits, NewStart, NoOp, RowType
  <2>3. (op \in [Flows -> OpType])'
    <3>1. op' = op \/ op' = [op EXCEPT ![f] = NoOp]
      BY <1>24 DEF CompletesActivation
    <3> QED BY <1>2, <3>1, OpCleared
  <2>4. (start \in [Flows -> StartType])'
    <3>1. Exits(f, "ended") \/ To(f, "fail")
      BY <1>24 DEF CompletesActivation
    <3>2. [start EXCEPT ![f].at = "fail"] \in [Flows -> StartType]
      BY StartTo DEF StartPlaces
    <3>3. [start EXCEPT ![f] = [NewStart EXCEPT !.at = "ended"]] \in [Flows -> StartType]
      BY StartExits DEF StartPlaces
    <3> QED BY <3>1, <3>2, <3>3 DEF To, Exits
  <2> QED BY <1>0, <2>1, <2>2, <2>3, <2>4, Zenon DEF TypeOK
<1>25. ASSUME NEW f \in Flows, AttachesPartially(f) PROVE TypeOK'
  <2>1. UNCHANGED <<op, kept, disk, files, agent, ending, removal, mishaps>>
    BY <1>25 DEF AttachesPartially
  <2>2. (row \in [Flows -> RowType])'
    <3>1. UNCHANGED row \/ row' = [row EXCEPT ![f].ref = start[f].of]
      BY <1>25 DEF AttachesPartially
    <3>2. start[f].of \in Creators \cup {None}
      BY <1>7 DEF StartType
    <3> QED BY <1>1, <3>1, <3>2 DEF RowType
  <2>3. (start \in [Flows -> StartType])'
    BY <1>25, <1>7, <1>1 DEF AttachesPartially, To, Refused, StartType, StartPlaces,
       RowType, Flows
  <2> QED BY <1>0, <2>1, <2>2, <2>3, Zenon DEF TypeOK
<1>26. ASSUME NEW f \in Flows, ClosesAgent(f) PROVE TypeOK'
  <2>1. UNCHANGED <<row, op, kept, disk, files, ending, removal>>
    BY <1>26 DEF ClosesAgent
  <2>2. (agent \in [Flows -> Creators \cup {None}])'
    BY <1>26, <1>6 DEF ClosesAgent, Mishap
  <2>3. (start \in [Flows -> StartType])'
    BY <1>26, <1>7, <1>1 DEF ClosesAgent, Mishap, StartType, StartPlaces, RowType, Flows
  <2>4. (mishaps \in 0..MaxMishaps)'
    BY <1>26, <1>10, WorktreesAssumption DEF ClosesAgent, Mishap
  <2> QED BY <1>0, <2>1, <2>2, <2>3, <2>4, Zenon DEF TypeOK
<1>27. ASSUME NEW f \in Flows, Keeps(f) PROVE TypeOK'
  <2>1. UNCHANGED <<row, op, disk, files, agent, ending, removal, mishaps>>
    BY <1>27 DEF Keeps
  <2>2. (kept \in [Creators -> KeptType])'
    <3> DEFINE owns == f \in Creators
    <3>1. UNCHANGED kept \/ kept' = Retained(start[f].of, f, owns)
      BY <1>27 DEF Keeps
    <3>2. owns \in BOOLEAN
      OBVIOUS
    <3> HIDE DEF owns
    <3> QED BY <1>3, <3>1, <3>2, KeptRetained
  <2>3. (start \in [Flows -> StartType])'
    BY <1>27, <1>7 DEF Keeps, To, Retained, StartType, StartPlaces, Flows
  <2> QED BY <1>0, <2>1, <2>2, <2>3, Zenon DEF TypeOK
<1>28. ASSUME NEW f \in Flows, ReleasesStart(f) PROVE TypeOK'
  <2>1. UNCHANGED <<kept, disk, files, agent, ending, removal, mishaps>>
    BY <1>28 DEF ReleasesStart
  <2>2. (row \in [Flows -> RowType])'
    BY <1>28, <1>1 DEF ReleasesStart, To, Released, RowType
  <2>3. (op \in [Flows -> OpType])'
    BY <1>28, <1>2 DEF ReleasesStart, To, Released, OpType, NoOp
  <2>4. (start \in [Flows -> StartType])'
    BY <1>28, <1>7 DEF ReleasesStart, To, Released, StartType, StartPlaces, Flows
  <2> QED BY <1>0, <2>1, <2>2, <2>3, <2>4, Zenon DEF TypeOK
<1>29. ASSUME NEW f \in Flows, MarksFailed(f) PROVE TypeOK'
  <2>1. UNCHANGED <<op, kept, disk, files, agent, ending, removal, mishaps>>
    BY <1>29 DEF MarksFailed
  <2>2. (row \in [Flows -> RowType])'
    BY <1>29, <1>1 DEF MarksFailed, Exits, NewStart, RowType
  <2>3. (start \in [Flows -> StartType])'
    BY <1>29, <1>7 DEF MarksFailed, Exits, NewStart, StartType, StartPlaces, Flows
  <2> QED BY <1>0, <2>1, <2>2, <2>3, Zenon DEF TypeOK
<1>30. ASSUME NEW f \in Flows, StartDies(f) PROVE TypeOK'
  <2>1. UNCHANGED <<row, op, kept, disk, files, agent, ending, removal>>
    BY <1>30 DEF StartDies
  <2>2. (start \in [Flows -> StartType])'
    BY <1>30, <1>7 DEF StartDies, Exits, NewStart, Mishap, StartType, StartPlaces, Flows
  <2>3. (mishaps \in 0..MaxMishaps)'
    BY <1>30, <1>10, WorktreesAssumption DEF StartDies, Exits, NewStart, Mishap
  <2> QED BY <1>0, <2>1, <2>2, <2>3, Zenon DEF TypeOK
<1>31. ASSUME NEW f \in Flows, CompletesFinish(f) PROVE TypeOK'
  <2>1. UNCHANGED <<kept, disk, files, agent, start, removal>>
    BY <1>31 DEF CompletesFinish
  <2>2. (row \in [Flows -> RowType])'
    <3>1. UNCHANGED row \/ row' = [row EXCEPT ![f].status = ending[f].target]
      BY <1>31 DEF CompletesFinish
    <3>2. ending[f].target \in {"completed", "failed", "cancelled"}
      BY <1>31, <1>8 DEF CompletesFinish, EndingKnows, EndingType
    <3>3. [row EXCEPT ![f].status = ending[f].target] \in [Flows -> RowType]
      BY <1>1, <3>2 DEF RowType
    <3> QED BY <1>1, <3>1, <3>3
  <2>3. (op \in [Flows -> OpType])'
    <3>1. \/ UNCHANGED op \/ op' = [op EXCEPT ![f] = NoOp]
          \/ \E b \in BOOLEAN : op' = [op EXCEPT ![f].over = b]
      BY <1>31 DEF CompletesFinish
    <3>2. ASSUME NEW b \in BOOLEAN PROVE [op EXCEPT ![f].over = b] \in [Flows -> OpType]
      BY <1>2 DEF OpType
    <3> QED BY <1>2, <3>1, <3>2, OpCleared
  <2>4. (ending \in [Flows -> EndingType])'
    BY <1>31, <1>8 DEF CompletesFinish, Ends, Idle, Mishap, EndingType, EndingPlaces
  <2>5. (mishaps \in 0..MaxMishaps)'
    BY <1>31, <1>10, WorktreesAssumption DEF CompletesFinish, Ends, Idle, Mishap
  <2> QED BY <1>0, <2>1, <2>2, <2>3, <2>4, <2>5, Zenon DEF TypeOK
<1>32. ASSUME NEW f \in Flows, ClosesFinished(f) PROVE TypeOK'
  <2>1. UNCHANGED <<kept, disk, files, start, removal>>
    BY <1>32 DEF ClosesFinished
  <2>2. (row \in [Flows -> RowType])'
    <3>1. \/ UNCHANGED row \/ row' = [row EXCEPT ![f] = Released(row[f])]
          \/ row' = [row EXCEPT ![f].owned = FALSE]
      BY <1>32 DEF ClosesFinished
    <3>2. [row EXCEPT ![f].owned = FALSE] \in [Flows -> RowType]
      BY <1>1 DEF RowType
    <3> QED BY <1>1, <3>1, <3>2, RowReleased
  <2>3. (op \in [Flows -> OpType])'
    <3>1. op' = op \/ op' = [op EXCEPT ![f] = NoOp]
      BY <1>32 DEF ClosesFinished
    <3> QED BY <1>2, <3>1, OpCleared
  <2>4. (agent \in [Flows -> Creators \cup {None}])'
    BY <1>32, <1>6 DEF ClosesFinished, Released, Idle, Mishap
  <2>5. (ending \in [Flows -> EndingType])'
    BY <1>32, <1>8 DEF ClosesFinished, Released, Idle, Mishap, EndingType, EndingPlaces
  <2>6. (mishaps \in 0..MaxMishaps)'
    BY <1>32, <1>10, WorktreesAssumption DEF ClosesFinished, Released, Idle, Mishap
  <2> QED BY <1>0, <2>1, <2>2, <2>3, <2>4, <2>5, <2>6, Zenon DEF TypeOK
<1>33. ASSUME NEW f \in Flows, StopsRole(f) PROVE TypeOK'
  <2>1. UNCHANGED <<op, kept, disk, files, start, removal>>
    BY <1>33 DEF StopsRole
  <2>2. (row \in [Flows -> RowType])'
    <3>1. row' = row \/ row' = [row EXCEPT ![f].owned = FALSE]
      BY <1>33 DEF StopsRole
    <3> QED BY <1>1, <3>1 DEF RowType
  <2>3. (agent \in [Flows -> Creators \cup {None}])'
    BY <1>33, <1>6 DEF StopsRole, Ends, Mishap
  <2>4. (ending \in [Flows -> EndingType])'
    BY <1>33, <1>8 DEF StopsRole, Ends, Mishap, EndingType, EndingPlaces
  <2>5. (mishaps \in 0..MaxMishaps)'
    BY <1>33, <1>10, WorktreesAssumption DEF StopsRole, Ends, Mishap
  <2> QED BY <1>0, <2>1, <2>2, <2>3, <2>4, <2>5, Zenon DEF TypeOK
<1>34. ASSUME NEW f \in Flows, ReleasesRole(f) PROVE TypeOK'
  <2>1. UNCHANGED <<disk, files, agent, start, removal, mishaps>>
    BY <1>34 DEF ReleasesRole
  <2>2. (row \in [Flows -> RowType])'
    BY <1>34, <1>1 DEF ReleasesRole, Released, Retained, Idle, RowType
  <2>3. (op \in [Flows -> OpType])'
    BY <1>34, <1>2 DEF ReleasesRole, Released, Retained, Idle, OpType, NoOp
  <2>4. (kept \in [Creators -> KeptType])'
    BY <1>34, <1>3, <1>1 DEF ReleasesRole, Released, Retained, Idle, KeptType, RowType,
       Flows
  <2>5. (ending \in [Flows -> EndingType])'
    BY <1>34, <1>8 DEF ReleasesRole, Released, Retained, Idle, EndingType, EndingPlaces
  <2> QED BY <1>0, <2>1, <2>2, <2>3, <2>4, <2>5, Zenon DEF TypeOK
<1>35. ASSUME NEW f \in Flows, ClaimsCleanup(f) PROVE TypeOK'
  <2>1. UNCHANGED <<row, kept, disk, files, agent, start, removal, mishaps>>
    BY <1>35 DEF ClaimsCleanup
  <2>2. (op \in [Flows -> OpType])'
    BY <1>35, <1>2 DEF ClaimsCleanup, Ends, OpType, NoOp
  <2>3. (ending \in [Flows -> EndingType])'
    BY <1>35, <1>8 DEF ClaimsCleanup, Ends, EndingType, EndingPlaces
  <2> QED BY <1>0, <2>1, <2>2, <2>3, Zenon DEF TypeOK
<1>36. ASSUME NEW f \in Flows, CleansTerminals(f) PROVE TypeOK'
  <2>1. UNCHANGED <<row, kept, disk, files, start, removal>>
    BY <1>36 DEF CleansTerminals
  <2>2. (op \in [Flows -> OpType])'
    BY <1>36, <1>2 DEF CleansTerminals, Ends, Idle, Mishap, OpType, NoOp
  <2>3. (agent \in [Flows -> Creators \cup {None}])'
    BY <1>36, <1>6 DEF CleansTerminals, Ends, Idle, Mishap
  <2>4. (ending \in [Flows -> EndingType])'
    BY <1>36, <1>8 DEF CleansTerminals, Ends, Idle, Mishap, EndingType, EndingPlaces
  <2>5. (mishaps \in 0..MaxMishaps)'
    BY <1>36, <1>10, WorktreesAssumption DEF CleansTerminals, Ends, Idle, Mishap
  <2> QED BY <1>0, <2>1, <2>2, <2>3, <2>4, <2>5, Zenon DEF TypeOK
<1>37. ASSUME NEW f \in Flows, Reconciles(f) PROVE TypeOK'
  <2>1. UNCHANGED <<disk, files, agent, start, removal, mishaps>>
    BY <1>37 DEF Reconciles
  <2>2. (row \in [Flows -> RowType])'
    <3> DEFINE s == IF Active(f) THEN "cancelled" ELSE row[f].status
    <3>1. \/ UNCHANGED row
          \/ row' = [row EXCEPT ![f] = [row[f] EXCEPT !.released = TRUE, !.status = s]]
      BY <1>37 DEF Reconciles
    <3>2. s \in {"cancelled", row[f].status}
      OBVIOUS
    <3> HIDE DEF s
    <3>3. [row[f] EXCEPT !.released = TRUE, !.status = s] \in RowType
      BY <1>1, <3>2 DEF RowType
    <3> QED BY <1>1, <3>1, <3>3
  <2>3. (op \in [Flows -> OpType])'
    <3>1. op' = op \/ op' = [op EXCEPT ![f] = NoOp]
      BY <1>37 DEF Reconciles
    <3> QED BY <1>2, <3>1, OpCleared
  <2>4. (kept \in [Creators -> KeptType])'
    BY <1>37, <1>3, <1>1 DEF Reconciles, Retained, Idle, Active, KeptType, RowType, Flows
  <2>5. (ending \in [Flows -> EndingType])'
    BY <1>37, <1>8 DEF Reconciles, Retained, Idle, Active, EndingType, EndingPlaces
  <2> QED BY <1>0, <2>1, <2>2, <2>3, <2>4, <2>5, Zenon DEF TypeOK
<1>38. ASSUME NEW f \in Flows, CancelsStale(f) PROVE TypeOK'
  <2>1. UNCHANGED <<op, kept, disk, files, agent, start, ending, removal, mishaps>>
    BY <1>38 DEF CancelsStale
  <2>2. (row \in [Flows -> RowType])'
    BY <1>38, <1>1 DEF CancelsStale, RowType
  <2> QED BY <1>0, <2>1, <2>2, Zenon DEF TypeOK
<1>39. ASSUME NEW f \in Flows, EndingDies(f) PROVE TypeOK'
  <2>1. UNCHANGED <<row, op, kept, disk, files, agent, start, removal>>
    BY <1>39 DEF EndingDies
  <2>2. (ending \in [Flows -> EndingType])'
    BY <1>39, <1>8 DEF EndingDies, Idle, Mishap, EndingType, EndingPlaces
  <2>3. (mishaps \in 0..MaxMishaps)'
    BY <1>39, <1>10, WorktreesAssumption DEF EndingDies, Idle, Mishap
  <2> QED BY <1>0, <2>1, <2>2, <2>3, Zenon DEF TypeOK
<1>40. ASSUME NEW f \in Flows, ClaimAges(f) PROVE TypeOK'
  <2>1. UNCHANGED <<row, kept, disk, files, agent, start, ending, removal>>
    BY <1>40 DEF ClaimAges
  <2>2. (op \in [Flows -> OpType])'
    BY <1>40, <1>2 DEF ClaimAges, Mishap, OpType, NoOp
  <2>3. (mishaps \in 0..MaxMishaps)'
    BY <1>40, <1>10, WorktreesAssumption DEF ClaimAges, Mishap
  <2> QED BY <1>0, <2>1, <2>2, <2>3, Zenon DEF TypeOK
<1>41. ASSUME NEW f \in Flows, AgentWorks(f) PROVE TypeOK'
  <2>1. UNCHANGED <<row, op, kept, disk, agent, start, ending, removal, mishaps>>
    BY <1>41 DEF AgentWorks
  <2>2. (files \in [Creators -> {"start", "work"}])'
    BY <1>41, <1>5 DEF AgentWorks
  <2> QED BY <1>0, <2>1, <2>2, Zenon DEF TypeOK
<1>42. ASSUME NEW f \in Flows, AgentExits(f) PROVE TypeOK'
  <2>1. UNCHANGED <<row, op, kept, disk, files, start, ending, removal>>
    BY <1>42 DEF AgentExits
  <2>2. (agent \in [Flows -> Creators \cup {None}])'
    BY <1>42, <1>6 DEF AgentExits, Mishap
  <2>3. (mishaps \in 0..MaxMishaps)'
    BY <1>42, <1>10, WorktreesAssumption DEF AgentExits, Mishap
  <2> QED BY <1>0, <2>1, <2>2, <2>3, Zenon DEF TypeOK
<1>43. ASSUME NEW f \in Flows, NEW t \in Outcomes, ClaimsFinish(f, t) PROVE TypeOK'
  <2>1. UNCHANGED <<kept, disk, files, agent, start, removal, mishaps>>
    BY <1>43 DEF ClaimsFinish
  <2>2. (row \in [Flows -> RowType])'
    BY <1>43, <1>1, WorktreesAssumption DEF ClaimsFinish, Ends, NoOp, RowType
  <2>3. (op \in [Flows -> OpType])'
    BY <1>43, <1>2, WorktreesAssumption DEF ClaimsFinish, Ends, NoOp, OpType
  <2>4. (ending \in [Flows -> EndingType])'
    BY <1>43, <1>8, WorktreesAssumption DEF ClaimsFinish, Ends, NoOp, EndingType,
       EndingPlaces
  <2> QED BY <1>0, <2>1, <2>2, <2>3, <2>4, Zenon DEF TypeOK
<1>44. ASSUME NEW r \in Removers, Inspects(r) PROVE TypeOK'
  <2>1. UNCHANGED <<row, op, kept, disk, files, agent, start, ending, mishaps>>
    BY <1>44 DEF Inspects
  <2>2. (removal \in [Removers -> RemovalType])'
    BY <1>44, <1>9, <1>5 DEF Inspects, Removable, RemovalType, RemovalPlaces
  <2> QED BY <1>0, <2>1, <2>2, Zenon DEF TypeOK
<1>45. ASSUME NEW r \in Removers, ClaimsRemoval(r) PROVE TypeOK'
  <2>1. UNCHANGED <<row, op, disk, files, agent, start, ending, mishaps>>
    BY <1>45 DEF ClaimsRemoval
  <2>2. (kept \in [Creators -> KeptType])'
    BY <1>45, <1>3 DEF ClaimsRemoval, Goes, NotRemoving, KeptType, Flows
  <2>3. (removal \in [Removers -> RemovalType])'
    <3>1. \/ removal' = [removal EXCEPT ![r].at = "look"]
          \/ removal' = [removal EXCEPT ![r] = NotRemoving]
      BY <1>45 DEF ClaimsRemoval, Goes
    <3>2. [removal EXCEPT ![r].at = "look"] \in [Removers -> RemovalType]
      BY <1>9 DEF RemovalType, RemovalPlaces
    <3>3. [removal EXCEPT ![r] = NotRemoving] \in [Removers -> RemovalType]
      BY <1>9 DEF RemovalType, RemovalPlaces, NotRemoving
    <3> QED BY <3>1, <3>2, <3>3
  <2> QED BY <1>0, <2>1, <2>2, <2>3, Zenon DEF TypeOK
<1>46. ASSUME NEW r \in Removers, Looks(r) PROVE TypeOK'
  <2>1. UNCHANGED <<row, op, kept, disk, files, agent, start, ending, mishaps>>
    BY <1>46 DEF Looks
  <2>2. (removal \in [Removers -> RemovalType])'
    BY <1>46, <1>9, <1>5 DEF Looks, RemovalType, RemovalPlaces
  <2> QED BY <1>0, <2>1, <2>2, Zenon DEF TypeOK
<1>47. ASSUME NEW r \in Removers, LooksAgain(r) PROVE TypeOK'
  <2>1. UNCHANGED <<row, op, kept, disk, files, agent, start, ending, mishaps>>
    BY <1>47 DEF LooksAgain
  <2>2. (removal \in [Removers -> RemovalType])'
    BY <1>47, <1>9 DEF LooksAgain, Goes, RemovalType, RemovalPlaces
  <2> QED BY <1>0, <2>1, <2>2, Zenon DEF TypeOK
<1>48. ASSUME NEW r \in Removers, Removes(r) PROVE TypeOK'
  <2>1. UNCHANGED <<row, op, kept, files, agent, start, ending>>
    BY <1>48 DEF Removes
  <2>2. (disk \in [Creators -> {"absent", "present", "gone"}])'
    BY <1>48, <1>4 DEF Removes, Goes, Mishap
  <2>3. (removal \in [Removers -> RemovalType])'
    BY <1>48, <1>9 DEF Removes, Goes, Mishap, RemovalType, RemovalPlaces
  <2>4. (mishaps \in 0..MaxMishaps)'
    BY <1>48, <1>10, WorktreesAssumption DEF Removes, Goes, Mishap
  <2> QED BY <1>0, <2>1, <2>2, <2>3, <2>4, Zenon DEF TypeOK
<1>49. ASSUME NEW r \in Removers, FinishesRemoval(r) PROVE TypeOK'
  <2>1. UNCHANGED <<row, op, disk, files, agent, start, ending, mishaps>>
    BY <1>49 DEF FinishesRemoval
  <2>2. (kept \in [Creators -> KeptType])'
    BY <1>49, <1>3 DEF FinishesRemoval, NotRemoving, KeptType, Flows
  <2>3. (removal \in [Removers -> RemovalType])'
    BY <1>49, <1>9 DEF FinishesRemoval, NotRemoving, RemovalType, RemovalPlaces
  <2> QED BY <1>0, <2>1, <2>2, <2>3, Zenon DEF TypeOK
<1>50. ASSUME NEW r \in Removers, RemoverDies(r) PROVE TypeOK'
  <2>1. UNCHANGED <<row, op, kept, disk, files, agent, start, ending>>
    BY <1>50 DEF RemoverDies
  <2>2. (removal \in [Removers -> RemovalType])'
    BY <1>50, <1>9 DEF RemoverDies, NotRemoving, Mishap, RemovalType, RemovalPlaces
  <2>3. (mishaps \in 0..MaxMishaps)'
    BY <1>50, <1>10, WorktreesAssumption DEF RemoverDies, NotRemoving, Mishap
  <2> QED BY <1>0, <2>1, <2>2, <2>3, Zenon DEF TypeOK
<1>51. ASSUME UNCHANGED vars PROVE TypeOK'
  BY <1>51 DEF TypeOK, vars
<1> QED BY <1>11, <1>12, <1>13, <1>14, <1>15, <1>16, <1>17, <1>18, <1>19, <1>20, <1>21,
   <1>22, <1>23, <1>24, <1>25, <1>26, <1>27, <1>28, <1>29, <1>30, <1>31, <1>32, <1>33,
   <1>34, <1>35, <1>36, <1>37, <1>38, <1>39, <1>40, <1>41, <1>42, <1>43, <1>44, <1>45,
   <1>46, <1>47, <1>48, <1>49, <1>50, <1>51
  DEF Next, Starts, EndsFlow, RemovesWorktree

-----------------------------------------------------------------------------
\* Every step keeps the rest of the invariant.
LEMMA SafeStep ==
  ASSUME TypeOK, Safe, [Next]_vars PROVE Safe'
<1> USE DEF StillReleased
<1>0. /\ EndingKnows /\ StartIsThere /\ RowIsThere /\ StartKnows
      /\ NotOwnedWhileDeleting /\ GoneIsDeleted /\ RemovalHolds
  BY DEF Safe
<1>1. row \in [Flows -> RowType]
  BY DEF TypeOK
<1>2. op \in [Flows -> OpType]
  BY DEF TypeOK
<1>3. kept \in [Creators -> KeptType]
  BY DEF TypeOK
<1>4. disk \in [Creators -> {"absent", "present", "gone"}]
  BY DEF TypeOK
<1>5. files \in [Creators -> {"start", "work"}]
  BY DEF TypeOK
<1>6. agent \in [Flows -> Creators \cup {None}]
  BY DEF TypeOK
<1>7. start \in [Flows -> StartType]
  BY DEF TypeOK
<1>8. ending \in [Flows -> EndingType]
  BY DEF TypeOK
<1>9. removal \in [Removers -> RemovalType]
  BY DEF TypeOK
<1>10. mishaps \in 0..MaxMishaps
  BY DEF TypeOK
<1>11. ASSUME NEW f \in Flows, LooksUp(f) PROVE Safe'
  <2>1. UNCHANGED <<row, op, kept, disk, files, agent, ending, removal, mishaps>>
    BY <1>11 DEF LooksUp
  <2>2. /\ EndingKnows' /\ RowIsThere'
        /\ NotOwnedWhileDeleting' /\ GoneIsDeleted' /\ RemovalHolds'
    BY <1>0, <2>1 DEF EndingKnows, RowIsThere, NotOwnedWhileDeleting, Owner, Deleting,
       GoneIsDeleted, RemovalHolds
  <2>3. StartIsThere'
    BY <1>0, <1>11, <1>7, <1>4, <2>1 DEF LooksUp, StartIsThere, StartType
  <2>4. StartKnows'
    <3>1. start'[f].of \in Creators /\ \A g \in Flows : g # f => start'[g] = start[g]
      BY <1>11, <1>7 DEF LooksUp, NewStart
    <3> QED BY <1>0, <3>1, WorktreesAssumption DEF StartKnows
  <2> QED BY <2>2, <2>3, <2>4 DEF Safe
<1>12. ASSUME NEW f \in Flows, ReleasesStale(f) PROVE Safe'
  <2>1. UNCHANGED <<kept, disk, files, agent, ending, removal, mishaps>>
    BY <1>12 DEF ReleasesStale
  <2>2. EndingKnows' /\ GoneIsDeleted' /\ RemovalHolds'
    BY <1>0, <2>1 DEF EndingKnows, GoneIsDeleted, Deleting, RemovalHolds
  <2>3. StillReleased
    BY <1>12, <1>1 DEF ReleasesStale, Released, RowType
  <2>4. StartIsThere'
    BY <1>0, <1>12, <1>7, <1>4, <2>1, <2>3 DEF ReleasesStale, Released, StartIsThere,
       StartType
  <2>5. RowIsThere'
    BY <1>0, <1>12, <1>1, <1>4, <2>1, <2>3 DEF RowIsThere, RowType
  <2>6. StartKnows'
    <3>1. start' = [start EXCEPT ![f].stale = {}]
      BY <1>12 DEF ReleasesStale
    <3> QED BY <1>0, <1>7, <3>1 DEF StartKnows, StartType
  <2>7. NotOwnedWhileDeleting'
    BY <1>0, <1>12, <1>1, <1>3, <2>1, <2>3 DEF NotOwnedWhileDeleting, Owner, Deleting,
       RowType, KeptType
  <2> QED BY <2>2, <2>4, <2>5, <2>6, <2>7 DEF Safe
<1>13. ASSUME NEW f \in Flows, Reserves(f) PROVE Safe'
  <2>1. UNCHANGED <<op, kept, disk, files, agent, ending, removal, mishaps>>
    BY <1>13 DEF Reserves
  <2>2. EndingKnows' /\ GoneIsDeleted' /\ RemovalHolds'
    BY <1>0, <2>1 DEF EndingKnows, GoneIsDeleted, Deleting, RemovalHolds
  <2>3. StillReleased
    BY <1>13, <1>1 DEF Reserves, To, RowType
  <2>4. StartIsThere'
    BY <1>0, <1>13, <1>7, <1>4, <2>1, <2>3 DEF Reserves, To, StartIsThere, StartType
  <2>5. RowIsThere'
    BY <1>0, <1>13, <1>1, <1>4, <2>1, <2>3 DEF RowIsThere, RowType
  <2>6. StartKnows'
    BY <1>0, <1>13, <1>7, <2>1, <2>3 DEF Reserves, To, StartKnows, StartType
  <2>7. NotOwnedWhileDeleting'
    BY <1>0, <1>13, <1>1, <1>3, <2>1, <2>3 DEF NotOwnedWhileDeleting, Owner, Deleting,
       RowType, KeptType
  <2> QED BY <2>2, <2>4, <2>5, <2>6, <2>7 DEF Safe
<1>14. ASSUME NEW f \in Flows, ChecksName(f) PROVE Safe'
  <2>1. UNCHANGED <<kept, disk, files, agent, ending, removal>>
    BY <1>14 DEF ChecksName
  <2>2. EndingKnows' /\ GoneIsDeleted' /\ RemovalHolds'
    BY <1>0, <2>1 DEF EndingKnows, GoneIsDeleted, Deleting, RemovalHolds
  <2>3. StillReleased
    <3>1. \/ UNCHANGED <<row, op, mishaps>>
          \/ \E g \in Flows : row' = [row EXCEPT ![g] = Released(row[g])]
      BY <1>14 DEF ChecksName
    <3>2. ASSUME NEW h \in Flows, row' = [row EXCEPT ![h] = Released(row[h])]
          PROVE  StillReleased
      BY <1>1, <3>2 DEF RowType, Released
    <3> QED BY <3>1, <3>2
  <2>4. StartIsThere'
    <3>1. \/ To(f, "call")
          \/ start' = [start EXCEPT ![f].at = "fail", ![f].conflict = TRUE]
      BY <1>14 DEF ChecksName
    <3>2. \A g \in Flows : start'[g].of = start[g].of
      BY <1>7, <3>1 DEF To, StartType
    <3> QED BY <1>0, <2>1, <3>2 DEF StartIsThere
  <2>5. RowIsThere'
    BY <1>0, <1>14, <1>1, <1>4, <2>1, <2>3 DEF RowIsThere, RowType
  <2>6. StartKnows'
    <3>1. \/ To(f, "call")
          \/ start' = [start EXCEPT ![f].at = "fail", ![f].conflict = TRUE]
      BY <1>14 DEF ChecksName
    <3>2. /\ start[f].at = "name" /\ start'[f].at \in {"call", "fail"}
          /\ \A g \in Flows : start'[g].of = start[g].of /\ start'[g].knows = start[g].knows
          /\ \A g \in Flows : g # f => start'[g].at = start[g].at
      BY <1>14, <1>7, <3>1 DEF ChecksName, To, StartType
    <3> QED BY <1>0, <3>2 DEF StartKnows
  <2>7. NotOwnedWhileDeleting'
    BY <1>0, <1>14, <1>1, <1>3, <2>1, <2>3 DEF NotOwnedWhileDeleting, Owner, Deleting,
       RowType, KeptType
  <2> QED BY <2>2, <2>4, <2>5, <2>6, <2>7 DEF Safe
<1>15. ASSUME NEW f \in Flows, NameIsTaken(f) PROVE Safe'
  <2>1. UNCHANGED <<row, op, kept, disk, files, agent, ending, removal>>
    BY <1>15 DEF NameIsTaken
  <2>2. /\ EndingKnows' /\ RowIsThere'
        /\ NotOwnedWhileDeleting' /\ GoneIsDeleted' /\ RemovalHolds'
    BY <1>0, <2>1 DEF EndingKnows, RowIsThere, NotOwnedWhileDeleting, Owner, Deleting,
       GoneIsDeleted, RemovalHolds
  <2>3. StartMoves
    BY <1>15, ToMoves DEF NameIsTaken, StartPlaces
  <2>4. StartIsThere' /\ StartKnows'
    BY <1>0, <2>1, <2>3, StartMoved
  <2> QED BY <2>2, <2>4 DEF Safe
<1>16. ASSUME NEW f \in Flows, Allocates(f) PROVE Safe'
  <2>1. UNCHANGED <<row, op, kept, files, ending, removal, mishaps>>
    BY <1>16 DEF Allocates
  <2>2. EndingKnows' /\ NotOwnedWhileDeleting' /\ RemovalHolds'
    BY <1>0, <2>1 DEF EndingKnows, NotOwnedWhileDeleting, Owner, Deleting, RemovalHolds
  <2>3. StartIsThere'
    BY <1>0, <1>16, <1>7, <1>4, <2>1 DEF Allocates, StartIsThere, StartType
  <2>4. RowIsThere'
    BY <1>0, <1>16, <1>1, <1>4, <2>1 DEF Allocates, RowIsThere, RowType
  <2>5. StartKnows'
    <3>1. start'[f].of = f /\ \A g \in Flows : g # f => start'[g] = start[g]
      BY <1>16, <1>7 DEF Allocates, NewStart
    <3>2. f # None
      BY <1>16, WorktreesAssumption DEF Allocates
    <3> QED BY <1>0, <3>1, <3>2 DEF StartKnows
  <2>6. GoneIsDeleted'
    BY <1>0, <1>16, <1>4, <1>3, <2>1 DEF Allocates, GoneIsDeleted, Deleting, KeptType
  <2> QED BY <2>2, <2>3, <2>4, <2>5, <2>6 DEF Safe
<1>17. ASSUME NEW f \in Flows, AllocationFails(f) PROVE Safe'
  <2>1. UNCHANGED <<row, op, kept, files, ending, removal>>
    BY <1>17 DEF AllocationFails
  <2>2. EndingKnows' /\ NotOwnedWhileDeleting' /\ RemovalHolds'
    BY <1>0, <2>1 DEF EndingKnows, NotOwnedWhileDeleting, Owner, Deleting, RemovalHolds
  <2>3. StartIsThere'
    BY <1>0, <1>17, <1>7, <1>4, <2>1 DEF AllocationFails, Mishap, StartIsThere, StartType
  <2>4. RowIsThere'
    BY <1>0, <1>17, <1>1, <1>4, <2>1 DEF AllocationFails, Mishap, RowIsThere, RowType
  <2>5. StartKnows'
    <3>1. /\ start'[f].at = "fail" /\ (start'[f].knows => start'[f].of = f)
          /\ \A g \in Flows : g # f => start'[g] = start[g]
      BY <1>17, <1>7 DEF AllocationFails, NewStart
    <3>2. f # None
      BY <1>17, WorktreesAssumption DEF AllocationFails
    <3> QED BY <1>0, <3>1, <3>2 DEF StartKnows
  <2>6. GoneIsDeleted'
    BY <1>0, <1>17, <1>4, <1>3, <2>1 DEF AllocationFails, Mishap, GoneIsDeleted,
       Deleting, KeptType
  <2> QED BY <2>2, <2>3, <2>4, <2>5, <2>6 DEF Safe
<1>18. ASSUME NEW f \in Flows, OpensAgent(f) PROVE Safe'
  <2>1. UNCHANGED <<row, op, kept, disk, files, ending, removal, mishaps>>
    BY <1>18 DEF OpensAgent
  <2>2. /\ EndingKnows' /\ RowIsThere'
        /\ NotOwnedWhileDeleting' /\ GoneIsDeleted' /\ RemovalHolds'
    BY <1>0, <2>1 DEF EndingKnows, RowIsThere, NotOwnedWhileDeleting, Owner, Deleting,
       GoneIsDeleted, RemovalHolds
  <2>3. StartIsThere'
    BY <1>0, <1>18, <1>7, <1>4, <2>1 DEF OpensAgent, StartIsThere, StartType
  <2>4. StartKnows'
    BY <1>0, <1>18, <1>7, <2>1 DEF OpensAgent, StartKnows, StartType
  <2> QED BY <2>2, <2>3, <2>4 DEF Safe
<1>19. ASSUME NEW f \in Flows, OpeningFails(f) PROVE Safe'
  <2>1. UNCHANGED <<row, op, kept, disk, files, ending, removal>>
    BY <1>19 DEF OpeningFails
  <2>2. /\ EndingKnows' /\ RowIsThere'
        /\ NotOwnedWhileDeleting' /\ GoneIsDeleted' /\ RemovalHolds'
    BY <1>0, <2>1 DEF EndingKnows, RowIsThere, NotOwnedWhileDeleting, Owner, Deleting,
       GoneIsDeleted, RemovalHolds
  <2>3. StartMoves
    BY <1>19, ToMoves DEF OpeningFails, StartPlaces
  <2>4. StartIsThere' /\ StartKnows'
    BY <1>0, <2>1, <2>3, StartMoved
  <2> QED BY <2>2, <2>4 DEF Safe
<1>20. ASSUME NEW f \in Flows, IdentityFails(f) PROVE Safe'
  <2>1. UNCHANGED <<row, op, kept, disk, files, agent, ending, removal>>
    BY <1>20 DEF IdentityFails
  <2>2. /\ EndingKnows' /\ RowIsThere'
        /\ NotOwnedWhileDeleting' /\ GoneIsDeleted' /\ RemovalHolds'
    BY <1>0, <2>1 DEF EndingKnows, RowIsThere, NotOwnedWhileDeleting, Owner, Deleting,
       GoneIsDeleted, RemovalHolds
  <2>3. StartMoves
    BY <1>20, ToMoves DEF IdentityFails, StartPlaces
  <2>4. StartIsThere' /\ StartKnows'
    BY <1>0, <2>1, <2>3, StartMoved
  <2> QED BY <2>2, <2>4 DEF Safe
<1>21. ASSUME NEW f \in Flows, Attaches(f) PROVE Safe'
  <2>1. UNCHANGED <<op, kept, disk, files, agent, ending, removal, mishaps>>
    BY <1>21 DEF Attaches
  <2>2. EndingKnows' /\ GoneIsDeleted' /\ RemovalHolds'
    BY <1>0, <2>1 DEF EndingKnows, GoneIsDeleted, Deleting, RemovalHolds
  <2>3. StartMoves
    <3>1. To(f, "claim") \/ \E b \in BOOLEAN :
            start' = [start EXCEPT ![f].at = "fail", ![f].conflict = b]
      BY <1>21 DEF Attaches
    <3>2. CASE To(f, "claim")
      BY <3>2, ToMoves DEF StartPlaces
    <3> QED BY <1>7, <3>1, <3>2 DEF StartMoves, StartType
  <2>4. StartIsThere' /\ StartKnows'
    BY <1>0, <2>1, <2>3, StartMoved
  <2>5. RowIsThere'
    <3>1. \A g \in Flows : row'[g].ref \in {row[g].ref, start[f].of}
      BY <1>21, <1>1 DEF Attaches, RowType
    <3> QED BY <1>0, <2>1, <3>1 DEF RowIsThere, StartIsThere
  <2>6. NotOwnedWhileDeleting'
    <3>1. \A g \in Flows : g # f => row'[g] = row[g]
      BY <1>21, <1>1 DEF Attaches
    <3>2. row'[f] = row[f] \/ (row'[f].ref = start[f].of /\ ~Deleting(start[f].of))
      BY <1>21, <1>1 DEF Attaches, Refused, RowType
    <3> QED BY <1>0, <2>1, <3>1, <3>2 DEF NotOwnedWhileDeleting, Owner, Deleting
  <2> QED BY <2>2, <2>4, <2>5, <2>6 DEF Safe
<1>22. ASSUME NEW f \in Flows, ClaimsActivation(f) PROVE Safe'
  <2>1. UNCHANGED <<row, kept, disk, files, agent, ending, removal, mishaps>>
    BY <1>22 DEF ClaimsActivation
  <2>2. /\ EndingKnows' /\ RowIsThere'
        /\ NotOwnedWhileDeleting' /\ GoneIsDeleted' /\ RemovalHolds'
    BY <1>0, <2>1 DEF EndingKnows, RowIsThere, NotOwnedWhileDeleting, Owner, Deleting,
       GoneIsDeleted, RemovalHolds
  <2>3. StartMoves
    BY <1>22, ToMoves DEF ClaimsActivation, StartPlaces
  <2>4. StartIsThere' /\ StartKnows'
    BY <1>0, <2>1, <2>3, StartMoved
  <2> QED BY <2>2, <2>4 DEF Safe
<1>23. ASSUME NEW f \in Flows, Activates(f) PROVE Safe'
  <2>1. UNCHANGED <<row, kept, disk, files, agent, ending, removal>>
    BY <1>23 DEF Activates
  <2>2. /\ EndingKnows' /\ RowIsThere'
        /\ NotOwnedWhileDeleting' /\ GoneIsDeleted' /\ RemovalHolds'
    BY <1>0, <2>1 DEF EndingKnows, RowIsThere, NotOwnedWhileDeleting, Owner, Deleting,
       GoneIsDeleted, RemovalHolds
  <2>3. StartMoves
    BY <1>23, ToMoves DEF Activates, StartPlaces
  <2>4. StartIsThere' /\ StartKnows'
    BY <1>0, <2>1, <2>3, StartMoved
  <2> QED BY <2>2, <2>4 DEF Safe
<1>24. ASSUME NEW f \in Flows, CompletesActivation(f) PROVE Safe'
  <2>1. UNCHANGED <<kept, disk, files, agent, ending, removal, mishaps>>
    BY <1>24 DEF CompletesActivation
  <2>2. EndingKnows' /\ GoneIsDeleted' /\ RemovalHolds'
    BY <1>0, <2>1 DEF EndingKnows, GoneIsDeleted, Deleting, RemovalHolds
  <2>3. StillReleased
    BY <1>24, <1>1 DEF CompletesActivation, Exits, NewStart, NoOp, RowType
  <2>4. StartMoves
    <3>1. Exits(f, "ended") \/ To(f, "fail")
      BY <1>24 DEF CompletesActivation
    <3> QED BY <3>1, ToMoves, ExitMoves DEF StartPlaces
  <2>5. StartIsThere' /\ StartKnows'
    BY <1>0, <2>1, <2>4, StartMoved
  <2>6. RowIsThere'
    BY <1>0, <1>24, <1>1, <1>4, <2>1, <2>3 DEF RowIsThere, RowType
  <2>7. NotOwnedWhileDeleting'
    BY <1>0, <1>24, <1>1, <1>3, <2>1, <2>3 DEF NotOwnedWhileDeleting, Owner, Deleting,
       RowType, KeptType
  <2> QED BY <2>2, <2>5, <2>6, <2>7 DEF Safe
<1>25. ASSUME NEW f \in Flows, AttachesPartially(f) PROVE Safe'
  <2>1. UNCHANGED <<op, kept, disk, files, agent, ending, removal, mishaps>>
    BY <1>25 DEF AttachesPartially
  <2>2. EndingKnows' /\ GoneIsDeleted' /\ RemovalHolds'
    BY <1>0, <2>1 DEF EndingKnows, GoneIsDeleted, Deleting, RemovalHolds
  <2>3. StartMoves
    <3>1. \/ To(f, "close") \/ To(f, "mark")
          \/ \E b \in BOOLEAN : start' = [start EXCEPT ![f].at = "close", ![f].errors = b]
      BY <1>25 DEF AttachesPartially
    <3>2. CASE To(f, "close") \/ To(f, "mark")
      BY <3>2, ToMoves DEF StartPlaces
    <3> QED BY <1>7, <3>1, <3>2 DEF StartMoves, StartType
  <2>4. StartIsThere' /\ StartKnows'
    BY <1>0, <2>1, <2>3, StartMoved
  <2>5. RowIsThere'
    <3>1. UNCHANGED row \/ row' = [row EXCEPT ![f].ref = start[f].of]
      BY <1>25 DEF AttachesPartially
    <3> QED BY <1>0, <1>1, <2>1, <3>1 DEF RowIsThere, StartIsThere, RowType
  <2>6. NotOwnedWhileDeleting'
    BY <1>0, <1>25, <1>1, <1>3, <2>1 DEF AttachesPartially, To, Refused,
       NotOwnedWhileDeleting, Owner, Deleting, RowType, KeptType
  <2> QED BY <2>2, <2>4, <2>5, <2>6 DEF Safe
<1>26. ASSUME NEW f \in Flows, ClosesAgent(f) PROVE Safe'
  <2>1. UNCHANGED <<row, op, kept, disk, files, ending, removal>>
    BY <1>26 DEF ClosesAgent
  <2>2. /\ EndingKnows' /\ RowIsThere'
        /\ NotOwnedWhileDeleting' /\ GoneIsDeleted' /\ RemovalHolds'
    BY <1>0, <2>1 DEF EndingKnows, RowIsThere, NotOwnedWhileDeleting, Owner, Deleting,
       GoneIsDeleted, RemovalHolds
  <2>3. StartMoves
    BY <1>26, <1>7 DEF ClosesAgent, StartMoves, StartType
  <2>4. StartIsThere' /\ StartKnows'
    BY <1>0, <2>1, <2>3, StartMoved
  <2> QED BY <2>2, <2>4 DEF Safe
<1>27. ASSUME NEW f \in Flows, Keeps(f) PROVE Safe'
  <2>1. UNCHANGED <<row, op, disk, files, agent, ending, removal, mishaps>>
    BY <1>27 DEF Keeps
  <2>2. EndingKnows' /\ RowIsThere'
    BY <1>0, <2>1 DEF EndingKnows, RowIsThere
  <2>3. \A c \in Creators : Deleting(c)' = Deleting(c)
    BY <1>27, <1>3 DEF Keeps, To, Retained, Deleting, KeptType
  <2>4. StartMoves
    BY <1>27, ToMoves DEF Keeps, StartPlaces
  <2>5. StartIsThere' /\ StartKnows'
    BY <1>0, <2>1, <2>4, StartMoved
  <2>6. NotOwnedWhileDeleting'
    BY <1>0, <1>27, <1>1, <1>3, <2>1, <2>3 DEF NotOwnedWhileDeleting, Owner, RowType,
       KeptType
  <2>7. GoneIsDeleted'
    BY <1>0, <1>27, <1>4, <1>3, <2>1, <2>3 DEF GoneIsDeleted, KeptType
  <2>8. RemovalHolds'
    BY <1>0, <1>27, <1>9, <1>3, <2>1, <2>3 DEF RemovalHolds, RemovalType, KeptType
  <2> QED BY <2>2, <2>5, <2>6, <2>7, <2>8 DEF Safe
<1>28. ASSUME NEW f \in Flows, ReleasesStart(f) PROVE Safe'
  <2>1. UNCHANGED <<kept, disk, files, agent, ending, removal, mishaps>>
    BY <1>28 DEF ReleasesStart
  <2>2. EndingKnows' /\ GoneIsDeleted' /\ RemovalHolds'
    BY <1>0, <2>1 DEF EndingKnows, GoneIsDeleted, Deleting, RemovalHolds
  <2>3. StillReleased
    BY <1>28, <1>1 DEF ReleasesStart, To, Released, RowType
  <2>4. StartMoves
    BY <1>28, ToMoves DEF ReleasesStart, StartPlaces
  <2>5. StartIsThere' /\ StartKnows'
    BY <1>0, <2>1, <2>4, StartMoved
  <2>6. RowIsThere'
    BY <1>0, <1>28, <1>1, <1>4, <2>1, <2>3 DEF RowIsThere, RowType
  <2>7. NotOwnedWhileDeleting'
    BY <1>0, <1>28, <1>1, <1>3, <2>1, <2>3 DEF NotOwnedWhileDeleting, Owner, Deleting,
       RowType, KeptType
  <2> QED BY <2>2, <2>5, <2>6, <2>7 DEF Safe
<1>29. ASSUME NEW f \in Flows, MarksFailed(f) PROVE Safe'
  <2>1. UNCHANGED <<op, kept, disk, files, agent, ending, removal, mishaps>>
    BY <1>29 DEF MarksFailed
  <2>2. EndingKnows' /\ GoneIsDeleted' /\ RemovalHolds'
    BY <1>0, <2>1 DEF EndingKnows, GoneIsDeleted, Deleting, RemovalHolds
  <2>3. StillReleased
    BY <1>29, <1>1 DEF MarksFailed, Exits, NewStart, RowType
  <2>4. StartMoves
    BY <1>29, ExitMoves DEF MarksFailed
  <2>5. StartIsThere' /\ StartKnows'
    BY <1>0, <2>1, <2>4, StartMoved
  <2>6. RowIsThere'
    BY <1>0, <1>29, <1>1, <1>4, <2>1, <2>3 DEF RowIsThere, RowType
  <2>7. NotOwnedWhileDeleting'
    BY <1>0, <1>29, <1>1, <1>3, <2>1, <2>3 DEF NotOwnedWhileDeleting, Owner, Deleting,
       RowType, KeptType
  <2> QED BY <2>2, <2>5, <2>6, <2>7 DEF Safe
<1>30. ASSUME NEW f \in Flows, StartDies(f) PROVE Safe'
  <2>1. UNCHANGED <<row, op, kept, disk, files, agent, ending, removal>>
    BY <1>30 DEF StartDies
  <2>2. /\ EndingKnows' /\ RowIsThere'
        /\ NotOwnedWhileDeleting' /\ GoneIsDeleted' /\ RemovalHolds'
    BY <1>0, <2>1 DEF EndingKnows, RowIsThere, NotOwnedWhileDeleting, Owner, Deleting,
       GoneIsDeleted, RemovalHolds
  <2>3. StartMoves
    BY <1>30, ExitMoves DEF StartDies
  <2>4. StartIsThere' /\ StartKnows'
    BY <1>0, <2>1, <2>3, StartMoved
  <2> QED BY <2>2, <2>4 DEF Safe
<1>31. ASSUME NEW f \in Flows, CompletesFinish(f) PROVE Safe'
  <2>1. UNCHANGED <<kept, disk, files, agent, start, removal>>
    BY <1>31 DEF CompletesFinish
  <2>2. StartIsThere' /\ StartKnows' /\ GoneIsDeleted' /\ RemovalHolds'
    BY <1>0, <2>1 DEF StartIsThere, StartKnows, GoneIsDeleted, Deleting, RemovalHolds
  <2>3. StillReleased
    BY <1>31, <1>1 DEF CompletesFinish, Ends, Idle, Mishap, RowType
  <2>4. EndingKnows'
    BY <1>0, <1>31, <1>8, <2>1, <2>3 DEF CompletesFinish, Ends, Idle, Mishap,
       EndingKnows, EndingType
  <2>5. RowIsThere'
    BY <1>0, <1>31, <1>1, <1>4, <2>1, <2>3 DEF RowIsThere, RowType
  <2>6. NotOwnedWhileDeleting'
    BY <1>0, <1>31, <1>1, <1>3, <2>1, <2>3 DEF NotOwnedWhileDeleting, Owner, Deleting,
       RowType, KeptType
  <2> QED BY <2>2, <2>4, <2>5, <2>6 DEF Safe
<1>32. ASSUME NEW f \in Flows, ClosesFinished(f) PROVE Safe'
  <2>1. UNCHANGED <<kept, disk, files, start, removal>>
    BY <1>32 DEF ClosesFinished
  <2>2. StartIsThere' /\ StartKnows' /\ GoneIsDeleted' /\ RemovalHolds'
    BY <1>0, <2>1 DEF StartIsThere, StartKnows, GoneIsDeleted, Deleting, RemovalHolds
  <2>3. StillReleased
    <3>1. \/ UNCHANGED row \/ row' = [row EXCEPT ![f] = Released(row[f])]
          \/ row' = [row EXCEPT ![f].owned = FALSE]
      BY <1>32 DEF ClosesFinished
    <3>2. CASE row' = [row EXCEPT ![f] = Released(row[f])]
      BY <1>1, <3>2 DEF RowType, Released
    <3>3. CASE row' = [row EXCEPT ![f].owned = FALSE]
      BY <1>1, <3>3 DEF RowType
    <3> QED BY <3>1, <3>2, <3>3
  <2>4. EndingKnows'
    BY <1>0, <1>32, <1>8, <2>1, <2>3 DEF ClosesFinished, Released, Idle, Mishap,
       EndingKnows, EndingType
  <2>5. RowIsThere'
    BY <1>0, <1>32, <1>1, <1>4, <2>1, <2>3 DEF RowIsThere, RowType
  <2>6. NotOwnedWhileDeleting'
    BY <1>0, <1>32, <1>1, <1>3, <2>1, <2>3 DEF NotOwnedWhileDeleting, Owner, Deleting,
       RowType, KeptType
  <2> QED BY <2>2, <2>4, <2>5, <2>6 DEF Safe
<1>33. ASSUME NEW f \in Flows, StopsRole(f) PROVE Safe'
  <2>1. UNCHANGED <<op, kept, disk, files, start, removal>>
    BY <1>33 DEF StopsRole
  <2>2. StartIsThere' /\ StartKnows' /\ GoneIsDeleted' /\ RemovalHolds'
    BY <1>0, <2>1 DEF StartIsThere, StartKnows, GoneIsDeleted, Deleting, RemovalHolds
  <2>3. StillReleased
    BY <1>33, <1>1 DEF StopsRole, Ends, Mishap, RowType
  <2>4. EndingKnows'
    BY <1>0, <1>33, <1>8, <2>1, <2>3 DEF StopsRole, Ends, Mishap, EndingKnows, EndingType
  <2>5. RowIsThere'
    BY <1>0, <1>33, <1>1, <1>4, <2>1, <2>3 DEF RowIsThere, RowType
  <2>6. NotOwnedWhileDeleting'
    BY <1>0, <1>33, <1>1, <1>3, <2>1, <2>3 DEF NotOwnedWhileDeleting, Owner, Deleting,
       RowType, KeptType
  <2> QED BY <2>2, <2>4, <2>5, <2>6 DEF Safe
<1>34. ASSUME NEW f \in Flows, ReleasesRole(f) PROVE Safe'
  <2>1. UNCHANGED <<disk, files, agent, start, removal, mishaps>>
    BY <1>34 DEF ReleasesRole
  <2>2. StartIsThere' /\ StartKnows'
    BY <1>0, <2>1 DEF StartIsThere, StartKnows
  <2>3. StillReleased
    BY <1>34, <1>1 DEF ReleasesRole, Released, Retained, Idle, RowType
  <2>4. \A c \in Creators : Deleting(c)' = Deleting(c)
    BY <1>34, <1>3 DEF ReleasesRole, Released, Retained, Idle, Deleting, KeptType
  <2>5. EndingKnows'
    BY <1>0, <1>34, <1>8, <2>1, <2>3, <2>4 DEF ReleasesRole, Released, Retained, Idle,
       EndingKnows, EndingType
  <2>6. RowIsThere'
    BY <1>0, <1>34, <1>1, <1>4, <2>1, <2>3, <2>4 DEF RowIsThere, RowType
  <2>7. NotOwnedWhileDeleting'
    BY <1>0, <1>34, <1>1, <1>3, <2>1, <2>3, <2>4 DEF NotOwnedWhileDeleting, Owner,
       RowType, KeptType
  <2>8. GoneIsDeleted'
    BY <1>0, <1>34, <1>4, <1>3, <2>1, <2>3, <2>4 DEF GoneIsDeleted, KeptType
  <2>9. RemovalHolds'
    BY <1>0, <1>34, <1>9, <1>3, <2>1, <2>3, <2>4 DEF RemovalHolds, RemovalType, KeptType
  <2> QED BY <2>2, <2>5, <2>6, <2>7, <2>8, <2>9 DEF Safe
<1>35. ASSUME NEW f \in Flows, ClaimsCleanup(f) PROVE Safe'
  <2>1. UNCHANGED <<row, kept, disk, files, agent, start, removal, mishaps>>
    BY <1>35 DEF ClaimsCleanup
  <2>2. /\ StartIsThere' /\ RowIsThere' /\ StartKnows'
        /\ NotOwnedWhileDeleting' /\ GoneIsDeleted' /\ RemovalHolds'
    BY <1>0, <2>1 DEF StartIsThere, RowIsThere, StartKnows, NotOwnedWhileDeleting,
       Owner, Deleting, GoneIsDeleted, RemovalHolds
  <2>3. EndingKnows'
    BY <1>0, <1>35, <1>8, <2>1 DEF ClaimsCleanup, Ends, EndingKnows, EndingType
  <2> QED BY <2>2, <2>3 DEF Safe
<1>36. ASSUME NEW f \in Flows, CleansTerminals(f) PROVE Safe'
  <2>1. UNCHANGED <<row, kept, disk, files, start, removal>>
    BY <1>36 DEF CleansTerminals
  <2>2. /\ StartIsThere' /\ RowIsThere' /\ StartKnows'
        /\ NotOwnedWhileDeleting' /\ GoneIsDeleted' /\ RemovalHolds'
    BY <1>0, <2>1 DEF StartIsThere, RowIsThere, StartKnows, NotOwnedWhileDeleting,
       Owner, Deleting, GoneIsDeleted, RemovalHolds
  <2>3. EndingKnows'
    BY <1>0, <1>36, <1>8, <2>1 DEF CleansTerminals, Ends, Idle, Mishap, EndingKnows,
       EndingType
  <2> QED BY <2>2, <2>3 DEF Safe
<1>37. ASSUME NEW f \in Flows, Reconciles(f) PROVE Safe'
  <2>1. UNCHANGED <<disk, files, agent, start, removal, mishaps>>
    BY <1>37 DEF Reconciles
  <2>2. StartIsThere' /\ StartKnows'
    BY <1>0, <2>1 DEF StartIsThere, StartKnows
  <2>3. StillReleased
    <3> DEFINE s == IF Active(f) THEN "cancelled" ELSE row[f].status
    <3>1. \/ UNCHANGED row
          \/ row' = [row EXCEPT ![f] = [row[f] EXCEPT !.released = TRUE, !.status = s]]
      BY <1>37 DEF Reconciles
    <3> HIDE DEF s
    <3>2. [row[f] EXCEPT !.released = TRUE, !.status = s].ref = row[f].ref
          /\ [row[f] EXCEPT !.released = TRUE, !.status = s].released
      BY <1>1 DEF RowType
    <3> QED BY <1>1, <3>1, <3>2
  <2>4. \A c \in Creators : Deleting(c)' = Deleting(c)
    BY <1>37, <1>3 DEF Reconciles, Retained, Idle, Active, Deleting, KeptType
  <2>5. EndingKnows'
    BY <1>0, <1>37, <1>8, <2>1, <2>3, <2>4 DEF Reconciles, Retained, Idle, Active,
       EndingKnows, EndingType
  <2>6. RowIsThere'
    BY <1>0, <1>37, <1>1, <1>4, <2>1, <2>3, <2>4 DEF RowIsThere, RowType
  <2>7. NotOwnedWhileDeleting'
    BY <1>0, <1>37, <1>1, <1>3, <2>1, <2>3, <2>4 DEF NotOwnedWhileDeleting, Owner,
       RowType, KeptType
  <2>8. GoneIsDeleted'
    BY <1>0, <1>37, <1>4, <1>3, <2>1, <2>3, <2>4 DEF GoneIsDeleted, KeptType
  <2>9. RemovalHolds'
    BY <1>0, <1>37, <1>9, <1>3, <2>1, <2>3, <2>4 DEF RemovalHolds, RemovalType, KeptType
  <2> QED BY <2>2, <2>5, <2>6, <2>7, <2>8, <2>9 DEF Safe
<1>38. ASSUME NEW f \in Flows, CancelsStale(f) PROVE Safe'
  <2>1. UNCHANGED <<op, kept, disk, files, agent, start, ending, removal, mishaps>>
    BY <1>38 DEF CancelsStale
  <2>2. EndingKnows' /\ StartIsThere' /\ StartKnows' /\ GoneIsDeleted' /\ RemovalHolds'
    BY <1>0, <2>1 DEF EndingKnows, StartIsThere, StartKnows, GoneIsDeleted, Deleting,
       RemovalHolds
  <2>3. StillReleased
    BY <1>38, <1>1 DEF CancelsStale, RowType
  <2>4. RowIsThere'
    BY <1>0, <1>38, <1>1, <1>4, <2>1, <2>3 DEF RowIsThere, RowType
  <2>5. NotOwnedWhileDeleting'
    BY <1>0, <1>38, <1>1, <1>3, <2>1, <2>3 DEF NotOwnedWhileDeleting, Owner, Deleting,
       RowType, KeptType
  <2> QED BY <2>2, <2>4, <2>5 DEF Safe
<1>39. ASSUME NEW f \in Flows, EndingDies(f) PROVE Safe'
  <2>1. UNCHANGED <<row, op, kept, disk, files, agent, start, removal>>
    BY <1>39 DEF EndingDies
  <2>2. /\ StartIsThere' /\ RowIsThere' /\ StartKnows'
        /\ NotOwnedWhileDeleting' /\ GoneIsDeleted' /\ RemovalHolds'
    BY <1>0, <2>1 DEF StartIsThere, RowIsThere, StartKnows, NotOwnedWhileDeleting,
       Owner, Deleting, GoneIsDeleted, RemovalHolds
  <2>3. EndingKnows'
    BY <1>0, <1>39, <1>8, <2>1 DEF EndingDies, Idle, Mishap, EndingKnows, EndingType
  <2> QED BY <2>2, <2>3 DEF Safe
<1>40. ASSUME NEW f \in Flows, ClaimAges(f) PROVE Safe'
  <2>1. UNCHANGED <<row, kept, disk, files, agent, start, ending, removal>>
    BY <1>40 DEF ClaimAges
  <2>2. /\ EndingKnows' /\ StartIsThere' /\ RowIsThere'
        /\ StartKnows' /\ NotOwnedWhileDeleting' /\ GoneIsDeleted' /\ RemovalHolds'
    BY <1>0, <2>1 DEF EndingKnows, StartIsThere, RowIsThere, StartKnows,
       NotOwnedWhileDeleting, Owner, Deleting, GoneIsDeleted, RemovalHolds
  <2> QED BY <2>2 DEF Safe
<1>41. ASSUME NEW f \in Flows, AgentWorks(f) PROVE Safe'
  <2>1. UNCHANGED <<row, op, kept, disk, agent, start, ending, removal, mishaps>>
    BY <1>41 DEF AgentWorks
  <2>2. /\ EndingKnows' /\ StartIsThere' /\ RowIsThere'
        /\ StartKnows' /\ NotOwnedWhileDeleting' /\ GoneIsDeleted' /\ RemovalHolds'
    BY <1>0, <2>1 DEF EndingKnows, StartIsThere, RowIsThere, StartKnows,
       NotOwnedWhileDeleting, Owner, Deleting, GoneIsDeleted, RemovalHolds
  <2> QED BY <2>2 DEF Safe
<1>42. ASSUME NEW f \in Flows, AgentExits(f) PROVE Safe'
  <2>1. UNCHANGED <<row, op, kept, disk, files, start, ending, removal>>
    BY <1>42 DEF AgentExits
  <2>2. /\ EndingKnows' /\ StartIsThere' /\ RowIsThere'
        /\ StartKnows' /\ NotOwnedWhileDeleting' /\ GoneIsDeleted' /\ RemovalHolds'
    BY <1>0, <2>1 DEF EndingKnows, StartIsThere, RowIsThere, StartKnows,
       NotOwnedWhileDeleting, Owner, Deleting, GoneIsDeleted, RemovalHolds
  <2> QED BY <2>2 DEF Safe
<1>43. ASSUME NEW f \in Flows, NEW t \in Outcomes, ClaimsFinish(f, t) PROVE Safe'
  <2>1. UNCHANGED <<kept, disk, files, agent, start, removal, mishaps>>
    BY <1>43 DEF ClaimsFinish
  <2>2. StartIsThere' /\ StartKnows' /\ GoneIsDeleted' /\ RemovalHolds'
    BY <1>0, <2>1 DEF StartIsThere, StartKnows, GoneIsDeleted, Deleting, RemovalHolds
  <2>3. StillReleased
    BY <1>43, <1>1 DEF ClaimsFinish, Ends, NoOp, RowType
  <2>4. EndingKnows'
    <3>1. ending'[f].target = t /\ \A g \in Flows : g # f => ending'[g] = ending[g]
      BY <1>43, <1>8 DEF ClaimsFinish, Ends
    <3> QED BY <1>0, <3>1, WorktreesAssumption DEF EndingKnows
  <2>5. RowIsThere'
    BY <1>0, <1>43, <1>1, <1>4, <2>1, <2>3 DEF RowIsThere, RowType
  <2>6. NotOwnedWhileDeleting'
    BY <1>0, <1>43, <1>1, <1>3, <2>1, <2>3 DEF NotOwnedWhileDeleting, Owner, Deleting,
       RowType, KeptType
  <2> QED BY <2>2, <2>4, <2>5, <2>6 DEF Safe
<1>44. ASSUME NEW r \in Removers, Inspects(r) PROVE Safe'
  <2>1. UNCHANGED <<row, op, kept, disk, files, agent, start, ending, mishaps>>
    BY <1>44 DEF Inspects
  <2>2. /\ EndingKnows' /\ StartIsThere' /\ RowIsThere'
        /\ StartKnows' /\ NotOwnedWhileDeleting' /\ GoneIsDeleted'
    BY <1>0, <2>1 DEF EndingKnows, StartIsThere, RowIsThere, StartKnows,
       NotOwnedWhileDeleting, Owner, Deleting, GoneIsDeleted
  <2>3. RemovalHolds'
    <3>1. /\ removal'[r].at = "claim" /\ removal'[r].of \in Creators
          /\ \A q \in Removers : q # r => removal'[q] = removal[q]
      BY <1>44, <1>9 DEF Inspects
    <3> QED BY <1>0, <2>1, <3>1, WorktreesAssumption DEF RemovalHolds, Deleting
  <2> QED BY <2>2, <2>3 DEF Safe
<1>45. ASSUME NEW r \in Removers, ClaimsRemoval(r) PROVE Safe'
  <2>1. UNCHANGED <<row, op, disk, files, agent, start, ending, mishaps>>
    BY <1>45 DEF ClaimsRemoval
  <2>2. EndingKnows' /\ StartIsThere' /\ RowIsThere' /\ StartKnows'
    BY <1>0, <2>1 DEF EndingKnows, StartIsThere, RowIsThere, StartKnows
  <2>3. NotOwnedWhileDeleting'
    BY <1>0, <1>45, <1>1, <1>3, <2>1 DEF ClaimsRemoval, Goes, NotRemoving,
       NotOwnedWhileDeleting, Owner, Deleting, RowType, KeptType
  <2>4. GoneIsDeleted'
    BY <1>0, <1>45, <1>4, <1>3, <2>1 DEF ClaimsRemoval, Goes, NotRemoving,
       GoneIsDeleted, Deleting, KeptType
  <2>5. RemovalHolds'
    BY <1>0, <1>45, <1>9, <1>3, <2>1 DEF ClaimsRemoval, Goes, NotRemoving,
       RemovalHolds, Deleting, RemovalType, KeptType
  <2> QED BY <2>2, <2>3, <2>4, <2>5 DEF Safe
<1>46. ASSUME NEW r \in Removers, Looks(r) PROVE Safe'
  <2>1. UNCHANGED <<row, op, kept, disk, files, agent, start, ending, mishaps>>
    BY <1>46 DEF Looks
  <2>2. /\ EndingKnows' /\ StartIsThere' /\ RowIsThere'
        /\ StartKnows' /\ NotOwnedWhileDeleting' /\ GoneIsDeleted'
    BY <1>0, <2>1 DEF EndingKnows, StartIsThere, RowIsThere, StartKnows,
       NotOwnedWhileDeleting, Owner, Deleting, GoneIsDeleted
  <2>3. RemovalHolds'
    BY <1>0, <1>46, <1>9, <1>3, <2>1 DEF Looks, RemovalHolds, Deleting, RemovalType,
       KeptType
  <2> QED BY <2>2, <2>3 DEF Safe
<1>47. ASSUME NEW r \in Removers, LooksAgain(r) PROVE Safe'
  <2>1. UNCHANGED <<row, op, kept, disk, files, agent, start, ending, mishaps>>
    BY <1>47 DEF LooksAgain
  <2>2. /\ EndingKnows' /\ StartIsThere' /\ RowIsThere'
        /\ StartKnows' /\ NotOwnedWhileDeleting' /\ GoneIsDeleted'
    BY <1>0, <2>1 DEF EndingKnows, StartIsThere, RowIsThere, StartKnows,
       NotOwnedWhileDeleting, Owner, Deleting, GoneIsDeleted
  <2>3. RemovalHolds'
    BY <1>0, <1>47, <1>9, <1>3, <2>1 DEF LooksAgain, Goes, RemovalHolds, Deleting,
       RemovalType, KeptType
  <2> QED BY <2>2, <2>3 DEF Safe
<1>48. ASSUME NEW r \in Removers, Removes(r) PROVE Safe'
  <2>1. UNCHANGED <<row, op, kept, files, agent, start, ending>>
    BY <1>48 DEF Removes
  <2>2. EndingKnows' /\ StartKnows' /\ NotOwnedWhileDeleting'
    BY <1>0, <2>1 DEF EndingKnows, StartKnows, NotOwnedWhileDeleting, Owner, Deleting
  <2>3. StartIsThere'
    BY <1>0, <1>48, <1>7, <1>4, <2>1 DEF Removes, Goes, Mishap, StartIsThere, StartType
  <2>4. RowIsThere'
    BY <1>0, <1>48, <1>1, <1>4, <2>1 DEF Removes, Goes, Mishap, RowIsThere, RowType
  <2>5. GoneIsDeleted'
    <3>1. removal[r].of \in Creators /\ Deleting(removal[r].of)
      BY <1>0, <1>48, <1>9 DEF Removes, RemovalHolds, RemovalType
    <3>2. \A c \in Creators : c # removal[r].of => disk'[c] = disk[c]
      BY <1>48, <1>4 DEF Removes
    <3> QED BY <1>0, <2>1, <3>1, <3>2 DEF GoneIsDeleted, Deleting
  <2>6. RemovalHolds'
    <3>1. /\ removal[r].at = "remove" /\ removal'[r].of = removal[r].of
          /\ \A q \in Removers : q # r => removal'[q] = removal[q]
      BY <1>48, <1>9 DEF Removes, Goes, RemovalType
    <3> QED BY <1>0, <2>1, <3>1 DEF RemovalHolds, Deleting
  <2> QED BY <2>2, <2>3, <2>4, <2>5, <2>6 DEF Safe
<1>49. ASSUME NEW r \in Removers, FinishesRemoval(r) PROVE Safe'
  <2>1. UNCHANGED <<row, op, disk, files, agent, start, ending, mishaps>>
    BY <1>49 DEF FinishesRemoval
  <2>2. EndingKnows' /\ StartIsThere' /\ RowIsThere' /\ StartKnows'
    BY <1>0, <2>1 DEF EndingKnows, StartIsThere, RowIsThere, StartKnows
  <2>3. NotOwnedWhileDeleting'
    <3>1. removal[r].of \in Creators /\ Deleting(removal[r].of)
      BY <1>0, <1>49, <1>9 DEF FinishesRemoval, RemovalHolds, RemovalType
    <3>2. \A c \in Creators : c # removal[r].of => kept'[c] = kept[c]
      BY <1>49, <1>3 DEF FinishesRemoval
    <3>3. \A f \in Flows : ~Owner(f, removal[r].of)
      BY <1>0, <3>1 DEF NotOwnedWhileDeleting
    <3> QED BY <1>0, <2>1, <3>2, <3>3 DEF NotOwnedWhileDeleting, Owner, Deleting
  <2>4. GoneIsDeleted'
    BY <1>0, <1>49, <1>4, <1>3, <2>1 DEF FinishesRemoval, NotRemoving, GoneIsDeleted,
       Deleting, KeptType
  <2>5. RemovalHolds'
    BY <1>0, <1>49, <1>9, <1>3, <2>1 DEF FinishesRemoval, NotRemoving, RemovalHolds,
       Deleting, RemovalType, KeptType
  <2> QED BY <2>2, <2>3, <2>4, <2>5 DEF Safe
<1>50. ASSUME NEW r \in Removers, RemoverDies(r) PROVE Safe'
  <2>1. UNCHANGED <<row, op, kept, disk, files, agent, start, ending>>
    BY <1>50 DEF RemoverDies
  <2>2. /\ EndingKnows' /\ StartIsThere' /\ RowIsThere'
        /\ StartKnows' /\ NotOwnedWhileDeleting' /\ GoneIsDeleted'
    BY <1>0, <2>1 DEF EndingKnows, StartIsThere, RowIsThere, StartKnows,
       NotOwnedWhileDeleting, Owner, Deleting, GoneIsDeleted
  <2>3. RemovalHolds'
    BY <1>0, <1>50, <1>9, <1>3, <2>1 DEF RemoverDies, NotRemoving, Mishap,
       RemovalHolds, Deleting, RemovalType, KeptType
  <2> QED BY <2>2, <2>3 DEF Safe
<1>51. ASSUME UNCHANGED vars PROVE Safe'
  BY <1>0, <1>51 DEF vars, Safe, EndingKnows, StartIsThere, RowIsThere, StartKnows,
     NotOwnedWhileDeleting, Owner,
     GoneIsDeleted, Deleting, RemovalHolds
<1> QED BY <1>11, <1>12, <1>13, <1>14, <1>15, <1>16, <1>17, <1>18, <1>19, <1>20, <1>21,
   <1>22, <1>23, <1>24, <1>25, <1>26, <1>27, <1>28, <1>29, <1>30, <1>31, <1>32, <1>33,
   <1>34, <1>35, <1>36, <1>37, <1>38, <1>39, <1>40, <1>41, <1>42, <1>43, <1>44, <1>45,
   <1>46, <1>47, <1>48, <1>49, <1>50, <1>51
  DEF Next, Starts, EndsFlow, RemovesWorktree

-----------------------------------------------------------------------------
LEMMA InitHolds == Init => IInv
<1> SUFFICES ASSUME Init PROVE IInv
  OBVIOUS
<1>1. row \in [Flows -> RowType] /\ op \in [Flows -> OpType]
  BY DEF Init, RowType, OpType, NoOp
<1>2. kept \in [Creators -> KeptType]
  BY DEF Init, KeptType
<1>3. /\ disk \in [Creators -> {"absent", "present", "gone"}]
      /\ files \in [Creators -> {"start", "work"}]
      /\ agent \in [Flows -> Creators \cup {None}]
  BY DEF Init
<1>4. start \in [Flows -> StartType] /\ ending \in [Flows -> EndingType]
  BY DEF Init, StartType, NewStart, StartPlaces, EndingType, Idle, EndingPlaces
<1>5. removal \in [Removers -> RemovalType]
  BY DEF Init, RemovalType, NotRemoving, RemovalPlaces
<1>6. mishaps \in 0..MaxMishaps
  BY WorktreesAssumption DEF Init
<1>7. EndingKnows /\ StartIsThere /\ RowIsThere /\ StartKnows
  BY DEF Init, EndingKnows, Idle, StartIsThere, RowIsThere, StartKnows, NewStart
<1>8. NotOwnedWhileDeleting /\ GoneIsDeleted /\ RemovalHolds
  BY DEF Init, NotOwnedWhileDeleting, GoneIsDeleted, RemovalHolds, Deleting, NotRemoving
<1> QED
  BY <1>1, <1>2, <1>3, <1>4, <1>5, <1>6, <1>7, <1>8 DEF IInv, TypeOK, Safe

LEMMA InvariantHolds == Spec => []IInv
<1>1. IInv /\ [Next]_vars => IInv'
  BY TypeStep, SafeStep DEF IInv, Safe
<1> QED BY InitHolds, <1>1, PTL DEF Spec

\* Every reachable state is typed: no command is at a place it does not have,
\* and no finish is completed without an outcome.
THEOREM TypeCorrect == Spec => []TypeOK
<1>1. IInv => TypeOK
  BY DEF IInv
<1> QED BY InvariantHolds, <1>1, PTL

\* A checkout that a workflow has on record and has not released is there and is
\* not being deleted, for any number of workflows that share a name, removals
\* under way and mishaps: both records of a start refuse a checkout that is being
\* deleted, and a removal claims only a checkout that nobody owns.
THEOREM OwnedIsThereHolds == Spec => []OwnedIsThere
<1>1. ASSUME IInv, NEW f \in Flows, NEW c \in Creators, Owner(f, c)
      PROVE  disk[c] = "present" /\ kept[c].state \in {"none", "retained"}
  <2>1. ~Deleting(c) /\ disk[c] # "gone"
    BY <1>1 DEF IInv, Safe, NotOwnedWhileDeleting, GoneIsDeleted
  <2>2. disk[c] # "absent"
    BY <1>1, WorktreesAssumption DEF IInv, Safe, RowIsThere, Owner
  <2> QED BY <1>1, <2>1, <2>2 DEF IInv, TypeOK, KeptType, Deleting
<1>2. IInv => OwnedIsThere
  BY <1>1 DEF OwnedIsThere
<1> QED BY InvariantHolds, <1>2, PTL
-----------------------------------------------------------------------------
\* No checkout is lost.  Until its start comes to attach, a row refers to nothing;
\* what a creator's start knows of is the checkout of its name; a start that
\* meets a conflict, or comes to its end, finds that checkout on record.
Early == {"idle", "reserve", "name", "call", "attach"}
LedgerAt(f) ==
  /\ start[f].at \in Early => row[f].ref = None
  /\ f \in Creators =>
       /\ start[f].at \in Early \ {"attach"} => ~start[f].knows
       /\ start[f].knows \/ start[f].at = "attach" => start[f].of = f
       /\ start[f].at \in {"claim", "activate", "complete"} => row[f].ref = f
       /\ start[f].knows /\ (start[f].conflict \/ start[f].at \in {"release", "mark"})
            => Recorded(f)
LedgerHolds == \A f \in Flows : LedgerAt(f)

\* A record is only ever added: neither ledger nor row forgets a checkout.
KeptStays == \A c \in Creators : kept[c].state # "none" => kept'[c].state # "none"
RefStays(g) == row'[g].ref = row[g].ref \/ row[g].ref = None
Stays(g) == start'[g] = start[g] /\ row'[g].ref = row[g].ref
EndsAtEnd(g) == start'[g].at = "ended" => start[g].at \in {"ended", "mark", "complete"}

LEMMA RecordStays ==
  ASSUME KeptStays, \A g \in Flows : RefStays(g), NEW c \in Creators, Recorded(c)
  PROVE  Recorded(c)'
BY WorktreesAssumption DEF KeptStays, RefStays, Recorded

LEMMA OthersKeep ==
  ASSUME KeptStays, \A g \in Flows : RefStays(g), NEW g \in Flows, Stays(g), LedgerAt(g)
  PROVE  LedgerAt(g)' /\ EndsAtEnd(g)
<1>1. g \in Creators /\ Recorded(g) => Recorded(g)'
  BY RecordStays
<1> QED BY <1>1 DEF LedgerAt, Stays, EndsAtEnd

\* What the update of one flow's start or row leaves alone.
LEMMA RetainedRecords ==
  ASSUME TypeOK, NEW c, NEW f, NEW owns
  PROVE  /\ \A d \in Creators : kept[d].state # "none" => Retained(c, f, owns)[d].state # "none"
         /\ c \in Creators => Retained(c, f, owns)[c].state # "none"
BY DEF TypeOK, KeptType, Retained

\* A start changes its own flow, and records what it knows of before it ends.
StartKeeps(f) ==
  /\ KeptStays /\ RefStays(f) /\ \A g \in Flows \ {f} : Stays(g)
  /\ LedgerAt(f)' /\ EndsAtEnd(f)

LEMMA StartLedger ==
  ASSUME TypeOK, LedgerHolds, NEW f \in Flows, Starts(f)
  PROVE  LedgerHolds' /\ (\A g \in Flows : RefStays(g) /\ EndsAtEnd(g)) /\ KeptStays
<1>0. /\ row \in [Flows -> RowType] /\ start \in [Flows -> StartType]
      /\ kept \in [Creators -> KeptType] /\ LedgerAt(f)
  BY DEF TypeOK, LedgerHolds
<1>1. ASSUME LooksUp(f) PROVE StartKeeps(f)
  <2>1. UNCHANGED <<row, kept>>
    BY <1>1 DEF LooksUp
  <2>2. RefStays(f) /\ \A g \in Flows : row'[g].ref = row[g].ref
    BY <2>1 DEF RefStays
  <2>3. \A g \in Flows \ {f} : start'[g] = start[g]
    BY <1>0, <1>1 DEF LooksUp, NewStart, StartType
  <2>4. KeptStays
    BY <2>1 DEF KeptStays
  <2>5. LedgerAt(f)' /\ EndsAtEnd(f)
    BY <1>0, <1>1, <2>1, <2>2
       DEF LooksUp, NewStart, StartType, LedgerAt, EndsAtEnd, Early, Recorded
  <2> QED BY <2>2, <2>3, <2>4, <2>5 DEF StartKeeps, Stays
<1>2. ASSUME ReleasesStale(f) PROVE StartKeeps(f)
  <2>1. UNCHANGED <<kept>>
    BY <1>2 DEF ReleasesStale
  <2>2. RefStays(f) /\ \A g \in Flows : row'[g].ref = row[g].ref
    BY <1>0, <1>2 DEF ReleasesStale, RowType, RefStays, Released
  <2>3. \A g \in Flows \ {f} : start'[g] = start[g]
    BY <1>0, <1>2 DEF ReleasesStale, StartType
  <2>4. KeptStays
    BY <2>1 DEF KeptStays
  <2>5. LedgerAt(f)' /\ EndsAtEnd(f)
    BY <1>0, <1>2, <2>1, <2>2
       DEF ReleasesStale, StartType, RowType, LedgerAt, EndsAtEnd, Early, Recorded
  <2> QED BY <2>2, <2>3, <2>4, <2>5 DEF StartKeeps, Stays
<1>3. ASSUME Reserves(f) PROVE StartKeeps(f)
  <2>1. UNCHANGED <<kept>>
    BY <1>3 DEF Reserves
  <2>2. RefStays(f) /\ \A g \in Flows : row'[g].ref = row[g].ref
    BY <1>0, <1>3 DEF Reserves, RowType, RefStays, Released
  <2>3. \A g \in Flows \ {f} : start'[g] = start[g]
    BY <1>0, <1>3 DEF Reserves, To, StartType
  <2>4. KeptStays
    BY <2>1 DEF KeptStays
  <2>5. LedgerAt(f)' /\ EndsAtEnd(f)
    BY <1>0, <1>3, <2>1, <2>2
       DEF Reserves, To, StartType, RowType, LedgerAt, EndsAtEnd, Early, Recorded
  <2> QED BY <2>2, <2>3, <2>4, <2>5 DEF StartKeeps, Stays
<1>4. ASSUME ChecksName(f) PROVE StartKeeps(f)
  <2>1. UNCHANGED <<kept>>
    BY <1>4 DEF ChecksName
  <2>2. RefStays(f) /\ \A g \in Flows : row'[g].ref = row[g].ref
    <3>1. row' = row \/ \E g \in Flows : row' = [row EXCEPT ![g] = Released(row[g])]
      BY <1>4 DEF ChecksName
    <3>2. ASSUME NEW h \in Flows, row' = [row EXCEPT ![h] = Released(row[h])]
          PROVE  \A g \in Flows : row'[g].ref = row[g].ref
      BY <1>0, <3>2 DEF RowType, Released
    <3> QED BY <3>1, <3>2 DEF RefStays
  <2>3. \A g \in Flows \ {f} : start'[g] = start[g]
    BY <1>0, <1>4 DEF ChecksName, To, StartType
  <2>4. KeptStays
    BY <2>1 DEF KeptStays
  <2>5. LedgerAt(f)' /\ EndsAtEnd(f)
    BY <1>0, <1>4, <2>1, <2>2
       DEF ChecksName, To, StartType, RowType, LedgerAt, EndsAtEnd, Early, Recorded
  <2> QED BY <2>2, <2>3, <2>4, <2>5 DEF StartKeeps, Stays
<1>5. ASSUME NameIsTaken(f) PROVE StartKeeps(f)
  <2>1. UNCHANGED <<row, kept>>
    BY <1>5 DEF NameIsTaken
  <2>2. RefStays(f) /\ \A g \in Flows : row'[g].ref = row[g].ref
    BY <2>1 DEF RefStays
  <2>3. \A g \in Flows \ {f} : start'[g] = start[g]
    BY <1>0, <1>5 DEF NameIsTaken, To, StartType
  <2>4. KeptStays
    BY <2>1 DEF KeptStays
  <2>5. LedgerAt(f)' /\ EndsAtEnd(f)
    BY <1>0, <1>5, <2>1, <2>2
       DEF NameIsTaken, To, StartType, LedgerAt, EndsAtEnd, Early, Recorded
  <2> QED BY <2>2, <2>3, <2>4, <2>5 DEF StartKeeps, Stays
<1>6. ASSUME Allocates(f) PROVE StartKeeps(f)
  <2>1. UNCHANGED <<row, kept>>
    BY <1>6 DEF Allocates
  <2>2. RefStays(f) /\ \A g \in Flows : row'[g].ref = row[g].ref
    BY <2>1 DEF RefStays
  <2>3. \A g \in Flows \ {f} : start'[g] = start[g]
    BY <1>0, <1>6 DEF Allocates, NewStart, StartType
  <2>4. KeptStays
    BY <2>1 DEF KeptStays
  <2>5. LedgerAt(f)' /\ EndsAtEnd(f)
    BY <1>0, <1>6, <2>1, <2>2
       DEF Allocates, NewStart, StartType, LedgerAt, EndsAtEnd, Early, Recorded
  <2> QED BY <2>2, <2>3, <2>4, <2>5 DEF StartKeeps, Stays
<1>7. ASSUME AllocationFails(f) PROVE StartKeeps(f)
  <2>1. UNCHANGED <<row, kept>>
    BY <1>7 DEF AllocationFails
  <2>2. RefStays(f) /\ \A g \in Flows : row'[g].ref = row[g].ref
    BY <2>1 DEF RefStays
  <2>3. \A g \in Flows \ {f} : start'[g] = start[g]
    BY <1>0, <1>7 DEF AllocationFails, NewStart, StartType
  <2>4. KeptStays
    BY <2>1 DEF KeptStays
  <2>5. LedgerAt(f)' /\ EndsAtEnd(f)
    BY <1>0, <1>7, <2>1, <2>2
       DEF AllocationFails, NewStart, StartType, LedgerAt, EndsAtEnd, Early, Recorded
  <2> QED BY <2>2, <2>3, <2>4, <2>5 DEF StartKeeps, Stays
<1>8. ASSUME OpensAgent(f) PROVE StartKeeps(f)
  <2>1. UNCHANGED <<row, kept>>
    BY <1>8 DEF OpensAgent
  <2>2. RefStays(f) /\ \A g \in Flows : row'[g].ref = row[g].ref
    BY <2>1 DEF RefStays
  <2>3. \A g \in Flows \ {f} : start'[g] = start[g]
    BY <1>0, <1>8 DEF OpensAgent, StartType
  <2>4. KeptStays
    BY <2>1 DEF KeptStays
  <2>5. LedgerAt(f)' /\ EndsAtEnd(f)
    <3>1. f \notin Creators
      BY <1>8, WorktreesAssumption DEF OpensAgent
    <3>2. start'[f].at = "attach" /\ start[f].at = "call" /\ row'[f].ref = row[f].ref
      BY <1>0, <1>8, <2>2 DEF OpensAgent, StartType
    <3> QED BY <1>0, <3>1, <3>2 DEF LedgerAt, EndsAtEnd, Early
  <2> QED BY <2>2, <2>3, <2>4, <2>5 DEF StartKeeps, Stays
<1>9. ASSUME OpeningFails(f) PROVE StartKeeps(f)
  <2>1. UNCHANGED <<row, kept>>
    BY <1>9 DEF OpeningFails
  <2>2. RefStays(f) /\ \A g \in Flows : row'[g].ref = row[g].ref
    BY <2>1 DEF RefStays
  <2>3. \A g \in Flows \ {f} : start'[g] = start[g]
    BY <1>0, <1>9 DEF OpeningFails, To, StartType
  <2>4. KeptStays
    BY <2>1 DEF KeptStays
  <2>5. LedgerAt(f)' /\ EndsAtEnd(f)
    BY <1>0, <1>9, <2>1, <2>2
       DEF OpeningFails, To, StartType, LedgerAt, EndsAtEnd, Early, Recorded
  <2> QED BY <2>2, <2>3, <2>4, <2>5 DEF StartKeeps, Stays
<1>10. ASSUME IdentityFails(f) PROVE StartKeeps(f)
  <2>1. UNCHANGED <<row, kept>>
    BY <1>10 DEF IdentityFails
  <2>2. RefStays(f) /\ \A g \in Flows : row'[g].ref = row[g].ref
    BY <2>1 DEF RefStays
  <2>3. \A g \in Flows \ {f} : start'[g] = start[g]
    BY <1>0, <1>10 DEF IdentityFails, To, StartType
  <2>4. KeptStays
    BY <2>1 DEF KeptStays
  <2>5. LedgerAt(f)' /\ EndsAtEnd(f)
    BY <1>0, <1>10, <2>1, <2>2
       DEF IdentityFails, To, StartType, LedgerAt, EndsAtEnd, Early, Recorded
  <2> QED BY <2>2, <2>3, <2>4, <2>5 DEF StartKeeps, Stays
<1>11. ASSUME Attaches(f) PROVE StartKeeps(f)
  <2>1. UNCHANGED <<kept>>
    BY <1>11 DEF Attaches
  <2>2. RefStays(f) /\ \A g \in Flows \ {f} : row'[g].ref = row[g].ref
    BY <1>0, <1>11 DEF Attaches, RowType, RefStays, LedgerAt, Early
  <2>3. \A g \in Flows \ {f} : start'[g] = start[g]
    BY <1>0, <1>11 DEF Attaches, To, StartType
  <2>4. KeptStays
    BY <2>1 DEF KeptStays
  <2>5. LedgerAt(f)' /\ EndsAtEnd(f)
    <3> DEFINE good == row[f].status = "starting" /\ ~Refused(f)
    <3>1. start[f].at = "attach" /\ (f \in Creators => start[f].of = f)
      BY <1>0, <1>11 DEF Attaches, LedgerAt
    <3>2. CASE good
      <4>1. row'[f].ref = start[f].of /\ start'[f].at = "claim"
            /\ start'[f].of = start[f].of /\ start'[f].knows = start[f].knows
            /\ start'[f].conflict = start[f].conflict
        <5>1. row' = [row EXCEPT ![f] = [@ EXCEPT !.ref = start[f].of, !.handle = TRUE,
                                       !.owned = TRUE, !.owns = f \in Creators]]
          BY <1>11, <3>2 DEF Attaches
        <5> DEFINE owns == f \in Creators
        <5>2. row'[f] = [row[f] EXCEPT !.ref = start[f].of, !.handle = TRUE,
                                       !.owned = TRUE, !.owns = owns]
          BY <1>0, <5>1
        <5> HIDE DEF owns
        <5>3. row'[f].ref = start[f].of
          BY <1>0, <5>2 DEF RowType
        <5>4. start' = [start EXCEPT ![f].at = "claim"]
          BY <1>11, <3>2 DEF Attaches, To
        <5> QED BY <1>0, <5>3, <5>4 DEF StartType
      <4>2. f \in Creators => Recorded(f)'
        BY <3>1, <4>1 DEF Recorded, Flows
      <4> QED BY <3>1, <4>1, <4>2 DEF LedgerAt, EndsAtEnd, Early
    <3>3. CASE ~good
      <4>1. start'[f].at = "fail" /\ start'[f].of = start[f].of
            /\ start'[f].knows = start[f].knows
            /\ (start'[f].conflict => row[f].status = "starting")
        BY <1>0, <1>11, <3>3 DEF Attaches, StartType
      <4>2. UNCHANGED <<row, kept>>
        BY <1>11, <3>3 DEF Attaches
      <4>3. f \in Creators /\ row[f].status = "starting" => Recorded(f)
        BY <3>1, <3>3 DEF Refused, Deleting, Owner, Recorded
      <4>4. f \in Creators /\ row[f].status = "starting" => Recorded(f)'
        BY <4>2, <4>3 DEF Recorded
      <4> QED BY <3>1, <4>1, <4>4 DEF LedgerAt, EndsAtEnd, Early
    <3> QED BY <3>2, <3>3
  <2> QED BY <2>2, <2>3, <2>4, <2>5 DEF StartKeeps, Stays
<1>12. ASSUME ClaimsActivation(f) PROVE StartKeeps(f)
  <2>1. UNCHANGED <<row, kept>>
    BY <1>12 DEF ClaimsActivation
  <2>2. RefStays(f) /\ \A g \in Flows : row'[g].ref = row[g].ref
    BY <2>1 DEF RefStays
  <2>3. \A g \in Flows \ {f} : start'[g] = start[g]
    BY <1>0, <1>12 DEF ClaimsActivation, To, StartType
  <2>4. KeptStays
    BY <2>1 DEF KeptStays
  <2>5. LedgerAt(f)' /\ EndsAtEnd(f)
    BY <1>0, <1>12, <2>1, <2>2
       DEF ClaimsActivation, To, StartType, LedgerAt, EndsAtEnd, Early, Recorded
  <2> QED BY <2>2, <2>3, <2>4, <2>5 DEF StartKeeps, Stays
<1>13. ASSUME Activates(f) PROVE StartKeeps(f)
  <2>1. UNCHANGED <<row, kept>>
    BY <1>13 DEF Activates
  <2>2. RefStays(f) /\ \A g \in Flows : row'[g].ref = row[g].ref
    BY <2>1 DEF RefStays
  <2>3. \A g \in Flows \ {f} : start'[g] = start[g]
    BY <1>0, <1>13 DEF Activates, To, StartType
  <2>4. KeptStays
    BY <2>1 DEF KeptStays
  <2>5. LedgerAt(f)' /\ EndsAtEnd(f)
    BY <1>0, <1>13, <2>1, <2>2
       DEF Activates, To, StartType, LedgerAt, EndsAtEnd, Early, Recorded
  <2> QED BY <2>2, <2>3, <2>4, <2>5 DEF StartKeeps, Stays
<1>14. ASSUME CompletesActivation(f) PROVE StartKeeps(f)
  <2>1. UNCHANGED <<kept>>
    BY <1>14 DEF CompletesActivation
  <2>2. RefStays(f) /\ \A g \in Flows : row'[g].ref = row[g].ref
    BY <1>0, <1>14 DEF CompletesActivation, RowType, RefStays, Released
  <2>3. \A g \in Flows \ {f} : start'[g] = start[g]
    BY <1>0, <1>14 DEF CompletesActivation, To, Exits, NewStart, StartType
  <2>4. KeptStays
    BY <2>1 DEF KeptStays
  <2>5. LedgerAt(f)' /\ EndsAtEnd(f)
    BY <1>0, <1>14, <2>1, <2>2
       DEF CompletesActivation, To, Exits, NewStart, StartType, RowType, LedgerAt, EndsAtEnd, Early, Recorded
  <2> QED BY <2>2, <2>3, <2>4, <2>5 DEF StartKeeps, Stays
<1>15. ASSUME AttachesPartially(f) PROVE StartKeeps(f)
  <2>1. UNCHANGED <<kept>>
    BY <1>15 DEF AttachesPartially
  <2>2. RefStays(f) /\ \A g \in Flows \ {f} : row'[g].ref = row[g].ref
    BY <1>0, <1>15 DEF AttachesPartially, RowType, RefStays, LedgerAt, Early
  <2>3. \A g \in Flows \ {f} : start'[g] = start[g]
    BY <1>0, <1>15 DEF AttachesPartially, To, StartType
  <2>4. KeptStays
    BY <2>1 DEF KeptStays
  <2>5. LedgerAt(f)' /\ EndsAtEnd(f)
    BY <1>0, <1>15, <2>1, <2>2
       DEF AttachesPartially, To, StartType, RowType, LedgerAt, EndsAtEnd, Early, Recorded
  <2> QED BY <2>2, <2>3, <2>4, <2>5 DEF StartKeeps, Stays
<1>16. ASSUME ClosesAgent(f) PROVE StartKeeps(f)
  <2>1. UNCHANGED <<row, kept>>
    BY <1>16 DEF ClosesAgent
  <2>2. RefStays(f) /\ \A g \in Flows : row'[g].ref = row[g].ref
    BY <2>1 DEF RefStays
  <2>3. \A g \in Flows \ {f} : start'[g] = start[g]
    BY <1>0, <1>16 DEF ClosesAgent, StartType
  <2>4. KeptStays
    BY <2>1 DEF KeptStays
  <2>5. LedgerAt(f)' /\ EndsAtEnd(f)
    BY <1>0, <1>16, <2>1, <2>2
       DEF ClosesAgent, StartType, LedgerAt, EndsAtEnd, Early, Recorded
  <2> QED BY <2>2, <2>3, <2>4, <2>5 DEF StartKeeps, Stays
<1>17. ASSUME Keeps(f) PROVE StartKeeps(f)
  <2>1. UNCHANGED row
    BY <1>17 DEF Keeps
  <2>2. RefStays(f) /\ \A g \in Flows : row'[g].ref = row[g].ref
    BY <2>1 DEF RefStays
  <2>3. \A g \in Flows \ {f} : start'[g] = start[g]
    BY <1>0, <1>17 DEF Keeps, To, StartType
  <2>4. KeptStays
    BY <1>17, RetainedRecords DEF Keeps, KeptStays
  <2>5. LedgerAt(f)' /\ EndsAtEnd(f)
    <3>1. /\ start[f].at = "keep" /\ start'[f].at \in {"release", "mark"}
          /\ start'[f].of = start[f].of /\ start'[f].knows = start[f].knows
          /\ start'[f].conflict = start[f].conflict
      BY <1>0, <1>17 DEF Keeps, To, StartType
    <3>2. CASE start[f].conflict
      <4>1. f \in Creators /\ start[f].knows => Recorded(f)
        BY <1>0, <3>2 DEF LedgerAt
      <4>2. UNCHANGED <<row, kept>>
        BY <1>17, <3>2 DEF Keeps
      <4>3. f \in Creators /\ start[f].knows => Recorded(f)'
        BY <4>1, <4>2 DEF Recorded
      <4> QED BY <1>0, <3>1, <4>3 DEF LedgerAt, EndsAtEnd, Early
    <3>3. CASE ~start[f].conflict
      <4> DEFINE owns == f \in Creators
      <4>1. f \in Creators /\ start[f].knows => start[f].of = f
        BY <1>0 DEF LedgerAt
      <4>2. kept' = Retained(start[f].of, f, owns)
        BY <1>17, <3>3 DEF Keeps
      <4> HIDE DEF owns
      <4>3. f \in Creators /\ start[f].knows => Recorded(f)'
        BY <4>1, <4>2, RetainedRecords DEF Recorded
      <4> QED BY <1>0, <3>1, <4>3 DEF LedgerAt, EndsAtEnd, Early
    <3> QED BY <3>2, <3>3
  <2> QED BY <2>2, <2>3, <2>4, <2>5 DEF StartKeeps, Stays
<1>18. ASSUME ReleasesStart(f) PROVE StartKeeps(f)
  <2>1. UNCHANGED <<kept>>
    BY <1>18 DEF ReleasesStart
  <2>2. RefStays(f) /\ \A g \in Flows : row'[g].ref = row[g].ref
    BY <1>0, <1>18 DEF ReleasesStart, RowType, RefStays, Released
  <2>3. \A g \in Flows \ {f} : start'[g] = start[g]
    BY <1>0, <1>18 DEF ReleasesStart, To, StartType
  <2>4. KeptStays
    BY <2>1 DEF KeptStays
  <2>5. LedgerAt(f)' /\ EndsAtEnd(f)
    BY <1>0, <1>18, <2>1, <2>2
       DEF ReleasesStart, To, StartType, RowType, LedgerAt, EndsAtEnd, Early, Recorded
  <2> QED BY <2>2, <2>3, <2>4, <2>5 DEF StartKeeps, Stays
<1>19. ASSUME MarksFailed(f) PROVE StartKeeps(f)
  <2>1. UNCHANGED <<kept>>
    BY <1>19 DEF MarksFailed
  <2>2. RefStays(f) /\ \A g \in Flows : row'[g].ref = row[g].ref
    BY <1>0, <1>19 DEF MarksFailed, RowType, RefStays, Released
  <2>3. \A g \in Flows \ {f} : start'[g] = start[g]
    BY <1>0, <1>19 DEF MarksFailed, Exits, NewStart, StartType
  <2>4. KeptStays
    BY <2>1 DEF KeptStays
  <2>5. LedgerAt(f)' /\ EndsAtEnd(f)
    BY <1>0, <1>19, <2>1, <2>2
       DEF MarksFailed, Exits, NewStart, StartType, RowType, LedgerAt, EndsAtEnd, Early, Recorded
  <2> QED BY <2>2, <2>3, <2>4, <2>5 DEF StartKeeps, Stays
<1>20. ASSUME StartDies(f) PROVE StartKeeps(f)
  <2>1. UNCHANGED <<row, kept>>
    BY <1>20 DEF StartDies
  <2>2. RefStays(f) /\ \A g \in Flows : row'[g].ref = row[g].ref
    BY <2>1 DEF RefStays
  <2>3. \A g \in Flows \ {f} : start'[g] = start[g]
    BY <1>0, <1>20 DEF StartDies, Exits, NewStart, StartType
  <2>4. KeptStays
    BY <2>1 DEF KeptStays
  <2>5. LedgerAt(f)' /\ EndsAtEnd(f)
    BY <1>0, <1>20, <2>1, <2>2
       DEF StartDies, Exits, NewStart, StartType, LedgerAt, EndsAtEnd, Early, Recorded
  <2> QED BY <2>2, <2>3, <2>4, <2>5 DEF StartKeeps, Stays
<1>21. StartKeeps(f)
  BY <1>1, <1>2, <1>3, <1>4, <1>5, <1>6, <1>7, <1>8, <1>9, <1>10, <1>11, <1>12, <1>13,
     <1>14, <1>15, <1>16, <1>17, <1>18, <1>19, <1>20 DEF Starts
<1>22. \A g \in Flows : RefStays(g)
  BY <1>21 DEF StartKeeps, Stays, RefStays
<1>23. ASSUME NEW g \in Flows PROVE LedgerAt(g)' /\ EndsAtEnd(g)
  BY <1>21, <1>22, OthersKeep DEF StartKeeps, LedgerHolds
<1> QED BY <1>21, <1>22, <1>23 DEF LedgerHolds, StartKeeps

\* Whatever is not a start leaves the starts and the references of rows alone.
LEMMA RestLedger ==
  ASSUME TypeOK, LedgerHolds, UNCHANGED start, KeptStays,
         \A g \in Flows : row'[g].ref = row[g].ref
  PROVE  LedgerHolds' /\ (\A g \in Flows : RefStays(g) /\ EndsAtEnd(g)) /\ KeptStays
<1>1. \A g \in Flows : Stays(g) /\ RefStays(g)
  BY DEF Stays, RefStays
<1> QED BY <1>1, OthersKeep DEF LedgerHolds

LEMMA LedgerStep ==
  ASSUME TypeOK, LedgerHolds, [Next]_vars
  PROVE  LedgerHolds' /\ (\A g \in Flows : RefStays(g) /\ EndsAtEnd(g)) /\ KeptStays
<1>0. row \in [Flows -> RowType] /\ kept \in [Creators -> KeptType]
  BY DEF TypeOK
<1>1. ASSUME NEW f \in Flows, Starts(f)
      PROVE  LedgerHolds' /\ (\A g \in Flows : RefStays(g) /\ EndsAtEnd(g)) /\ KeptStays
  BY <1>1, StartLedger
<1>2. ASSUME NEW f \in Flows, EndsFlow(f)
      PROVE  UNCHANGED start /\ KeptStays /\ \A g \in Flows : row'[g].ref = row[g].ref
  <2>1. CASE \E t \in Outcomes : ClaimsFinish(f, t)
    BY <1>0, <2>1 DEF ClaimsFinish, RowType, Released, KeptStays
  <2>2. CASE CompletesFinish(f)
    BY <1>0, <2>2 DEF CompletesFinish, RowType, Released, KeptStays
  <2>3. CASE ClosesFinished(f)
    <3>1. row' = row \/ row' = [row EXCEPT ![f] = Released(row[f])]
          \/ row' = [row EXCEPT ![f].owned = FALSE]
      BY <2>3 DEF ClosesFinished
    <3>2. UNCHANGED <<start, kept>>
      BY <2>3 DEF ClosesFinished
    <3>3. CASE row' = [row EXCEPT ![f] = Released(row[f])]
      BY <1>0, <3>2, <3>3 DEF RowType, Released, KeptStays
    <3>4. CASE row' = [row EXCEPT ![f].owned = FALSE]
      BY <1>0, <3>2, <3>4 DEF RowType, KeptStays
    <3> QED BY <3>1, <3>2, <3>3, <3>4 DEF KeptStays
  <2>4. CASE StopsRole(f)
    BY <1>0, <2>4 DEF StopsRole, RowType, Released, KeptStays
  <2>5. CASE ReleasesRole(f)
    BY <1>0, <2>5, RetainedRecords DEF ReleasesRole, RowType, Released, KeptStays
  <2>6. CASE ClaimsCleanup(f)
    BY <1>0, <2>6 DEF ClaimsCleanup, RowType, Released, KeptStays
  <2>7. CASE CleansTerminals(f)
    BY <1>0, <2>7 DEF CleansTerminals, RowType, Released, KeptStays
  <2>8. CASE Reconciles(f)
    <3>1. \/ row' = row
          \/ \E s : row' = [row EXCEPT ![f] = [@ EXCEPT !.released = TRUE, !.status = s]]
      BY <2>8 DEF Reconciles
    <3>2. UNCHANGED start /\ kept' = Retained(row[f].ref, f, row[f].owns)
      BY <2>8 DEF Reconciles
    <3>3. KeptStays
      BY <3>2, RetainedRecords DEF KeptStays
    <3>4. \A g \in Flows : row'[g].ref = row[g].ref
      <4>1. ASSUME NEW s, row' = [row EXCEPT ![f] = [@ EXCEPT !.released = TRUE, !.status = s]]
            PROVE  \A g \in Flows : row'[g].ref = row[g].ref
        BY <1>0, <4>1 DEF RowType
      <4> QED BY <3>1, <4>1
    <3> QED BY <3>2, <3>3, <3>4
  <2>9. CASE CancelsStale(f)
    BY <1>0, <2>9 DEF CancelsStale, RowType, Released, KeptStays
  <2>10. CASE EndingDies(f)
    BY <1>0, <2>10 DEF EndingDies, RowType, Released, KeptStays
  <2>11. CASE ClaimAges(f)
    BY <1>0, <2>11 DEF ClaimAges, RowType, Released, KeptStays
  <2> QED BY <1>2, <2>1, <2>2, <2>3, <2>4, <2>5, <2>6, <2>7, <2>8, <2>9, <2>10, <2>11 DEF EndsFlow
<1>3. ASSUME NEW f \in Flows, AgentWorks(f) \/ AgentExits(f)
      PROVE  UNCHANGED <<start, row>> /\ KeptStays
  BY <1>3 DEF AgentWorks, AgentExits, KeptStays
<1>4. ASSUME NEW r \in Removers, RemovesWorktree(r)
      PROVE  UNCHANGED <<start, row>> /\ KeptStays
  <2>1. UNCHANGED <<start, row>>
    BY <1>4 DEF RemovesWorktree, Inspects, ClaimsRemoval, Looks, LooksAgain, Removes,
       FinishesRemoval, RemoverDies
  <2>2. CASE ClaimsRemoval(r)
    BY <1>0, <2>2 DEF ClaimsRemoval, KeptStays, KeptType
  <2>3. CASE FinishesRemoval(r)
    BY <1>0, <2>3 DEF FinishesRemoval, KeptStays, KeptType
  <2>4. CASE ~ClaimsRemoval(r) /\ ~FinishesRemoval(r)
    BY <1>4, <2>4 DEF RemovesWorktree, Inspects, Looks, LooksAgain, Removes, RemoverDies,
       KeptStays
  <2> QED BY <2>1, <2>2, <2>3, <2>4
<1>5. UNCHANGED vars => UNCHANGED <<start, row>> /\ KeptStays
  BY DEF vars, KeptStays
<1> QED BY <1>1, <1>2, <1>3, <1>4, <1>5, RestLedger DEF Next

LEMMA LedgerInvariant == Spec => [](TypeOK /\ LedgerHolds)
<1>1. Init => LedgerHolds
  BY DEF Init, LedgerHolds, LedgerAt, NewStart, Early
<1>2. TypeOK /\ LedgerHolds /\ [Next]_vars => LedgerHolds'
  BY LedgerStep
<1> QED BY TypeCorrect, <1>1, <1>2, PTL DEF Spec

\* A start that comes to its end with a checkout it knows it allocated leaves it
\* on record, whichever step failed and whoever cancelled, cleaned up or attached
\* meanwhile: for any number of workflows of one name, removals and mishaps.
THEOREM NoCheckoutIsLostHolds == Spec => NoCheckoutIsLost
<1>1. ASSUME TypeOK, LedgerHolds, [Next]_vars, NEW f \in Creators,
             start[f].at # "ended", start'[f].at = "ended", start[f].knows
      PROVE  Recorded(f)'
  <2>1. f \in Flows
    BY DEF Flows
  <2>2. start[f].at \in {"mark", "complete"}
    BY <1>1, <2>1, LedgerStep DEF EndsAtEnd
  <2>3. Recorded(f)
    BY <1>1, <2>1, <2>2 DEF LedgerHolds, LedgerAt, Recorded
  <2> QED BY <1>1, <2>3, LedgerStep, RecordStays
<1>2. TypeOK /\ LedgerHolds /\ [Next]_vars =>
        [\A f \in Creators :
           start[f].at # "ended" /\ start'[f].at = "ended" /\ start[f].knows => Recorded(f)']_vars
  BY <1>1
<1> QED BY <1>2, LedgerInvariant, PTL DEF Spec, NoCheckoutIsLost
=============================================================================
