---------------------------- MODULE ReviewProofs ----------------------------
(***************************************************************************)
(* Theorems about ReviewCycles, for any number of reviewers, cycles,       *)
(* coordinators, commits and mishaps.                                      *)
(*                                                                         *)
(* What a supervisor has before it is one of the scripts of its iteration, *)
(* cut off somewhere (Scripts); its next step is its place.  First it is   *)
(* shown where each action leads from (the lemmas named Goes), and from    *)
(* there on no proof looks at a sequence.  Then what a step may do is said *)
(* once for the rows (RowsStep), the signals (SignalStep), the outcome     *)
(* (OutcomeStep) and the worker's commits (HeadStep), and the invariants   *)
(* are proved from these; only what is about the places of the supervisors *)
(* goes through all the actions again.                                     *)
(***************************************************************************)
EXTENDS ReviewCycles, TLAPS

\* What a supervisor may have before it: what starts a role, what judges a
\* cycle, and what ends a run.
LookingScripts == {
  <<"idle">>,
  <<"watch">>,
  <<"signals">>,
  <<"work">>,
  <<"handoff", "finish", "launch">>,
  <<"finish", "launch">>,
  <<"launch">>,
  <<"ask", "start", "create", "launch">>,
  <<"start", "create", "launch">>,
  <<"create", "launch">>,
  <<"rework", "list">>,
  <<"list">>}
JudgingScripts == {
  <<"collect", "decide">>,
  <<"decide">>,
  <<"harvest", "check", "push", "complete", "retire", "close">>,
  <<"check", "push", "complete", "retire", "close">>,
  <<"push", "complete", "retire", "close">>,
  <<"complete", "retire", "close">>,
  <<"giveup", "release", "retire", "close">>,
  <<"exhaust", "salvage", "retire", "close">>,
  <<"stop", "read", "prepare", "rework", "rest">>,
  <<"read", "prepare", "rework", "rest">>,
  <<"prepare", "rework", "rest">>,
  <<"rework", "rest">>,
  <<"rest">>}
EndingScripts == {
  <<"stumble">>,
  <<"block", "salvage", "cancel", "release", "retire", "close">>,
  <<"salvage", "cancel", "release", "retire", "close">>,
  <<"cancel", "release", "retire", "close">>,
  <<"release", "retire", "close">>,
  <<"retire", "close">>,
  <<"close">>,
  <<"block", "release", "retire", "close">>,
  <<"blocker", "fold", "salvage", "reap", "retire", "close">>,
  <<"fold", "salvage", "reap", "retire", "close">>,
  <<"salvage", "reap", "retire", "close">>,
  <<"reap", "retire", "close">>,
  <<"salvage", "retire", "close">>,
  <<"release", "salvage", "retire", "close">>}
Scripts == {<<>>} \union LookingScripts \union JudgingScripts \union EndingScripts

\* The next step.  A worker is prompted again at the end of a reopening, or
\* before the reviewers' signals are listed, where a reopening was broken off.
Place(p) == CASE p = <<>> -> "none"
              [] p = <<"rework", "list">> -> "reopen"
              [] OTHER -> Head(p)
at(s) == Place(pc[s])

Follows(x) ==
  CASE x = "block" -> {"release", "salvage"}
    [] x = "salvage" -> {"cancel", "reap", "retire"}
    [] x = "cancel" -> {"release"}
    [] x = "release" -> {"retire", "salvage"}
    [] x = "retire" -> {"close"}
    [] x = "blocker" -> {"fold"}
    [] x = "fold" -> {"salvage"}
    [] x = "reap" -> {"retire"}
    [] x = "handoff" -> {"finish"}
    [] x = "finish" -> {"launch"}
    [] x = "ask" -> {"start"}
    [] x = "start" -> {"create"}
    [] x = "create" -> {"launch"}
    [] x = "reopen" -> {"list"}
    [] x = "collect" -> {"decide"}
    [] x = "harvest" -> {"check"}
    [] x = "check" -> {"push"}
    [] x = "push" -> {"complete"}
    [] x = "complete" -> {"retire"}
    [] x = "giveup" -> {"release"}
    [] x = "exhaust" -> {"salvage"}
    [] x = "stop" -> {"read"}
    [] x = "read" -> {"prepare"}
    [] x = "prepare" -> {"rework"}
    [] x = "rework" -> {"rest"}
    [] OTHER -> {"none"}

Shaped(p, q) ==
  /\ Tail(p) = q /\ p # <<>> /\ Head(p) \in Steps
  /\ Place(p) = IF p = <<"rework", "list">> THEN "reopen" ELSE Head(p)
  /\ Place(q) \in Follows(Place(p))

Scripted == pc \in [Supervisors -> Scripts]

Followed(p) == \E q \in Scripts : Shaped(p, q)

\* Every script is followed through to its end.
LEMMA Shape ==
  \A p \in Scripts : p # <<>> => \E q \in Scripts : Shaped(p, q)
<1>1. Followed(<<"idle">>)
  <2>1. Shaped(<<"idle">>,
               <<>>)
    BY DEF Shaped, Place, Follows, Steps
  <2>. QED BY <2>1 DEF Followed, Scripts
<1>2. Followed(<<"watch">>)
  <2>1. Shaped(<<"watch">>,
               <<>>)
    BY DEF Shaped, Place, Follows, Steps
  <2>. QED BY <2>1 DEF Followed, Scripts
<1>3. Followed(<<"signals">>)
  <2>1. Shaped(<<"signals">>,
               <<>>)
    BY DEF Shaped, Place, Follows, Steps
  <2>. QED BY <2>1 DEF Followed, Scripts
<1>4. Followed(<<"work">>)
  <2>1. Shaped(<<"work">>,
               <<>>)
    BY DEF Shaped, Place, Follows, Steps
  <2>. QED BY <2>1 DEF Followed, Scripts
<1>5. Followed(<<"handoff", "finish", "launch">>)
  <2>1. Shaped(<<"handoff", "finish", "launch">>,
               <<"finish", "launch">>)
    BY DEF Shaped, Place, Follows, Steps
  <2>. QED BY <2>1 DEF Followed, Scripts, LookingScripts
<1>6. Followed(<<"finish", "launch">>)
  <2>1. Shaped(<<"finish", "launch">>,
               <<"launch">>)
    BY DEF Shaped, Place, Follows, Steps
  <2>. QED BY <2>1 DEF Followed, Scripts, LookingScripts
<1>7. Followed(<<"launch">>)
  <2>1. Shaped(<<"launch">>,
               <<>>)
    BY DEF Shaped, Place, Follows, Steps
  <2>. QED BY <2>1 DEF Followed, Scripts
<1>8. Followed(<<"ask", "start", "create", "launch">>)
  <2>1. Shaped(<<"ask", "start", "create", "launch">>,
               <<"start", "create", "launch">>)
    BY DEF Shaped, Place, Follows, Steps
  <2>. QED BY <2>1 DEF Followed, Scripts, LookingScripts
<1>9. Followed(<<"start", "create", "launch">>)
  <2>1. Shaped(<<"start", "create", "launch">>,
               <<"create", "launch">>)
    BY DEF Shaped, Place, Follows, Steps
  <2>. QED BY <2>1 DEF Followed, Scripts, LookingScripts
<1>10. Followed(<<"create", "launch">>)
  <2>1. Shaped(<<"create", "launch">>,
               <<"launch">>)
    BY DEF Shaped, Place, Follows, Steps
  <2>. QED BY <2>1 DEF Followed, Scripts, LookingScripts
<1>11. Followed(<<"rework", "list">>)
  <2>1. Shaped(<<"rework", "list">>,
               <<"list">>)
    BY DEF Shaped, Place, Follows, Steps
  <2>. QED BY <2>1 DEF Followed, Scripts, LookingScripts
<1>12. Followed(<<"list">>)
  <2>1. Shaped(<<"list">>,
               <<>>)
    BY DEF Shaped, Place, Follows, Steps
  <2>. QED BY <2>1 DEF Followed, Scripts
<1>13. Followed(<<"collect", "decide">>)
  <2>1. Shaped(<<"collect", "decide">>,
               <<"decide">>)
    BY DEF Shaped, Place, Follows, Steps
  <2>. QED BY <2>1 DEF Followed, Scripts, JudgingScripts
<1>14. Followed(<<"decide">>)
  <2>1. Shaped(<<"decide">>,
               <<>>)
    BY DEF Shaped, Place, Follows, Steps
  <2>. QED BY <2>1 DEF Followed, Scripts
<1>15. Followed(<<"harvest", "check", "push", "complete", "retire", "close">>)
  <2>1. Shaped(<<"harvest", "check", "push", "complete", "retire", "close">>,
               <<"check", "push", "complete", "retire", "close">>)
    BY DEF Shaped, Place, Follows, Steps
  <2>. QED BY <2>1 DEF Followed, Scripts, JudgingScripts
<1>16. Followed(<<"check", "push", "complete", "retire", "close">>)
  <2>1. Shaped(<<"check", "push", "complete", "retire", "close">>,
               <<"push", "complete", "retire", "close">>)
    BY DEF Shaped, Place, Follows, Steps
  <2>. QED BY <2>1 DEF Followed, Scripts, JudgingScripts
<1>17. Followed(<<"push", "complete", "retire", "close">>)
  <2>1. Shaped(<<"push", "complete", "retire", "close">>,
               <<"complete", "retire", "close">>)
    BY DEF Shaped, Place, Follows, Steps
  <2>. QED BY <2>1 DEF Followed, Scripts, JudgingScripts
<1>18. Followed(<<"complete", "retire", "close">>)
  <2>1. Shaped(<<"complete", "retire", "close">>,
               <<"retire", "close">>)
    BY DEF Shaped, Place, Follows, Steps
  <2>. QED BY <2>1 DEF Followed, Scripts, EndingScripts
<1>19. Followed(<<"giveup", "release", "retire", "close">>)
  <2>1. Shaped(<<"giveup", "release", "retire", "close">>,
               <<"release", "retire", "close">>)
    BY DEF Shaped, Place, Follows, Steps
  <2>. QED BY <2>1 DEF Followed, Scripts, EndingScripts
<1>20. Followed(<<"exhaust", "salvage", "retire", "close">>)
  <2>1. Shaped(<<"exhaust", "salvage", "retire", "close">>,
               <<"salvage", "retire", "close">>)
    BY DEF Shaped, Place, Follows, Steps
  <2>. QED BY <2>1 DEF Followed, Scripts, EndingScripts
<1>21. Followed(<<"stop", "read", "prepare", "rework", "rest">>)
  <2>1. Shaped(<<"stop", "read", "prepare", "rework", "rest">>,
               <<"read", "prepare", "rework", "rest">>)
    BY DEF Shaped, Place, Follows, Steps
  <2>. QED BY <2>1 DEF Followed, Scripts, JudgingScripts
<1>22. Followed(<<"read", "prepare", "rework", "rest">>)
  <2>1. Shaped(<<"read", "prepare", "rework", "rest">>,
               <<"prepare", "rework", "rest">>)
    BY DEF Shaped, Place, Follows, Steps
  <2>. QED BY <2>1 DEF Followed, Scripts, JudgingScripts
<1>23. Followed(<<"prepare", "rework", "rest">>)
  <2>1. Shaped(<<"prepare", "rework", "rest">>,
               <<"rework", "rest">>)
    BY DEF Shaped, Place, Follows, Steps
  <2>. QED BY <2>1 DEF Followed, Scripts, JudgingScripts
<1>24. Followed(<<"rework", "rest">>)
  <2>1. Shaped(<<"rework", "rest">>,
               <<"rest">>)
    BY DEF Shaped, Place, Follows, Steps
  <2>. QED BY <2>1 DEF Followed, Scripts, JudgingScripts
<1>25. Followed(<<"rest">>)
  <2>1. Shaped(<<"rest">>,
               <<>>)
    BY DEF Shaped, Place, Follows, Steps
  <2>. QED BY <2>1 DEF Followed, Scripts
<1>26. Followed(<<"stumble">>)
  <2>1. Shaped(<<"stumble">>,
               <<>>)
    BY DEF Shaped, Place, Follows, Steps
  <2>. QED BY <2>1 DEF Followed, Scripts
<1>27. Followed(<<"block", "salvage", "cancel", "release", "retire", "close">>)
  <2>1. Shaped(<<"block", "salvage", "cancel", "release", "retire", "close">>,
               <<"salvage", "cancel", "release", "retire", "close">>)
    BY DEF Shaped, Place, Follows, Steps
  <2>. QED BY <2>1 DEF Followed, Scripts, EndingScripts
<1>28. Followed(<<"salvage", "cancel", "release", "retire", "close">>)
  <2>1. Shaped(<<"salvage", "cancel", "release", "retire", "close">>,
               <<"cancel", "release", "retire", "close">>)
    BY DEF Shaped, Place, Follows, Steps
  <2>. QED BY <2>1 DEF Followed, Scripts, EndingScripts
<1>29. Followed(<<"cancel", "release", "retire", "close">>)
  <2>1. Shaped(<<"cancel", "release", "retire", "close">>,
               <<"release", "retire", "close">>)
    BY DEF Shaped, Place, Follows, Steps
  <2>. QED BY <2>1 DEF Followed, Scripts, EndingScripts
<1>30. Followed(<<"release", "retire", "close">>)
  <2>1. Shaped(<<"release", "retire", "close">>,
               <<"retire", "close">>)
    BY DEF Shaped, Place, Follows, Steps
  <2>. QED BY <2>1 DEF Followed, Scripts, EndingScripts
<1>31. Followed(<<"retire", "close">>)
  <2>1. Shaped(<<"retire", "close">>,
               <<"close">>)
    BY DEF Shaped, Place, Follows, Steps
  <2>. QED BY <2>1 DEF Followed, Scripts, EndingScripts
<1>32. Followed(<<"close">>)
  <2>1. Shaped(<<"close">>,
               <<>>)
    BY DEF Shaped, Place, Follows, Steps
  <2>. QED BY <2>1 DEF Followed, Scripts
<1>33. Followed(<<"block", "release", "retire", "close">>)
  <2>1. Shaped(<<"block", "release", "retire", "close">>,
               <<"release", "retire", "close">>)
    BY DEF Shaped, Place, Follows, Steps
  <2>. QED BY <2>1 DEF Followed, Scripts, EndingScripts
<1>34. Followed(<<"blocker", "fold", "salvage", "reap", "retire", "close">>)
  <2>1. Shaped(<<"blocker", "fold", "salvage", "reap", "retire", "close">>,
               <<"fold", "salvage", "reap", "retire", "close">>)
    BY DEF Shaped, Place, Follows, Steps
  <2>. QED BY <2>1 DEF Followed, Scripts, EndingScripts
<1>35. Followed(<<"fold", "salvage", "reap", "retire", "close">>)
  <2>1. Shaped(<<"fold", "salvage", "reap", "retire", "close">>,
               <<"salvage", "reap", "retire", "close">>)
    BY DEF Shaped, Place, Follows, Steps
  <2>. QED BY <2>1 DEF Followed, Scripts, EndingScripts
<1>36. Followed(<<"salvage", "reap", "retire", "close">>)
  <2>1. Shaped(<<"salvage", "reap", "retire", "close">>,
               <<"reap", "retire", "close">>)
    BY DEF Shaped, Place, Follows, Steps
  <2>. QED BY <2>1 DEF Followed, Scripts, EndingScripts
<1>37. Followed(<<"reap", "retire", "close">>)
  <2>1. Shaped(<<"reap", "retire", "close">>,
               <<"retire", "close">>)
    BY DEF Shaped, Place, Follows, Steps
  <2>. QED BY <2>1 DEF Followed, Scripts, EndingScripts
<1>38. Followed(<<"salvage", "retire", "close">>)
  <2>1. Shaped(<<"salvage", "retire", "close">>,
               <<"retire", "close">>)
    BY DEF Shaped, Place, Follows, Steps
  <2>. QED BY <2>1 DEF Followed, Scripts, EndingScripts
<1>39. Followed(<<"release", "salvage", "retire", "close">>)
  <2>1. Shaped(<<"release", "salvage", "retire", "close">>,
               <<"salvage", "retire", "close">>)
    BY DEF Shaped, Place, Follows, Steps
  <2>. QED BY <2>1 DEF Followed, Scripts, EndingScripts
<1>40. \A p \in LookingScripts : Followed(p)
  BY <1>1, <1>2, <1>3, <1>4, <1>5, <1>6, <1>7, <1>8, <1>9, <1>10, <1>11, <1>12
      DEF LookingScripts
<1>41. \A p \in JudgingScripts : Followed(p)
  BY <1>13, <1>14, <1>15, <1>16, <1>17, <1>18, <1>19, <1>20, <1>21, <1>22,
      <1>23, <1>24, <1>25 DEF JudgingScripts
<1>42. \A p \in EndingScripts : Followed(p)
  BY <1>26, <1>27, <1>28, <1>29, <1>30, <1>31, <1>32, <1>33, <1>34, <1>35,
      <1>36, <1>37, <1>38, <1>39 DEF EndingScripts
<1>. QED BY <1>40, <1>41, <1>42 DEF Followed, Scripts

Script(p, x) == p \in Scripts /\ Place(p) = x

\* The scripts that the actions write, and where each begins.
LEMMA Written ==
  /\ Script(<<"idle">>, "idle")
  /\ Script(<<"watch">>, "watch")
  /\ Script(<<"signals">>, "signals")
  /\ Script(<<"work">>, "work")
  /\ Script(<<"stumble">>, "stumble")
  /\ Script(<<"block", "salvage", "cancel", "release", "retire", "close">>, "block")
  /\ Script(<<"release", "retire", "close">>, "release")
  /\ Script(<<"retire", "close">>, "retire")
  /\ Script(<<"block", "release", "retire", "close">>, "block")
  /\ Script(<<"blocker", "fold", "salvage", "reap", "retire", "close">>, "blocker")
  /\ Script(<<"handoff", "finish", "launch">>, "handoff")
  /\ Script(<<"launch">>, "launch")
  /\ Script(<<"ask", "start", "create", "launch">>, "ask")
  /\ Script(<<"rework", "list">>, "reopen")
  /\ Script(<<"list">>, "list")
  /\ Script(<<"collect", "decide">>, "collect")
  /\ Script(<<"harvest", "check", "push", "complete", "retire", "close">>, "harvest")
  /\ Script(<<"giveup", "release", "retire", "close">>, "giveup")
  /\ Script(<<"exhaust", "salvage", "retire", "close">>, "exhaust")
  /\ Script(<<"stop", "read", "prepare", "rework", "rest">>, "stop")
  /\ Script(<<"release", "salvage", "retire", "close">>, "release")
  /\ Script(<<>>, "none")
  BY DEF Script, Scripts, LookingScripts,
      JudgingScripts, EndingScripts, Place

\* The step of s leads from one of X to one of Y, and nobody else moves.
Goes(s, X, Y) ==
  /\ at(s) \in X /\ at(s)' \in Y
  /\ Scripted'
  /\ \A t \in Supervisors : t # s => at(t)' = at(t)

\* A step that writes a script leads to where the script begins.
LEMMA GoesThen ==
  ASSUME Scripted, NEW s \in Supervisors, NEW p, NEW x, Script(p, x), Then(s, p)
  PROVE  Goes(s, {at(s)}, {x})
<1>1. pc' = [pc EXCEPT ![s] = p] BY DEF Then
<1>2. Scripted' /\ pc'[s] = p /\ \A t \in Supervisors : t # s => pc'[t] = pc[t]
  BY <1>1 DEF Scripted, Script
<1>. QED BY <1>2 DEF Goes, at, Script

\* A step that goes on leads to the next step of the script.
LEMMA GoesContinue ==
  ASSUME Scripted, NEW s \in Supervisors, pc[s] # <<>>, Continue(s)
  PROVE  Goes(s, {at(s)}, Follows(at(s)))
<1>1. pc' = [pc EXCEPT ![s] = Tail(@)] BY DEF Continue
<1>2. PICK q \in Scripts : Shaped(pc[s], q) BY Shape DEF Scripted
<1>3. Scripted' /\ pc'[s] = q /\ \A t \in Supervisors : t # s => pc'[t] = pc[t]
  BY <1>1, <1>2 DEF Scripted, Shaped
<1>. QED BY <1>2, <1>3 DEF Goes, at, Shaped

LEMMA GoesNowhere ==
  ASSUME Scripted, NEW s \in Supervisors, UNCHANGED pc
  PROVE  Goes(s, {at(s)}, {at(s)})
BY DEF Goes, at, Scripted

\* Where a supervisor is, as the guards say it.
LEMMA Here ==
  ASSUME Scripted, NEW s \in Supervisors
  PROVE  /\ pc[s] = <<>> <=> at(s) = "none"
         /\ \A x : At(s, x) /\ x # "rework" => at(s) = x /\ pc[s] # <<>>
         /\ At(s, "rework") => at(s) \in {"rework", "reopen"} /\ pc[s] # <<>>
         /\ at(s) = "none" \/ at(s) = "reopen" \/ at(s) \in Steps
<1>1. CASE pc[s] = <<>> BY <1>1 DEF at, Place, At
<1>2. CASE pc[s] # <<>>
  <2>1. PICK q \in Scripts : Shaped(pc[s], q) BY <1>2, Shape DEF Scripted
  <2>2. /\ Head(pc[s]) \in Steps
        /\ at(s) = IF pc[s] = <<"rework", "list">> THEN "reopen" ELSE Head(pc[s])
    BY <2>1 DEF Shaped, at
  <2>3. pc[s] = <<"rework", "list">> => Head(pc[s]) = "rework" OBVIOUS
  <2>. QED BY <1>2, <2>2, <2>3 DEF At, Steps
<1>. QED BY <1>1, <1>2

\* To fail, and to give up a delivery, are scripts too.
LEMMA GoesFails ==
  ASSUME Scripted, NEW s \in Supervisors, Fails(s)
  PROVE  Goes(s, {at(s)}, {"block"})
BY Written, GoesThen DEF Fails, Fatal

LEMMA GoesUndelivered ==
  ASSUME Scripted, NEW s \in Supervisors, Undelivered(s)
  PROVE  Goes(s, {at(s)}, {"giveup"})
BY Written, GoesThen DEF Undelivered

\* Where each step of the coordinator leads from, and where to.
LEMMA BeginsGoes ==
  ASSUME Scripted, NEW s \in Supervisors, Begins(s)
  PROVE  Goes(s, {"idle"}, {"retire", "watch"})
<1>1. at(s) \in {"idle"} /\ pc[s] # <<>> BY Here DEF Begins
<1>2. \/ Then(s, <<"watch">>)
      \/ Then(s, <<"retire", "close">>)
  BY DEF Begins
<1>3. \/ Goes(s, {at(s)}, {"watch"})
      \/ Goes(s, {at(s)}, {"retire"})
  BY <1>1, <1>2, Written, GoesThen
<1>. QED BY <1>1, <1>3 DEF Goes

LEMMA OverdueGoes ==
  ASSUME Scripted, NEW s \in Supervisors, NEW r, Overdue(s, r)
  PROVE  Goes(s, {"watch"}, {"block"})
<1>1. at(s) \in {"watch"} /\ pc[s] # <<>> BY Here DEF Overdue
<1>2. Then(s, <<"block", "salvage", "cancel", "release", "retire", "close">>)
  BY DEF Overdue
<1>3. Goes(s, {at(s)}, {"block"}) BY <1>1, <1>2, Written, GoesThen
<1>. QED BY <1>1, <1>3 DEF Goes

LEMMA NothingOverdueGoes ==
  ASSUME Scripted, NEW s \in Supervisors, NothingOverdue(s)
  PROVE  Goes(s, {"watch"}, {"signals"})
<1>1. at(s) \in {"watch"} /\ pc[s] # <<>> BY Here DEF NothingOverdue
<1>2. Then(s, <<"signals">>) BY DEF NothingOverdue
<1>3. Goes(s, {at(s)}, {"signals"}) BY <1>1, <1>2, Written, GoesThen
<1>. QED BY <1>1, <1>3 DEF Goes

LEMMA ReadsSignalsGoes ==
  ASSUME Scripted, NEW s \in Supervisors, ReadsSignals(s)
  PROVE  Goes(s, {"signals"}, {"blocker", "handoff", "launch", "work"})
<1>1. at(s) \in {"signals"} /\ pc[s] # <<>> BY Here DEF ReadsSignals
<1>2. \/ Then(s, <<"blocker", "fold", "salvage", "reap", "retire", "close">>)
      \/ Then(s, <<"handoff", "finish", "launch">>)
      \/ Then(s, <<"launch">>)
      \/ Then(s, <<"work">>)
  BY DEF ReadsSignals
<1>3. \/ Goes(s, {at(s)}, {"blocker"})
      \/ Goes(s, {at(s)}, {"handoff"})
      \/ Goes(s, {at(s)}, {"launch"})
      \/ Goes(s, {at(s)}, {"work"})
  BY <1>1, <1>2, Written, GoesThen
<1>. QED BY <1>1, <1>3 DEF Goes

LEMMA HandsOffGoes ==
  ASSUME Scripted, NEW s \in Supervisors, HandsOff(s)
  PROVE  Goes(s, {"handoff"}, {"block", "finish"})
<1>1. at(s) \in {"handoff"} /\ pc[s] # <<>> BY Here DEF HandsOff
<1>2. \/ Continue(s)
      \/ Fails(s)
  BY DEF HandsOff
<1>3. \/ Goes(s, {at(s)}, Follows(at(s)))
      \/ Goes(s, {at(s)}, {"block"})
  BY <1>1, <1>2, GoesContinue, GoesFails
<1>. QED BY <1>1, <1>3 DEF Goes, Follows

LEMMA FinishesGoes ==
  ASSUME Scripted, NEW s \in Supervisors, Finishes(s)
  PROVE  Goes(s, {"finish"}, {"block", "launch"})
<1>1. at(s) \in {"finish"} /\ pc[s] # <<>> BY Here DEF Finishes
<1>2. \/ Continue(s)
      \/ Fails(s)
  BY DEF Finishes
<1>3. \/ Goes(s, {at(s)}, Follows(at(s)))
      \/ Goes(s, {at(s)}, {"block"})
  BY <1>1, <1>2, GoesContinue, GoesFails
<1>. QED BY <1>1, <1>3 DEF Goes, Follows

LEMMA LaunchesGoes ==
  ASSUME Scripted, NEW s \in Supervisors, Launches(s)
  PROVE  Goes(s, {"launch"}, {"ask", "block", "launch"})
<1>1. at(s) \in {"launch"} /\ pc[s] # <<>> BY Here DEF Launches
<1>2. \/ UNCHANGED pc
      \/ Then(s, <<"ask", "start", "create", "launch">>)
      \/ Fails(s)
  BY DEF Launches
<1>3. \/ Goes(s, {at(s)}, {at(s)})
      \/ Goes(s, {at(s)}, {"ask"})
      \/ Goes(s, {at(s)}, {"block"})
  BY <1>1, <1>2, Written, GoesThen, GoesFails, GoesNowhere
<1>. QED BY <1>1, <1>3 DEF Goes

LEMMA AsksGoes ==
  ASSUME Scripted, NEW s \in Supervisors, Asks(s)
  PROVE  Goes(s, {"ask"}, {"block", "start"})
<1>1. at(s) \in {"ask"} /\ pc[s] # <<>> BY Here DEF Asks
<1>2. \/ Continue(s)
      \/ Fails(s)
  BY DEF Asks
<1>3. \/ Goes(s, {at(s)}, Follows(at(s)))
      \/ Goes(s, {at(s)}, {"block"})
  BY <1>1, <1>2, GoesContinue, GoesFails
<1>. QED BY <1>1, <1>3 DEF Goes, Follows

LEMMA BeginsStartGoes ==
  ASSUME Scripted, NEW s \in Supervisors, BeginsStart(s)
  PROVE  Goes(s, {"start"}, {"block", "create", "launch"})
<1>1. at(s) \in {"start"} /\ pc[s] # <<>> BY Here DEF BeginsStart
<1>2. \/ Continue(s)
      \/ Then(s, <<"launch">>)
      \/ Fails(s)
  BY DEF BeginsStart
<1>3. \/ Goes(s, {at(s)}, Follows(at(s)))
      \/ Goes(s, {at(s)}, {"launch"})
      \/ Goes(s, {at(s)}, {"block"})
  BY <1>1, <1>2, Written, GoesThen, GoesContinue, GoesFails
<1>. QED BY <1>1, <1>3 DEF Goes, Follows

LEMMA CreatesGoes ==
  ASSUME Scripted, NEW s \in Supervisors, Creates(s)
  PROVE  Goes(s, {"create"}, {"block", "launch"})
<1>1. at(s) \in {"create"} /\ pc[s] # <<>> BY Here DEF Creates
<1>2. \/ Continue(s)
      \/ Fails(s)
  BY DEF Creates
<1>3. \/ Goes(s, {at(s)}, Follows(at(s)))
      \/ Goes(s, {at(s)}, {"block"})
  BY <1>1, <1>2, GoesContinue, GoesFails
<1>. QED BY <1>1, <1>3 DEF Goes, Follows

LEMMA CreateFailsGoes ==
  ASSUME Scripted, NEW s \in Supervisors, CreateFails(s)
  PROVE  Goes(s, {"create"}, {"stumble"})
<1>1. at(s) \in {"create"} /\ pc[s] # <<>> BY Here DEF CreateFails
<1>2. Then(s, <<"stumble">>) BY DEF CreateFails
<1>3. Goes(s, {at(s)}, {"stumble"}) BY <1>1, <1>2, Written, GoesThen
<1>. QED BY <1>1, <1>3 DEF Goes

LEMMA ConsumesGoes ==
  ASSUME Scripted, NEW s \in Supervisors, Consumes(s)
  PROVE  Goes(s, {"launch"}, {"idle"})
<1>1. at(s) \in {"launch"} /\ pc[s] # <<>> BY Here DEF Consumes
<1>2. Then(s, <<"idle">>) BY DEF Consumes, Rests
<1>3. Goes(s, {at(s)}, {"idle"}) BY <1>1, <1>2, Written, GoesThen
<1>. QED BY <1>1, <1>3 DEF Goes

LEMMA WorksGoes ==
  ASSUME Scripted, NEW s \in Supervisors, Works(s)
  PROVE  Goes(s, {"work"}, {"handoff", "launch", "list", "reopen"})
<1>1. at(s) \in {"work"} /\ pc[s] # <<>> BY Here DEF Works
<1>2. \/ Then(s, <<"handoff", "finish", "launch">>)
      \/ Then(s, <<"launch">>)
      \/ Then(s, <<"rework", "list">>)
      \/ Then(s, <<"list">>)
  BY DEF Works
<1>3. \/ Goes(s, {at(s)}, {"handoff"})
      \/ Goes(s, {at(s)}, {"launch"})
      \/ Goes(s, {at(s)}, {"reopen"})
      \/ Goes(s, {at(s)}, {"list"})
  BY <1>1, <1>2, Written, GoesThen
<1>. QED BY <1>1, <1>3 DEF Goes

LEMMA ReworksGoes ==
  ASSUME Scripted, NEW s \in Supervisors, Reworks(s)
  PROVE  Goes(s, {"reopen", "rework"}, {"block", "list", "rest"})
<1>1. at(s) \in {"reopen", "rework"} /\ pc[s] # <<>> BY Here DEF Reworks
<1>2. \/ Continue(s)
      \/ Fails(s)
  BY DEF Reworks
<1>3. \/ Goes(s, {at(s)}, Follows(at(s)))
      \/ Goes(s, {at(s)}, {"block"})
  BY <1>1, <1>2, GoesContinue, GoesFails
<1>. QED BY <1>1, <1>3 DEF Goes, Follows

LEMMA ListsGoes ==
  ASSUME Scripted, NEW s \in Supervisors, Lists(s)
  PROVE  Goes(s, {"list"}, {"collect"})
<1>1. at(s) \in {"list"} /\ pc[s] # <<>> BY Here DEF Lists
<1>2. Then(s, <<"collect", "decide">>) BY DEF Lists
<1>3. Goes(s, {at(s)}, {"collect"}) BY <1>1, <1>2, Written, GoesThen
<1>. QED BY <1>1, <1>3 DEF Goes

LEMMA CollectsGoes ==
  ASSUME Scripted, NEW s \in Supervisors, Collects(s)
  PROVE  Goes(s, {"collect"}, {"block", "collect", "decide"})
<1>1. at(s) \in {"collect"} /\ pc[s] # <<>> BY Here DEF Collects
<1>2. \/ Continue(s)
      \/ UNCHANGED pc
      \/ Fails(s)
  BY DEF Collects
<1>3. \/ Goes(s, {at(s)}, Follows(at(s)))
      \/ Goes(s, {at(s)}, {at(s)})
      \/ Goes(s, {at(s)}, {"block"})
  BY <1>1, <1>2, GoesContinue, GoesFails, GoesNowhere
<1>. QED BY <1>1, <1>3 DEF Goes, Follows

LEMMA WaitsGoes ==
  ASSUME Scripted, NEW s \in Supervisors, Waits(s)
  PROVE  Goes(s, {"decide"}, {"idle"})
<1>1. at(s) \in {"decide"} /\ pc[s] # <<>> BY Here DEF Waits
<1>2. Then(s, <<"idle">>) BY DEF Waits, Rests
<1>3. Goes(s, {at(s)}, {"idle"}) BY <1>1, <1>2, Written, GoesThen
<1>. QED BY <1>1, <1>3 DEF Goes

LEMMA FindsDeadRoleGoes ==
  ASSUME Scripted, NEW s \in Supervisors, FindsDeadRole(s)
  PROVE  Goes(s, {"decide"}, {"release"})
<1>1. at(s) \in {"decide"} /\ pc[s] # <<>> BY Here DEF FindsDeadRole
<1>2. Then(s, <<"release", "salvage", "retire", "close">>)
  BY DEF FindsDeadRole
<1>3. Goes(s, {at(s)}, {"release"}) BY <1>1, <1>2, Written, GoesThen
<1>. QED BY <1>1, <1>3 DEF Goes

LEMMA DecidesGoes ==
  ASSUME Scripted, NEW s \in Supervisors, Decides(s)
  PROVE  Goes(s, {"decide"}, {"exhaust", "harvest", "stop"})
<1>1. at(s) \in {"decide"} /\ pc[s] # <<>> BY Here DEF Decides
<1>2. \/ Then(s, <<"harvest", "check", "push", "complete", "retire", "close">>)
      \/ Then(s, <<"exhaust", "salvage", "retire", "close">>)
      \/ Then(s, <<"stop", "read", "prepare", "rework", "rest">>)
  BY DEF Decides
<1>3. \/ Goes(s, {at(s)}, {"harvest"})
      \/ Goes(s, {at(s)}, {"exhaust"})
      \/ Goes(s, {at(s)}, {"stop"})
  BY <1>1, <1>2, Written, GoesThen
<1>. QED BY <1>1, <1>3 DEF Goes

LEMMA HarvestsGoes ==
  ASSUME Scripted, NEW s \in Supervisors, Harvests(s)
  PROVE  Goes(s, {"harvest"}, {"check", "giveup"})
<1>1. at(s) \in {"harvest"} /\ pc[s] # <<>> BY Here DEF Harvests
<1>2. \/ Continue(s)
      \/ Undelivered(s)
  BY DEF Harvests
<1>3. \/ Goes(s, {at(s)}, Follows(at(s)))
      \/ Goes(s, {at(s)}, {"giveup"})
  BY <1>1, <1>2, GoesContinue, GoesUndelivered
<1>. QED BY <1>1, <1>3 DEF Goes, Follows

LEMMA ChecksDeliveryGoes ==
  ASSUME Scripted, NEW s \in Supervisors, ChecksDelivery(s)
  PROVE  Goes(s, {"check"}, {"giveup", "push"})
<1>1. at(s) \in {"check"} /\ pc[s] # <<>> BY Here DEF ChecksDelivery
<1>2. \/ Continue(s)
      \/ Undelivered(s)
  BY DEF ChecksDelivery
<1>3. \/ Goes(s, {at(s)}, Follows(at(s)))
      \/ Goes(s, {at(s)}, {"giveup"})
  BY <1>1, <1>2, GoesContinue, GoesUndelivered
<1>. QED BY <1>1, <1>3 DEF Goes, Follows

LEMMA PushesGoes ==
  ASSUME Scripted, NEW s \in Supervisors, Pushes(s)
  PROVE  Goes(s, {"push"}, {"complete"})
<1>1. at(s) \in {"push"} /\ pc[s] # <<>> BY Here DEF Pushes
<1>2. Continue(s) BY DEF Pushes
<1>3. Goes(s, {at(s)}, Follows(at(s))) BY <1>1, <1>2, GoesContinue
<1>. QED BY <1>1, <1>3 DEF Goes, Follows

LEMMA DeliveryFailsGoes ==
  ASSUME Scripted, NEW s \in Supervisors, DeliveryFails(s)
  PROVE  Goes(s, {"harvest", "push"}, {"giveup"})
<1>1. at(s) \in {"harvest", "push"} /\ pc[s] # <<>> BY Here DEF DeliveryFails
<1>2. Undelivered(s) BY DEF DeliveryFails
<1>3. Goes(s, {at(s)}, {"giveup"}) BY <1>1, <1>2, GoesUndelivered
<1>. QED BY <1>1, <1>3 DEF Goes

LEMMA GivesUpGoes ==
  ASSUME Scripted, NEW s \in Supervisors, GivesUp(s)
  PROVE  Goes(s, {"giveup"}, {"release"})
<1>1. at(s) \in {"giveup"} /\ pc[s] # <<>> BY Here DEF GivesUp
<1>2. Continue(s) BY DEF GivesUp
<1>3. Goes(s, {at(s)}, Follows(at(s))) BY <1>1, <1>2, GoesContinue
<1>. QED BY <1>1, <1>3 DEF Goes, Follows

LEMMA CompletesGoes ==
  ASSUME Scripted, NEW s \in Supervisors, Completes(s)
  PROVE  Goes(s, {"complete"}, {"block", "retire"})
<1>1. at(s) \in {"complete"} /\ pc[s] # <<>> BY Here DEF Completes
<1>2. \/ Continue(s)
      \/ Fails(s)
  BY DEF Completes, Finalized
<1>3. \/ Goes(s, {at(s)}, Follows(at(s)))
      \/ Goes(s, {at(s)}, {"block"})
  BY <1>1, <1>2, GoesContinue, GoesFails
<1>. QED BY <1>1, <1>3 DEF Goes, Follows

LEMMA ExhaustsGoes ==
  ASSUME Scripted, NEW s \in Supervisors, Exhausts(s)
  PROVE  Goes(s, {"exhaust"}, {"block", "salvage"})
<1>1. at(s) \in {"exhaust"} /\ pc[s] # <<>> BY Here DEF Exhausts
<1>2. \/ Continue(s)
      \/ Fails(s)
  BY DEF Exhausts, Finalized
<1>3. \/ Goes(s, {at(s)}, Follows(at(s)))
      \/ Goes(s, {at(s)}, {"block"})
  BY <1>1, <1>2, GoesContinue, GoesFails
<1>. QED BY <1>1, <1>3 DEF Goes, Follows

LEMMA StopsReviewersGoes ==
  ASSUME Scripted, NEW s \in Supervisors, StopsReviewers(s)
  PROVE  Goes(s, {"stop"}, {"none", "read"})
<1>1. at(s) \in {"stop"} /\ pc[s] # <<>> BY Here DEF StopsReviewers
<1>2. \/ Continue(s)
      \/ Then(s, <<>>)
  BY DEF StopsReviewers
<1>3. \/ Goes(s, {at(s)}, Follows(at(s)))
      \/ Goes(s, {at(s)}, {"none"})
  BY <1>1, <1>2, Written, GoesThen, GoesContinue
<1>. QED BY <1>1, <1>3 DEF Goes, Follows

LEMMA ReadsHeadGoes ==
  ASSUME Scripted, NEW s \in Supervisors, ReadsHead(s)
  PROVE  Goes(s, {"read"}, {"prepare"})
<1>1. at(s) \in {"read"} /\ pc[s] # <<>> BY Here DEF ReadsHead
<1>2. Continue(s) BY DEF ReadsHead
<1>3. Goes(s, {at(s)}, Follows(at(s))) BY <1>1, <1>2, GoesContinue
<1>. QED BY <1>1, <1>3 DEF Goes, Follows

LEMMA PreparesGoes ==
  ASSUME Scripted, NEW s \in Supervisors, Prepares(s)
  PROVE  Goes(s, {"prepare"}, {"block", "rework"})
<1>1. at(s) \in {"prepare"} /\ pc[s] # <<>> BY Here DEF Prepares
<1>2. \/ Continue(s)
      \/ Fails(s)
  BY DEF Prepares
<1>3. \/ Goes(s, {at(s)}, Follows(at(s)))
      \/ Goes(s, {at(s)}, {"block"})
  BY <1>1, <1>2, GoesContinue, GoesFails
<1>. QED BY <1>1, <1>3 DEF Goes, Follows

LEMMA ReturnsGoes ==
  ASSUME Scripted, NEW s \in Supervisors, Returns(s)
  PROVE  Goes(s, {"rest"}, {"idle"})
<1>1. at(s) \in {"rest"} /\ pc[s] # <<>> BY Here DEF Returns
<1>2. Then(s, <<"idle">>) BY DEF Returns, Rests
<1>3. Goes(s, {at(s)}, {"idle"}) BY <1>1, <1>2, Written, GoesThen
<1>. QED BY <1>1, <1>3 DEF Goes

LEMMA CancelsBlockedGoes ==
  ASSUME Scripted, NEW s \in Supervisors, CancelsBlocked(s)
  PROVE  Goes(s, {"blocker"}, {"block", "fold"})
<1>1. at(s) \in {"blocker"} /\ pc[s] # <<>> BY Here DEF CancelsBlocked
<1>2. \/ Continue(s)
      \/ Fails(s)
  BY DEF CancelsBlocked
<1>3. \/ Goes(s, {at(s)}, Follows(at(s)))
      \/ Goes(s, {at(s)}, {"block"})
  BY <1>1, <1>2, GoesContinue, GoesFails
<1>. QED BY <1>1, <1>3 DEF Goes, Follows

LEMMA FoldsGoes ==
  ASSUME Scripted, NEW s \in Supervisors, Folds(s)
  PROVE  Goes(s, {"fold"}, {"block", "salvage"})
<1>1. at(s) \in {"fold"} /\ pc[s] # <<>> BY Here DEF Folds
<1>2. \/ Continue(s)
      \/ Fails(s)
  BY DEF Folds
<1>3. \/ Goes(s, {at(s)}, Follows(at(s)))
      \/ Goes(s, {at(s)}, {"block"})
  BY <1>1, <1>2, GoesContinue, GoesFails
<1>. QED BY <1>1, <1>3 DEF Goes, Follows

LEMMA ReapsGoes ==
  ASSUME Scripted, NEW s \in Supervisors, Reaps(s)
  PROVE  Goes(s, {"reap"}, {"retire"})
<1>1. at(s) \in {"reap"} /\ pc[s] # <<>> BY Here DEF Reaps
<1>2. Continue(s) BY DEF Reaps
<1>3. Goes(s, {at(s)}, Follows(at(s))) BY <1>1, <1>2, GoesContinue
<1>. QED BY <1>1, <1>3 DEF Goes, Follows

LEMMA SetsBlockedGoes ==
  ASSUME Scripted, NEW s \in Supervisors, SetsBlocked(s)
  PROVE  Goes(s, {"block"}, {"release", "salvage"})
<1>1. at(s) \in {"block"} /\ pc[s] # <<>> BY Here DEF SetsBlocked
<1>2. Continue(s) BY DEF SetsBlocked
<1>3. Goes(s, {at(s)}, Follows(at(s))) BY <1>1, <1>2, GoesContinue
<1>. QED BY <1>1, <1>3 DEF Goes, Follows

LEMMA SalvagesGoes ==
  ASSUME Scripted, NEW s \in Supervisors, Salvages(s)
  PROVE  Goes(s, {"salvage"}, {"cancel", "reap", "retire"})
<1>1. at(s) \in {"salvage"} /\ pc[s] # <<>> BY Here DEF Salvages
<1>2. Continue(s) BY DEF Salvages
<1>3. Goes(s, {at(s)}, Follows(at(s))) BY <1>1, <1>2, GoesContinue
<1>. QED BY <1>1, <1>3 DEF Goes, Follows

LEMMA CancelsOverdueGoes ==
  ASSUME Scripted, NEW s \in Supervisors, CancelsOverdue(s)
  PROVE  Goes(s, {"cancel"}, {"block", "release"})
<1>1. at(s) \in {"cancel"} /\ pc[s] # <<>> BY Here DEF CancelsOverdue
<1>2. \/ Continue(s)
      \/ Fails(s)
  BY DEF CancelsOverdue
<1>3. \/ Goes(s, {at(s)}, Follows(at(s)))
      \/ Goes(s, {at(s)}, {"block"})
  BY <1>1, <1>2, GoesContinue, GoesFails
<1>. QED BY <1>1, <1>3 DEF Goes, Follows

LEMMA ReleasesGoes ==
  ASSUME Scripted, NEW s \in Supervisors, Releases(s)
  PROVE  Goes(s, {"release"}, {"retire", "salvage"})
<1>1. at(s) \in {"release"} /\ pc[s] # <<>> BY Here DEF Releases
<1>2. Continue(s) BY DEF Releases
<1>3. Goes(s, {at(s)}, Follows(at(s))) BY <1>1, <1>2, GoesContinue
<1>. QED BY <1>1, <1>3 DEF Goes, Follows

LEMMA RetiresGoes ==
  ASSUME Scripted, NEW s \in Supervisors, Retires(s)
  PROVE  Goes(s, {"retire"}, {"close"})
<1>1. at(s) \in {"retire"} /\ pc[s] # <<>> BY Here DEF Retires
<1>2. Continue(s) BY DEF Retires
<1>3. Goes(s, {at(s)}, Follows(at(s))) BY <1>1, <1>2, GoesContinue
<1>. QED BY <1>1, <1>3 DEF Goes, Follows

LEMMA StumblesGoes ==
  ASSUME Scripted, NEW s \in Supervisors, Stumbles(s)
  PROVE  Goes(s, {"blocker", "cancel", "collect", "finish", "read", "reap", "reopen", "rework", "stop"},
              {"stumble"})
<1>1. at(s) \in {"blocker", "cancel", "collect", "finish", "read", "reap", "reopen", "rework", "stop"}
      /\ pc[s] # <<>>
  BY Here DEF Stumbles
<1>2. Then(s, <<"stumble">>) BY DEF Stumbles
<1>3. Goes(s, {at(s)}, {"stumble"}) BY <1>1, <1>2, Written, GoesThen
<1>. QED BY <1>1, <1>3 DEF Goes

LEMMA RecordsErrorGoes ==
  ASSUME Scripted, NEW s \in Supervisors, RecordsError(s)
  PROVE  Goes(s, {"stumble"}, {"idle", "none", "release"})
<1>1. at(s) \in {"stumble"} /\ pc[s] # <<>> BY Here DEF RecordsError
<1>t. Tail(Fatal) = <<"release", "retire", "close">> BY DEF Fatal
<1>2. \/ Then(s, <<"idle">>)
      \/ Then(s, <<"release", "retire", "close">>)
      \/ Then(s, <<>>)
  BY <1>t DEF RecordsError
<1>3. \/ Goes(s, {at(s)}, {"idle"})
      \/ Goes(s, {at(s)}, {"release"})
      \/ Goes(s, {at(s)}, {"none"})
  BY <1>1, <1>2, Written, GoesThen
<1>. QED BY <1>1, <1>3 DEF Goes

LEMMA CrashesGoes ==
  ASSUME Scripted, NEW s \in Supervisors, Crashes(s)
  PROVE  Goes(s, {at(s)} \ {"none"}, {"none"})
<1>1. at(s) # "none" /\ pc[s] # <<>> BY Here DEF Crashes
<1>2. Then(s, <<>>) BY DEF Crashes
<1>3. Goes(s, {at(s)}, {"none"}) BY <1>1, <1>2, Written, GoesThen
<1>. QED BY <1>1, <1>3 DEF Goes

LEMMA ClosesGoes ==
  ASSUME Scripted, NEW s \in Supervisors, Closes(s)
  PROVE  /\ at(s) = "close" /\ Scripted'
         /\ \A t \in Supervisors :
              at(t)' = IF t \in {s, owner} THEN "none" ELSE at(t)
<1>1. at(s) = "close" BY Here DEF Closes
<1>2. pc' = [t \in Supervisors |-> IF t \in {s, owner} THEN <<>> ELSE pc[t]]
  BY DEF Closes
<1>3. Script(<<>>, "none") BY Written
<1>. QED BY <1>1, <1>2, <1>3 DEF at, Scripted, Script

\* A retry replaces the coordinator of the run, and closing ends it.
LEMMA RetriesGoes ==
  ASSUME Scripted, NEW s \in Supervisors, Retries(s)
  PROVE  /\ Scripted'
         /\ \A t \in Supervisors :
              at(t)' = IF t = s THEN "idle" ELSE IF t = owner THEN "none" ELSE at(t)
<1>1. pc' = [t \in Supervisors |-> CASE t = s -> <<"idle">>
                                     [] t # s /\ t = owner -> <<>>
                                     [] OTHER -> pc[t]]
  BY DEF Retries
<1>2. Script(<<>>, "none") /\ Script(<<"idle">>, "idle") BY Written
<1>. QED BY <1>1, <1>2 DEF at, Scripted, Script

LEMMA AttachesGoes ==
  ASSUME Scripted, NEW s \in Supervisors, Attaches(s) \/ StartsByHand(s)
  PROVE  Goes(s, {"none"}, {"idle"})
<1>1. at(s) = "none" BY Here DEF Attaches, StartsByHand
<1>2. Then(s, <<"idle">>) BY DEF Attaches, StartsByHand
<1>3. Goes(s, {at(s)}, {"idle"}) BY <1>2, Written, GoesThen
<1>. QED BY <1>1, <1>3 DEF Goes

\* An action that leaves pc alone moves nobody.
LEMMA NobodyGoes ==
  ASSUME Scripted, UNCHANGED pc
  PROVE  Scripted' /\ \A t \in Supervisors : at(t)' = at(t)
BY DEF at, Scripted

-----------------------------------------------------------------------------
\* Types, sharper than TypeOK: scripts for pc and records for what was read.
Local ==
  [manager : Statuses, cycle : Cycles, who : Roles, child : Children,
   todo : SUBSET Children, list : SUBSET Reviewers, open : SUBSET Reviewers,
   sha : Commits]

RowTypes ==
  /\ status \in [Roles -> Statuses]
  /\ agent \in [Roles -> {"none", "live", "gone"}]
  /\ reconciled \subseteq Children /\ handoff \subseteq Children
  /\ silent \subseteq Roles
  /\ start \in [Roles -> Commits]
ReadyTypes == ready \in [Roles -> [Cycles -> Readiness \union {None}]]
RunStatuses == {"running", "completed", "blocked", "failed"}
Runs == [status : RunStatuses, cycle : Cycles, errors : 0..MaxErrors,
         waits : BOOLEAN, released : BOOLEAN]
RunTypes ==
  /\ run \in Runs
  /\ run.status = "running" => run.errors < MaxErrors
GitTypes ==
  /\ head \in Commits /\ tip \in Commits \union {Foreign}
  /\ remote \in Commits \union {Foreign, None} /\ draft \in Commits \union {None}
LocalTypes == local \in [Supervisors -> Local]
CountTypes == owner \in Coordinators /\ mishaps \in 0..MaxMishaps

Typed == /\ RowTypes /\ ReadyTypes /\ RunTypes /\ GitTypes /\ LocalTypes
         /\ CountTypes /\ Scripted

\* From the look at a signal to its consumption a supervisor knows whose it is,
\* and it is there; the roles it has to start are those behind that role.
Launching == {"handoff", "finish", "launch", "ask", "start", "create"}
SignalOf(s) == IF local[s].who = Manager THEN 1 ELSE local[s].cycle
Behind(r) == IF r = Manager THEN {Worker} ELSE Reviewers
InHandOf(s) ==
  at(s) \in Launching =>
    /\ local[s].who \in {Manager, Worker}
    /\ ready[local[s].who][SignalOf(s)] # None
    /\ local[s].todo \subseteq Behind(local[s].who)
    /\ at(s) \in {"ask", "start", "create"} => local[s].child \in local[s].todo
InHand == \A s \in Supervisors : InHandOf(s)

\* The names of the roles, and the smallest of each bounded set.
LEMMA Names ==
  /\ Worker \in Children /\ Manager \in Roles /\ Worker \in Roles
  /\ Manager \notin Children /\ Worker \notin Reviewers /\ Manager # Worker
  /\ Reviewers \subseteq Children /\ Children \subseteq Roles
  /\ 1 \in Cycles /\ 0 \in Commits /\ MaxCommits \in Nat /\ Foreign \notin Commits
  /\ None \notin Readiness /\ None \notin Commits /\ Foreign # None
BY RunAssumption DEF Worker, Manager, Children, Roles, Cycles, Commits, Foreign

\* A new iteration has read nothing.
LEMMA FreshLocal ==
  /\ Fresh \in Local
  /\ \A l \in Local :
       /\ \A x \in SUBSET Children : [l EXCEPT !.todo = x] \in Local
       /\ \A c \in Children : [l EXCEPT !.child = c] \in Local
       /\ \A x \in SUBSET Children, c \in Children :
            [l EXCEPT !.todo = x, !.child = c] \in Local
       /\ \A x \in Commits : [l EXCEPT !.sha = x] \in Local
       /\ \A x, y \in SUBSET Reviewers, z \in SUBSET Children :
            [l EXCEPT !.list = x, !.open = y, !.todo = z] \in Local
       /\ \A r \in Roles : [l EXCEPT !.who = r] \in Local
       /\ \A r \in Roles, x \in SUBSET Children :
            [l EXCEPT !.who = r, !.todo = x] \in Local
       /\ \A x \in Statuses : [l EXCEPT !.manager = x] \in Local
       /\ \A c \in Cycles, r \in Roles, x \in SUBSET Children :
            [l EXCEPT !.cycle = c, !.who = r, !.todo = x] \in Local
<1>1. Fresh \in Local BY Names DEF Fresh, Local, Statuses, Cycles
<1>2. ASSUME NEW l \in Local, NEW x \in SUBSET Children, NEW c \in Children
      PROVE  /\ [l EXCEPT !.todo = x] \in Local /\ [l EXCEPT !.child = c] \in Local
             /\ [l EXCEPT !.todo = x, !.child = c] \in Local
  BY DEF Local
<1>3. ASSUME NEW l \in Local, NEW x \in SUBSET Reviewers, NEW y \in SUBSET Reviewers,
             NEW z \in SUBSET Children, NEW c \in Commits
      PROVE  /\ [l EXCEPT !.sha = c] \in Local
             /\ [l EXCEPT !.list = x, !.open = y, !.todo = z] \in Local
  BY DEF Local
<1>4. ASSUME NEW l \in Local, NEW r \in Roles, NEW x \in SUBSET Children,
             NEW t \in Statuses, NEW c \in Cycles
      PROVE  /\ [l EXCEPT !.who = r] \in Local
             /\ [l EXCEPT !.who = r, !.todo = x] \in Local
             /\ [l EXCEPT !.manager = t] \in Local
             /\ [l EXCEPT !.cycle = c, !.who = r, !.todo = x] \in Local
  BY DEF Local
<1>. QED
  <2>1. \A l \in Local, x \in SUBSET Children, c \in Children :
          /\ [l EXCEPT !.todo = x] \in Local /\ [l EXCEPT !.child = c] \in Local
          /\ [l EXCEPT !.todo = x, !.child = c] \in Local
    BY <1>2
  <2>2. \A l \in Local, x, y \in SUBSET Reviewers, z \in SUBSET Children, c \in Commits :
          /\ [l EXCEPT !.sha = c] \in Local
          /\ [l EXCEPT !.list = x, !.open = y, !.todo = z] \in Local
    BY <1>3
  <2>3. \A l \in Local, r \in Roles, x \in SUBSET Children, t \in Statuses, c \in Cycles :
          /\ [l EXCEPT !.who = r] \in Local
          /\ [l EXCEPT !.who = r, !.todo = x] \in Local
          /\ [l EXCEPT !.manager = t] \in Local
          /\ [l EXCEPT !.cycle = c, !.who = r, !.todo = x] \in Local
    BY <1>4
  <2>4. /\ Children # {} /\ Commits # {} /\ Statuses # {} /\ Cycles # {} /\ Roles # {}
        /\ Worker \in Children /\ 0 \in Commits /\ 1 \in Cycles /\ Manager \in Roles
        /\ "running" \in Statuses /\ {} \in SUBSET Children /\ {} \in SUBSET Reviewers
    BY Names DEF Statuses
  <2>. QED BY <1>1, <2>1, <2>2, <2>3, <2>4

\* What a supervisor has read is changed for it alone.
LEMMA LocalSet ==
  ASSUME LocalTypes, NEW s \in Supervisors, NEW l \in Local,
         local' = [local EXCEPT ![s] = l]
  PROVE  LocalTypes' /\ local'[s] = l
         /\ \A t \in Supervisors : t # s => local'[t] = local[t]
BY DEF LocalTypes

\* What the actions make of the row of the run.
LEMMA RunShapes ==
  ASSUME NEW x \in Runs
  PROVE  /\ \A st \in RunStatuses : [x EXCEPT !.status = st] \in Runs
         /\ [x EXCEPT !.released = TRUE] \in Runs
         /\ [x EXCEPT !.waits = FALSE] \in Runs
         /\ \A c \in Cycles : [x EXCEPT !.cycle = c] \in Runs
         /\ \A e \in 0..MaxErrors, w \in BOOLEAN :
              [x EXCEPT !.errors = e, !.waits = w] \in Runs
         /\ \A st \in RunStatuses :
              [x EXCEPT !.status = st, !.waits = FALSE, !.released = TRUE] \in Runs
         /\ \A st \in RunStatuses, e \in 0..MaxErrors :
              [x EXCEPT !.status = st, !.errors = e, !.waits = FALSE] \in Runs
         /\ [x EXCEPT !.status = "running", !.errors = 0, !.waits = FALSE,
                      !.released = FALSE] \in Runs
<1>1. ASSUME NEW st \in RunStatuses PROVE [x EXCEPT !.status = st] \in Runs
  BY DEF Runs
<1>2. [x EXCEPT !.released = TRUE] \in Runs /\ [x EXCEPT !.waits = FALSE] \in Runs
  BY DEF Runs
<1>3. ASSUME NEW c \in Cycles PROVE [x EXCEPT !.cycle = c] \in Runs BY DEF Runs
<1>4. ASSUME NEW e \in 0..MaxErrors, NEW w \in BOOLEAN
      PROVE  [x EXCEPT !.errors = e, !.waits = w] \in Runs
  BY DEF Runs
<1>5. ASSUME NEW st \in RunStatuses
      PROVE  [x EXCEPT !.status = st, !.waits = FALSE, !.released = TRUE] \in Runs
  BY DEF Runs
<1>6. ASSUME NEW st \in RunStatuses, NEW e \in 0..MaxErrors
      PROVE  [x EXCEPT !.status = st, !.errors = e, !.waits = FALSE] \in Runs
  BY DEF Runs
<1>7. [x EXCEPT !.status = "running", !.errors = 0, !.waits = FALSE,
                !.released = FALSE] \in Runs
  <2>1. 0 \in 0..MaxErrors /\ "running" \in RunStatuses
    BY RunAssumption DEF RunStatuses
  <2>. QED BY <2>1 DEF Runs
<1>. QED BY <1>1, <1>2, <1>3, <1>4, <1>5, <1>6, <1>7

\* What Cleared, which ends an iteration without an error, makes of it.
LEMMA ClearedRun ==
  ASSUME RunTypes, run' = Cleared
  PROVE  /\ RunTypes'
         /\ run'.status = run.status /\ run'.cycle = run.cycle
         /\ run'.released = run.released
<1>1. run' = run \/ run' = [run EXCEPT !.errors = 0, !.waits = FALSE]
  BY DEF Cleared
<1>2. run' \in Runs
  <2>1. 0 \in 0..MaxErrors BY RunAssumption
  <2>2. run \in Runs BY DEF RunTypes
  <2>3. [run EXCEPT !.errors = 0, !.waits = FALSE] \in Runs
    BY <2>1, <2>2, RunShapes
  <2>. QED BY <1>1, <2>2, <2>3
<1>3. /\ run'.status = run.status /\ run'.cycle = run.cycle
      /\ run'.released = run.released
      /\ run'.errors = run.errors \/ run'.errors = 0
  BY <1>1 DEF RunTypes, Runs
<1>. QED BY <1>2, <1>3, RunAssumption DEF RunTypes

\* The two things that happen to readiness: one that was not there is recorded,
\* and some are consumed, which keep their outcome and commit.
Notes(r, o, c) ==
  \A q \in Roles, d \in Cycles :
    IF q = r /\ d = Attempt(r) /\ ready[q][d] = None
    THEN ready'[q][d] = [outcome |-> o, sha |-> c, consumed |-> FALSE]
    ELSE ready'[q][d] = ready[q][d]
Takes(R, c) ==
  \A q \in Roles, d \in Cycles :
    IF q \in R /\ d = c
    THEN /\ ready[q][d] # None /\ ready'[q][d] # None
         /\ ready'[q][d].consumed
         /\ ready'[q][d].outcome = ready[q][d].outcome
         /\ ready'[q][d].sha = ready[q][d].sha
    ELSE ready'[q][d] = ready[q][d]

\* A report notes one signal, or none.
LEMMA RecordedReady ==
  ASSUME ReadyTypes, RunTypes, NEW r \in Roles, NEW o \in Outcomes,
         NEW c \in Commits, ready' = Recorded(r, o, c)
  PROVE  ReadyTypes' /\ Attempt(r) \in Cycles /\ Notes(r, o, c)
<1>. DEFINE new == [outcome |-> o, sha |-> c, consumed |-> FALSE]
<1>1. new \in Readiness BY DEF Readiness
<1>2. Attempt(r) \in Cycles BY Names DEF Attempt, RunTypes, Runs
<1>3. CASE ready[r][Attempt(r)] # None
  BY <1>2, <1>3 DEF Recorded, ReadyTypes, Notes
<1>4. CASE ready[r][Attempt(r)] = None
  <2>1. ready' = [ready EXCEPT ![r][Attempt(r)] = new] BY <1>4 DEF Recorded
  <2>. HIDE DEF new
  <2>2. /\ ReadyTypes'
        /\ \A q \in Roles, d \in Cycles :
             IF q = r /\ d = Attempt(r) THEN ready'[q][d] = new
             ELSE ready'[q][d] = ready[q][d]
    BY <1>1, <1>2, <2>1 DEF ReadyTypes
  <2>. QED BY <1>2, <1>4, <2>2 DEF new, Notes
<1>. QED BY <1>3, <1>4

ConsumedOf(x) == [x EXCEPT !.consumed = TRUE]

\* To consume is to take the signals of some roles of one cycle.
LEMMA ConsumedReady ==
  ASSUME ReadyTypes, NEW R \in SUBSET Roles, NEW c \in Cycles,
         \A r \in R : ready[r][c] # None,
         ready' = [r \in Roles |-> IF r \in R THEN [ready[r] EXCEPT ![c].consumed = TRUE]
                                    ELSE ready[r]]
  PROVE  ReadyTypes' /\ Takes(R, c)
<1>1. \A r \in R : ready[r][c] \in Readiness BY DEF ReadyTypes
<1>2. \A x \in Readiness :
        /\ ConsumedOf(x) \in Readiness
        /\ ConsumedOf(x).consumed
        /\ ConsumedOf(x).outcome = x.outcome /\ ConsumedOf(x).sha = x.sha
  BY DEF ConsumedOf, Readiness
<1>3. \A q \in Roles, d \in Cycles :
        ready'[q][d] = IF q \in R /\ d = c THEN ConsumedOf(ready[q][d])
                       ELSE ready[q][d]
  BY DEF ConsumedOf, ReadyTypes
<1>4. ready' = [r \in Roles |-> [d \in Cycles |-> ready'[r][d]]]
  BY DEF ReadyTypes
<1>5. \A q \in Roles, d \in Cycles : ready'[q][d] \in Readiness \union {None}
  BY <1>1, <1>2, <1>3 DEF ReadyTypes
<1>6. ReadyTypes' BY <1>4, <1>5 DEF ReadyTypes
<1>. QED BY <1>1, <1>2, <1>3, <1>6, Names DEF Takes

LEMMA ConsumedOne ==
  ASSUME ReadyTypes, NEW r \in Roles, NEW c \in Cycles, ready[r][c] # None,
         ready' = [ready EXCEPT ![r][c].consumed = TRUE]
  PROVE  ReadyTypes' /\ Takes({r}, c)
<1>1. ready' = [q \in Roles |-> IF q \in {r}
                                THEN [ready[q] EXCEPT ![c].consumed = TRUE]
                                ELSE ready[q]]
  BY DEF ReadyTypes
<1>2. {r} \in SUBSET Roles /\ \A q \in {r} : ready[q][c] # None OBVIOUS
<1>. QED BY <1>1, <1>2, ConsumedReady

\* The signal in hand is taken when it has been acted upon.
LEMMA ConsumesReady ==
  ASSUME Typed, InHand, NEW s \in Supervisors, Consumes(s)
  PROVE  /\ local[s].who \in {Manager, Worker} /\ SignalOf(s) \in Cycles
         /\ ReadyTypes' /\ Takes({local[s].who}, SignalOf(s))
<1>1. at(s) = "launch" BY Here DEF Consumes, Typed
<1>2. /\ local[s].who \in {Manager, Worker} /\ SignalOf(s) \in Cycles
      /\ ready[local[s].who][SignalOf(s)] # None
  BY <1>1, Names DEF InHand, InHandOf, Launching, SignalOf, LocalTypes, Local,
        Typed
<1>3. ready' = [ready EXCEPT ![local[s].who][SignalOf(s)].consumed = TRUE]
  BY DEF Consumes, SignalOf
<1>. QED BY <1>2, <1>3, ConsumedOne, Names DEF Typed

\* An outcome takes the signals that were open, or changes nothing.
LEMMA FinalizedReady ==
  ASSUME Typed, NEW s \in Supervisors, NEW o \in {"completed", "blocked"},
         Finalized(s, o)
  PROVE  /\ ReadyTypes' /\ RunTypes'
         /\ \/ UNCHANGED <<ready, run>>
            \/ /\ run.status = "running" /\ run'.status = o
               /\ run'.cycle = run.cycle /\ run'.released
               /\ \A r \in local[s].open : Pending(r, local[s].cycle)
               /\ Takes(local[s].open, local[s].cycle)
<1>. DEFINE c == local[s].cycle
<1>1. local[s].open \in SUBSET Roles /\ c \in Cycles
  BY Names DEF LocalTypes, Local, Typed
<1>2. CASE UNCHANGED <<ready, run>> BY <1>2 DEF ReadyTypes, RunTypes, Typed
<1>3. CASE /\ run.status = "running" /\ \A r \in local[s].open : Pending(r, c)
           /\ run' = [run EXCEPT !.status = o, !.waits = FALSE, !.released = TRUE]
           /\ ready' = [r \in Roles |-> IF r \in local[s].open
                                        THEN [ready[r] EXCEPT ![c].consumed = TRUE]
                                        ELSE ready[r]]
  <2>1. \A r \in local[s].open : ready[r][c] # None BY <1>3 DEF Pending
  <2>2. ReadyTypes' /\ Takes(local[s].open, c)
    BY <1>1, <1>3, <2>1, ConsumedReady DEF Typed
  <2>3. run \in Runs /\ o \in RunStatuses /\ o # "running"
    BY DEF RunTypes, RunStatuses, Typed
  <2>4. run' \in Runs BY <1>3, <2>3, RunShapes
  <2>5. run'.status = o /\ run'.cycle = run.cycle /\ run'.released
    BY <1>3, <2>3 DEF Runs
  <2>. QED BY <1>3, <2>2, <2>3, <2>4, <2>5 DEF RunTypes
<1>. QED BY <1>2, <1>3 DEF Finalized

\* A reopening takes the reviewers' signals and begins the next cycle.
LEMMA PreparesRows ==
  ASSUME Typed, NEW s \in Supervisors, Prepares(s), MayReopen(s)
  PROVE  /\ ReadyTypes' /\ Takes(Reviewers, run.cycle)
         /\ RunTypes' /\ run'.status = run.status /\ run'.released = run.released
         /\ run'.cycle = run.cycle + 1 /\ run.cycle \in Cycles /\ run.cycle + 1 \in Cycles
<1>1. /\ Reviewers \in SUBSET Roles /\ run.cycle \in Cycles
      /\ \A r \in Reviewers : ready[r][run.cycle] # None
  BY Names DEF MayReopen, Pending, RunTypes, Runs, Typed
<1>2. ready' = [r \in Roles |-> IF r \in Reviewers
                  THEN [ready[r] EXCEPT ![run.cycle].consumed = TRUE]
                  ELSE ready[r]]
  BY DEF Prepares
<1>3. run.cycle + 1 \in Cycles
  BY RunAssumption DEF MayReopen, RunTypes, Runs, Cycles, Typed
<1>4. run' = [run EXCEPT !.cycle = run.cycle + 1] BY DEF Prepares, NextCycle
<1>5. run' \in Runs BY <1>3, <1>4, RunShapes DEF RunTypes, Typed
<1>6. /\ run'.status = run.status /\ run'.errors = run.errors
      /\ run'.cycle = run.cycle + 1 /\ run'.released = run.released
  BY <1>4 DEF RunTypes, Runs, Typed
<1>7. RunTypes' BY <1>5, <1>6 DEF RunTypes, Typed
<1>. QED BY <1>1, <1>2, <1>3, <1>6, <1>7, ConsumedReady DEF Typed

\* A fold takes one blocker, of a role that is cancelled.
LEMMA FoldsRows ==
  ASSUME Typed, NEW s \in Supervisors, Folds(s)
  PROVE  /\ ReadyTypes' /\ RunTypes' /\ local[s].who \in Roles
         /\ \/ UNCHANGED <<ready, run>>
            \/ /\ run.status = "running" /\ status[local[s].who] = "cancelled"
               /\ run'.status = "blocked" /\ run'.cycle = run.cycle /\ run'.released
               /\ \E c \in Cycles : Takes({local[s].who}, c)
<1>1. local[s].who \in Roles BY DEF LocalTypes, Local, Typed
<1>2. CASE UNCHANGED <<ready, run>>
  BY <1>1, <1>2 DEF ReadyTypes, RunTypes, Typed
<1>3. ASSUME NEW c \in Cycles, Pending(local[s].who, c),
             run.status = "running", status[local[s].who] = "cancelled",
             ready' = [ready EXCEPT ![local[s].who][c].consumed = TRUE],
             run' = [run EXCEPT !.status = "blocked", !.waits = FALSE,
                                !.released = TRUE]
      PROVE  /\ ReadyTypes' /\ RunTypes'
             /\ run'.status = "blocked" /\ run'.cycle = run.cycle /\ run'.released
             /\ Takes({local[s].who}, c)
  <2>1. ready[local[s].who][c] # None BY <1>3 DEF Pending
  <2>2. ReadyTypes' /\ Takes({local[s].who}, c)
    BY <1>1, <1>3, <2>1, ConsumedOne DEF Typed
  <2>3. run \in Runs /\ "blocked" \in RunStatuses
    BY DEF RunTypes, RunStatuses, Typed
  <2>4. run' \in Runs BY <1>3, <2>3, RunShapes
  <2>5. run'.status = "blocked" /\ run'.cycle = run.cycle /\ run'.released
    BY <1>3, <2>3 DEF Runs
  <2>. QED BY <2>2, <2>4, <2>5 DEF RunTypes
<1>. QED BY <1>1, <1>2, <1>3 DEF Folds

\* Every step keeps the types.
LEMMA TypedStep ==
  ASSUME Typed, InHand, Next
  PROVE  Typed'
<1>. USE DEF Typed
<1>1. ASSUME WorkerCommits PROVE Typed'
  <2>1. RowTypes' BY <1>1 DEF RowTypes, WorkerCommits, rows, git
  <2>2. ReadyTypes' BY <1>1 DEF ReadyTypes, WorkerCommits, rows, git
  <2>3. RunTypes' BY <1>1 DEF RunTypes, WorkerCommits, rows, git
  <2>4. GitTypes'
    BY <1>1, Names, RunAssumption
    DEF GitTypes, Commits, Foreign, WorkerCommits, rows, git
  <2>5. LocalTypes' BY <1>1 DEF LocalTypes, WorkerCommits, rows, git
  <2>6. CountTypes' BY <1>1 DEF CountTypes, WorkerCommits, rows, git
  <2>7. Scripted' BY <1>1, NobodyGoes DEF WorkerCommits
  <2>. QED BY <2>1, <2>2, <2>3, <2>4, <2>5, <2>6, <2>7
<1>2. ASSUME ManagerCommits PROVE Typed'
  <2>1. RowTypes' BY <1>2 DEF RowTypes, ManagerCommits, rows, git
  <2>2. ReadyTypes' BY <1>2 DEF ReadyTypes, ManagerCommits, rows, git
  <2>3. RunTypes' BY <1>2 DEF RunTypes, ManagerCommits, rows, git
  <2>4. GitTypes'
    BY <1>2, Names, RunAssumption
    DEF GitTypes, Commits, Foreign, ManagerCommits, rows, git, Mishap
  <2>5. LocalTypes' BY <1>2 DEF LocalTypes, ManagerCommits, rows, git
  <2>6. CountTypes'
    BY <1>2, RunAssumption
    DEF CountTypes, ManagerCommits, rows, git, Mishap
  <2>7. Scripted' BY <1>2, NobodyGoes DEF ManagerCommits
  <2>. QED BY <2>1, <2>2, <2>3, <2>4, <2>5, <2>6, <2>7
<1>3. ASSUME ManagerReports PROVE Typed'
  <2>1. RowTypes' BY <1>3 DEF RowTypes, ManagerReports, rows, git
  <2>2. ReadyTypes'
    BY <1>3, Names, RunAssumption
    DEF ReadyTypes, RunTypes, Runs, RowTypes, GitTypes, Readiness, Outcomes,
        ManagerReports, rows, git, Recorded, Attempt
  <2>3. RunTypes' BY <1>3 DEF RunTypes, ManagerReports, rows, git
  <2>4. GitTypes' BY <1>3 DEF GitTypes, ManagerReports, rows, git
  <2>5. LocalTypes' BY <1>3 DEF LocalTypes, ManagerReports, rows, git
  <2>6. CountTypes' BY <1>3 DEF CountTypes, ManagerReports, rows, git
  <2>7. Scripted' BY <1>3, NobodyGoes DEF ManagerReports
  <2>. QED BY <2>1, <2>2, <2>3, <2>4, <2>5, <2>6, <2>7
<1>4. ASSUME NEW r \in Reviewers, ReviewerReports(r) PROVE Typed'
  <2>1. RowTypes' BY <1>4 DEF RowTypes, ReviewerReports, rows, git
  <2>2. ReadyTypes'
    BY <1>4, Names, RunAssumption
    DEF ReadyTypes, RunTypes, Runs, RowTypes, GitTypes, Readiness, Outcomes,
        ReviewerReports, rows, git, Recorded, Attempt
  <2>3. RunTypes' BY <1>4 DEF RunTypes, ReviewerReports, rows, git
  <2>4. GitTypes' BY <1>4 DEF GitTypes, ReviewerReports, rows, git
  <2>5. LocalTypes' BY <1>4 DEF LocalTypes, ReviewerReports, rows, git
  <2>6. CountTypes' BY <1>4 DEF CountTypes, ReviewerReports, rows, git
  <2>7. Scripted' BY <1>4, NobodyGoes DEF ReviewerReports
  <2>. QED BY <2>1, <2>2, <2>3, <2>4, <2>5, <2>6, <2>7
<1>5. ASSUME NEW r \in Roles, Blocks(r) PROVE Typed'
  <2>1. RowTypes' BY <1>5 DEF RowTypes, Blocks, rows, git
  <2>2. ReadyTypes'
    BY <1>5, Names, RunAssumption
    DEF ReadyTypes, RunTypes, Runs, RowTypes, GitTypes, Readiness, Outcomes,
        Blocks, rows, git, Recorded, Attempt
  <2>3. RunTypes' BY <1>5 DEF RunTypes, Blocks, rows, git
  <2>4. GitTypes' BY <1>5 DEF GitTypes, Blocks, rows, git
  <2>5. LocalTypes' BY <1>5 DEF LocalTypes, Blocks, rows, git
  <2>6. CountTypes' BY <1>5 DEF CountTypes, Blocks, rows, git
  <2>7. Scripted' BY <1>5, NobodyGoes DEF Blocks
  <2>. QED BY <2>1, <2>2, <2>3, <2>4, <2>5, <2>6, <2>7
<1>6. ASSUME WorkerVerifies PROVE Typed'
  <2>1. RowTypes' BY <1>6 DEF RowTypes, WorkerVerifies, rows, git
  <2>2. ReadyTypes' BY <1>6 DEF ReadyTypes, WorkerVerifies, rows, git
  <2>3. RunTypes' BY <1>6 DEF RunTypes, WorkerVerifies, rows, git
  <2>4. GitTypes'
    BY <1>6, Names, RunAssumption
    DEF GitTypes, Commits, Foreign, WorkerVerifies, rows, git
  <2>5. LocalTypes' BY <1>6 DEF LocalTypes, WorkerVerifies, rows, git
  <2>6. CountTypes' BY <1>6 DEF CountTypes, WorkerVerifies, rows, git
  <2>7. Scripted' BY <1>6, NobodyGoes DEF WorkerVerifies
  <2>. QED BY <2>1, <2>2, <2>3, <2>4, <2>5, <2>6, <2>7
<1>7. ASSUME WorkerReports PROVE Typed'
  <2>1. RowTypes' BY <1>7 DEF RowTypes, WorkerReports, rows, git
  <2>2. ReadyTypes'
    <3>1. "done" \in Outcomes /\ Worker \in Roles /\ draft \in Commits
      BY <1>7, Names DEF Outcomes, WorkerReports, GitTypes
    <3>2. UNCHANGED ready \/ ready' = Recorded(Worker, "done", draft)
      BY <1>7 DEF WorkerReports
    <3>3. CASE UNCHANGED ready BY <3>3 DEF ReadyTypes
    <3>. QED BY <3>1, <3>2, <3>3, RecordedReady
  <2>3. RunTypes' BY <1>7 DEF RunTypes, WorkerReports, rows, git
  <2>4. GitTypes'
    BY <1>7, Names, RunAssumption
    DEF GitTypes, Commits, Foreign, WorkerReports, rows, git, Recorded, Attempt
  <2>5. LocalTypes' BY <1>7 DEF LocalTypes, WorkerReports, rows, git
  <2>6. CountTypes' BY <1>7 DEF CountTypes, WorkerReports, rows, git
  <2>7. Scripted' BY <1>7, NobodyGoes DEF WorkerReports
  <2>. QED BY <2>1, <2>2, <2>3, <2>4, <2>5, <2>6, <2>7
<1>8. ASSUME NEW r \in Roles, ReportsResult(r) PROVE Typed'
  <2>1. RowTypes'
    BY <1>8, Names
    DEF RowTypes, Statuses, ReportsResult, rows, git
  <2>2. ReadyTypes' BY <1>8 DEF ReadyTypes, ReportsResult, rows, git
  <2>3. RunTypes' BY <1>8 DEF RunTypes, ReportsResult, rows, git
  <2>4. GitTypes' BY <1>8 DEF GitTypes, ReportsResult, rows, git
  <2>5. LocalTypes' BY <1>8 DEF LocalTypes, ReportsResult, rows, git
  <2>6. CountTypes' BY <1>8 DEF CountTypes, ReportsResult, rows, git
  <2>7. Scripted' BY <1>8, NobodyGoes DEF ReportsResult
  <2>. QED BY <2>1, <2>2, <2>3, <2>4, <2>5, <2>6, <2>7
<1>9. ASSUME NEW r \in Roles, AgentDies(r) PROVE Typed'
  <2>1. RowTypes'
    BY <1>9, Names
    DEF RowTypes, Statuses, AgentDies, rows, git, Closed, Mishap
  <2>2. ReadyTypes' BY <1>9 DEF ReadyTypes, AgentDies, rows, git
  <2>3. RunTypes' BY <1>9 DEF RunTypes, AgentDies, rows, git
  <2>4. GitTypes'
    BY <1>9, Names, RunAssumption
    DEF GitTypes, Commits, Foreign, AgentDies, rows, git, Closed, Mishap
  <2>5. LocalTypes' BY <1>9 DEF LocalTypes, AgentDies, rows, git
  <2>6. CountTypes'
    BY <1>9, RunAssumption
    DEF CountTypes, AgentDies, rows, git, Closed, Mishap
  <2>7. Scripted' BY <1>9, NobodyGoes DEF AgentDies
  <2>. QED BY <2>1, <2>2, <2>3, <2>4, <2>5, <2>6, <2>7
<1>10. ASSUME NEW r \in Roles, OperatorCancels(r) PROVE Typed'
  <2>1. RowTypes'
    BY <1>10, Names
    DEF RowTypes, Statuses, OperatorCancels, rows, git, Closed, Mishap, Ended
  <2>2. ReadyTypes' BY <1>10 DEF ReadyTypes, OperatorCancels, rows, git
  <2>3. RunTypes' BY <1>10 DEF RunTypes, OperatorCancels, rows, git
  <2>4. GitTypes'
    BY <1>10, Names, RunAssumption
    DEF GitTypes, Commits, Foreign, OperatorCancels, rows, git, Closed, Mishap,
        Ended
  <2>5. LocalTypes' BY <1>10 DEF LocalTypes, OperatorCancels, rows, git
  <2>6. CountTypes'
    BY <1>10, RunAssumption
    DEF CountTypes, OperatorCancels, rows, git, Closed, Mishap, Ended
  <2>7. Scripted' BY <1>10, NobodyGoes DEF OperatorCancels
  <2>. QED BY <2>1, <2>2, <2>3, <2>4, <2>5, <2>6, <2>7
<1>11. ASSUME NEW r \in Roles, CleansStart(r) PROVE Typed'
  <2>1. RowTypes'
    BY <1>11, Names
    DEF RowTypes, Statuses, CleansStart, rows, git, Ended
  <2>2. ReadyTypes' BY <1>11 DEF ReadyTypes, CleansStart, rows, git
  <2>3. RunTypes' BY <1>11 DEF RunTypes, CleansStart, rows, git
  <2>4. GitTypes' BY <1>11 DEF GitTypes, CleansStart, rows, git
  <2>5. LocalTypes' BY <1>11 DEF LocalTypes, CleansStart, rows, git
  <2>6. CountTypes' BY <1>11 DEF CountTypes, CleansStart, rows, git
  <2>7. Scripted' BY <1>11, NobodyGoes DEF CleansStart
  <2>. QED BY <2>1, <2>2, <2>3, <2>4, <2>5, <2>6, <2>7
<1>12. ASSUME NEW r \in Roles, OperatorResumes(r) PROVE Typed'
  <2>1. RowTypes'
    BY <1>12, Names
    DEF RowTypes, Statuses, OperatorResumes, rows, git, Mishap
  <2>2. ReadyTypes' BY <1>12 DEF ReadyTypes, OperatorResumes, rows, git
  <2>3. RunTypes' BY <1>12 DEF RunTypes, OperatorResumes, rows, git
  <2>4. GitTypes' BY <1>12 DEF GitTypes, OperatorResumes, rows, git
  <2>5. LocalTypes' BY <1>12 DEF LocalTypes, OperatorResumes, rows, git
  <2>6. CountTypes'
    BY <1>12, RunAssumption
    DEF CountTypes, OperatorResumes, rows, git, Mishap
  <2>7. Scripted' BY <1>12, NobodyGoes DEF OperatorResumes
  <2>. QED BY <2>1, <2>2, <2>3, <2>4, <2>5, <2>6, <2>7
<1>13. ASSUME NEW s \in Coordinators, Attaches(s) PROVE Typed'
  <2>1. RowTypes' BY <1>13 DEF RowTypes, Attaches, rows, git
  <2>2. ReadyTypes' BY <1>13 DEF ReadyTypes, Attaches, rows, git
  <2>3. RunTypes' BY <1>13 DEF RunTypes, Attaches, rows, git
  <2>4. GitTypes' BY <1>13 DEF GitTypes, Attaches, rows, git
  <2>5. LocalTypes' BY <1>13 DEF LocalTypes, Attaches, rows, git
  <2>6. CountTypes'
    BY <1>13, RunAssumption
    DEF CountTypes, Attaches, rows, git
  <2>7. Scripted' BY <1>13, AttachesGoes DEF Supervisors, Goes
  <2>. QED BY <2>1, <2>2, <2>3, <2>4, <2>5, <2>6, <2>7
<1>14. ASSUME NEW s \in Coordinators, Retries(s) PROVE Typed'
  <2>1. RowTypes' BY <1>14 DEF RowTypes, Retries, rows, git
  <2>2. ReadyTypes' BY <1>14 DEF ReadyTypes, Retries, rows, git
  <2>3. RunTypes'
    <3>1. run' = [run EXCEPT !.status = "running", !.errors = 0, !.waits = FALSE,
                             !.released = FALSE]
      BY <1>14 DEF Retries
    <3>2. run' \in Runs BY <3>1, RunShapes DEF RunTypes
    <3>3. run'.errors = 0 BY <3>1 DEF RunTypes, Runs
    <3>. QED BY <3>2, <3>3, RunAssumption DEF RunTypes
  <2>4. GitTypes' BY <1>14 DEF GitTypes, Retries, rows, git
  <2>5. LocalTypes' BY <1>14 DEF LocalTypes, Retries, rows, git
  <2>6. CountTypes'
    BY <1>14, RunAssumption
    DEF CountTypes, Retries, rows, git, Mishap
  <2>7. Scripted' BY <1>14, RetriesGoes DEF Supervisors
  <2>. QED BY <2>1, <2>2, <2>3, <2>4, <2>5, <2>6, <2>7
<1>15. ASSUME NEW s \in Manual, StartsByHand(s) PROVE Typed'
  <2>1. RowTypes' BY <1>15 DEF RowTypes, StartsByHand, rows, git
  <2>2. ReadyTypes' BY <1>15 DEF ReadyTypes, StartsByHand, rows, git
  <2>3. RunTypes' BY <1>15 DEF RunTypes, StartsByHand, rows, git
  <2>4. GitTypes' BY <1>15 DEF GitTypes, StartsByHand, rows, git
  <2>5. LocalTypes' BY <1>15 DEF LocalTypes, StartsByHand, rows, git
  <2>6. CountTypes'
    BY <1>15, RunAssumption
    DEF CountTypes, StartsByHand, rows, git, Mishap
  <2>7. Scripted' BY <1>15, AttachesGoes DEF Supervisors, Goes
  <2>. QED BY <2>1, <2>2, <2>3, <2>4, <2>5, <2>6, <2>7
<1>16. ASSUME TimePasses PROVE Typed'
  <2>1. RowTypes' BY <1>16 DEF RowTypes, TimePasses, rows, git
  <2>2. ReadyTypes' BY <1>16 DEF ReadyTypes, TimePasses, rows, git
  <2>3. RunTypes'
    BY <1>16, Names, RunAssumption
    DEF RunTypes, Runs, RunStatuses, Cycles, TimePasses, rows, git
  <2>4. GitTypes' BY <1>16 DEF GitTypes, TimePasses, rows, git
  <2>5. LocalTypes' BY <1>16 DEF LocalTypes, TimePasses, rows, git
  <2>6. CountTypes' BY <1>16 DEF CountTypes, TimePasses, rows, git
  <2>7. Scripted' BY <1>16, NobodyGoes DEF TimePasses
  <2>. QED BY <2>1, <2>2, <2>3, <2>4, <2>5, <2>6, <2>7
<1>17. ASSUME NEW s \in Supervisors, Closes(s) PROVE Typed'
  <2>1. RowTypes' BY <1>17 DEF RowTypes, Closes, rows, git
  <2>2. ReadyTypes' BY <1>17 DEF ReadyTypes, Closes, rows, git
  <2>3. RunTypes'
    BY <1>17, Names, RunAssumption
    DEF RunTypes, Runs, RunStatuses, Cycles, Closes, rows, git
  <2>4. GitTypes' BY <1>17 DEF GitTypes, Closes, rows, git
  <2>5. LocalTypes'
    BY <1>17, Names, FreshLocal
    DEF LocalTypes, Closes, rows, git
  <2>6. CountTypes' BY <1>17 DEF CountTypes, Closes, rows, git
  <2>7. Scripted' BY <1>17, ClosesGoes
  <2>. QED BY <2>1, <2>2, <2>3, <2>4, <2>5, <2>6, <2>7
<1>18. ASSUME NEW s \in Supervisors, Begins(s) PROVE Typed'
  <2>1. RowTypes' BY <1>18 DEF RowTypes, Begins, rows, git
  <2>2. ReadyTypes' BY <1>18 DEF ReadyTypes, Begins, rows, git
  <2>3. RunTypes' BY <1>18 DEF RunTypes, Begins, rows, git
  <2>4. GitTypes' BY <1>18 DEF GitTypes, Begins, rows, git
  <2>5. LocalTypes'
    <3>1. \/ UNCHANGED local
          \/ local' = [local EXCEPT ![s] = [Fresh EXCEPT !.manager = status[Manager]]]
      BY <1>18 DEF Begins
    <3>2. [Fresh EXCEPT !.manager = status[Manager]] \in Local
      BY Names, FreshLocal DEF RowTypes
    <3>. QED BY <3>1, <3>2, LocalSet DEF LocalTypes
  <2>6. CountTypes' BY <1>18 DEF CountTypes, Begins, rows, git
  <2>7. Scripted' BY <1>18, BeginsGoes DEF Goes
  <2>. QED BY <2>1, <2>2, <2>3, <2>4, <2>5, <2>6, <2>7
<1>19. ASSUME NEW s \in Supervisors, NEW r \in Roles, Overdue(s, r) PROVE Typed'
  <2>1. RowTypes' BY <1>19 DEF RowTypes, Overdue, rows, git
  <2>2. ReadyTypes' BY <1>19 DEF ReadyTypes, Overdue, rows, git
  <2>3. RunTypes' BY <1>19 DEF RunTypes, Overdue, rows, git
  <2>4. GitTypes' BY <1>19 DEF GitTypes, Overdue, rows, git
  <2>5. LocalTypes'
    BY <1>19, Names, FreshLocal
    DEF LocalTypes, Overdue, rows, git
  <2>6. CountTypes' BY <1>19 DEF CountTypes, Overdue, rows, git
  <2>7. Scripted' BY <1>19, OverdueGoes DEF Goes
  <2>. QED BY <2>1, <2>2, <2>3, <2>4, <2>5, <2>6, <2>7
<1>20. ASSUME NEW s \in Supervisors, NothingOverdue(s) PROVE Typed'
  <2>1. RowTypes' BY <1>20 DEF RowTypes, NothingOverdue, rows, git
  <2>2. ReadyTypes' BY <1>20 DEF ReadyTypes, NothingOverdue, rows, git
  <2>3. RunTypes' BY <1>20 DEF RunTypes, NothingOverdue, rows, git
  <2>4. GitTypes' BY <1>20 DEF GitTypes, NothingOverdue, rows, git
  <2>5. LocalTypes' BY <1>20 DEF LocalTypes, NothingOverdue, rows, git
  <2>6. CountTypes' BY <1>20 DEF CountTypes, NothingOverdue, rows, git
  <2>7. Scripted' BY <1>20, NothingOverdueGoes DEF Goes
  <2>. QED BY <2>1, <2>2, <2>3, <2>4, <2>5, <2>6, <2>7
<1>21. ASSUME NEW s \in Supervisors, ReadsSignals(s) PROVE Typed'
  <2>1. RowTypes' BY <1>21 DEF RowTypes, ReadsSignals, rows, git
  <2>2. ReadyTypes' BY <1>21 DEF ReadyTypes, ReadsSignals, rows, git
  <2>3. RunTypes' BY <1>21 DEF RunTypes, ReadsSignals, rows, git
  <2>4. GitTypes' BY <1>21 DEF GitTypes, ReadsSignals, rows, git
  <2>5. LocalTypes'
    <3>1. \/ \E r \in Roles :
               local' = [local EXCEPT ![s] = [Fresh EXCEPT !.who = r]]
          \/ local' = [local EXCEPT ![s] = [Fresh EXCEPT !.who = Manager,
                                                        !.todo = {Worker}]]
          \/ local' = [local EXCEPT ![s] = Fresh]
      BY <1>21 DEF ReadsSignals
    <3>2. /\ \A r \in Roles : [Fresh EXCEPT !.who = r] \in Local
          /\ [Fresh EXCEPT !.who = Manager, !.todo = {Worker}] \in Local
      BY Names, FreshLocal
    <3>. QED BY <3>1, <3>2, FreshLocal, LocalSet
  <2>6. CountTypes' BY <1>21 DEF CountTypes, ReadsSignals, rows, git
  <2>7. Scripted' BY <1>21, ReadsSignalsGoes DEF Goes
  <2>. QED BY <2>1, <2>2, <2>3, <2>4, <2>5, <2>6, <2>7
<1>22. ASSUME NEW s \in Supervisors, HandsOff(s) PROVE Typed'
  <2>1. RowTypes'
    <3>1. local[s].todo \subseteq Children BY DEF LocalTypes, Local
    <3>. QED BY <1>22, <3>1 DEF RowTypes, HandsOff
  <2>2. ReadyTypes' BY <1>22 DEF ReadyTypes, HandsOff, rows, git
  <2>3. RunTypes' BY <1>22 DEF RunTypes, HandsOff, rows, git
  <2>4. GitTypes' BY <1>22 DEF GitTypes, HandsOff, rows, git
  <2>5. LocalTypes' BY <1>22 DEF LocalTypes, HandsOff, rows, git
  <2>6. CountTypes' BY <1>22 DEF CountTypes, HandsOff, rows, git
  <2>7. Scripted' BY <1>22, HandsOffGoes DEF Goes
  <2>. QED BY <2>1, <2>2, <2>3, <2>4, <2>5, <2>6, <2>7
<1>23. ASSUME NEW s \in Supervisors, Finishes(s) PROVE Typed'
  <2>1. RowTypes'
    BY <1>23, Names
    DEF RowTypes, Statuses, Finishes, rows, git
  <2>2. ReadyTypes' BY <1>23 DEF ReadyTypes, Finishes, rows, git
  <2>3. RunTypes' BY <1>23 DEF RunTypes, Finishes, rows, git
  <2>4. GitTypes' BY <1>23 DEF GitTypes, Finishes, rows, git
  <2>5. LocalTypes' BY <1>23 DEF LocalTypes, Finishes, rows, git
  <2>6. CountTypes' BY <1>23 DEF CountTypes, Finishes, rows, git
  <2>7. Scripted' BY <1>23, FinishesGoes DEF Goes
  <2>. QED BY <2>1, <2>2, <2>3, <2>4, <2>5, <2>6, <2>7
<1>24. ASSUME NEW s \in Supervisors, Launches(s) PROVE Typed'
  <2>1. RowTypes' BY <1>24 DEF RowTypes, Launches, rows, git
  <2>2. ReadyTypes' BY <1>24 DEF ReadyTypes, Launches, rows, git
  <2>3. RunTypes' BY <1>24 DEF RunTypes, Launches, rows, git
  <2>4. GitTypes' BY <1>24 DEF GitTypes, Launches, rows, git
  <2>5. LocalTypes'
    <3>1. /\ local[s] \in Local
          /\ \A c : local[s].todo \ {c} \subseteq Children
          /\ local[s].todo \subseteq Children
      BY DEF LocalTypes, Local
    <3>2. \/ UNCHANGED local
          \/ \E c \in local[s].todo :
               local' = [local EXCEPT ![s] = [local[s] EXCEPT !.todo = local[s].todo \ {c}]]
          \/ \E c \in local[s].todo :
               local' = [local EXCEPT ![s] = [local[s] EXCEPT !.child = c]]
      BY <1>24 DEF Launches
    <3>3. \A c : [local[s] EXCEPT !.todo = local[s].todo \ {c}] \in Local
      BY <3>1, FreshLocal
    <3>4. \A c \in local[s].todo : [local[s] EXCEPT !.child = c] \in Local
      BY <3>1, FreshLocal
    <3>. QED BY <3>2, <3>3, <3>4, LocalSet DEF LocalTypes
  <2>6. CountTypes' BY <1>24 DEF CountTypes, Launches, rows, git
  <2>7. Scripted' BY <1>24, LaunchesGoes DEF Goes
  <2>. QED BY <2>1, <2>2, <2>3, <2>4, <2>5, <2>6, <2>7
<1>25. ASSUME NEW s \in Supervisors, Asks(s) PROVE Typed'
  <2>1. RowTypes' BY <1>25 DEF RowTypes, Asks, rows, git
  <2>2. ReadyTypes' BY <1>25 DEF ReadyTypes, Asks, rows, git
  <2>3. RunTypes' BY <1>25 DEF RunTypes, Asks, rows, git
  <2>4. GitTypes' BY <1>25 DEF GitTypes, Asks, rows, git
  <2>5. LocalTypes' BY <1>25 DEF LocalTypes, Asks, rows, git
  <2>6. CountTypes' BY <1>25 DEF CountTypes, Asks, rows, git
  <2>7. Scripted' BY <1>25, AsksGoes DEF Goes
  <2>. QED BY <2>1, <2>2, <2>3, <2>4, <2>5, <2>6, <2>7
<1>26. ASSUME NEW s \in Supervisors, BeginsStart(s) PROVE Typed'
  <2>1. RowTypes'
    BY <1>26, Names
    DEF RowTypes, Statuses, BeginsStart, rows, git
  <2>2. ReadyTypes' BY <1>26 DEF ReadyTypes, BeginsStart, rows, git
  <2>3. RunTypes' BY <1>26 DEF RunTypes, BeginsStart, rows, git
  <2>4. GitTypes' BY <1>26 DEF GitTypes, BeginsStart, rows, git
  <2>5. LocalTypes' BY <1>26 DEF LocalTypes, BeginsStart, rows, git
  <2>6. CountTypes' BY <1>26 DEF CountTypes, BeginsStart, rows, git
  <2>7. Scripted' BY <1>26, BeginsStartGoes DEF Goes
  <2>. QED BY <2>1, <2>2, <2>3, <2>4, <2>5, <2>6, <2>7
<1>27. ASSUME NEW s \in Supervisors, Creates(s) PROVE Typed'
  <2>1. RowTypes'
    <3>1. local[s].child \in Roles BY Names DEF LocalTypes, Local
    <3>2. CASE status[local[s].child] = "starting"
      BY <1>27, <3>1, <3>2 DEF RowTypes, GitTypes, Creates, Statuses
    <3>3. CASE status[local[s].child] # "starting"
      BY <1>27, <3>3 DEF RowTypes, Creates
    <3>. QED BY <3>2, <3>3
  <2>2. ReadyTypes' BY <1>27 DEF ReadyTypes, Creates, rows, git
  <2>3. RunTypes' BY <1>27 DEF RunTypes, Creates, rows, git
  <2>4. GitTypes' BY <1>27 DEF GitTypes, Creates, rows, git
  <2>5. LocalTypes'
    <3>1. /\ local[s] \in Local
          /\ local[s].todo \ {local[s].child} \in SUBSET Children
      BY DEF LocalTypes, Local
    <3>2. \/ UNCHANGED local
          \/ local' = [local EXCEPT ![s] =
                 [local[s] EXCEPT !.todo = local[s].todo \ {local[s].child},
                                  !.child = Worker]]
      BY <1>27 DEF Creates
    <3>3. [local[s] EXCEPT !.todo = local[s].todo \ {local[s].child},
                           !.child = Worker] \in Local
      BY <3>1, Names, FreshLocal
    <3>. QED BY <3>2, <3>3, LocalSet DEF LocalTypes
  <2>6. CountTypes' BY <1>27 DEF CountTypes, Creates, rows, git
  <2>7. Scripted' BY <1>27, CreatesGoes DEF Goes
  <2>. QED BY <2>1, <2>2, <2>3, <2>4, <2>5, <2>6, <2>7
<1>28. ASSUME NEW s \in Supervisors, CreateFails(s) PROVE Typed'
  <2>1. RowTypes'
    BY <1>28, Names
    DEF RowTypes, Statuses, CreateFails, rows, git, Mishap, Ended
  <2>2. ReadyTypes' BY <1>28 DEF ReadyTypes, CreateFails, rows, git
  <2>3. RunTypes' BY <1>28 DEF RunTypes, CreateFails, rows, git
  <2>4. GitTypes' BY <1>28 DEF GitTypes, CreateFails, rows, git
  <2>5. LocalTypes' BY <1>28 DEF LocalTypes, CreateFails, rows, git
  <2>6. CountTypes'
    BY <1>28, RunAssumption
    DEF CountTypes, CreateFails, rows, git, Mishap, Ended
  <2>7. Scripted' BY <1>28, CreateFailsGoes DEF Goes
  <2>. QED BY <2>1, <2>2, <2>3, <2>4, <2>5, <2>6, <2>7
<1>29. ASSUME NEW s \in Supervisors, Consumes(s) PROVE Typed'
  <2>1. RowTypes' BY <1>29 DEF RowTypes, Consumes, rows, git, Rests, Cleared
  <2>2. ReadyTypes'
    BY <1>29, ConsumesReady
  <2>3. RunTypes'
    <3>1. run' = Cleared BY <1>29 DEF Consumes, Rests
    <3>. QED BY <3>1, ClearedRun
  <2>4. GitTypes' BY <1>29 DEF GitTypes, Consumes, rows, git, Rests, Cleared
  <2>5. LocalTypes'
    BY <1>29, Names, FreshLocal
    DEF LocalTypes, Consumes, rows, git, Rests, Cleared
  <2>6. CountTypes' BY <1>29 DEF CountTypes, Consumes, rows, git, Rests, Cleared
  <2>7. Scripted' BY <1>29, ConsumesGoes DEF Goes
  <2>. QED BY <2>1, <2>2, <2>3, <2>4, <2>5, <2>6, <2>7
<1>30. ASSUME NEW s \in Supervisors, Works(s) PROVE Typed'
  <2>1. RowTypes' BY <1>30 DEF RowTypes, Works, rows, git
  <2>2. ReadyTypes' BY <1>30 DEF ReadyTypes, Works, rows, git
  <2>3. RunTypes' BY <1>30 DEF RunTypes, Works, rows, git
  <2>4. GitTypes' BY <1>30 DEF GitTypes, Works, rows, git
  <2>5. LocalTypes'
    <3>1. PICK x \in SUBSET Children :
            local' = [local EXCEPT ![s] = [Fresh EXCEPT !.cycle = run.cycle,
                                             !.who = Worker, !.todo = x]]
      BY <1>30, Names DEF Works
    <3>2. [Fresh EXCEPT !.cycle = run.cycle, !.who = Worker, !.todo = x] \in Local
      BY Names, FreshLocal DEF RunTypes, Runs
    <3>. QED BY <3>1, <3>2, LocalSet
  <2>6. CountTypes' BY <1>30 DEF CountTypes, Works, rows, git
  <2>7. Scripted' BY <1>30, WorksGoes DEF Goes
  <2>. QED BY <2>1, <2>2, <2>3, <2>4, <2>5, <2>6, <2>7
<1>31. ASSUME NEW s \in Supervisors, Reworks(s) PROVE Typed'
  <2>1. RowTypes'
    BY <1>31, Names
    DEF RowTypes, Statuses, Reworks, rows, git
  <2>2. ReadyTypes' BY <1>31 DEF ReadyTypes, Reworks, rows, git
  <2>3. RunTypes' BY <1>31 DEF RunTypes, Reworks, rows, git
  <2>4. GitTypes' BY <1>31 DEF GitTypes, Reworks, rows, git
  <2>5. LocalTypes' BY <1>31 DEF LocalTypes, Reworks, rows, git
  <2>6. CountTypes' BY <1>31 DEF CountTypes, Reworks, rows, git
  <2>7. Scripted' BY <1>31, ReworksGoes DEF Goes
  <2>. QED BY <2>1, <2>2, <2>3, <2>4, <2>5, <2>6, <2>7
<1>32. ASSUME NEW s \in Supervisors, Lists(s) PROVE Typed'
  <2>1. RowTypes' BY <1>32 DEF RowTypes, Lists, rows, git
  <2>2. ReadyTypes' BY <1>32 DEF ReadyTypes, Lists, rows, git
  <2>3. RunTypes' BY <1>32 DEF RunTypes, Lists, rows, git
  <2>4. GitTypes' BY <1>32 DEF GitTypes, Lists, rows, git
  <2>5. LocalTypes'
    BY <1>32, Names, FreshLocal
    DEF LocalTypes, Lists, rows, git
  <2>6. CountTypes' BY <1>32 DEF CountTypes, Lists, rows, git
  <2>7. Scripted' BY <1>32, ListsGoes DEF Goes
  <2>. QED BY <2>1, <2>2, <2>3, <2>4, <2>5, <2>6, <2>7
<1>33. ASSUME NEW s \in Supervisors, Collects(s) PROVE Typed'
  <2>1. RowTypes'
    BY <1>33, Names
    DEF RowTypes, Statuses, Collects, rows, git
  <2>2. ReadyTypes' BY <1>33 DEF ReadyTypes, Collects, rows, git
  <2>3. RunTypes' BY <1>33 DEF RunTypes, Collects, rows, git
  <2>4. GitTypes' BY <1>33 DEF GitTypes, Collects, rows, git
  <2>5. LocalTypes'
    <3>1. /\ local[s] \in Local
          /\ \A c : local[s].todo \ {c} \subseteq Children
      BY DEF LocalTypes, Local
    <3>2. \/ UNCHANGED local
          \/ \E c \in local[s].todo :
               local' = [local EXCEPT ![s] = [local[s] EXCEPT !.todo = local[s].todo \ {c}]]
      BY <1>33 DEF Collects
    <3>3. \A c : [local[s] EXCEPT !.todo = local[s].todo \ {c}] \in Local
      BY <3>1, FreshLocal
    <3>. QED BY <3>2, <3>3, LocalSet DEF LocalTypes
  <2>6. CountTypes' BY <1>33 DEF CountTypes, Collects, rows, git
  <2>7. Scripted' BY <1>33, CollectsGoes DEF Goes
  <2>. QED BY <2>1, <2>2, <2>3, <2>4, <2>5, <2>6, <2>7
<1>34. ASSUME NEW s \in Supervisors, Waits(s) PROVE Typed'
  <2>1. RowTypes' BY <1>34 DEF RowTypes, Waits, rows, git, Rests, Cleared
  <2>2. ReadyTypes' BY <1>34 DEF ReadyTypes, Waits, rows, git, Rests, Cleared
  <2>3. RunTypes'
    <3>1. run' = Cleared BY <1>34 DEF Waits, Rests
    <3>. QED BY <3>1, ClearedRun
  <2>4. GitTypes' BY <1>34 DEF GitTypes, Waits, rows, git, Rests, Cleared
  <2>5. LocalTypes'
    BY <1>34, Names, FreshLocal
    DEF LocalTypes, Waits, rows, git, Rests, Cleared
  <2>6. CountTypes' BY <1>34 DEF CountTypes, Waits, rows, git, Rests, Cleared
  <2>7. Scripted' BY <1>34, WaitsGoes DEF Goes
  <2>. QED BY <2>1, <2>2, <2>3, <2>4, <2>5, <2>6, <2>7
<1>35. ASSUME NEW s \in Supervisors, FindsDeadRole(s) PROVE Typed'
  <2>1. RowTypes' BY <1>35 DEF RowTypes, FindsDeadRole, rows, git
  <2>2. ReadyTypes' BY <1>35 DEF ReadyTypes, FindsDeadRole, rows, git
  <2>3. RunTypes'
    BY <1>35, Names, RunAssumption
    DEF RunTypes, Runs, RunStatuses, Cycles, FindsDeadRole, rows, git
  <2>4. GitTypes' BY <1>35 DEF GitTypes, FindsDeadRole, rows, git
  <2>5. LocalTypes' BY <1>35 DEF LocalTypes, FindsDeadRole, rows, git
  <2>6. CountTypes' BY <1>35 DEF CountTypes, FindsDeadRole, rows, git
  <2>7. Scripted' BY <1>35, FindsDeadRoleGoes DEF Goes
  <2>. QED BY <2>1, <2>2, <2>3, <2>4, <2>5, <2>6, <2>7
<1>36. ASSUME NEW s \in Supervisors, Decides(s) PROVE Typed'
  <2>1. RowTypes' BY <1>36 DEF RowTypes, Decides, rows, git
  <2>2. ReadyTypes' BY <1>36 DEF ReadyTypes, Decides, rows, git
  <2>3. RunTypes' BY <1>36 DEF RunTypes, Decides, rows, git
  <2>4. GitTypes' BY <1>36 DEF GitTypes, Decides, rows, git
  <2>5. LocalTypes' BY <1>36 DEF LocalTypes, Decides, rows, git
  <2>6. CountTypes' BY <1>36 DEF CountTypes, Decides, rows, git
  <2>7. Scripted' BY <1>36, DecidesGoes DEF Goes
  <2>. QED BY <2>1, <2>2, <2>3, <2>4, <2>5, <2>6, <2>7
<1>37. ASSUME NEW s \in Supervisors, Harvests(s) PROVE Typed'
  <2>1. RowTypes' BY <1>37 DEF RowTypes, Harvests, rows, git
  <2>2. ReadyTypes' BY <1>37 DEF ReadyTypes, Harvests, rows, git
  <2>3. RunTypes' BY <1>37 DEF RunTypes, Harvests, rows, git
  <2>4. GitTypes'
    BY <1>37, Names, RunAssumption
    DEF GitTypes, Commits, Foreign, Harvests, rows, git, Integrated
  <2>5. LocalTypes' BY <1>37 DEF LocalTypes, Harvests, rows, git
  <2>6. CountTypes' BY <1>37 DEF CountTypes, Harvests, rows, git
  <2>7. Scripted' BY <1>37, HarvestsGoes DEF Goes
  <2>. QED BY <2>1, <2>2, <2>3, <2>4, <2>5, <2>6, <2>7
<1>38. ASSUME NEW s \in Supervisors, ChecksDelivery(s) PROVE Typed'
  <2>1. RowTypes' BY <1>38 DEF RowTypes, ChecksDelivery, rows, git
  <2>2. ReadyTypes' BY <1>38 DEF ReadyTypes, ChecksDelivery, rows, git
  <2>3. RunTypes' BY <1>38 DEF RunTypes, ChecksDelivery, rows, git
  <2>4. GitTypes' BY <1>38 DEF GitTypes, ChecksDelivery, rows, git
  <2>5. LocalTypes' BY <1>38 DEF LocalTypes, ChecksDelivery, rows, git
  <2>6. CountTypes' BY <1>38 DEF CountTypes, ChecksDelivery, rows, git
  <2>7. Scripted' BY <1>38, ChecksDeliveryGoes DEF Goes
  <2>. QED BY <2>1, <2>2, <2>3, <2>4, <2>5, <2>6, <2>7
<1>39. ASSUME NEW s \in Supervisors, Pushes(s) PROVE Typed'
  <2>1. RowTypes' BY <1>39 DEF RowTypes, Pushes, rows, git
  <2>2. ReadyTypes' BY <1>39 DEF ReadyTypes, Pushes, rows, git
  <2>3. RunTypes' BY <1>39 DEF RunTypes, Pushes, rows, git
  <2>4. GitTypes'
    BY <1>39, Names, RunAssumption
    DEF GitTypes, Commits, Foreign, Pushes, rows, git
  <2>5. LocalTypes' BY <1>39 DEF LocalTypes, Pushes, rows, git
  <2>6. CountTypes' BY <1>39 DEF CountTypes, Pushes, rows, git
  <2>7. Scripted' BY <1>39, PushesGoes DEF Goes
  <2>. QED BY <2>1, <2>2, <2>3, <2>4, <2>5, <2>6, <2>7
<1>40. ASSUME NEW s \in Supervisors, DeliveryFails(s) PROVE Typed'
  <2>1. RowTypes' BY <1>40 DEF RowTypes, DeliveryFails, rows, git
  <2>2. ReadyTypes' BY <1>40 DEF ReadyTypes, DeliveryFails, rows, git
  <2>3. RunTypes' BY <1>40 DEF RunTypes, DeliveryFails, rows, git
  <2>4. GitTypes' BY <1>40 DEF GitTypes, DeliveryFails, rows, git
  <2>5. LocalTypes' BY <1>40 DEF LocalTypes, DeliveryFails, rows, git
  <2>6. CountTypes'
    BY <1>40, RunAssumption
    DEF CountTypes, DeliveryFails, rows, git, Mishap
  <2>7. Scripted' BY <1>40, DeliveryFailsGoes DEF Goes
  <2>. QED BY <2>1, <2>2, <2>3, <2>4, <2>5, <2>6, <2>7
<1>41. ASSUME NEW s \in Supervisors, GivesUp(s) PROVE Typed'
  <2>1. RowTypes' BY <1>41 DEF RowTypes, GivesUp, rows, git
  <2>2. ReadyTypes' BY <1>41 DEF ReadyTypes, GivesUp, rows, git
  <2>3. RunTypes'
    BY <1>41, Names, RunAssumption
    DEF RunTypes, Runs, RunStatuses, Cycles, GivesUp, rows, git
  <2>4. GitTypes' BY <1>41 DEF GitTypes, GivesUp, rows, git
  <2>5. LocalTypes' BY <1>41 DEF LocalTypes, GivesUp, rows, git
  <2>6. CountTypes' BY <1>41 DEF CountTypes, GivesUp, rows, git
  <2>7. Scripted' BY <1>41, GivesUpGoes DEF Goes
  <2>. QED BY <2>1, <2>2, <2>3, <2>4, <2>5, <2>6, <2>7
<1>42. ASSUME NEW s \in Supervisors, Completes(s) PROVE Typed'
  <2>1. RowTypes' BY <1>42 DEF RowTypes, Completes, rows, git, Finalized
  <2>2. ReadyTypes'
    BY <1>42, FinalizedReady DEF Completes
  <2>3. RunTypes'
    BY <1>42, FinalizedReady DEF Completes
  <2>4. GitTypes' BY <1>42 DEF GitTypes, Completes, rows, git, Finalized
  <2>5. LocalTypes' BY <1>42 DEF LocalTypes, Completes, rows, git, Finalized
  <2>6. CountTypes' BY <1>42 DEF CountTypes, Completes, rows, git, Finalized
  <2>7. Scripted' BY <1>42, CompletesGoes DEF Goes
  <2>. QED BY <2>1, <2>2, <2>3, <2>4, <2>5, <2>6, <2>7
<1>43. ASSUME NEW s \in Supervisors, Exhausts(s) PROVE Typed'
  <2>1. RowTypes' BY <1>43 DEF RowTypes, Exhausts, rows, git, Finalized
  <2>2. ReadyTypes'
    BY <1>43, FinalizedReady DEF Exhausts
  <2>3. RunTypes'
    BY <1>43, FinalizedReady DEF Exhausts
  <2>4. GitTypes' BY <1>43 DEF GitTypes, Exhausts, rows, git, Finalized
  <2>5. LocalTypes' BY <1>43 DEF LocalTypes, Exhausts, rows, git, Finalized
  <2>6. CountTypes' BY <1>43 DEF CountTypes, Exhausts, rows, git, Finalized
  <2>7. Scripted' BY <1>43, ExhaustsGoes DEF Goes
  <2>. QED BY <2>1, <2>2, <2>3, <2>4, <2>5, <2>6, <2>7
<1>44. ASSUME NEW s \in Supervisors, StopsReviewers(s) PROVE Typed'
  <2>1. RowTypes'
    BY <1>44, Names
    DEF RowTypes, Statuses, StopsReviewers, rows, git, Closed, Unreconciled
  <2>2. ReadyTypes' BY <1>44 DEF ReadyTypes, StopsReviewers, rows, git
  <2>3. RunTypes' BY <1>44 DEF RunTypes, StopsReviewers, rows, git
  <2>4. GitTypes' BY <1>44 DEF GitTypes, StopsReviewers, rows, git
  <2>5. LocalTypes'
    BY <1>44, Names, FreshLocal
    DEF LocalTypes, StopsReviewers, rows, git, Closed, Unreconciled
  <2>6. CountTypes' BY <1>44 DEF CountTypes, StopsReviewers, rows, git
  <2>7. Scripted' BY <1>44, StopsReviewersGoes DEF Goes
  <2>. QED BY <2>1, <2>2, <2>3, <2>4, <2>5, <2>6, <2>7
<1>45. ASSUME NEW s \in Supervisors, ReadsHead(s) PROVE Typed'
  <2>1. RowTypes' BY <1>45 DEF RowTypes, ReadsHead, rows, git
  <2>2. ReadyTypes' BY <1>45 DEF ReadyTypes, ReadsHead, rows, git
  <2>3. RunTypes' BY <1>45 DEF RunTypes, ReadsHead, rows, git
  <2>4. GitTypes' BY <1>45 DEF GitTypes, ReadsHead, rows, git
  <2>5. LocalTypes'
    <3>1. local' = [local EXCEPT ![s] = [local[s] EXCEPT !.sha = head]] BY <1>45
        DEF ReadsHead
    <3>2. [local[s] EXCEPT !.sha = head] \in Local
      BY FreshLocal DEF GitTypes, LocalTypes
    <3>. QED BY <3>1, <3>2, LocalSet DEF LocalTypes
  <2>6. CountTypes' BY <1>45 DEF CountTypes, ReadsHead, rows, git
  <2>7. Scripted' BY <1>45, ReadsHeadGoes DEF Goes
  <2>. QED BY <2>1, <2>2, <2>3, <2>4, <2>5, <2>6, <2>7
<1>46. ASSUME NEW s \in Supervisors, Prepares(s) PROVE Typed'
  <2>1. RowTypes'
    <3>1. CASE ~MayReopen(s) BY <1>46, <3>1 DEF Prepares, RowTypes
    <3>2. CASE MayReopen(s)
      <4>1. local[s].sha \in Commits BY DEF LocalTypes, Local
      <4>2. status' \in [Roles -> Statuses] /\ reconciled' \subseteq Children
        BY <1>46, <3>2 DEF Prepares, RowTypes, Statuses
      <4>3. agent' \in [Roles -> {"none", "live", "gone"}]
        BY <1>46, <3>2 DEF Prepares, RowTypes
      <4>4. start' \in [Roles -> Commits]
        BY <1>46, <3>2, <4>1 DEF Prepares, RowTypes
      <4>. QED BY <1>46, <4>2, <4>3, <4>4 DEF Prepares, RowTypes
    <3>. QED BY <3>1, <3>2
  <2>2. ReadyTypes'
    <3>1. CASE ~MayReopen(s) BY <1>46, <3>1 DEF Prepares, ReadyTypes
    <3>. QED BY <1>46, <3>1, PreparesRows
  <2>3. RunTypes'
    <3>1. CASE ~MayReopen(s) BY <1>46, <3>1 DEF Prepares, RunTypes
    <3>. QED BY <1>46, <3>1, PreparesRows
  <2>4. GitTypes' BY <1>46 DEF GitTypes, Prepares, rows, git
  <2>5. LocalTypes' BY <1>46 DEF LocalTypes, Prepares, rows, git
  <2>6. CountTypes' BY <1>46 DEF CountTypes, Prepares, rows, git
  <2>7. Scripted' BY <1>46, PreparesGoes DEF Goes
  <2>. QED BY <2>1, <2>2, <2>3, <2>4, <2>5, <2>6, <2>7
<1>47. ASSUME NEW s \in Supervisors, Returns(s) PROVE Typed'
  <2>1. RowTypes' BY <1>47 DEF RowTypes, Returns, rows, git, Rests, Cleared
  <2>2. ReadyTypes' BY <1>47 DEF ReadyTypes, Returns, rows, git, Rests, Cleared
  <2>3. RunTypes'
    <3>1. run' = Cleared BY <1>47 DEF Returns, Rests
    <3>. QED BY <3>1, ClearedRun
  <2>4. GitTypes' BY <1>47 DEF GitTypes, Returns, rows, git, Rests, Cleared
  <2>5. LocalTypes'
    BY <1>47, Names, FreshLocal
    DEF LocalTypes, Returns, rows, git, Rests, Cleared
  <2>6. CountTypes' BY <1>47 DEF CountTypes, Returns, rows, git, Rests, Cleared
  <2>7. Scripted' BY <1>47, ReturnsGoes DEF Goes
  <2>. QED BY <2>1, <2>2, <2>3, <2>4, <2>5, <2>6, <2>7
<1>48. ASSUME NEW s \in Supervisors, CancelsBlocked(s) PROVE Typed'
  <2>1. RowTypes'
    BY <1>48, Names
    DEF RowTypes, Statuses, CancelsBlocked, rows, git, Ended
  <2>2. ReadyTypes' BY <1>48 DEF ReadyTypes, CancelsBlocked, rows, git
  <2>3. RunTypes' BY <1>48 DEF RunTypes, CancelsBlocked, rows, git
  <2>4. GitTypes' BY <1>48 DEF GitTypes, CancelsBlocked, rows, git
  <2>5. LocalTypes' BY <1>48 DEF LocalTypes, CancelsBlocked, rows, git
  <2>6. CountTypes' BY <1>48 DEF CountTypes, CancelsBlocked, rows, git
  <2>7. Scripted' BY <1>48, CancelsBlockedGoes DEF Goes
  <2>. QED BY <2>1, <2>2, <2>3, <2>4, <2>5, <2>6, <2>7
<1>49. ASSUME NEW s \in Supervisors, Folds(s) PROVE Typed'
  <2>1. RowTypes' BY <1>49 DEF RowTypes, Folds, rows, git
  <2>2. ReadyTypes'
    BY <1>49, FoldsRows
  <2>3. RunTypes'
    BY <1>49, FoldsRows
  <2>4. GitTypes' BY <1>49 DEF GitTypes, Folds, rows, git
  <2>5. LocalTypes' BY <1>49 DEF LocalTypes, Folds, rows, git
  <2>6. CountTypes' BY <1>49 DEF CountTypes, Folds, rows, git
  <2>7. Scripted' BY <1>49, FoldsGoes DEF Goes
  <2>. QED BY <2>1, <2>2, <2>3, <2>4, <2>5, <2>6, <2>7
<1>50. ASSUME NEW s \in Supervisors, Reaps(s) PROVE Typed'
  <2>1. RowTypes'
    BY <1>50, Names
    DEF RowTypes, Statuses, Reaps, rows, git, Closed
  <2>2. ReadyTypes' BY <1>50 DEF ReadyTypes, Reaps, rows, git
  <2>3. RunTypes' BY <1>50 DEF RunTypes, Reaps, rows, git
  <2>4. GitTypes'
    BY <1>50, Names, RunAssumption
    DEF GitTypes, Commits, Foreign, Reaps, rows, git, Closed
  <2>5. LocalTypes' BY <1>50 DEF LocalTypes, Reaps, rows, git
  <2>6. CountTypes' BY <1>50 DEF CountTypes, Reaps, rows, git
  <2>7. Scripted' BY <1>50, ReapsGoes DEF Goes
  <2>. QED BY <2>1, <2>2, <2>3, <2>4, <2>5, <2>6, <2>7
<1>51. ASSUME NEW s \in Supervisors, SetsBlocked(s) PROVE Typed'
  <2>1. RowTypes' BY <1>51 DEF RowTypes, SetsBlocked, rows, git
  <2>2. ReadyTypes' BY <1>51 DEF ReadyTypes, SetsBlocked, rows, git
  <2>3. RunTypes'
    BY <1>51, Names, RunAssumption
    DEF RunTypes, Runs, RunStatuses, Cycles, SetsBlocked, rows, git
  <2>4. GitTypes' BY <1>51 DEF GitTypes, SetsBlocked, rows, git
  <2>5. LocalTypes' BY <1>51 DEF LocalTypes, SetsBlocked, rows, git
  <2>6. CountTypes' BY <1>51 DEF CountTypes, SetsBlocked, rows, git
  <2>7. Scripted' BY <1>51, SetsBlockedGoes DEF Goes
  <2>. QED BY <2>1, <2>2, <2>3, <2>4, <2>5, <2>6, <2>7
<1>52. ASSUME NEW s \in Supervisors, Salvages(s) PROVE Typed'
  <2>1. RowTypes' BY <1>52 DEF RowTypes, Salvages, rows, git
  <2>2. ReadyTypes' BY <1>52 DEF ReadyTypes, Salvages, rows, git
  <2>3. RunTypes' BY <1>52 DEF RunTypes, Salvages, rows, git
  <2>4. GitTypes'
    BY <1>52, Names, RunAssumption
    DEF GitTypes, Commits, Foreign, Salvages, rows, git, Integrated, Mishap
  <2>5. LocalTypes' BY <1>52 DEF LocalTypes, Salvages, rows, git
  <2>6. CountTypes'
    BY <1>52, RunAssumption
    DEF CountTypes, Salvages, rows, git, Integrated, Mishap
  <2>7. Scripted' BY <1>52, SalvagesGoes DEF Goes
  <2>. QED BY <2>1, <2>2, <2>3, <2>4, <2>5, <2>6, <2>7
<1>53. ASSUME NEW s \in Supervisors, CancelsOverdue(s) PROVE Typed'
  <2>1. RowTypes'
    BY <1>53, Names
    DEF RowTypes, Statuses, CancelsOverdue, rows, git, Closed, Ended
  <2>2. ReadyTypes' BY <1>53 DEF ReadyTypes, CancelsOverdue, rows, git
  <2>3. RunTypes' BY <1>53 DEF RunTypes, CancelsOverdue, rows, git
  <2>4. GitTypes'
    BY <1>53, Names, RunAssumption
    DEF GitTypes, Commits, Foreign, CancelsOverdue, rows, git, Closed, Ended
  <2>5. LocalTypes' BY <1>53 DEF LocalTypes, CancelsOverdue, rows, git
  <2>6. CountTypes' BY <1>53 DEF CountTypes, CancelsOverdue, rows, git
  <2>7. Scripted' BY <1>53, CancelsOverdueGoes DEF Goes
  <2>. QED BY <2>1, <2>2, <2>3, <2>4, <2>5, <2>6, <2>7
<1>54. ASSUME NEW s \in Supervisors, Releases(s) PROVE Typed'
  <2>1. RowTypes' BY <1>54 DEF RowTypes, Releases, rows, git
  <2>2. ReadyTypes' BY <1>54 DEF ReadyTypes, Releases, rows, git
  <2>3. RunTypes'
    BY <1>54, Names, RunAssumption
    DEF RunTypes, Runs, RunStatuses, Cycles, Releases, rows, git
  <2>4. GitTypes' BY <1>54 DEF GitTypes, Releases, rows, git
  <2>5. LocalTypes' BY <1>54 DEF LocalTypes, Releases, rows, git
  <2>6. CountTypes' BY <1>54 DEF CountTypes, Releases, rows, git
  <2>7. Scripted' BY <1>54, ReleasesGoes DEF Goes
  <2>. QED BY <2>1, <2>2, <2>3, <2>4, <2>5, <2>6, <2>7
<1>55. ASSUME NEW s \in Supervisors, Retires(s) PROVE Typed'
  <2>1. RowTypes'
    BY <1>55, Names
    DEF RowTypes, Statuses, Retires, rows, git, Closed, Integrated, Mishap
  <2>2. ReadyTypes' BY <1>55 DEF ReadyTypes, Retires, rows, git
  <2>3. RunTypes' BY <1>55 DEF RunTypes, Retires, rows, git
  <2>4. GitTypes'
    BY <1>55, Names, RunAssumption
    DEF GitTypes, Commits, Foreign, Retires, rows, git, Closed, Integrated,
        Mishap
  <2>5. LocalTypes' BY <1>55 DEF LocalTypes, Retires, rows, git
  <2>6. CountTypes'
    BY <1>55, RunAssumption
    DEF CountTypes, Retires, rows, git, Closed, Integrated, Mishap
  <2>7. Scripted' BY <1>55, RetiresGoes DEF Goes
  <2>. QED BY <2>1, <2>2, <2>3, <2>4, <2>5, <2>6, <2>7
<1>56. ASSUME NEW s \in Supervisors, Stumbles(s) PROVE Typed'
  <2>1. RowTypes' BY <1>56 DEF RowTypes, Stumbles, rows, git
  <2>2. ReadyTypes' BY <1>56 DEF ReadyTypes, Stumbles, rows, git
  <2>3. RunTypes' BY <1>56 DEF RunTypes, Stumbles, rows, git
  <2>4. GitTypes' BY <1>56 DEF GitTypes, Stumbles, rows, git
  <2>5. LocalTypes' BY <1>56 DEF LocalTypes, Stumbles, rows, git
  <2>6. CountTypes'
    BY <1>56, RunAssumption
    DEF CountTypes, Stumbles, rows, git, Mishap
  <2>7. Scripted' BY <1>56, StumblesGoes DEF Goes
  <2>. QED BY <2>1, <2>2, <2>3, <2>4, <2>5, <2>6, <2>7
<1>57. ASSUME NEW s \in Supervisors, RecordsError(s) PROVE Typed'
  <2>1. RowTypes' BY <1>57 DEF RowTypes, RecordsError, rows, git
  <2>2. ReadyTypes' BY <1>57 DEF ReadyTypes, RecordsError, rows, git
  <2>3. RunTypes'
    <3>. DEFINE more == run.errors + 1
    <3>0. run \in Runs /\ run.errors \in Nat /\ (run.status = "running" => more \in 0..MaxErrors)
      BY RunAssumption DEF RunTypes, Runs
    <3>1. \/ UNCHANGED run
          \/ /\ run.status = "running" /\ more < MaxErrors
             /\ run' = [run EXCEPT !.errors = more, !.waits = TRUE]
          \/ /\ run.status = "running"
             /\ run' = [run EXCEPT !.status = "blocked", !.errors = more, !.waits = FALSE]
      BY <1>57 DEF RecordsError
    <3>2. CASE UNCHANGED run BY <3>2 DEF RunTypes
    <3>3. CASE /\ run.status = "running" /\ more < MaxErrors
               /\ run' = [run EXCEPT !.errors = more, !.waits = TRUE]
      <4>1. run' \in Runs BY <3>0, <3>3, RunShapes
      <4>2. run'.errors = more BY <3>0, <3>3 DEF Runs
      <4>. QED BY <3>3, <4>1, <4>2 DEF RunTypes
    <3>4. CASE /\ run.status = "running"
               /\ run' = [run EXCEPT !.status = "blocked", !.errors = more, !.waits = FALSE]
      <4>1. "blocked" \in RunStatuses BY DEF RunStatuses
      <4>2. run' \in Runs BY <3>0, <3>4, <4>1, RunShapes
      <4>3. run'.status = "blocked" BY <3>0, <3>4 DEF Runs
      <4>. QED BY <4>2, <4>3 DEF RunTypes
    <3>. QED BY <3>1, <3>2, <3>3, <3>4
  <2>4. GitTypes' BY <1>57 DEF GitTypes, RecordsError, rows, git
  <2>5. LocalTypes'
    BY <1>57, Names, FreshLocal
    DEF LocalTypes, RecordsError, rows, git
  <2>6. CountTypes' BY <1>57 DEF CountTypes, RecordsError, rows, git
  <2>7. Scripted' BY <1>57, RecordsErrorGoes DEF Goes
  <2>. QED BY <2>1, <2>2, <2>3, <2>4, <2>5, <2>6, <2>7
<1>58. ASSUME NEW s \in Supervisors, Crashes(s) PROVE Typed'
  <2>1. RowTypes' BY <1>58 DEF RowTypes, Crashes, rows, git
  <2>2. ReadyTypes' BY <1>58 DEF ReadyTypes, Crashes, rows, git
  <2>3. RunTypes' BY <1>58 DEF RunTypes, Crashes, rows, git
  <2>4. GitTypes' BY <1>58 DEF GitTypes, Crashes, rows, git
  <2>5. LocalTypes'
    BY <1>58, Names, FreshLocal
    DEF LocalTypes, Crashes, rows, git, Mishap
  <2>6. CountTypes'
    BY <1>58, RunAssumption
    DEF CountTypes, Crashes, rows, git, Mishap
  <2>7. Scripted' BY <1>58, CrashesGoes DEF Goes
  <2>. QED BY <2>1, <2>2, <2>3, <2>4, <2>5, <2>6, <2>7
<1>. HIDE DEF Typed
<1>59. CASE Agents
  BY <1>59, <1>1, <1>2, <1>3, <1>4, <1>5, <1>6, <1>7, <1>8, <1>9, RunAssumption
      DEF Agents
<1>60. CASE Operator
  BY <1>60, <1>10, <1>11, <1>12, <1>13, <1>14, <1>15 DEF Operator
<1>61. ASSUME NEW s \in Supervisors, Supervises(s) PROVE Typed'
  BY <1>61, <1>17, <1>18, <1>20, <1>21, <1>22, <1>23, <1>24, <1>25, <1>26,
      <1>27, <1>29, <1>30, <1>31, <1>32, <1>33, <1>34, <1>35, <1>36, <1>37,
      <1>38, <1>39, <1>41, <1>42, <1>43, <1>44, <1>45, <1>46, <1>47, <1>48,
      <1>49, <1>50, <1>51, <1>52, <1>53, <1>54, <1>55, <1>57 DEF Supervises
<1>. QED BY <1>59, <1>60, <1>61, <1>16, <1>19, <1>28, <1>40, <1>56, <1>58 DEF
    Next

-----------------------------------------------------------------------------
\* What every step does to the readiness of a role and attempt.
ReadyMoves ==
  \/ UNCHANGED ready
  \/ \E r \in Roles, o \in Outcomes, c \in Commits : Notes(r, o, c)
  \/ \E R \in SUBSET Roles, c \in Cycles : Takes(R, c)

\* Every step notes a signal, takes some, or leaves them.
LEMMA ReadyStep ==
  ASSUME Typed, InHand, Next
  PROVE  ReadyMoves
<1>0. /\ ReadyTypes /\ RunTypes /\ RowTypes /\ GitTypes /\ LocalTypes
      /\ {"done", "approved", "changes-requested", "blocked"} = Outcomes
  BY DEF Typed, Outcomes
<1>1. ASSUME WorkerCommits PROVE ReadyMoves
  BY <1>1 DEF WorkerCommits, ReadyMoves
<1>2. ASSUME ManagerCommits PROVE ReadyMoves
  BY <1>2 DEF ManagerCommits, ReadyMoves
<1>3. ASSUME ManagerReports PROVE ReadyMoves
  <2>1. "done" \in Outcomes /\ Manager \in Roles /\ 0 \in Commits
    BY Names DEF Outcomes
  <2>. QED BY <1>0, <1>3, <2>1, RecordedReady DEF ManagerReports, ReadyMoves
<1>4. ASSUME NEW r \in Reviewers, ReviewerReports(r) PROVE ReadyMoves
  <2>1. /\ {"approved", "changes-requested"} \subseteq Outcomes
        /\ r \in Roles /\ start[r] \in Commits
    BY <1>0, <1>4, Names DEF Outcomes, RowTypes
  <2>. QED BY <1>0, <1>4, <2>1, RecordedReady DEF ReviewerReports, ReadyMoves
<1>5. ASSUME NEW r \in Roles, Blocks(r) PROVE ReadyMoves
  <2>1. "blocked" \in Outcomes /\ start[r] \in Commits
    BY <1>0, <1>5 DEF Outcomes, RowTypes
  <2>. QED BY <1>0, <1>5, <2>1, RecordedReady DEF Blocks, ReadyMoves
<1>6. ASSUME WorkerVerifies PROVE ReadyMoves
  BY <1>6 DEF WorkerVerifies, ReadyMoves
<1>7. ASSUME WorkerReports PROVE ReadyMoves
  <2>1. "done" \in Outcomes /\ Worker \in Roles /\ draft \in Commits
    BY <1>0, <1>7, Names DEF Outcomes, WorkerReports, GitTypes
  <2>2. UNCHANGED ready \/ ready' = Recorded(Worker, "done", draft)
    BY <1>7 DEF WorkerReports
  <2>. QED BY <1>0, <2>1, <2>2, RecordedReady DEF ReadyMoves
<1>8. ASSUME NEW r \in Roles, ReportsResult(r) PROVE ReadyMoves
  BY <1>8 DEF ReportsResult, ReadyMoves
<1>9. ASSUME NEW r \in Roles, AgentDies(r) PROVE ReadyMoves
  BY <1>9 DEF AgentDies, ReadyMoves
<1>10. ASSUME NEW r \in Roles, OperatorCancels(r) PROVE ReadyMoves
  BY <1>10 DEF OperatorCancels, ReadyMoves
<1>11. ASSUME NEW r \in Roles, CleansStart(r) PROVE ReadyMoves
  BY <1>11 DEF CleansStart, ReadyMoves
<1>12. ASSUME NEW r \in Roles, OperatorResumes(r) PROVE ReadyMoves
  BY <1>12 DEF OperatorResumes, ReadyMoves
<1>13. ASSUME NEW s \in Coordinators, Attaches(s) PROVE ReadyMoves
  BY <1>13 DEF Attaches, ReadyMoves
<1>14. ASSUME NEW s \in Coordinators, Retries(s) PROVE ReadyMoves
  BY <1>14 DEF Retries, ReadyMoves
<1>15. ASSUME NEW s \in Manual, StartsByHand(s) PROVE ReadyMoves
  BY <1>15 DEF StartsByHand, ReadyMoves
<1>16. ASSUME TimePasses PROVE ReadyMoves
  BY <1>16 DEF TimePasses, ReadyMoves
<1>17. ASSUME NEW s \in Supervisors, Closes(s) PROVE ReadyMoves
  BY <1>17 DEF Closes, ReadyMoves
<1>18. ASSUME NEW s \in Supervisors, Begins(s) PROVE ReadyMoves
  BY <1>18 DEF Begins, ReadyMoves
<1>19. ASSUME NEW s \in Supervisors, NEW r \in Roles, Overdue(s, r)
      PROVE ReadyMoves
  BY <1>19 DEF Overdue, ReadyMoves
<1>20. ASSUME NEW s \in Supervisors, NothingOverdue(s) PROVE ReadyMoves
  BY <1>20 DEF NothingOverdue, ReadyMoves
<1>21. ASSUME NEW s \in Supervisors, ReadsSignals(s) PROVE ReadyMoves
  BY <1>21 DEF ReadsSignals, ReadyMoves
<1>22. ASSUME NEW s \in Supervisors, HandsOff(s) PROVE ReadyMoves
  BY <1>22 DEF HandsOff, ReadyMoves
<1>23. ASSUME NEW s \in Supervisors, Finishes(s) PROVE ReadyMoves
  BY <1>23 DEF Finishes, ReadyMoves
<1>24. ASSUME NEW s \in Supervisors, Launches(s) PROVE ReadyMoves
  BY <1>24 DEF Launches, ReadyMoves
<1>25. ASSUME NEW s \in Supervisors, Asks(s) PROVE ReadyMoves
  BY <1>25 DEF Asks, ReadyMoves
<1>26. ASSUME NEW s \in Supervisors, BeginsStart(s) PROVE ReadyMoves
  BY <1>26 DEF BeginsStart, ReadyMoves
<1>27. ASSUME NEW s \in Supervisors, Creates(s) PROVE ReadyMoves
  BY <1>27 DEF Creates, ReadyMoves
<1>28. ASSUME NEW s \in Supervisors, CreateFails(s) PROVE ReadyMoves
  BY <1>28 DEF CreateFails, ReadyMoves
<1>29. ASSUME NEW s \in Supervisors, Consumes(s) PROVE ReadyMoves
  <2>1. {local[s].who} \in SUBSET Roles BY <1>29, ConsumesReady, Names
  <2>. QED BY <1>29, <2>1, ConsumesReady DEF ReadyMoves
<1>30. ASSUME NEW s \in Supervisors, Works(s) PROVE ReadyMoves
  BY <1>30 DEF Works, ReadyMoves
<1>31. ASSUME NEW s \in Supervisors, Reworks(s) PROVE ReadyMoves
  BY <1>31 DEF Reworks, ReadyMoves
<1>32. ASSUME NEW s \in Supervisors, Lists(s) PROVE ReadyMoves
  BY <1>32 DEF Lists, ReadyMoves
<1>33. ASSUME NEW s \in Supervisors, Collects(s) PROVE ReadyMoves
  BY <1>33 DEF Collects, ReadyMoves
<1>34. ASSUME NEW s \in Supervisors, Waits(s) PROVE ReadyMoves
  BY <1>34 DEF Waits, ReadyMoves
<1>35. ASSUME NEW s \in Supervisors, FindsDeadRole(s) PROVE ReadyMoves
  BY <1>35 DEF FindsDeadRole, ReadyMoves
<1>36. ASSUME NEW s \in Supervisors, Decides(s) PROVE ReadyMoves
  BY <1>36 DEF Decides, ReadyMoves
<1>37. ASSUME NEW s \in Supervisors, Harvests(s) PROVE ReadyMoves
  BY <1>37 DEF Harvests, ReadyMoves
<1>38. ASSUME NEW s \in Supervisors, ChecksDelivery(s) PROVE ReadyMoves
  BY <1>38 DEF ChecksDelivery, ReadyMoves
<1>39. ASSUME NEW s \in Supervisors, Pushes(s) PROVE ReadyMoves
  BY <1>39 DEF Pushes, ReadyMoves
<1>40. ASSUME NEW s \in Supervisors, DeliveryFails(s) PROVE ReadyMoves
  BY <1>40 DEF DeliveryFails, ReadyMoves
<1>41. ASSUME NEW s \in Supervisors, GivesUp(s) PROVE ReadyMoves
  BY <1>41 DEF GivesUp, ReadyMoves
<1>42. ASSUME NEW s \in Supervisors, Completes(s) PROVE ReadyMoves
  <2>1. local[s].open \in SUBSET Roles /\ local[s].cycle \in Cycles
    BY <1>0, Names DEF LocalTypes, Local
  <2>2. Finalized(s, "completed") BY <1>42 DEF Completes
  <2>. QED BY <2>1, <2>2, FinalizedReady DEF ReadyMoves
<1>43. ASSUME NEW s \in Supervisors, Exhausts(s) PROVE ReadyMoves
  <2>1. local[s].open \in SUBSET Roles /\ local[s].cycle \in Cycles
    BY <1>0, Names DEF LocalTypes, Local
  <2>2. Finalized(s, "blocked") BY <1>43 DEF Exhausts
  <2>. QED BY <2>1, <2>2, FinalizedReady DEF ReadyMoves
<1>44. ASSUME NEW s \in Supervisors, StopsReviewers(s) PROVE ReadyMoves
  BY <1>44 DEF StopsReviewers, ReadyMoves
<1>45. ASSUME NEW s \in Supervisors, ReadsHead(s) PROVE ReadyMoves
  BY <1>45 DEF ReadsHead, ReadyMoves
<1>46. ASSUME NEW s \in Supervisors, Prepares(s) PROVE ReadyMoves
  <2>1. Reviewers \in SUBSET Roles BY Names
  <2>2. CASE ~MayReopen(s) BY <1>46, <2>2 DEF Prepares, ReadyMoves
  <2>. QED BY <1>46, <2>1, <2>2, PreparesRows DEF ReadyMoves
<1>47. ASSUME NEW s \in Supervisors, Returns(s) PROVE ReadyMoves
  BY <1>47 DEF Returns, ReadyMoves
<1>48. ASSUME NEW s \in Supervisors, CancelsBlocked(s) PROVE ReadyMoves
  BY <1>48 DEF CancelsBlocked, ReadyMoves
<1>49. ASSUME NEW s \in Supervisors, Folds(s) PROVE ReadyMoves
  <2>1. {local[s].who} \in SUBSET Roles BY <1>49, FoldsRows
  <2>. QED BY <1>49, <2>1, FoldsRows DEF ReadyMoves
<1>50. ASSUME NEW s \in Supervisors, Reaps(s) PROVE ReadyMoves
  BY <1>50 DEF Reaps, ReadyMoves
<1>51. ASSUME NEW s \in Supervisors, SetsBlocked(s) PROVE ReadyMoves
  BY <1>51 DEF SetsBlocked, ReadyMoves
<1>52. ASSUME NEW s \in Supervisors, Salvages(s) PROVE ReadyMoves
  BY <1>52 DEF Salvages, ReadyMoves
<1>53. ASSUME NEW s \in Supervisors, CancelsOverdue(s) PROVE ReadyMoves
  BY <1>53 DEF CancelsOverdue, ReadyMoves
<1>54. ASSUME NEW s \in Supervisors, Releases(s) PROVE ReadyMoves
  BY <1>54 DEF Releases, ReadyMoves
<1>55. ASSUME NEW s \in Supervisors, Retires(s) PROVE ReadyMoves
  BY <1>55 DEF Retires, ReadyMoves
<1>56. ASSUME NEW s \in Supervisors, Stumbles(s) PROVE ReadyMoves
  BY <1>56 DEF Stumbles, ReadyMoves
<1>57. ASSUME NEW s \in Supervisors, RecordsError(s) PROVE ReadyMoves
  BY <1>57 DEF RecordsError, ReadyMoves
<1>58. ASSUME NEW s \in Supervisors, Crashes(s) PROVE ReadyMoves
  BY <1>58 DEF Crashes, ReadyMoves
<1>59. CASE Agents
  BY <1>59, <1>1, <1>2, <1>3, <1>4, <1>5, <1>6, <1>7, <1>8, <1>9, RunAssumption
      DEF Agents
<1>60. CASE Operator
  BY <1>60, <1>10, <1>11, <1>12, <1>13, <1>14, <1>15 DEF Operator
<1>61. ASSUME NEW s \in Supervisors, Supervises(s) PROVE ReadyMoves
  BY <1>61, <1>17, <1>18, <1>20, <1>21, <1>22, <1>23, <1>24, <1>25, <1>26,
      <1>27, <1>29, <1>30, <1>31, <1>32, <1>33, <1>34, <1>35, <1>36, <1>37,
      <1>38, <1>39, <1>41, <1>42, <1>43, <1>44, <1>45, <1>46, <1>47, <1>48,
      <1>49, <1>50, <1>51, <1>52, <1>53, <1>54, <1>55, <1>57 DEF Supervises
<1>. QED BY <1>59, <1>60, <1>61, <1>16, <1>19, <1>28, <1>40, <1>56, <1>58 DEF
    Next

\* A readiness that is there stays, with its outcome and its commit.
ReadyGrows ==
  \A r \in Roles, c \in Cycles : ready[r][c] # None =>
    /\ ready'[r][c] # None
    /\ ready'[r][c].outcome = ready[r][c].outcome
    /\ ready'[r][c].sha = ready[r][c].sha
    /\ ready[r][c].consumed => ready'[r][c].consumed

\* A signal, once noted, stays what it is, and stays taken.
LEMMA ReadyStays ==
  ASSUME ReadyMoves
  PROVE  ReadyGrows
<1>1. CASE UNCHANGED ready BY <1>1 DEF ReadyGrows
<1>2. ASSUME NEW r \in Roles, NEW o \in Outcomes, NEW c \in Commits, Notes(r, o, c)
      PROVE  ReadyGrows
  BY <1>2 DEF ReadyGrows, Notes
<1>3. ASSUME NEW R \in SUBSET Roles, NEW c \in Cycles, Takes(R, c)
      PROVE  ReadyGrows
  BY <1>3 DEF ReadyGrows, Takes
<1>. QED BY <1>1, <1>2, <1>3 DEF ReadyMoves

\* What an action of one supervisor is: nobody else moves or reads.
Alone(s) ==
  \A t \in Supervisors : t # s => at(t)' = at(t) /\ local'[t] = local[t]

\* A step of a supervisor is nobody else's.
LEMMA ActsAlone ==
  ASSUME Typed, NEW s \in Supervisors,
         \/ Supervises(s) /\ ~Closes(s)
         \/ CreateFails(s) \/ DeliveryFails(s) \/ Stumbles(s) \/ Crashes(s)
         \/ \E r \in Roles : Overdue(s, r)
  PROVE  Alone(s)
<1>0. Scripted /\ local \in [Supervisors -> Local] BY DEF Typed, LocalTypes
<1>1. ASSUME Begins(s) PROVE Alone(s)
  BY <1>0, <1>1, BeginsGoes DEF Alone, Goes, Begins
<1>2. ASSUME NEW r \in Roles, Overdue(s, r) PROVE Alone(s)
  BY <1>0, <1>2, OverdueGoes DEF Alone, Goes, Overdue
<1>3. ASSUME NothingOverdue(s) PROVE Alone(s)
  BY <1>0, <1>3, NothingOverdueGoes DEF Alone, Goes, NothingOverdue
<1>4. ASSUME ReadsSignals(s) PROVE Alone(s)
  BY <1>0, <1>4, ReadsSignalsGoes DEF Alone, Goes, ReadsSignals
<1>5. ASSUME HandsOff(s) PROVE Alone(s)
  BY <1>0, <1>5, HandsOffGoes DEF Alone, Goes, HandsOff
<1>6. ASSUME Finishes(s) PROVE Alone(s)
  BY <1>0, <1>6, FinishesGoes DEF Alone, Goes, Finishes
<1>7. ASSUME Launches(s) PROVE Alone(s)
  BY <1>0, <1>7, LaunchesGoes DEF Alone, Goes, Launches
<1>8. ASSUME Asks(s) PROVE Alone(s)
  BY <1>0, <1>8, AsksGoes DEF Alone, Goes, Asks
<1>9. ASSUME BeginsStart(s) PROVE Alone(s)
  BY <1>0, <1>9, BeginsStartGoes DEF Alone, Goes, BeginsStart
<1>10. ASSUME Creates(s) PROVE Alone(s)
  BY <1>0, <1>10, CreatesGoes DEF Alone, Goes, Creates
<1>11. ASSUME CreateFails(s) PROVE Alone(s)
  BY <1>0, <1>11, CreateFailsGoes DEF Alone, Goes, CreateFails
<1>12. ASSUME Consumes(s) PROVE Alone(s)
  BY <1>0, <1>12, ConsumesGoes DEF Alone, Goes, Consumes, Rests
<1>13. ASSUME Works(s) PROVE Alone(s)
  BY <1>0, <1>13, WorksGoes DEF Alone, Goes, Works
<1>14. ASSUME Reworks(s) PROVE Alone(s)
  BY <1>0, <1>14, ReworksGoes DEF Alone, Goes, Reworks
<1>15. ASSUME Lists(s) PROVE Alone(s)
  BY <1>0, <1>15, ListsGoes DEF Alone, Goes, Lists
<1>16. ASSUME Collects(s) PROVE Alone(s)
  BY <1>0, <1>16, CollectsGoes DEF Alone, Goes, Collects
<1>17. ASSUME Waits(s) PROVE Alone(s)
  BY <1>0, <1>17, WaitsGoes DEF Alone, Goes, Waits, Rests
<1>18. ASSUME FindsDeadRole(s) PROVE Alone(s)
  BY <1>0, <1>18, FindsDeadRoleGoes DEF Alone, Goes, FindsDeadRole
<1>19. ASSUME Decides(s) PROVE Alone(s)
  BY <1>0, <1>19, DecidesGoes DEF Alone, Goes, Decides
<1>20. ASSUME Harvests(s) PROVE Alone(s)
  BY <1>0, <1>20, HarvestsGoes DEF Alone, Goes, Harvests
<1>21. ASSUME ChecksDelivery(s) PROVE Alone(s)
  BY <1>0, <1>21, ChecksDeliveryGoes DEF Alone, Goes, ChecksDelivery
<1>22. ASSUME Pushes(s) PROVE Alone(s)
  BY <1>0, <1>22, PushesGoes DEF Alone, Goes, Pushes
<1>23. ASSUME DeliveryFails(s) PROVE Alone(s)
  BY <1>0, <1>23, DeliveryFailsGoes DEF Alone, Goes, DeliveryFails
<1>24. ASSUME GivesUp(s) PROVE Alone(s)
  BY <1>0, <1>24, GivesUpGoes DEF Alone, Goes, GivesUp
<1>25. ASSUME Completes(s) PROVE Alone(s)
  BY <1>0, <1>25, CompletesGoes DEF Alone, Goes, Completes, Finalized
<1>26. ASSUME Exhausts(s) PROVE Alone(s)
  BY <1>0, <1>26, ExhaustsGoes DEF Alone, Goes, Exhausts, Finalized
<1>27. ASSUME StopsReviewers(s) PROVE Alone(s)
  BY <1>0, <1>27, StopsReviewersGoes DEF Alone, Goes, StopsReviewers
<1>28. ASSUME ReadsHead(s) PROVE Alone(s)
  BY <1>0, <1>28, ReadsHeadGoes DEF Alone, Goes, ReadsHead
<1>29. ASSUME Prepares(s) PROVE Alone(s)
  BY <1>0, <1>29, PreparesGoes DEF Alone, Goes, Prepares
<1>30. ASSUME Returns(s) PROVE Alone(s)
  BY <1>0, <1>30, ReturnsGoes DEF Alone, Goes, Returns, Rests
<1>31. ASSUME CancelsBlocked(s) PROVE Alone(s)
  BY <1>0, <1>31, CancelsBlockedGoes DEF Alone, Goes, CancelsBlocked
<1>32. ASSUME Folds(s) PROVE Alone(s)
  BY <1>0, <1>32, FoldsGoes DEF Alone, Goes, Folds
<1>33. ASSUME Reaps(s) PROVE Alone(s)
  BY <1>0, <1>33, ReapsGoes DEF Alone, Goes, Reaps
<1>34. ASSUME SetsBlocked(s) PROVE Alone(s)
  BY <1>0, <1>34, SetsBlockedGoes DEF Alone, Goes, SetsBlocked
<1>35. ASSUME Salvages(s) PROVE Alone(s)
  BY <1>0, <1>35, SalvagesGoes DEF Alone, Goes, Salvages
<1>36. ASSUME CancelsOverdue(s) PROVE Alone(s)
  BY <1>0, <1>36, CancelsOverdueGoes DEF Alone, Goes, CancelsOverdue
<1>37. ASSUME Releases(s) PROVE Alone(s)
  BY <1>0, <1>37, ReleasesGoes DEF Alone, Goes, Releases
<1>38. ASSUME Retires(s) PROVE Alone(s)
  BY <1>0, <1>38, RetiresGoes DEF Alone, Goes, Retires
<1>39. ASSUME Stumbles(s) PROVE Alone(s)
  BY <1>0, <1>39, StumblesGoes DEF Alone, Goes, Stumbles
<1>40. ASSUME RecordsError(s) PROVE Alone(s)
  BY <1>0, <1>40, RecordsErrorGoes DEF Alone, Goes, RecordsError
<1>41. ASSUME Crashes(s) PROVE Alone(s)
  BY <1>0, <1>41, CrashesGoes DEF Alone, Goes, Crashes
<1>. QED BY <1>1, <1>2, <1>3, <1>4, <1>5, <1>6, <1>7, <1>8, <1>9, <1>10, <1>11,
    <1>12, <1>13, <1>14, <1>15, <1>16, <1>17, <1>18, <1>19, <1>20, <1>21, <1>22,
    <1>23, <1>24, <1>25, <1>26, <1>27, <1>28, <1>29, <1>30, <1>31, <1>32, <1>33,
    <1>34, <1>35, <1>36, <1>37, <1>38, <1>39, <1>40, <1>41 DEF Supervises

\* But two: a close ends the recorded coordinator too, and so does a retry.
LEMMA ClosesAlone ==
  ASSUME Typed, NEW s \in Supervisors, Closes(s)
  PROVE  \A t \in Supervisors :
           at(t)' = "none" \/ (at(t)' = at(t) /\ local'[t] = local[t])
BY ClosesGoes DEF Closes, Typed

LEMMA RetriesAlone ==
  ASSUME Typed, NEW s \in Supervisors, Retries(s)
  PROVE  \A t \in Supervisors :
           at(t)' \in {"none", "idle"} \/ (at(t)' = at(t) /\ local'[t] = local[t])
BY RetriesGoes DEF Retries, Typed

\* A supervisor that neither moves nor reads loses nothing it has in hand.
LEMMA KeptInHand ==
  ASSUME Typed, InHand, ReadyGrows, NEW t \in Supervisors,
         at(t)' = at(t), local'[t] = local[t]
  PROVE  InHandOf(t)'
<1>1. CASE at(t) \in Launching
  <2>1. /\ local[t].who \in {Manager, Worker}
        /\ ready[local[t].who][SignalOf(t)] # None
        /\ local[t].todo \subseteq Behind(local[t].who)
        /\ at(t) \in {"ask", "start", "create"} => local[t].child \in local[t].todo
    BY <1>1 DEF InHand, InHandOf
  <2>2. local[t].who \in Roles /\ SignalOf(t) \in Cycles
    BY <2>1, Names DEF SignalOf, Typed, LocalTypes, Local
  <2>3. ready'[local[t].who][SignalOf(t)] # None BY <2>1, <2>2 DEF ReadyGrows
  <2>. QED BY <2>1, <2>3 DEF InHandOf, SignalOf
<1>2. CASE at(t) \notin Launching BY <1>2 DEF InHandOf
<1>. QED BY <1>1, <1>2

\* Who is left alone has in hand what it had, signals only grow.
LEMMA AloneInHand ==
  ASSUME Typed, InHand, ReadyGrows, NEW s \in Supervisors, Alone(s), InHandOf(s)'
  PROVE  InHand'
BY KeptInHand DEF Alone, InHand

\* Every step keeps what is in hand.
LEMMA InHandStep ==
  ASSUME Typed, InHand, Next
  PROVE  InHand'
<1>0. ReadyGrows /\ Scripted BY ReadyStep, ReadyStays DEF Typed
<1>1. ASSUME WorkerCommits PROVE InHand'
  BY <1>0, <1>1, NobodyGoes, KeptInHand DEF WorkerCommits, InHand
<1>2. ASSUME ManagerCommits PROVE InHand'
  BY <1>0, <1>2, NobodyGoes, KeptInHand DEF ManagerCommits, InHand
<1>3. ASSUME ManagerReports PROVE InHand'
  BY <1>0, <1>3, NobodyGoes, KeptInHand DEF ManagerReports, InHand
<1>4. ASSUME NEW r \in Reviewers, ReviewerReports(r) PROVE InHand'
  BY <1>0, <1>4, NobodyGoes, KeptInHand DEF ReviewerReports, InHand
<1>5. ASSUME NEW r \in Roles, Blocks(r) PROVE InHand'
  BY <1>0, <1>5, NobodyGoes, KeptInHand DEF Blocks, InHand
<1>6. ASSUME WorkerVerifies PROVE InHand'
  BY <1>0, <1>6, NobodyGoes, KeptInHand DEF WorkerVerifies, InHand
<1>7. ASSUME WorkerReports PROVE InHand'
  BY <1>0, <1>7, NobodyGoes, KeptInHand DEF WorkerReports, InHand
<1>8. ASSUME NEW r \in Roles, ReportsResult(r) PROVE InHand'
  BY <1>0, <1>8, NobodyGoes, KeptInHand DEF ReportsResult, InHand
<1>9. ASSUME NEW r \in Roles, AgentDies(r) PROVE InHand'
  BY <1>0, <1>9, NobodyGoes, KeptInHand DEF AgentDies, InHand
<1>10. ASSUME NEW r \in Roles, OperatorCancels(r) PROVE InHand'
  BY <1>0, <1>10, NobodyGoes, KeptInHand DEF OperatorCancels, InHand
<1>11. ASSUME NEW r \in Roles, CleansStart(r) PROVE InHand'
  BY <1>0, <1>11, NobodyGoes, KeptInHand DEF CleansStart, InHand
<1>12. ASSUME NEW r \in Roles, OperatorResumes(r) PROVE InHand'
  BY <1>0, <1>12, NobodyGoes, KeptInHand DEF OperatorResumes, InHand
<1>13. ASSUME NEW s \in Coordinators, Attaches(s) PROVE InHand'
  <2>1. s \in Supervisors BY <1>13 DEF Supervisors
  <2>2. Goes(s, {"none"}, {"idle"}) /\ UNCHANGED local
    BY <1>0, <1>13, <2>1, AttachesGoes DEF Attaches, StartsByHand
  <2>3. Alone(s) BY <2>2 DEF Alone, Goes
  <2>4. InHandOf(s)' BY <2>2 DEF Goes, InHandOf, Launching
  <2>. QED BY <1>0, <2>1, <2>3, <2>4, AloneInHand
<1>14. ASSUME NEW s \in Coordinators, Retries(s) PROVE InHand'
  <2>1. s \in Supervisors BY DEF Supervisors
  <2>. QED BY <1>0, <1>14, <2>1, RetriesAlone, KeptInHand DEF InHand, InHandOf,
      Launching
<1>15. ASSUME NEW s \in Manual, StartsByHand(s) PROVE InHand'
  <2>1. s \in Supervisors BY <1>15 DEF Supervisors
  <2>2. Goes(s, {"none"}, {"idle"}) /\ UNCHANGED local
    BY <1>0, <1>15, <2>1, AttachesGoes DEF Attaches, StartsByHand
  <2>3. Alone(s) BY <2>2 DEF Alone, Goes
  <2>4. InHandOf(s)' BY <2>2 DEF Goes, InHandOf, Launching
  <2>. QED BY <1>0, <2>1, <2>3, <2>4, AloneInHand
<1>16. ASSUME TimePasses PROVE InHand'
  BY <1>0, <1>16, NobodyGoes, KeptInHand DEF TimePasses, InHand
<1>17. ASSUME NEW s \in Supervisors, Closes(s) PROVE InHand'
  BY <1>0, <1>17, ClosesAlone, KeptInHand DEF InHand, InHandOf, Launching
<1>18. ASSUME NEW s \in Supervisors, Begins(s) PROVE InHand'
  <2>1. Alone(s) BY <1>0, <1>18, BeginsGoes, ClosesGoes, ActsAlone DEF Supervises,
      Goes
  <2>2. InHandOf(s)' BY <1>0, <1>18, BeginsGoes DEF Goes, InHandOf, Launching
  <2>. QED BY <1>0, <2>1, <2>2, AloneInHand
<1>19. ASSUME NEW s \in Supervisors, NEW r \in Roles, Overdue(s, r) PROVE
    InHand'
  <2>1. Alone(s) BY <1>19, ActsAlone
  <2>2. InHandOf(s)' BY <1>0, <1>19, OverdueGoes DEF Goes, InHandOf, Launching
  <2>. QED BY <1>0, <2>1, <2>2, AloneInHand
<1>20. ASSUME NEW s \in Supervisors, NothingOverdue(s) PROVE InHand'
  <2>1. Alone(s) BY <1>0, <1>20, NothingOverdueGoes, ClosesGoes, ActsAlone DEF
      Supervises, Goes
  <2>2. InHandOf(s)'
    BY <1>0, <1>20, NothingOverdueGoes DEF Goes, InHandOf, Launching
  <2>. QED BY <1>0, <2>1, <2>2, AloneInHand
<1>21. ASSUME NEW s \in Supervisors, ReadsSignals(s) PROVE InHand'
  <2>1. Alone(s) BY <1>0, <1>21, ReadsSignalsGoes, ClosesGoes, ActsAlone DEF
      Supervises, Goes
  <2>2. InHandOf(s)'
    <3>1. CASE SomeBlocker
      <4>1. Then(s, <<"blocker", "fold", "salvage", "reap", "retire", "close">>)
        BY <1>21, <3>1 DEF ReadsSignals
      <4>2. at(s)' = "blocker" BY <1>0, <4>1, Written, GoesThen DEF Goes
      <4>. QED BY <4>2 DEF InHandOf, Launching
    <3>2. CASE ~SomeBlocker /\ Pending(Manager, 1)
      <4>1. /\ local' = [local EXCEPT ![s] = [Fresh EXCEPT !.who = Manager, !.todo = {Worker}]]
            /\ UNCHANGED ready
        BY <1>21, <3>2 DEF ReadsSignals
      <4>2. local'[s] = [Fresh EXCEPT !.who = Manager, !.todo = {Worker}]
        BY <4>1 DEF Typed, LocalTypes
      <4>3. local'[s].who = Manager /\ local'[s].todo = {Worker}
        BY <4>2 DEF Fresh
      <4>4. at(s)' \in {"blocker", "handoff", "launch", "work"}
        BY <1>0, <1>21, ReadsSignalsGoes DEF Goes
      <4>. QED BY <3>2, <4>1, <4>3, <4>4 DEF InHandOf, SignalOf, Behind, Pending
    <3>3. CASE ~SomeBlocker /\ ~Pending(Manager, 1)
      <4>1. Then(s, <<"work">>) BY <1>21, <3>3 DEF ReadsSignals
      <4>2. at(s)' = "work" BY <1>0, <4>1, Written, GoesThen DEF Goes
      <4>. QED BY <4>2 DEF InHandOf, Launching
    <3>. QED BY <3>1, <3>2, <3>3
  <2>. QED BY <1>0, <2>1, <2>2, AloneInHand
<1>22. ASSUME NEW s \in Supervisors, HandsOff(s) PROVE InHand'
  <2>1. Alone(s) BY <1>0, <1>22, HandsOffGoes, ClosesGoes, ActsAlone DEF
      Supervises, Goes
  <2>2. InHandOf(s)'
    <3>1. UNCHANGED <<local, ready>> BY <1>22 DEF HandsOff
    <3>2. at(s) \in Launching /\ (at(s)' \in {"ask", "start", "create"} => at(s) \in {"ask", "start"})
      BY <1>0, <1>22, HandsOffGoes DEF Goes, Launching
    <3>. QED BY <3>1, <3>2 DEF InHand, InHandOf, SignalOf
  <2>. QED BY <1>0, <2>1, <2>2, AloneInHand
<1>23. ASSUME NEW s \in Supervisors, Finishes(s) PROVE InHand'
  <2>1. Alone(s) BY <1>0, <1>23, FinishesGoes, ClosesGoes, ActsAlone DEF
      Supervises, Goes
  <2>2. InHandOf(s)'
    <3>1. UNCHANGED <<local, ready>> BY <1>23 DEF Finishes
    <3>2. at(s) \in Launching /\ (at(s)' \in {"ask", "start", "create"} => at(s) \in {"ask", "start"})
      BY <1>0, <1>23, FinishesGoes DEF Goes, Launching
    <3>. QED BY <3>1, <3>2 DEF InHand, InHandOf, SignalOf
  <2>. QED BY <1>0, <2>1, <2>2, AloneInHand
<1>24. ASSUME NEW s \in Supervisors, Launches(s) PROVE InHand'
  <2>1. Alone(s) BY <1>0, <1>24, LaunchesGoes, ClosesGoes, ActsAlone DEF
      Supervises, Goes
  <2>2. InHandOf(s)'
    <3>1. at(s) = "launch" BY <1>0, <1>24, LaunchesGoes DEF Goes
    <3>2. /\ local[s].who \in {Manager, Worker}
          /\ ready[local[s].who][SignalOf(s)] # None
          /\ local[s].todo \subseteq Behind(local[s].who)
          /\ local[s] \in Local /\ UNCHANGED ready
      BY <1>24, <3>1 DEF InHand, InHandOf, Launching, Typed, LocalTypes, Launches
    <3>3. \E c \in local[s].todo :
            \/ /\ local' = [local EXCEPT ![s] = [local[s] EXCEPT !.todo = local[s].todo \ {c}]]
               /\ UNCHANGED pc
            \/ local' = [local EXCEPT ![s] = [local[s] EXCEPT !.child = c]]
            \/ UNCHANGED local /\ Fails(s)
      BY <1>24 DEF Launches
    <3>4. \/ /\ local'[s].who = local[s].who /\ local'[s].cycle = local[s].cycle
             /\ local'[s].todo \subseteq local[s].todo /\ at(s)' = "launch"
          \/ /\ local'[s].who = local[s].who /\ local'[s].cycle = local[s].cycle
             /\ local'[s].todo = local[s].todo /\ local'[s].child \in local[s].todo
          \/ at(s)' = "block"
      BY <1>0, <3>1, <3>2, <3>3, NobodyGoes, GoesFails DEF Goes, Typed,
          LocalTypes, Local
    <3>. QED BY <3>2, <3>4 DEF InHandOf, SignalOf, Launching
  <2>. QED BY <1>0, <2>1, <2>2, AloneInHand
<1>25. ASSUME NEW s \in Supervisors, Asks(s) PROVE InHand'
  <2>1. Alone(s) BY <1>0, <1>25, AsksGoes, ClosesGoes, ActsAlone DEF Supervises,
      Goes
  <2>2. InHandOf(s)'
    <3>1. UNCHANGED <<local, ready>> BY <1>25 DEF Asks
    <3>2. at(s) \in Launching /\ (at(s)' \in {"ask", "start", "create"} => at(s) \in {"ask", "start"})
      BY <1>0, <1>25, AsksGoes DEF Goes, Launching
    <3>. QED BY <3>1, <3>2 DEF InHand, InHandOf, SignalOf
  <2>. QED BY <1>0, <2>1, <2>2, AloneInHand
<1>26. ASSUME NEW s \in Supervisors, BeginsStart(s) PROVE InHand'
  <2>1. Alone(s) BY <1>0, <1>26, BeginsStartGoes, ClosesGoes, ActsAlone DEF
      Supervises, Goes
  <2>2. InHandOf(s)'
    <3>1. UNCHANGED <<local, ready>> BY <1>26 DEF BeginsStart
    <3>2. at(s) \in Launching /\ (at(s)' \in {"ask", "start", "create"} => at(s) \in {"ask", "start"})
      BY <1>0, <1>26, BeginsStartGoes DEF Goes, Launching
    <3>. QED BY <3>1, <3>2 DEF InHand, InHandOf, SignalOf
  <2>. QED BY <1>0, <2>1, <2>2, AloneInHand
<1>27. ASSUME NEW s \in Supervisors, Creates(s) PROVE InHand'
  <2>1. Alone(s) BY <1>0, <1>27, CreatesGoes, ClosesGoes, ActsAlone DEF
      Supervises, Goes
  <2>2. InHandOf(s)'
    <3>1. at(s) = "create" /\ at(s)' \in {"launch", "block"}
      BY <1>0, <1>27, CreatesGoes DEF Goes
    <3>2. /\ local[s].who \in {Manager, Worker}
          /\ ready[local[s].who][SignalOf(s)] # None
          /\ local[s].todo \subseteq Behind(local[s].who)
          /\ local[s] \in Local /\ UNCHANGED ready
      BY <1>27, <3>1 DEF InHand, InHandOf, Launching, Typed, LocalTypes, Creates
    <3>3. \/ UNCHANGED local
          \/ local' = [local EXCEPT ![s] =
                 [local[s] EXCEPT !.todo = local[s].todo \ {local[s].child},
                                  !.child = Worker]]
      BY <1>27 DEF Creates
    <3>4. /\ local'[s].who = local[s].who /\ local'[s].cycle = local[s].cycle
          /\ local'[s].todo \subseteq local[s].todo
      <4>1. \/ local'[s] = local[s]
            \/ local'[s] = [local[s] EXCEPT !.todo = local[s].todo \ {local[s].child},
                                           !.child = Worker]
        BY <3>3 DEF Typed, LocalTypes
      <4>. QED BY <3>2, <4>1 DEF Local
    <3>. QED BY <3>1, <3>2, <3>4 DEF InHandOf, SignalOf, Launching
  <2>. QED BY <1>0, <2>1, <2>2, AloneInHand
<1>28. ASSUME NEW s \in Supervisors, CreateFails(s) PROVE InHand'
  <2>1. Alone(s) BY <1>28, ActsAlone
  <2>2. InHandOf(s)' BY <1>0, <1>28, CreateFailsGoes DEF Goes, InHandOf, Launching
  <2>. QED BY <1>0, <2>1, <2>2, AloneInHand
<1>29. ASSUME NEW s \in Supervisors, Consumes(s) PROVE InHand'
  <2>1. Alone(s) BY <1>0, <1>29, ConsumesGoes, ClosesGoes, ActsAlone DEF
      Supervises, Goes
  <2>2. InHandOf(s)' BY <1>0, <1>29, ConsumesGoes DEF Goes, InHandOf, Launching
  <2>. QED BY <1>0, <2>1, <2>2, AloneInHand
<1>30. ASSUME NEW s \in Supervisors, Works(s) PROVE InHand'
  <2>1. Alone(s) BY <1>0, <1>30, WorksGoes, ClosesGoes, ActsAlone DEF Supervises,
      Goes
  <2>2. InHandOf(s)'
    <3>1. CASE Pending(Worker, run.cycle)
      <4>1. /\ local' = [local EXCEPT ![s] = [Fresh EXCEPT !.cycle = run.cycle,
                                                !.who = Worker, !.todo = Reviewers]]
            /\ UNCHANGED ready
        BY <1>30, <3>1 DEF Works
      <4>2. local'[s] = [Fresh EXCEPT !.cycle = run.cycle, !.who = Worker,
                                      !.todo = Reviewers]
        BY <4>1 DEF Typed, LocalTypes
      <4>3. /\ local'[s].who = Worker /\ local'[s].todo = Reviewers
            /\ local'[s].cycle = run.cycle
        BY <4>2 DEF Fresh
      <4>4. at(s)' \in {"handoff", "launch", "list", "reopen"}
        BY <1>0, <1>30, WorksGoes DEF Goes
      <4>. QED BY <3>1, <4>1, <4>3, <4>4, Names DEF InHandOf, SignalOf, Behind,
          Pending
    <3>2. CASE ~Pending(Worker, run.cycle)
      <4>1. Then(s, <<"rework", "list">>) \/ Then(s, <<"list">>)
        BY <1>30, <3>2 DEF Works
      <4>2. at(s)' \in {"reopen", "list"}
        BY <1>0, <4>1, Written, GoesThen DEF Goes
      <4>. QED BY <4>2 DEF InHandOf, Launching
    <3>. QED BY <3>1, <3>2
  <2>. QED BY <1>0, <2>1, <2>2, AloneInHand
<1>31. ASSUME NEW s \in Supervisors, Reworks(s) PROVE InHand'
  <2>1. Alone(s) BY <1>0, <1>31, ReworksGoes, ClosesGoes, ActsAlone DEF
      Supervises, Goes
  <2>2. InHandOf(s)' BY <1>0, <1>31, ReworksGoes DEF Goes, InHandOf, Launching
  <2>. QED BY <1>0, <2>1, <2>2, AloneInHand
<1>32. ASSUME NEW s \in Supervisors, Lists(s) PROVE InHand'
  <2>1. Alone(s) BY <1>0, <1>32, ListsGoes, ClosesGoes, ActsAlone DEF Supervises,
      Goes
  <2>2. InHandOf(s)' BY <1>0, <1>32, ListsGoes DEF Goes, InHandOf, Launching
  <2>. QED BY <1>0, <2>1, <2>2, AloneInHand
<1>33. ASSUME NEW s \in Supervisors, Collects(s) PROVE InHand'
  <2>1. Alone(s) BY <1>0, <1>33, CollectsGoes, ClosesGoes, ActsAlone DEF
      Supervises, Goes
  <2>2. InHandOf(s)' BY <1>0, <1>33, CollectsGoes DEF Goes, InHandOf, Launching
  <2>. QED BY <1>0, <2>1, <2>2, AloneInHand
<1>34. ASSUME NEW s \in Supervisors, Waits(s) PROVE InHand'
  <2>1. Alone(s) BY <1>0, <1>34, WaitsGoes, ClosesGoes, ActsAlone DEF Supervises,
      Goes
  <2>2. InHandOf(s)' BY <1>0, <1>34, WaitsGoes DEF Goes, InHandOf, Launching
  <2>. QED BY <1>0, <2>1, <2>2, AloneInHand
<1>35. ASSUME NEW s \in Supervisors, FindsDeadRole(s) PROVE InHand'
  <2>1. Alone(s) BY <1>0, <1>35, FindsDeadRoleGoes, ClosesGoes, ActsAlone DEF
      Supervises, Goes
  <2>2. InHandOf(s)'
    BY <1>0, <1>35, FindsDeadRoleGoes DEF Goes, InHandOf, Launching
  <2>. QED BY <1>0, <2>1, <2>2, AloneInHand
<1>36. ASSUME NEW s \in Supervisors, Decides(s) PROVE InHand'
  <2>1. Alone(s) BY <1>0, <1>36, DecidesGoes, ClosesGoes, ActsAlone DEF
      Supervises, Goes
  <2>2. InHandOf(s)' BY <1>0, <1>36, DecidesGoes DEF Goes, InHandOf, Launching
  <2>. QED BY <1>0, <2>1, <2>2, AloneInHand
<1>37. ASSUME NEW s \in Supervisors, Harvests(s) PROVE InHand'
  <2>1. Alone(s) BY <1>0, <1>37, HarvestsGoes, ClosesGoes, ActsAlone DEF
      Supervises, Goes
  <2>2. InHandOf(s)' BY <1>0, <1>37, HarvestsGoes DEF Goes, InHandOf, Launching
  <2>. QED BY <1>0, <2>1, <2>2, AloneInHand
<1>38. ASSUME NEW s \in Supervisors, ChecksDelivery(s) PROVE InHand'
  <2>1. Alone(s) BY <1>0, <1>38, ChecksDeliveryGoes, ClosesGoes, ActsAlone DEF
      Supervises, Goes
  <2>2. InHandOf(s)'
    BY <1>0, <1>38, ChecksDeliveryGoes DEF Goes, InHandOf, Launching
  <2>. QED BY <1>0, <2>1, <2>2, AloneInHand
<1>39. ASSUME NEW s \in Supervisors, Pushes(s) PROVE InHand'
  <2>1. Alone(s) BY <1>0, <1>39, PushesGoes, ClosesGoes, ActsAlone DEF Supervises,
      Goes
  <2>2. InHandOf(s)' BY <1>0, <1>39, PushesGoes DEF Goes, InHandOf, Launching
  <2>. QED BY <1>0, <2>1, <2>2, AloneInHand
<1>40. ASSUME NEW s \in Supervisors, DeliveryFails(s) PROVE InHand'
  <2>1. Alone(s) BY <1>40, ActsAlone
  <2>2. InHandOf(s)'
    BY <1>0, <1>40, DeliveryFailsGoes DEF Goes, InHandOf, Launching
  <2>. QED BY <1>0, <2>1, <2>2, AloneInHand
<1>41. ASSUME NEW s \in Supervisors, GivesUp(s) PROVE InHand'
  <2>1. Alone(s) BY <1>0, <1>41, GivesUpGoes, ClosesGoes, ActsAlone DEF
      Supervises, Goes
  <2>2. InHandOf(s)' BY <1>0, <1>41, GivesUpGoes DEF Goes, InHandOf, Launching
  <2>. QED BY <1>0, <2>1, <2>2, AloneInHand
<1>42. ASSUME NEW s \in Supervisors, Completes(s) PROVE InHand'
  <2>1. Alone(s) BY <1>0, <1>42, CompletesGoes, ClosesGoes, ActsAlone DEF
      Supervises, Goes
  <2>2. InHandOf(s)' BY <1>0, <1>42, CompletesGoes DEF Goes, InHandOf, Launching
  <2>. QED BY <1>0, <2>1, <2>2, AloneInHand
<1>43. ASSUME NEW s \in Supervisors, Exhausts(s) PROVE InHand'
  <2>1. Alone(s) BY <1>0, <1>43, ExhaustsGoes, ClosesGoes, ActsAlone DEF
      Supervises, Goes
  <2>2. InHandOf(s)' BY <1>0, <1>43, ExhaustsGoes DEF Goes, InHandOf, Launching
  <2>. QED BY <1>0, <2>1, <2>2, AloneInHand
<1>44. ASSUME NEW s \in Supervisors, StopsReviewers(s) PROVE InHand'
  <2>1. Alone(s) BY <1>0, <1>44, StopsReviewersGoes, ClosesGoes, ActsAlone DEF
      Supervises, Goes
  <2>2. InHandOf(s)'
    BY <1>0, <1>44, StopsReviewersGoes DEF Goes, InHandOf, Launching
  <2>. QED BY <1>0, <2>1, <2>2, AloneInHand
<1>45. ASSUME NEW s \in Supervisors, ReadsHead(s) PROVE InHand'
  <2>1. Alone(s) BY <1>0, <1>45, ReadsHeadGoes, ClosesGoes, ActsAlone DEF
      Supervises, Goes
  <2>2. InHandOf(s)' BY <1>0, <1>45, ReadsHeadGoes DEF Goes, InHandOf, Launching
  <2>. QED BY <1>0, <2>1, <2>2, AloneInHand
<1>46. ASSUME NEW s \in Supervisors, Prepares(s) PROVE InHand'
  <2>1. Alone(s) BY <1>0, <1>46, PreparesGoes, ClosesGoes, ActsAlone DEF
      Supervises, Goes
  <2>2. InHandOf(s)' BY <1>0, <1>46, PreparesGoes DEF Goes, InHandOf, Launching
  <2>. QED BY <1>0, <2>1, <2>2, AloneInHand
<1>47. ASSUME NEW s \in Supervisors, Returns(s) PROVE InHand'
  <2>1. Alone(s) BY <1>0, <1>47, ReturnsGoes, ClosesGoes, ActsAlone DEF
      Supervises, Goes
  <2>2. InHandOf(s)' BY <1>0, <1>47, ReturnsGoes DEF Goes, InHandOf, Launching
  <2>. QED BY <1>0, <2>1, <2>2, AloneInHand
<1>48. ASSUME NEW s \in Supervisors, CancelsBlocked(s) PROVE InHand'
  <2>1. Alone(s) BY <1>0, <1>48, CancelsBlockedGoes, ClosesGoes, ActsAlone DEF
      Supervises, Goes
  <2>2. InHandOf(s)'
    BY <1>0, <1>48, CancelsBlockedGoes DEF Goes, InHandOf, Launching
  <2>. QED BY <1>0, <2>1, <2>2, AloneInHand
<1>49. ASSUME NEW s \in Supervisors, Folds(s) PROVE InHand'
  <2>1. Alone(s) BY <1>0, <1>49, FoldsGoes, ClosesGoes, ActsAlone DEF Supervises,
      Goes
  <2>2. InHandOf(s)' BY <1>0, <1>49, FoldsGoes DEF Goes, InHandOf, Launching
  <2>. QED BY <1>0, <2>1, <2>2, AloneInHand
<1>50. ASSUME NEW s \in Supervisors, Reaps(s) PROVE InHand'
  <2>1. Alone(s) BY <1>0, <1>50, ReapsGoes, ClosesGoes, ActsAlone DEF Supervises,
      Goes
  <2>2. InHandOf(s)' BY <1>0, <1>50, ReapsGoes DEF Goes, InHandOf, Launching
  <2>. QED BY <1>0, <2>1, <2>2, AloneInHand
<1>51. ASSUME NEW s \in Supervisors, SetsBlocked(s) PROVE InHand'
  <2>1. Alone(s) BY <1>0, <1>51, SetsBlockedGoes, ClosesGoes, ActsAlone DEF
      Supervises, Goes
  <2>2. InHandOf(s)' BY <1>0, <1>51, SetsBlockedGoes DEF Goes, InHandOf, Launching
  <2>. QED BY <1>0, <2>1, <2>2, AloneInHand
<1>52. ASSUME NEW s \in Supervisors, Salvages(s) PROVE InHand'
  <2>1. Alone(s) BY <1>0, <1>52, SalvagesGoes, ClosesGoes, ActsAlone DEF
      Supervises, Goes
  <2>2. InHandOf(s)' BY <1>0, <1>52, SalvagesGoes DEF Goes, InHandOf, Launching
  <2>. QED BY <1>0, <2>1, <2>2, AloneInHand
<1>53. ASSUME NEW s \in Supervisors, CancelsOverdue(s) PROVE InHand'
  <2>1. Alone(s) BY <1>0, <1>53, CancelsOverdueGoes, ClosesGoes, ActsAlone DEF
      Supervises, Goes
  <2>2. InHandOf(s)'
    BY <1>0, <1>53, CancelsOverdueGoes DEF Goes, InHandOf, Launching
  <2>. QED BY <1>0, <2>1, <2>2, AloneInHand
<1>54. ASSUME NEW s \in Supervisors, Releases(s) PROVE InHand'
  <2>1. Alone(s) BY <1>0, <1>54, ReleasesGoes, ClosesGoes, ActsAlone DEF
      Supervises, Goes
  <2>2. InHandOf(s)' BY <1>0, <1>54, ReleasesGoes DEF Goes, InHandOf, Launching
  <2>. QED BY <1>0, <2>1, <2>2, AloneInHand
<1>55. ASSUME NEW s \in Supervisors, Retires(s) PROVE InHand'
  <2>1. Alone(s) BY <1>0, <1>55, RetiresGoes, ClosesGoes, ActsAlone DEF
      Supervises, Goes
  <2>2. InHandOf(s)' BY <1>0, <1>55, RetiresGoes DEF Goes, InHandOf, Launching
  <2>. QED BY <1>0, <2>1, <2>2, AloneInHand
<1>56. ASSUME NEW s \in Supervisors, Stumbles(s) PROVE InHand'
  <2>1. Alone(s) BY <1>56, ActsAlone
  <2>2. InHandOf(s)' BY <1>0, <1>56, StumblesGoes DEF Goes, InHandOf, Launching
  <2>. QED BY <1>0, <2>1, <2>2, AloneInHand
<1>57. ASSUME NEW s \in Supervisors, RecordsError(s) PROVE InHand'
  <2>1. Alone(s) BY <1>0, <1>57, RecordsErrorGoes, ClosesGoes, ActsAlone DEF
      Supervises, Goes
  <2>2. InHandOf(s)'
    BY <1>0, <1>57, RecordsErrorGoes DEF Goes, InHandOf, Launching
  <2>. QED BY <1>0, <2>1, <2>2, AloneInHand
<1>58. ASSUME NEW s \in Supervisors, Crashes(s) PROVE InHand'
  <2>1. Alone(s) BY <1>58, ActsAlone
  <2>2. InHandOf(s)' BY <1>0, <1>58, CrashesGoes DEF Goes, InHandOf, Launching
  <2>. QED BY <1>0, <2>1, <2>2, AloneInHand
<1>59. CASE Agents
  BY <1>59, <1>1, <1>2, <1>3, <1>4, <1>5, <1>6, <1>7, <1>8, <1>9, RunAssumption
      DEF Agents
<1>60. CASE Operator
  BY <1>60, <1>10, <1>11, <1>12, <1>13, <1>14, <1>15 DEF Operator
<1>61. ASSUME NEW s \in Supervisors, Supervises(s) PROVE InHand'
  BY <1>61, <1>17, <1>18, <1>20, <1>21, <1>22, <1>23, <1>24, <1>25, <1>26,
      <1>27, <1>29, <1>30, <1>31, <1>32, <1>33, <1>34, <1>35, <1>36, <1>37,
      <1>38, <1>39, <1>41, <1>42, <1>43, <1>44, <1>45, <1>46, <1>47, <1>48,
      <1>49, <1>50, <1>51, <1>52, <1>53, <1>54, <1>55, <1>57 DEF Supervises
<1>. QED BY <1>59, <1>60, <1>61, <1>16, <1>19, <1>28, <1>40, <1>56, <1>58 DEF
    Next

-----------------------------------------------------------------------------
\* At the start, and as long as nothing happens.
LEMMA TypedInit ==
  ASSUME Init
  PROVE  Typed /\ InHand
<1>1. /\ Script(<<"idle">>, "idle") /\ Script(<<>>, "none") BY Written
<1>2. Scripted BY <1>1 DEF Init, Scripted, Script
<1>3. \A s \in Supervisors : at(s) \in {"idle", "none"}
  BY <1>1 DEF Init, at, Script
<1>4. InHand BY <1>3 DEF InHand, InHandOf, Launching
<1>5. LocalTypes BY FreshLocal DEF LocalTypes, Init
<1>6. RowTypes BY Names DEF RowTypes, Init, Statuses
<1>7. ReadyTypes /\ GitTypes /\ CountTypes
  BY Names, RunAssumption DEF ReadyTypes, GitTypes, CountTypes, Init, Commits
<1>8. RunTypes
  <2>1. 0 \in 0..MaxErrors /\ 0 < MaxErrors BY RunAssumption
  <2>2. run = [status |-> "running", cycle |-> 1, errors |-> 0,
               waits |-> FALSE, released |-> FALSE]
    BY DEF Init
  <2>3. "running" \in RunStatuses BY DEF RunStatuses
  <2>. QED BY <2>1, <2>2, <2>3, Names DEF RunTypes, Runs
<1>. QED BY <1>2, <1>4, <1>5, <1>6, <1>7, <1>8 DEF Typed

\* A stutter moves nothing.
LEMMA NothingMoves ==
  ASSUME UNCHANGED vars
  PROVE  /\ UNCHANGED <<status, agent, reconciled, handoff, start, silent>>
         /\ UNCHANGED <<ready, run, owner, head, tip, remote, draft, pc, local>>
         /\ UNCHANGED mishaps /\ \A s \in Supervisors : at(s)' = at(s)
BY DEF vars, rows, git, at

Life == Typed /\ InHand

\* Types and what is in hand are inductive together.
LEMMA LifeStep ==
  ASSUME Life, [Next]_vars
  PROVE  Life'
<1>1. CASE Next BY <1>1, TypedStep, InHandStep DEF Life
<1>2. CASE UNCHANGED vars
  <2>1. Typed'
    BY <1>2, NothingMoves
    DEF Life, Typed, RowTypes, ReadyTypes, RunTypes, GitTypes, LocalTypes,
        CountTypes, Scripted
  <2>2. InHand'
    BY <1>2, NothingMoves DEF Life, InHand, InHandOf, SignalOf
  <2>. QED BY <2>1, <2>2 DEF Life
<1>. QED BY <1>1, <1>2

\* Every variable keeps its type: what a supervisor has before it is always one
\* of the scripts of its iteration, what it has read has the type of its row,
\* and the errors of a run that runs are below the limit that blocks it.
THEOREM TypeCorrect == Spec => []TypeOK
<1>1. Init => Life BY TypedInit DEF Life
<1>2. Life /\ [Next]_vars => Life' BY LifeStep
<1>3. Life => TypeOK
  <2>. SUFFICES ASSUME Life PROVE TypeOK OBVIOUS
  <2>1. \A s \in Supervisors : \A i \in DOMAIN pc[s] : pc[s][i] \in Steps
    <3>. SUFFICES ASSUME NEW s \in Supervisors
          PROVE \A i \in DOMAIN pc[s] : pc[s][i] \in Steps
      OBVIOUS
    <3>1. pc[s] \in Scripts BY DEF Life, Typed, Scripted
    <3>. QED BY <3>1 DEF Scripts, LookingScripts, JudgingScripts, EndingScripts,
        Steps
  <2>2. \A s \in Supervisors : local[s].todo \union local[s].open \subseteq Children
    BY Names DEF Life, Typed, LocalTypes, Local
  <2>3. run \in [status : {"running", "completed", "blocked", "failed"},
                 cycle : Cycles, errors : 0..MaxErrors,
                 waits : BOOLEAN, released : BOOLEAN]
    BY DEF Life, Typed, RunTypes, Runs, RunStatuses
  <2>. QED
    BY <2>1, <2>2, <2>3
    DEF Life, TypeOK, Typed, RowTypes, ReadyTypes, GitTypes, CountTypes
<1>. QED BY <1>1, <1>2, <1>3, PTL DEF Spec

-----------------------------------------------------------------------------
\* What every step does to the rows: one step reopens worker and reviewers for
\* the next cycle.  By any other a role only goes on, a role that waits begins
\* with a supervisor that starts it, one completes with a supervisor that
\* finishes it, the start of a role stays once its agent is there, and a role
\* that is cancelled leaves nobody behind it waiting.
Begun == {"starting", "running", "completed"}
Onward(x) ==
  CASE x = "requested" -> {"requested", "starting", "cancelled"}
    [] x = "starting" -> {"starting", "running", "cancelled", "failed"}
    [] x = "running" -> {"running", "completed", "cancelled"}
    [] OTHER -> {x}
Reopens(s) == Prepares(s) /\ MayReopen(s)
Persists ==
  /\ run'.cycle = run.cycle
  /\ \A q \in Roles : status'[q] \in Onward(status[q])
  /\ \A q \in Roles : status[q] = "requested" /\ status'[q] \in Begun
       => \E s \in Supervisors : BeginsStart(s) /\ local[s].child = q
  /\ \A q \in Roles : status[q] # "completed" /\ status'[q] = "completed"
       => UNCHANGED run /\ \E s \in Supervisors : at(s) \in {"finish", "collect"}
  /\ \A q \in Roles : status[q] # "starting" => start'[q] = start[q]
  /\ \A r \in {Manager, Worker} :
       status'[r] = "cancelled" /\ status[r] # "cancelled"
         => \A q \in Behind(r) : status'[q] # "requested"

\* A role that ends takes along those behind it that wait.
LEMMA EndedPersists ==
  ASSUME Typed, NEW r \in Roles, NEW target \in {"cancelled", "failed"},
         status[r] \in {"requested", "starting", "running"},
         target = "failed" => status[r] = "starting",
         status' = Ended(r, target), UNCHANGED <<run, start>>
  PROVE  Persists
<1>1. \A q \in Roles : status'[q] = IF q = r THEN target
        ELSE IF q \in Successors(r) /\ status[q] = "requested" THEN "cancelled"
        ELSE status[q]
  BY DEF Ended
<1>2. /\ Successors(Manager) = Children /\ Successors(Worker) = Reviewers
      /\ \A q \in Reviewers : Successors(q) = Reviewers
  BY Names DEF Successors
<1>3. \A q \in {Manager, Worker} :
        status'[q] = "cancelled" /\ status[q] # "cancelled"
          => \A p \in Behind(q) : status'[p] # "requested"
  <2>1. CASE r = Manager
    <3>1. \A p \in Children : status'[p] # "requested"
      BY <1>1, <1>2, <2>1, Names
    <3>. QED BY <3>1, Names DEF Behind
  <2>2. CASE r = Worker
    <3>1. \A p \in Reviewers : status'[p] # "requested"
      BY <1>1, <1>2, <2>2, Names
    <3>2. status'[Manager] = status[Manager] BY <1>1, <1>2, <2>2, Names
    <3>. QED BY <3>1, <3>2, Names DEF Behind
  <2>3. CASE r \in Reviewers
    <3>1. status'[Manager] = status[Manager] /\ status'[Worker] = status[Worker]
      BY <1>1, <1>2, <2>3, Names
    <3>. QED BY <3>1
  <2>. QED BY <2>1, <2>2, <2>3 DEF Roles, Children
<1>. QED BY <1>1, <1>3 DEF Persists, Begun, Onward

\* One role goes on: from requested to starting to running to completed.
LEMMA OnePersists ==
  ASSUME Typed, NEW r \in Roles, NEW target \in {"starting", "running", "completed"},
         <<status[r], target>> \in {<<"requested", "starting">>,
           <<"starting", "running">>, <<"running", "completed">>},
         status' = [status EXCEPT ![r] = target], UNCHANGED run,
         status[r] = "requested"
           => \E s \in Supervisors : BeginsStart(s) /\ local[s].child = r,
         target = "completed"
           => \E s \in Supervisors : at(s) \in {"finish", "collect"},
         start' = start \/ (status[r] = "starting" /\ start' = [start EXCEPT ![r] = head])
  PROVE  Persists
BY DEF Persists, Typed, RowTypes, Begun, Onward

\* A step that leaves status and start alone.
LEMMA SamePersists ==
  ASSUME UNCHANGED <<status, start>>, run'.cycle = run.cycle
  PROVE  Persists
BY DEF Persists, Begun, Onward

\* Every step of the system reopens a cycle, or lets the roles go on.
LEMMA RowsStep ==
  ASSUME Life, Next
  PROVE  Persists \/ \E s \in Supervisors : Reopens(s)
<1>. DEFINE G == Persists \/ \E s \in Supervisors : Reopens(s)
<1>0. Typed /\ RowTypes /\ RunTypes /\ LocalTypes /\ run \in Runs
  BY DEF Life, Typed, RunTypes
<1>. SUFFICES G OBVIOUS
<1>1. ASSUME WorkerCommits PROVE G
  BY <1>1, SamePersists DEF WorkerCommits, rows
<1>2. ASSUME ManagerCommits PROVE G
  BY <1>2, SamePersists DEF ManagerCommits, rows
<1>3. ASSUME ManagerReports PROVE G
  BY <1>3, SamePersists DEF ManagerReports, rows
<1>4. ASSUME NEW r \in Reviewers, ReviewerReports(r) PROVE G
  BY <1>4, SamePersists DEF ReviewerReports, rows
<1>5. ASSUME NEW r \in Roles, Blocks(r) PROVE G
  BY <1>5, SamePersists DEF Blocks, rows
<1>6. ASSUME WorkerVerifies PROVE G
  BY <1>6, SamePersists DEF WorkerVerifies, rows
<1>7. ASSUME WorkerReports PROVE G
  BY <1>7, SamePersists DEF WorkerReports, rows
<1>8. ASSUME NEW r \in Roles, ReportsResult(r) PROVE G
  BY <1>8, SamePersists DEF ReportsResult, rows
<1>9. ASSUME NEW r \in Roles, AgentDies(r) PROVE G
  BY <1>9, SamePersists DEF AgentDies, rows
<1>10. ASSUME NEW r \in Roles, OperatorCancels(r) PROVE G
  BY <1>0, <1>10, EndedPersists DEF OperatorCancels
<1>11. ASSUME NEW r \in Roles, CleansStart(r) PROVE G
  BY <1>0, <1>11, EndedPersists DEF CleansStart, Abandoned
<1>12. ASSUME NEW r \in Roles, OperatorResumes(r) PROVE G
  BY <1>12, SamePersists DEF OperatorResumes, rows
<1>13. ASSUME NEW s \in Coordinators, Attaches(s) PROVE G
  BY <1>13, SamePersists DEF Attaches, rows
<1>14. ASSUME NEW s \in Coordinators, Retries(s) PROVE G
  <2>1. run'.cycle = run.cycle BY <1>0, <1>14 DEF Runs, Retries
  <2>. QED BY <1>14, <2>1, SamePersists DEF Retries, rows
<1>15. ASSUME NEW s \in Manual, StartsByHand(s) PROVE G
  BY <1>15, SamePersists DEF StartsByHand, rows
<1>16. ASSUME TimePasses PROVE G
  BY <1>0, <1>16, SamePersists DEF Runs, TimePasses, rows
<1>17. ASSUME NEW s \in Supervisors, Closes(s) PROVE G
  BY <1>0, <1>17, SamePersists DEF Runs, Closes, rows
<1>18. ASSUME NEW s \in Supervisors, Begins(s) PROVE G
  BY <1>18, SamePersists DEF Begins, rows
<1>19. ASSUME NEW s \in Supervisors, NEW r \in Roles, Overdue(s, r) PROVE G
  BY <1>19, SamePersists DEF Overdue, rows
<1>20. ASSUME NEW s \in Supervisors, NothingOverdue(s) PROVE G
  BY <1>20, SamePersists DEF NothingOverdue, rows
<1>21. ASSUME NEW s \in Supervisors, ReadsSignals(s) PROVE G
  BY <1>21, SamePersists DEF ReadsSignals, rows
<1>22. ASSUME NEW s \in Supervisors, HandsOff(s) PROVE G
  BY <1>22, SamePersists DEF HandsOff, rows
<1>23. ASSUME NEW s \in Supervisors, Finishes(s) PROVE G
  <2>1. local[s].who \in Roles BY <1>0 DEF LocalTypes, Local
  <2>2. at(s) = "finish" BY <1>0, <1>23, FinishesGoes DEF Goes, Typed
  <2>. QED BY <1>0, <1>23, <2>1, <2>2, OnePersists, SamePersists DEF Finishes
<1>24. ASSUME NEW s \in Supervisors, Launches(s) PROVE G
  BY <1>24, SamePersists DEF Launches, rows
<1>25. ASSUME NEW s \in Supervisors, Asks(s) PROVE G
  BY <1>25, SamePersists DEF Asks, rows
<1>26. ASSUME NEW s \in Supervisors, BeginsStart(s) PROVE G
  <2>1. local[s].child \in Roles BY <1>0, Names DEF LocalTypes, Local
  <2>. QED BY <1>0, <1>26, <2>1, OnePersists, SamePersists DEF BeginsStart
<1>27. ASSUME NEW s \in Supervisors, Creates(s) PROVE G
  <2>1. local[s].child \in Roles BY <1>0, Names DEF LocalTypes, Local
  <2>. QED BY <1>0, <1>27, <2>1, OnePersists, SamePersists DEF Creates
<1>28. ASSUME NEW s \in Supervisors, CreateFails(s) PROVE G
  <2>1. local[s].child \in Roles BY <1>0, Names DEF LocalTypes, Local
  <2>. QED BY <1>0, <1>28, <2>1, EndedPersists DEF CreateFails
<1>29. ASSUME NEW s \in Supervisors, Consumes(s) PROVE G
  <2>1. run' = Cleared /\ UNCHANGED <<status, start>>
    BY <1>29 DEF Consumes, Rests, rows
  <2>. QED BY <1>0, <2>1, ClearedRun, SamePersists
<1>30. ASSUME NEW s \in Supervisors, Works(s) PROVE G
  BY <1>30, SamePersists DEF Works, rows
<1>31. ASSUME NEW s \in Supervisors, Reworks(s) PROVE G
  BY <1>31, SamePersists DEF Reworks, rows
<1>32. ASSUME NEW s \in Supervisors, Lists(s) PROVE G
  BY <1>32, SamePersists DEF Lists, rows
<1>33. ASSUME NEW s \in Supervisors, Collects(s) PROVE G
  <2>1. local[s].todo \subseteq Roles BY <1>0, Names DEF LocalTypes, Local
  <2>2. at(s) = "collect" BY <1>0, <1>33, CollectsGoes DEF Goes, Typed
  <2>. QED BY <1>0, <1>33, <2>1, <2>2, OnePersists, SamePersists DEF Collects
<1>34. ASSUME NEW s \in Supervisors, Waits(s) PROVE G
  <2>1. run' = Cleared /\ UNCHANGED <<status, start>>
    BY <1>34 DEF Waits, Rests, rows
  <2>. QED BY <1>0, <2>1, ClearedRun, SamePersists
<1>35. ASSUME NEW s \in Supervisors, FindsDeadRole(s) PROVE G
  BY <1>0, <1>35, SamePersists DEF Runs, FindsDeadRole, rows
<1>36. ASSUME NEW s \in Supervisors, Decides(s) PROVE G
  BY <1>36, SamePersists DEF Decides, rows
<1>37. ASSUME NEW s \in Supervisors, Harvests(s) PROVE G
  BY <1>37, SamePersists DEF Harvests, rows
<1>38. ASSUME NEW s \in Supervisors, ChecksDelivery(s) PROVE G
  BY <1>38, SamePersists DEF ChecksDelivery, rows
<1>39. ASSUME NEW s \in Supervisors, Pushes(s) PROVE G
  BY <1>39, SamePersists DEF Pushes, rows
<1>40. ASSUME NEW s \in Supervisors, DeliveryFails(s) PROVE G
  BY <1>40, SamePersists DEF DeliveryFails, rows
<1>41. ASSUME NEW s \in Supervisors, GivesUp(s) PROVE G
  BY <1>0, <1>41, SamePersists DEF Runs, GivesUp, rows
<1>42. ASSUME NEW s \in Supervisors, Completes(s) PROVE G
  <2>1. Finalized(s, "completed") /\ UNCHANGED <<status, start>>
    BY <1>42 DEF Completes, rows
  <2>. QED BY <1>0, <2>1, FinalizedReady, SamePersists
<1>43. ASSUME NEW s \in Supervisors, Exhausts(s) PROVE G
  <2>1. Finalized(s, "blocked") /\ UNCHANGED <<status, start>>
    BY <1>43 DEF Exhausts, rows
  <2>. QED BY <1>0, <2>1, FinalizedReady, SamePersists
<1>44. ASSUME NEW s \in Supervisors, StopsReviewers(s) PROVE G
  BY <1>44, SamePersists DEF StopsReviewers, rows
<1>45. ASSUME NEW s \in Supervisors, ReadsHead(s) PROVE G
  BY <1>45, SamePersists DEF ReadsHead, rows
<1>46. ASSUME NEW s \in Supervisors, Prepares(s) PROVE G
  <2>1. CASE MayReopen(s) BY <1>46, <2>1 DEF Reopens
  <2>2. CASE ~MayReopen(s) BY <1>46, <2>2, SamePersists DEF Prepares
  <2>. QED BY <2>1, <2>2
<1>47. ASSUME NEW s \in Supervisors, Returns(s) PROVE G
  <2>1. run' = Cleared /\ UNCHANGED <<status, start>>
    BY <1>47 DEF Returns, Rests, rows
  <2>. QED BY <1>0, <2>1, ClearedRun, SamePersists
<1>48. ASSUME NEW s \in Supervisors, CancelsBlocked(s) PROVE G
  <2>1. local[s].who \in Roles BY <1>0 DEF LocalTypes, Local
  <2>. QED BY <1>0, <1>48, <2>1, EndedPersists, SamePersists DEF CancelsBlocked
<1>49. ASSUME NEW s \in Supervisors, Folds(s) PROVE G
  <2>1. UNCHANGED <<status, start>> BY <1>49 DEF Folds, rows
  <2>. QED BY <1>0, <1>49, <2>1, FoldsRows, SamePersists
<1>50. ASSUME NEW s \in Supervisors, Reaps(s) PROVE G
  BY <1>50, SamePersists DEF Reaps, rows
<1>51. ASSUME NEW s \in Supervisors, SetsBlocked(s) PROVE G
  BY <1>0, <1>51, SamePersists DEF Runs, SetsBlocked, rows
<1>52. ASSUME NEW s \in Supervisors, Salvages(s) PROVE G
  BY <1>52, SamePersists DEF Salvages, rows
<1>53. ASSUME NEW s \in Supervisors, CancelsOverdue(s) PROVE G
  <2>1. local[s].who \in Roles BY <1>0 DEF LocalTypes, Local
  <2>. QED BY <1>0, <1>53, <2>1, EndedPersists, SamePersists DEF CancelsOverdue
<1>54. ASSUME NEW s \in Supervisors, Releases(s) PROVE G
  BY <1>0, <1>54, SamePersists DEF Runs, Releases, rows
<1>55. ASSUME NEW s \in Supervisors, Retires(s) PROVE G
  BY <1>55, SamePersists DEF Retires, rows
<1>56. ASSUME NEW s \in Supervisors, Stumbles(s) PROVE G
  BY <1>56, SamePersists DEF Stumbles, rows
<1>57. ASSUME NEW s \in Supervisors, RecordsError(s) PROVE G
  <2>1. run'.cycle = run.cycle BY <1>0, <1>57 DEF Runs, RecordsError
  <2>. QED BY <1>57, <2>1, SamePersists DEF RecordsError, rows
<1>58. ASSUME NEW s \in Supervisors, Crashes(s) PROVE G
  BY <1>58, SamePersists DEF Crashes, rows
<1>. HIDE DEF G
<1>59. CASE Agents
  BY <1>59, <1>1, <1>2, <1>3, <1>4, <1>5, <1>6, <1>7, <1>8, <1>9, RunAssumption
      DEF Agents
<1>60. CASE Operator
  BY <1>60, <1>10, <1>11, <1>12, <1>13, <1>14, <1>15 DEF Operator
<1>61. ASSUME NEW s \in Supervisors, Supervises(s) PROVE G
  BY <1>61, <1>17, <1>18, <1>20, <1>21, <1>22, <1>23, <1>24, <1>25, <1>26,
      <1>27, <1>29, <1>30, <1>31, <1>32, <1>33, <1>34, <1>35, <1>36, <1>37,
      <1>38, <1>39, <1>41, <1>42, <1>43, <1>44, <1>45, <1>46, <1>47, <1>48,
      <1>49, <1>50, <1>51, <1>52, <1>53, <1>54, <1>55, <1>57 DEF Supervises
<1>. QED BY <1>59, <1>60, <1>61, <1>16, <1>19, <1>28, <1>40, <1>56, <1>58 DEF
    Next

\* What a supervisor has read of cycles is of this one or of an earlier one.
LEMMA LocalCycle ==
  ASSUME Life, Next
  PROVE  \A t \in Supervisors : local'[t].cycle \in {local[t].cycle, 1, run.cycle}
<1>. DEFINE G == \A t \in Supervisors : local'[t].cycle \in {local[t].cycle, 1, run.cycle}
<1>0. local \in [Supervisors -> Local] /\ Scripted BY DEF Life, Typed, LocalTypes
<1>. SUFFICES G OBVIOUS
<1>a. ASSUME NEW s \in Supervisors, local'[s].cycle \in {local[s].cycle, 1, run.cycle},
             \A t \in Supervisors : t # s => local'[t] = local[t]
      PROVE  G
  BY <1>0, <1>a
<1>b. ASSUME UNCHANGED local PROVE G BY <1>b
<1>. HIDE DEF G
<1>1. ASSUME WorkerCommits PROVE G
  BY <1>1, <1>b DEF WorkerCommits
<1>2. ASSUME ManagerCommits PROVE G
  BY <1>2, <1>b DEF ManagerCommits
<1>3. ASSUME ManagerReports PROVE G
  BY <1>3, <1>b DEF ManagerReports
<1>4. ASSUME NEW r \in Reviewers, ReviewerReports(r) PROVE G
  BY <1>4, <1>b DEF ReviewerReports
<1>5. ASSUME NEW r \in Roles, Blocks(r) PROVE G
  BY <1>5, <1>b DEF Blocks
<1>6. ASSUME WorkerVerifies PROVE G
  BY <1>6, <1>b DEF WorkerVerifies
<1>7. ASSUME WorkerReports PROVE G
  BY <1>7, <1>b DEF WorkerReports
<1>8. ASSUME NEW r \in Roles, ReportsResult(r) PROVE G
  BY <1>8, <1>b DEF ReportsResult
<1>9. ASSUME NEW r \in Roles, AgentDies(r) PROVE G
  BY <1>9, <1>b DEF AgentDies
<1>10. ASSUME NEW r \in Roles, OperatorCancels(r) PROVE G
  BY <1>10, <1>b DEF OperatorCancels
<1>11. ASSUME NEW r \in Roles, CleansStart(r) PROVE G
  BY <1>11, <1>b DEF CleansStart
<1>12. ASSUME NEW r \in Roles, OperatorResumes(r) PROVE G
  BY <1>12, <1>b DEF OperatorResumes
<1>13. ASSUME NEW s \in Coordinators, Attaches(s) PROVE G
  BY <1>13, <1>b DEF Attaches
<1>14. ASSUME NEW s \in Coordinators, Retries(s) PROVE G
  BY <1>14, <1>b DEF Retries
<1>15. ASSUME NEW s \in Manual, StartsByHand(s) PROVE G
  BY <1>15, <1>b DEF StartsByHand
<1>16. ASSUME TimePasses PROVE G
  BY <1>16, <1>b DEF TimePasses
<1>17. ASSUME NEW s \in Supervisors, Closes(s) PROVE G
  <2>1. Fresh.cycle = 1 BY DEF Fresh
  <2>2. \A t \in Supervisors : local'[t] = Fresh \/ local'[t] = local[t]
    BY <1>17 DEF Closes
  <2>. QED BY <2>1, <2>2 DEF G
<1>18. ASSUME NEW s \in Supervisors, Begins(s) PROVE G
  <2>1. [Fresh EXCEPT !.manager = status[Manager]].cycle = 1 BY DEF Fresh
  <2>2. local'[s].cycle \in {local[s].cycle, 1, run.cycle}
    BY <1>0, <1>18, <2>1 DEF Begins
  <2>3. \A t \in Supervisors : t # s => local'[t] = local[t]
    BY <1>0, <1>18 DEF Begins
  <2>. QED BY <1>a, <2>2, <2>3
<1>19. ASSUME NEW s \in Supervisors, NEW r \in Roles, Overdue(s, r) PROVE G
  <2>1. [Fresh EXCEPT !.who = r].cycle = 1 BY DEF Fresh
  <2>2. local'[s].cycle \in {local[s].cycle, 1, run.cycle}
    BY <1>0, <1>19, <2>1 DEF Overdue
  <2>3. \A t \in Supervisors : t # s => local'[t] = local[t]
    BY <1>0, <1>19 DEF Overdue
  <2>. QED BY <1>a, <2>2, <2>3
<1>20. ASSUME NEW s \in Supervisors, NothingOverdue(s) PROVE G
  BY <1>20, <1>b DEF NothingOverdue
<1>21. ASSUME NEW s \in Supervisors, ReadsSignals(s) PROVE G
  <2>1. /\ \A r : [Fresh EXCEPT !.who = r].cycle = 1
        /\ [Fresh EXCEPT !.who = Manager, !.todo = {Worker}].cycle = 1
        /\ Fresh.cycle = 1
    BY DEF Fresh
  <2>2. local'[s].cycle \in {local[s].cycle, 1, run.cycle}
    BY <1>0, <1>21, <2>1 DEF ReadsSignals
  <2>3. \A t \in Supervisors : t # s => local'[t] = local[t]
    BY <1>0, <1>21 DEF ReadsSignals
  <2>. QED BY <1>a, <2>2, <2>3
<1>22. ASSUME NEW s \in Supervisors, HandsOff(s) PROVE G
  BY <1>22, <1>b DEF HandsOff
<1>23. ASSUME NEW s \in Supervisors, Finishes(s) PROVE G
  BY <1>23, <1>b DEF Finishes
<1>24. ASSUME NEW s \in Supervisors, Launches(s) PROVE G
  <2>1. \A t \in Supervisors : local'[t].cycle = local[t].cycle
    BY <1>0, <1>24 DEF Launches, Local
  <2>. QED BY <2>1 DEF G
<1>25. ASSUME NEW s \in Supervisors, Asks(s) PROVE G
  BY <1>25, <1>b DEF Asks
<1>26. ASSUME NEW s \in Supervisors, BeginsStart(s) PROVE G
  BY <1>26, <1>b DEF BeginsStart
<1>27. ASSUME NEW s \in Supervisors, Creates(s) PROVE G
  <2>1. \A t \in Supervisors : local'[t].cycle = local[t].cycle
    BY <1>0, <1>27 DEF Creates, Local
  <2>. QED BY <2>1 DEF G
<1>28. ASSUME NEW s \in Supervisors, CreateFails(s) PROVE G
  BY <1>28, <1>b DEF CreateFails
<1>29. ASSUME NEW s \in Supervisors, Consumes(s) PROVE G
  <2>1. Fresh.cycle = 1 BY DEF Fresh
  <2>2. local'[s].cycle \in {local[s].cycle, 1, run.cycle}
    BY <1>0, <1>29, <2>1 DEF Consumes, Rests
  <2>3. \A t \in Supervisors : t # s => local'[t] = local[t]
    BY <1>0, <1>29 DEF Consumes, Rests
  <2>. QED BY <1>a, <2>2, <2>3
<1>30. ASSUME NEW s \in Supervisors, Works(s) PROVE G
  <2>1. \A x : [Fresh EXCEPT !.cycle = run.cycle, !.who = Worker, !.todo = x].cycle = run.cycle
    BY DEF Fresh
  <2>2. local'[s].cycle \in {local[s].cycle, 1, run.cycle}
    BY <1>0, <1>30, <2>1 DEF Works
  <2>3. \A t \in Supervisors : t # s => local'[t] = local[t]
    BY <1>0, <1>30 DEF Works
  <2>. QED BY <1>a, <2>2, <2>3
<1>31. ASSUME NEW s \in Supervisors, Reworks(s) PROVE G
  BY <1>31, <1>b DEF Reworks
<1>32. ASSUME NEW s \in Supervisors, Lists(s) PROVE G
  <2>1. \A t \in Supervisors : local'[t].cycle = local[t].cycle
    BY <1>0, <1>32 DEF Lists, Local
  <2>. QED BY <2>1 DEF G
<1>33. ASSUME NEW s \in Supervisors, Collects(s) PROVE G
  <2>1. \A t \in Supervisors : local'[t].cycle = local[t].cycle
    BY <1>0, <1>33 DEF Collects, Local
  <2>. QED BY <2>1 DEF G
<1>34. ASSUME NEW s \in Supervisors, Waits(s) PROVE G
  <2>1. Fresh.cycle = 1 BY DEF Fresh
  <2>2. local'[s].cycle \in {local[s].cycle, 1, run.cycle}
    BY <1>0, <1>34, <2>1 DEF Waits, Rests
  <2>3. \A t \in Supervisors : t # s => local'[t] = local[t]
    BY <1>0, <1>34 DEF Waits, Rests
  <2>. QED BY <1>a, <2>2, <2>3
<1>35. ASSUME NEW s \in Supervisors, FindsDeadRole(s) PROVE G
  BY <1>35, <1>b DEF FindsDeadRole
<1>36. ASSUME NEW s \in Supervisors, Decides(s) PROVE G
  BY <1>36, <1>b DEF Decides
<1>37. ASSUME NEW s \in Supervisors, Harvests(s) PROVE G
  BY <1>37, <1>b DEF Harvests
<1>38. ASSUME NEW s \in Supervisors, ChecksDelivery(s) PROVE G
  BY <1>38, <1>b DEF ChecksDelivery
<1>39. ASSUME NEW s \in Supervisors, Pushes(s) PROVE G
  BY <1>39, <1>b DEF Pushes
<1>40. ASSUME NEW s \in Supervisors, DeliveryFails(s) PROVE G
  BY <1>40, <1>b DEF DeliveryFails
<1>41. ASSUME NEW s \in Supervisors, GivesUp(s) PROVE G
  BY <1>41, <1>b DEF GivesUp
<1>42. ASSUME NEW s \in Supervisors, Completes(s) PROVE G
  BY <1>42, <1>b DEF Completes, Finalized
<1>43. ASSUME NEW s \in Supervisors, Exhausts(s) PROVE G
  BY <1>43, <1>b DEF Exhausts, Finalized
<1>44. ASSUME NEW s \in Supervisors, StopsReviewers(s) PROVE G
  <2>1. Fresh.cycle = 1 BY DEF Fresh
  <2>2. local'[s].cycle \in {local[s].cycle, 1, run.cycle}
    BY <1>0, <1>44, <2>1 DEF StopsReviewers, Rests
  <2>3. \A t \in Supervisors : t # s => local'[t] = local[t]
    BY <1>0, <1>44 DEF StopsReviewers, Rests
  <2>. QED BY <1>a, <2>2, <2>3
<1>45. ASSUME NEW s \in Supervisors, ReadsHead(s) PROVE G
  <2>1. \A t \in Supervisors : local'[t].cycle = local[t].cycle
    BY <1>0, <1>45 DEF ReadsHead, Local
  <2>. QED BY <2>1 DEF G
<1>46. ASSUME NEW s \in Supervisors, Prepares(s) PROVE G
  BY <1>46, <1>b DEF Prepares
<1>47. ASSUME NEW s \in Supervisors, Returns(s) PROVE G
  <2>1. Fresh.cycle = 1 BY DEF Fresh
  <2>2. local'[s].cycle \in {local[s].cycle, 1, run.cycle}
    BY <1>0, <1>47, <2>1 DEF Returns, Rests
  <2>3. \A t \in Supervisors : t # s => local'[t] = local[t]
    BY <1>0, <1>47 DEF Returns, Rests
  <2>. QED BY <1>a, <2>2, <2>3
<1>48. ASSUME NEW s \in Supervisors, CancelsBlocked(s) PROVE G
  BY <1>48, <1>b DEF CancelsBlocked
<1>49. ASSUME NEW s \in Supervisors, Folds(s) PROVE G
  BY <1>49, <1>b DEF Folds
<1>50. ASSUME NEW s \in Supervisors, Reaps(s) PROVE G
  BY <1>50, <1>b DEF Reaps
<1>51. ASSUME NEW s \in Supervisors, SetsBlocked(s) PROVE G
  BY <1>51, <1>b DEF SetsBlocked
<1>52. ASSUME NEW s \in Supervisors, Salvages(s) PROVE G
  BY <1>52, <1>b DEF Salvages
<1>53. ASSUME NEW s \in Supervisors, CancelsOverdue(s) PROVE G
  BY <1>53, <1>b DEF CancelsOverdue
<1>54. ASSUME NEW s \in Supervisors, Releases(s) PROVE G
  BY <1>54, <1>b DEF Releases
<1>55. ASSUME NEW s \in Supervisors, Retires(s) PROVE G
  BY <1>55, <1>b DEF Retires
<1>56. ASSUME NEW s \in Supervisors, Stumbles(s) PROVE G
  BY <1>56, <1>b DEF Stumbles
<1>57. ASSUME NEW s \in Supervisors, RecordsError(s) PROVE G
  <2>1. Fresh.cycle = 1 BY DEF Fresh
  <2>2. local'[s].cycle \in {local[s].cycle, 1, run.cycle}
    BY <1>0, <1>57, <2>1 DEF RecordsError, Rests
  <2>3. \A t \in Supervisors : t # s => local'[t] = local[t]
    BY <1>0, <1>57 DEF RecordsError, Rests
  <2>. QED BY <1>a, <2>2, <2>3
<1>58. ASSUME NEW s \in Supervisors, Crashes(s) PROVE G
  <2>1. Fresh.cycle = 1 BY DEF Fresh
  <2>2. local'[s].cycle \in {local[s].cycle, 1, run.cycle}
    BY <1>0, <1>58, <2>1 DEF Crashes, Rests
  <2>3. \A t \in Supervisors : t # s => local'[t] = local[t]
    BY <1>0, <1>58 DEF Crashes, Rests
  <2>. QED BY <1>a, <2>2, <2>3
<1>59. CASE Agents
  BY <1>59, <1>1, <1>2, <1>3, <1>4, <1>5, <1>6, <1>7, <1>8, <1>9, RunAssumption
      DEF Agents
<1>60. CASE Operator
  BY <1>60, <1>10, <1>11, <1>12, <1>13, <1>14, <1>15 DEF Operator
<1>61. ASSUME NEW s \in Supervisors, Supervises(s) PROVE G
  BY <1>61, <1>17, <1>18, <1>20, <1>21, <1>22, <1>23, <1>24, <1>25, <1>26,
      <1>27, <1>29, <1>30, <1>31, <1>32, <1>33, <1>34, <1>35, <1>36, <1>37,
      <1>38, <1>39, <1>41, <1>42, <1>43, <1>44, <1>45, <1>46, <1>47, <1>48,
      <1>49, <1>50, <1>51, <1>52, <1>53, <1>54, <1>55, <1>57 DEF Supervises
<1>. QED BY <1>59, <1>60, <1>61, <1>16, <1>19, <1>28, <1>40, <1>56, <1>58 DEF
    Next

-----------------------------------------------------------------------------
\* Nothing is known of a cycle that has not begun, and of the manager only of
\* its one attempt.
Future ==
  /\ \A r \in Roles, c \in Cycles : c > run.cycle => ready[r][c] = None
  /\ \A c \in Cycles : c # 1 => ready[Manager][c] = None
  /\ \A s \in Supervisors : local[s].cycle <= run.cycle

\* Nobody waits behind a role that was cancelled, or whose signal was taken, or
\* that a supervisor who has its signal in hand need not start any more.
NobodyWaits(R) == \A q \in R : status[q] # "requested"
Took(r) == ready[r][Attempt(r)] # None /\ ready[r][Attempt(r)].consumed
CancelledWithAll ==
  \A r \in {Manager, Worker} : status[r] = "cancelled" => NobodyWaits(Behind(r))
TakenLast ==
  \A r \in {Manager, Worker} : Took(r) => NobodyWaits(Behind(r))
TodoOf(s) ==
  at(s) \in Launching /\ SignalOf(s) = Attempt(local[s].who)
    => NobodyWaits(Behind(local[s].who) \ local[s].todo)
Todo == \A s \in Supervisors : TodoOf(s)

Signals == Life /\ Future /\ CancelledWithAll /\ TakenLast /\ Todo

\* The cycle of the run is the attempt of the worker; the manager has one.
LEMMA Attempts ==
  ASSUME Typed
  PROVE  /\ run.cycle \in Nat /\ 1 <= run.cycle /\ run.cycle \in Cycles
         /\ Attempt(Manager) = 1 /\ Attempt(Worker) = run.cycle
         /\ \A r \in Roles : Attempt(r) <= run.cycle /\ Attempt(r) \in Cycles
         /\ Cycles \subseteq Nat
         /\ \A s \in Supervisors : local[s].cycle \in Nat
BY RunAssumption, Names
   DEF Typed, RunTypes, Runs, Cycles, Attempt, LocalTypes, Local

\* No step signals for a cycle that has not begun.
LEMMA FutureStep ==
  ASSUME Life, Future, Next
  PROVE  Future'
<1>0. /\ ReadyMoves /\ Typed /\ Typed'
      /\ \A t \in Supervisors : local'[t].cycle \in {local[t].cycle, 1, run.cycle}
  BY ReadyStep, TypedStep, LocalCycle DEF Life
<1>1. CASE Persists
  <2>1. run'.cycle = run.cycle BY <1>1 DEF Persists
  <2>2. \A t \in Supervisors : local'[t].cycle <= run'.cycle
    BY <1>0, <2>1, Attempts DEF Future
  <2>3. CASE UNCHANGED ready BY <2>1, <2>2, <2>3 DEF Future
  <2>4. ASSUME NEW r \in Roles, NEW o \in Outcomes, NEW c \in Commits, Notes(r, o, c)
        PROVE  Future'
    <3>1. \A q \in Roles, d \in Cycles : d > run.cycle => ready'[q][d] = None
      BY <1>0, <2>4, Attempts DEF Future, Notes
    <3>2. \A d \in Cycles : d # 1 => ready'[Manager][d] = None
      BY <1>0, <2>4, Attempts, Names DEF Future, Notes
    <3>. QED BY <2>1, <2>2, <3>1, <3>2 DEF Future
  <2>5. ASSUME NEW R \in SUBSET Roles, NEW c \in Cycles, Takes(R, c)
        PROVE  Future'
    <3>1. \A q \in Roles, d \in Cycles : ready[q][d] = None => ready'[q][d] = None
      BY <2>5 DEF Takes
    <3>. QED BY <2>1, <2>2, <3>1, Names DEF Future
  <2>. QED BY <1>0, <2>3, <2>4, <2>5 DEF ReadyMoves
<1>2. ASSUME NEW s \in Supervisors, Reopens(s) PROVE Future'
  <2>1. /\ Takes(Reviewers, run.cycle) /\ run'.cycle = run.cycle + 1
        /\ UNCHANGED local
    BY <1>0, <1>2, PreparesRows DEF Reopens, Prepares
  <2>2. \A q \in Roles, d \in Cycles : ready[q][d] = None => ready'[q][d] = None
    BY <2>1 DEF Takes
  <2>3. run.cycle \in Nat /\ Cycles \subseteq Nat
        /\ \A t \in Supervisors : local[t].cycle \in Nat
    BY <1>0, Attempts
  <2>. QED BY <2>1, <2>2, <2>3, Names DEF Future
<1>. QED BY <1>1, <1>2, RowsStep

\* No step leaves somebody waiting behind a role it cancels.
LEMMA CancelledStep ==
  ASSUME Life, CancelledWithAll, Next
  PROVE  CancelledWithAll'
<1>1. CASE Persists
  <2>1. \A q \in Roles : status[q] # "requested" => status'[q] # "requested"
    BY <1>1 DEF Persists, Onward
  <2>2. \A r \in {Manager, Worker} : Behind(r) \subseteq Roles
    BY Names DEF Behind
  <2>. QED BY <1>1, <2>1, <2>2 DEF Persists, CancelledWithAll, NobodyWaits
<1>2. ASSUME NEW s \in Supervisors, Reopens(s) PROVE CancelledWithAll'
  <2>1. status'[Worker] = "running" BY <1>2, Names DEF Reopens, Prepares
  <2>. QED BY <2>1, Names DEF CancelledWithAll, NobodyWaits, Behind
<1>. QED BY <1>1, <1>2, RowsStep

\* A signal of the manager or the worker is taken by a supervisor that has
\* nothing left to start, or with the role's cancellation.
LEMMA TookMoves ==
  ASSUME Life, Next, Persists, NEW r \in {Manager, Worker}, Took(r)'
  PROVE  \/ Took(r) \/ status[r] = "cancelled"
         \/ \E s \in Supervisors :
              /\ at(s) = "launch" /\ local[s].who = r /\ local[s].todo = {}
              /\ SignalOf(s) = Attempt(r)
<1>. DEFINE G == \/ Took(r) \/ status[r] = "cancelled"
                 \/ \E s \in Supervisors :
                      /\ at(s) = "launch" /\ local[s].who = r /\ local[s].todo = {}
                      /\ SignalOf(s) = Attempt(r)
<1>. SUFFICES G OBVIOUS
<1>0. /\ Typed /\ InHand /\ Scripted /\ ReadyTypes /\ RunTypes
      /\ RowTypes /\ GitTypes /\ r \in Roles /\ Attempt(r) \in Cycles
  BY Attempts, Names DEF Life, Typed
<1>a. Attempt(r)' = Attempt(r) BY DEF Persists, Attempt
<1>b. ASSUME ready'[r][Attempt(r)] = ready[r][Attempt(r)] PROVE G
  BY <1>a, <1>b DEF Took
<1>c. ASSUME NEW q \in Roles, NEW o \in Outcomes, NEW c \in Commits, Notes(q, o, c)
      PROVE  G
  <2>1. ready'[r][Attempt(r)] # None /\ ready'[r][Attempt(r)].consumed
    BY <1>a DEF Took
  <2>2. CASE ready'[r][Attempt(r)] = [outcome |-> o, sha |-> c, consumed |-> FALSE]
    BY <2>1, <2>2
  <2>. QED BY <1>0, <1>b, <1>c, <2>2 DEF Notes
<1>d. ASSUME NEW R \in SUBSET Roles, NEW c \in Cycles, Takes(R, c),
             ~(r \in R /\ c = Attempt(r))
      PROVE  G
  BY <1>0, <1>b, <1>d DEF Takes
<1>. HIDE DEF G
<1>1. ASSUME WorkerCommits PROVE G
  BY <1>1, <1>b DEF WorkerCommits
<1>2. ASSUME ManagerCommits PROVE G
  BY <1>2, <1>b DEF ManagerCommits
<1>3. ASSUME ManagerReports PROVE G
  <2>1. "done" \in Outcomes /\ Manager \in Roles /\ 0 \in Commits
    BY Names DEF Outcomes
  <2>. QED BY <1>0, <1>c, <1>3, <2>1, RecordedReady DEF ManagerReports
<1>4. ASSUME NEW p \in Reviewers, ReviewerReports(p) PROVE G
  <2>1. ASSUME NEW q \in Reviewers, ReviewerReports(q) PROVE G
    <3>1. /\ {"approved", "changes-requested"} \subseteq Outcomes
          /\ q \in Roles /\ start[q] \in Commits
      BY <1>0, Names DEF Outcomes, RowTypes
    <3>. QED BY <1>0, <1>c, <2>1, <3>1, RecordedReady DEF ReviewerReports
  <2>. QED BY <1>4, <2>1
<1>5. ASSUME NEW p \in Roles, Blocks(p) PROVE G
  <2>1. ASSUME NEW q \in Roles, Blocks(q) PROVE G
    <3>1. "blocked" \in Outcomes /\ start[q] \in Commits
      BY <1>0 DEF Outcomes, RowTypes
    <3>. QED BY <1>0, <1>c, <2>1, <3>1, RecordedReady DEF Blocks
  <2>. QED BY <1>5, <2>1
<1>6. ASSUME WorkerVerifies PROVE G
  BY <1>6, <1>b DEF WorkerVerifies
<1>7. ASSUME WorkerReports PROVE G
  <2>1. "done" \in Outcomes /\ Worker \in Roles /\ draft \in Commits
    BY <1>0, <1>7, Names DEF Outcomes, WorkerReports, GitTypes
  <2>2. UNCHANGED ready \/ ready' = Recorded(Worker, "done", draft)
    BY <1>7 DEF WorkerReports
  <2>. QED BY <1>0, <1>b, <1>c, <2>1, <2>2, RecordedReady
<1>8. ASSUME NEW p \in Roles, ReportsResult(p) PROVE G
  BY <1>8, <1>b DEF ReportsResult
<1>9. ASSUME NEW p \in Roles, AgentDies(p) PROVE G
  BY <1>9, <1>b DEF AgentDies
<1>10. ASSUME NEW p \in Roles, OperatorCancels(p) PROVE G
  BY <1>10, <1>b DEF OperatorCancels
<1>11. ASSUME NEW p \in Roles, CleansStart(p) PROVE G
  BY <1>11, <1>b DEF CleansStart
<1>12. ASSUME NEW p \in Roles, OperatorResumes(p) PROVE G
  BY <1>12, <1>b DEF OperatorResumes
<1>13. ASSUME NEW s \in Coordinators, Attaches(s) PROVE G
  BY <1>13, <1>b DEF Attaches
<1>14. ASSUME NEW s \in Coordinators, Retries(s) PROVE G
  BY <1>14, <1>b DEF Retries
<1>15. ASSUME NEW s \in Manual, StartsByHand(s) PROVE G
  BY <1>15, <1>b DEF StartsByHand
<1>16. ASSUME TimePasses PROVE G
  BY <1>16, <1>b DEF TimePasses
<1>17. ASSUME NEW s \in Supervisors, Closes(s) PROVE G
  BY <1>17, <1>b DEF Closes
<1>18. ASSUME NEW s \in Supervisors, Begins(s) PROVE G
  BY <1>18, <1>b DEF Begins
<1>19. ASSUME NEW s \in Supervisors, NEW p \in Roles, Overdue(s, p) PROVE G
  BY <1>19, <1>b DEF Overdue
<1>20. ASSUME NEW s \in Supervisors, NothingOverdue(s) PROVE G
  BY <1>20, <1>b DEF NothingOverdue
<1>21. ASSUME NEW s \in Supervisors, ReadsSignals(s) PROVE G
  BY <1>21, <1>b DEF ReadsSignals
<1>22. ASSUME NEW s \in Supervisors, HandsOff(s) PROVE G
  BY <1>22, <1>b DEF HandsOff
<1>23. ASSUME NEW s \in Supervisors, Finishes(s) PROVE G
  BY <1>23, <1>b DEF Finishes
<1>24. ASSUME NEW s \in Supervisors, Launches(s) PROVE G
  BY <1>24, <1>b DEF Launches
<1>25. ASSUME NEW s \in Supervisors, Asks(s) PROVE G
  BY <1>25, <1>b DEF Asks
<1>26. ASSUME NEW s \in Supervisors, BeginsStart(s) PROVE G
  BY <1>26, <1>b DEF BeginsStart
<1>27. ASSUME NEW s \in Supervisors, Creates(s) PROVE G
  BY <1>27, <1>b DEF Creates
<1>28. ASSUME NEW s \in Supervisors, CreateFails(s) PROVE G
  BY <1>28, <1>b DEF CreateFails
<1>29. ASSUME NEW s \in Supervisors, Consumes(s) PROVE G
  <2>1. /\ {local[s].who} \in SUBSET Roles /\ SignalOf(s) \in Cycles
        /\ Takes({local[s].who}, SignalOf(s))
    BY <1>0, <1>29, ConsumesReady, Names
  <2>2. at(s) = "launch" /\ local[s].todo = {} BY <1>0, <1>29, Here DEF Consumes
  <2>3. CASE local[s].who = r /\ SignalOf(s) = Attempt(r) BY <2>2, <2>3 DEF G
  <2>. QED BY <1>d, <2>1, <2>3
<1>30. ASSUME NEW s \in Supervisors, Works(s) PROVE G
  BY <1>30, <1>b DEF Works
<1>31. ASSUME NEW s \in Supervisors, Reworks(s) PROVE G
  BY <1>31, <1>b DEF Reworks
<1>32. ASSUME NEW s \in Supervisors, Lists(s) PROVE G
  BY <1>32, <1>b DEF Lists
<1>33. ASSUME NEW s \in Supervisors, Collects(s) PROVE G
  BY <1>33, <1>b DEF Collects
<1>34. ASSUME NEW s \in Supervisors, Waits(s) PROVE G
  BY <1>34, <1>b DEF Waits
<1>35. ASSUME NEW s \in Supervisors, FindsDeadRole(s) PROVE G
  BY <1>35, <1>b DEF FindsDeadRole
<1>36. ASSUME NEW s \in Supervisors, Decides(s) PROVE G
  BY <1>36, <1>b DEF Decides
<1>37. ASSUME NEW s \in Supervisors, Harvests(s) PROVE G
  BY <1>37, <1>b DEF Harvests
<1>38. ASSUME NEW s \in Supervisors, ChecksDelivery(s) PROVE G
  BY <1>38, <1>b DEF ChecksDelivery
<1>39. ASSUME NEW s \in Supervisors, Pushes(s) PROVE G
  BY <1>39, <1>b DEF Pushes
<1>40. ASSUME NEW s \in Supervisors, DeliveryFails(s) PROVE G
  BY <1>40, <1>b DEF DeliveryFails
<1>41. ASSUME NEW s \in Supervisors, GivesUp(s) PROVE G
  BY <1>41, <1>b DEF GivesUp
<1>42. ASSUME NEW s \in Supervisors, Completes(s) PROVE G
  <2>1. Finalized(s, "completed") BY <1>42 DEF Completes
  <2>2. /\ local[s].open \in SUBSET Roles /\ r \notin local[s].open
        /\ local[s].cycle \in Cycles
    BY <1>0, Names DEF Typed, LocalTypes, Local
  <2>. QED BY <1>0, <1>b, <1>d, <2>1, <2>2, FinalizedReady
<1>43. ASSUME NEW s \in Supervisors, Exhausts(s) PROVE G
  <2>1. Finalized(s, "blocked") BY <1>43 DEF Exhausts
  <2>2. /\ local[s].open \in SUBSET Roles /\ r \notin local[s].open
        /\ local[s].cycle \in Cycles
    BY <1>0, Names DEF Typed, LocalTypes, Local
  <2>. QED BY <1>0, <1>b, <1>d, <2>1, <2>2, FinalizedReady
<1>44. ASSUME NEW s \in Supervisors, StopsReviewers(s) PROVE G
  BY <1>44, <1>b DEF StopsReviewers
<1>45. ASSUME NEW s \in Supervisors, ReadsHead(s) PROVE G
  BY <1>45, <1>b DEF ReadsHead
<1>46. ASSUME NEW s \in Supervisors, Prepares(s) PROVE G
  <2>1. CASE MayReopen(s)
    <3>1. Takes(Reviewers, run.cycle) /\ run.cycle \in Cycles
      BY <1>0, <1>46, <2>1, PreparesRows
    <3>2. Reviewers \in SUBSET Roles /\ r \notin Reviewers BY Names
    <3>. QED BY <1>d, <3>1, <3>2
  <2>2. CASE ~MayReopen(s) BY <1>b, <1>46, <2>2 DEF Prepares
  <2>. QED BY <2>1, <2>2
<1>47. ASSUME NEW s \in Supervisors, Returns(s) PROVE G
  BY <1>47, <1>b DEF Returns
<1>48. ASSUME NEW s \in Supervisors, CancelsBlocked(s) PROVE G
  BY <1>48, <1>b DEF CancelsBlocked
<1>49. ASSUME NEW s \in Supervisors, Folds(s) PROVE G
  <2>1. CASE UNCHANGED ready BY <1>b, <2>1
  <2>2. ASSUME status[local[s].who] = "cancelled", NEW c \in Cycles,
               Takes({local[s].who}, c), local[s].who \in Roles
        PROVE  G
    <3>1. CASE local[s].who = r BY <2>2, <3>1 DEF G
    <3>. QED BY <1>d, <2>2, <3>1
  <2>. QED BY <1>0, <1>49, <2>1, <2>2, FoldsRows
<1>50. ASSUME NEW s \in Supervisors, Reaps(s) PROVE G
  BY <1>50, <1>b DEF Reaps
<1>51. ASSUME NEW s \in Supervisors, SetsBlocked(s) PROVE G
  BY <1>51, <1>b DEF SetsBlocked
<1>52. ASSUME NEW s \in Supervisors, Salvages(s) PROVE G
  BY <1>52, <1>b DEF Salvages
<1>53. ASSUME NEW s \in Supervisors, CancelsOverdue(s) PROVE G
  BY <1>53, <1>b DEF CancelsOverdue
<1>54. ASSUME NEW s \in Supervisors, Releases(s) PROVE G
  BY <1>54, <1>b DEF Releases
<1>55. ASSUME NEW s \in Supervisors, Retires(s) PROVE G
  BY <1>55, <1>b DEF Retires
<1>56. ASSUME NEW s \in Supervisors, Stumbles(s) PROVE G
  BY <1>56, <1>b DEF Stumbles
<1>57. ASSUME NEW s \in Supervisors, RecordsError(s) PROVE G
  BY <1>57, <1>b DEF RecordsError
<1>58. ASSUME NEW s \in Supervisors, Crashes(s) PROVE G
  BY <1>58, <1>b DEF Crashes
<1>59. CASE Agents
  BY <1>59, <1>1, <1>2, <1>3, <1>4, <1>5, <1>6, <1>7, <1>8, <1>9, RunAssumption
      DEF Agents
<1>60. CASE Operator
  BY <1>60, <1>10, <1>11, <1>12, <1>13, <1>14, <1>15 DEF Operator
<1>61. ASSUME NEW s \in Supervisors, Supervises(s) PROVE G
  BY <1>61, <1>17, <1>18, <1>20, <1>21, <1>22, <1>23, <1>24, <1>25, <1>26,
      <1>27, <1>29, <1>30, <1>31, <1>32, <1>33, <1>34, <1>35, <1>36, <1>37,
      <1>38, <1>39, <1>41, <1>42, <1>43, <1>44, <1>45, <1>46, <1>47, <1>48,
      <1>49, <1>50, <1>51, <1>52, <1>53, <1>54, <1>55, <1>57 DEF Supervises
<1>. QED BY <1>59, <1>60, <1>61, <1>16, <1>19, <1>28, <1>40, <1>56, <1>58 DEF
    Next

\* No step takes a signal before those behind it have been started.
LEMMA TakenStep ==
  ASSUME Signals, Next
  PROVE  TakenLast'
<1>0. Life /\ Typed BY DEF Signals, Life
<1>1. CASE Persists
  <2>. SUFFICES ASSUME NEW r \in {Manager, Worker}, Took(r)'
                PROVE  NobodyWaits(Behind(r))'
    BY DEF TakenLast
  <2>1. Behind(r) \subseteq Roles BY Names DEF Behind
  <2>2. NobodyWaits(Behind(r))
    <3>1. CASE Took(r) \/ status[r] = "cancelled"
      BY <3>1 DEF Signals, TakenLast, CancelledWithAll
    <3>2. ASSUME NEW s \in Supervisors, at(s) = "launch", local[s].who = r,
                 local[s].todo = {}, SignalOf(s) = Attempt(r)
          PROVE  NobodyWaits(Behind(r))
      <4>1. NobodyWaits(Behind(r) \ {})
        BY <3>2 DEF Signals, Todo, TodoOf, Launching
      <4>. QED BY <4>1 DEF NobodyWaits
    <3>. QED BY <1>0, <1>1, <3>1, <3>2, TookMoves
  <2>3. \A q \in Behind(r) : status'[q] # "requested"
    BY <1>1, <2>1, <2>2 DEF NobodyWaits, Persists, Onward
  <2>4. Behind(r)' = Behind(r) BY DEF Behind
  <2>. QED BY <2>3, <2>4 DEF NobodyWaits
<1>2. ASSUME NEW s \in Supervisors, Reopens(s) PROVE TakenLast'
  <2>1. /\ Takes(Reviewers, run.cycle) /\ run'.cycle = run.cycle + 1
        /\ run.cycle \in Nat /\ run.cycle + 1 \in Cycles
    BY <1>0, <1>2, PreparesRows, Attempts DEF Reopens
  <2>2. ready[Worker][run.cycle + 1] = None BY <2>1, Names DEF Signals, Future
  <2>3. ready'[Worker][run'.cycle] = None BY <2>1, <2>2, Names DEF Takes
  <2>4. status'[Worker] = "running" BY <1>2, Names DEF Reopens, Prepares
  <2>. QED BY <2>3, <2>4, Names DEF TakenLast, Took, Attempt, NobodyWaits, Behind
<1>. QED BY <1>0, <1>1, <1>2, RowsStep

\* What a supervisor need not start any more stays so while nothing reopens.
LEMMA KeptTodo ==
  ASSUME Signals, Persists, NEW t \in Supervisors, local'[t] = local[t],
         at(t)' \in Launching => at(t) \in Launching
  PROVE  TodoOf(t)'
<1>. SUFFICES ASSUME at(t)' \in Launching, SignalOf(t)' = Attempt(local[t].who)'
              PROVE  \A q \in Behind(local[t].who) \ local[t].todo :
                       status'[q] # "requested"
  BY DEF TodoOf, NobodyWaits
<1>1. SignalOf(t) = Attempt(local[t].who)
  BY DEF SignalOf, Attempt, Persists
<1>2. \A q \in Behind(local[t].who) \ local[t].todo : status[q] # "requested"
  BY <1>1 DEF Signals, Todo, TodoOf, NobodyWaits
<1>3. Behind(local[t].who) \subseteq Roles BY Names DEF Behind
<1>. QED BY <1>2, <1>3 DEF Persists, Onward

\* So it is for all those that are left alone.
LEMMA AloneTodo ==
  ASSUME Signals, Persists, NEW s \in Supervisors, Alone(s), TodoOf(s)'
  PROVE  Todo'
BY KeptTodo DEF Alone, Todo

\* No step forgets whom a supervisor has still to start.
LEMMA TodoStep ==
  ASSUME Signals, Next
  PROVE  Todo'
<1>0. Typed /\ InHand /\ Scripted /\ Life /\ Todo
  BY DEF Signals, Life, Typed
<1>r. ASSUME NEW s \in Supervisors, Reopens(s) PROVE Todo'
  <2>1. /\ run'.cycle = run.cycle + 1 /\ UNCHANGED local
        /\ status'[Worker] = "running" /\ run.cycle \in Nat
    BY <1>0, <1>r, PreparesRows, Attempts, Names DEF Reopens, Prepares
  <2>. SUFFICES ASSUME NEW t \in Supervisors, at(t)' \in Launching,
                       SignalOf(t)' = Attempt(local[t].who)'
                PROVE  \A q \in Behind(local[t].who) \ local[t].todo :
                         status'[q] # "requested"
    BY <2>1 DEF Todo, TodoOf, NobodyWaits
  <2>2. CASE local[t].who = Manager BY <2>1, <2>2 DEF Behind
  <2>3. CASE local[t].who # Manager
    <3>1. local[t].cycle = run'.cycle BY <2>1, <2>3 DEF SignalOf, Attempt
    <3>2. local[t].cycle <= run.cycle BY DEF Signals, Future
    <3>. QED BY <2>1, <3>1, <3>2
  <2>. QED BY <2>2, <2>3
<1>p. SUFFICES ASSUME Persists PROVE Todo' BY <1>0, <1>r, RowsStep
<1>1. ASSUME WorkerCommits PROVE Todo'
  BY <1>0, <1>p, <1>1, NobodyGoes, KeptTodo DEF WorkerCommits, Todo
<1>2. ASSUME ManagerCommits PROVE Todo'
  BY <1>0, <1>p, <1>2, NobodyGoes, KeptTodo DEF ManagerCommits, Todo
<1>3. ASSUME ManagerReports PROVE Todo'
  BY <1>0, <1>p, <1>3, NobodyGoes, KeptTodo DEF ManagerReports, Todo
<1>4. ASSUME NEW r \in Reviewers, ReviewerReports(r) PROVE Todo'
  BY <1>0, <1>p, <1>4, NobodyGoes, KeptTodo DEF ReviewerReports, Todo
<1>5. ASSUME NEW r \in Roles, Blocks(r) PROVE Todo'
  BY <1>0, <1>p, <1>5, NobodyGoes, KeptTodo DEF Blocks, Todo
<1>6. ASSUME WorkerVerifies PROVE Todo'
  BY <1>0, <1>p, <1>6, NobodyGoes, KeptTodo DEF WorkerVerifies, Todo
<1>7. ASSUME WorkerReports PROVE Todo'
  BY <1>0, <1>p, <1>7, NobodyGoes, KeptTodo DEF WorkerReports, Todo
<1>8. ASSUME NEW r \in Roles, ReportsResult(r) PROVE Todo'
  BY <1>0, <1>p, <1>8, NobodyGoes, KeptTodo DEF ReportsResult, Todo
<1>9. ASSUME NEW r \in Roles, AgentDies(r) PROVE Todo'
  BY <1>0, <1>p, <1>9, NobodyGoes, KeptTodo DEF AgentDies, Todo
<1>10. ASSUME NEW r \in Roles, OperatorCancels(r) PROVE Todo'
  BY <1>0, <1>p, <1>10, NobodyGoes, KeptTodo DEF OperatorCancels, Todo
<1>11. ASSUME NEW r \in Roles, CleansStart(r) PROVE Todo'
  BY <1>0, <1>p, <1>11, NobodyGoes, KeptTodo DEF CleansStart, Todo
<1>12. ASSUME NEW r \in Roles, OperatorResumes(r) PROVE Todo'
  BY <1>0, <1>p, <1>12, NobodyGoes, KeptTodo DEF OperatorResumes, Todo
<1>13. ASSUME NEW s \in Coordinators, Attaches(s) PROVE Todo'
  <2>1. s \in Supervisors BY <1>13 DEF Supervisors
  <2>2. Goes(s, {"none"}, {"idle"}) /\ UNCHANGED local
    BY <1>0, <1>13, <2>1, AttachesGoes DEF Attaches, StartsByHand
  <2>3. Alone(s) BY <2>2 DEF Alone, Goes
  <2>4. TodoOf(s)' BY <2>2 DEF Goes, TodoOf, Launching
  <2>. QED BY <1>p, <2>1, <2>3, <2>4, AloneTodo
<1>14. ASSUME NEW s \in Coordinators, Retries(s) PROVE Todo'
  <2>1. \A t \in Supervisors :
          at(t)' \in {"none", "idle"} \/ (at(t)' = at(t) /\ local'[t] = local[t])
    BY <1>0, <1>14, RetriesAlone DEF Supervisors
  <2>2. \A t \in Supervisors : at(t)' \in {"none", "idle"} => TodoOf(t)'
    BY DEF TodoOf, Launching
  <2>. QED BY <1>p, <2>1, <2>2, KeptTodo DEF Todo
<1>15. ASSUME NEW s \in Manual, StartsByHand(s) PROVE Todo'
  <2>1. s \in Supervisors BY <1>15 DEF Supervisors
  <2>2. Goes(s, {"none"}, {"idle"}) /\ UNCHANGED local
    BY <1>0, <1>15, <2>1, AttachesGoes DEF Attaches, StartsByHand
  <2>3. Alone(s) BY <2>2 DEF Alone, Goes
  <2>4. TodoOf(s)' BY <2>2 DEF Goes, TodoOf, Launching
  <2>. QED BY <1>p, <2>1, <2>3, <2>4, AloneTodo
<1>16. ASSUME TimePasses PROVE Todo'
  BY <1>0, <1>p, <1>16, NobodyGoes, KeptTodo DEF TimePasses, Todo
<1>17. ASSUME NEW s \in Supervisors, Closes(s) PROVE Todo'
  <2>1. \A t \in Supervisors : at(t)' = "none" \/ (at(t)' = at(t) /\ local'[t] = local[t])
    BY <1>0, <1>17, ClosesAlone
  <2>2. \A t \in Supervisors : at(t)' = "none" => TodoOf(t)'
    BY DEF TodoOf, Launching
  <2>. QED BY <1>p, <2>1, <2>2, KeptTodo DEF Todo
<1>18. ASSUME NEW s \in Supervisors, Begins(s) PROVE Todo'
  <2>1. Alone(s) BY <1>0, <1>18, BeginsGoes, ClosesGoes, ActsAlone DEF Supervises,
      Goes
  <2>3. TodoOf(s)' BY <1>0, <1>18, BeginsGoes DEF Goes, TodoOf, Launching
  <2>. QED BY <1>p, <2>1, <2>3, AloneTodo
<1>19. ASSUME NEW s \in Supervisors, NEW r \in Roles, Overdue(s, r) PROVE Todo'
  <2>1. Alone(s) BY <1>0, <1>19, ActsAlone
  <2>3. TodoOf(s)' BY <1>0, <1>19, OverdueGoes DEF Goes, TodoOf, Launching
  <2>. QED BY <1>p, <2>1, <2>3, AloneTodo
<1>20. ASSUME NEW s \in Supervisors, NothingOverdue(s) PROVE Todo'
  <2>1. Alone(s) BY <1>0, <1>20, NothingOverdueGoes, ClosesGoes, ActsAlone DEF
      Supervises, Goes
  <2>3. TodoOf(s)' BY <1>0, <1>20, NothingOverdueGoes DEF Goes, TodoOf, Launching
  <2>. QED BY <1>p, <2>1, <2>3, AloneTodo
<1>21. ASSUME NEW s \in Supervisors, ReadsSignals(s) PROVE Todo'
  <2>1. Alone(s) BY <1>0, <1>21, ReadsSignalsGoes, ClosesGoes, ActsAlone DEF
      Supervises, Goes
  <2>2. TodoOf(s)'
    <3>1. CASE SomeBlocker \/ ~Pending(Manager, 1)
      <4>1. \/ Then(s, <<"blocker", "fold", "salvage", "reap", "retire", "close">>)
            \/ Then(s, <<"work">>)
        BY <1>21, <3>1 DEF ReadsSignals
      <4>2. at(s)' \in {"blocker", "work"}
        BY <1>0, <4>1, Written, GoesThen DEF Goes
      <4>. QED BY <4>2 DEF TodoOf, Launching
    <3>2. CASE ~SomeBlocker /\ Pending(Manager, 1)
      <4>1. local' = [local EXCEPT ![s] = [Fresh EXCEPT !.who = Manager, !.todo = {Worker}]]
        BY <1>21, <3>2 DEF ReadsSignals
      <4>2. local'[s] = [Fresh EXCEPT !.who = Manager, !.todo = {Worker}]
        BY <1>0, <4>1 DEF Typed, LocalTypes
      <4>3. local'[s].who = Manager /\ local'[s].todo = {Worker}
        BY <4>2 DEF Fresh
      <4>. QED BY <4>3 DEF TodoOf, Behind, NobodyWaits
    <3>. QED BY <3>1, <3>2
  <2>. QED BY <1>p, <2>1, <2>2, AloneTodo
<1>22. ASSUME NEW s \in Supervisors, HandsOff(s) PROVE Todo'
  <2>1. Alone(s) BY <1>0, <1>22, HandsOffGoes, ClosesGoes, ActsAlone DEF
      Supervises, Goes
  <2>2. at(s) \in Launching /\ UNCHANGED local BY <1>0, <1>22, HandsOffGoes DEF
      Goes, Launching, HandsOff
  <2>3. TodoOf(s)' BY <1>p, <2>2, KeptTodo
  <2>. QED BY <1>p, <2>1, <2>3, AloneTodo
<1>23. ASSUME NEW s \in Supervisors, Finishes(s) PROVE Todo'
  <2>1. Alone(s) BY <1>0, <1>23, FinishesGoes, ClosesGoes, ActsAlone DEF
      Supervises, Goes
  <2>2. at(s) \in Launching /\ UNCHANGED local BY <1>0, <1>23, FinishesGoes DEF
      Goes, Launching, Finishes
  <2>3. TodoOf(s)' BY <1>p, <2>2, KeptTodo
  <2>. QED BY <1>p, <2>1, <2>3, AloneTodo
<1>24. ASSUME NEW s \in Supervisors, Launches(s) PROVE Todo'
  <2>1. Alone(s) BY <1>0, <1>24, LaunchesGoes, ClosesGoes, ActsAlone DEF
      Supervises, Goes
  <2>2. TodoOf(s)'
    <3>1. at(s) = "launch" BY <1>0, <1>24, LaunchesGoes DEF Goes
    <3>2. local[s] \in Local /\ UNCHANGED status
      BY <1>0, <1>24 DEF Typed, LocalTypes, Launches, rows
    <3>3. PICK c \in local[s].todo :
            \/ /\ local' = [local EXCEPT ![s] = [local[s] EXCEPT !.todo = local[s].todo \ {c}]]
               /\ status[c] \in {"running", "starting"}
            \/ local' = [local EXCEPT ![s] = [local[s] EXCEPT !.child = c]]
            \/ UNCHANGED local
      BY <1>24 DEF Launches
    <3>4. /\ local'[s].who = local[s].who /\ local'[s].cycle = local[s].cycle
          /\ \/ local'[s].todo = local[s].todo
             \/ /\ local'[s].todo = local[s].todo \ {c}
                /\ status[c] # "requested"
      BY <1>0, <3>2, <3>3 DEF Typed, LocalTypes, Local
    <3>5. SignalOf(s)' = Attempt(local[s].who)' => SignalOf(s) = Attempt(local[s].who)
      BY <1>p, <3>4 DEF SignalOf, Attempt, Persists
    <3>. QED BY <1>0, <3>1, <3>2, <3>4, <3>5 DEF Todo, TodoOf, NobodyWaits,
        Launching
  <2>. QED BY <1>p, <2>1, <2>2, AloneTodo
<1>25. ASSUME NEW s \in Supervisors, Asks(s) PROVE Todo'
  <2>1. Alone(s) BY <1>0, <1>25, AsksGoes, ClosesGoes, ActsAlone DEF Supervises,
      Goes
  <2>2. at(s) \in Launching /\ UNCHANGED local BY <1>0, <1>25, AsksGoes DEF Goes,
      Launching, Asks
  <2>3. TodoOf(s)' BY <1>p, <2>2, KeptTodo
  <2>. QED BY <1>p, <2>1, <2>3, AloneTodo
<1>26. ASSUME NEW s \in Supervisors, BeginsStart(s) PROVE Todo'
  <2>1. Alone(s) BY <1>0, <1>26, BeginsStartGoes, ClosesGoes, ActsAlone DEF
      Supervises, Goes
  <2>2. at(s) \in Launching /\ UNCHANGED local BY <1>0, <1>26, BeginsStartGoes DEF
      Goes, Launching, BeginsStart
  <2>3. TodoOf(s)' BY <1>p, <2>2, KeptTodo
  <2>. QED BY <1>p, <2>1, <2>3, AloneTodo
<1>27. ASSUME NEW s \in Supervisors, Creates(s) PROVE Todo'
  <2>1. Alone(s) BY <1>0, <1>27, CreatesGoes, ClosesGoes, ActsAlone DEF
      Supervises, Goes
  <2>2. TodoOf(s)'
    <3>1. at(s) = "create" BY <1>0, <1>27, CreatesGoes DEF Goes
    <3>2. local[s] \in Local /\ local[s].child \in Roles
      BY <1>0, Names DEF Typed, LocalTypes, Local
    <3>3. CASE status[local[s].child] # "starting"
      <4>1. UNCHANGED local BY <1>27, <3>3 DEF Creates
      <4>. QED BY <1>p, <3>1, <4>1, KeptTodo DEF Launching
    <3>4. CASE status[local[s].child] = "starting"
      <4>1. /\ local' = [local EXCEPT ![s] =
                   [local[s] EXCEPT !.todo = local[s].todo \ {local[s].child},
                                    !.child = Worker]]
            /\ status' = [status EXCEPT ![local[s].child] = "running"]
        BY <1>27, <3>4 DEF Creates
      <4>2. local'[s] = [local[s] EXCEPT !.todo = local[s].todo \ {local[s].child},
                                         !.child = Worker]
        BY <1>0, <4>1 DEF Typed, LocalTypes
      <4>3. /\ local'[s].who = local[s].who /\ local'[s].cycle = local[s].cycle
            /\ local'[s].todo = local[s].todo \ {local[s].child}
        BY <3>2, <4>2 DEF Local
      <4>4. \A q \in Roles : status'[q] = "requested"
              => status[q] = "requested" /\ q # local[s].child
        BY <1>0, <3>2, <4>1 DEF Typed, RowTypes
      <4>5. SignalOf(s)' = Attempt(local[s].who)' => SignalOf(s) = Attempt(local[s].who)
        BY <1>p, <4>3 DEF SignalOf, Attempt, Persists
      <4>6. Behind(local[s].who) \subseteq Roles BY Names DEF Behind
      <4>. QED BY <1>0, <3>1, <4>3, <4>4, <4>5, <4>6
               DEF Todo, TodoOf, NobodyWaits, Launching
    <3>. QED BY <3>3, <3>4
  <2>. QED BY <1>p, <2>1, <2>2, AloneTodo
<1>28. ASSUME NEW s \in Supervisors, CreateFails(s) PROVE Todo'
  <2>1. Alone(s) BY <1>0, <1>28, ActsAlone
  <2>3. TodoOf(s)' BY <1>0, <1>28, CreateFailsGoes DEF Goes, TodoOf, Launching
  <2>. QED BY <1>p, <2>1, <2>3, AloneTodo
<1>29. ASSUME NEW s \in Supervisors, Consumes(s) PROVE Todo'
  <2>1. Alone(s) BY <1>0, <1>29, ConsumesGoes, ClosesGoes, ActsAlone DEF
      Supervises, Goes
  <2>3. TodoOf(s)' BY <1>0, <1>29, ConsumesGoes DEF Goes, TodoOf, Launching
  <2>. QED BY <1>p, <2>1, <2>3, AloneTodo
<1>30. ASSUME NEW s \in Supervisors, Works(s) PROVE Todo'
  <2>1. Alone(s) BY <1>0, <1>30, WorksGoes, ClosesGoes, ActsAlone DEF Supervises,
      Goes
  <2>2. TodoOf(s)'
    <3>1. CASE Pending(Worker, run.cycle)
      <4>1. local' = [local EXCEPT ![s] = [Fresh EXCEPT !.cycle = run.cycle,
                                             !.who = Worker, !.todo = Reviewers]]
        BY <1>30, <3>1 DEF Works
      <4>2. local'[s] = [Fresh EXCEPT !.cycle = run.cycle, !.who = Worker,
                                      !.todo = Reviewers]
        BY <1>0, <4>1 DEF Typed, LocalTypes
      <4>3. local'[s].who = Worker /\ local'[s].todo = Reviewers
        BY <4>2 DEF Fresh
      <4>. QED BY <4>3, Names DEF TodoOf, Behind, NobodyWaits
    <3>2. CASE ~Pending(Worker, run.cycle)
      <4>1. Then(s, <<"rework", "list">>) \/ Then(s, <<"list">>)
        BY <1>30, <3>2 DEF Works
      <4>2. at(s)' \in {"reopen", "list"}
        BY <1>0, <4>1, Written, GoesThen DEF Goes
      <4>. QED BY <4>2 DEF TodoOf, Launching
    <3>. QED BY <3>1, <3>2
  <2>. QED BY <1>p, <2>1, <2>2, AloneTodo
<1>31. ASSUME NEW s \in Supervisors, Reworks(s) PROVE Todo'
  <2>1. Alone(s) BY <1>0, <1>31, ReworksGoes, ClosesGoes, ActsAlone DEF
      Supervises, Goes
  <2>3. TodoOf(s)' BY <1>0, <1>31, ReworksGoes DEF Goes, TodoOf, Launching
  <2>. QED BY <1>p, <2>1, <2>3, AloneTodo
<1>32. ASSUME NEW s \in Supervisors, Lists(s) PROVE Todo'
  <2>1. Alone(s) BY <1>0, <1>32, ListsGoes, ClosesGoes, ActsAlone DEF Supervises,
      Goes
  <2>3. TodoOf(s)' BY <1>0, <1>32, ListsGoes DEF Goes, TodoOf, Launching
  <2>. QED BY <1>p, <2>1, <2>3, AloneTodo
<1>33. ASSUME NEW s \in Supervisors, Collects(s) PROVE Todo'
  <2>1. Alone(s) BY <1>0, <1>33, CollectsGoes, ClosesGoes, ActsAlone DEF
      Supervises, Goes
  <2>3. TodoOf(s)' BY <1>0, <1>33, CollectsGoes DEF Goes, TodoOf, Launching
  <2>. QED BY <1>p, <2>1, <2>3, AloneTodo
<1>34. ASSUME NEW s \in Supervisors, Waits(s) PROVE Todo'
  <2>1. Alone(s) BY <1>0, <1>34, WaitsGoes, ClosesGoes, ActsAlone DEF Supervises,
      Goes
  <2>3. TodoOf(s)' BY <1>0, <1>34, WaitsGoes DEF Goes, TodoOf, Launching
  <2>. QED BY <1>p, <2>1, <2>3, AloneTodo
<1>35. ASSUME NEW s \in Supervisors, FindsDeadRole(s) PROVE Todo'
  <2>1. Alone(s) BY <1>0, <1>35, FindsDeadRoleGoes, ClosesGoes, ActsAlone DEF
      Supervises, Goes
  <2>3. TodoOf(s)' BY <1>0, <1>35, FindsDeadRoleGoes DEF Goes, TodoOf, Launching
  <2>. QED BY <1>p, <2>1, <2>3, AloneTodo
<1>36. ASSUME NEW s \in Supervisors, Decides(s) PROVE Todo'
  <2>1. Alone(s) BY <1>0, <1>36, DecidesGoes, ClosesGoes, ActsAlone DEF
      Supervises, Goes
  <2>3. TodoOf(s)' BY <1>0, <1>36, DecidesGoes DEF Goes, TodoOf, Launching
  <2>. QED BY <1>p, <2>1, <2>3, AloneTodo
<1>37. ASSUME NEW s \in Supervisors, Harvests(s) PROVE Todo'
  <2>1. Alone(s) BY <1>0, <1>37, HarvestsGoes, ClosesGoes, ActsAlone DEF
      Supervises, Goes
  <2>3. TodoOf(s)' BY <1>0, <1>37, HarvestsGoes DEF Goes, TodoOf, Launching
  <2>. QED BY <1>p, <2>1, <2>3, AloneTodo
<1>38. ASSUME NEW s \in Supervisors, ChecksDelivery(s) PROVE Todo'
  <2>1. Alone(s) BY <1>0, <1>38, ChecksDeliveryGoes, ClosesGoes, ActsAlone DEF
      Supervises, Goes
  <2>3. TodoOf(s)' BY <1>0, <1>38, ChecksDeliveryGoes DEF Goes, TodoOf, Launching
  <2>. QED BY <1>p, <2>1, <2>3, AloneTodo
<1>39. ASSUME NEW s \in Supervisors, Pushes(s) PROVE Todo'
  <2>1. Alone(s) BY <1>0, <1>39, PushesGoes, ClosesGoes, ActsAlone DEF Supervises,
      Goes
  <2>3. TodoOf(s)' BY <1>0, <1>39, PushesGoes DEF Goes, TodoOf, Launching
  <2>. QED BY <1>p, <2>1, <2>3, AloneTodo
<1>40. ASSUME NEW s \in Supervisors, DeliveryFails(s) PROVE Todo'
  <2>1. Alone(s) BY <1>0, <1>40, ActsAlone
  <2>3. TodoOf(s)' BY <1>0, <1>40, DeliveryFailsGoes DEF Goes, TodoOf, Launching
  <2>. QED BY <1>p, <2>1, <2>3, AloneTodo
<1>41. ASSUME NEW s \in Supervisors, GivesUp(s) PROVE Todo'
  <2>1. Alone(s) BY <1>0, <1>41, GivesUpGoes, ClosesGoes, ActsAlone DEF
      Supervises, Goes
  <2>3. TodoOf(s)' BY <1>0, <1>41, GivesUpGoes DEF Goes, TodoOf, Launching
  <2>. QED BY <1>p, <2>1, <2>3, AloneTodo
<1>42. ASSUME NEW s \in Supervisors, Completes(s) PROVE Todo'
  <2>1. Alone(s) BY <1>0, <1>42, CompletesGoes, ClosesGoes, ActsAlone DEF
      Supervises, Goes
  <2>3. TodoOf(s)' BY <1>0, <1>42, CompletesGoes DEF Goes, TodoOf, Launching
  <2>. QED BY <1>p, <2>1, <2>3, AloneTodo
<1>43. ASSUME NEW s \in Supervisors, Exhausts(s) PROVE Todo'
  <2>1. Alone(s) BY <1>0, <1>43, ExhaustsGoes, ClosesGoes, ActsAlone DEF
      Supervises, Goes
  <2>3. TodoOf(s)' BY <1>0, <1>43, ExhaustsGoes DEF Goes, TodoOf, Launching
  <2>. QED BY <1>p, <2>1, <2>3, AloneTodo
<1>44. ASSUME NEW s \in Supervisors, StopsReviewers(s) PROVE Todo'
  <2>1. Alone(s) BY <1>0, <1>44, StopsReviewersGoes, ClosesGoes, ActsAlone DEF
      Supervises, Goes
  <2>3. TodoOf(s)' BY <1>0, <1>44, StopsReviewersGoes DEF Goes, TodoOf, Launching
  <2>. QED BY <1>p, <2>1, <2>3, AloneTodo
<1>45. ASSUME NEW s \in Supervisors, ReadsHead(s) PROVE Todo'
  <2>1. Alone(s) BY <1>0, <1>45, ReadsHeadGoes, ClosesGoes, ActsAlone DEF
      Supervises, Goes
  <2>3. TodoOf(s)' BY <1>0, <1>45, ReadsHeadGoes DEF Goes, TodoOf, Launching
  <2>. QED BY <1>p, <2>1, <2>3, AloneTodo
<1>46. ASSUME NEW s \in Supervisors, Prepares(s) PROVE Todo'
  <2>1. Alone(s) BY <1>0, <1>46, PreparesGoes, ClosesGoes, ActsAlone DEF
      Supervises, Goes
  <2>3. TodoOf(s)' BY <1>0, <1>46, PreparesGoes DEF Goes, TodoOf, Launching
  <2>. QED BY <1>p, <2>1, <2>3, AloneTodo
<1>47. ASSUME NEW s \in Supervisors, Returns(s) PROVE Todo'
  <2>1. Alone(s) BY <1>0, <1>47, ReturnsGoes, ClosesGoes, ActsAlone DEF
      Supervises, Goes
  <2>3. TodoOf(s)' BY <1>0, <1>47, ReturnsGoes DEF Goes, TodoOf, Launching
  <2>. QED BY <1>p, <2>1, <2>3, AloneTodo
<1>48. ASSUME NEW s \in Supervisors, CancelsBlocked(s) PROVE Todo'
  <2>1. Alone(s) BY <1>0, <1>48, CancelsBlockedGoes, ClosesGoes, ActsAlone DEF
      Supervises, Goes
  <2>3. TodoOf(s)' BY <1>0, <1>48, CancelsBlockedGoes DEF Goes, TodoOf, Launching
  <2>. QED BY <1>p, <2>1, <2>3, AloneTodo
<1>49. ASSUME NEW s \in Supervisors, Folds(s) PROVE Todo'
  <2>1. Alone(s) BY <1>0, <1>49, FoldsGoes, ClosesGoes, ActsAlone DEF Supervises,
      Goes
  <2>3. TodoOf(s)' BY <1>0, <1>49, FoldsGoes DEF Goes, TodoOf, Launching
  <2>. QED BY <1>p, <2>1, <2>3, AloneTodo
<1>50. ASSUME NEW s \in Supervisors, Reaps(s) PROVE Todo'
  <2>1. Alone(s) BY <1>0, <1>50, ReapsGoes, ClosesGoes, ActsAlone DEF Supervises,
      Goes
  <2>3. TodoOf(s)' BY <1>0, <1>50, ReapsGoes DEF Goes, TodoOf, Launching
  <2>. QED BY <1>p, <2>1, <2>3, AloneTodo
<1>51. ASSUME NEW s \in Supervisors, SetsBlocked(s) PROVE Todo'
  <2>1. Alone(s) BY <1>0, <1>51, SetsBlockedGoes, ClosesGoes, ActsAlone DEF
      Supervises, Goes
  <2>3. TodoOf(s)' BY <1>0, <1>51, SetsBlockedGoes DEF Goes, TodoOf, Launching
  <2>. QED BY <1>p, <2>1, <2>3, AloneTodo
<1>52. ASSUME NEW s \in Supervisors, Salvages(s) PROVE Todo'
  <2>1. Alone(s) BY <1>0, <1>52, SalvagesGoes, ClosesGoes, ActsAlone DEF
      Supervises, Goes
  <2>3. TodoOf(s)' BY <1>0, <1>52, SalvagesGoes DEF Goes, TodoOf, Launching
  <2>. QED BY <1>p, <2>1, <2>3, AloneTodo
<1>53. ASSUME NEW s \in Supervisors, CancelsOverdue(s) PROVE Todo'
  <2>1. Alone(s) BY <1>0, <1>53, CancelsOverdueGoes, ClosesGoes, ActsAlone DEF
      Supervises, Goes
  <2>3. TodoOf(s)' BY <1>0, <1>53, CancelsOverdueGoes DEF Goes, TodoOf, Launching
  <2>. QED BY <1>p, <2>1, <2>3, AloneTodo
<1>54. ASSUME NEW s \in Supervisors, Releases(s) PROVE Todo'
  <2>1. Alone(s) BY <1>0, <1>54, ReleasesGoes, ClosesGoes, ActsAlone DEF
      Supervises, Goes
  <2>3. TodoOf(s)' BY <1>0, <1>54, ReleasesGoes DEF Goes, TodoOf, Launching
  <2>. QED BY <1>p, <2>1, <2>3, AloneTodo
<1>55. ASSUME NEW s \in Supervisors, Retires(s) PROVE Todo'
  <2>1. Alone(s) BY <1>0, <1>55, RetiresGoes, ClosesGoes, ActsAlone DEF
      Supervises, Goes
  <2>3. TodoOf(s)' BY <1>0, <1>55, RetiresGoes DEF Goes, TodoOf, Launching
  <2>. QED BY <1>p, <2>1, <2>3, AloneTodo
<1>56. ASSUME NEW s \in Supervisors, Stumbles(s) PROVE Todo'
  <2>1. Alone(s) BY <1>0, <1>56, ActsAlone
  <2>3. TodoOf(s)' BY <1>0, <1>56, StumblesGoes DEF Goes, TodoOf, Launching
  <2>. QED BY <1>p, <2>1, <2>3, AloneTodo
<1>57. ASSUME NEW s \in Supervisors, RecordsError(s) PROVE Todo'
  <2>1. Alone(s) BY <1>0, <1>57, RecordsErrorGoes, ClosesGoes, ActsAlone DEF
      Supervises, Goes
  <2>3. TodoOf(s)' BY <1>0, <1>57, RecordsErrorGoes DEF Goes, TodoOf, Launching
  <2>. QED BY <1>p, <2>1, <2>3, AloneTodo
<1>58. ASSUME NEW s \in Supervisors, Crashes(s) PROVE Todo'
  <2>1. Alone(s) BY <1>0, <1>58, ActsAlone
  <2>3. TodoOf(s)' BY <1>0, <1>58, CrashesGoes DEF Goes, TodoOf, Launching
  <2>. QED BY <1>p, <2>1, <2>3, AloneTodo
<1>59. CASE Agents
  BY <1>59, <1>1, <1>2, <1>3, <1>4, <1>5, <1>6, <1>7, <1>8, <1>9, RunAssumption
      DEF Agents
<1>60. CASE Operator
  BY <1>60, <1>10, <1>11, <1>12, <1>13, <1>14, <1>15 DEF Operator
<1>61. ASSUME NEW s \in Supervisors, Supervises(s) PROVE Todo'
  BY <1>61, <1>17, <1>18, <1>20, <1>21, <1>22, <1>23, <1>24, <1>25, <1>26,
      <1>27, <1>29, <1>30, <1>31, <1>32, <1>33, <1>34, <1>35, <1>36, <1>37,
      <1>38, <1>39, <1>41, <1>42, <1>43, <1>44, <1>45, <1>46, <1>47, <1>48,
      <1>49, <1>50, <1>51, <1>52, <1>53, <1>54, <1>55, <1>57 DEF Supervises
<1>. QED BY <1>59, <1>60, <1>61, <1>16, <1>19, <1>28, <1>40, <1>56, <1>58 DEF
    Next

\* Nothing is signalled at the start.
LEMMA SignalsInit ==
  ASSUME Init
  PROVE  Signals
<1>1. Life BY TypedInit DEF Life
<1>2. \A s \in Supervisors : at(s) \in {"idle", "none"}
  BY Written DEF Init, at, Script
<1>3. Todo BY <1>2 DEF Todo, TodoOf, Launching
<1>4. \A r \in Roles, c \in Cycles : ready[r][c] = None BY DEF Init
<1>5. TakenLast BY <1>1, <1>4, Attempts, Names DEF TakenLast, Took, Life
<1>6. CancelledWithAll BY Names DEF CancelledWithAll, Init
<1>7. Future BY <1>4, Names DEF Future, Init, Fresh
<1>. QED BY <1>1, <1>3, <1>5, <1>6, <1>7 DEF Signals

\* What is said of signals is inductive.
LEMMA SignalsStep ==
  ASSUME Signals, [Next]_vars
  PROVE  Signals'
<1>1. Life' BY LifeStep DEF Signals
<1>2. CASE Next
  BY <1>1, <1>2, FutureStep, CancelledStep, TakenStep, TodoStep DEF Signals
<1>3. CASE UNCHANGED vars
  <2>1. Future' BY <1>3, NothingMoves DEF Signals, Future
  <2>2. CancelledWithAll' /\ TakenLast'
    BY <1>3, NothingMoves
    DEF Signals, CancelledWithAll, TakenLast, Took, Attempt, NobodyWaits, Behind
  <2>3. Todo'
    BY <1>3, NothingMoves
    DEF Signals, Todo, TodoOf, SignalOf, Attempt, NobodyWaits, Behind
  <2>. QED BY <1>1, <2>1, <2>2, <2>3 DEF Signals
<1>. QED BY <1>2, <1>3

\* A signal is consumed only when the roles it calls for have been started,
\* however many supervisors there are and wherever they stop: what one of them
\* has in hand names whom it has still to start (Todo), and a signal taken with
\* the cancellation of its role leaves nobody behind it waiting
\* (CancelledWithAll; _supervise_once, "consume last").
THEOREM ConsumedLastHolds == Spec => []ConsumedLast
<1>1. Init => Signals BY SignalsInit
<1>2. Signals /\ [Next]_vars => Signals' BY SignalsStep
<1>3. Signals => ConsumedLast
  <2>. SUFFICES ASSUME Signals PROVE ConsumedLast OBVIOUS
  <2>1. Attempt(Manager) = 1 /\ Attempt(Worker) = run.cycle
    BY Attempts DEF Signals, Life
  <2>. QED BY <2>1, Names
           DEF Signals, TakenLast, Took, NobodyWaits, Behind, ConsumedLast
<1>. QED BY <1>1, <1>2, <1>3, PTL DEF Spec

-----------------------------------------------------------------------------
\* A reviewer that has not been started has no terminal to forget and was never
\* retired; one that was retired has no agent left, unless it may be resumed.
Waiting(r) == status[r] \in {"requested", "starting"}
Retired ==
  \A r \in Reviewers :
    /\ Waiting(r) => agent[r] = "none" /\ r \notin reconciled
    /\ r \in reconciled => agent[r] # "live"
Unforgotten == \A r \in Reviewers : agent[r] = "live" => agent'[r] # "none"

\* A step that starts and stops nobody retires nobody.
LEMMA SameRetired ==
  ASSUME Retired, UNCHANGED <<status, agent, reconciled>>
  PROVE  Retired' /\ Unforgotten
BY DEF Retired, Unforgotten, Waiting

\* A step that closes terminals, ends roles, or notes the children it retires.
LEMMA ClosedRetired ==
  ASSUME Typed, Retired, NEW R,
         agent' = Closed(R) \/ UNCHANGED agent,
         \A r \in Reviewers : Waiting(r)' => Waiting(r),
         \/ UNCHANGED reconciled
         \/ /\ agent' = Closed(R) /\ reconciled' = reconciled \union R
            /\ \A r \in R : agent[r] # "none"
  PROVE  Retired' /\ Unforgotten
<1>1. Reviewers \subseteq Roles /\ agent \in [Roles -> {"none", "live", "gone"}]
  BY Names DEF Typed, RowTypes
<1>2. \A r \in Reviewers : \/ agent'[r] = agent[r]
                             \/ (agent[r] = "live" /\ agent'[r] = "gone")
  BY <1>1 DEF Closed
<1>3. \A r \in Reviewers : agent' = Closed(R) /\ r \in R => agent'[r] # "live"
  BY <1>1 DEF Closed
<1>. QED BY <1>2, <1>3 DEF Retired, Unforgotten

\* A role that ends makes nobody wait.
LEMMA EndsNoWait ==
  ASSUME Typed, NEW r \in Roles, NEW target \in {"cancelled", "failed"},
         status' = Ended(r, target)
  PROVE  \A q \in Reviewers : Waiting(q)' => Waiting(q)
BY Names DEF Ended, Waiting

\* Every step keeps who is retired, and forgets no live reviewer.
LEMMA RetiredStep ==
  ASSUME ~ResumesRetired, Life, Retired, Next
  PROVE  Retired' /\ Unforgotten
<1>. DEFINE G == Retired' /\ Unforgotten
<1>0. Typed /\ RowTypes /\ LocalTypes /\ Scripted
  BY DEF Life, Typed
<1>00. Reviewers \subseteq Roles /\ Worker \notin Reviewers /\ Manager \notin Reviewers
  BY Names
<1>. SUFFICES G OBVIOUS
<1>. HIDE DEF G
<1>1. ASSUME WorkerCommits PROVE G
  BY <1>1, SameRetired DEF WorkerCommits, rows, G
<1>2. ASSUME ManagerCommits PROVE G
  BY <1>2, SameRetired DEF ManagerCommits, rows, G
<1>3. ASSUME ManagerReports PROVE G
  BY <1>3, SameRetired DEF ManagerReports, rows, G
<1>4. ASSUME NEW r \in Reviewers, ReviewerReports(r) PROVE G
  BY <1>4, SameRetired DEF ReviewerReports, rows, G
<1>5. ASSUME NEW r \in Roles, Blocks(r) PROVE G
  BY <1>5, SameRetired DEF Blocks, rows, G
<1>6. ASSUME WorkerVerifies PROVE G
  BY <1>6, SameRetired DEF WorkerVerifies, rows, G
<1>7. ASSUME WorkerReports PROVE G
  BY <1>7, SameRetired DEF WorkerReports, rows, G
<1>8. ASSUME NEW r \in Roles, ReportsResult(r) PROVE G
  BY <1>8, SameRetired DEF ReportsResult, rows, G
<1>9. ASSUME NEW r \in Roles, AgentDies(r) PROVE G
  BY <1>0, <1>9, ClosedRetired DEF AgentDies, Waiting, G
<1>10. ASSUME NEW r \in Roles, OperatorCancels(r) PROVE G
  <2>1. \A q \in Reviewers : Waiting(q)' => Waiting(q)
    BY <1>0, <1>10, EndsNoWait DEF OperatorCancels
  <2>. QED BY <1>0, <1>10, <2>1, ClosedRetired DEF OperatorCancels, G
<1>11. ASSUME NEW r \in Roles, CleansStart(r) PROVE G
  <2>1. \A q \in Reviewers : Waiting(q)' => Waiting(q)
    BY <1>0, <1>11, EndsNoWait DEF CleansStart
  <2>. QED BY <1>0, <1>11, <2>1, ClosedRetired DEF CleansStart, G
<1>12. ASSUME NEW r \in Roles, OperatorResumes(r) PROVE G
  BY <1>0, <1>00, <1>12 DEF OperatorResumes, RowTypes, Retired, Unforgotten,
      Waiting, G
<1>13. ASSUME NEW s \in Coordinators, Attaches(s) PROVE G
  BY <1>13, SameRetired DEF Attaches, rows, G
<1>14. ASSUME NEW s \in Coordinators, Retries(s) PROVE G
  BY <1>14, SameRetired DEF Retries, rows, G
<1>15. ASSUME NEW s \in Manual, StartsByHand(s) PROVE G
  BY <1>15, SameRetired DEF StartsByHand, rows, G
<1>16. ASSUME TimePasses PROVE G
  BY <1>16, SameRetired DEF TimePasses, rows, G
<1>17. ASSUME NEW s \in Supervisors, Closes(s) PROVE G
  BY <1>17, SameRetired DEF Closes, rows, G
<1>18. ASSUME NEW s \in Supervisors, Begins(s) PROVE G
  BY <1>18, SameRetired DEF Begins, rows, G
<1>19. ASSUME NEW s \in Supervisors, NEW r \in Roles, Overdue(s, r) PROVE G
  BY <1>19, SameRetired DEF Overdue, rows, G
<1>20. ASSUME NEW s \in Supervisors, NothingOverdue(s) PROVE G
  BY <1>20, SameRetired DEF NothingOverdue, rows, G
<1>21. ASSUME NEW s \in Supervisors, ReadsSignals(s) PROVE G
  BY <1>21, SameRetired DEF ReadsSignals, rows, G
<1>22. ASSUME NEW s \in Supervisors, HandsOff(s) PROVE G
  BY <1>22, SameRetired DEF HandsOff, rows, G
<1>23. ASSUME NEW s \in Supervisors, Finishes(s) PROVE G
  <2>1. \A q \in Reviewers : Waiting(q)' => Waiting(q)
    BY <1>0, <1>00, <1>23 DEF Finishes, Waiting, RowTypes
  <2>. QED BY <1>0, <1>23, <2>1, ClosedRetired DEF Finishes, G
<1>24. ASSUME NEW s \in Supervisors, Launches(s) PROVE G
  BY <1>24, SameRetired DEF Launches, rows, G
<1>25. ASSUME NEW s \in Supervisors, Asks(s) PROVE G
  BY <1>25, SameRetired DEF Asks, rows, G
<1>26. ASSUME NEW s \in Supervisors, BeginsStart(s) PROVE G
  <2>1. \A q \in Reviewers : Waiting(q)' => Waiting(q)
    BY <1>0, <1>00, <1>26 DEF BeginsStart, Waiting, RowTypes
  <2>. QED BY <1>0, <1>26, <2>1, ClosedRetired DEF BeginsStart, G
<1>27. ASSUME NEW s \in Supervisors, Creates(s) PROVE G
  <2>1. CASE status[local[s].child] # "starting"
    BY <1>27, <2>1, SameRetired DEF Creates, G
  <2>2. CASE status[local[s].child] = "starting"
    <3>1. local[s].child \in Roles BY <1>0, Names DEF LocalTypes, Local
    <3>2. /\ status' = [status EXCEPT ![local[s].child] = "running"]
          /\ agent' = [agent EXCEPT ![local[s].child] = "live"]
          /\ UNCHANGED reconciled
      BY <1>27, <2>2 DEF Creates
    <3>. QED BY <1>0, <1>00, <2>2, <3>1, <3>2
             DEF RowTypes, Retired, Unforgotten, Waiting, G
  <2>. QED BY <2>1, <2>2
<1>28. ASSUME NEW s \in Supervisors, CreateFails(s) PROVE G
  <2>1. local[s].child \in Roles BY <1>0, Names DEF LocalTypes, Local
  <2>2. \A q \in Reviewers : Waiting(q)' => Waiting(q)
    BY <1>0, <1>28, <2>1, EndsNoWait DEF CreateFails
  <2>. QED BY <1>0, <1>28, <2>2, ClosedRetired DEF CreateFails, G
<1>29. ASSUME NEW s \in Supervisors, Consumes(s) PROVE G
  BY <1>29, SameRetired DEF Consumes, rows, G
<1>30. ASSUME NEW s \in Supervisors, Works(s) PROVE G
  BY <1>30, SameRetired DEF Works, rows, G
<1>31. ASSUME NEW s \in Supervisors, Reworks(s) PROVE G
  BY <1>0, <1>00, <1>31 DEF Reworks, RowTypes, Retired, Unforgotten, Waiting, G
<1>32. ASSUME NEW s \in Supervisors, Lists(s) PROVE G
  BY <1>32, SameRetired DEF Lists, rows, G
<1>33. ASSUME NEW s \in Supervisors, Collects(s) PROVE G
  <2>1. \A q \in Reviewers : Waiting(q)' => Waiting(q)
    BY <1>0, <1>00, <1>33 DEF Collects, Waiting, RowTypes
  <2>. QED BY <1>0, <1>33, <2>1, ClosedRetired DEF Collects, G
<1>34. ASSUME NEW s \in Supervisors, Waits(s) PROVE G
  BY <1>34, SameRetired DEF Waits, rows, G
<1>35. ASSUME NEW s \in Supervisors, FindsDeadRole(s) PROVE G
  BY <1>35, SameRetired DEF FindsDeadRole, rows, G
<1>36. ASSUME NEW s \in Supervisors, Decides(s) PROVE G
  BY <1>36, SameRetired DEF Decides, rows, G
<1>37. ASSUME NEW s \in Supervisors, Harvests(s) PROVE G
  BY <1>37, SameRetired DEF Harvests, rows, G
<1>38. ASSUME NEW s \in Supervisors, ChecksDelivery(s) PROVE G
  BY <1>38, SameRetired DEF ChecksDelivery, rows, G
<1>39. ASSUME NEW s \in Supervisors, Pushes(s) PROVE G
  BY <1>39, SameRetired DEF Pushes, rows, G
<1>40. ASSUME NEW s \in Supervisors, DeliveryFails(s) PROVE G
  BY <1>40, SameRetired DEF DeliveryFails, rows, G
<1>41. ASSUME NEW s \in Supervisors, GivesUp(s) PROVE G
  BY <1>41, SameRetired DEF GivesUp, rows, G
<1>42. ASSUME NEW s \in Supervisors, Completes(s) PROVE G
  BY <1>42, SameRetired DEF Completes, rows, G
<1>43. ASSUME NEW s \in Supervisors, Exhausts(s) PROVE G
  BY <1>43, SameRetired DEF Exhausts, rows, G
<1>44. ASSUME NEW s \in Supervisors, StopsReviewers(s) PROVE G
  <2>1. Unreconciled \subseteq Reviewers /\ \A r \in Unreconciled : agent[r] # "none"
    BY DEF Unreconciled
  <2>. QED BY <1>0, <1>44, <2>1, ClosedRetired DEF StopsReviewers, Waiting, G
<1>45. ASSUME NEW s \in Supervisors, ReadsHead(s) PROVE G
  BY <1>45, SameRetired DEF ReadsHead, rows, G
<1>46. ASSUME NEW s \in Supervisors, Prepares(s) PROVE G
  <2>1. CASE ~MayReopen(s) BY <1>46, <2>1, SameRetired DEF Prepares, G
  <2>2. CASE MayReopen(s)
    <3>1. /\ \A r \in Reviewers : agent'[r] = "none" /\ r \notin reconciled'
          /\ \A r \in Reviewers : r \in reconciled
      BY <1>00, <1>46, <2>2 DEF Prepares, MayReopen, Children
    <3>. QED BY <3>1 DEF Retired, Unforgotten, G
  <2>. QED BY <2>1, <2>2
<1>47. ASSUME NEW s \in Supervisors, Returns(s) PROVE G
  BY <1>47, SameRetired DEF Returns, rows, G
<1>48. ASSUME NEW s \in Supervisors, CancelsBlocked(s) PROVE G
  <2>1. local[s].who \in Roles BY <1>0 DEF LocalTypes, Local
  <2>2. \A q \in Reviewers : Waiting(q)' => Waiting(q)
    BY <1>0, <1>48, <2>1, EndsNoWait DEF CancelsBlocked, Waiting
  <2>. QED BY <1>0, <1>48, <2>2, ClosedRetired DEF CancelsBlocked, G
<1>49. ASSUME NEW s \in Supervisors, Folds(s) PROVE G
  BY <1>49, SameRetired DEF Folds, rows, G
<1>50. ASSUME NEW s \in Supervisors, Reaps(s) PROVE G
  BY <1>0, <1>50, ClosedRetired DEF Reaps, Waiting, G
<1>51. ASSUME NEW s \in Supervisors, SetsBlocked(s) PROVE G
  BY <1>51, SameRetired DEF SetsBlocked, rows, G
<1>52. ASSUME NEW s \in Supervisors, Salvages(s) PROVE G
  BY <1>52, SameRetired DEF Salvages, rows, G
<1>53. ASSUME NEW s \in Supervisors, CancelsOverdue(s) PROVE G
  <2>1. local[s].who \in Roles BY <1>0 DEF LocalTypes, Local
  <2>2. \A q \in Reviewers : Waiting(q)' => Waiting(q)
    BY <1>0, <1>53, <2>1, EndsNoWait DEF CancelsOverdue, Waiting
  <2>. QED BY <1>0, <1>53, <2>2, ClosedRetired DEF CancelsOverdue, G
<1>54. ASSUME NEW s \in Supervisors, Releases(s) PROVE G
  BY <1>54, SameRetired DEF Releases, rows, G
<1>55. ASSUME NEW s \in Supervisors, Retires(s) PROVE G
  <2>. DEFINE there == {r \in Children : agent[r] # "none"}
  <2>1. \/ UNCHANGED <<agent, reconciled>>
        \/ agent' = Closed(there) /\ reconciled' = reconciled \union there
    BY <1>55 DEF Retires
  <2>2. UNCHANGED status BY <1>55 DEF Retires
  <2>3. \A r \in there : agent[r] # "none" OBVIOUS
  <2>. QED BY <1>0, <2>1, <2>2, <2>3, SameRetired, ClosedRetired DEF Waiting, G
<1>56. ASSUME NEW s \in Supervisors, Stumbles(s) PROVE G
  BY <1>56, SameRetired DEF Stumbles, rows, G
<1>57. ASSUME NEW s \in Supervisors, RecordsError(s) PROVE G
  BY <1>57, SameRetired DEF RecordsError, rows, G
<1>58. ASSUME NEW s \in Supervisors, Crashes(s) PROVE G
  BY <1>58, SameRetired DEF Crashes, rows, G
<1>59. CASE Agents
  BY <1>59, <1>1, <1>2, <1>3, <1>4, <1>5, <1>6, <1>7, <1>8, <1>9, RunAssumption
      DEF Agents
<1>60. CASE Operator
  BY <1>60, <1>10, <1>11, <1>12, <1>13, <1>14, <1>15 DEF Operator
<1>61. ASSUME NEW s \in Supervisors, Supervises(s) PROVE G
  BY <1>61, <1>17, <1>18, <1>20, <1>21, <1>22, <1>23, <1>24, <1>25, <1>26,
      <1>27, <1>29, <1>30, <1>31, <1>32, <1>33, <1>34, <1>35, <1>36, <1>37,
      <1>38, <1>39, <1>41, <1>42, <1>43, <1>44, <1>45, <1>46, <1>47, <1>48,
      <1>49, <1>50, <1>51, <1>52, <1>53, <1>54, <1>55, <1>57 DEF Supervises
<1>. QED BY <1>59, <1>60, <1>61, <1>16, <1>19, <1>28, <1>40, <1>56, <1>58 DEF
    Next

\* No step forgets the terminal of a reviewer whose agent still runs, where no
\* role is resumed after its retirement: the next cycle forgets the terminals of
\* the reviewers that are reconciled, and only stopping or retiring them makes
\* them so (prepare_next_review_cycle, stop_role_resources).
THEOREM NoReviewerIsForgottenHolds ==
  ~ResumesRetired => (Spec => NoReviewerIsForgotten)
<1>. SUFFICES ASSUME ~ResumesRetired PROVE Spec => NoReviewerIsForgotten
  OBVIOUS
<1>. DEFINE Inv == Life /\ Retired
<1>1. Init => Inv
  <2>. SUFFICES ASSUME Init PROVE Inv OBVIOUS
  <2>1. Life BY TypedInit DEF Life
  <2>2. Retired BY Names DEF Init, Retired, Waiting
  <2>. QED BY <2>1, <2>2
<1>2. Inv /\ [Next]_vars
        => Inv' /\ [\A r \in Reviewers : agent[r] = "live" => agent'[r] # "none"]_vars
  <2>. SUFFICES ASSUME Inv, [Next]_vars
                PROVE  Inv' /\ [Unforgotten]_vars
    BY DEF Unforgotten
  <2>1. Life' BY LifeStep
  <2>2. CASE Next BY <2>1, <2>2, RetiredStep
  <2>3. CASE UNCHANGED vars
    BY <2>1, <2>3, NothingMoves, SameRetired
  <2>. QED BY <2>2, <2>3
<1>. QED BY <1>1, <1>2, PTL DEF Spec, NoReviewerIsForgotten

-----------------------------------------------------------------------------
\* One coordinator at a time: where nobody supervises by hand, whoever is in an
\* iteration is the coordinator of the run, and where it is says what became of
\* the run so far.
Working == {"idle", "watch", "signals", "blocker", "fold", "handoff", "finish",
            "launch", "ask", "start", "create", "work", "reopen", "list",
            "collect", "decide", "harvest", "check", "push", "complete",
            "giveup", "exhaust", "stop", "read", "prepare", "rework", "rest"}
Fits(s) ==
  /\ at(s) \in Working => run.status = "running"
  /\ at(s) \in {"block", "stumble"} => run.status # "completed"
  /\ at(s) \in {"salvage", "cancel", "reap", "release"}
       => run.status \in {"blocked", "failed"}
  /\ at(s) \in {"retire", "close"} => run.status # "running"
Kept == run.status = "running" => ~run.released
Owned ==
  /\ \A s \in Supervisors : at(s) # "none" => s = owner
  /\ \A s \in Supervisors : Fits(s)
  /\ Kept

\* The coordinator acts, and nobody else is there.
LEMMA OwnerActs ==
  ASSUME Owned, NEW s \in Supervisors, Alone(s), at(s) # "none",
         UNCHANGED owner, Fits(s)', Kept'
  PROVE  Owned'
<1>1. \A t \in Supervisors : t # s => at(t) = "none" BY DEF Owned
<1>2. \A t \in Supervisors : t # s => at(t)' = "none" BY <1>1 DEF Alone
<1>3. \A t \in Supervisors : at(t)' = "none" => Fits(t)' BY DEF Fits, Working
<1>. QED BY <1>2, <1>3 DEF Owned

\* Agents, the operator and the clock leave the coordinator where it is.
LEMMA NobodyActs ==
  ASSUME Typed, Owned, UNCHANGED <<pc, owner>>, run'.status = run.status,
         run'.released = run.released
  PROVE  Owned'
<1>1. \A t \in Supervisors : at(t)' = at(t) BY NobodyGoes DEF Typed
<1>. QED BY <1>1 DEF Owned, Fits, Kept

\* No step makes a second coordinator, if nobody is started by hand.
LEMMA OwnedStep ==
  ASSUME Manual = {}, Life, Owned, Next
  PROVE  Owned'
<1>0. /\ Typed /\ Scripted /\ run \in Runs /\ Supervisors = Coordinators
      /\ \A s \in Supervisors : Fits(s)
      /\ Kept
  BY DEF Life, Typed, RunTypes, Owned, Supervisors
<1>1. ASSUME WorkerCommits PROVE Owned'
  BY <1>0, <1>1, NobodyActs DEF WorkerCommits
<1>2. ASSUME ManagerCommits PROVE Owned'
  BY <1>0, <1>2, NobodyActs DEF ManagerCommits
<1>3. ASSUME ManagerReports PROVE Owned'
  BY <1>0, <1>3, NobodyActs DEF ManagerReports
<1>4. ASSUME NEW r \in Reviewers, ReviewerReports(r) PROVE Owned'
  BY <1>0, <1>4, NobodyActs DEF ReviewerReports
<1>5. ASSUME NEW r \in Roles, Blocks(r) PROVE Owned'
  BY <1>0, <1>5, NobodyActs DEF Blocks
<1>6. ASSUME WorkerVerifies PROVE Owned'
  BY <1>0, <1>6, NobodyActs DEF WorkerVerifies
<1>7. ASSUME WorkerReports PROVE Owned'
  BY <1>0, <1>7, NobodyActs DEF WorkerReports
<1>8. ASSUME NEW r \in Roles, ReportsResult(r) PROVE Owned'
  BY <1>0, <1>8, NobodyActs DEF ReportsResult
<1>9. ASSUME NEW r \in Roles, AgentDies(r) PROVE Owned'
  BY <1>0, <1>9, NobodyActs DEF AgentDies
<1>10. ASSUME NEW r \in Roles, OperatorCancels(r) PROVE Owned'
  BY <1>0, <1>10, NobodyActs DEF OperatorCancels
<1>11. ASSUME NEW r \in Roles, CleansStart(r) PROVE Owned'
  BY <1>0, <1>11, NobodyActs DEF CleansStart
<1>12. ASSUME NEW r \in Roles, OperatorResumes(r) PROVE Owned'
  BY <1>0, <1>12, NobodyActs DEF OperatorResumes
<1>13. ASSUME NEW s \in Coordinators, Attaches(s) PROVE Owned'
  <2>1. Goes(s, {"none"}, {"idle"}) BY <1>0, <1>13, AttachesGoes
  <2>2. /\ run.status = "running" /\ pc[owner] = <<>> /\ owner' = s
        /\ UNCHANGED run
    BY <1>0, <1>13 DEF Attaches, Kept
  <2>3. owner \in Supervisors BY <1>0 DEF Typed, CountTypes
  <2>4. \A t \in Supervisors : at(t) = "none"
    BY <1>0, <2>2, <2>3, Here DEF Owned
  <2>. QED BY <1>0, <2>1, <2>2, <2>4 DEF Goes, Owned, Fits, Working, Kept
<1>14. ASSUME NEW s \in Coordinators, Retries(s) PROVE Owned'
  <2>1. \A t \in Supervisors :
          at(t)' = IF t = s THEN "idle" ELSE IF t = owner THEN "none" ELSE at(t)
    BY <1>0, <1>14, RetriesGoes
  <2>2. \A t \in Supervisors : t # s => at(t)' = "none" BY <2>1 DEF Owned
  <2>3. run'.status = "running" /\ run'.released = FALSE /\ owner' = s
    BY <1>0, <1>14 DEF Retries, Runs
  <2>. QED BY <2>1, <2>2, <2>3 DEF Owned, Fits, Working, Kept
<1>15. ASSUME NEW s \in Manual, StartsByHand(s) PROVE Owned'
  BY <1>15
<1>16. ASSUME TimePasses PROVE Owned'
  <2>1. run'.status = run.status /\ run'.released = run.released
    BY <1>0, <1>16 DEF TimePasses, Runs
  <2>. QED BY <1>0, <1>16, <2>1, NobodyActs DEF TimePasses
<1>17. ASSUME NEW s \in Supervisors, Closes(s) PROVE Owned'
  <2>1. at(s) = "close" /\ \A t \in Supervisors :
          at(t)' = "none" \/ (at(t)' = at(t) /\ local'[t] = local[t])
    BY <1>0, <1>17, ClosesAlone, Here DEF Closes
  <2>2. run.status # "running" /\ run'.status = run.status /\ UNCHANGED owner
    BY <1>0, <1>17, <2>1 DEF Fits, Closes, Runs
  <2>3. \A t \in Supervisors : Fits(t)'
    BY <1>0, <2>1, <2>2 DEF Fits, Working
  <2>. QED BY <2>1, <2>2, <2>3 DEF Owned, Kept
<1>18. ASSUME NEW s \in Supervisors, Begins(s) PROVE Owned'
  <2>1. Alone(s) BY <1>0, <1>18, BeginsGoes, ClosesGoes, ActsAlone DEF Supervises,
      Goes
  <2>2. at(s) # "none" /\ UNCHANGED owner BY <1>0, <1>18, BeginsGoes DEF Goes,
      Begins
  <2>4. /\ run.status = "running" /\ UNCHANGED run
    BY <1>0, <1>18, BeginsGoes DEF Goes, Fits, Working, Begins
  <2>5. Then(s, <<"watch">>) BY <1>18, <2>4 DEF Begins
  <2>6. at(s)' = "watch" BY <1>0, <2>5, Written, GoesThen DEF Goes
  <2>3. Fits(s)' /\ Kept' BY <1>0, <2>4, <2>6 DEF Fits, Working, Kept
  <2>. QED BY <2>1, <2>2, <2>3, OwnerActs
<1>19. ASSUME NEW s \in Supervisors, NEW r \in Roles, Overdue(s, r) PROVE Owned'
  <2>1. Alone(s) BY <1>0, <1>19, ActsAlone
  <2>2. at(s) # "none" /\ UNCHANGED owner BY <1>0, <1>19, OverdueGoes DEF Goes,
      Overdue
  <2>3. Fits(s)' /\ Kept' BY <1>0, <1>19, OverdueGoes DEF Goes, Fits, Working,
      Kept, Overdue
  <2>. QED BY <2>1, <2>2, <2>3, OwnerActs
<1>20. ASSUME NEW s \in Supervisors, NothingOverdue(s) PROVE Owned'
  <2>1. Alone(s) BY <1>0, <1>20, NothingOverdueGoes, ClosesGoes, ActsAlone DEF
      Supervises, Goes
  <2>2. at(s) # "none" /\ UNCHANGED owner BY <1>0, <1>20, NothingOverdueGoes DEF
      Goes, NothingOverdue
  <2>3. Fits(s)' /\ Kept' BY <1>0, <1>20, NothingOverdueGoes DEF Goes, Fits,
      Working, Kept, NothingOverdue
  <2>. QED BY <2>1, <2>2, <2>3, OwnerActs
<1>21. ASSUME NEW s \in Supervisors, ReadsSignals(s) PROVE Owned'
  <2>1. Alone(s) BY <1>0, <1>21, ReadsSignalsGoes, ClosesGoes, ActsAlone DEF
      Supervises, Goes
  <2>2. at(s) # "none" /\ UNCHANGED owner BY <1>0, <1>21, ReadsSignalsGoes DEF
      Goes, ReadsSignals
  <2>3. Fits(s)' /\ Kept' BY <1>0, <1>21, ReadsSignalsGoes DEF Goes, Fits,
      Working, Kept, ReadsSignals
  <2>. QED BY <2>1, <2>2, <2>3, OwnerActs
<1>22. ASSUME NEW s \in Supervisors, HandsOff(s) PROVE Owned'
  <2>1. Alone(s) BY <1>0, <1>22, HandsOffGoes, ClosesGoes, ActsAlone DEF
      Supervises, Goes
  <2>2. at(s) # "none" /\ UNCHANGED owner BY <1>0, <1>22, HandsOffGoes DEF Goes,
      HandsOff
  <2>3. Fits(s)' /\ Kept' BY <1>0, <1>22, HandsOffGoes DEF Goes, Fits, Working,
      Kept, HandsOff
  <2>. QED BY <2>1, <2>2, <2>3, OwnerActs
<1>23. ASSUME NEW s \in Supervisors, Finishes(s) PROVE Owned'
  <2>1. Alone(s) BY <1>0, <1>23, FinishesGoes, ClosesGoes, ActsAlone DEF
      Supervises, Goes
  <2>2. at(s) # "none" /\ UNCHANGED owner BY <1>0, <1>23, FinishesGoes DEF Goes,
      Finishes
  <2>3. Fits(s)' /\ Kept' BY <1>0, <1>23, FinishesGoes DEF Goes, Fits, Working,
      Kept, Finishes
  <2>. QED BY <2>1, <2>2, <2>3, OwnerActs
<1>24. ASSUME NEW s \in Supervisors, Launches(s) PROVE Owned'
  <2>1. Alone(s) BY <1>0, <1>24, LaunchesGoes, ClosesGoes, ActsAlone DEF
      Supervises, Goes
  <2>2. at(s) # "none" /\ UNCHANGED owner BY <1>0, <1>24, LaunchesGoes DEF Goes,
      Launches
  <2>3. Fits(s)' /\ Kept' BY <1>0, <1>24, LaunchesGoes DEF Goes, Fits, Working,
      Kept, Launches
  <2>. QED BY <2>1, <2>2, <2>3, OwnerActs
<1>25. ASSUME NEW s \in Supervisors, Asks(s) PROVE Owned'
  <2>1. Alone(s) BY <1>0, <1>25, AsksGoes, ClosesGoes, ActsAlone DEF Supervises,
      Goes
  <2>2. at(s) # "none" /\ UNCHANGED owner BY <1>0, <1>25, AsksGoes DEF Goes, Asks
  <2>3. Fits(s)' /\ Kept' BY <1>0, <1>25, AsksGoes DEF Goes, Fits, Working, Kept,
      Asks
  <2>. QED BY <2>1, <2>2, <2>3, OwnerActs
<1>26. ASSUME NEW s \in Supervisors, BeginsStart(s) PROVE Owned'
  <2>1. Alone(s) BY <1>0, <1>26, BeginsStartGoes, ClosesGoes, ActsAlone DEF
      Supervises, Goes
  <2>2. at(s) # "none" /\ UNCHANGED owner BY <1>0, <1>26, BeginsStartGoes DEF
      Goes, BeginsStart
  <2>3. Fits(s)' /\ Kept' BY <1>0, <1>26, BeginsStartGoes DEF Goes, Fits, Working,
      Kept, BeginsStart
  <2>. QED BY <2>1, <2>2, <2>3, OwnerActs
<1>27. ASSUME NEW s \in Supervisors, Creates(s) PROVE Owned'
  <2>1. Alone(s) BY <1>0, <1>27, CreatesGoes, ClosesGoes, ActsAlone DEF
      Supervises, Goes
  <2>2. at(s) # "none" /\ UNCHANGED owner BY <1>0, <1>27, CreatesGoes DEF Goes,
      Creates
  <2>3. Fits(s)' /\ Kept' BY <1>0, <1>27, CreatesGoes DEF Goes, Fits, Working,
      Kept, Creates
  <2>. QED BY <2>1, <2>2, <2>3, OwnerActs
<1>28. ASSUME NEW s \in Supervisors, CreateFails(s) PROVE Owned'
  <2>1. Alone(s) BY <1>0, <1>28, ActsAlone
  <2>2. at(s) # "none" /\ UNCHANGED owner BY <1>0, <1>28, CreateFailsGoes DEF
      Goes, CreateFails
  <2>3. Fits(s)' /\ Kept' BY <1>0, <1>28, CreateFailsGoes DEF Goes, Fits, Working,
      Kept, CreateFails
  <2>. QED BY <2>1, <2>2, <2>3, OwnerActs
<1>29. ASSUME NEW s \in Supervisors, Consumes(s) PROVE Owned'
  <2>1. Alone(s) BY <1>0, <1>29, ConsumesGoes, ClosesGoes, ActsAlone DEF
      Supervises, Goes
  <2>2. at(s) # "none" /\ UNCHANGED owner BY <1>0, <1>29, ConsumesGoes DEF Goes,
      Consumes
  <2>4. run' = Cleared BY <1>29 DEF Consumes, Rests
  <2>5. run'.status = run.status /\ run'.released = run.released
    BY <1>0, <2>4, ClearedRun DEF Typed
  <2>3. Fits(s)' /\ Kept'
    BY <1>0, <2>5, <1>29, ConsumesGoes DEF Goes, Fits, Working, Kept
  <2>. QED BY <2>1, <2>2, <2>3, OwnerActs
<1>30. ASSUME NEW s \in Supervisors, Works(s) PROVE Owned'
  <2>1. Alone(s) BY <1>0, <1>30, WorksGoes, ClosesGoes, ActsAlone DEF Supervises,
      Goes
  <2>2. at(s) # "none" /\ UNCHANGED owner BY <1>0, <1>30, WorksGoes DEF Goes,
      Works
  <2>3. Fits(s)' /\ Kept' BY <1>0, <1>30, WorksGoes DEF Goes, Fits, Working, Kept,
      Works
  <2>. QED BY <2>1, <2>2, <2>3, OwnerActs
<1>31. ASSUME NEW s \in Supervisors, Reworks(s) PROVE Owned'
  <2>1. Alone(s) BY <1>0, <1>31, ReworksGoes, ClosesGoes, ActsAlone DEF
      Supervises, Goes
  <2>2. at(s) # "none" /\ UNCHANGED owner BY <1>0, <1>31, ReworksGoes DEF Goes,
      Reworks
  <2>3. Fits(s)' /\ Kept' BY <1>0, <1>31, ReworksGoes DEF Goes, Fits, Working,
      Kept, Reworks
  <2>. QED BY <2>1, <2>2, <2>3, OwnerActs
<1>32. ASSUME NEW s \in Supervisors, Lists(s) PROVE Owned'
  <2>1. Alone(s) BY <1>0, <1>32, ListsGoes, ClosesGoes, ActsAlone DEF Supervises,
      Goes
  <2>2. at(s) # "none" /\ UNCHANGED owner BY <1>0, <1>32, ListsGoes DEF Goes,
      Lists
  <2>3. Fits(s)' /\ Kept' BY <1>0, <1>32, ListsGoes DEF Goes, Fits, Working, Kept,
      Lists
  <2>. QED BY <2>1, <2>2, <2>3, OwnerActs
<1>33. ASSUME NEW s \in Supervisors, Collects(s) PROVE Owned'
  <2>1. Alone(s) BY <1>0, <1>33, CollectsGoes, ClosesGoes, ActsAlone DEF
      Supervises, Goes
  <2>2. at(s) # "none" /\ UNCHANGED owner BY <1>0, <1>33, CollectsGoes DEF Goes,
      Collects
  <2>3. Fits(s)' /\ Kept' BY <1>0, <1>33, CollectsGoes DEF Goes, Fits, Working,
      Kept, Collects
  <2>. QED BY <2>1, <2>2, <2>3, OwnerActs
<1>34. ASSUME NEW s \in Supervisors, Waits(s) PROVE Owned'
  <2>1. Alone(s) BY <1>0, <1>34, WaitsGoes, ClosesGoes, ActsAlone DEF Supervises,
      Goes
  <2>2. at(s) # "none" /\ UNCHANGED owner BY <1>0, <1>34, WaitsGoes DEF Goes,
      Waits
  <2>4. run' = Cleared BY <1>34 DEF Waits, Rests
  <2>5. run'.status = run.status /\ run'.released = run.released
    BY <1>0, <2>4, ClearedRun DEF Typed
  <2>3. Fits(s)' /\ Kept'
    BY <1>0, <2>5, <1>34, WaitsGoes DEF Goes, Fits, Working, Kept
  <2>. QED BY <2>1, <2>2, <2>3, OwnerActs
<1>35. ASSUME NEW s \in Supervisors, FindsDeadRole(s) PROVE Owned'
  <2>1. Alone(s) BY <1>0, <1>35, FindsDeadRoleGoes, ClosesGoes, ActsAlone DEF
      Supervises, Goes
  <2>2. at(s) # "none" /\ UNCHANGED owner BY <1>0, <1>35, FindsDeadRoleGoes DEF
      Goes, FindsDeadRole
  <2>4. run'.status = "failed" BY <1>0, <1>35 DEF FindsDeadRole, Runs
  <2>3. Fits(s)' /\ Kept'
    BY <1>0, <2>4, <1>35, FindsDeadRoleGoes DEF Goes, Fits, Working, Kept
  <2>. QED BY <2>1, <2>2, <2>3, OwnerActs
<1>36. ASSUME NEW s \in Supervisors, Decides(s) PROVE Owned'
  <2>1. Alone(s) BY <1>0, <1>36, DecidesGoes, ClosesGoes, ActsAlone DEF
      Supervises, Goes
  <2>2. at(s) # "none" /\ UNCHANGED owner BY <1>0, <1>36, DecidesGoes DEF Goes,
      Decides
  <2>3. Fits(s)' /\ Kept' BY <1>0, <1>36, DecidesGoes DEF Goes, Fits, Working,
      Kept, Decides
  <2>. QED BY <2>1, <2>2, <2>3, OwnerActs
<1>37. ASSUME NEW s \in Supervisors, Harvests(s) PROVE Owned'
  <2>1. Alone(s) BY <1>0, <1>37, HarvestsGoes, ClosesGoes, ActsAlone DEF
      Supervises, Goes
  <2>2. at(s) # "none" /\ UNCHANGED owner BY <1>0, <1>37, HarvestsGoes DEF Goes,
      Harvests
  <2>3. Fits(s)' /\ Kept' BY <1>0, <1>37, HarvestsGoes DEF Goes, Fits, Working,
      Kept, Harvests
  <2>. QED BY <2>1, <2>2, <2>3, OwnerActs
<1>38. ASSUME NEW s \in Supervisors, ChecksDelivery(s) PROVE Owned'
  <2>1. Alone(s) BY <1>0, <1>38, ChecksDeliveryGoes, ClosesGoes, ActsAlone DEF
      Supervises, Goes
  <2>2. at(s) # "none" /\ UNCHANGED owner BY <1>0, <1>38, ChecksDeliveryGoes DEF
      Goes, ChecksDelivery
  <2>3. Fits(s)' /\ Kept' BY <1>0, <1>38, ChecksDeliveryGoes DEF Goes, Fits,
      Working, Kept, ChecksDelivery
  <2>. QED BY <2>1, <2>2, <2>3, OwnerActs
<1>39. ASSUME NEW s \in Supervisors, Pushes(s) PROVE Owned'
  <2>1. Alone(s) BY <1>0, <1>39, PushesGoes, ClosesGoes, ActsAlone DEF Supervises,
      Goes
  <2>2. at(s) # "none" /\ UNCHANGED owner BY <1>0, <1>39, PushesGoes DEF Goes,
      Pushes
  <2>3. Fits(s)' /\ Kept' BY <1>0, <1>39, PushesGoes DEF Goes, Fits, Working,
      Kept, Pushes
  <2>. QED BY <2>1, <2>2, <2>3, OwnerActs
<1>40. ASSUME NEW s \in Supervisors, DeliveryFails(s) PROVE Owned'
  <2>1. Alone(s) BY <1>0, <1>40, ActsAlone
  <2>2. at(s) # "none" /\ UNCHANGED owner BY <1>0, <1>40, DeliveryFailsGoes DEF
      Goes, DeliveryFails
  <2>3. Fits(s)' /\ Kept' BY <1>0, <1>40, DeliveryFailsGoes DEF Goes, Fits,
      Working, Kept, DeliveryFails
  <2>. QED BY <2>1, <2>2, <2>3, OwnerActs
<1>41. ASSUME NEW s \in Supervisors, GivesUp(s) PROVE Owned'
  <2>1. Alone(s) BY <1>0, <1>41, GivesUpGoes, ClosesGoes, ActsAlone DEF
      Supervises, Goes
  <2>2. at(s) # "none" /\ UNCHANGED owner BY <1>0, <1>41, GivesUpGoes DEF Goes,
      GivesUp
  <2>4. run'.status = "failed" BY <1>0, <1>41 DEF GivesUp, Runs
  <2>3. Fits(s)' /\ Kept'
    BY <1>0, <2>4, <1>41, GivesUpGoes DEF Goes, Fits, Working, Kept
  <2>. QED BY <2>1, <2>2, <2>3, OwnerActs
<1>42. ASSUME NEW s \in Supervisors, Completes(s) PROVE Owned'
  <2>1. Alone(s) BY <1>0, <1>42, CompletesGoes, ClosesGoes, ActsAlone DEF
      Supervises, Goes
  <2>2. at(s) # "none" /\ UNCHANGED owner BY <1>0, <1>42, CompletesGoes DEF Goes,
      Completes
  <2>4. Finalized(s, "completed") BY <1>42 DEF Completes
  <2>5. run.status = "running" /\ at(s) = "complete"
    BY <1>0, <1>42, CompletesGoes DEF Goes, Fits, Working
  <2>6. ASSUME Continue(s) /\ run' = [run EXCEPT !.status = "completed", !.waits = FALSE, !.released = TRUE]
        PROVE  Fits(s)' /\ Kept'
    <3>1. run'.status = "completed" BY <1>0, <2>6 DEF Runs
    <3>2. at(s)' \in {"retire", "salvage"}
      BY <1>0, <2>2, <2>5, <2>6, Here, GoesContinue DEF Goes, Follows
    <3>3. at(s)' = "retire"
      BY <1>0, <3>2, <1>42, CompletesGoes DEF Goes
    <3>. QED BY <3>1, <3>3 DEF Fits, Working, Kept
  <2>7. ASSUME Fails(s) /\ UNCHANGED run
        PROVE  Fits(s)' /\ Kept'
    <3>1. at(s)' = "block" BY <1>0, <2>7, GoesFails DEF Goes
    <3>. QED BY <1>0, <2>5, <2>7, <3>1 DEF Fits, Working, Kept
  <2>3. Fits(s)' /\ Kept' BY <2>4, <2>5, <2>6, <2>7 DEF Finalized
  <2>. QED BY <2>1, <2>2, <2>3, OwnerActs
<1>43. ASSUME NEW s \in Supervisors, Exhausts(s) PROVE Owned'
  <2>1. Alone(s) BY <1>0, <1>43, ExhaustsGoes, ClosesGoes, ActsAlone DEF
      Supervises, Goes
  <2>2. at(s) # "none" /\ UNCHANGED owner BY <1>0, <1>43, ExhaustsGoes DEF Goes,
      Exhausts
  <2>4. Finalized(s, "blocked") BY <1>43 DEF Exhausts
  <2>5. run.status = "running" /\ at(s) = "exhaust"
    BY <1>0, <1>43, ExhaustsGoes DEF Goes, Fits, Working
  <2>6. ASSUME Continue(s) /\ run' = [run EXCEPT !.status = "blocked", !.waits = FALSE, !.released = TRUE]
        PROVE  Fits(s)' /\ Kept'
    <3>1. run'.status = "blocked" BY <1>0, <2>6 DEF Runs
    <3>2. at(s)' \in {"retire", "salvage"}
      BY <1>0, <2>2, <2>5, <2>6, Here, GoesContinue DEF Goes, Follows
    <3>3. at(s)' = "salvage"
      BY <1>0, <3>2, <1>43, ExhaustsGoes DEF Goes
    <3>. QED BY <3>1, <3>3 DEF Fits, Working, Kept
  <2>7. ASSUME Fails(s) /\ UNCHANGED run
        PROVE  Fits(s)' /\ Kept'
    <3>1. at(s)' = "block" BY <1>0, <2>7, GoesFails DEF Goes
    <3>. QED BY <1>0, <2>5, <2>7, <3>1 DEF Fits, Working, Kept
  <2>3. Fits(s)' /\ Kept' BY <2>4, <2>5, <2>6, <2>7 DEF Finalized
  <2>. QED BY <2>1, <2>2, <2>3, OwnerActs
<1>44. ASSUME NEW s \in Supervisors, StopsReviewers(s) PROVE Owned'
  <2>1. Alone(s) BY <1>0, <1>44, StopsReviewersGoes, ClosesGoes, ActsAlone DEF
      Supervises, Goes
  <2>2. at(s) # "none" /\ UNCHANGED owner BY <1>0, <1>44, StopsReviewersGoes DEF
      Goes, StopsReviewers
  <2>3. Fits(s)' /\ Kept' BY <1>0, <1>44, StopsReviewersGoes DEF Goes, Fits,
      Working, Kept, StopsReviewers
  <2>. QED BY <2>1, <2>2, <2>3, OwnerActs
<1>45. ASSUME NEW s \in Supervisors, ReadsHead(s) PROVE Owned'
  <2>1. Alone(s) BY <1>0, <1>45, ReadsHeadGoes, ClosesGoes, ActsAlone DEF
      Supervises, Goes
  <2>2. at(s) # "none" /\ UNCHANGED owner BY <1>0, <1>45, ReadsHeadGoes DEF Goes,
      ReadsHead
  <2>3. Fits(s)' /\ Kept' BY <1>0, <1>45, ReadsHeadGoes DEF Goes, Fits, Working,
      Kept, ReadsHead
  <2>. QED BY <2>1, <2>2, <2>3, OwnerActs
<1>46. ASSUME NEW s \in Supervisors, Prepares(s) PROVE Owned'
  <2>1. Alone(s) BY <1>0, <1>46, PreparesGoes, ClosesGoes, ActsAlone DEF
      Supervises, Goes
  <2>2. at(s) # "none" /\ UNCHANGED owner BY <1>0, <1>46, PreparesGoes DEF Goes,
      Prepares
  <2>4. run'.status = run.status /\ run'.released = run.released
    <3>1. CASE MayReopen(s) BY <1>0, <1>46, <3>1, PreparesRows
    <3>2. CASE ~MayReopen(s) BY <1>46, <3>2 DEF Prepares
    <3>. QED BY <3>1, <3>2
  <2>3. Fits(s)' /\ Kept'
    BY <1>0, <2>4, <1>46, PreparesGoes DEF Goes, Fits, Working, Kept
  <2>. QED BY <2>1, <2>2, <2>3, OwnerActs
<1>47. ASSUME NEW s \in Supervisors, Returns(s) PROVE Owned'
  <2>1. Alone(s) BY <1>0, <1>47, ReturnsGoes, ClosesGoes, ActsAlone DEF
      Supervises, Goes
  <2>2. at(s) # "none" /\ UNCHANGED owner BY <1>0, <1>47, ReturnsGoes DEF Goes,
      Returns
  <2>4. run' = Cleared BY <1>47 DEF Returns, Rests
  <2>5. run'.status = run.status /\ run'.released = run.released
    BY <1>0, <2>4, ClearedRun DEF Typed
  <2>3. Fits(s)' /\ Kept'
    BY <1>0, <2>5, <1>47, ReturnsGoes DEF Goes, Fits, Working, Kept
  <2>. QED BY <2>1, <2>2, <2>3, OwnerActs
<1>48. ASSUME NEW s \in Supervisors, CancelsBlocked(s) PROVE Owned'
  <2>1. Alone(s) BY <1>0, <1>48, CancelsBlockedGoes, ClosesGoes, ActsAlone DEF
      Supervises, Goes
  <2>2. at(s) # "none" /\ UNCHANGED owner BY <1>0, <1>48, CancelsBlockedGoes DEF
      Goes, CancelsBlocked
  <2>3. Fits(s)' /\ Kept' BY <1>0, <1>48, CancelsBlockedGoes DEF Goes, Fits,
      Working, Kept, CancelsBlocked
  <2>. QED BY <2>1, <2>2, <2>3, OwnerActs
<1>49. ASSUME NEW s \in Supervisors, Folds(s) PROVE Owned'
  <2>1. Alone(s) BY <1>0, <1>49, FoldsGoes, ClosesGoes, ActsAlone DEF Supervises,
      Goes
  <2>2. at(s) # "none" /\ UNCHANGED owner BY <1>0, <1>49, FoldsGoes DEF Goes,
      Folds
  <2>5. run.status = "running" /\ at(s) = "fold"
    BY <1>0, <1>49, FoldsGoes DEF Goes, Fits, Working
  <2>6. ASSUME run' = [run EXCEPT !.status = "blocked", !.waits = FALSE, !.released = TRUE]
        PROVE  Fits(s)' /\ Kept'
    <3>1. run'.status = "blocked" BY <1>0, <2>6 DEF Runs
    <3>2. at(s)' \in {"block", "salvage"} BY <1>0, <1>49, FoldsGoes DEF Goes
    <3>. QED BY <3>1, <3>2 DEF Fits, Working, Kept
  <2>7. ASSUME Fails(s) /\ UNCHANGED run
        PROVE  Fits(s)' /\ Kept'
    <3>1. at(s)' = "block" BY <1>0, <2>7, GoesFails DEF Goes
    <3>. QED BY <1>0, <2>5, <2>7, <3>1 DEF Fits, Working, Kept
  <2>3. Fits(s)' /\ Kept' BY <1>49, <2>5, <2>6, <2>7 DEF Folds
  <2>. QED BY <2>1, <2>2, <2>3, OwnerActs
<1>50. ASSUME NEW s \in Supervisors, Reaps(s) PROVE Owned'
  <2>1. Alone(s) BY <1>0, <1>50, ReapsGoes, ClosesGoes, ActsAlone DEF Supervises,
      Goes
  <2>2. at(s) # "none" /\ UNCHANGED owner BY <1>0, <1>50, ReapsGoes DEF Goes,
      Reaps
  <2>3. Fits(s)' /\ Kept' BY <1>0, <1>50, ReapsGoes DEF Goes, Fits, Working, Kept,
      Reaps
  <2>. QED BY <2>1, <2>2, <2>3, OwnerActs
<1>51. ASSUME NEW s \in Supervisors, SetsBlocked(s) PROVE Owned'
  <2>1. Alone(s) BY <1>0, <1>51, SetsBlockedGoes, ClosesGoes, ActsAlone DEF
      Supervises, Goes
  <2>2. at(s) # "none" /\ UNCHANGED owner BY <1>0, <1>51, SetsBlockedGoes DEF
      Goes, SetsBlocked
  <2>4. run'.status = "blocked" BY <1>0, <1>51 DEF SetsBlocked, Runs
  <2>3. Fits(s)' /\ Kept'
    BY <1>0, <2>4, <1>51, SetsBlockedGoes DEF Goes, Fits, Working, Kept
  <2>. QED BY <2>1, <2>2, <2>3, OwnerActs
<1>52. ASSUME NEW s \in Supervisors, Salvages(s) PROVE Owned'
  <2>1. Alone(s) BY <1>0, <1>52, SalvagesGoes, ClosesGoes, ActsAlone DEF
      Supervises, Goes
  <2>2. at(s) # "none" /\ UNCHANGED owner BY <1>0, <1>52, SalvagesGoes DEF Goes,
      Salvages
  <2>3. Fits(s)' /\ Kept' BY <1>0, <1>52, SalvagesGoes DEF Goes, Fits, Working,
      Kept, Salvages
  <2>. QED BY <2>1, <2>2, <2>3, OwnerActs
<1>53. ASSUME NEW s \in Supervisors, CancelsOverdue(s) PROVE Owned'
  <2>1. Alone(s) BY <1>0, <1>53, CancelsOverdueGoes, ClosesGoes, ActsAlone DEF
      Supervises, Goes
  <2>2. at(s) # "none" /\ UNCHANGED owner BY <1>0, <1>53, CancelsOverdueGoes DEF
      Goes, CancelsOverdue
  <2>3. Fits(s)' /\ Kept' BY <1>0, <1>53, CancelsOverdueGoes DEF Goes, Fits,
      Working, Kept, CancelsOverdue
  <2>. QED BY <2>1, <2>2, <2>3, OwnerActs
<1>54. ASSUME NEW s \in Supervisors, Releases(s) PROVE Owned'
  <2>1. Alone(s) BY <1>0, <1>54, ReleasesGoes, ClosesGoes, ActsAlone DEF
      Supervises, Goes
  <2>2. at(s) # "none" /\ UNCHANGED owner BY <1>0, <1>54, ReleasesGoes DEF Goes,
      Releases
  <2>4. run'.status = run.status BY <1>0, <1>54 DEF Releases, Runs
  <2>5. run.status \in {"blocked", "failed"}
    BY <1>0, <1>54, ReleasesGoes DEF Goes, Fits
  <2>3. Fits(s)' /\ Kept'
    BY <1>0, <2>4, <2>5, <1>54, ReleasesGoes DEF Goes, Fits, Working, Kept
  <2>. QED BY <2>1, <2>2, <2>3, OwnerActs
<1>55. ASSUME NEW s \in Supervisors, Retires(s) PROVE Owned'
  <2>1. Alone(s) BY <1>0, <1>55, RetiresGoes, ClosesGoes, ActsAlone DEF
      Supervises, Goes
  <2>2. at(s) # "none" /\ UNCHANGED owner BY <1>0, <1>55, RetiresGoes DEF Goes,
      Retires
  <2>3. Fits(s)' /\ Kept' BY <1>0, <1>55, RetiresGoes DEF Goes, Fits, Working,
      Kept, Retires
  <2>. QED BY <2>1, <2>2, <2>3, OwnerActs
<1>56. ASSUME NEW s \in Supervisors, Stumbles(s) PROVE Owned'
  <2>1. Alone(s) BY <1>0, <1>56, ActsAlone
  <2>2. at(s) # "none" /\ UNCHANGED owner BY <1>0, <1>56, StumblesGoes DEF Goes,
      Stumbles
  <2>3. Fits(s)' /\ Kept' BY <1>0, <1>56, StumblesGoes DEF Goes, Fits, Working,
      Kept, Stumbles
  <2>. QED BY <2>1, <2>2, <2>3, OwnerActs
<1>57. ASSUME NEW s \in Supervisors, RecordsError(s) PROVE Owned'
  <2>1. Alone(s) BY <1>0, <1>57, RecordsErrorGoes, ClosesGoes, ActsAlone DEF
      Supervises, Goes
  <2>2. at(s) # "none" /\ UNCHANGED owner BY <1>0, <1>57, RecordsErrorGoes DEF
      Goes, RecordsError
  <2>4. at(s) = "stumble" BY <1>0, <1>57, RecordsErrorGoes DEF Goes
  <2>5. ASSUME /\ run.status = "running" /\ Then(s, <<"idle">>)
               /\ run' = [run EXCEPT !.errors = run.errors + 1, !.waits = TRUE]
        PROVE  Fits(s)' /\ Kept'
    <3>1. run'.status = "running" /\ run'.released = run.released
      BY <1>0, <2>5 DEF Runs
    <3>2. at(s)' = "idle" BY <1>0, <2>5, Written, GoesThen DEF Goes
    <3>. QED BY <1>0, <2>5, <3>1, <3>2 DEF Fits, Working, Kept
  <2>6. ASSUME /\ Then(s, Tail(Fatal))
               /\ \/ run' = [run EXCEPT !.status = "blocked", !.errors = run.errors + 1,
                                       !.waits = FALSE]
                  \/ run.status = "blocked" /\ UNCHANGED run
        PROVE  Fits(s)' /\ Kept'
    <3>1. run'.status = "blocked" BY <1>0, <2>6 DEF Runs
    <3>2. Tail(Fatal) = <<"release", "retire", "close">> BY DEF Fatal
    <3>3. at(s)' = "release" BY <1>0, <2>6, <3>2, Written, GoesThen DEF Goes
    <3>. QED BY <3>1, <3>3 DEF Fits, Working, Kept
  <2>7. ASSUME Then(s, <<>>) /\ UNCHANGED run
        PROVE  Fits(s)' /\ Kept'
    <3>1. at(s)' = "none" BY <1>0, <2>7, Written, GoesThen DEF Goes
    <3>. QED BY <1>0, <2>7, <3>1 DEF Fits, Working, Kept
  <2>3. Fits(s)' /\ Kept' BY <1>57, <2>5, <2>6, <2>7 DEF RecordsError
  <2>. QED BY <2>1, <2>2, <2>3, OwnerActs
<1>58. ASSUME NEW s \in Supervisors, Crashes(s) PROVE Owned'
  <2>1. Alone(s) BY <1>0, <1>58, ActsAlone
  <2>2. at(s) # "none" /\ UNCHANGED owner BY <1>0, <1>58, CrashesGoes DEF Goes,
      Crashes
  <2>3. Fits(s)' /\ Kept' BY <1>0, <1>58, CrashesGoes DEF Goes, Fits, Working,
      Kept, Crashes
  <2>. QED BY <2>1, <2>2, <2>3, OwnerActs
<1>59. CASE Agents
  BY <1>59, <1>1, <1>2, <1>3, <1>4, <1>5, <1>6, <1>7, <1>8, <1>9, RunAssumption
      DEF Agents
<1>60. CASE Operator
  BY <1>60, <1>10, <1>11, <1>12, <1>13, <1>14, <1>15 DEF Operator
<1>61. ASSUME NEW s \in Supervisors, Supervises(s) PROVE Owned'
  BY <1>61, <1>17, <1>18, <1>20, <1>21, <1>22, <1>23, <1>24, <1>25, <1>26,
      <1>27, <1>29, <1>30, <1>31, <1>32, <1>33, <1>34, <1>35, <1>36, <1>37,
      <1>38, <1>39, <1>41, <1>42, <1>43, <1>44, <1>45, <1>46, <1>47, <1>48,
      <1>49, <1>50, <1>51, <1>52, <1>53, <1>54, <1>55, <1>57 DEF Supervises
<1>. QED BY <1>59, <1>60, <1>61, <1>16, <1>19, <1>28, <1>40, <1>56, <1>58 DEF
    Next

-----------------------------------------------------------------------------
\* What every step does to the signals, and in whose hands it is.
Taken(s) ==
  \E R \in SUBSET Roles, c \in Cycles :
    /\ Takes(R, c)
    /\ \/ R \subseteq {Manager, Worker}
       \/ R = {local[s].who} /\ status[local[s].who] = "cancelled"
       \/ /\ at(s) \in {"complete", "exhaust"} /\ UNCHANGED <<status, start>>
          /\ R = local[s].open /\ c = local[s].cycle
       \/ Reopens(s)
Noted ==
  \E r \in Roles, o \in Outcomes, c \in Commits :
    /\ Notes(r, o, c) /\ status[r] = "running"
    /\ r \in Reviewers => c = start[r]
    /\ r = Worker => \/ o = "done" /\ c = draft /\ draft' = None
                     \/ o # "done" /\ c = start[Worker]
    /\ UNCHANGED <<status, start, run, pc, local, owner, git>>
SignalMoves == UNCHANGED ready \/ Noted \/ \E s \in Supervisors : Taken(s)

\* A report is of a running role, about the commit it was given or has verified.
LEMMA ReportNotes ==
  ASSUME Life, \/ ManagerReports \/ WorkerReports
               \/ \E r \in Reviewers : ReviewerReports(r)
               \/ \E r \in Roles : Blocks(r)
  PROVE  UNCHANGED ready \/ Noted
<1>0. /\ ReadyTypes /\ RunTypes /\ RowTypes /\ GitTypes
      /\ {"done", "approved", "changes-requested", "blocked"} = Outcomes
  BY DEF Life, Typed, Outcomes
<1>1. ASSUME ManagerReports PROVE Noted
  <2>1. "done" \in Outcomes /\ Manager \in Roles /\ 0 \in Commits /\ Manager \notin Reviewers
    BY <1>0, Names
  <2>2. Notes(Manager, "done", 0)
    BY <1>0, <1>1, <2>1, RecordedReady DEF ManagerReports
  <2>. QED BY <1>1, <2>1, <2>2, Names DEF ManagerReports, MayReport, Noted, rows
<1>2. ASSUME NEW r \in Reviewers, ReviewerReports(r) PROVE Noted
  <2>1. r \in Roles /\ start[r] \in Commits BY <1>0, Names DEF RowTypes
  <2>2. PICK o \in Outcomes : ready' = Recorded(r, o, start[r])
    BY <1>0, <1>2 DEF ReviewerReports
  <2>3. Notes(r, o, start[r]) BY <1>0, <2>1, <2>2, RecordedReady
  <2>. QED BY <1>2, <2>1, <2>3, Names DEF ReviewerReports, MayReport, Noted, rows
<1>3. ASSUME NEW r \in Roles, Blocks(r) PROVE Noted
  <2>1. "blocked" \in Outcomes /\ start[r] \in Commits BY <1>0 DEF RowTypes
  <2>2. Notes(r, "blocked", start[r])
    BY <1>0, <1>3, <2>1, RecordedReady DEF Blocks
  <2>. QED BY <1>3, <2>1, <2>2 DEF Blocks, MayReport, Noted, rows
<1>4. ASSUME WorkerReports PROVE UNCHANGED ready \/ Noted
  <2>1. /\ "done" \in Outcomes /\ Worker \in Roles /\ draft \in Commits
        /\ Worker \notin Reviewers /\ Worker # Manager
    BY <1>0, <1>4, Names DEF WorkerReports, GitTypes
  <2>2. CASE status[Worker] = "running"
    <3>1. Notes(Worker, "done", draft)
      BY <1>0, <1>4, <2>1, <2>2, RecordedReady DEF WorkerReports
    <3>. QED BY <1>4, <2>1, <2>2, <3>1 DEF WorkerReports, Noted, rows
  <2>3. CASE status[Worker] # "running" BY <1>4, <2>3 DEF WorkerReports
  <2>. QED BY <2>2, <2>3
<1>. QED BY <1>1, <1>2, <1>3, <1>4

\* Every step notes, takes or leaves signals in one of these ways.
LEMMA SignalStep ==
  ASSUME Life, Next
  PROVE  SignalMoves
<1>0. /\ Life /\ Typed /\ InHand /\ Scripted /\ ReadyTypes /\ RunTypes /\ RowTypes
      /\ GitTypes /\ LocalTypes
      /\ {"done", "approved", "changes-requested", "blocked"} = Outcomes
  BY DEF Life, Typed, Outcomes
<1>1. ASSUME WorkerCommits PROVE SignalMoves
  BY <1>1 DEF WorkerCommits, SignalMoves
<1>2. ASSUME ManagerCommits PROVE SignalMoves
  BY <1>2 DEF ManagerCommits, SignalMoves
<1>3. ASSUME ManagerReports PROVE SignalMoves
  BY <1>0, <1>3, ReportNotes DEF SignalMoves
<1>4. ASSUME NEW r \in Reviewers, ReviewerReports(r) PROVE SignalMoves
  BY <1>0, <1>4, ReportNotes DEF SignalMoves
<1>5. ASSUME NEW r \in Roles, Blocks(r) PROVE SignalMoves
  BY <1>0, <1>5, ReportNotes DEF SignalMoves
<1>6. ASSUME WorkerVerifies PROVE SignalMoves
  BY <1>6 DEF WorkerVerifies, SignalMoves
<1>7. ASSUME WorkerReports PROVE SignalMoves
  BY <1>0, <1>7, ReportNotes DEF SignalMoves
<1>8. ASSUME NEW r \in Roles, ReportsResult(r) PROVE SignalMoves
  BY <1>8 DEF ReportsResult, SignalMoves
<1>9. ASSUME NEW r \in Roles, AgentDies(r) PROVE SignalMoves
  BY <1>9 DEF AgentDies, SignalMoves
<1>10. ASSUME NEW r \in Roles, OperatorCancels(r) PROVE SignalMoves
  BY <1>10 DEF OperatorCancels, SignalMoves
<1>11. ASSUME NEW r \in Roles, CleansStart(r) PROVE SignalMoves
  BY <1>11 DEF CleansStart, SignalMoves
<1>12. ASSUME NEW r \in Roles, OperatorResumes(r) PROVE SignalMoves
  BY <1>12 DEF OperatorResumes, SignalMoves
<1>13. ASSUME NEW s \in Coordinators, Attaches(s) PROVE SignalMoves
  BY <1>13 DEF Attaches, SignalMoves
<1>14. ASSUME NEW s \in Coordinators, Retries(s) PROVE SignalMoves
  BY <1>14 DEF Retries, SignalMoves
<1>15. ASSUME NEW s \in Manual, StartsByHand(s) PROVE SignalMoves
  BY <1>15 DEF StartsByHand, SignalMoves
<1>16. ASSUME TimePasses PROVE SignalMoves
  BY <1>16 DEF TimePasses, SignalMoves
<1>17. ASSUME NEW s \in Supervisors, Closes(s) PROVE SignalMoves
  BY <1>17 DEF Closes, SignalMoves
<1>18. ASSUME NEW s \in Supervisors, Begins(s) PROVE SignalMoves
  BY <1>18 DEF Begins, SignalMoves
<1>19. ASSUME NEW s \in Supervisors, NEW r \in Roles, Overdue(s, r)
      PROVE SignalMoves
  BY <1>19 DEF Overdue, SignalMoves
<1>20. ASSUME NEW s \in Supervisors, NothingOverdue(s) PROVE SignalMoves
  BY <1>20 DEF NothingOverdue, SignalMoves
<1>21. ASSUME NEW s \in Supervisors, ReadsSignals(s) PROVE SignalMoves
  BY <1>21 DEF ReadsSignals, SignalMoves
<1>22. ASSUME NEW s \in Supervisors, HandsOff(s) PROVE SignalMoves
  BY <1>22 DEF HandsOff, SignalMoves
<1>23. ASSUME NEW s \in Supervisors, Finishes(s) PROVE SignalMoves
  BY <1>23 DEF Finishes, SignalMoves
<1>24. ASSUME NEW s \in Supervisors, Launches(s) PROVE SignalMoves
  BY <1>24 DEF Launches, SignalMoves
<1>25. ASSUME NEW s \in Supervisors, Asks(s) PROVE SignalMoves
  BY <1>25 DEF Asks, SignalMoves
<1>26. ASSUME NEW s \in Supervisors, BeginsStart(s) PROVE SignalMoves
  BY <1>26 DEF BeginsStart, SignalMoves
<1>27. ASSUME NEW s \in Supervisors, Creates(s) PROVE SignalMoves
  BY <1>27 DEF Creates, SignalMoves
<1>28. ASSUME NEW s \in Supervisors, CreateFails(s) PROVE SignalMoves
  BY <1>28 DEF CreateFails, SignalMoves
<1>29. ASSUME NEW s \in Supervisors, Consumes(s) PROVE SignalMoves
  <2>1. {local[s].who} \in SUBSET Roles /\ {local[s].who} \subseteq {Manager, Worker}
    BY <1>0, <1>29, ConsumesReady, Names
  <2>2. Taken(s) BY <1>0, <1>29, <2>1, ConsumesReady DEF Taken
  <2>. QED BY <2>2 DEF SignalMoves
<1>30. ASSUME NEW s \in Supervisors, Works(s) PROVE SignalMoves
  BY <1>30 DEF Works, SignalMoves
<1>31. ASSUME NEW s \in Supervisors, Reworks(s) PROVE SignalMoves
  BY <1>31 DEF Reworks, SignalMoves
<1>32. ASSUME NEW s \in Supervisors, Lists(s) PROVE SignalMoves
  BY <1>32 DEF Lists, SignalMoves
<1>33. ASSUME NEW s \in Supervisors, Collects(s) PROVE SignalMoves
  BY <1>33 DEF Collects, SignalMoves
<1>34. ASSUME NEW s \in Supervisors, Waits(s) PROVE SignalMoves
  BY <1>34 DEF Waits, SignalMoves
<1>35. ASSUME NEW s \in Supervisors, FindsDeadRole(s) PROVE SignalMoves
  BY <1>35 DEF FindsDeadRole, SignalMoves
<1>36. ASSUME NEW s \in Supervisors, Decides(s) PROVE SignalMoves
  BY <1>36 DEF Decides, SignalMoves
<1>37. ASSUME NEW s \in Supervisors, Harvests(s) PROVE SignalMoves
  BY <1>37 DEF Harvests, SignalMoves
<1>38. ASSUME NEW s \in Supervisors, ChecksDelivery(s) PROVE SignalMoves
  BY <1>38 DEF ChecksDelivery, SignalMoves
<1>39. ASSUME NEW s \in Supervisors, Pushes(s) PROVE SignalMoves
  BY <1>39 DEF Pushes, SignalMoves
<1>40. ASSUME NEW s \in Supervisors, DeliveryFails(s) PROVE SignalMoves
  BY <1>40 DEF DeliveryFails, SignalMoves
<1>41. ASSUME NEW s \in Supervisors, GivesUp(s) PROVE SignalMoves
  BY <1>41 DEF GivesUp, SignalMoves
<1>42. ASSUME NEW s \in Supervisors, Completes(s) PROVE SignalMoves
  <2>1. Finalized(s, "completed") /\ at(s) \in {"complete", "exhaust"}
        /\ UNCHANGED <<status, start>>
    BY <1>0, <1>42, Here DEF Completes, rows
  <2>2. local[s].open \in SUBSET Roles /\ local[s].cycle \in Cycles
    BY <1>0, Names DEF LocalTypes, Local
  <2>3. UNCHANGED ready \/ Taken(s) BY <1>0, <2>1, <2>2, FinalizedReady DEF Taken
  <2>. QED BY <2>3 DEF SignalMoves
<1>43. ASSUME NEW s \in Supervisors, Exhausts(s) PROVE SignalMoves
  <2>1. Finalized(s, "blocked") /\ at(s) \in {"complete", "exhaust"}
        /\ UNCHANGED <<status, start>>
    BY <1>0, <1>43, Here DEF Exhausts, rows
  <2>2. local[s].open \in SUBSET Roles /\ local[s].cycle \in Cycles
    BY <1>0, Names DEF LocalTypes, Local
  <2>3. UNCHANGED ready \/ Taken(s) BY <1>0, <2>1, <2>2, FinalizedReady DEF Taken
  <2>. QED BY <2>3 DEF SignalMoves
<1>44. ASSUME NEW s \in Supervisors, StopsReviewers(s) PROVE SignalMoves
  BY <1>44 DEF StopsReviewers, SignalMoves
<1>45. ASSUME NEW s \in Supervisors, ReadsHead(s) PROVE SignalMoves
  BY <1>45 DEF ReadsHead, SignalMoves
<1>46. ASSUME NEW s \in Supervisors, Prepares(s) PROVE SignalMoves
  <2>1. CASE ~MayReopen(s) BY <1>46, <2>1 DEF Prepares, SignalMoves
  <2>2. CASE MayReopen(s)
    <3>1. Reviewers \in SUBSET Roles BY Names
    <3>2. Taken(s) BY <1>0, <1>46, <2>2, <3>1, PreparesRows DEF Taken, Reopens
    <3>. QED BY <3>2 DEF SignalMoves
  <2>. QED BY <2>1, <2>2
<1>47. ASSUME NEW s \in Supervisors, Returns(s) PROVE SignalMoves
  BY <1>47 DEF Returns, SignalMoves
<1>48. ASSUME NEW s \in Supervisors, CancelsBlocked(s) PROVE SignalMoves
  BY <1>48 DEF CancelsBlocked, SignalMoves
<1>49. ASSUME NEW s \in Supervisors, Folds(s) PROVE SignalMoves
  <2>1. {local[s].who} \in SUBSET Roles BY <1>0, <1>49, FoldsRows
  <2>2. UNCHANGED ready \/ Taken(s) BY <1>0, <1>49, <2>1, FoldsRows DEF Taken
  <2>. QED BY <2>2 DEF SignalMoves
<1>50. ASSUME NEW s \in Supervisors, Reaps(s) PROVE SignalMoves
  BY <1>50 DEF Reaps, SignalMoves
<1>51. ASSUME NEW s \in Supervisors, SetsBlocked(s) PROVE SignalMoves
  BY <1>51 DEF SetsBlocked, SignalMoves
<1>52. ASSUME NEW s \in Supervisors, Salvages(s) PROVE SignalMoves
  BY <1>52 DEF Salvages, SignalMoves
<1>53. ASSUME NEW s \in Supervisors, CancelsOverdue(s) PROVE SignalMoves
  BY <1>53 DEF CancelsOverdue, SignalMoves
<1>54. ASSUME NEW s \in Supervisors, Releases(s) PROVE SignalMoves
  BY <1>54 DEF Releases, SignalMoves
<1>55. ASSUME NEW s \in Supervisors, Retires(s) PROVE SignalMoves
  BY <1>55 DEF Retires, SignalMoves
<1>56. ASSUME NEW s \in Supervisors, Stumbles(s) PROVE SignalMoves
  BY <1>56 DEF Stumbles, SignalMoves
<1>57. ASSUME NEW s \in Supervisors, RecordsError(s) PROVE SignalMoves
  BY <1>57 DEF RecordsError, SignalMoves
<1>58. ASSUME NEW s \in Supervisors, Crashes(s) PROVE SignalMoves
  BY <1>58 DEF Crashes, SignalMoves
<1>59. CASE Agents
  BY <1>59, <1>1, <1>2, <1>3, <1>4, <1>5, <1>6, <1>7, <1>8, <1>9, RunAssumption
      DEF Agents
<1>60. CASE Operator
  BY <1>60, <1>10, <1>11, <1>12, <1>13, <1>14, <1>15 DEF Operator
<1>61. ASSUME NEW s \in Supervisors, Supervises(s) PROVE SignalMoves
  BY <1>61, <1>17, <1>18, <1>20, <1>21, <1>22, <1>23, <1>24, <1>25, <1>26,
      <1>27, <1>29, <1>30, <1>31, <1>32, <1>33, <1>34, <1>35, <1>36, <1>37,
      <1>38, <1>39, <1>41, <1>42, <1>43, <1>44, <1>45, <1>46, <1>47, <1>48,
      <1>49, <1>50, <1>51, <1>52, <1>53, <1>54, <1>55, <1>57 DEF Supervises
<1>. QED BY <1>59, <1>60, <1>61, <1>16, <1>19, <1>28, <1>40, <1>56, <1>58 DEF
    Next

-----------------------------------------------------------------------------
\* What becomes of the run in one step.
OutcomeMoves ==
  \/ run'.status = run.status
  \/ /\ run.status # "completed" /\ run'.status \in {"blocked", "failed"}
     /\ run'.cycle = run.cycle /\ UNCHANGED status
  \/ /\ run.status \in {"blocked", "failed"} /\ run'.status = "running"
     /\ run'.cycle = run.cycle /\ UNCHANGED <<status, ready>>
  \/ /\ run.status = "running" /\ run'.status = "completed"
     /\ run'.cycle = run.cycle /\ UNCHANGED <<status, start, git>>
     /\ \E s \in Supervisors :
          /\ at(s) = "complete" /\ local[s].open \subseteq Reviewers
          /\ \A r \in local[s].open : Pending(r, local[s].cycle)
          /\ Takes(local[s].open, local[s].cycle)

\* No step of the coordinator changes the outcome in another way.
LEMMA OutcomeStep ==
  ASSUME Life, Owned, Next
  PROVE  OutcomeMoves
<1>0. /\ Typed /\ Scripted /\ run \in Runs
      /\ \A s \in Supervisors : Fits(s)
  BY DEF Life, Typed, RunTypes, Owned
<1>1. ASSUME WorkerCommits PROVE OutcomeMoves
  BY <1>1 DEF WorkerCommits, OutcomeMoves
<1>2. ASSUME ManagerCommits PROVE OutcomeMoves
  BY <1>2 DEF ManagerCommits, OutcomeMoves
<1>3. ASSUME ManagerReports PROVE OutcomeMoves
  BY <1>3 DEF ManagerReports, OutcomeMoves
<1>4. ASSUME NEW r \in Reviewers, ReviewerReports(r) PROVE OutcomeMoves
  BY <1>4 DEF ReviewerReports, OutcomeMoves
<1>5. ASSUME NEW r \in Roles, Blocks(r) PROVE OutcomeMoves
  BY <1>5 DEF Blocks, OutcomeMoves
<1>6. ASSUME WorkerVerifies PROVE OutcomeMoves
  BY <1>6 DEF WorkerVerifies, OutcomeMoves
<1>7. ASSUME WorkerReports PROVE OutcomeMoves
  BY <1>7 DEF WorkerReports, OutcomeMoves
<1>8. ASSUME NEW r \in Roles, ReportsResult(r) PROVE OutcomeMoves
  BY <1>8 DEF ReportsResult, OutcomeMoves
<1>9. ASSUME NEW r \in Roles, AgentDies(r) PROVE OutcomeMoves
  BY <1>9 DEF AgentDies, OutcomeMoves
<1>10. ASSUME NEW r \in Roles, OperatorCancels(r) PROVE OutcomeMoves
  BY <1>10 DEF OperatorCancels, OutcomeMoves
<1>11. ASSUME NEW r \in Roles, CleansStart(r) PROVE OutcomeMoves
  BY <1>11 DEF CleansStart, OutcomeMoves
<1>12. ASSUME NEW r \in Roles, OperatorResumes(r) PROVE OutcomeMoves
  BY <1>12 DEF OperatorResumes, OutcomeMoves
<1>13. ASSUME NEW s \in Coordinators, Attaches(s) PROVE OutcomeMoves
  BY <1>13 DEF Attaches, OutcomeMoves
<1>14. ASSUME NEW s \in Coordinators, Retries(s) PROVE OutcomeMoves
  BY <1>0, <1>14 DEF Retries, rows, Runs, OutcomeMoves
<1>15. ASSUME NEW s \in Manual, StartsByHand(s) PROVE OutcomeMoves
  BY <1>15 DEF StartsByHand, OutcomeMoves
<1>16. ASSUME TimePasses PROVE OutcomeMoves
  BY <1>0, <1>16 DEF TimePasses, Runs, OutcomeMoves
<1>17. ASSUME NEW s \in Supervisors, Closes(s) PROVE OutcomeMoves
  BY <1>0, <1>17 DEF Closes, Runs, OutcomeMoves
<1>18. ASSUME NEW s \in Supervisors, Begins(s) PROVE OutcomeMoves
  BY <1>18 DEF Begins, OutcomeMoves
<1>19. ASSUME NEW s \in Supervisors, NEW r \in Roles, Overdue(s, r)
      PROVE OutcomeMoves
  BY <1>19 DEF Overdue, OutcomeMoves
<1>20. ASSUME NEW s \in Supervisors, NothingOverdue(s) PROVE OutcomeMoves
  BY <1>20 DEF NothingOverdue, OutcomeMoves
<1>21. ASSUME NEW s \in Supervisors, ReadsSignals(s) PROVE OutcomeMoves
  BY <1>21 DEF ReadsSignals, OutcomeMoves
<1>22. ASSUME NEW s \in Supervisors, HandsOff(s) PROVE OutcomeMoves
  BY <1>22 DEF HandsOff, OutcomeMoves
<1>23. ASSUME NEW s \in Supervisors, Finishes(s) PROVE OutcomeMoves
  BY <1>23 DEF Finishes, OutcomeMoves
<1>24. ASSUME NEW s \in Supervisors, Launches(s) PROVE OutcomeMoves
  BY <1>24 DEF Launches, OutcomeMoves
<1>25. ASSUME NEW s \in Supervisors, Asks(s) PROVE OutcomeMoves
  BY <1>25 DEF Asks, OutcomeMoves
<1>26. ASSUME NEW s \in Supervisors, BeginsStart(s) PROVE OutcomeMoves
  BY <1>26 DEF BeginsStart, OutcomeMoves
<1>27. ASSUME NEW s \in Supervisors, Creates(s) PROVE OutcomeMoves
  BY <1>27 DEF Creates, OutcomeMoves
<1>28. ASSUME NEW s \in Supervisors, CreateFails(s) PROVE OutcomeMoves
  BY <1>28 DEF CreateFails, OutcomeMoves
<1>29. ASSUME NEW s \in Supervisors, Consumes(s) PROVE OutcomeMoves
  <2>1. run' = Cleared BY <1>29 DEF Consumes, Rests
  <2>. QED BY <1>0, <2>1, ClearedRun DEF Typed, OutcomeMoves
<1>30. ASSUME NEW s \in Supervisors, Works(s) PROVE OutcomeMoves
  BY <1>30 DEF Works, OutcomeMoves
<1>31. ASSUME NEW s \in Supervisors, Reworks(s) PROVE OutcomeMoves
  BY <1>31 DEF Reworks, OutcomeMoves
<1>32. ASSUME NEW s \in Supervisors, Lists(s) PROVE OutcomeMoves
  BY <1>32 DEF Lists, OutcomeMoves
<1>33. ASSUME NEW s \in Supervisors, Collects(s) PROVE OutcomeMoves
  BY <1>33 DEF Collects, OutcomeMoves
<1>34. ASSUME NEW s \in Supervisors, Waits(s) PROVE OutcomeMoves
  <2>1. run' = Cleared BY <1>34 DEF Waits, Rests
  <2>. QED BY <1>0, <2>1, ClearedRun DEF Typed, OutcomeMoves
<1>35. ASSUME NEW s \in Supervisors, FindsDeadRole(s) PROVE OutcomeMoves
  <2>1. run.status = "running"
    BY <1>0, <1>35, FindsDeadRoleGoes DEF Goes, Fits, Working
  <2>. QED BY <1>0, <1>35, <2>1 DEF FindsDeadRole, rows, Runs, OutcomeMoves
<1>36. ASSUME NEW s \in Supervisors, Decides(s) PROVE OutcomeMoves
  BY <1>36 DEF Decides, OutcomeMoves
<1>37. ASSUME NEW s \in Supervisors, Harvests(s) PROVE OutcomeMoves
  BY <1>37 DEF Harvests, OutcomeMoves
<1>38. ASSUME NEW s \in Supervisors, ChecksDelivery(s) PROVE OutcomeMoves
  BY <1>38 DEF ChecksDelivery, OutcomeMoves
<1>39. ASSUME NEW s \in Supervisors, Pushes(s) PROVE OutcomeMoves
  BY <1>39 DEF Pushes, OutcomeMoves
<1>40. ASSUME NEW s \in Supervisors, DeliveryFails(s) PROVE OutcomeMoves
  BY <1>40 DEF DeliveryFails, OutcomeMoves
<1>41. ASSUME NEW s \in Supervisors, GivesUp(s) PROVE OutcomeMoves
  <2>1. run.status = "running" BY <1>0, <1>41, GivesUpGoes DEF Goes, Fits, Working
  <2>. QED BY <1>0, <1>41, <2>1 DEF GivesUp, rows, Runs, OutcomeMoves
<1>42. ASSUME NEW s \in Supervisors, Completes(s) PROVE OutcomeMoves
  <2>1. /\ Finalized(s, "completed") /\ at(s) = "complete"
        /\ UNCHANGED <<status, start, git>>
    BY <1>0, <1>42, Here DEF Completes, rows
  <2>2. local[s].open \subseteq Reviewers BY <1>0 DEF Typed, LocalTypes, Local
  <2>. QED BY <1>0, <2>1, <2>2, FinalizedReady DEF OutcomeMoves
<1>43. ASSUME NEW s \in Supervisors, Exhausts(s) PROVE OutcomeMoves
  <2>1. Finalized(s, "blocked") /\ UNCHANGED status BY <1>43 DEF Exhausts, rows
  <2>. QED BY <1>0, <2>1, FinalizedReady DEF OutcomeMoves
<1>44. ASSUME NEW s \in Supervisors, StopsReviewers(s) PROVE OutcomeMoves
  BY <1>44 DEF StopsReviewers, OutcomeMoves
<1>45. ASSUME NEW s \in Supervisors, ReadsHead(s) PROVE OutcomeMoves
  BY <1>45 DEF ReadsHead, OutcomeMoves
<1>46. ASSUME NEW s \in Supervisors, Prepares(s) PROVE OutcomeMoves
  <2>1. run'.status = run.status
    <3>1. CASE MayReopen(s) BY <1>0, <1>46, <3>1, PreparesRows
    <3>2. CASE ~MayReopen(s) BY <1>46, <3>2 DEF Prepares
    <3>. QED BY <3>1, <3>2
  <2>. QED BY <2>1 DEF OutcomeMoves
<1>47. ASSUME NEW s \in Supervisors, Returns(s) PROVE OutcomeMoves
  <2>1. run' = Cleared BY <1>47 DEF Returns, Rests
  <2>. QED BY <1>0, <2>1, ClearedRun DEF Typed, OutcomeMoves
<1>48. ASSUME NEW s \in Supervisors, CancelsBlocked(s) PROVE OutcomeMoves
  BY <1>48 DEF CancelsBlocked, OutcomeMoves
<1>49. ASSUME NEW s \in Supervisors, Folds(s) PROVE OutcomeMoves
  <2>1. UNCHANGED status BY <1>49 DEF Folds, rows
  <2>. QED BY <1>0, <1>49, <2>1, FoldsRows DEF OutcomeMoves
<1>50. ASSUME NEW s \in Supervisors, Reaps(s) PROVE OutcomeMoves
  BY <1>50 DEF Reaps, OutcomeMoves
<1>51. ASSUME NEW s \in Supervisors, SetsBlocked(s) PROVE OutcomeMoves
  <2>1. run.status # "completed" BY <1>0, <1>51, SetsBlockedGoes DEF Goes, Fits
  <2>. QED BY <1>0, <1>51, <2>1 DEF SetsBlocked, rows, Runs, OutcomeMoves
<1>52. ASSUME NEW s \in Supervisors, Salvages(s) PROVE OutcomeMoves
  BY <1>52 DEF Salvages, OutcomeMoves
<1>53. ASSUME NEW s \in Supervisors, CancelsOverdue(s) PROVE OutcomeMoves
  BY <1>53 DEF CancelsOverdue, OutcomeMoves
<1>54. ASSUME NEW s \in Supervisors, Releases(s) PROVE OutcomeMoves
  BY <1>0, <1>54 DEF Releases, Runs, OutcomeMoves
<1>55. ASSUME NEW s \in Supervisors, Retires(s) PROVE OutcomeMoves
  BY <1>55 DEF Retires, OutcomeMoves
<1>56. ASSUME NEW s \in Supervisors, Stumbles(s) PROVE OutcomeMoves
  BY <1>56 DEF Stumbles, OutcomeMoves
<1>57. ASSUME NEW s \in Supervisors, RecordsError(s) PROVE OutcomeMoves
  BY <1>0, <1>57 DEF RecordsError, rows, Runs, OutcomeMoves
<1>58. ASSUME NEW s \in Supervisors, Crashes(s) PROVE OutcomeMoves
  BY <1>58 DEF Crashes, OutcomeMoves
<1>59. CASE Agents
  BY <1>59, <1>1, <1>2, <1>3, <1>4, <1>5, <1>6, <1>7, <1>8, <1>9, RunAssumption
      DEF Agents
<1>60. CASE Operator
  BY <1>60, <1>10, <1>11, <1>12, <1>13, <1>14, <1>15 DEF Operator
<1>61. ASSUME NEW s \in Supervisors, Supervises(s) PROVE OutcomeMoves
  BY <1>61, <1>17, <1>18, <1>20, <1>21, <1>22, <1>23, <1>24, <1>25, <1>26,
      <1>27, <1>29, <1>30, <1>31, <1>32, <1>33, <1>34, <1>35, <1>36, <1>37,
      <1>38, <1>39, <1>41, <1>42, <1>43, <1>44, <1>45, <1>46, <1>47, <1>48,
      <1>49, <1>50, <1>51, <1>52, <1>53, <1>54, <1>55, <1>57 DEF Supervises
<1>. QED BY <1>59, <1>60, <1>61, <1>16, <1>19, <1>28, <1>40, <1>56, <1>58 DEF
    Next

-----------------------------------------------------------------------------
\* A reviewer's signal of this cycle is about the commit the reviewer was given,
\* and its reviewer runs, or is done.
Given ==
  \A r \in Reviewers : ready[r][run.cycle] # None =>
    /\ ready[r][run.cycle].sha = start[r]
    /\ status[r] \in {"running", "completed", "cancelled"}

\* A step takes a signal whole or leaves it; only a new cycle has none.
LEMMA TakesBack ==
  ASSUME NEW s \in Supervisors, Taken(s)
  PROVE  \A r \in Roles, c \in Cycles :
           /\ ready'[r][c] # None <=> ready[r][c] # None
           /\ ready'[r][c].sha = ready[r][c].sha
           /\ ready'[r][c].outcome = ready[r][c].outcome
BY DEF Taken, Takes

\* A new cycle begins with nothing signalled and every reviewer waiting.
LEMMA NewCycle ==
  ASSUME Signals, NEW s \in Supervisors, Reopens(s)
  PROVE  /\ \A r \in Roles : ready'[r][run'.cycle] = None
         /\ run'.cycle = run.cycle + 1 /\ run'.status = run.status
         /\ UNCHANGED <<local, git>> /\ run.status = "running"
         /\ \A r \in Reviewers : status'[r] = "requested"
         /\ status'[Worker] = "running" /\ status'[Manager] = status[Manager]
         /\ \A r \in Children : status[r] = "completed"
<1>1. /\ Takes(Reviewers, run.cycle) /\ run'.cycle = run.cycle + 1
      /\ run'.status = run.status
      /\ run.cycle \in Nat /\ run.cycle + 1 \in Cycles
  BY PreparesRows, Attempts DEF Signals, Life, Reopens
<1>2. \A r \in Roles : ready[r][run.cycle + 1] = None
  BY <1>1 DEF Signals, Future
<1>3. \A r \in Roles : ready'[r][run.cycle + 1] = None
  BY <1>1, <1>2 DEF Takes
<1>. QED BY <1>1, <1>3, Names DEF Reopens, Prepares, MayReopen

\* No step gives a reviewer that has signalled another commit.
LEMMA GivenStep ==
  ASSUME Signals, Given, Next
  PROVE  Given'
<1>0. /\ Life /\ Typed /\ run.cycle \in Cycles /\ Reviewers \subseteq Roles
      /\ Attempt(Worker) = run.cycle /\ Worker # Manager /\ Manager \notin Reviewers
  BY Attempts, Names DEF Signals, Life
<1>1. CASE Persists
  <2>1. /\ run'.cycle = run.cycle
        /\ \A r \in Reviewers : status[r] \in {"running", "completed", "cancelled"}
             => /\ status'[r] \in {"running", "completed", "cancelled"}
                /\ start'[r] = start[r]
    BY <1>0, <1>1 DEF Persists, Onward
  <2>2. CASE UNCHANGED ready BY <2>1, <2>2 DEF Given
  <2>3. CASE Noted
    <3>1. PICK r \in Roles, o \in Outcomes, c \in Commits :
            /\ Notes(r, o, c) /\ status[r] = "running"
            /\ r \in Reviewers => c = start[r]
            /\ UNCHANGED <<status, start, run>>
      BY <2>3 DEF Noted
    <3>2. \A q \in Reviewers : Attempt(q) = run.cycle BY <1>0 DEF Attempt
    <3>. QED BY <1>0, <3>1, <3>2 DEF Given, Notes
  <2>4. CASE \E s \in Supervisors : Taken(s)
    BY <1>0, <2>1, <2>4, TakesBack DEF Given
  <2>. QED BY <1>0, <2>2, <2>3, <2>4, SignalStep DEF SignalMoves
<1>2. ASSUME NEW s \in Supervisors, Reopens(s) PROVE Given'
  BY <1>0, <1>2, NewCycle DEF Given
<1>. QED BY <1>0, <1>1, <1>2, RowsStep

\* What a supervisor knows of the signals it judges.
Deciding == {"harvest", "check", "push", "complete", "exhaust", "stop", "read",
             "prepare"}
Judging == {"collect", "decide"} \union Deciding
Delivering == {"harvest", "check", "push", "complete"}
OnCycle(s) ==
  \/ at(s) \in Judging \union {"reopen", "list"}
  \/ at(s) \in Launching /\ local[s].who = Worker
Listed(s) ==
  \A r \in Reviewers :
    /\ r \in local[s].list => ready[r][run.cycle] # None
    /\ r \in local[s].open
         <=> r \in local[s].list /\ ~ready[r][run.cycle].consumed
Reviewed == \A r \in Reviewers : status[r] = "completed"
JudgedOf(s) ==
  /\ OnCycle(s) => local[s].cycle = run.cycle
  /\ at(s) \in Judging => Listed(s)
  /\ at(s) \in Deciding => local[s].list = Reviewers /\ local[s].open # {}
  /\ at(s) \in Delivering => Unanimous(s)
  /\ at(s) = "push" => Reviewed /\ \A r \in Reviewers : tip \in {start[r], Foreign}
  /\ at(s) = "complete"
       => Reviewed /\ \A r \in Reviewers : remote \in {start[r], Foreign}
AllJudged == \A s \in Supervisors : JudgedOf(s)

\* The signals of a cycle are taken together, but for those whose reviewer was
\* cancelled with them.
Spent(r) == ready[r][run.cycle] # None /\ ready[r][run.cycle].consumed
Together ==
  run.status # "completed" =>
    \/ \A r \in Reviewers : Spent(r) => status[r] = "cancelled"
    \/ \A r \in Reviewers : Spent(r)

\* What is not the doing of a supervisor leaves alone what one has judged.
Steady ==
  /\ run'.cycle = run.cycle
  /\ \A r \in Reviewers : ready[r][run.cycle] # None
       => /\ ready'[r][run.cycle] # None
          /\ ready'[r][run.cycle].outcome = ready[r][run.cycle].outcome
          /\ ready'[r][run.cycle].consumed <=> ready[r][run.cycle].consumed
  /\ \A r \in Reviewers : status[r] = "completed"
       => status'[r] = "completed" /\ start'[r] = start[r]
  /\ tip' \in {tip, Foreign} /\ UNCHANGED remote

\* What a supervisor has judged stays so through a steady step.
LEMMA SteadyJudged ==
  ASSUME Typed, Steady, NEW t \in Supervisors, JudgedOf(t), at(t)' = at(t),
         local'[t] = local[t]
  PROVE  JudgedOf(t)'
<1>. SUFFICES ASSUME at(t) \in Judging \union {"reopen", "list"} \union Launching
              PROVE  JudgedOf(t)'
  BY DEF JudgedOf, OnCycle, Judging, Deciding, Delivering
<1>1. OnCycle(t)' => local'[t].cycle = run'.cycle BY DEF JudgedOf, OnCycle, Steady
<1>2. at(t) \in Judging => local[t].cycle = run.cycle /\ Listed(t)
  BY DEF JudgedOf, OnCycle
<1>3. at(t)' \in Judging => Listed(t)' BY <1>2 DEF Listed, Steady
<1>4. at(t)' \in Deciding => local'[t].list = Reviewers /\ local'[t].open # {}
  BY DEF JudgedOf
<1>5. at(t)' \in Delivering => Unanimous(t)'
  <2>. SUFFICES ASSUME at(t) \in Delivering PROVE Unanimous(t)' OBVIOUS
  <2>1. /\ local[t].cycle = run.cycle /\ Listed(t) /\ Unanimous(t)
        /\ local[t].open \subseteq Reviewers
    BY <1>2 DEF Delivering, Judging, Deciding, JudgedOf, Typed, LocalTypes, Local
  <2>2. \A r \in local[t].open :
          /\ ready[r][run.cycle] # None
          /\ ready[r][run.cycle].outcome = "approved"
    BY <2>1 DEF Listed, Unanimous
  <2>. QED BY <2>1, <2>2 DEF Unanimous, Steady
<1>6. at(t)' = "push"
        => Reviewed' /\ \A r \in Reviewers : tip' \in {start'[r], Foreign}
  BY DEF JudgedOf, Reviewed, Steady
<1>7. at(t)' = "complete"
        => Reviewed' /\ \A r \in Reviewers : remote' \in {start'[r], Foreign}
  BY DEF JudgedOf, Reviewed, Steady
<1>. QED BY <1>1, <1>3, <1>4, <1>5, <1>6, <1>7 DEF JudgedOf

\* Where one acts alone, what it has judged is all that is judged.
LEMMA AloneJudged ==
  ASSUME Owned, NEW s \in Supervisors, Alone(s), at(s) # "none", JudgedOf(s)'
  PROVE  AllJudged'
<1>1. \A t \in Supervisors : t # s => at(t) = "none" BY DEF Owned
<1>2. \A t \in Supervisors : t # s => at(t)' = "none" BY <1>1 DEF Alone
<1>3. \A t \in Supervisors : at(t)' = "none" => JudgedOf(t)'
  BY DEF JudgedOf, OnCycle, Judging, Deciding, Delivering, Launching
<1>. QED BY <1>2, <1>3 DEF AllJudged

\* A step that takes no signal and pushes nothing is steady.
LEMMA SteadyStep ==
  ASSUME Life, Persists, UNCHANGED ready \/ Noted, tip' \in {tip, Foreign},
         UNCHANGED remote
  PROVE  Steady
<1>0. Typed /\ Reviewers \subseteq Roles /\ run.cycle \in Cycles
  BY Names, Attempts DEF Life
<1>1. /\ run'.cycle = run.cycle
      /\ \A r \in Reviewers : status[r] = "completed"
           => status'[r] = "completed" /\ start'[r] = start[r]
  BY <1>0 DEF Persists, Onward
<1>2. \A r \in Reviewers : ready[r][run.cycle] # None
        => ready'[r][run.cycle] = ready[r][run.cycle]
  <2>1. CASE UNCHANGED ready BY <2>1
  <2>2. CASE Noted BY <1>0, <2>2 DEF Noted, Notes
  <2>. QED BY <2>1, <2>2
<1>. QED BY <1>1, <1>2 DEF Steady

\* No step undoes what a supervisor has judged.
LEMMA JudgedStep ==
  ASSUME Manual = {}, Signals, Owned, Given, AllJudged, Next
  PROVE  AllJudged'
<1>0. /\ Life /\ Typed /\ Scripted /\ InHand /\ LocalTypes
      /\ run.cycle \in Cycles /\ Reviewers \subseteq Roles
      /\ \A s \in Supervisors : JudgedOf(s)
      /\ Supervisors = Coordinators
  BY Attempts, Names DEF Signals, Life, Typed, AllJudged, Supervisors
<1>j. Judging = {"collect", "decide", "harvest", "check", "push", "complete",
                 "exhaust", "stop", "read", "prepare"}
  BY DEF Judging, Deciding
<1>p. ASSUME ~\E s \in Supervisors : Reopens(s) PROVE Persists
  BY <1>0, <1>p, RowsStep
<1>a. ASSUME UNCHANGED <<pc, local>>, UNCHANGED ready \/ Noted, Persists,
             tip' \in {tip, Foreign}, UNCHANGED remote
      PROVE  AllJudged'
  <2>1. Steady BY <1>0, <1>a, SteadyStep
  <2>2. \A t \in Supervisors : at(t)' = at(t) BY <1>0, <1>a, NobodyGoes
  <2>. QED BY <1>0, <1>a, <2>1, <2>2, SteadyJudged DEF AllJudged
<1>s. ASSUME NEW s \in Supervisors,
             at(s)' \notin Judging \union {"reopen", "list"} \union Launching
      PROVE  JudgedOf(s)'
  BY <1>s DEF JudgedOf, OnCycle, Judging, Deciding, Delivering
<1>1. ASSUME WorkerCommits PROVE AllJudged'
  <2>1. Persists BY <1>1, SamePersists DEF WorkerCommits, rows
  <2>. QED BY <1>a, <1>1, <2>1 DEF WorkerCommits, git
<1>2. ASSUME ManagerCommits PROVE AllJudged'
  <2>1. Persists BY <1>2, SamePersists DEF ManagerCommits, rows
  <2>. QED BY <1>a, <1>2, <2>1 DEF ManagerCommits, git
<1>3. ASSUME ManagerReports PROVE AllJudged'
  <2>1. Persists BY <1>3, SamePersists DEF ManagerReports, rows
  <2>2. UNCHANGED ready \/ Noted BY <1>0, <1>3, ReportNotes
  <2>. QED BY <1>a, <1>3, <2>1, <2>2 DEF ManagerReports, git
<1>4. ASSUME NEW r \in Reviewers, ReviewerReports(r) PROVE AllJudged'
  <2>1. Persists BY <1>4, SamePersists DEF ReviewerReports, rows
  <2>2. UNCHANGED ready \/ Noted BY <1>0, <1>4, ReportNotes
  <2>. QED BY <1>a, <1>4, <2>1, <2>2 DEF ReviewerReports, git
<1>5. ASSUME NEW r \in Roles, Blocks(r) PROVE AllJudged'
  <2>1. Persists BY <1>5, SamePersists DEF Blocks, rows
  <2>2. UNCHANGED ready \/ Noted BY <1>0, <1>5, ReportNotes
  <2>. QED BY <1>a, <1>5, <2>1, <2>2 DEF Blocks, git
<1>6. ASSUME WorkerVerifies PROVE AllJudged'
  <2>1. Persists BY <1>6, SamePersists DEF WorkerVerifies, rows
  <2>. QED BY <1>a, <1>6, <2>1 DEF WorkerVerifies, git
<1>7. ASSUME WorkerReports PROVE AllJudged'
  <2>1. Persists BY <1>7, SamePersists DEF WorkerReports, rows
  <2>2. UNCHANGED ready \/ Noted BY <1>0, <1>7, ReportNotes
  <2>. QED BY <1>a, <1>7, <2>1, <2>2 DEF WorkerReports, git
<1>8. ASSUME NEW r \in Roles, ReportsResult(r) PROVE AllJudged'
  <2>1. Persists BY <1>8, SamePersists DEF ReportsResult, rows
  <2>. QED BY <1>a, <1>8, <2>1 DEF ReportsResult, git
<1>9. ASSUME NEW r \in Roles, AgentDies(r) PROVE AllJudged'
  <2>1. Persists BY <1>9, SamePersists DEF AgentDies, rows
  <2>. QED BY <1>a, <1>9, <2>1 DEF AgentDies, git
<1>10. ASSUME NEW r \in Roles, OperatorCancels(r) PROVE AllJudged'
  <2>1. Persists BY <1>0, <1>10, EndedPersists DEF OperatorCancels, Abandoned
  <2>. QED BY <1>a, <1>10, <2>1 DEF OperatorCancels, git
<1>11. ASSUME NEW r \in Roles, CleansStart(r) PROVE AllJudged'
  <2>1. Persists BY <1>0, <1>11, EndedPersists DEF CleansStart, Abandoned
  <2>. QED BY <1>a, <1>11, <2>1 DEF CleansStart, git
<1>12. ASSUME NEW r \in Roles, OperatorResumes(r) PROVE AllJudged'
  <2>1. Persists BY <1>12, SamePersists DEF OperatorResumes, rows
  <2>. QED BY <1>a, <1>12, <2>1 DEF OperatorResumes, git
<1>13. ASSUME NEW s \in Coordinators, Attaches(s) PROVE AllJudged'
  <2>1. Goes(s, {"none"}, {"idle"}) BY <1>0, <1>13, AttachesGoes
  <2>2. Persists BY <1>0, <1>13, SamePersists DEF Attaches, rows
  <2>3. Steady BY <1>0, <1>13, <2>2, SteadyStep DEF Attaches, git
  <2>4. UNCHANGED local BY <1>13 DEF Attaches
  <2>. QED BY <1>0, <1>j, <1>s, <2>1, <2>3, <2>4, SteadyJudged DEF AllJudged,
      Goes, Launching
<1>14. ASSUME NEW s \in Coordinators, Retries(s) PROVE AllJudged'
  <2>1. \A t \in Supervisors : \/ at(t)' \in {"none", "idle"}
                                  \/ (at(t)' = at(t) /\ local'[t] = local[t])
    BY <1>0, <1>14, RetriesAlone
  <2>2. Persists
    BY <1>0, <1>14, SamePersists DEF Typed, RunTypes, Runs, Retries, rows
  <2>3. Steady BY <1>0, <1>14, <2>2, SteadyStep DEF Retries, git
  <2>. QED BY <1>0, <1>j, <1>s, <2>1, <2>3, SteadyJudged DEF AllJudged, Launching
<1>15. ASSUME NEW s \in Manual, StartsByHand(s) PROVE AllJudged'
  BY <1>15
<1>16. ASSUME TimePasses PROVE AllJudged'
  <2>1. Persists
    BY <1>0, <1>16, SamePersists DEF Typed, RunTypes, Runs, TimePasses, rows
  <2>. QED BY <1>a, <1>16, <2>1 DEF TimePasses, git
<1>17. ASSUME NEW s \in Supervisors, Closes(s) PROVE AllJudged'
  <2>1. \A t \in Supervisors : \/ at(t)' \in {"none", "idle"}
                                  \/ (at(t)' = at(t) /\ local'[t] = local[t])
    BY <1>0, <1>17, ClosesAlone
  <2>2. Persists
    BY <1>0, <1>17, SamePersists DEF Typed, RunTypes, Runs, Closes, rows
  <2>3. Steady BY <1>0, <1>17, <2>2, SteadyStep DEF Closes, git
  <2>. QED BY <1>0, <1>j, <1>s, <2>1, <2>3, SteadyJudged DEF AllJudged, Launching
<1>18. ASSUME NEW s \in Supervisors, Begins(s) PROVE AllJudged'
  <2>1. Alone(s) BY <1>0, <1>18, BeginsGoes, ClosesGoes, ActsAlone DEF Supervises,
      Goes
  <2>2. at(s) # "none" BY <1>0, <1>18, BeginsGoes DEF Goes
  <2>3. JudgedOf(s)' BY <1>0, <1>j, <1>s, <1>18, BeginsGoes DEF Goes, Launching
  <2>. QED BY <1>0, <2>1, <2>2, <2>3, AloneJudged
<1>19. ASSUME NEW s \in Supervisors, NEW r \in Roles, Overdue(s, r) PROVE
    AllJudged'
  <2>1. Alone(s) BY <1>0, <1>19, ActsAlone
  <2>2. at(s) # "none" BY <1>0, <1>19, OverdueGoes DEF Goes
  <2>3. JudgedOf(s)' BY <1>0, <1>j, <1>s, <1>19, OverdueGoes DEF Goes, Launching
  <2>. QED BY <1>0, <2>1, <2>2, <2>3, AloneJudged
<1>20. ASSUME NEW s \in Supervisors, NothingOverdue(s) PROVE AllJudged'
  <2>1. Alone(s) BY <1>0, <1>20, NothingOverdueGoes, ClosesGoes, ActsAlone DEF
      Supervises, Goes
  <2>2. at(s) # "none" BY <1>0, <1>20, NothingOverdueGoes DEF Goes
  <2>3. JudgedOf(s)' BY <1>0, <1>j, <1>s, <1>20, NothingOverdueGoes DEF Goes,
      Launching
  <2>. QED BY <1>0, <2>1, <2>2, <2>3, AloneJudged
<1>21. ASSUME NEW s \in Supervisors, ReadsSignals(s) PROVE AllJudged'
  <2>1. Alone(s) BY <1>0, <1>21, ReadsSignalsGoes, ClosesGoes, ActsAlone DEF
      Supervises, Goes
  <2>2. at(s) # "none" BY <1>0, <1>21, ReadsSignalsGoes DEF Goes
  <2>4. \/ at(s)' \in {"blocker", "work"}
        \/ at(s)' \in {"handoff", "launch"} /\ local'[s].who = Manager
    <3>1. \/ Then(s, <<"blocker", "fold", "salvage", "reap", "retire", "close">>)
          \/ Then(s, <<"work">>)
          \/ local' = [local EXCEPT ![s] = [Fresh EXCEPT !.who = Manager, !.todo = {Worker}]]
      BY <1>21 DEF ReadsSignals
    <3>2. \/ Then(s, <<"blocker", "fold", "salvage", "reap", "retire", "close">>)
          \/ Then(s, <<"work">>)
          => at(s)' \in {"blocker", "work"}
      BY <1>0, Written, GoesThen DEF Goes
    <3>3. [Fresh EXCEPT !.who = Manager, !.todo = {Worker}].who = Manager
      BY DEF Fresh
    <3>4. local' = [local EXCEPT ![s] = [Fresh EXCEPT !.who = Manager, !.todo = {Worker}]]
            => local'[s].who = Manager
      BY <1>0, <3>3 DEF LocalTypes
    <3>. QED BY <1>0, <1>21, <3>1, <3>2, <3>4, ReadsSignalsGoes DEF Goes
  <2>3. JudgedOf(s)'
    BY <2>4, Names DEF Launching, JudgedOf, OnCycle, Judging, Deciding, Delivering
  <2>. QED BY <1>0, <2>1, <2>2, <2>3, AloneJudged
<1>22. ASSUME NEW s \in Supervisors, HandsOff(s) PROVE AllJudged'
  <2>1. Alone(s) BY <1>0, <1>22, HandsOffGoes, ClosesGoes, ActsAlone DEF
      Supervises, Goes
  <2>2. at(s) # "none" BY <1>0, <1>22, HandsOffGoes DEF Goes
  <2>4. /\ at(s) \in Launching /\ at(s)' \in Launching \union {"block"}
        /\ UNCHANGED <<local, run>>
    BY <1>0, <1>22, HandsOffGoes DEF Goes, Launching, HandsOff
  <2>3. JudgedOf(s)'
    BY <1>0, <2>4 DEF Launching, JudgedOf, OnCycle, Judging, Deciding,
        Delivering
  <2>. QED BY <1>0, <2>1, <2>2, <2>3, AloneJudged
<1>23. ASSUME NEW s \in Supervisors, Finishes(s) PROVE AllJudged'
  <2>1. Alone(s) BY <1>0, <1>23, FinishesGoes, ClosesGoes, ActsAlone DEF
      Supervises, Goes
  <2>2. at(s) # "none" BY <1>0, <1>23, FinishesGoes DEF Goes
  <2>4. /\ at(s) \in Launching /\ at(s)' \in Launching \union {"block"}
        /\ UNCHANGED <<local, run>>
    BY <1>0, <1>23, FinishesGoes DEF Goes, Launching, Finishes
  <2>3. JudgedOf(s)'
    BY <1>0, <2>4 DEF Launching, JudgedOf, OnCycle, Judging, Deciding,
        Delivering
  <2>. QED BY <1>0, <2>1, <2>2, <2>3, AloneJudged
<1>24. ASSUME NEW s \in Supervisors, Launches(s) PROVE AllJudged'
  <2>1. Alone(s) BY <1>0, <1>24, LaunchesGoes, ClosesGoes, ActsAlone DEF
      Supervises, Goes
  <2>2. at(s) # "none" BY <1>0, <1>24, LaunchesGoes DEF Goes
  <2>4. /\ at(s) \in Launching /\ at(s)' \in Launching \union {"block"}
        /\ UNCHANGED run
    BY <1>0, <1>24, LaunchesGoes DEF Goes, Launching, Launches
  <2>5. local'[s].who = local[s].who /\ local'[s].cycle = local[s].cycle
    BY <1>0, <1>24 DEF Launches, LocalTypes, Local
  <2>3. JudgedOf(s)'
    BY <1>0, <2>4, <2>5
    DEF Launching, JudgedOf, OnCycle, Judging, Deciding, Delivering
  <2>. QED BY <1>0, <2>1, <2>2, <2>3, AloneJudged
<1>25. ASSUME NEW s \in Supervisors, Asks(s) PROVE AllJudged'
  <2>1. Alone(s) BY <1>0, <1>25, AsksGoes, ClosesGoes, ActsAlone DEF Supervises,
      Goes
  <2>2. at(s) # "none" BY <1>0, <1>25, AsksGoes DEF Goes
  <2>4. /\ at(s) \in Launching /\ at(s)' \in Launching \union {"block"}
        /\ UNCHANGED <<local, run>>
    BY <1>0, <1>25, AsksGoes DEF Goes, Launching, Asks
  <2>3. JudgedOf(s)'
    BY <1>0, <2>4 DEF Launching, JudgedOf, OnCycle, Judging, Deciding,
        Delivering
  <2>. QED BY <1>0, <2>1, <2>2, <2>3, AloneJudged
<1>26. ASSUME NEW s \in Supervisors, BeginsStart(s) PROVE AllJudged'
  <2>1. Alone(s) BY <1>0, <1>26, BeginsStartGoes, ClosesGoes, ActsAlone DEF
      Supervises, Goes
  <2>2. at(s) # "none" BY <1>0, <1>26, BeginsStartGoes DEF Goes
  <2>4. /\ at(s) \in Launching /\ at(s)' \in Launching \union {"block"}
        /\ UNCHANGED <<local, run>>
    BY <1>0, <1>26, BeginsStartGoes DEF Goes, Launching, BeginsStart
  <2>3. JudgedOf(s)'
    BY <1>0, <2>4 DEF Launching, JudgedOf, OnCycle, Judging, Deciding,
        Delivering
  <2>. QED BY <1>0, <2>1, <2>2, <2>3, AloneJudged
<1>27. ASSUME NEW s \in Supervisors, Creates(s) PROVE AllJudged'
  <2>1. Alone(s) BY <1>0, <1>27, CreatesGoes, ClosesGoes, ActsAlone DEF
      Supervises, Goes
  <2>2. at(s) # "none" BY <1>0, <1>27, CreatesGoes DEF Goes
  <2>4. /\ at(s) \in Launching /\ at(s)' \in Launching \union {"block"}
        /\ UNCHANGED run
    BY <1>0, <1>27, CreatesGoes DEF Goes, Launching, Creates
  <2>5. local'[s].who = local[s].who /\ local'[s].cycle = local[s].cycle
    <3>1. \/ local'[s] = local[s]
          \/ local'[s] = [local[s] EXCEPT !.todo = @ \ {local[s].child},
                                         !.child = Worker]
      BY <1>0, <1>27 DEF Creates, LocalTypes
    <3>. QED BY <1>0, <3>1 DEF LocalTypes, Local
  <2>3. JudgedOf(s)'
    BY <1>0, <2>4, <2>5
    DEF Launching, JudgedOf, OnCycle, Judging, Deciding, Delivering
  <2>. QED BY <1>0, <2>1, <2>2, <2>3, AloneJudged
<1>28. ASSUME NEW s \in Supervisors, CreateFails(s) PROVE AllJudged'
  <2>1. Alone(s) BY <1>0, <1>28, ActsAlone
  <2>2. at(s) # "none" BY <1>0, <1>28, CreateFailsGoes DEF Goes
  <2>3. JudgedOf(s)' BY <1>0, <1>j, <1>s, <1>28, CreateFailsGoes DEF Goes,
      Launching
  <2>. QED BY <1>0, <2>1, <2>2, <2>3, AloneJudged
<1>29. ASSUME NEW s \in Supervisors, Consumes(s) PROVE AllJudged'
  <2>1. Alone(s) BY <1>0, <1>29, ConsumesGoes, ClosesGoes, ActsAlone DEF
      Supervises, Goes
  <2>2. at(s) # "none" BY <1>0, <1>29, ConsumesGoes DEF Goes
  <2>3. JudgedOf(s)' BY <1>0, <1>j, <1>s, <1>29, ConsumesGoes DEF Goes, Launching
  <2>. QED BY <1>0, <2>1, <2>2, <2>3, AloneJudged
<1>30. ASSUME NEW s \in Supervisors, Works(s) PROVE AllJudged'
  <2>1. Alone(s) BY <1>0, <1>30, WorksGoes, ClosesGoes, ActsAlone DEF Supervises,
      Goes
  <2>2. at(s) # "none" BY <1>0, <1>30, WorksGoes DEF Goes
  <2>4. at(s)' \in {"handoff", "launch", "list", "reopen"} /\ UNCHANGED run
    BY <1>0, <1>30, WorksGoes DEF Goes, Works
  <2>5. PICK x : local' = [local EXCEPT ![s] =
                             [Fresh EXCEPT !.cycle = run.cycle, !.who = Worker,
                                           !.todo = x]]
    BY <1>30 DEF Works
  <2>6. local'[s].cycle = run.cycle
    <3>1. [Fresh EXCEPT !.cycle = run.cycle, !.who = Worker, !.todo = x].cycle = run.cycle
      BY DEF Fresh
    <3>. QED BY <1>0, <2>5, <3>1 DEF LocalTypes
  <2>3. JudgedOf(s)'
    BY <2>4, <2>6 DEF JudgedOf, OnCycle, Judging, Deciding, Delivering
  <2>. QED BY <1>0, <2>1, <2>2, <2>3, AloneJudged
<1>31. ASSUME NEW s \in Supervisors, Reworks(s) PROVE AllJudged'
  <2>1. Alone(s) BY <1>0, <1>31, ReworksGoes, ClosesGoes, ActsAlone DEF
      Supervises, Goes
  <2>2. at(s) # "none" BY <1>0, <1>31, ReworksGoes DEF Goes
  <2>4. /\ at(s)' \in {"block", "list", "rest"}
        /\ UNCHANGED <<local, run>>
    BY <1>0, <1>31, ReworksGoes DEF Goes, Reworks
  <2>5. at(s)' = "list" => at(s) = "reopen"
    <3>1. at(s) = "rework" => at(s)' \in {"block", "rest"}
      BY <1>0, <1>31, GoesContinue, GoesFails, <2>2, Here DEF Reworks, Goes,
          Follows
    <3>. QED BY <1>0, <1>31, <3>1, ReworksGoes DEF Goes
  <2>3. JudgedOf(s)'
    BY <1>0, <2>4, <2>5
    DEF Launching, JudgedOf, OnCycle, Judging, Deciding, Delivering
  <2>. QED BY <1>0, <2>1, <2>2, <2>3, AloneJudged
<1>32. ASSUME NEW s \in Supervisors, Lists(s) PROVE AllJudged'
  <2>1. Alone(s) BY <1>0, <1>32, ListsGoes, ClosesGoes, ActsAlone DEF Supervises,
      Goes
  <2>2. at(s) # "none" BY <1>0, <1>32, ListsGoes DEF Goes
  <2>4. at(s) = "list" /\ at(s)' = "collect" /\ UNCHANGED <<run, ready>>
    BY <1>0, <1>32, ListsGoes DEF Goes, Lists
  <2>5. local[s].cycle = run.cycle BY <1>0, <2>4 DEF JudgedOf, OnCycle
  <2>6. /\ local'[s].cycle = run.cycle
        /\ local'[s].list = {r \in Reviewers : ready[r][run.cycle] # None}
        /\ local'[s].open = {r \in Reviewers : Pending(r, run.cycle)}
    <3>1. PICK x : local'[s] =
            [local[s] EXCEPT
               !.list = {r \in Reviewers : ready[r][run.cycle] # None},
               !.open = {r \in Reviewers : Pending(r, run.cycle)}, !.todo = x]
      BY <1>0, <1>32, <2>5 DEF Lists, LocalTypes
    <3>. QED BY <1>0, <2>5, <3>1 DEF LocalTypes, Local
  <2>7. Listed(s)' BY <2>4, <2>6 DEF Listed, Pending
  <2>3. JudgedOf(s)'
    BY <2>4, <2>6, <2>7 DEF JudgedOf, OnCycle, Judging, Deciding, Delivering
  <2>. QED BY <1>0, <2>1, <2>2, <2>3, AloneJudged
<1>33. ASSUME NEW s \in Supervisors, Collects(s) PROVE AllJudged'
  <2>1. Alone(s) BY <1>0, <1>33, CollectsGoes, ClosesGoes, ActsAlone DEF
      Supervises, Goes
  <2>2. at(s) # "none" BY <1>0, <1>33, CollectsGoes DEF Goes
  <2>4. /\ at(s) = "collect" /\ at(s)' \in {"block", "collect", "decide"}
        /\ UNCHANGED <<run, ready>>
    BY <1>0, <1>33, CollectsGoes DEF Goes, Collects
  <2>5. local[s].cycle = run.cycle /\ Listed(s)
    BY <1>0, <2>4 DEF JudgedOf, OnCycle, Judging
  <2>6. /\ local'[s].cycle = local[s].cycle /\ local'[s].list = local[s].list
        /\ local'[s].open = local[s].open
    BY <1>0, <1>33 DEF Collects, LocalTypes, Local
  <2>7. Listed(s)' BY <2>4, <2>5, <2>6 DEF Listed
  <2>3. JudgedOf(s)'
    BY <2>4, <2>5, <2>6, <2>7
    DEF JudgedOf, OnCycle, Judging, Deciding, Delivering, Launching
  <2>. QED BY <1>0, <2>1, <2>2, <2>3, AloneJudged
<1>34. ASSUME NEW s \in Supervisors, Waits(s) PROVE AllJudged'
  <2>1. Alone(s) BY <1>0, <1>34, WaitsGoes, ClosesGoes, ActsAlone DEF Supervises,
      Goes
  <2>2. at(s) # "none" BY <1>0, <1>34, WaitsGoes DEF Goes
  <2>3. JudgedOf(s)' BY <1>0, <1>j, <1>s, <1>34, WaitsGoes DEF Goes, Launching
  <2>. QED BY <1>0, <2>1, <2>2, <2>3, AloneJudged
<1>35. ASSUME NEW s \in Supervisors, FindsDeadRole(s) PROVE AllJudged'
  <2>1. Alone(s) BY <1>0, <1>35, FindsDeadRoleGoes, ClosesGoes, ActsAlone DEF
      Supervises, Goes
  <2>2. at(s) # "none" BY <1>0, <1>35, FindsDeadRoleGoes DEF Goes
  <2>3. JudgedOf(s)' BY <1>0, <1>j, <1>s, <1>35, FindsDeadRoleGoes DEF Goes,
      Launching
  <2>. QED BY <1>0, <2>1, <2>2, <2>3, AloneJudged
<1>36. ASSUME NEW s \in Supervisors, Decides(s) PROVE AllJudged'
  <2>1. Alone(s) BY <1>0, <1>36, DecidesGoes, ClosesGoes, ActsAlone DEF
      Supervises, Goes
  <2>2. at(s) # "none" BY <1>0, <1>36, DecidesGoes DEF Goes
  <2>4. /\ at(s) = "decide" /\ at(s)' \in {"exhaust", "harvest", "stop"}
        /\ UNCHANGED <<run, ready, local>>
    BY <1>0, <1>36, DecidesGoes DEF Goes, Decides
  <2>5. /\ local[s].cycle = run.cycle /\ Listed(s)
        /\ local[s].list = Reviewers /\ local[s].open # {}
    BY <1>0, <1>36, <2>4 DEF JudgedOf, OnCycle, Judging, Decides, Judged,
        Incomplete
  <2>6. at(s)' = "harvest" => Unanimous(s)
    <3>1. ~Unanimous(s)
            => \/ Then(s, <<"exhaust", "salvage", "retire", "close">>)
               \/ Then(s, <<"stop", "read", "prepare", "rework", "rest">>)
      BY <1>36 DEF Decides
    <3>. QED BY <1>0, <3>1, Written, GoesThen DEF Goes
  <2>7. Listed(s)' /\ (Unanimous(s) => Unanimous(s)')
    BY <2>4, <2>5 DEF Listed, Unanimous
  <2>3. JudgedOf(s)'
    BY <2>4, <2>5, <2>6, <2>7
    DEF JudgedOf, OnCycle, Judging, Deciding, Delivering, Launching
  <2>. QED BY <1>0, <2>1, <2>2, <2>3, AloneJudged
<1>37. ASSUME NEW s \in Supervisors, Harvests(s) PROVE AllJudged'
  <2>1. Alone(s) BY <1>0, <1>37, HarvestsGoes, ClosesGoes, ActsAlone DEF
      Supervises, Goes
  <2>2. at(s) # "none" BY <1>0, <1>37, HarvestsGoes DEF Goes
  <2>4. /\ at(s) = "harvest" /\ at(s)' \in {"check", "giveup"}
        /\ UNCHANGED <<run, ready, local>>
    BY <1>0, <1>37, HarvestsGoes DEF Goes, Harvests
  <2>5. /\ local[s].cycle = run.cycle /\ Listed(s) /\ Unanimous(s)
        /\ local[s].list = Reviewers /\ local[s].open # {}
    BY <1>0, <2>4 DEF JudgedOf, OnCycle, Judging, Deciding, Delivering
  <2>7. Listed(s)' /\ Unanimous(s)' BY <2>4, <2>5 DEF Listed, Unanimous
  <2>3. JudgedOf(s)'
    BY <2>4, <2>5, <2>7
    DEF JudgedOf, OnCycle, Judging, Deciding, Delivering, Launching
  <2>. QED BY <1>0, <2>1, <2>2, <2>3, AloneJudged
<1>38. ASSUME NEW s \in Supervisors, ChecksDelivery(s) PROVE AllJudged'
  <2>1. Alone(s) BY <1>0, <1>38, ChecksDeliveryGoes, ClosesGoes, ActsAlone DEF
      Supervises, Goes
  <2>2. at(s) # "none" BY <1>0, <1>38, ChecksDeliveryGoes DEF Goes
  <2>4. /\ at(s) = "check" /\ at(s)' \in {"push", "giveup"}
        /\ UNCHANGED <<run, ready, local, rows, git>>
    BY <1>0, <1>38, ChecksDeliveryGoes DEF Goes, ChecksDelivery
  <2>5. /\ local[s].cycle = run.cycle /\ Listed(s) /\ Unanimous(s)
        /\ local[s].list = Reviewers /\ local[s].open # {}
    BY <1>0, <2>4 DEF JudgedOf, OnCycle, Judging, Deciding, Delivering
  <2>6. at(s)' = "push" => Reviewed /\ \A r \in Reviewers : tip = start[r]
    <3>1. CASE ApprovedSha = {tip}
      <4>1. tip \in ApprovedSha BY <3>1
      <4>2. Reviewed /\ ApprovedSha = {start[r] : r \in Reviewers}
        BY <4>1 DEF ApprovedSha, Reviewed
      <4>. QED BY <3>1, <4>2
    <3>2. CASE ApprovedSha # {tip}
      BY <1>0, <1>38, <3>2, GoesUndelivered DEF ChecksDelivery, Goes
    <3>. QED BY <3>1, <3>2
  <2>7. Listed(s)' /\ Unanimous(s)' /\ (Reviewed => Reviewed')
        /\ UNCHANGED <<tip, start>>
    BY <2>4, <2>5 DEF Listed, Unanimous, Reviewed, rows, git
  <2>3. JudgedOf(s)'
    BY <2>4, <2>5, <2>6, <2>7
    DEF JudgedOf, OnCycle, Judging, Deciding, Delivering, Launching
  <2>. QED BY <1>0, <2>1, <2>2, <2>3, AloneJudged
<1>39. ASSUME NEW s \in Supervisors, Pushes(s) PROVE AllJudged'
  <2>1. Alone(s) BY <1>0, <1>39, PushesGoes, ClosesGoes, ActsAlone DEF Supervises,
      Goes
  <2>2. at(s) # "none" BY <1>0, <1>39, PushesGoes DEF Goes
  <2>4. /\ at(s) = "push" /\ at(s)' = "complete" /\ remote' = tip
        /\ UNCHANGED <<run, ready, local, status, start>>
    BY <1>0, <1>39, PushesGoes DEF Goes, Pushes, rows
  <2>5. /\ local[s].cycle = run.cycle /\ Listed(s) /\ Unanimous(s)
        /\ local[s].list = Reviewers /\ local[s].open # {}
        /\ Reviewed /\ \A r \in Reviewers : tip \in {start[r], Foreign}
    BY <1>0, <2>4 DEF JudgedOf, OnCycle, Judging, Deciding, Delivering
  <2>7. Listed(s)' /\ Unanimous(s)' /\ Reviewed'
    BY <2>4, <2>5 DEF Listed, Unanimous, Reviewed
  <2>3. JudgedOf(s)'
    BY <2>4, <2>5, <2>7
    DEF JudgedOf, OnCycle, Judging, Deciding, Delivering, Launching
  <2>. QED BY <1>0, <2>1, <2>2, <2>3, AloneJudged
<1>40. ASSUME NEW s \in Supervisors, DeliveryFails(s) PROVE AllJudged'
  <2>1. Alone(s) BY <1>0, <1>40, ActsAlone
  <2>2. at(s) # "none" BY <1>0, <1>40, DeliveryFailsGoes DEF Goes
  <2>3. JudgedOf(s)' BY <1>0, <1>j, <1>s, <1>40, DeliveryFailsGoes DEF Goes,
      Launching
  <2>. QED BY <1>0, <2>1, <2>2, <2>3, AloneJudged
<1>41. ASSUME NEW s \in Supervisors, GivesUp(s) PROVE AllJudged'
  <2>1. Alone(s) BY <1>0, <1>41, GivesUpGoes, ClosesGoes, ActsAlone DEF
      Supervises, Goes
  <2>2. at(s) # "none" BY <1>0, <1>41, GivesUpGoes DEF Goes
  <2>3. JudgedOf(s)' BY <1>0, <1>j, <1>s, <1>41, GivesUpGoes DEF Goes, Launching
  <2>. QED BY <1>0, <2>1, <2>2, <2>3, AloneJudged
<1>42. ASSUME NEW s \in Supervisors, Completes(s) PROVE AllJudged'
  <2>1. Alone(s) BY <1>0, <1>42, CompletesGoes, ClosesGoes, ActsAlone DEF
      Supervises, Goes
  <2>2. at(s) # "none" BY <1>0, <1>42, CompletesGoes DEF Goes
  <2>3. JudgedOf(s)' BY <1>0, <1>j, <1>s, <1>42, CompletesGoes DEF Goes, Launching
  <2>. QED BY <1>0, <2>1, <2>2, <2>3, AloneJudged
<1>43. ASSUME NEW s \in Supervisors, Exhausts(s) PROVE AllJudged'
  <2>1. Alone(s) BY <1>0, <1>43, ExhaustsGoes, ClosesGoes, ActsAlone DEF
      Supervises, Goes
  <2>2. at(s) # "none" BY <1>0, <1>43, ExhaustsGoes DEF Goes
  <2>3. JudgedOf(s)' BY <1>0, <1>j, <1>s, <1>43, ExhaustsGoes DEF Goes, Launching
  <2>. QED BY <1>0, <2>1, <2>2, <2>3, AloneJudged
<1>44. ASSUME NEW s \in Supervisors, StopsReviewers(s) PROVE AllJudged'
  <2>1. Alone(s) BY <1>0, <1>44, StopsReviewersGoes, ClosesGoes, ActsAlone DEF
      Supervises, Goes
  <2>2. at(s) # "none" BY <1>0, <1>44, StopsReviewersGoes DEF Goes
  <2>4. /\ at(s) = "stop" /\ at(s)' \in {"none", "read"}
        /\ UNCHANGED <<run, ready>> /\ (at(s)' = "read" => UNCHANGED local)
    <3>1. CASE AskedForChanges(s)
      BY <1>0, <1>44, <3>1, StopsReviewersGoes DEF Goes, StopsReviewers
    <3>2. CASE ~AskedForChanges(s)
      BY <1>0, <1>44, <3>2, StopsReviewersGoes, Written, GoesThen DEF Goes,
          StopsReviewers
    <3>. QED BY <3>1, <3>2
  <2>5. /\ local[s].cycle = run.cycle /\ Listed(s)
        /\ local[s].list = Reviewers /\ local[s].open # {}
    BY <1>0, <2>4 DEF JudgedOf, OnCycle, Judging, Deciding
  <2>7. at(s)' = "read" => Listed(s)' BY <2>4, <2>5 DEF Listed
  <2>3. JudgedOf(s)'
    BY <2>4, <2>5, <2>7
    DEF JudgedOf, OnCycle, Judging, Deciding, Delivering, Launching
  <2>. QED BY <1>0, <2>1, <2>2, <2>3, AloneJudged
<1>45. ASSUME NEW s \in Supervisors, ReadsHead(s) PROVE AllJudged'
  <2>1. Alone(s) BY <1>0, <1>45, ReadsHeadGoes, ClosesGoes, ActsAlone DEF
      Supervises, Goes
  <2>2. at(s) # "none" BY <1>0, <1>45, ReadsHeadGoes DEF Goes
  <2>4. /\ at(s) = "read" /\ at(s)' = "prepare" /\ UNCHANGED <<run, ready>>
    BY <1>0, <1>45, ReadsHeadGoes DEF Goes, ReadsHead
  <2>5. /\ local[s].cycle = run.cycle /\ Listed(s)
        /\ local[s].list = Reviewers /\ local[s].open # {}
    BY <1>0, <2>4 DEF JudgedOf, OnCycle, Judging, Deciding
  <2>6. /\ local'[s].cycle = local[s].cycle /\ local'[s].list = local[s].list
        /\ local'[s].open = local[s].open
    BY <1>0, <1>45 DEF ReadsHead, LocalTypes, Local
  <2>7. Listed(s)' BY <2>4, <2>5, <2>6 DEF Listed
  <2>3. JudgedOf(s)'
    BY <2>4, <2>5, <2>6, <2>7
    DEF JudgedOf, OnCycle, Judging, Deciding, Delivering, Launching
  <2>. QED BY <1>0, <2>1, <2>2, <2>3, AloneJudged
<1>46. ASSUME NEW s \in Supervisors, Prepares(s) PROVE AllJudged'
  <2>1. Alone(s) BY <1>0, <1>46, PreparesGoes, ClosesGoes, ActsAlone DEF
      Supervises, Goes
  <2>2. at(s) # "none" BY <1>0, <1>46, PreparesGoes DEF Goes
  <2>3. JudgedOf(s)' BY <1>0, <1>j, <1>s, <1>46, PreparesGoes DEF Goes, Launching
  <2>. QED BY <1>0, <2>1, <2>2, <2>3, AloneJudged
<1>47. ASSUME NEW s \in Supervisors, Returns(s) PROVE AllJudged'
  <2>1. Alone(s) BY <1>0, <1>47, ReturnsGoes, ClosesGoes, ActsAlone DEF
      Supervises, Goes
  <2>2. at(s) # "none" BY <1>0, <1>47, ReturnsGoes DEF Goes
  <2>3. JudgedOf(s)' BY <1>0, <1>j, <1>s, <1>47, ReturnsGoes DEF Goes, Launching
  <2>. QED BY <1>0, <2>1, <2>2, <2>3, AloneJudged
<1>48. ASSUME NEW s \in Supervisors, CancelsBlocked(s) PROVE AllJudged'
  <2>1. Alone(s) BY <1>0, <1>48, CancelsBlockedGoes, ClosesGoes, ActsAlone DEF
      Supervises, Goes
  <2>2. at(s) # "none" BY <1>0, <1>48, CancelsBlockedGoes DEF Goes
  <2>3. JudgedOf(s)' BY <1>0, <1>j, <1>s, <1>48, CancelsBlockedGoes DEF Goes,
      Launching
  <2>. QED BY <1>0, <2>1, <2>2, <2>3, AloneJudged
<1>49. ASSUME NEW s \in Supervisors, Folds(s) PROVE AllJudged'
  <2>1. Alone(s) BY <1>0, <1>49, FoldsGoes, ClosesGoes, ActsAlone DEF Supervises,
      Goes
  <2>2. at(s) # "none" BY <1>0, <1>49, FoldsGoes DEF Goes
  <2>3. JudgedOf(s)' BY <1>0, <1>j, <1>s, <1>49, FoldsGoes DEF Goes, Launching
  <2>. QED BY <1>0, <2>1, <2>2, <2>3, AloneJudged
<1>50. ASSUME NEW s \in Supervisors, Reaps(s) PROVE AllJudged'
  <2>1. Alone(s) BY <1>0, <1>50, ReapsGoes, ClosesGoes, ActsAlone DEF Supervises,
      Goes
  <2>2. at(s) # "none" BY <1>0, <1>50, ReapsGoes DEF Goes
  <2>3. JudgedOf(s)' BY <1>0, <1>j, <1>s, <1>50, ReapsGoes DEF Goes, Launching
  <2>. QED BY <1>0, <2>1, <2>2, <2>3, AloneJudged
<1>51. ASSUME NEW s \in Supervisors, SetsBlocked(s) PROVE AllJudged'
  <2>1. Alone(s) BY <1>0, <1>51, SetsBlockedGoes, ClosesGoes, ActsAlone DEF
      Supervises, Goes
  <2>2. at(s) # "none" BY <1>0, <1>51, SetsBlockedGoes DEF Goes
  <2>3. JudgedOf(s)' BY <1>0, <1>j, <1>s, <1>51, SetsBlockedGoes DEF Goes,
      Launching
  <2>. QED BY <1>0, <2>1, <2>2, <2>3, AloneJudged
<1>52. ASSUME NEW s \in Supervisors, Salvages(s) PROVE AllJudged'
  <2>1. Alone(s) BY <1>0, <1>52, SalvagesGoes, ClosesGoes, ActsAlone DEF
      Supervises, Goes
  <2>2. at(s) # "none" BY <1>0, <1>52, SalvagesGoes DEF Goes
  <2>3. JudgedOf(s)' BY <1>0, <1>j, <1>s, <1>52, SalvagesGoes DEF Goes, Launching
  <2>. QED BY <1>0, <2>1, <2>2, <2>3, AloneJudged
<1>53. ASSUME NEW s \in Supervisors, CancelsOverdue(s) PROVE AllJudged'
  <2>1. Alone(s) BY <1>0, <1>53, CancelsOverdueGoes, ClosesGoes, ActsAlone DEF
      Supervises, Goes
  <2>2. at(s) # "none" BY <1>0, <1>53, CancelsOverdueGoes DEF Goes
  <2>3. JudgedOf(s)' BY <1>0, <1>j, <1>s, <1>53, CancelsOverdueGoes DEF Goes,
      Launching
  <2>. QED BY <1>0, <2>1, <2>2, <2>3, AloneJudged
<1>54. ASSUME NEW s \in Supervisors, Releases(s) PROVE AllJudged'
  <2>1. Alone(s) BY <1>0, <1>54, ReleasesGoes, ClosesGoes, ActsAlone DEF
      Supervises, Goes
  <2>2. at(s) # "none" BY <1>0, <1>54, ReleasesGoes DEF Goes
  <2>3. JudgedOf(s)' BY <1>0, <1>j, <1>s, <1>54, ReleasesGoes DEF Goes, Launching
  <2>. QED BY <1>0, <2>1, <2>2, <2>3, AloneJudged
<1>55. ASSUME NEW s \in Supervisors, Retires(s) PROVE AllJudged'
  <2>1. Alone(s) BY <1>0, <1>55, RetiresGoes, ClosesGoes, ActsAlone DEF
      Supervises, Goes
  <2>2. at(s) # "none" BY <1>0, <1>55, RetiresGoes DEF Goes
  <2>3. JudgedOf(s)' BY <1>0, <1>j, <1>s, <1>55, RetiresGoes DEF Goes, Launching
  <2>. QED BY <1>0, <2>1, <2>2, <2>3, AloneJudged
<1>56. ASSUME NEW s \in Supervisors, Stumbles(s) PROVE AllJudged'
  <2>1. Alone(s) BY <1>0, <1>56, ActsAlone
  <2>2. at(s) # "none" BY <1>0, <1>56, StumblesGoes DEF Goes
  <2>3. JudgedOf(s)' BY <1>0, <1>j, <1>s, <1>56, StumblesGoes DEF Goes, Launching
  <2>. QED BY <1>0, <2>1, <2>2, <2>3, AloneJudged
<1>57. ASSUME NEW s \in Supervisors, RecordsError(s) PROVE AllJudged'
  <2>1. Alone(s) BY <1>0, <1>57, RecordsErrorGoes, ClosesGoes, ActsAlone DEF
      Supervises, Goes
  <2>2. at(s) # "none" BY <1>0, <1>57, RecordsErrorGoes DEF Goes
  <2>3. JudgedOf(s)' BY <1>0, <1>j, <1>s, <1>57, RecordsErrorGoes DEF Goes,
      Launching
  <2>. QED BY <1>0, <2>1, <2>2, <2>3, AloneJudged
<1>58. ASSUME NEW s \in Supervisors, Crashes(s) PROVE AllJudged'
  <2>1. Alone(s) BY <1>0, <1>58, ActsAlone
  <2>2. at(s) # "none" BY <1>0, <1>58, CrashesGoes DEF Goes
  <2>3. JudgedOf(s)' BY <1>0, <1>j, <1>s, <1>58, CrashesGoes DEF Goes, Launching
  <2>. QED BY <1>0, <2>1, <2>2, <2>3, AloneJudged
<1>59. CASE Agents
  BY <1>59, <1>1, <1>2, <1>3, <1>4, <1>5, <1>6, <1>7, <1>8, <1>9, RunAssumption
      DEF Agents
<1>60. CASE Operator
  BY <1>60, <1>10, <1>11, <1>12, <1>13, <1>14, <1>15 DEF Operator
<1>61. ASSUME NEW s \in Supervisors, Supervises(s) PROVE AllJudged'
  BY <1>61, <1>17, <1>18, <1>20, <1>21, <1>22, <1>23, <1>24, <1>25, <1>26,
      <1>27, <1>29, <1>30, <1>31, <1>32, <1>33, <1>34, <1>35, <1>36, <1>37,
      <1>38, <1>39, <1>41, <1>42, <1>43, <1>44, <1>45, <1>46, <1>47, <1>48,
      <1>49, <1>50, <1>51, <1>52, <1>53, <1>54, <1>55, <1>57 DEF Supervises
<1>. QED BY <1>59, <1>60, <1>61, <1>16, <1>19, <1>28, <1>40, <1>56, <1>58 DEF
    Next

\* No step takes a part of the signals of a cycle whose reviewers are done.
LEMMA TogetherStep ==
  ASSUME Signals, Owned, AllJudged, Together, Next
  PROVE  Together'
<1>0. /\ Life /\ Typed /\ run.cycle \in Cycles /\ Reviewers \subseteq Roles
      /\ Manager \notin Reviewers /\ Worker \notin Reviewers
  BY Attempts, Names DEF Signals, Life
<1>1. CASE Persists
  <2>1. SUFFICES ASSUME run'.status # "completed" PROVE Together' BY DEF Together
  <2>2. \/ \A r \in Reviewers : Spent(r) => status[r] = "cancelled"
        \/ \A r \in Reviewers : Spent(r)
    BY <1>0, <2>1, OutcomeStep DEF OutcomeMoves, Together
  <2>3. /\ run'.cycle = run.cycle
        /\ \A r \in Reviewers : status[r] = "cancelled" => status'[r] = "cancelled"
    BY <1>0, <1>1 DEF Persists, Onward
  <2>4. \A r \in Reviewers : Spent(r) => Spent(r)'
    <3>1. ReadyGrows BY <1>0, ReadyStep, ReadyStays DEF Life
    <3>. QED BY <1>0, <2>3, <3>1 DEF ReadyGrows, Spent
  <2>5. ASSUME \A r \in Reviewers : Spent(r)' => Spent(r) \/ status[r] = "cancelled"
        PROVE  Together'
    BY <2>2, <2>3, <2>4, <2>5 DEF Together
  <2>6. CASE UNCHANGED ready BY <2>3, <2>5, <2>6 DEF Spent
  <2>7. CASE Noted
    <3>1. \A r \in Reviewers : ready'[r][run.cycle] = ready[r][run.cycle]
                               \/ ~ready'[r][run.cycle].consumed
      BY <1>0, <2>7 DEF Noted, Notes
    <3>. QED BY <2>3, <2>5, <3>1 DEF Spent
  <2>8. ASSUME NEW s \in Supervisors, Taken(s) PROVE Together'
    <3>1. PICK R \in SUBSET Roles, c \in Cycles :
            /\ Takes(R, c)
            /\ \/ R \subseteq {Manager, Worker}
               \/ R = {local[s].who} /\ status[local[s].who] = "cancelled"
               \/ /\ at(s) \in {"complete", "exhaust"} /\ UNCHANGED <<status, start>>
                  /\ R = local[s].open /\ c = local[s].cycle
               \/ Reopens(s)
      BY <2>8 DEF Taken
    <3>2. CASE \/ R \subseteq {Manager, Worker}
               \/ R = {local[s].who} /\ status[local[s].who] = "cancelled"
      <4>1. \A r \in Reviewers : r \in R => status[r] = "cancelled" BY <1>0, <3>2
      <4>2. \A r \in Reviewers : r \notin R => ready'[r][run.cycle] = ready[r][run.cycle]
        BY <1>0, <3>1 DEF Takes
      <4>. QED BY <2>3, <2>5, <4>1, <4>2 DEF Spent
    <3>3. CASE /\ at(s) \in {"complete", "exhaust"}
               /\ R = local[s].open /\ c = local[s].cycle
      <4>1. /\ local[s].cycle = run.cycle /\ local[s].list = Reviewers /\ Listed(s)
        BY <3>3 DEF AllJudged, JudgedOf, OnCycle, Judging, Deciding
      <4>2. \A r \in Reviewers : r \in R \/ Spent(r)
        BY <3>3, <4>1 DEF Listed, Spent
      <4>3. \A r \in Reviewers : r \in R => Spent(r)'
        BY <1>0, <2>3, <3>1, <3>3, <4>1 DEF Takes, Spent
      <4>. QED BY <2>4, <4>2, <4>3 DEF Together
    <3>4. CASE Reopens(s)
      BY <1>0, <2>3, <3>4, NewCycle, Attempts
    <3>. QED BY <3>1, <3>2, <3>3, <3>4
  <2>. QED BY <1>0, <2>6, <2>7, <2>8, SignalStep DEF SignalMoves
<1>2. ASSUME NEW s \in Supervisors, Reopens(s) PROVE Together'
  BY <1>0, <1>2, NewCycle DEF Together, Spent
<1>. QED BY <1>0, <1>1, <1>2, RowsStep

\* Nothing is pushed but by a delivery and by the salvage of a run that is over.
Pushed == UNCHANGED remote \/ \E s \in Supervisors : at(s) \in {"push", "salvage"}

\* No other step pushes.
LEMMA RemoteStep ==
  ASSUME Life, Next
  PROVE  Pushed
<1>0. Typed /\ Scripted BY DEF Life, Typed
<1>1. ASSUME WorkerCommits PROVE Pushed
  BY <1>1 DEF WorkerCommits, git, Pushed
<1>2. ASSUME ManagerCommits PROVE Pushed
  BY <1>2 DEF ManagerCommits, git, Pushed
<1>3. ASSUME ManagerReports PROVE Pushed
  BY <1>3 DEF ManagerReports, git, Pushed
<1>4. ASSUME NEW r \in Reviewers, ReviewerReports(r) PROVE Pushed
  BY <1>4 DEF ReviewerReports, git, Pushed
<1>5. ASSUME NEW r \in Roles, Blocks(r) PROVE Pushed
  BY <1>5 DEF Blocks, git, Pushed
<1>6. ASSUME WorkerVerifies PROVE Pushed
  BY <1>6 DEF WorkerVerifies, git, Pushed
<1>7. ASSUME WorkerReports PROVE Pushed
  BY <1>7 DEF WorkerReports, git, Pushed
<1>8. ASSUME NEW r \in Roles, ReportsResult(r) PROVE Pushed
  BY <1>8 DEF ReportsResult, git, Pushed
<1>9. ASSUME NEW r \in Roles, AgentDies(r) PROVE Pushed
  BY <1>9 DEF AgentDies, git, Pushed
<1>10. ASSUME NEW r \in Roles, OperatorCancels(r) PROVE Pushed
  BY <1>10 DEF OperatorCancels, git, Pushed
<1>11. ASSUME NEW r \in Roles, CleansStart(r) PROVE Pushed
  BY <1>11 DEF CleansStart, git, Pushed
<1>12. ASSUME NEW r \in Roles, OperatorResumes(r) PROVE Pushed
  BY <1>12 DEF OperatorResumes, git, Pushed
<1>13. ASSUME NEW s \in Coordinators, Attaches(s) PROVE Pushed
  BY <1>13 DEF Attaches, git, Pushed
<1>14. ASSUME NEW s \in Coordinators, Retries(s) PROVE Pushed
  BY <1>14 DEF Retries, git, Pushed
<1>15. ASSUME NEW s \in Manual, StartsByHand(s) PROVE Pushed
  BY <1>15 DEF StartsByHand, git, Pushed
<1>16. ASSUME TimePasses PROVE Pushed
  BY <1>16 DEF TimePasses, git, Pushed
<1>17. ASSUME NEW s \in Supervisors, Closes(s) PROVE Pushed
  BY <1>17 DEF Closes, git, Pushed
<1>18. ASSUME NEW s \in Supervisors, Begins(s) PROVE Pushed
  BY <1>18 DEF Begins, git, Pushed
<1>19. ASSUME NEW s \in Supervisors, NEW r \in Roles, Overdue(s, r) PROVE Pushed
  BY <1>19 DEF Overdue, git, Pushed
<1>20. ASSUME NEW s \in Supervisors, NothingOverdue(s) PROVE Pushed
  BY <1>20 DEF NothingOverdue, git, Pushed
<1>21. ASSUME NEW s \in Supervisors, ReadsSignals(s) PROVE Pushed
  BY <1>21 DEF ReadsSignals, git, Pushed
<1>22. ASSUME NEW s \in Supervisors, HandsOff(s) PROVE Pushed
  BY <1>22 DEF HandsOff, git, Pushed
<1>23. ASSUME NEW s \in Supervisors, Finishes(s) PROVE Pushed
  BY <1>23 DEF Finishes, git, Pushed
<1>24. ASSUME NEW s \in Supervisors, Launches(s) PROVE Pushed
  BY <1>24 DEF Launches, git, Pushed
<1>25. ASSUME NEW s \in Supervisors, Asks(s) PROVE Pushed
  BY <1>25 DEF Asks, git, Pushed
<1>26. ASSUME NEW s \in Supervisors, BeginsStart(s) PROVE Pushed
  BY <1>26 DEF BeginsStart, git, Pushed
<1>27. ASSUME NEW s \in Supervisors, Creates(s) PROVE Pushed
  BY <1>27 DEF Creates, git, Pushed
<1>28. ASSUME NEW s \in Supervisors, CreateFails(s) PROVE Pushed
  BY <1>28 DEF CreateFails, git, Pushed
<1>29. ASSUME NEW s \in Supervisors, Consumes(s) PROVE Pushed
  BY <1>29 DEF Consumes, git, Pushed
<1>30. ASSUME NEW s \in Supervisors, Works(s) PROVE Pushed
  BY <1>30 DEF Works, git, Pushed
<1>31. ASSUME NEW s \in Supervisors, Reworks(s) PROVE Pushed
  BY <1>31 DEF Reworks, git, Pushed
<1>32. ASSUME NEW s \in Supervisors, Lists(s) PROVE Pushed
  BY <1>32 DEF Lists, git, Pushed
<1>33. ASSUME NEW s \in Supervisors, Collects(s) PROVE Pushed
  BY <1>33 DEF Collects, git, Pushed
<1>34. ASSUME NEW s \in Supervisors, Waits(s) PROVE Pushed
  BY <1>34 DEF Waits, git, Pushed
<1>35. ASSUME NEW s \in Supervisors, FindsDeadRole(s) PROVE Pushed
  BY <1>35 DEF FindsDeadRole, git, Pushed
<1>36. ASSUME NEW s \in Supervisors, Decides(s) PROVE Pushed
  BY <1>36 DEF Decides, git, Pushed
<1>37. ASSUME NEW s \in Supervisors, Harvests(s) PROVE Pushed
  BY <1>37 DEF Harvests, git, Pushed
<1>38. ASSUME NEW s \in Supervisors, ChecksDelivery(s) PROVE Pushed
  BY <1>38 DEF ChecksDelivery, git, Pushed
<1>39. ASSUME NEW s \in Supervisors, Pushes(s) PROVE Pushed
  BY <1>0, <1>39, PushesGoes DEF Goes, Pushed
<1>40. ASSUME NEW s \in Supervisors, DeliveryFails(s) PROVE Pushed
  BY <1>40 DEF DeliveryFails, git, Pushed
<1>41. ASSUME NEW s \in Supervisors, GivesUp(s) PROVE Pushed
  BY <1>41 DEF GivesUp, git, Pushed
<1>42. ASSUME NEW s \in Supervisors, Completes(s) PROVE Pushed
  BY <1>42 DEF Completes, git, Pushed
<1>43. ASSUME NEW s \in Supervisors, Exhausts(s) PROVE Pushed
  BY <1>43 DEF Exhausts, git, Pushed
<1>44. ASSUME NEW s \in Supervisors, StopsReviewers(s) PROVE Pushed
  BY <1>44 DEF StopsReviewers, git, Pushed
<1>45. ASSUME NEW s \in Supervisors, ReadsHead(s) PROVE Pushed
  BY <1>45 DEF ReadsHead, git, Pushed
<1>46. ASSUME NEW s \in Supervisors, Prepares(s) PROVE Pushed
  BY <1>46 DEF Prepares, git, Pushed
<1>47. ASSUME NEW s \in Supervisors, Returns(s) PROVE Pushed
  BY <1>47 DEF Returns, git, Pushed
<1>48. ASSUME NEW s \in Supervisors, CancelsBlocked(s) PROVE Pushed
  BY <1>48 DEF CancelsBlocked, git, Pushed
<1>49. ASSUME NEW s \in Supervisors, Folds(s) PROVE Pushed
  BY <1>49 DEF Folds, git, Pushed
<1>50. ASSUME NEW s \in Supervisors, Reaps(s) PROVE Pushed
  BY <1>50 DEF Reaps, git, Pushed
<1>51. ASSUME NEW s \in Supervisors, SetsBlocked(s) PROVE Pushed
  BY <1>51 DEF SetsBlocked, git, Pushed
<1>52. ASSUME NEW s \in Supervisors, Salvages(s) PROVE Pushed
  BY <1>0, <1>52, SalvagesGoes DEF Goes, Pushed
<1>53. ASSUME NEW s \in Supervisors, CancelsOverdue(s) PROVE Pushed
  BY <1>53 DEF CancelsOverdue, git, Pushed
<1>54. ASSUME NEW s \in Supervisors, Releases(s) PROVE Pushed
  BY <1>54 DEF Releases, git, Pushed
<1>55. ASSUME NEW s \in Supervisors, Retires(s) PROVE Pushed
  BY <1>55 DEF Retires, git, Pushed
<1>56. ASSUME NEW s \in Supervisors, Stumbles(s) PROVE Pushed
  BY <1>56 DEF Stumbles, git, Pushed
<1>57. ASSUME NEW s \in Supervisors, RecordsError(s) PROVE Pushed
  BY <1>57 DEF RecordsError, git, Pushed
<1>58. ASSUME NEW s \in Supervisors, Crashes(s) PROVE Pushed
  BY <1>58 DEF Crashes, git, Pushed
<1>59. CASE Agents
  BY <1>59, <1>1, <1>2, <1>3, <1>4, <1>5, <1>6, <1>7, <1>8, <1>9, RunAssumption
      DEF Agents
<1>60. CASE Operator
  BY <1>60, <1>10, <1>11, <1>12, <1>13, <1>14, <1>15 DEF Operator
<1>61. ASSUME NEW s \in Supervisors, Supervises(s) PROVE Pushed
  BY <1>61, <1>17, <1>18, <1>20, <1>21, <1>22, <1>23, <1>24, <1>25, <1>26,
      <1>27, <1>29, <1>30, <1>31, <1>32, <1>33, <1>34, <1>35, <1>36, <1>37,
      <1>38, <1>39, <1>41, <1>42, <1>43, <1>44, <1>45, <1>46, <1>47, <1>48,
      <1>49, <1>50, <1>51, <1>52, <1>53, <1>54, <1>55, <1>57 DEF Supervises
<1>. QED BY <1>59, <1>60, <1>61, <1>16, <1>19, <1>28, <1>40, <1>56, <1>58 DEF
    Next

\* A delivery stays approved, and a completion is of what was approved.
LEMMA ApprovedStep ==
  ASSUME Signals, Owned, Given, AllJudged, Together, DeliveryIsApproved, Next
  PROVE  DeliveryIsApproved'
<1>0. /\ Life /\ Typed /\ Reviewers \subseteq Roles /\ run.cycle \in Cycles
      /\ ReadyGrows
  BY Attempts, Names, ReadyStep, ReadyStays DEF Signals, Life
<1>. SUFFICES ASSUME run'.status = "completed" PROVE DeliveryIsApproved'
  BY DEF DeliveryIsApproved
<1>1. CASE run.status = "completed"
  <2>1. run'.cycle = run.cycle
    BY <1>0, <1>1, RowsStep, NewCycle DEF Persists
  <2>2. \A s \in Supervisors : at(s) \notin {"push", "salvage"}
    BY <1>1 DEF Owned, Fits, Working
  <2>3. UNCHANGED remote BY <1>0, <2>2, RemoteStep DEF Pushed
  <2>. QED BY <1>0, <1>1, <2>1, <2>3 DEF DeliveryIsApproved, ReadyGrows
<1>2. CASE run.status # "completed"
  <2>1. PICK s \in Supervisors :
          /\ run.status = "running" /\ run'.cycle = run.cycle /\ UNCHANGED remote
          /\ at(s) = "complete" /\ local[s].open \subseteq Reviewers
    BY <1>0, <1>2, OutcomeStep DEF OutcomeMoves, git
  <2>2. /\ Listed(s) /\ Unanimous(s) /\ Reviewed /\ local[s].cycle = run.cycle
        /\ local[s].list = Reviewers /\ local[s].open # {}
        /\ \A r \in Reviewers : remote \in {start[r], Foreign}
    BY <2>1 DEF AllJudged, JudgedOf, OnCycle, Judging, Deciding, Delivering
  <2>3. \A r \in Reviewers : r \in local[s].open
    <3>1. \A r \in Reviewers : ready[r][run.cycle] # None BY <2>2 DEF Listed
    <3>2. \A r \in Reviewers : r \notin local[s].open => Spent(r)
      BY <2>2, <3>1 DEF Listed, Spent
    <3>3. \E r \in Reviewers : ~Spent(r) BY <2>1, <2>2 DEF Listed, Spent
    <3>4. \A r \in Reviewers : Spent(r) => status[r] = "cancelled"
      BY <2>1, <3>3 DEF Together
    <3>. QED BY <2>2, <3>2, <3>4 DEF Reviewed
  <2>4. \A r \in Reviewers :
          /\ ready[r][run.cycle] # None
          /\ ready[r][run.cycle].outcome = "approved"
          /\ ready[r][run.cycle].sha = start[r]
    BY <2>2, <2>3 DEF Listed, Unanimous, Given
  <2>. QED BY <1>0, <2>1, <2>2, <2>4 DEF DeliveryIsApproved, ReadyGrows
<1>. QED BY <1>1, <1>2

Reviews == /\ Signals /\ Owned /\ Given /\ AllJudged /\ Together
           /\ DeliveryIsApproved

\* What is said of reviews holds at the start.
LEMMA ReviewsInit ==
  ASSUME Init
  PROVE  Reviews
<1>1. Signals BY SignalsInit
<1>2. /\ \A s \in Supervisors : at(s) \in {"idle", "none"}
      /\ \A s \in Supervisors : at(s) # "none" => s = owner
  BY Written DEF Init, at, Script
<1>3. run.status = "running" /\ run.cycle = 1 /\ run.released = FALSE BY DEF Init
<1>4. \A r \in Roles, c \in Cycles : ready[r][c] = None BY DEF Init
<1>5. Owned BY <1>2, <1>3 DEF Owned, Fits, Working, Kept
<1>6. AllJudged
  BY <1>2 DEF AllJudged, JudgedOf, OnCycle, Judging, Deciding, Delivering,
      Launching
<1>7. Given /\ Together BY <1>3, <1>4, Names DEF Given, Together, Spent
<1>8. DeliveryIsApproved BY <1>3 DEF DeliveryIsApproved
<1>. QED BY <1>1, <1>5, <1>6, <1>7, <1>8 DEF Reviews

\* With one coordinator at a time it is inductive.
LEMMA ReviewsStep ==
  ASSUME Manual = {}, Reviews, [Next]_vars
  PROVE  Reviews'
<1>1. Signals' BY SignalsStep DEF Reviews
<1>2. CASE Next
  BY <1>1, <1>2, OwnedStep, GivenStep, JudgedStep, TogetherStep, ApprovedStep
  DEF Reviews, Signals
<1>3. CASE UNCHANGED vars
  <2>1. Owned' BY <1>3, NothingMoves DEF Reviews, Owned, Fits, Kept
  <2>2. Given' /\ Together' /\ DeliveryIsApproved'
    BY <1>3, NothingMoves DEF Reviews, Given, Together, Spent, DeliveryIsApproved
  <2>3. AllJudged'
    BY <1>3, NothingMoves
    DEF Reviews, AllJudged, JudgedOf, OnCycle, Listed, Unanimous, Reviewed
  <2>. QED BY <1>1, <2>1, <2>2, <2>3 DEF Reviews
<1>. QED BY <1>2, <1>3

\* A completed run has delivered nothing of the worker's but the one commit that
\* every reviewer of its last cycle was given and approved, where one
\* coordinator at a time acts for the run (deliver_approved,
\* finalize_reviewer_outcome).
THEOREM DeliveryIsApprovedHolds ==
  Manual = {} => (Spec => []DeliveryIsApproved)
<1>. SUFFICES ASSUME Manual = {} PROVE Spec => []DeliveryIsApproved
  OBVIOUS
<1>1. Init => Reviews BY ReviewsInit
<1>2. Reviews /\ [Next]_vars => Reviews' BY ReviewsStep
<1>3. Reviews => DeliveryIsApproved BY DEF Reviews
<1>. QED BY <1>1, <1>2, <1>3, PTL DEF Spec

-----------------------------------------------------------------------------
\* The phases.  A role begins when the role it comes from is done, and what was
\* asked of that before a start still holds at the start: only a reopening, of
\* the one coordinator there is, takes a completion back.
Asked(t) == status[Source(local[t].child)] = "completed"
InOrder ==
  /\ status[Worker] \in Begun => status[Manager] = "completed"
  /\ \A r \in Reviewers : status[r] \in Begun => status[Worker] = "completed"
  /\ \A t \in Supervisors : at(t) = "start" => Asked(t)

\* How a supervisor comes to start a role, and to reopen a cycle.
Enters(t) ==
  at(t)' \in {"start", "prepare"} =>
    \/ at(t)' = at(t) /\ local'[t] = local[t]
    \/ at(t)' = "start" /\ Asked(t) /\ UNCHANGED <<status, local>>
    \/ at(t)' = "prepare" /\ local'[t].sha = head /\ UNCHANGED <<ready, head>>

\* Every step comes to a start or a reopening in one of these ways, or not.
LEMMA EntersStep ==
  ASSUME Life, Next
  PROVE  \A t \in Supervisors : Enters(t)
<1>0. Typed /\ Scripted BY DEF Life, Typed
<1>1. ASSUME NEW s \in Supervisors, Alone(s), at(s)' \notin {"start", "prepare"}
      PROVE  \A t \in Supervisors : Enters(t)
  BY <1>1 DEF Alone, Enters
<1>2. ASSUME UNCHANGED <<pc, local>>
      PROVE  \A t \in Supervisors : Enters(t)
  BY <1>0, <1>2, NobodyGoes DEF Enters
<1>3. ASSUME WorkerCommits PROVE \A t \in Supervisors : Enters(t)
  BY <1>3, <1>2 DEF WorkerCommits
<1>4. ASSUME ManagerCommits PROVE \A t \in Supervisors : Enters(t)
  BY <1>4, <1>2 DEF ManagerCommits
<1>5. ASSUME ManagerReports PROVE \A t \in Supervisors : Enters(t)
  BY <1>5, <1>2 DEF ManagerReports
<1>6. ASSUME NEW r \in Reviewers, ReviewerReports(r) PROVE \A t \in Supervisors
    : Enters(t)
  BY <1>6, <1>2 DEF ReviewerReports
<1>7. ASSUME NEW r \in Roles, Blocks(r) PROVE \A t \in Supervisors : Enters(t)
  BY <1>7, <1>2 DEF Blocks
<1>8. ASSUME WorkerVerifies PROVE \A t \in Supervisors : Enters(t)
  BY <1>8, <1>2 DEF WorkerVerifies
<1>9. ASSUME WorkerReports PROVE \A t \in Supervisors : Enters(t)
  BY <1>9, <1>2 DEF WorkerReports
<1>10. ASSUME NEW r \in Roles, ReportsResult(r) PROVE \A t \in Supervisors :
    Enters(t)
  BY <1>10, <1>2 DEF ReportsResult
<1>11. ASSUME NEW r \in Roles, AgentDies(r) PROVE \A t \in Supervisors :
    Enters(t)
  BY <1>11, <1>2 DEF AgentDies
<1>12. ASSUME NEW r \in Roles, OperatorCancels(r) PROVE \A t \in Supervisors :
    Enters(t)
  BY <1>12, <1>2 DEF OperatorCancels
<1>13. ASSUME NEW r \in Roles, CleansStart(r) PROVE \A t \in Supervisors :
    Enters(t)
  BY <1>13, <1>2 DEF CleansStart
<1>14. ASSUME NEW r \in Roles, OperatorResumes(r) PROVE \A t \in Supervisors :
    Enters(t)
  BY <1>14, <1>2 DEF OperatorResumes
<1>15. ASSUME NEW s \in Coordinators, Attaches(s) PROVE \A t \in Supervisors :
    Enters(t)
  <2>2. s \in Supervisors BY <1>15 DEF Supervisors
  <2>1. Goes(s, {"none"}, {"idle"}) BY <1>0, <1>15, <2>2, AttachesGoes
  <2>. QED BY <1>15, <2>1 DEF Goes, Enters, Attaches
<1>16. ASSUME NEW s \in Coordinators, Retries(s) PROVE \A t \in Supervisors :
    Enters(t)
  <2>1. s \in Supervisors BY <1>16 DEF Supervisors
  <2>. QED BY <1>0, <1>16, <2>1, RetriesGoes DEF Enters, Retries
<1>17. ASSUME NEW s \in Manual, StartsByHand(s) PROVE \A t \in Supervisors :
    Enters(t)
  <2>1. s \in Supervisors BY <1>17 DEF Supervisors
  <2>2. Goes(s, {at(s)}, {"idle"})
    BY <1>0, <1>17, <2>1, Written, GoesThen DEF StartsByHand
  <2>. QED BY <1>17, <2>2 DEF Goes, Enters, StartsByHand
<1>18. ASSUME TimePasses PROVE \A t \in Supervisors : Enters(t)
  BY <1>18, <1>2 DEF TimePasses
<1>19. ASSUME NEW s \in Supervisors, Closes(s) PROVE \A t \in Supervisors :
    Enters(t)
  BY <1>0, <1>19, ClosesAlone DEF Enters
<1>20. ASSUME NEW s \in Supervisors, Begins(s) PROVE \A t \in Supervisors :
    Enters(t)
  <2>1. Alone(s) BY <1>0, <1>20, BeginsGoes, ClosesGoes, ActsAlone DEF Supervises,
      Goes
  <2>2. at(s)' \notin {"start", "prepare"}
    BY <1>0, <1>20, BeginsGoes DEF Goes
  <2>. QED BY <2>1, <2>2, <1>1
<1>21. ASSUME NEW s \in Supervisors, NEW r \in Roles, Overdue(s, r) PROVE \A t
    \in Supervisors : Enters(t)
  <2>1. Alone(s) BY <1>0, <1>21, ActsAlone
  <2>2. at(s)' \notin {"start", "prepare"}
    BY <1>0, <1>21, OverdueGoes DEF Goes
  <2>. QED BY <2>1, <2>2, <1>1
<1>22. ASSUME NEW s \in Supervisors, NothingOverdue(s) PROVE \A t \in
    Supervisors : Enters(t)
  <2>1. Alone(s) BY <1>0, <1>22, NothingOverdueGoes, ClosesGoes, ActsAlone DEF
      Supervises, Goes
  <2>2. at(s)' \notin {"start", "prepare"}
    BY <1>0, <1>22, NothingOverdueGoes DEF Goes
  <2>. QED BY <2>1, <2>2, <1>1
<1>23. ASSUME NEW s \in Supervisors, ReadsSignals(s) PROVE \A t \in Supervisors
    : Enters(t)
  <2>1. Alone(s) BY <1>0, <1>23, ReadsSignalsGoes, ClosesGoes, ActsAlone DEF
      Supervises, Goes
  <2>2. at(s)' \notin {"start", "prepare"}
    BY <1>0, <1>23, ReadsSignalsGoes DEF Goes
  <2>. QED BY <2>1, <2>2, <1>1
<1>24. ASSUME NEW s \in Supervisors, HandsOff(s) PROVE \A t \in Supervisors :
    Enters(t)
  <2>1. Alone(s) BY <1>0, <1>24, HandsOffGoes, ClosesGoes, ActsAlone DEF
      Supervises, Goes
  <2>2. at(s)' \notin {"start", "prepare"}
    BY <1>0, <1>24, HandsOffGoes DEF Goes
  <2>. QED BY <2>1, <2>2, <1>1
<1>25. ASSUME NEW s \in Supervisors, Finishes(s) PROVE \A t \in Supervisors :
    Enters(t)
  <2>1. Alone(s) BY <1>0, <1>25, FinishesGoes, ClosesGoes, ActsAlone DEF
      Supervises, Goes
  <2>2. at(s)' \notin {"start", "prepare"}
    BY <1>0, <1>25, FinishesGoes DEF Goes
  <2>. QED BY <2>1, <2>2, <1>1
<1>26. ASSUME NEW s \in Supervisors, Launches(s) PROVE \A t \in Supervisors :
    Enters(t)
  <2>1. Alone(s) BY <1>0, <1>26, LaunchesGoes, ClosesGoes, ActsAlone DEF
      Supervises, Goes
  <2>2. at(s)' \notin {"start", "prepare"}
    BY <1>0, <1>26, LaunchesGoes DEF Goes
  <2>. QED BY <2>1, <2>2, <1>1
<1>27. ASSUME NEW s \in Supervisors, Asks(s) PROVE \A t \in Supervisors :
    Enters(t)
  <2>1. Alone(s) BY <1>0, <1>27, AsksGoes, ClosesGoes, ActsAlone DEF Supervises,
      Goes
  <2>2. UNCHANGED <<status, local>> /\ (Asked(s) \/ Fails(s))
    BY <1>27 DEF Asks, rows, Startable, Asked
  <2>3. Asked(s) \/ at(s)' = "block" BY <1>0, <2>2, GoesFails DEF Goes
  <2>4. at(s)' \in {"block", "start"} BY <1>0, <1>27, AsksGoes DEF Goes
  <2>. QED BY <2>1, <2>2, <2>3, <2>4 DEF Alone, Enters
<1>28. ASSUME NEW s \in Supervisors, BeginsStart(s) PROVE \A t \in Supervisors :
    Enters(t)
  <2>1. Alone(s) BY <1>0, <1>28, BeginsStartGoes, ClosesGoes, ActsAlone DEF
      Supervises, Goes
  <2>2. at(s)' \notin {"start", "prepare"}
    BY <1>0, <1>28, BeginsStartGoes DEF Goes
  <2>. QED BY <2>1, <2>2, <1>1
<1>29. ASSUME NEW s \in Supervisors, Creates(s) PROVE \A t \in Supervisors :
    Enters(t)
  <2>1. Alone(s) BY <1>0, <1>29, CreatesGoes, ClosesGoes, ActsAlone DEF
      Supervises, Goes
  <2>2. at(s)' \notin {"start", "prepare"}
    BY <1>0, <1>29, CreatesGoes DEF Goes
  <2>. QED BY <2>1, <2>2, <1>1
<1>30. ASSUME NEW s \in Supervisors, CreateFails(s) PROVE \A t \in Supervisors :
    Enters(t)
  <2>1. Alone(s) BY <1>0, <1>30, ActsAlone
  <2>2. at(s)' \notin {"start", "prepare"}
    BY <1>0, <1>30, CreateFailsGoes DEF Goes
  <2>. QED BY <2>1, <2>2, <1>1
<1>31. ASSUME NEW s \in Supervisors, Consumes(s) PROVE \A t \in Supervisors :
    Enters(t)
  <2>1. Alone(s) BY <1>0, <1>31, ConsumesGoes, ClosesGoes, ActsAlone DEF
      Supervises, Goes
  <2>2. at(s)' \notin {"start", "prepare"}
    BY <1>0, <1>31, ConsumesGoes DEF Goes
  <2>. QED BY <2>1, <2>2, <1>1
<1>32. ASSUME NEW s \in Supervisors, Works(s) PROVE \A t \in Supervisors :
    Enters(t)
  <2>1. Alone(s) BY <1>0, <1>32, WorksGoes, ClosesGoes, ActsAlone DEF Supervises,
      Goes
  <2>2. at(s)' \notin {"start", "prepare"}
    BY <1>0, <1>32, WorksGoes DEF Goes
  <2>. QED BY <2>1, <2>2, <1>1
<1>33. ASSUME NEW s \in Supervisors, Reworks(s) PROVE \A t \in Supervisors :
    Enters(t)
  <2>1. Alone(s) BY <1>0, <1>33, ReworksGoes, ClosesGoes, ActsAlone DEF
      Supervises, Goes
  <2>2. at(s)' \notin {"start", "prepare"}
    BY <1>0, <1>33, ReworksGoes DEF Goes
  <2>. QED BY <2>1, <2>2, <1>1
<1>34. ASSUME NEW s \in Supervisors, Lists(s) PROVE \A t \in Supervisors :
    Enters(t)
  <2>1. Alone(s) BY <1>0, <1>34, ListsGoes, ClosesGoes, ActsAlone DEF Supervises,
      Goes
  <2>2. at(s)' \notin {"start", "prepare"}
    BY <1>0, <1>34, ListsGoes DEF Goes
  <2>. QED BY <2>1, <2>2, <1>1
<1>35. ASSUME NEW s \in Supervisors, Collects(s) PROVE \A t \in Supervisors :
    Enters(t)
  <2>1. Alone(s) BY <1>0, <1>35, CollectsGoes, ClosesGoes, ActsAlone DEF
      Supervises, Goes
  <2>2. at(s)' \notin {"start", "prepare"}
    BY <1>0, <1>35, CollectsGoes DEF Goes
  <2>. QED BY <2>1, <2>2, <1>1
<1>36. ASSUME NEW s \in Supervisors, Waits(s) PROVE \A t \in Supervisors :
    Enters(t)
  <2>1. Alone(s) BY <1>0, <1>36, WaitsGoes, ClosesGoes, ActsAlone DEF Supervises,
      Goes
  <2>2. at(s)' \notin {"start", "prepare"}
    BY <1>0, <1>36, WaitsGoes DEF Goes
  <2>. QED BY <2>1, <2>2, <1>1
<1>37. ASSUME NEW s \in Supervisors, FindsDeadRole(s) PROVE \A t \in Supervisors
    : Enters(t)
  <2>1. Alone(s) BY <1>0, <1>37, FindsDeadRoleGoes, ClosesGoes, ActsAlone DEF
      Supervises, Goes
  <2>2. at(s)' \notin {"start", "prepare"}
    BY <1>0, <1>37, FindsDeadRoleGoes DEF Goes
  <2>. QED BY <2>1, <2>2, <1>1
<1>38. ASSUME NEW s \in Supervisors, Decides(s) PROVE \A t \in Supervisors :
    Enters(t)
  <2>1. Alone(s) BY <1>0, <1>38, DecidesGoes, ClosesGoes, ActsAlone DEF
      Supervises, Goes
  <2>2. at(s)' \notin {"start", "prepare"}
    BY <1>0, <1>38, DecidesGoes DEF Goes
  <2>. QED BY <2>1, <2>2, <1>1
<1>39. ASSUME NEW s \in Supervisors, Harvests(s) PROVE \A t \in Supervisors :
    Enters(t)
  <2>1. Alone(s) BY <1>0, <1>39, HarvestsGoes, ClosesGoes, ActsAlone DEF
      Supervises, Goes
  <2>2. at(s)' \notin {"start", "prepare"}
    BY <1>0, <1>39, HarvestsGoes DEF Goes
  <2>. QED BY <2>1, <2>2, <1>1
<1>40. ASSUME NEW s \in Supervisors, ChecksDelivery(s) PROVE \A t \in
    Supervisors : Enters(t)
  <2>1. Alone(s) BY <1>0, <1>40, ChecksDeliveryGoes, ClosesGoes, ActsAlone DEF
      Supervises, Goes
  <2>2. at(s)' \notin {"start", "prepare"}
    BY <1>0, <1>40, ChecksDeliveryGoes DEF Goes
  <2>. QED BY <2>1, <2>2, <1>1
<1>41. ASSUME NEW s \in Supervisors, Pushes(s) PROVE \A t \in Supervisors :
    Enters(t)
  <2>1. Alone(s) BY <1>0, <1>41, PushesGoes, ClosesGoes, ActsAlone DEF Supervises,
      Goes
  <2>2. at(s)' \notin {"start", "prepare"}
    BY <1>0, <1>41, PushesGoes DEF Goes
  <2>. QED BY <2>1, <2>2, <1>1
<1>42. ASSUME NEW s \in Supervisors, DeliveryFails(s) PROVE \A t \in Supervisors
    : Enters(t)
  <2>1. Alone(s) BY <1>0, <1>42, ActsAlone
  <2>2. at(s)' \notin {"start", "prepare"}
    BY <1>0, <1>42, DeliveryFailsGoes DEF Goes
  <2>. QED BY <2>1, <2>2, <1>1
<1>43. ASSUME NEW s \in Supervisors, GivesUp(s) PROVE \A t \in Supervisors :
    Enters(t)
  <2>1. Alone(s) BY <1>0, <1>43, GivesUpGoes, ClosesGoes, ActsAlone DEF
      Supervises, Goes
  <2>2. at(s)' \notin {"start", "prepare"}
    BY <1>0, <1>43, GivesUpGoes DEF Goes
  <2>. QED BY <2>1, <2>2, <1>1
<1>44. ASSUME NEW s \in Supervisors, Completes(s) PROVE \A t \in Supervisors :
    Enters(t)
  <2>1. Alone(s) BY <1>0, <1>44, CompletesGoes, ClosesGoes, ActsAlone DEF
      Supervises, Goes
  <2>2. at(s)' \notin {"start", "prepare"}
    BY <1>0, <1>44, CompletesGoes DEF Goes
  <2>. QED BY <2>1, <2>2, <1>1
<1>45. ASSUME NEW s \in Supervisors, Exhausts(s) PROVE \A t \in Supervisors :
    Enters(t)
  <2>1. Alone(s) BY <1>0, <1>45, ExhaustsGoes, ClosesGoes, ActsAlone DEF
      Supervises, Goes
  <2>2. at(s)' \notin {"start", "prepare"}
    BY <1>0, <1>45, ExhaustsGoes DEF Goes
  <2>. QED BY <2>1, <2>2, <1>1
<1>46. ASSUME NEW s \in Supervisors, StopsReviewers(s) PROVE \A t \in
    Supervisors : Enters(t)
  <2>1. Alone(s) BY <1>0, <1>46, StopsReviewersGoes, ClosesGoes, ActsAlone DEF
      Supervises, Goes
  <2>2. at(s)' \notin {"start", "prepare"}
    BY <1>0, <1>46, StopsReviewersGoes DEF Goes
  <2>. QED BY <2>1, <2>2, <1>1
<1>47. ASSUME NEW s \in Supervisors, ReadsHead(s) PROVE \A t \in Supervisors :
    Enters(t)
  <2>1. Alone(s) BY <1>0, <1>47, ReadsHeadGoes, ClosesGoes, ActsAlone DEF
      Supervises, Goes
  <2>2. local' = [local EXCEPT ![s].sha = head] /\ UNCHANGED <<ready, head>>
    BY <1>47 DEF ReadsHead, git
  <2>3. local'[s].sha = head BY <1>0, <2>2 DEF Typed, LocalTypes, Local
  <2>4. at(s)' = "prepare" BY <1>0, <1>47, ReadsHeadGoes DEF Goes
  <2>. QED BY <2>1, <2>2, <2>3, <2>4 DEF Alone, Enters
<1>48. ASSUME NEW s \in Supervisors, Prepares(s) PROVE \A t \in Supervisors :
    Enters(t)
  <2>1. Alone(s) BY <1>0, <1>48, PreparesGoes, ClosesGoes, ActsAlone DEF
      Supervises, Goes
  <2>2. at(s)' \notin {"start", "prepare"}
    BY <1>0, <1>48, PreparesGoes DEF Goes
  <2>. QED BY <2>1, <2>2, <1>1
<1>49. ASSUME NEW s \in Supervisors, Returns(s) PROVE \A t \in Supervisors :
    Enters(t)
  <2>1. Alone(s) BY <1>0, <1>49, ReturnsGoes, ClosesGoes, ActsAlone DEF
      Supervises, Goes
  <2>2. at(s)' \notin {"start", "prepare"}
    BY <1>0, <1>49, ReturnsGoes DEF Goes
  <2>. QED BY <2>1, <2>2, <1>1
<1>50. ASSUME NEW s \in Supervisors, CancelsBlocked(s) PROVE \A t \in
    Supervisors : Enters(t)
  <2>1. Alone(s) BY <1>0, <1>50, CancelsBlockedGoes, ClosesGoes, ActsAlone DEF
      Supervises, Goes
  <2>2. at(s)' \notin {"start", "prepare"}
    BY <1>0, <1>50, CancelsBlockedGoes DEF Goes
  <2>. QED BY <2>1, <2>2, <1>1
<1>51. ASSUME NEW s \in Supervisors, Folds(s) PROVE \A t \in Supervisors :
    Enters(t)
  <2>1. Alone(s) BY <1>0, <1>51, FoldsGoes, ClosesGoes, ActsAlone DEF Supervises,
      Goes
  <2>2. at(s)' \notin {"start", "prepare"}
    BY <1>0, <1>51, FoldsGoes DEF Goes
  <2>. QED BY <2>1, <2>2, <1>1
<1>52. ASSUME NEW s \in Supervisors, Reaps(s) PROVE \A t \in Supervisors :
    Enters(t)
  <2>1. Alone(s) BY <1>0, <1>52, ReapsGoes, ClosesGoes, ActsAlone DEF Supervises,
      Goes
  <2>2. at(s)' \notin {"start", "prepare"}
    BY <1>0, <1>52, ReapsGoes DEF Goes
  <2>. QED BY <2>1, <2>2, <1>1
<1>53. ASSUME NEW s \in Supervisors, SetsBlocked(s) PROVE \A t \in Supervisors :
    Enters(t)
  <2>1. Alone(s) BY <1>0, <1>53, SetsBlockedGoes, ClosesGoes, ActsAlone DEF
      Supervises, Goes
  <2>2. at(s)' \notin {"start", "prepare"}
    BY <1>0, <1>53, SetsBlockedGoes DEF Goes
  <2>. QED BY <2>1, <2>2, <1>1
<1>54. ASSUME NEW s \in Supervisors, Salvages(s) PROVE \A t \in Supervisors :
    Enters(t)
  <2>1. Alone(s) BY <1>0, <1>54, SalvagesGoes, ClosesGoes, ActsAlone DEF
      Supervises, Goes
  <2>2. at(s)' \notin {"start", "prepare"}
    BY <1>0, <1>54, SalvagesGoes DEF Goes
  <2>. QED BY <2>1, <2>2, <1>1
<1>55. ASSUME NEW s \in Supervisors, CancelsOverdue(s) PROVE \A t \in
    Supervisors : Enters(t)
  <2>1. Alone(s) BY <1>0, <1>55, CancelsOverdueGoes, ClosesGoes, ActsAlone DEF
      Supervises, Goes
  <2>2. at(s)' \notin {"start", "prepare"}
    BY <1>0, <1>55, CancelsOverdueGoes DEF Goes
  <2>. QED BY <2>1, <2>2, <1>1
<1>56. ASSUME NEW s \in Supervisors, Releases(s) PROVE \A t \in Supervisors :
    Enters(t)
  <2>1. Alone(s) BY <1>0, <1>56, ReleasesGoes, ClosesGoes, ActsAlone DEF
      Supervises, Goes
  <2>2. at(s)' \notin {"start", "prepare"}
    BY <1>0, <1>56, ReleasesGoes DEF Goes
  <2>. QED BY <2>1, <2>2, <1>1
<1>57. ASSUME NEW s \in Supervisors, Retires(s) PROVE \A t \in Supervisors :
    Enters(t)
  <2>1. Alone(s) BY <1>0, <1>57, RetiresGoes, ClosesGoes, ActsAlone DEF
      Supervises, Goes
  <2>2. at(s)' \notin {"start", "prepare"}
    BY <1>0, <1>57, RetiresGoes DEF Goes
  <2>. QED BY <2>1, <2>2, <1>1
<1>58. ASSUME NEW s \in Supervisors, Stumbles(s) PROVE \A t \in Supervisors :
    Enters(t)
  <2>1. Alone(s) BY <1>0, <1>58, ActsAlone
  <2>2. at(s)' \notin {"start", "prepare"}
    BY <1>0, <1>58, StumblesGoes DEF Goes
  <2>. QED BY <2>1, <2>2, <1>1
<1>59. ASSUME NEW s \in Supervisors, RecordsError(s) PROVE \A t \in Supervisors
    : Enters(t)
  <2>1. Alone(s) BY <1>0, <1>59, RecordsErrorGoes, ClosesGoes, ActsAlone DEF
      Supervises, Goes
  <2>2. at(s)' \notin {"start", "prepare"}
    BY <1>0, <1>59, RecordsErrorGoes DEF Goes
  <2>. QED BY <2>1, <2>2, <1>1
<1>60. ASSUME NEW s \in Supervisors, Crashes(s) PROVE \A t \in Supervisors :
    Enters(t)
  <2>1. Alone(s) BY <1>0, <1>60, ActsAlone
  <2>2. at(s)' \notin {"start", "prepare"}
    BY <1>0, <1>60, CrashesGoes DEF Goes
  <2>. QED BY <2>1, <2>2, <1>1
<1>61. CASE Agents
  BY <1>61, <1>3, <1>4, <1>5, <1>6, <1>7, <1>8, <1>9, <1>10, <1>11,
      RunAssumption DEF Agents
<1>62. CASE Operator
  BY <1>62, <1>12, <1>13, <1>14, <1>15, <1>16, <1>17 DEF Operator
<1>63. ASSUME NEW s \in Supervisors, Supervises(s)
      PROVE \A t \in Supervisors : Enters(t)
  BY <1>63, <1>19, <1>20, <1>22, <1>23, <1>24, <1>25, <1>26, <1>27, <1>28,
      <1>29, <1>31, <1>32, <1>33, <1>34, <1>35, <1>36, <1>37, <1>38, <1>39,
      <1>40, <1>41, <1>43, <1>44, <1>45, <1>46, <1>47, <1>48, <1>49, <1>50,
      <1>51, <1>52, <1>53, <1>54, <1>55, <1>56, <1>57, <1>59 DEF Supervises
<1>. QED BY <1>61, <1>62, <1>63, <1>18, <1>21, <1>30, <1>42, <1>58, <1>60 DEF
    Next

\* No step begins a role before the role it comes from is done.
LEMMA OrderStep ==
  ASSUME Signals, Owned, InOrder, Next
  PROVE  InOrder'
<1>0. /\ Life /\ Typed /\ Scripted /\ LocalTypes /\ Reviewers \subseteq Roles
      /\ Manager \in Roles /\ Worker \in Roles
      /\ \A t \in Supervisors : Enters(t)
  BY Names, EntersStep DEF Signals, Life, Typed
<1>1. /\ Source(Worker) = Manager /\ \A r \in Reviewers : Source(r) = Worker
      /\ \A c \in Children : Source(c) \in Roles
  BY Names DEF Source
<1>2. CASE Persists
  <2>1. \A q \in Roles : status[q] = "completed" => status'[q] = "completed"
    BY <1>2 DEF Persists, Onward
  <2>2. \A q \in Roles : status'[q] \in Begun
          => status[q] \in Begun
             \/ \E s \in Supervisors : at(s) = "start" /\ local[s].child = q
    <3>1. \A s \in Supervisors : BeginsStart(s) => at(s) = "start"
      BY <1>0, Here DEF BeginsStart
    <3>. QED BY <1>2, <3>1 DEF Persists, Onward, Begun
  <2>3. status'[Worker] \in Begun => status[Manager] = "completed"
    BY <1>0, <1>1, <2>2 DEF InOrder, Asked
  <2>4. \A r \in Reviewers : status'[r] \in Begun => status[Worker] = "completed"
    BY <1>0, <1>1, <2>2 DEF InOrder, Asked
  <2>5. \A t \in Supervisors : at(t)' = "start" => Asked(t)'
    <3>. SUFFICES ASSUME NEW t \in Supervisors, at(t)' = "start" PROVE Asked(t)'
      OBVIOUS
    <3>1. /\ Asked(t) /\ local'[t] = local[t]
      BY <1>0 DEF Enters, InOrder
    <3>2. Source(local[t].child) \in Roles
      BY <1>0, <1>1 DEF LocalTypes, Local
    <3>. QED BY <2>1, <3>1, <3>2 DEF Asked, Source
  <2>. QED BY <1>0, <2>1, <2>3, <2>4, <2>5 DEF InOrder
<1>3. ASSUME NEW s \in Supervisors, Reopens(s) PROVE InOrder'
  <2>1. /\ \A r \in Reviewers : status'[r] = "requested"
        /\ status'[Worker] = "running" /\ status'[Manager] = status[Manager]
        /\ status[Worker] = "completed"
    BY <1>3, NewCycle, Names
  <2>2. status[Manager] = "completed" BY <2>1 DEF InOrder, Begun
  <2>3. at(s) = "prepare" BY <1>0, <1>3, Here DEF Reopens, Prepares
  <2>4. at(s)' # "start"
    BY <1>0, <1>3, PreparesGoes DEF Goes, Reopens
  <2>5. \A t \in Supervisors : at(t)' # "start"
    BY <1>0, <2>1, <2>3, <2>4 DEF Owned, Enters
  <2>. QED BY <2>1, <2>2, <2>5 DEF InOrder, Begun
<1>. QED BY <1>0, <1>2, <1>3, RowsStep

\* Every step of the run is a step of its phases, or none.
LEMMA PhaseStep ==
  ASSUME Reviews, InOrder, Next
  PROVE  [Phases!PhaseNext]_(Phases!pvars)
<1>0. /\ Signals /\ Owned /\ Life /\ Typed /\ Manager \in Roles /\ Worker \in Roles
      /\ Reviewers \subseteq Roles
  BY Names DEF Reviews, Signals, Life
<1>1. ASSUME NEW s \in Supervisors, Reopens(s) PROVE Phases!SendsBack
  <2>1. /\ run'.cycle = run.cycle + 1 /\ run'.status = run.status
        /\ run.status = "running" /\ run.cycle < MaxCycles
        /\ status'[Worker] = "running" /\ status'[Manager] = status[Manager]
        /\ status[Worker] = "completed"
    BY <1>0, <1>1, NewCycle, Names DEF Reopens, MayReopen
  <2>2. status[Manager] = "completed" BY <2>1 DEF InOrder, Begun
  <2>3. Stage = "reviewing" /\ Stage' = "implementing"
    BY <2>1, <2>2 DEF Stage
  <2>. QED BY <2>1, <2>3 DEF Phases!SendsBack
<1>2. CASE Persists
  <2>0. /\ run'.cycle = run.cycle
        /\ \A q \in Roles : status[q] = "completed" => status'[q] = "completed"
        /\ \A q \in Roles : status'[q] = "completed" /\ status[q] # "completed"
             => status[q] = "running" /\ UNCHANGED run /\ run.status = "running"
    <3>1. \A s \in Supervisors : at(s) \in {"finish", "collect"}
            => run.status = "running"
      BY <1>0 DEF Owned, Fits, Working
    <3>. QED BY <1>2, <3>1 DEF Persists, Onward
  <2>1. CASE run'.status = run.status
    <3>1. CASE Stage' = Stage
      BY <2>0, <2>1, <3>1 DEF Phases!pvars
    <3>2. CASE status[Manager] # "completed" /\ Stage' # Stage
      <4>1. status'[Manager] = "completed" BY <3>2 DEF Stage
      <4>2. status[Worker] \notin {"running", "completed"}
        BY <3>2 DEF InOrder, Begun
      <4>3. status'[Worker] # "completed" BY <1>0, <2>0, <4>2
      <4>4. Stage = "planning" /\ Stage' = "implementing"
        BY <3>2, <4>1, <4>3 DEF Stage
      <4>5. run.status = "running" BY <1>0, <2>0, <3>2, <4>1
      <4>. QED BY <2>0, <2>1, <4>4, <4>5 DEF Phases!Plans, Phases!PhaseNext
    <3>3. CASE status[Manager] = "completed" /\ Stage' # Stage
      <4>1. status'[Manager] = "completed" BY <1>0, <2>0, <3>3
      <4>2. status[Worker] # "completed" /\ status'[Worker] = "completed"
        BY <1>0, <2>0, <3>3, <4>1 DEF Stage
      <4>3. Stage = "implementing" /\ Stage' = "reviewing"
        BY <3>3, <4>1, <4>2 DEF Stage
      <4>4. run.status = "running" BY <1>0, <2>0, <4>2
      <4>. QED BY <2>0, <2>1, <4>3, <4>4 DEF Phases!Implements, Phases!PhaseNext
    <3>. QED BY <3>1, <3>2, <3>3
  <2>2. CASE /\ run.status # "completed" /\ run'.status \in {"blocked", "failed"}
             /\ UNCHANGED status
    <3>1. Stage' = Stage BY <2>2 DEF Stage
    <3>. QED BY <2>0, <2>2, <3>1 DEF Phases!Stops, Phases!PhaseNext
  <2>3. CASE /\ run.status \in {"blocked", "failed"} /\ run'.status = "running"
             /\ UNCHANGED status
    <3>1. Stage' = Stage BY <2>3 DEF Stage
    <3>. QED BY <2>0, <2>3, <3>1 DEF Phases!Resumes, Phases!PhaseNext
  <2>4. CASE /\ run.status = "running" /\ run'.status = "completed"
             /\ UNCHANGED status /\ \E s \in Supervisors : at(s) = "complete"
    <3>1. Reviewed
      BY <2>4 DEF Reviews, AllJudged, JudgedOf
    <3>2. PICK r \in Reviewers : status[r] = "completed"
      BY <3>1, RunAssumption DEF Reviewed
    <3>3. status[Manager] = "completed" /\ status[Worker] = "completed"
      BY <3>2 DEF InOrder, Begun
    <3>4. Stage = "reviewing" /\ Stage' = "reviewing"
      BY <2>4, <3>3 DEF Stage
    <3>. QED BY <2>0, <2>4, <3>4 DEF Phases!Completes, Phases!PhaseNext
  <2>. QED BY <1>0, <2>1, <2>2, <2>3, <2>4, OutcomeStep DEF OutcomeMoves
<1>. QED BY <1>0, <1>1, <1>2, RowsStep DEF Phases!PhaseNext

\* Whatever agents, coordinators and the operator do, the run goes through its
\* phases in order, where one coordinator at a time acts for it (progress_stage,
\* advance_orchestration_cycle).
THEOREM RunsThroughPhasesHolds ==
  Manual = {} => (Spec => RunsThroughPhases)
<1>. SUFFICES ASSUME Manual = {} PROVE Spec => RunsThroughPhases
  OBVIOUS
<1>. DEFINE Inv == Reviews /\ InOrder
<1>1. ASSUME Init PROVE Inv /\ Phases!PhaseInit
  <2>1. Reviews BY <1>1, ReviewsInit
  <2>2. \A s \in Supervisors : at(s) \in {"idle", "none"}
    BY <1>1, Written DEF Init, at, Script
  <2>3. /\ status[Manager] = "running"
        /\ \A r \in Children : status[r] = "requested"
        /\ run.cycle = 1 /\ run.status = "running"
    BY <1>1, Names DEF Init
  <2>4. InOrder BY <2>2, <2>3, Names DEF InOrder, Begun
  <2>5. Phases!PhaseInit BY <2>3 DEF Phases!PhaseInit, Stage
  <2>. QED BY <2>1, <2>4, <2>5
<1>2. ASSUME Inv, [Next]_vars PROVE Inv' /\ [Phases!PhaseNext]_(Phases!pvars)
  <2>1. Reviews' BY <1>2, ReviewsStep
  <2>2. CASE Next
    BY <1>2, <2>1, <2>2, OrderStep, PhaseStep DEF Reviews
  <2>3. CASE UNCHANGED vars
    <3>1. InOrder' BY <1>2, <2>3, NothingMoves DEF InOrder, Asked
    <3>2. UNCHANGED Phases!pvars BY <2>3 DEF vars, rows, Phases!pvars, Stage
    <3>. QED BY <2>1, <3>1, <3>2
  <2>. QED BY <1>2, <2>2, <2>3
<1>. HIDE DEF Inv
<1>. QED BY <1>1, <1>2, PTL DEF Spec, RunsThroughPhases, Phases!PhaseSpec

-----------------------------------------------------------------------------
\* The commits of the worker.  A reviewer begins when the worker has signalled
\* in this cycle.
Worked ==
  \A r \in Reviewers :
    status[r] \in Begun \/ ready[r][run.cycle] # None
      => ready[Worker][run.cycle] # None

\* What the worker signalled in earlier cycles is no later than the start of
\* this one, what it is about to report is later than all it has reported, and
\* a reopening starts where the worker is.
Preparing(s) == at(s) = "prepare"
InLine ==
  /\ start[Worker] <= head
  /\ draft # None => draft <= head
  /\ \A s \in Supervisors : Preparing(s) => local[s].sha <= head
  /\ \A c \in Cycles : ready[Worker][c] # None =>
       /\ ready[Worker][c].sha <= head
       /\ c < run.cycle => ready[Worker][c].sha <= start[Worker]
       /\ draft # None /\ ready[Worker][c].outcome = "done"
            => ready[Worker][c].sha < draft
       /\ \A s \in Supervisors : Preparing(s) => ready[Worker][c].sha <= local[s].sha

\* What one step does to the worker's commits, its start and its report.
HeadMoves ==
  /\ head' \in {head, head + 1}
  /\ \/ start'[Worker] \in {start[Worker], head}
     \/ \E s \in Supervisors : Reopens(s) /\ start'[Worker] = local[s].sha
  /\ \/ draft' \in {draft, None}
     \/ /\ draft' = head /\ head # start[Worker]
        /\ UNCHANGED <<ready, run, start, head, pc, local>>
        /\ Repeats \/ ready[Worker][run.cycle] = None

\* Every step moves the worker's commits in one of these ways.
LEMMA HeadStep ==
  ASSUME Life, Next
  PROVE  HeadMoves
<1>0. Typed /\ start \in [Roles -> Commits] /\ Worker \in Roles
  BY Names DEF Life, Typed, RowTypes
<1>1. ASSUME WorkerCommits PROVE HeadMoves
  BY <1>1 DEF WorkerCommits, rows, git, HeadMoves
<1>2. ASSUME ManagerCommits PROVE HeadMoves
  BY <1>2 DEF ManagerCommits, rows, git, HeadMoves
<1>3. ASSUME ManagerReports PROVE HeadMoves
  BY <1>3 DEF ManagerReports, rows, git, HeadMoves
<1>4. ASSUME NEW r \in Reviewers, ReviewerReports(r) PROVE HeadMoves
  BY <1>4 DEF ReviewerReports, rows, git, HeadMoves
<1>5. ASSUME NEW r \in Roles, Blocks(r) PROVE HeadMoves
  BY <1>5 DEF Blocks, rows, git, HeadMoves
<1>6. ASSUME WorkerVerifies PROVE HeadMoves
  BY <1>6 DEF WorkerVerifies, rows, git, HeadMoves
<1>7. ASSUME WorkerReports PROVE HeadMoves
  BY <1>7 DEF WorkerReports, rows, git, HeadMoves
<1>8. ASSUME NEW r \in Roles, ReportsResult(r) PROVE HeadMoves
  BY <1>8 DEF ReportsResult, rows, git, HeadMoves
<1>9. ASSUME NEW r \in Roles, AgentDies(r) PROVE HeadMoves
  BY <1>9 DEF AgentDies, rows, git, HeadMoves
<1>10. ASSUME NEW r \in Roles, OperatorCancels(r) PROVE HeadMoves
  BY <1>10 DEF OperatorCancels, rows, git, HeadMoves
<1>11. ASSUME NEW r \in Roles, CleansStart(r) PROVE HeadMoves
  BY <1>11 DEF CleansStart, rows, git, HeadMoves
<1>12. ASSUME NEW r \in Roles, OperatorResumes(r) PROVE HeadMoves
  BY <1>12 DEF OperatorResumes, rows, git, HeadMoves
<1>13. ASSUME NEW s \in Coordinators, Attaches(s) PROVE HeadMoves
  BY <1>13 DEF Attaches, rows, git, HeadMoves
<1>14. ASSUME NEW s \in Coordinators, Retries(s) PROVE HeadMoves
  BY <1>14 DEF Retries, rows, git, HeadMoves
<1>15. ASSUME NEW s \in Manual, StartsByHand(s) PROVE HeadMoves
  BY <1>15 DEF StartsByHand, rows, git, HeadMoves
<1>16. ASSUME TimePasses PROVE HeadMoves
  BY <1>16 DEF TimePasses, rows, git, HeadMoves
<1>17. ASSUME NEW s \in Supervisors, Closes(s) PROVE HeadMoves
  BY <1>17 DEF Closes, rows, git, HeadMoves
<1>18. ASSUME NEW s \in Supervisors, Begins(s) PROVE HeadMoves
  BY <1>18 DEF Begins, rows, git, HeadMoves
<1>19. ASSUME NEW s \in Supervisors, NEW r \in Roles, Overdue(s, r)
      PROVE HeadMoves
  BY <1>19 DEF Overdue, rows, git, HeadMoves
<1>20. ASSUME NEW s \in Supervisors, NothingOverdue(s) PROVE HeadMoves
  BY <1>20 DEF NothingOverdue, rows, git, HeadMoves
<1>21. ASSUME NEW s \in Supervisors, ReadsSignals(s) PROVE HeadMoves
  BY <1>21 DEF ReadsSignals, rows, git, HeadMoves
<1>22. ASSUME NEW s \in Supervisors, HandsOff(s) PROVE HeadMoves
  BY <1>22 DEF HandsOff, rows, git, HeadMoves
<1>23. ASSUME NEW s \in Supervisors, Finishes(s) PROVE HeadMoves
  BY <1>23 DEF Finishes, rows, git, HeadMoves
<1>24. ASSUME NEW s \in Supervisors, Launches(s) PROVE HeadMoves
  BY <1>24 DEF Launches, rows, git, HeadMoves
<1>25. ASSUME NEW s \in Supervisors, Asks(s) PROVE HeadMoves
  BY <1>25 DEF Asks, rows, git, HeadMoves
<1>26. ASSUME NEW s \in Supervisors, BeginsStart(s) PROVE HeadMoves
  BY <1>26 DEF BeginsStart, rows, git, HeadMoves
<1>27. ASSUME NEW s \in Supervisors, Creates(s) PROVE HeadMoves
  <2>1. start' = start \/ start' = [start EXCEPT ![local[s].child] = head]
    BY <1>27 DEF Creates
  <2>2. start'[Worker] \in {start[Worker], head} BY <1>0, <2>1
  <2>. QED BY <1>27, <2>2 DEF Creates, git, HeadMoves
<1>28. ASSUME NEW s \in Supervisors, CreateFails(s) PROVE HeadMoves
  BY <1>28 DEF CreateFails, rows, git, HeadMoves
<1>29. ASSUME NEW s \in Supervisors, Consumes(s) PROVE HeadMoves
  BY <1>29 DEF Consumes, rows, git, HeadMoves
<1>30. ASSUME NEW s \in Supervisors, Works(s) PROVE HeadMoves
  BY <1>30 DEF Works, rows, git, HeadMoves
<1>31. ASSUME NEW s \in Supervisors, Reworks(s) PROVE HeadMoves
  BY <1>31 DEF Reworks, rows, git, HeadMoves
<1>32. ASSUME NEW s \in Supervisors, Lists(s) PROVE HeadMoves
  BY <1>32 DEF Lists, rows, git, HeadMoves
<1>33. ASSUME NEW s \in Supervisors, Collects(s) PROVE HeadMoves
  BY <1>33 DEF Collects, rows, git, HeadMoves
<1>34. ASSUME NEW s \in Supervisors, Waits(s) PROVE HeadMoves
  BY <1>34 DEF Waits, rows, git, HeadMoves
<1>35. ASSUME NEW s \in Supervisors, FindsDeadRole(s) PROVE HeadMoves
  BY <1>35 DEF FindsDeadRole, rows, git, HeadMoves
<1>36. ASSUME NEW s \in Supervisors, Decides(s) PROVE HeadMoves
  BY <1>36 DEF Decides, rows, git, HeadMoves
<1>37. ASSUME NEW s \in Supervisors, Harvests(s) PROVE HeadMoves
  BY <1>37 DEF Harvests, rows, git, HeadMoves
<1>38. ASSUME NEW s \in Supervisors, ChecksDelivery(s) PROVE HeadMoves
  BY <1>38 DEF ChecksDelivery, rows, git, HeadMoves
<1>39. ASSUME NEW s \in Supervisors, Pushes(s) PROVE HeadMoves
  BY <1>39 DEF Pushes, rows, git, HeadMoves
<1>40. ASSUME NEW s \in Supervisors, DeliveryFails(s) PROVE HeadMoves
  BY <1>40 DEF DeliveryFails, rows, git, HeadMoves
<1>41. ASSUME NEW s \in Supervisors, GivesUp(s) PROVE HeadMoves
  BY <1>41 DEF GivesUp, rows, git, HeadMoves
<1>42. ASSUME NEW s \in Supervisors, Completes(s) PROVE HeadMoves
  BY <1>42 DEF Completes, rows, git, HeadMoves
<1>43. ASSUME NEW s \in Supervisors, Exhausts(s) PROVE HeadMoves
  BY <1>43 DEF Exhausts, rows, git, HeadMoves
<1>44. ASSUME NEW s \in Supervisors, StopsReviewers(s) PROVE HeadMoves
  BY <1>44 DEF StopsReviewers, rows, git, HeadMoves
<1>45. ASSUME NEW s \in Supervisors, ReadsHead(s) PROVE HeadMoves
  BY <1>45 DEF ReadsHead, rows, git, HeadMoves
<1>46. ASSUME NEW s \in Supervisors, Prepares(s) PROVE HeadMoves
  <2>1. UNCHANGED <<git, draft>> BY <1>46 DEF Prepares
  <2>2. CASE ~MayReopen(s) BY <1>46, <2>1, <2>2 DEF Prepares, git, HeadMoves
  <2>3. CASE MayReopen(s)
    <3>1. start' = [start EXCEPT ![Worker] = local[s].sha]
      BY <1>46, <2>3 DEF Prepares
    <3>2. start'[Worker] = local[s].sha BY <1>0, <3>1
    <3>. QED BY <1>46, <2>1, <2>3, <3>2 DEF Reopens, git, HeadMoves
  <2>. QED BY <2>2, <2>3
<1>47. ASSUME NEW s \in Supervisors, Returns(s) PROVE HeadMoves
  BY <1>47 DEF Returns, rows, git, HeadMoves
<1>48. ASSUME NEW s \in Supervisors, CancelsBlocked(s) PROVE HeadMoves
  BY <1>48 DEF CancelsBlocked, rows, git, HeadMoves
<1>49. ASSUME NEW s \in Supervisors, Folds(s) PROVE HeadMoves
  BY <1>49 DEF Folds, rows, git, HeadMoves
<1>50. ASSUME NEW s \in Supervisors, Reaps(s) PROVE HeadMoves
  BY <1>50 DEF Reaps, rows, git, HeadMoves
<1>51. ASSUME NEW s \in Supervisors, SetsBlocked(s) PROVE HeadMoves
  BY <1>51 DEF SetsBlocked, rows, git, HeadMoves
<1>52. ASSUME NEW s \in Supervisors, Salvages(s) PROVE HeadMoves
  BY <1>52 DEF Salvages, rows, git, HeadMoves
<1>53. ASSUME NEW s \in Supervisors, CancelsOverdue(s) PROVE HeadMoves
  BY <1>53 DEF CancelsOverdue, rows, git, HeadMoves
<1>54. ASSUME NEW s \in Supervisors, Releases(s) PROVE HeadMoves
  BY <1>54 DEF Releases, rows, git, HeadMoves
<1>55. ASSUME NEW s \in Supervisors, Retires(s) PROVE HeadMoves
  BY <1>55 DEF Retires, rows, git, HeadMoves
<1>56. ASSUME NEW s \in Supervisors, Stumbles(s) PROVE HeadMoves
  BY <1>56 DEF Stumbles, rows, git, HeadMoves
<1>57. ASSUME NEW s \in Supervisors, RecordsError(s) PROVE HeadMoves
  BY <1>57 DEF RecordsError, rows, git, HeadMoves
<1>58. ASSUME NEW s \in Supervisors, Crashes(s) PROVE HeadMoves
  BY <1>58 DEF Crashes, rows, git, HeadMoves
<1>59. CASE Agents
  BY <1>59, <1>1, <1>2, <1>3, <1>4, <1>5, <1>6, <1>7, <1>8, <1>9, RunAssumption
      DEF Agents
<1>60. CASE Operator
  BY <1>60, <1>10, <1>11, <1>12, <1>13, <1>14, <1>15 DEF Operator
<1>61. ASSUME NEW s \in Supervisors, Supervises(s) PROVE HeadMoves
  BY <1>61, <1>17, <1>18, <1>20, <1>21, <1>22, <1>23, <1>24, <1>25, <1>26,
      <1>27, <1>29, <1>30, <1>31, <1>32, <1>33, <1>34, <1>35, <1>36, <1>37,
      <1>38, <1>39, <1>41, <1>42, <1>43, <1>44, <1>45, <1>46, <1>47, <1>48,
      <1>49, <1>50, <1>51, <1>52, <1>53, <1>54, <1>55, <1>57 DEF Supervises
<1>. QED BY <1>59, <1>60, <1>61, <1>16, <1>19, <1>28, <1>40, <1>56, <1>58 DEF
    Next

\* No step begins a reviewer before the worker has signalled.
LEMMA WorkedStep ==
  ASSUME Signals, AllJudged, Worked, Next
  PROVE  Worked'
<1>0. /\ Life /\ Typed /\ Scripted /\ InHand /\ ReadyGrows
      /\ run.cycle \in Cycles /\ Reviewers \subseteq Roles /\ Worker \in Roles
  BY Attempts, Names, ReadyStep, ReadyStays DEF Signals, Life, Typed
<1>1. CASE Persists
  <2>1. run'.cycle = run.cycle BY <1>1 DEF Persists
  <2>. SUFFICES ASSUME NEW r \in Reviewers,
                       status'[r] \in Begun \/ ready'[r][run.cycle] # None
                PROVE  ready[Worker][run.cycle] # None
    BY <1>0, <2>1 DEF Worked, ReadyGrows
  <2>2. CASE status[r] \in Begun \/ ready[r][run.cycle] # None
    BY <2>2 DEF Worked
  <2>3. CASE status[r] \notin Begun /\ status'[r] \in Begun
    <3>1. PICK s \in Supervisors : BeginsStart(s) /\ local[s].child = r
      BY <1>0, <1>1, <2>3 DEF Persists, Onward, Begun
    <3>2. at(s) = "start" BY <1>0, <3>1, Here DEF BeginsStart
    <3>3. /\ local[s].child \in Behind(local[s].who)
          /\ local[s].who \in {Manager, Worker}
          /\ ready[local[s].who][SignalOf(s)] # None
      BY <1>0, <3>2 DEF InHand, InHandOf, Launching
    <3>4. local[s].who = Worker BY <3>1, <3>3, Names DEF Behind
    <3>5. local[s].cycle = run.cycle
      BY <3>2, <3>4 DEF AllJudged, JudgedOf, OnCycle, Launching
    <3>. QED BY <3>3, <3>4, <3>5, Names DEF SignalOf
  <2>4. CASE ready[r][run.cycle] = None /\ ready'[r][run.cycle] # None
    <3>1. Noted
      BY <1>0, <2>4, SignalStep, TakesBack DEF SignalMoves
    <3>2. status[r] = "running" BY <1>0, <2>4, <3>1 DEF Noted, Notes
    <3>. QED BY <3>2 DEF Worked, Begun
  <2>. QED BY <2>2, <2>3, <2>4
<1>2. ASSUME NEW s \in Supervisors, Reopens(s) PROVE Worked'
  <2>1. /\ \A r \in Roles : ready'[r][run'.cycle] = None
        /\ \A r \in Reviewers : status'[r] = "requested"
    BY <1>2, NewCycle
  <2>. QED BY <1>0, <2>1 DEF Worked, Begun
<1>. QED BY <1>0, <1>1, <1>2, RowsStep

\* A signal of the worker stands, or it is new: of this cycle, and of the commit
\* that was verified unless it is a blocker.
OldWork(c) ==
  /\ ready[Worker][c] # None
  /\ ready'[Worker][c].sha = ready[Worker][c].sha
  /\ ready'[Worker][c].outcome = ready[Worker][c].outcome
NewWork(c) ==
  /\ c = run.cycle /\ ready[Worker][c] = None
  /\ UNCHANGED <<start, run, pc, local, head>>
  /\ \/ /\ ready'[Worker][c].outcome = "done" /\ ready'[Worker][c].sha = draft
        /\ draft # None /\ draft' = None
     \/ /\ ready'[Worker][c].outcome # "done"
        /\ ready'[Worker][c].sha = start[Worker]

\* Every signal of the worker after a step is an old one, or new in this sense.
LEMMA WorkSignals ==
  ASSUME Life, Next, NEW c \in Cycles, ready'[Worker][c] # None
  PROVE  OldWork(c) \/ NewWork(c)
<1>0. Typed /\ Worker \in Roles /\ Attempt(Worker) = run.cycle
  BY Names, Attempts DEF Life
<1>1. CASE UNCHANGED ready BY <1>1 DEF OldWork
<1>2. ASSUME NEW s \in Supervisors, Taken(s) PROVE OldWork(c)
  BY <1>0, <1>2, TakesBack DEF OldWork
<1>3. CASE Noted
  <2>1. PICK r \in Roles, o \in Outcomes, d \in Commits :
          /\ Notes(r, o, d)
          /\ r = Worker => \/ o = "done" /\ d = draft /\ draft' = None
                           \/ o # "done" /\ d = start[Worker]
          /\ UNCHANGED <<start, run, pc, local, git>>
    BY <1>3 DEF Noted
  <2>2. d # None BY Names
  <2>3. CASE ready'[Worker][c] = ready[Worker][c] BY <2>3 DEF OldWork
  <2>4. CASE ready'[Worker][c] # ready[Worker][c]
    <3>1. /\ r = Worker /\ c = run.cycle /\ ready[Worker][c] = None
          /\ ready'[Worker][c] = [outcome |-> o, sha |-> d, consumed |-> FALSE]
      BY <1>0, <2>1, <2>4 DEF Notes
    <3>. QED BY <2>1, <2>2, <3>1 DEF NewWork, git
  <2>. QED BY <2>3, <2>4
<1>. QED BY <1>1, <1>2, <1>3, SignalStep DEF SignalMoves

\* No step brings the worker's commits out of line.
LEMMA InLineStep ==
  ASSUME ~Repeats, Signals, Signals', AllJudged, Worked, InLine, Next
  PROVE  InLine'
<1>0. /\ Life /\ Typed /\ Scripted /\ Future /\ HeadMoves /\ Worker \in Roles
      /\ Reviewers # {} /\ Reviewers \subseteq Roles /\ Typed'
      /\ \A t \in Supervisors : Enters(t)
  BY Names, HeadStep, EntersStep, RunAssumption DEF Signals, Life, Typed
<1>1. /\ run.cycle \in Nat /\ Cycles \subseteq Nat /\ head \in Nat /\ head' \in Nat
      /\ start[Worker] \in Nat /\ start'[Worker] \in Nat
      /\ \A s \in Supervisors : local[s].sha \in Nat /\ local'[s].sha \in Nat
      /\ draft # None => draft \in Nat
      /\ draft' # None => draft' \in Nat
  BY <1>0, Attempts DEF Typed, GitTypes, RowTypes, LocalTypes, Local, Commits
<1>2. /\ \A c \in Cycles : ready[Worker][c] # None => ready[Worker][c].sha \in Nat
      /\ \A c \in Cycles : ready'[Worker][c] # None => ready'[Worker][c].sha \in Nat
  BY <1>0 DEF Typed, ReadyTypes, Readiness, Commits
<1>3. \A c \in Cycles : ready'[Worker][c] # None => OldWork(c) \/ NewWork(c)
  BY <1>0, WorkSignals
<1>4. \A s \in Supervisors : Preparing(s) => ready[Worker][run.cycle] # None
  BY <1>0, Attempts
  DEF AllJudged, JudgedOf, Judging, Deciding, Listed, Worked, Preparing
<1>5. head <= head' BY <1>0, <1>1 DEF HeadMoves
<1>6. start'[Worker] <= head
  <2>1. ASSUME NEW s \in Supervisors, Reopens(s) PROVE local[s].sha <= head
    <3>1. Preparing(s) BY <1>0, <2>1, Here DEF Reopens, Prepares, Preparing
    <3>. QED BY <3>1 DEF InLine
  <2>. QED BY <1>0, <1>1, <2>1 DEF HeadMoves, InLine
<1>7. draft' # None => draft' <= head'
  BY <1>0, <1>1, <1>5 DEF HeadMoves, InLine
<1>8. ASSUME NEW s \in Supervisors, Preparing(s)'
      PROVE  \/ Preparing(s) /\ local'[s] = local[s]
             \/ local'[s].sha = head /\ UNCHANGED <<ready, head>>
  BY <1>0, <1>8 DEF Enters, Preparing
<1>9. \A s \in Supervisors : Preparing(s)' => local'[s].sha <= head'
  BY <1>1, <1>5, <1>8 DEF InLine
<1>10. ASSUME NEW c \in Cycles, ready'[Worker][c] # None
       PROVE  ready'[Worker][c].sha <= head
  BY <1>1, <1>3, <1>10 DEF InLine, OldWork, NewWork
<1>11. ASSUME NEW c \in Cycles, ready'[Worker][c] # None, c < run'.cycle
       PROVE  ready'[Worker][c].sha <= start'[Worker]
  <2>1. CASE Persists
    <3>1. run'.cycle = run.cycle BY <2>1 DEF Persists
    <3>2. OldWork(c) BY <1>1, <1>3, <1>11, <3>1 DEF NewWork
    <3>3. ready[Worker][c].sha <= start[Worker] /\ ready[Worker][c].sha <= head
      BY <1>11, <3>1, <3>2 DEF InLine, OldWork
    <3>4. ASSUME NEW s \in Supervisors, Reopens(s)
          PROVE  FALSE
      BY <1>1, <3>1, <3>4, NewCycle
    <3>. QED BY <1>0, <3>2, <3>3, <3>4 DEF HeadMoves, OldWork
  <2>2. ASSUME NEW s \in Supervisors, Reopens(s)
        PROVE  ready'[Worker][c].sha <= start'[Worker]
    <3>1. run'.cycle = run.cycle + 1 BY <2>2, NewCycle
    <3>2. OldWork(c) BY <1>1, <1>3, <1>11, <3>1 DEF NewWork
    <3>3. Preparing(s) BY <1>0, <2>2, Here DEF Reopens, Prepares, Preparing
    <3>4. start'[Worker] = local[s].sha
      BY <1>0, <2>2 DEF Reopens, Prepares, MayReopen, Typed, RowTypes
    <3>. QED BY <3>2, <3>3, <3>4 DEF InLine, OldWork
  <2>. QED BY <1>0, <2>1, <2>2, RowsStep
<1>12. ASSUME NEW c \in Cycles, ready'[Worker][c] # None, draft' # None,
              ready'[Worker][c].outcome = "done"
       PROVE  ready'[Worker][c].sha < draft'
  <2>1. OldWork(c) BY <1>3, <1>12 DEF NewWork
  <2>2. CASE draft' = draft
    BY <1>12, <2>1, <2>2 DEF InLine, OldWork
  <2>3. CASE /\ draft' = head /\ head # start[Worker]
             /\ ready[Worker][run.cycle] = None
    <3>1. c # run.cycle BY <2>1, <2>3 DEF OldWork
    <3>2. ~(c > run.cycle) BY <1>0, <2>1 DEF Future, OldWork
    <3>3. c < run.cycle BY <1>1, <3>1, <3>2
    <3>4. ready[Worker][c].sha <= start[Worker] /\ start[Worker] <= head
      BY <2>1, <3>3 DEF InLine, OldWork
    <3>5. ready[Worker][c].sha \in Nat BY <1>2, <2>1 DEF OldWork
    <3>. QED BY <1>1, <2>1, <2>3, <3>4, <3>5 DEF OldWork
  <2>. QED BY <1>0, <1>12, <2>2, <2>3 DEF HeadMoves
<1>13. ASSUME NEW c \in Cycles, ready'[Worker][c] # None,
              NEW s \in Supervisors, Preparing(s)'
       PROVE  ready'[Worker][c].sha <= local'[s].sha
  <2>1. CASE Preparing(s) /\ local'[s] = local[s]
    <3>1. OldWork(c) BY <1>3, <1>4, <1>13, <2>1 DEF NewWork
    <3>. QED BY <2>1, <3>1 DEF InLine, OldWork
  <2>2. CASE local'[s].sha = head /\ UNCHANGED <<ready, head>>
    BY <1>13, <2>2 DEF InLine
  <2>. QED BY <1>8, <1>13, <2>1, <2>2
<1>14. start'[Worker] <= head' BY <1>1, <1>5, <1>6
<1>15. \A c \in Cycles : ready'[Worker][c] # None => ready'[Worker][c].sha <= head'
  BY <1>1, <1>2, <1>5, <1>10
<1>. QED BY <1>7, <1>9, <1>11, <1>12, <1>13, <1>14, <1>15 DEF InLine

\* No step signals old work for a new cycle.
LEMMA NewWorkStep ==
  ASSUME Signals, Signals', InLine, EveryCycleHasNewWork, Next
  PROVE  EveryCycleHasNewWork'
<1>0. Life /\ Future /\ run.cycle \in Nat /\ Cycles \subseteq Nat /\ Worker \in Roles
  BY Attempts, Names DEF Signals, Life
<1>. SUFFICES ASSUME NEW c \in Cycles, NEW d \in Cycles, c < d,
                     ready'[Worker][c] # None, ready'[Worker][d] # None,
                     ready'[Worker][c].outcome = "done",
                     ready'[Worker][d].outcome = "done"
              PROVE  ready'[Worker][c].sha < ready'[Worker][d].sha
  BY DEF EveryCycleHasNewWork
<1>1. OldWork(c) \/ NewWork(c) BY <1>0, WorkSignals
<1>2. OldWork(d) \/ NewWork(d) BY <1>0, WorkSignals
<1>3. CASE OldWork(c) /\ OldWork(d)
  BY <1>3 DEF OldWork, EveryCycleHasNewWork
<1>4. CASE OldWork(c) /\ NewWork(d)
  BY <1>4 DEF OldWork, NewWork, InLine
<1>5. CASE NewWork(c)
  <2>1. d > run.cycle /\ d # run.cycle BY <1>0, <1>5 DEF NewWork
  <2>2. ready[Worker][d] = None BY <1>0, <2>1 DEF Future
  <2>. QED BY <1>2, <2>1, <2>2 DEF OldWork, NewWork
<1>. QED BY <1>1, <1>2, <1>3, <1>4, <1>5

\* Every cycle of review judges work that the cycle before had not, where one
\* coordinator at a time acts and the worker does not verify again what it has
\* reported (verify_worker_ready, begin_next_review_cycle).
THEOREM EveryCycleHasNewWorkHolds ==
  Manual = {} /\ ~Repeats => (Spec => []EveryCycleHasNewWork)
<1>. SUFFICES ASSUME Manual = {}, ~Repeats PROVE Spec => []EveryCycleHasNewWork
  OBVIOUS
<1>. DEFINE Inv == Reviews /\ Worked /\ InLine /\ EveryCycleHasNewWork
<1>1. ASSUME Init PROVE Inv
  <2>1. Reviews BY <1>1, ReviewsInit
  <2>2. \A s \in Supervisors : at(s) \in {"idle", "none"}
    BY <1>1, Written DEF Init, at, Script
  <2>3. /\ \A r \in Reviewers : status[r] = "requested"
        /\ \A r \in Roles, c \in Cycles : ready[r][c] = None
        /\ start[Worker] = 0 /\ head = 0 /\ draft = None /\ run.cycle \in Cycles
    BY <1>1, Names DEF Init
  <2>4. Worked BY <2>3, Names DEF Worked, Begun
  <2>5. InLine BY <2>2, <2>3, Names DEF InLine, Preparing
  <2>6. EveryCycleHasNewWork BY <2>3, Names DEF EveryCycleHasNewWork
  <2>. QED BY <2>1, <2>4, <2>5, <2>6
<1>2. ASSUME Inv, [Next]_vars PROVE Inv'
  <2>1. Reviews' BY <1>2, ReviewsStep
  <2>2. CASE Next
    BY <1>2, <2>1, <2>2, WorkedStep, InLineStep, NewWorkStep DEF Reviews
  <2>3. CASE UNCHANGED vars
    BY <1>2, <2>1, <2>3, NothingMoves
    DEF Worked, InLine, Preparing, EveryCycleHasNewWork, vars, rows, git
  <2>. QED BY <1>2, <2>2, <2>3
<1>3. Inv => EveryCycleHasNewWork OBVIOUS
<1>. HIDE DEF Inv
<1>. QED BY <1>1, <1>2, <1>3, PTL DEF Spec

=============================================================================
