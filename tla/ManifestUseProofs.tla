------------------------- MODULE ManifestUseProofs -------------------------
(***************************************************************************)
(* Proofs about what is done with an accepted manifest, for every manifest *)
(* of every size: what a failed plan has created is stopped from the       *)
(* newest to the oldest, so that nothing loses what it depends on; and the *)
(* services and GPUs recorded for an action are exactly those it needs.    *)
(* Both rest on the order that ServiceGraphProofs shows to be topological. *)
(***************************************************************************)
EXTENDS ManifestUse, ServiceGraphProofs

\* Where a container of rank i may still run: rollback has not come to it, for the
\* first time or again after a stop that failed, or its stop has failed in this call.
MayRunAt(i, s) ==
    \/ i <= Len(created) - undone /\ (round = 1 \/ refused[s] > 0)
    \/ i > Len(created) - undone /\ refused[s] = round

\* Before the order is accepted nothing is executed; after that the containers are
\* those of the first services of the order.
Recorded ==
    /\ cursor \in Nat \ {0} /\ undone \in Nat
    /\ created \in Seq(Services)
    /\ container \in [Services -> {"absent", "running", "stopped"}]
    /\ round \in Nat \ {0} /\ refused \in [Services -> Nat]
    /\ outcome \in {"none", "created", "error", "rolled_back"}
    /\ status # "ok" => cursor = 1 /\ outcome = "none"
    /\ Len(created) = cursor \div 2
    /\ cursor <= 2 * Len(output) + 1
    /\ \A i \in 1 .. Len(created) : created[i] = output[i]
    /\ undone <= Len(created)
    /\ outcome \in {"none", "created"} => undone = 0 /\ round = 1
    /\ outcome = "created" => Len(created) = Len(output)
    /\ outcome = "rolled_back" => undone = Len(created)

\* They run until a stop of theirs succeeds.
WhatRuns ==
    /\ round = 1 =>
          \A i \in 1 .. Len(created) - undone : container[created[i]] = "running"
    /\ \A s \in Services : container[s] = "running" =>
          \E i \in 1 .. Len(created) : created[i] = s /\ MayRunAt(i, s)

Executed == Recorded /\ WhatRuns

UseInv == IInv /\ Executed

-----------------------------------------------------------------------------
\* A Create intent is at an odd place and names the service of that rank.
LEMMA IntentFacts ==
    ASSUME IInv, NEW n \in Nat, n + 1 <= Len(output)
    PROVE  /\ Len(Intents) = 2 * Len(output)
           /\ Intents[2 * n + 1] = [phase |-> "create", service |-> output[n + 1]]
           /\ Intents[2 * n + 2].phase = "start"
<1>1. Len(output) \in Nat
  BY DEF IInv, TypeOK
<1>2. /\ 2 * n + 1 \in 1 .. 2 * Len(output) /\ 2 * n + 2 \in 1 .. 2 * Len(output)
      /\ (2 * n + 1) % 2 = 1 /\ (2 * n + 2) % 2 # 1
      /\ (2 * n + 1 + 1) \div 2 = n + 1
  BY <1>1
<1>. QED
  BY <1>1, <1>2 DEF Intents

LEMMA InitExecuted == UseInit => UseInv
<1>. SUFFICES ASSUME UseInit PROVE UseInv
  OBVIOUS
<1>1. IInv
  BY InitInvariant DEF UseInit
<1>2. Len(created) = 0 /\ Len(output) = 0 /\ 1 \div 2 = 0
  BY DEF UseInit, ExecInit, Init
<1>3. Executed
  BY <1>2 DEF UseInit, ExecInit, Init, Executed, Recorded, WhatRuns
<1>. QED BY <1>1, <1>3 DEF UseInv

\* While the order is computed, nothing is created.
LEMMA GraphStepExecuted ==
    ASSUME UseInv, IInv', GraphStep, UNCHANGED execVars
    PROVE  Executed'
<1>1. status # "ok"
  BY DEF GraphStep, CheckDependencies, VisitRoot, VisitDependency, Leave, OrderDone
<1>2. cursor = 1 /\ outcome = "none" /\ Len(created) = 0 /\ undone = 0
  BY <1>1 DEF UseInv, Executed, Recorded, WhatRuns
<1>3. Len(output') \in Nat
  BY DEF IInv, TypeOK
<1>. QED
  BY <1>2, <1>3 DEF UseInv, Executed, Recorded, WhatRuns, MayRunAt, execVars

LEMMA NothingChanges ==
    ASSUME WhatRuns, UNCHANGED <<created, undone, container, round, refused>>
    PROVE  WhatRuns'
BY DEF WhatRuns, MayRunAt

\* The execution itself, intent by intent, and the rollback.
LEMMA ExecStepExecuted ==
    ASSUME UseInv, ExecStep, UNCHANGED graphVars
    PROVE  Executed'
<1>. DEFINE n == Len(created)
<1>1. /\ output \in Seq(Services) /\ Len(output) \in Nat /\ n \in Nat
      /\ UNCHANGED <<output, status>>
  BY DEF UseInv, IInv, TypeOK, Executed, Recorded, WhatRuns, graphVars
<1>2. /\ Executed /\ n = cursor \div 2 /\ cursor \in Nat \ {0} /\ undone \in Nat
      /\ round \in Nat \ {0} /\ undone <= n
  BY DEF UseInv, Executed, Recorded, WhatRuns
<1>3. cursor = 2 * n \/ cursor = 2 * n + 1
  BY <1>2
<1>4. Len(Intents) = 2 * Len(output)
  BY <1>1 DEF Intents
<1>5. ASSUME cursor <= Len(Intents), cursor = 2 * n + 1
      PROVE  /\ n + 1 <= Len(output)
             /\ Intents[cursor].phase = "create"
             /\ Intents[cursor].service = output[n + 1]
  <2>1. n + 1 <= Len(output)
    BY <1>1, <1>4, <1>5
  <2>2. Intents[2 * n + 1] = [phase |-> "create", service |-> output[n + 1]]
    BY <1>1, <2>1, IntentFacts DEF UseInv
  <2>. QED
    BY <1>5, <2>1, <2>2
<1>6. ASSUME cursor = 2 * n PROVE Intents[cursor].phase # "create"
  <2>1. n - 1 \in Nat /\ (n - 1) + 1 <= Len(output) /\ 2 * (n - 1) + 2 = cursor
    BY <1>1, <1>2, <1>6 DEF Executed, Recorded, WhatRuns
  <2>. QED BY <2>1, IntentFacts DEF UseInv
<1>7. CASE SkipIntent
  <2>1. cursor = 2 * n
    BY <1>3, <1>5, <1>7 DEF SkipIntent
  <2>2. cursor' = 2 * n + 1 /\ cursor' \div 2 = n /\ cursor' <= 2 * Len(output) + 1
    BY <1>1, <1>2, <1>4, <1>7, <2>1 DEF SkipIntent
  <2>3. Recorded'
    BY <1>1, <1>2, <1>7, <2>2 DEF SkipIntent, Executing, Executed, Recorded, rollbackVars
  <2>. QED
    BY <1>2, <1>7, <2>3, NothingChanges DEF SkipIntent, Executed, rollbackVars
<1>8. CASE SpawnOk
  <2>1. cursor = 2 * n + 1 /\ n + 1 <= Len(output) /\ Intents[cursor].service = output[n + 1]
    BY <1>3, <1>5, <1>6, <1>8 DEF SpawnOk
  <2>2. /\ output[n + 1] \in Services /\ undone = 0 /\ undone' = 0 /\ outcome' = "none"
        /\ round = 1 /\ round' = 1 /\ refused' = refused
    BY <1>1, <1>2, <1>8, <2>1 DEF SpawnOk, Executing, Executed, Recorded, WhatRuns, rollbackVars
  <2>3. /\ created' = Append(created, output[n + 1]) /\ cursor' = 2 * n + 2
        /\ container' = [container EXCEPT ![output[n + 1]] = "running"]
    BY <1>8, <2>1 DEF SpawnOk, RecordCreate
  <2>4. /\ created' \in Seq(Services) /\ Len(created') = n + 1
        /\ created'[n + 1] = output[n + 1]
        /\ \A i \in 1 .. n : created'[i] = created[i]
    BY <1>2, <2>2, <2>3 DEF Executed, Recorded, WhatRuns
  <2>5. cursor' \div 2 = n + 1 /\ cursor' <= 2 * Len(output) + 1
    BY <1>1, <2>1, <2>3
  <2>6. \A i : i \in 1 .. n + 1 <=> (i \in 1 .. n \/ i = n + 1)
    BY <1>1
  <2>7. \A i \in 1 .. n + 1 : container'[created'[i]] = "running"
    <3>1. \A i \in 1 .. n : created[i] \in Services /\ container[created[i]] = "running"
      BY <1>2, <2>2 DEF Executed, Recorded, WhatRuns
    <3>2. \A s \in Services :
              container'[s] = "running" <=> (s = output[n + 1] \/ container[s] = "running")
      BY <1>2, <2>2, <2>3 DEF Executed, Recorded, WhatRuns
    <3>. HIDE DEF n
    <3>. QED
      BY <2>2, <2>4, <2>6, <3>1, <3>2
  <2>8. ASSUME NEW s \in Services, container'[s] = "running"
        PROVE  \E i \in 1 .. n + 1 : created'[i] = s
    <3>1. CASE s = output[n + 1]
      BY <2>4, <2>6, <3>1
    <3>2. CASE s # output[n + 1]
      <4>1. container[s] = "running"
        BY <1>2, <2>2, <2>3, <2>8, <3>2 DEF Executed, Recorded, WhatRuns
      <4>2. PICK i \in 1 .. n : created[i] = s
        BY <1>2, <4>1 DEF Executed, Recorded, WhatRuns
      <4>. QED
        BY <2>4, <2>6, <4>2
    <3>. QED BY <3>1, <3>2
  <2>9. \A i \in 1 .. n + 1 : \A s : MayRunAt(i, s)'
    BY <1>1, <2>2, <2>4 DEF MayRunAt
  <2>10. \A s \in Services : container'[s] = "running" =>
            \E i \in 1 .. Len(created') : created'[i] = s /\ MayRunAt(i, s)'
    BY <2>4, <2>8, <2>9
  <2>11. \A i \in 1 .. n + 1 : created'[i] = output[i]
    BY <1>1, <1>2, <2>4 DEF Executed, Recorded, WhatRuns
  <2>12. container' \in [Services -> {"absent", "running", "stopped"}]
    BY <1>2, <2>3 DEF Executed, Recorded, WhatRuns
  <2>13. \A i \in 1 .. Len(created') - undone' : container'[created'[i]] = "running"
    BY <1>1, <2>2, <2>4, <2>7
  <2>14. Recorded'
    BY <1>1, <1>2, <1>8, <2>2, <2>3, <2>4, <2>5, <2>11, <2>12
    DEF SpawnOk, Executing, Executed, Recorded
  <2>15. WhatRuns'
    BY <2>10, <2>13 DEF WhatRuns
  <2>. QED
    BY <2>14, <2>15 DEF Executed
<1>9. CASE SpawnFails
  <2>1. Recorded'
    BY <1>1, <1>2, <1>9 DEF SpawnFails, Executing, Executed, Recorded, rollbackVars
  <2>. QED
    BY <1>2, <1>9, <2>1, NothingChanges DEF SpawnFails, Executed, rollbackVars
<1>10. CASE PlanExecuted
  <2>1. n = Len(output)
    BY <1>1, <1>2, <1>4, <1>10 DEF PlanExecuted, Executed, Recorded, WhatRuns
  <2>2. Recorded'
    BY <1>1, <1>2, <1>10, <2>1 DEF PlanExecuted, Executing, Executed, Recorded, rollbackVars
  <2>. QED
    BY <1>2, <1>10, <2>2, NothingChanges DEF PlanExecuted, Executed, rollbackVars
<1>11. CASE RollbackStep
  <2>. DEFINE last == n - undone
  <2>1. last \in 1 .. n /\ NextToStop = created[last] /\ created[last] \in Services
    BY <1>1, <1>2, <1>11 DEF RollbackStep, Remaining, NextToStop, Executed, Recorded, WhatRuns
  <2>2. \A i \in 1 .. n : created[i] = created[last] => i = last
    <3>1. n <= Len(output) /\ \A i \in 1 .. n : i \in DOMAIN output /\ created[i] = output[i]
      BY <1>1, <1>2 DEF Executed, Recorded, WhatRuns
    <3>. QED
      BY <2>1, <3>1 DEF UseInv, IInv, PrefixIsOrdered
  <2>3. /\ UNCHANGED <<cursor, created, round, outcome>> /\ outcome = "error"
        /\ undone' = undone + 1 /\ undone' <= n
    BY <1>1, <1>2, <1>11, <2>1 DEF RollbackStep
  <2>4. /\ container' \in [Services -> {"absent", "running", "stopped"}]
        /\ refused' \in [Services -> Nat]
        /\ \A s \in Services \ {created[last]} :
              container'[s] = container[s] /\ refused'[s] = refused[s]
        /\ container'[created[last]] = "running" => refused'[created[last]] = round
    <3>1. CASE container' = [container EXCEPT ![created[last]] = "stopped"] /\ refused' = refused
      BY <1>2, <2>1, <3>1 DEF Executed, Recorded, WhatRuns
    <3>2. CASE refused' = [refused EXCEPT ![created[last]] = round] /\ container' = container
      BY <1>2, <2>1, <3>2 DEF Executed, Recorded, WhatRuns
    <3>. QED
      BY <1>11, <2>1, <3>1, <3>2 DEF RollbackStep
  <2>5. ASSUME round = 1, NEW i \in 1 .. n - undone'
        PROVE  container'[created[i]] = "running"
    <3>1. i \in 1 .. n - undone /\ i \in 1 .. n /\ i # last
      BY <1>1, <1>2, <2>3
    <3>2. created[i] \in Services /\ created[i] # created[last]
      BY <1>2, <2>2, <3>1 DEF Executed, Recorded, WhatRuns
    <3>. QED
      BY <1>2, <2>4, <2>5, <3>1, <3>2 DEF Executed, Recorded, WhatRuns
  <2>6. ASSUME NEW s \in Services, container'[s] = "running"
        PROVE  \E i \in 1 .. n : created[i] = s /\ MayRunAt(i, s)'
    <3>1. CASE s = created[last]
      <4>1. last > Len(created') - undone' /\ refused'[s] = round'
        BY <1>1, <1>2, <2>3, <2>4, <2>6, <3>1
      <4>. QED
        BY <2>1, <3>1, <4>1 DEF MayRunAt
    <3>2. CASE s # created[last]
      <4>1. container[s] = "running" /\ refused'[s] = refused[s]
        BY <2>4, <2>6, <3>2
      <4>2. PICK i \in 1 .. n : created[i] = s /\ MayRunAt(i, s)
        BY <1>2, <4>1 DEF Executed, Recorded, WhatRuns
      <4>3. i # last
        BY <3>2, <4>2
      <4>4. MayRunAt(i, s)'
        BY <1>1, <1>2, <2>3, <4>1, <4>2, <4>3 DEF MayRunAt
      <4>. QED
        BY <4>2, <4>4
    <3>. QED BY <3>1, <3>2
  <2>. HIDE DEF last
  <2>7. Recorded'
    <3>1. container' \in [Services -> {"absent", "running", "stopped"}] /\ refused' \in [Services -> Nat]
      BY <2>4
    <3>2. Recorded /\ undone' \in Nat /\ undone' <= Len(created)
      BY <1>1, <1>2, <2>3 DEF Executed
    <3>3. UNCHANGED <<cursor, created, round, outcome, output, status>> /\ outcome = "error"
      BY <1>1, <2>3
    <3>. HIDE DEF n
    <3>. QED
      BY <3>1, <3>2, <3>3 DEF Recorded
  <2>8. WhatRuns'
    BY <2>3, <2>5, <2>6 DEF WhatRuns
  <2>. QED
    BY <2>7, <2>8 DEF Executed
<1>12. CASE RollbackDone
  <2>1. undone = n
    BY <1>1, <1>2, <1>12 DEF RollbackDone, Remaining
  <2>2. Recorded'
    BY <1>1, <1>2, <1>12, <2>1 DEF RollbackDone, Executed, Recorded, rollbackVars
  <2>. QED
    BY <1>2, <1>12, <2>2, NothingChanges DEF RollbackDone, Executed, rollbackVars
<1>. QED
  BY <1>7, <1>8, <1>9, <1>10, <1>11, <1>12 DEF ExecStep

\* A call of rollback after another: what runs is what the last call failed to stop.
LEMMA RollbackAgainExecuted ==
    ASSUME UseInv, RollbackAgain, UNCHANGED graphVars
    PROVE  Executed'
<1>1. /\ Executed /\ UNCHANGED <<output, status>> /\ Len(created) \in Nat
      /\ round \in Nat \ {0} /\ undone = Len(created)
  BY DEF UseInv, Executed, Recorded, WhatRuns, RollbackAgain, graphVars
<1>2. /\ UNCHANGED <<cursor, created, container, refused>>
      /\ round' = round + 1 /\ undone' = 0 /\ outcome' = "error" /\ outcome = "rolled_back"
  BY DEF RollbackAgain
<1>3. ASSUME NEW s \in Services, container[s] = "running"
      PROVE  \E i \in 1 .. Len(created) : created[i] = s /\ MayRunAt(i, s)'
  <2>1. PICK i \in 1 .. Len(created) : created[i] = s /\ MayRunAt(i, s)
    BY <1>1, <1>3 DEF Executed, Recorded, WhatRuns
  <2>2. refused[s] = round
    BY <1>1, <2>1 DEF MayRunAt
  <2>3. MayRunAt(i, s)'
    BY <1>1, <1>2, <2>1, <2>2 DEF MayRunAt
  <2>. QED BY <2>1, <2>3
<1>. QED
  BY <1>1, <1>2, <1>3 DEF Executed, Recorded, WhatRuns

LEMMA UseInvStep == UseInv /\ [UseNext]_useVars => UseInv'
<1>. SUFFICES ASSUME UseInv, [UseNext]_useVars PROVE UseInv'
  OBVIOUS
<1>1. [Next]_graphVars
  BY DEF UseNext, UseStep, useVars, Next
<1>2. IInv'
  BY <1>1, InvariantStep DEF UseInv
<1>3. CASE UNCHANGED <<graphVars, execVars>>
  BY <1>2, <1>3 DEF UseInv, Executed, Recorded, WhatRuns, MayRunAt, graphVars, execVars
<1>4. Executed'
  BY <1>2, <1>3, GraphStepExecuted, ExecStepExecuted, RollbackAgainExecuted
  DEF UseNext, UseStep, useVars, UseInv
<1>. QED BY <1>2, <1>4 DEF UseInv

-----------------------------------------------------------------------------
\* For every manifest, every choice of stops that fail and any number of calls of
\* rollback: a container that runs without what it depends on has a failed stop of its
\* own, one that still runs when a call returns failed to stop in that call, and a
\* completed plan has created everything.
THEOREM RollbackIsSoundAlways == UseInit /\ [][UseNext]_useVars => []RollbackIsSound
<1>1. UseInv => RollbackIsSound
  <2>. SUFFICES ASSUME UseInv PROVE RollbackIsSound
    OBVIOUS
  <2>0. /\ Len(created) \in Nat /\ undone \in Nat /\ Len(output) \in Nat
        /\ round \in Nat \ {0} /\ refused \in [Services -> Nat] /\ undone <= Len(created)
    BY DEF UseInv, IInv, TypeOK, Executed, Recorded, WhatRuns
  <2>1. DependenciesOutliveDependents
    <3>. SUFFICES ASSUME NEW s \in Services, NEW d \in Services,
                         container[s] = "running", DependsOn(s, d), refused[s] = 0
                  PROVE  container[d] = "running"
      BY <2>0 DEF DependenciesOutliveDependents
    <3>1. PICK i \in 1 .. Len(created) : created[i] = s /\ MayRunAt(i, s)
      BY DEF UseInv, Executed, Recorded, WhatRuns
    <3>2. i \in 1 .. Len(created) - undone /\ round = 1
      BY <2>0, <3>1 DEF MayRunAt
    <3>3. /\ Len(created) <= Len(output)
          /\ i \in 1 .. Len(created) /\ i \in DOMAIN output /\ output[i] = s
      <4>1. Len(created) = cursor \div 2 /\ cursor \in Nat /\ cursor <= 2 * Len(output) + 1
        BY DEF UseInv, Executed, Recorded, WhatRuns
      <4>2. Len(created) <= Len(output)
        BY <2>0, <4>1
      <4>3. i \in 1 .. Len(created) /\ i \in 1 .. Len(output)
        BY <2>0, <3>1, <4>2
      <4>. QED
        <5>1. DOMAIN output = 1 .. Len(output)
          BY DEF UseInv, IInv, TypeOK
        <5>2. created[i] = output[i]
          BY <4>3 DEF UseInv, Executed, Recorded
        <5>. QED
          BY <3>1, <4>2, <4>3, <5>1, <5>2
    <3>4. PICK k \in DOMAIN deps[s] : deps[s][k] = d
      BY DEF DependsOn
    <3>5. PICK j \in 1 .. i - 1 : output[j] = d
      BY <3>3, <3>4 DEF UseInv, IInv, PrefixIsOrdered
    <3>6. j \in 1 .. Len(created) - undone /\ created[j] = d
      <4>1. j \in 1 .. Len(created) - undone /\ j \in 1 .. Len(created)
        BY <2>0, <3>2, <3>3, <3>5
      <4>. QED
        BY <3>5, <4>1 DEF UseInv, Executed, Recorded
    <3>. QED
      BY <3>2, <3>6 DEF UseInv, Executed, Recorded, WhatRuns
  <2>2. RollbackCoversTheRun
    <3>. SUFFICES ASSUME outcome = "rolled_back", NEW s \in Services, container[s] = "running"
                  PROVE  refused[s] = round
      BY DEF RollbackCoversTheRun
    <3>1. PICK i \in 1 .. Len(created) : created[i] = s /\ MayRunAt(i, s)
      BY DEF UseInv, Executed, Recorded, WhatRuns
    <3>2. undone = Len(created)
      BY DEF UseInv, Executed, Recorded, WhatRuns
    <3>. QED
      BY <2>0, <3>1, <3>2 DEF MayRunAt
  <2>3. CreatedMeansAll
    <3>. SUFFICES ASSUME outcome = "created", NEW s \in Services
                  PROVE  container[s] = "running"
      BY DEF CreatedMeansAll
    <3>1. status = "ok" /\ Len(created) = Len(output) /\ undone = 0 /\ round = 1
      BY DEF UseInv, Executed, Recorded, WhatRuns
    <3>2. PICK i \in DOMAIN output : output[i] = s
      BY <3>1, OrderIsWhole DEF UseInv, OrderIsTopological
    <3>3. i \in 1 .. Len(created) - undone /\ created[i] = s
      BY <3>1, <3>2 DEF UseInv, IInv, TypeOK, Executed, Recorded, WhatRuns
    <3>. QED
      BY <3>1, <3>3 DEF UseInv, Executed, Recorded, WhatRuns
  <2>. QED BY <2>1, <2>2, <2>3 DEF RollbackIsSound
<1>. QED BY InitExecuted, UseInvStep, <1>1, PTL

-----------------------------------------------------------------------------
(* The closure of an action.  visit has no cycle check: the accepted order *)
(* is what keeps a service that was seen, and has not returned, from being *)
(* a dependency of the innermost call.                                     *)

Before(d, s) ==
    \E i, j \in DOMAIN output : i < j /\ output[i] = d /\ output[j] = s

OnCalls == {calls[i] : i \in DOMAIN calls}

NothingChosen ==
    /\ calls = <<>> /\ taken = [s \in Services |-> 0]
    /\ seen = {} /\ closure = <<>> /\ scanned = 0 /\ uuids = {} /\ answer = "none"

\* What was seen has returned, or is a pending call; each call depends on the
\* one it was made for, and nothing was seen that the action does not need.
CallsAreAChain ==
    /\ action \in seen
    /\ seen = InClosure \cup OnCalls
    /\ \A i \in DOMAIN calls : calls[i] \notin InClosure
    /\ \A i, j \in DOMAIN calls : i < j => Before(calls[j], calls[i])
    /\ \A s \in Services \ seen : taken[s] = 0
    /\ \A set \in SUBSET Services :
         (action \in set /\ ClosedUnderDependencies(set)) => seen \subseteq set

\* What the loops have taken has returned, but for the call waited for.
TakenHasReturned ==
    \A i \in DOMAIN calls :
        /\ taken[calls[i]] \in 0 .. Len(deps[calls[i]])
        /\ \A k \in 1 .. taken[calls[i]] :
             \/ deps[calls[i]][k] \in InClosure
             \/ i < Len(calls) /\ deps[calls[i]][k] = calls[i + 1]

ClosurePrefixIsOrdered ==
    \A j \in DOMAIN closure :
        /\ \A i \in 1 .. j - 1 : closure[i] # closure[j]
        /\ \A k \in DOMAIN deps[closure[j]] :
             \E i \in 1 .. j - 1 : closure[i] = deps[closure[j]][k]

\* The GPU loop starts when the traversal is over; as long as it refuses nothing it
\* has collected the selectors of what it has passed.
ScanIsFaithful ==
    /\ calls # <<>> => scanned = 0 /\ uuids = {} /\ answer = "none"
    /\ answer \in {"none", "bound"} =>
         /\ uuids = UNION {gpu[closure[i]].uuids : i \in 1 .. scanned}
         /\ \A i \in 1 .. scanned :
              \/ gpu[closure[i]].vendor = "none"
              \/ gpu[closure[i]].vendor = "nvidia" /\ cuda
    /\ answer = "bound" => scanned = Len(closure) /\ uuids # {}

ClosureInv ==
    /\ ClosureTypeOK
    /\ status # "ok" => action = 0
    /\ action = 0 => NothingChosen
    /\ action # 0 =>
         CallsAreAChain /\ TakenHasReturned /\ ClosurePrefixIsOrdered /\ ScanIsFaithful

\* The order is a strict order of the services in which dependencies come first.
LEMMA BeforeIsAnOrder ==
    ASSUME IInv, status = "ok"
    PROVE  /\ \A s \in Services : \A k \in DOMAIN deps[s] : Before(deps[s][k], s)
           /\ \A a, b, c : Before(a, b) /\ Before(b, c) => Before(a, c)
           /\ \A a : ~ Before(a, a)
<1>1. Len(output) \in Nat /\ DOMAIN output = 1 .. Len(output) /\ OrderIsTopological
  BY OrderIsWhole DEF IInv, TypeOK
<1>2. ASSUME NEW s \in Services, NEW k \in DOMAIN deps[s]
      PROVE  Before(deps[s][k], s)
  <2>1. PICK j \in DOMAIN output : output[j] = s
    BY <1>1 DEF OrderIsTopological
  <2>2. PICK i \in 1 .. j - 1 : output[i] = deps[s][k]
    BY <1>1, <2>1 DEF OrderIsTopological
  <2>. QED
    BY <1>1, <2>1, <2>2 DEF Before
<1>3. \A i, j \in DOMAIN output : output[i] = output[j] => i = j
  BY <1>1 DEF OrderIsTopological
<1>4. \A a, b, c : Before(a, b) /\ Before(b, c) => Before(a, c)
  BY <1>1, <1>3 DEF Before
<1>5. \A a : ~ Before(a, a)
  BY <1>1, <1>3 DEF Before
<1>. QED BY <1>2, <1>4, <1>5

LEMMA InitClosure == UseInit => ClosureInv
<1>. SUFFICES ASSUME Init, ClosureInit PROVE ClosureInv
  BY DEF UseInit
<1>1. [vendor |-> "none", uuids |-> {}] \in GpuRequests
  BY DEF GpuRequests
<1>2. ClosureTypeOK
  <2>1. <<>> \in Seq(Services) /\ Len(<<>>) = 0 /\ 0 \in 0 .. NServices
    BY GraphConstants
  <2>2. /\ gpu \in [Services -> GpuRequests] /\ taken \in [Services -> Nat]
        /\ closure = <<>> /\ calls = <<>> /\ scanned = 0 /\ action = 0
        /\ cuda \in BOOLEAN /\ seen = {} /\ uuids = {} /\ answer = "none"
    BY <1>1 DEF ClosureInit
  <2>. QED
    BY <2>1, <2>2 DEF ClosureTypeOK
<1>. QED
  BY <1>2 DEF Init, ClosureInit, ClosureInv, NothingChosen

\* While the order is computed or executed, no action is chosen or nothing changes.
LEMMA GraphStepClosure ==
    ASSUME ClosureInv, GraphStep, UNCHANGED closureVars
    PROVE  ClosureInv'
<1>1. status # "ok" /\ action = 0
  BY DEF GraphStep, CheckDependencies, VisitRoot, VisitDependency, Leave, OrderDone, ClosureInv
<1>. QED
  BY <1>1 DEF ClosureInv, ClosureTypeOK, NothingChosen, closureVars

\* The innermost call.
LEMMA InnerFacts ==
    ASSUME ClosureInv, calls # <<>>
    PROVE  /\ Len(calls) \in Nat \ {0} /\ DOMAIN calls = 1 .. Len(calls)
           /\ Len(calls) \in DOMAIN calls /\ calls[Len(calls)] = Inner
           /\ Inner \in Services /\ Inner \in seen
           /\ action # 0 /\ status = "ok"
           /\ CallsAreAChain /\ TakenHasReturned /\ ClosurePrefixIsOrdered /\ ScanIsFaithful
<1>1. calls \in Seq(Services) /\ action # 0 /\ status = "ok"
  BY DEF ClosureInv, ClosureTypeOK, NothingChosen
<1>2. /\ Len(calls) \in Nat \ {0} /\ DOMAIN calls = 1 .. Len(calls)
      /\ Len(calls) \in DOMAIN calls /\ calls[Len(calls)] = Inner /\ Inner \in Services
  BY <1>1 DEF Inner
<1>3. CallsAreAChain /\ TakenHasReturned /\ ClosurePrefixIsOrdered /\ ScanIsFaithful
  BY <1>1 DEF ClosureInv
<1>4. Inner \in seen
  BY <1>2, <1>3 DEF CallsAreAChain, OnCalls
<1>. QED BY <1>1, <1>2, <1>3, <1>4

LEMMA ChooseClosure ==
    ASSUME IInv, ClosureInv, Choose, UNCHANGED graphVars
    PROVE  ClosureInv'
<1>1. /\ status = "ok" /\ status' = "ok" /\ action' \in Services /\ action' # 0
      /\ UNCHANGED <<deps, output>>
  BY DEF Choose, graphVars, Services
<1>2. /\ NothingChosen /\ calls' = <<action'>> /\ seen' = {action'}
      /\ gpu' \in [Services -> GpuRequests] /\ cuda' \in BOOLEAN
      /\ UNCHANGED <<taken, closure, scanned, uuids, answer>>
  BY DEF Choose, ClosureInv
<1>3. ClosureTypeOK'
  BY <1>1, <1>2 DEF ClosureInv, ClosureTypeOK, NothingChosen, Services
<1>4. InClosure' = {} /\ OnCalls' = {action'} /\ DOMAIN calls' = {1} /\ calls'[1] = action'
  BY <1>2 DEF InClosure, OnCalls, NothingChosen
<1>5. CallsAreAChain'
  BY <1>1, <1>2, <1>4 DEF CallsAreAChain, NothingChosen
<1>6. TakenHasReturned'
  <2>1. Len(deps[action']) \in Nat
    BY <1>1, DependencyLists DEF IInv, TypeOK
  <2>. QED
    BY <1>1, <1>2, <1>4, <2>1 DEF TakenHasReturned, NothingChosen
<1>7. ClosurePrefixIsOrdered' /\ ScanIsFaithful'
  BY <1>2 DEF ClosurePrefixIsOrdered, ScanIsFaithful, NothingChosen
<1>. QED
  BY <1>1, <1>3, <1>5, <1>6, <1>7 DEF ClosureInv

\* The dependency a loop takes next, when it was seen, has returned: a pending
\* call would come both before and after the innermost.
LEMMA SeenHasReturned ==
    ASSUME IInv, ClosureInv, calls # <<>>,
           taken[Inner] < Len(deps[Inner]),
           deps[Inner][taken[Inner] + 1] \in seen
    PROVE  deps[Inner][taken[Inner] + 1] \in InClosure
<1>. DEFINE d == deps[Inner][taken[Inner] + 1]
<1>1. /\ taken[Inner] \in Nat /\ Len(deps[Inner]) \in Nat
      /\ DOMAIN deps[Inner] = 1 .. Len(deps[Inner])
  BY InnerFacts, DependencyLists DEF IInv, TypeOK, ClosureInv, ClosureTypeOK
<1>2. Before(d, Inner)
  BY <1>1, InnerFacts, BeforeIsAnOrder
<1>3. ASSUME d \in OnCalls PROVE FALSE
  <2>1. PICK i \in DOMAIN calls : calls[i] = d
    BY <1>3 DEF OnCalls
  <2>2. CASE i = Len(calls)
    BY <1>2, <2>1, <2>2, InnerFacts, BeforeIsAnOrder
  <2>3. CASE i < Len(calls)
    <3>1. Before(Inner, d)
      BY <2>1, <2>3, InnerFacts DEF CallsAreAChain
    <3>. QED
      BY <1>2, <3>1, InnerFacts, BeforeIsAnOrder
  <2>. QED
    BY <2>2, <2>3, InnerFacts
<1>. QED
  BY <1>3, InnerFacts DEF CallsAreAChain

LEMMA VisitNextClosure ==
    ASSUME IInv, ClosureInv, VisitNext, UNCHANGED graphVars
    PROVE  ClosureInv'
<1>. DEFINE n == Len(calls)
            top == Inner
            t == taken[Inner]
            d == deps[Inner][taken[Inner] + 1]
<1>1. /\ calls # <<>> /\ taken' = [taken EXCEPT ![top] = t + 1] /\ Visit(d)
      /\ UNCHANGED <<action, gpu, cuda, closure, scanned, uuids, answer, deps, output, status>>
  BY DEF VisitNext, graphVars
<1>2. /\ t \in Nat /\ Len(deps[top]) \in Nat /\ t + 1 \in DOMAIN deps[top]
      /\ DOMAIN deps[top] = 1 .. Len(deps[top])
  BY <1>1, InnerFacts, DependencyLists DEF IInv, TypeOK, ClosureInv, ClosureTypeOK, VisitNext
<1>3. d \in Services /\ Before(d, top)
  BY <1>1, <1>2, InnerFacts, BeforeIsAnOrder DEF IInv, NamesAreKnown
<1>4. /\ n \in Nat \ {0} /\ DOMAIN calls = 1 .. n /\ calls[n] = top
      /\ top \in Services /\ top \in seen /\ action # 0 /\ status = "ok"
      /\ CallsAreAChain /\ TakenHasReturned /\ ClosurePrefixIsOrdered /\ ScanIsFaithful
  BY <1>1, InnerFacts
<1>5. UNCHANGED InClosure
  BY <1>1 DEF InClosure
<1>6. \A i \in 1 .. n - 1 : calls[i] # top /\ calls[i] \in Services
  <2>1. \A i \in 1 .. n - 1 : Before(top, calls[i])
    BY <1>4 DEF CallsAreAChain
  <2>. QED
    BY <1>4, <2>1, BeforeIsAnOrder DEF ClosureInv, ClosureTypeOK
<1>7. \A s \in Services : taken'[s] = IF s = top THEN t + 1 ELSE taken[s]
  BY <1>1, <1>4 DEF ClosureInv, ClosureTypeOK
<1>8. /\ ClosurePrefixIsOrdered'
      /\ scanned' = 0 /\ uuids' = {} /\ answer' = "none"
  BY <1>1, <1>4 DEF ClosurePrefixIsOrdered, ScanIsFaithful
<1>9. ScanIsFaithful'
  BY <1>8 DEF ScanIsFaithful
<1>10. \A i \in 1 .. n : \A k \in 1 .. taken[calls[i]] :
            \/ deps[calls[i]][k] \in InClosure
            \/ i < n /\ deps[calls[i]][k] = calls[i + 1]
  BY <1>4 DEF TakenHasReturned
<1>11. ClosureTypeOK' /\ taken' \in [Services -> Nat]
  <2>1. calls \in Seq(Services) /\ seen \subseteq Services /\ taken \in [Services -> Nat]
    BY DEF ClosureInv, ClosureTypeOK
  <2>2. calls' = calls \/ calls' = Append(calls, d)
    BY <1>1 DEF Visit
  <2>3. calls' \in Seq(Services)
    BY <1>3, <2>1, <2>2, Pushed
  <2>4. seen' \subseteq Services
    BY <1>1, <1>3, <2>1 DEF Visit
  <2>5. taken' \in [Services -> Nat]
    <3>1. t + 1 \in Nat /\ taken' = [taken EXCEPT ![top] = t + 1]
      BY <1>1, <1>2
    <3>. HIDE DEF t, top
    <3>. QED
      BY <2>1, <3>1
  <2>. QED
    BY <1>1, <2>3, <2>4, <2>5 DEF ClosureInv, ClosureTypeOK, Services
<1>12. CASE d \in seen /\ UNCHANGED <<calls, seen>>
  <2>1. d \in InClosure
    BY <1>1, <1>12, SeenHasReturned DEF VisitNext
  <2>2. UNCHANGED OnCalls
    BY <1>12 DEF OnCalls
  <2>3. CallsAreAChain'
    <3>1. \A s \in Services \ seen' : taken'[s] = 0
      BY <1>4, <1>7, <1>12 DEF CallsAreAChain
    <3>2. \A i, j \in DOMAIN calls' : i < j => Before(calls[j], calls[i])'
      BY <1>1, <1>4, <1>12 DEF CallsAreAChain, Before
    <3>3. \A set \in SUBSET Services :
             (action \in set /\ ClosedUnderDependencies(set)') => seen \subseteq set
      BY <1>1, <1>4 DEF CallsAreAChain, ClosedUnderDependencies
    <3>. QED
      BY <1>1, <1>4, <1>5, <1>12, <2>2, <3>1, <3>2, <3>3 DEF CallsAreAChain
  <2>4. TakenHasReturned'
    <3>1. ASSUME NEW i \in 1 .. n
          PROVE  /\ taken'[calls[i]] \in 0 .. Len(deps[calls[i]])
                 /\ \A k \in 1 .. taken'[calls[i]] :
                      \/ deps[calls[i]][k] \in InClosure
                      \/ i < n /\ deps[calls[i]][k] = calls[i + 1]
      <4>1. CASE i = n
        <5>1. taken'[calls[i]] = t + 1 /\ calls[i] = top
          BY <1>4, <1>7, <4>1
        <5>2. \A k \in 1 .. t + 1 : k \in 1 .. t \/ k = t + 1
          BY <1>2
        <5>. QED
          BY <1>2, <1>4, <1>10, <2>1, <4>1, <5>1, <5>2
      <4>2. CASE i \in 1 .. n - 1
        <5>1. taken'[calls[i]] = taken[calls[i]]
          BY <1>6, <1>7, <4>2
        <5>. QED
          BY <1>4, <1>10, <5>1 DEF TakenHasReturned
      <4>. QED
        BY <1>4, <4>1, <4>2
    <3>. QED
      BY <1>1, <1>4, <1>5, <1>12, <3>1 DEF TakenHasReturned
  <2>. QED
    BY <1>1, <1>4, <1>8, <1>9, <1>11, <2>3, <2>4 DEF ClosureInv
<1>13. CASE d \notin seen /\ calls' = Append(calls, d) /\ seen' = seen \cup {d}
  <2>1. /\ Len(calls') = n + 1 /\ DOMAIN calls' = 1 .. n + 1
        /\ \A i \in 1 .. n : calls'[i] = calls[i]
        /\ calls'[n + 1] = d
    BY <1>3, <1>4, <1>11, <1>13, Pushed DEF ClosureInv, ClosureTypeOK
  <2>2. OnCalls' = OnCalls \cup {d}
    <3>1. \A i : i \in 1 .. n + 1 <=> (i \in 1 .. n \/ i = n + 1)
      BY <1>4
    <3>. QED
      BY <1>4, <2>1, <3>1 DEF OnCalls
  <2>3. \A i, j \in 1 .. n + 1 : i < j => Before(calls'[j], calls'[i])
    <3>1. \A i \in 1 .. n : Before(d, calls[i])
      <4>1. ASSUME NEW i \in 1 .. n PROVE Before(d, calls[i])
        <5>0. n \in Nat
          BY <1>4
        <5>1. i = n \/ i < n
          BY <5>0
        <5>2. CASE i < n
          BY <1>3, <1>4, <5>2, BeforeIsAnOrder DEF CallsAreAChain
        <5>. QED BY <1>3, <1>4, <5>1, <5>2
      <4>. QED BY <4>1
    <3>2. \A i, j \in 1 .. n + 1 : i < j => i \in 1 .. n /\ (j \in 1 .. n \/ j = n + 1)
      BY <1>4
    <3>. QED
      BY <1>4, <2>1, <3>1, <3>2 DEF CallsAreAChain
  <2>4. CallsAreAChain'
    <3>1. \A s \in Services \ seen' : taken'[s] = 0
      BY <1>4, <1>7, <1>13 DEF CallsAreAChain
    <3>2. \A i, j \in DOMAIN calls' : i < j => Before(calls[j], calls[i])'
      BY <1>1, <2>1, <2>3 DEF Before
    <3>3. \A set \in SUBSET Services :
             (action \in set /\ ClosedUnderDependencies(set)') => seen \cup {d} \subseteq set
      <4>1. ASSUME NEW set \in SUBSET Services, action \in set, ClosedUnderDependencies(set)'
            PROVE  seen \subseteq set /\ d \in set
        <5>1. ClosedUnderDependencies(set)
          BY <1>1, <4>1 DEF ClosedUnderDependencies
        <5>2. seen \subseteq set
          BY <1>4, <4>1, <5>1 DEF CallsAreAChain
        <5>. QED
          BY <1>2, <1>4, <5>1, <5>2 DEF ClosedUnderDependencies
      <4>. QED BY <4>1
    <3>4. \A i \in DOMAIN calls' : calls'[i] \notin InClosure'
      <4>1. d \notin InClosure
        BY <1>4, <1>13 DEF CallsAreAChain
      <4>. QED
        BY <1>4, <1>5, <2>1, <4>1 DEF CallsAreAChain
    <3>5. action' \in seen' /\ seen' = InClosure' \cup OnCalls'
      BY <1>1, <1>4, <1>5, <1>13, <2>2 DEF CallsAreAChain
    <3>. QED
      BY <1>1, <1>13, <3>1, <3>2, <3>3, <3>4, <3>5 DEF CallsAreAChain
  <2>5. TakenHasReturned'
    <3>1. ASSUME NEW i \in 1 .. n + 1
          PROVE  /\ taken'[calls'[i]] \in 0 .. Len(deps[calls'[i]])
                 /\ \A k \in 1 .. taken'[calls'[i]] :
                      \/ deps[calls'[i]][k] \in InClosure
                      \/ i < n + 1 /\ deps[calls'[i]][k] = calls'[i + 1]
      <4>1. CASE i = n
        <5>1. calls'[i] = top /\ taken'[top] = t + 1 /\ calls'[i + 1] = d
          BY <1>4, <1>7, <2>1, <4>1
        <5>2. \A k \in 1 .. t + 1 : k \in 1 .. t \/ k = t + 1
          BY <1>2
        <5>. QED
          BY <1>2, <1>4, <1>10, <4>1, <5>1, <5>2
      <4>2. CASE i \in 1 .. n - 1
        <5>1. taken'[calls[i]] = taken[calls[i]] /\ calls'[i] = calls[i] /\ calls'[i + 1] = calls[i + 1]
          BY <1>4, <1>6, <1>7, <2>1, <4>2
        <5>. QED
          BY <1>4, <1>10, <4>2, <5>1 DEF TakenHasReturned
      <4>3. CASE i = n + 1
        <5>1. calls'[i] = d /\ taken'[d] = 0 /\ Len(deps[d]) \in Nat
          BY <1>3, <1>4, <1>7, <1>13, <2>1, <4>3, DependencyLists
          DEF CallsAreAChain, IInv, TypeOK
        <5>. QED
          BY <5>1
      <4>. QED
        BY <1>4, <4>1, <4>2, <4>3
    <3>. QED
      BY <1>1, <1>5, <2>1, <3>1 DEF TakenHasReturned
  <2>. QED
    BY <1>1, <1>4, <1>8, <1>9, <1>11, <2>4, <2>5 DEF ClosureInv
<1>. QED
  BY <1>1, <1>12, <1>13 DEF Visit

LEMMA PushClosure ==
    ASSUME IInv, ClosureInv, Push, UNCHANGED graphVars
    PROVE  ClosureInv'
<1>. DEFINE n == Len(calls)
            m == Len(closure)
            top == Inner
<1>1. /\ calls # <<>> /\ taken[top] = Len(deps[top])
      /\ closure' = Append(closure, top) /\ calls' = SubSeq(calls, 1, n - 1)
      /\ UNCHANGED <<action, gpu, cuda, taken, seen, scanned, uuids, answer, deps, output, status>>
  BY DEF Push, graphVars
<1>2. /\ n \in Nat \ {0} /\ DOMAIN calls = 1 .. n /\ calls[n] = top
      /\ top \in Services /\ action # 0 /\ status = "ok"
      /\ CallsAreAChain /\ TakenHasReturned /\ ClosurePrefixIsOrdered /\ ScanIsFaithful
  BY <1>1, InnerFacts
<1>3. calls \in Seq(Services) /\ closure \in Seq(Services) /\ m \in Nat /\ DOMAIN closure = 1 .. m
  BY DEF ClosureInv, ClosureTypeOK
<1>4. /\ calls' \in Seq(Services) /\ Len(calls') = n - 1 /\ DOMAIN calls' = 1 .. n - 1
      /\ \A i \in 1 .. n - 1 : calls'[i] = calls[i]
  <2>1. calls' \in Seq(Services) /\ Len(calls') = n - 1
    BY <1>1, <1>3, Popped
  <2>. QED
    BY <1>1, <1>3, <2>1, Popped
<1>5. /\ closure' \in Seq(Services) /\ Len(closure') = m + 1 /\ DOMAIN closure' = 1 .. m + 1
      /\ \A i \in 1 .. m : closure'[i] = closure[i]
      /\ closure'[m + 1] = top
  <2>1. closure' \in Seq(Services) /\ Len(closure') = m + 1
    BY <1>1, <1>2, <1>3, Pushed
  <2>. QED
    BY <1>1, <1>2, <1>3, <2>1, Pushed
<1>6. \A i : i \in 1 .. n <=> (i \in 1 .. n - 1 \/ i = n)
  BY <1>2
<1>7. \A i : i \in 1 .. m + 1 <=> (i \in 1 .. m \/ i = m + 1)
  BY <1>3
<1>. HIDE DEF n, m, top
<1>8. InClosure' = InClosure \cup {top}
  BY <1>3, <1>5, <1>7 DEF InClosure
<1>9. \A i \in 1 .. n - 1 : calls[i] # top
  <2>1. \A i \in 1 .. n - 1 : i < n
    BY <1>2
  <2>2. \A i \in 1 .. n - 1 : Before(top, calls[i])
    BY <1>2, <1>6, <2>1 DEF CallsAreAChain
  <2>. QED
    BY <1>2, <2>2, BeforeIsAnOrder
<1>10. OnCalls = OnCalls' \cup {top}
  BY <1>2, <1>4, <1>6 DEF OnCalls
<1>11. ClosureTypeOK'
  <2>1. scanned \in 0 .. m
    BY DEF m, ClosureInv, ClosureTypeOK
  <2>2. scanned' \in 0 .. Len(closure')
    BY <1>1, <1>3, <1>5, <2>1
  <2>. QED
    BY <1>1, <1>4, <1>5, <2>2 DEF ClosureInv, ClosureTypeOK, Services
<1>12. CallsAreAChain'
  <2>1. \A i \in DOMAIN calls' : calls'[i] \notin InClosure'
    BY <1>2, <1>4, <1>6, <1>8, <1>9 DEF CallsAreAChain
  <2>2. \A i, j \in DOMAIN calls' : i < j => Before(calls[j], calls[i])'
    BY <1>1, <1>2, <1>4, <1>6 DEF CallsAreAChain, Before
  <2>3. \A set \in SUBSET Services :
           (action \in set /\ ClosedUnderDependencies(set)') => seen \subseteq set
    BY <1>1, <1>2 DEF CallsAreAChain, ClosedUnderDependencies
  <2>4. seen = InClosure' \cup OnCalls'
    BY <1>2, <1>8, <1>10 DEF CallsAreAChain
  <2>. QED
    BY <1>1, <1>2, <2>1, <2>2, <2>3, <2>4 DEF CallsAreAChain
<1>13. TakenHasReturned'
  <2>1. ASSUME NEW i \in 1 .. n - 1
        PROVE  /\ taken[calls[i]] \in 0 .. Len(deps[calls[i]])
               /\ \A k \in 1 .. taken[calls[i]] :
                    \/ deps[calls[i]][k] \in InClosure'
                    \/ i < n - 1 /\ deps[calls[i]][k] = calls'[i + 1]
    <3>1. /\ taken[calls[i]] \in 0 .. Len(deps[calls[i]])
          /\ \A k \in 1 .. taken[calls[i]] :
               \/ deps[calls[i]][k] \in InClosure
               \/ i < n /\ deps[calls[i]][k] = calls[i + 1]
      BY <1>2, <1>6 DEF TakenHasReturned, n
    <3>2. CASE i = n - 1
      <4>1. calls[i + 1] = top
        BY <1>2, <3>2
      <4>. QED
        BY <1>8, <3>1, <4>1
    <3>3. CASE i < n - 1
      <4>1. calls'[i + 1] = calls[i + 1]
        BY <1>2, <1>4, <3>3
      <4>. QED
        BY <1>8, <3>1, <3>3, <4>1
    <3>. QED
      BY <1>2, <3>2, <3>3
  <2>2. ASSUME NEW i \in DOMAIN calls'
        PROVE  /\ taken'[calls'[i]] \in 0 .. Len(deps'[calls'[i]])
               /\ \A k \in 1 .. taken'[calls'[i]] :
                    \/ deps'[calls'[i]][k] \in InClosure'
                    \/ i < Len(calls') /\ deps'[calls'[i]][k] = calls'[i + 1]
    <3>1. i \in 1 .. n - 1 /\ calls'[i] = calls[i] /\ Len(calls') = n - 1
      BY <1>4
    <3>. QED
      BY <1>1, <2>1, <3>1
  <2>. QED
    BY <2>2 DEF TakenHasReturned
<1>14. ClosurePrefixIsOrdered'
  <2>1. \A k \in DOMAIN deps[top] : deps[top][k] \in InClosure
    <3>1. DOMAIN deps[top] = 1 .. taken[top]
      BY <1>1, <1>2, DependencyLists DEF IInv, TypeOK
    <3>2. \A k \in 1 .. taken[top] :
             deps[top][k] \in InClosure \/ n < n
      BY <1>2, <1>6 DEF TakenHasReturned, n
    <3>. QED
      BY <1>2, <3>1, <3>2
  <2>2. top \notin InClosure
    BY <1>2, <1>6 DEF CallsAreAChain
  <2>3. ASSUME NEW j \in 1 .. m + 1
        PROVE  /\ \A i \in 1 .. j - 1 : closure'[i] # closure'[j]
               /\ \A k \in DOMAIN deps[closure'[j]] :
                    \E i \in 1 .. j - 1 : closure'[i] = deps[closure'[j]][k]
    <3>1. CASE j = m + 1
      <4>1. 1 .. j - 1 = 1 .. m
        BY <1>3, <3>1
      <4>. QED
        BY <1>3, <1>5, <2>1, <2>2, <3>1, <4>1 DEF InClosure
    <3>2. CASE j \in 1 .. m
      <4>1. \A i \in 1 .. j - 1 : i \in 1 .. m
        BY <1>3, <3>2
      <4>2. closure'[j] = closure[j] /\ \A i \in 1 .. j - 1 : closure'[i] = closure[i]
        BY <1>5, <3>2, <4>1
      <4>. QED
        BY <1>2, <1>3, <3>2, <4>2 DEF ClosurePrefixIsOrdered
    <3>. QED
      BY <1>7, <3>1, <3>2
  <2>4. \A j \in DOMAIN closure' :
           /\ \A i \in 1 .. j - 1 : closure'[i] # closure'[j]
           /\ \A k \in DOMAIN deps'[closure'[j]] :
                \E i \in 1 .. j - 1 : closure'[i] = deps'[closure'[j]][k]
    <3>1. DOMAIN closure' = 1 .. m + 1 /\ deps' = deps
      BY <1>1, <1>5
    <3>. QED
      BY <2>3, <3>1
  <2>. QED
    BY <2>4 DEF ClosurePrefixIsOrdered
<1>15. ScanIsFaithful'
  BY <1>1, <1>2 DEF ScanIsFaithful
<1>. QED
  BY <1>1, <1>2, <1>11, <1>12, <1>13, <1>14, <1>15 DEF ClosureInv

\* What a traversal that is over has listed.
LEMMA TraversalIsOver ==
    ASSUME ClosureInv, action # 0, calls = <<>>
    PROVE  /\ seen = InClosure /\ Len(closure) \in Nat /\ DOMAIN closure = 1 .. Len(closure)
           /\ CallsAreAChain /\ ClosurePrefixIsOrdered /\ ScanIsFaithful
           /\ scanned \in 0 .. Len(closure)
<1>1. CallsAreAChain /\ ClosurePrefixIsOrdered /\ ScanIsFaithful
  BY DEF ClosureInv
<1>2. OnCalls = {}
  BY DEF OnCalls
<1>3. closure \in Seq(Services) /\ scanned \in 0 .. Len(closure)
  BY DEF ClosureInv, ClosureTypeOK
<1>. QED
  BY <1>1, <1>2, <1>3 DEF CallsAreAChain

\* The GPU loop takes a service further.
LEMMA ScanClosure ==
    ASSUME ClosureInv, ScanService \/ Bind, UNCHANGED graphVars
    PROVE  ClosureInv'
<1>1. /\ action # 0 /\ calls = <<>> /\ answer = "none" /\ status = "ok"
      /\ UNCHANGED <<action, gpu, cuda, calls, taken, seen, closure, deps, output, status>>
  BY DEF ScanService, Bind, Scanning, ClosureInv, graphVars
<1>2. /\ Len(closure) \in Nat /\ scanned \in 0 .. Len(closure) /\ ScanIsFaithful
      /\ gpu \in [Services -> GpuRequests] /\ closure \in Seq(Services)
      /\ uuids \subseteq Uuids
  BY <1>1, TraversalIsOver DEF ClosureInv, ClosureTypeOK
<1>3. (CallsAreAChain /\ TakenHasReturned /\ ClosurePrefixIsOrdered)'
  BY <1>1 DEF ClosureInv, CallsAreAChain, TakenHasReturned, ClosurePrefixIsOrdered, InClosure,
     OnCalls, Before, ClosedUnderDependencies
<1>4. CASE Bind
  <2>1. /\ UNCHANGED <<uuids, scanned>> /\ scanned = Len(closure)
        /\ answer' = IF uuids = {} THEN "gpu_binding_missing" ELSE "bound"
    BY <1>4 DEF Bind
  <2>2. ScanIsFaithful'
    BY <1>1, <1>2, <2>1 DEF ScanIsFaithful
  <2>3. ClosureTypeOK'
    BY <1>1, <2>1 DEF ClosureInv, ClosureTypeOK
  <2>. QED
    BY <1>1, <1>3, <2>2, <2>3 DEF ClosureInv
<1>5. CASE ScanService
  <2>. DEFINE q == scanned + 1
  <2>1. /\ scanned' = q /\ q \in 1 .. Len(closure) /\ closure[q] \in Services
        /\ Candidate = gpu[closure[q]] /\ Candidate \in GpuRequests
    BY <1>2, <1>5 DEF ScanService, Candidate
  <2>2. /\ Candidate.uuids \subseteq Uuids
        /\ Candidate.vendor = "none" => Candidate.uuids = {}
    BY <2>1 DEF GpuRequests
  <2>3. \A i : i \in 1 .. q <=> (i \in 1 .. scanned \/ i = q)
    BY <1>2
  <2>4. \/ /\ Candidate.vendor = "none" /\ UNCHANGED <<uuids, answer>>
        \/ /\ Candidate.vendor = "nvidia" /\ cuda
           /\ uuids' = uuids \cup Candidate.uuids /\ UNCHANGED answer
        \/ /\ answer' \in {"gpu_vendor_unsupported", "toolkit_missing"} /\ UNCHANGED uuids
    BY <1>5 DEF ScanService
  <2>5. ClosureTypeOK'
    <3>1. uuids' \subseteq Uuids
      BY <1>2, <2>2, <2>4
    <3>2. answer' \in {"none", "gpu_vendor_unsupported", "toolkit_missing"}
      BY <1>1, <2>4
    <3>3. scanned' \in 0 .. Len(closure')
      BY <1>1, <1>2, <2>1
    <3>. QED
      BY <1>1, <3>1, <3>2, <3>3 DEF ClosureInv, ClosureTypeOK, Services
  <2>6. ScanIsFaithful'
    <3>1. CASE answer' # "none"
      <4>1. answer' \notin {"none", "bound"}
        BY <1>1, <2>4, <3>1
      <4>. QED
        BY <1>1, <4>1 DEF ScanIsFaithful
    <3>2. CASE answer' = "none"
      <4>1. uuids' = uuids \cup gpu[closure[q]].uuids
        BY <2>1, <2>2, <2>4, <3>2
      <4>2. uuids = UNION {gpu[closure[i]].uuids : i \in 1 .. scanned}
        BY <1>1, <1>2 DEF ScanIsFaithful
      <4>3. uuids' = UNION {gpu[closure[i]].uuids : i \in 1 .. q}
        <5>. HIDE DEF q
        <5>. QED
          BY <2>3, <4>1, <4>2
      <4>4. \A i \in 1 .. q :
               \/ gpu[closure[i]].vendor = "none"
               \/ gpu[closure[i]].vendor = "nvidia" /\ cuda
        BY <1>1, <1>2, <2>1, <2>3, <2>4, <3>2 DEF ScanIsFaithful
      <4>. QED
        BY <1>1, <2>1, <3>2, <4>3, <4>4 DEF ScanIsFaithful
    <3>. QED BY <3>1, <3>2
  <2>. QED
    BY <1>1, <1>3, <2>5, <2>6 DEF ClosureInv
<1>. QED BY <1>4, <1>5

BothInv == UseInv /\ ClosureInv

LEMMA BothInvStep == BothInv /\ [UseNext]_useVars => BothInv'
<1>. SUFFICES ASSUME BothInv, [UseNext]_useVars PROVE BothInv'
  OBVIOUS
<1>1. UseInv'
  BY UseInvStep DEF BothInv
<1>2. IInv /\ ClosureInv
  BY DEF BothInv, UseInv
<1>3. CASE GraphStep /\ UNCHANGED closureVars
  BY <1>1, <1>2, <1>3, GraphStepClosure DEF BothInv
<1>4. CASE UNCHANGED <<graphVars, closureVars>>
  <2>1. UNCHANGED <<deps, output, status>>
    BY <1>4 DEF graphVars
  <2>2. UNCHANGED closureVars
    BY <1>4
  <2>3. ClosureTypeOK' /\ (NothingChosen => NothingChosen')
    BY <1>2, <2>2 DEF ClosureInv, ClosureTypeOK, NothingChosen, closureVars
  <2>4. /\ CallsAreAChain => CallsAreAChain'
        /\ TakenHasReturned => TakenHasReturned'
    BY <2>1, <2>2 DEF CallsAreAChain, TakenHasReturned, InClosure, OnCalls, Before,
       ClosedUnderDependencies, closureVars
  <2>5. /\ ClosurePrefixIsOrdered => ClosurePrefixIsOrdered'
        /\ ScanIsFaithful => ScanIsFaithful'
    BY <2>1, <2>2 DEF ClosurePrefixIsOrdered, ScanIsFaithful, closureVars
  <2>6. ClosureInv'
    BY <1>2, <2>1, <2>2, <2>3, <2>4, <2>5 DEF ClosureInv, closureVars
  <2>. QED
    BY <1>1, <2>6 DEF BothInv
<1>5. CASE ClosureStep /\ UNCHANGED graphVars
  BY <1>1, <1>2, <1>5, ChooseClosure, VisitNextClosure, PushClosure, ScanClosure
  DEF ClosureStep, BothInv
<1>. QED
  BY <1>3, <1>4, <1>5 DEF UseNext, UseStep, useVars

LEMMA BothInvAlways == UseInit /\ [][UseNext]_useVars => []BothInv
<1>1. UseInit => BothInv
  BY InitExecuted, InitClosure DEF BothInv
<1>. QED BY <1>1, BothInvStep, PTL

\* The variables of the traversal and of the GPU loop keep their types, for every
\* manifest: no service is visited that is not one, and the GPU loop stays in the list.
THEOREM ClosureTypeCorrect == UseInit /\ [][UseNext]_useVars => []ClosureTypeOK
<1>1. BothInv => ClosureTypeOK
  BY DEF BothInv, ClosureInv
<1>. QED BY <1>1, BothInvAlways, PTL

\* For every accepted manifest and every action: the services recorded are the least
\* set closed under depends_on that holds the action's service, once each, and each
\* after all it depends on, although visit has no cycle check of its own.
THEOREM ClosureIsExactAlways == UseInit /\ [][UseNext]_useVars => []ClosureIsExact
<1>1. BothInv => ClosureIsExact
  <2>. SUFFICES ASSUME BothInv, Scanning PROVE ClosureIsReachability /\ ClosureIsOrdered
    BY DEF ClosureIsExact, ClosureIsReachability, ClosureIsOrdered
  <2>1. /\ seen = InClosure /\ Len(closure) \in Nat /\ DOMAIN closure = 1 .. Len(closure)
        /\ CallsAreAChain /\ ClosurePrefixIsOrdered
    BY TraversalIsOver DEF BothInv, Scanning
  <2>2. ClosureIsOrdered
    BY <2>1 DEF ClosureIsOrdered, ClosurePrefixIsOrdered
  <2>3. ClosedUnderDependencies(InClosure)
    BY <2>1 DEF ClosedUnderDependencies, ClosurePrefixIsOrdered, InClosure
  <2>4. ClosureIsReachability
    BY <2>1, <2>3 DEF ClosureIsReachability, CallsAreAChain
  <2>. QED BY <2>2, <2>4
<1>. QED BY <1>1, BothInvAlways, PTL

\* For every accepted manifest: an action that is bound is bound to exactly the GPUs
\* that its closure selects, and its closure asks for no GPU of another vendor.
THEOREM BindingsCoverTheClosureAlways ==
    UseInit /\ [][UseNext]_useVars => []BindingsCoverTheClosure
<1>1. BothInv => BindingsCoverTheClosure
  <2>. SUFFICES ASSUME BothInv, answer = "bound" PROVE BindingsCoverTheClosure
    BY DEF BindingsCoverTheClosure
  <2>1. action # 0 /\ calls = <<>>
    BY DEF BothInv, ClosureInv, NothingChosen, ScanIsFaithful
  <2>2. /\ DOMAIN closure = 1 .. Len(closure) /\ Len(closure) \in Nat
        /\ scanned = Len(closure) /\ uuids # {}
        /\ uuids = UNION {gpu[closure[i]].uuids : i \in 1 .. scanned}
        /\ \A i \in 1 .. scanned :
              \/ gpu[closure[i]].vendor = "none"
              \/ gpu[closure[i]].vendor = "nvidia" /\ cuda
    BY <2>1, TraversalIsOver DEF BothInv, ScanIsFaithful
  <2>3. uuids = UNION {gpu[s].uuids : s \in InClosure}
    BY <2>2 DEF InClosure
  <2>4. \A s \in InClosure : gpu[s].vendor \in {"none", "nvidia"}
    BY <2>2 DEF InClosure
  <2>5. cuda
    <3>1. PICK i \in 1 .. scanned : gpu[closure[i]].uuids # {}
      BY <2>2
    <3>2. gpu[closure[i]] \in GpuRequests
      BY <2>2, <3>1 DEF BothInv, ClosureInv, ClosureTypeOK
    <3>3. gpu[closure[i]].vendor # "none"
      BY <3>1, <3>2 DEF GpuRequests
    <3>. QED BY <2>2, <3>1, <3>3
  <2>. QED BY <2>3, <2>4, <2>5 DEF BindingsCoverTheClosure
<1>. QED BY <1>1, BothInvAlways, PTL
=============================================================================
