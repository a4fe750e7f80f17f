------------------------- MODULE ServiceGraphProofs -------------------------
(***************************************************************************)
(* Proofs about ServiceGraph, for every number of services and every       *)
(* manifest: the type invariant, that an accepted order is complete and    *)
(* topological, and that a reported cycle exists.  The inductive invariant *)
(* describes the stack: it is a chain of dependencies, and what a frame's  *)
(* loop has passed is visited, except the frame it is waiting for.         *)
(***************************************************************************)
EXTENDS ServiceGraph, SequenceTheorems, TLAPS

\* A service is on the stack once, and a service never entered has not begun
\* its loop.
StackIsSimple ==
    /\ \A i, j \in DOMAIN stack : stack[i] = stack[j] => i = j
    /\ \A s \in Services : s \notin visiting \cup visited => nextDep[s] = 1

\* Each frame waits for the next one: the dependency its loop took last.
StackIsChain ==
    \A i \in 1 .. Len(stack) - 1 :
        /\ nextDep[stack[i]] - 1 \in DOMAIN deps[stack[i]]
        /\ deps[stack[i]][nextDep[stack[i]] - 1] = stack[i + 1]

\* What the loops have passed is visited, but for the frame waited for.
LoopsLeaveVisited ==
    status = "order" =>
        \A i \in DOMAIN stack :
            \A k \in DOMAIN deps[stack[i]] :
                k < nextDep[stack[i]] =>
                    \/ deps[stack[i]][k] \in visited
                    \/ i < Len(stack) /\ k = nextDep[stack[i]] - 1

\* The order built so far is topological and repeats nothing.
PrefixIsOrdered ==
    /\ \A i, j \in DOMAIN output : output[i] = output[j] => i = j
    /\ \A j \in DOMAIN output :
         \A k \in DOMAIN deps[output[j]] :
            \E i \in 1 .. j - 1 : output[i] = deps[output[j]][k]

\* The outer loop leaves nothing behind, and accepts when it is over.
RootsAreTaken ==
    /\ status = "check" => root = 1 /\ stack = <<>>
    /\ status # "check" => \A s \in 1 .. root - 1 : s \in visited \cup visiting
    /\ status = "ok" => stack = <<>> /\ root = NServices + 1

\* After the check, every dependency is a service.
NamesAreKnown ==
    status \notin {"check", "dependency_invalid"} =>
        \A s \in Services : \A k \in DOMAIN deps[s] : deps[s][k] \in Services

IInv ==
    /\ TypeOK
    /\ SetsMatchTheCalls
    /\ StackIsSimple
    /\ StackIsChain
    /\ LoopsLeaveVisited
    /\ PrefixIsOrdered
    /\ RootsAreTaken
    /\ NamesAreKnown
    /\ CycleIsReal

-----------------------------------------------------------------------------
(* Sequences: a pushed and a popped stack.                                 *)

LEMMA Pushed ==
    ASSUME NEW S, NEW q \in Seq(S), NEW x \in S
    PROVE  /\ Append(q, x) \in Seq(S)
           /\ Len(Append(q, x)) = Len(q) + 1
           /\ \A i \in 1 .. Len(q) : Append(q, x)[i] = q[i]
           /\ Append(q, x)[Len(q) + 1] = x
  OBVIOUS

LEMMA Popped ==
    ASSUME NEW S, NEW q \in Seq(S), q # <<>>
    PROVE  /\ Len(q) \in Nat \ {0}
           /\ SubSeq(q, 1, Len(q) - 1) \in Seq(S)
           /\ Len(SubSeq(q, 1, Len(q) - 1)) = Len(q) - 1
           /\ \A i \in 1 .. Len(q) - 1 : SubSeq(q, 1, Len(q) - 1)[i] = q[i]
           /\ q[Len(q)] \in S
<1>1. Len(q) \in Nat \ {0} /\ q[Len(q)] \in S
  OBVIOUS
<1>2. SubSeq(q, 1, Len(q) - 1) \in Seq(S)
  BY <1>1
<1>3. ASSUME NEW n \in Nat, n = Len(q) - 1
      PROVE  /\ Len(SubSeq(q, 1, n)) = n
             /\ \A i \in 1 .. n : SubSeq(q, 1, n)[i] = q[i]
  <2>1. \A i \in 1 .. n : q[i] \in S
    BY <1>3
  <2>2. /\ Len(SubSeq(q, 1, n)) = IF 1 <= n THEN n - 1 + 1 ELSE 0
        /\ \A i \in 1 .. n - 1 + 1 : SubSeq(q, 1, n)[i] = q[1 + i - 1]
    BY <2>1, SubSeqProperties, 1 \in Int, n \in Int
  <2>3. QED
    BY <2>2
<1>5. Len(q) - 1 \in Nat
  BY <1>1
<1>4. QED
  BY <1>1, <1>2, <1>3, <1>5

\* depends_on lists are finite sequences of names.
LEMMA DependencyLists ==
    ASSUME deps \in Manifests, NEW s \in Services
    PROVE  /\ deps[s] \in Seq(Names)
           /\ Len(deps[s]) \in Nat
           /\ DOMAIN deps[s] = 1 .. Len(deps[s])
<1>1. PICK n \in 0 .. MaxDeps : deps[s] \in [1 .. n -> Names]
  BY GraphConstants DEF Manifests
<1>2. QED
  BY <1>1, GraphConstants

\* The innermost visit.
LEMMA TopFacts ==
    ASSUME TypeOK, stack # <<>>
    PROVE  /\ Len(stack) \in Nat \ {0}
           /\ Top \in Services
           /\ nextDep[Top] \in Nat \ {0}
           /\ Len(stack) \in DOMAIN stack
  BY Popped DEF TypeOK, Top

-----------------------------------------------------------------------------

LEMMA InitInvariant == Init => IInv
  BY GraphConstants DEF Init, IInv, TypeOK, SetsMatchTheCalls, StackIsSimple,
     StackIsChain, LoopsLeaveVisited, PrefixIsOrdered, RootsAreTaken,
     NamesAreKnown, CycleIsReal, Verdicts

\* The service a step of the traversal enters is a service.
LEMMA NextDependency ==
    ASSUME TypeOK, NamesAreKnown, status = "order", stack # <<>>,
           nextDep[Top] <= Len(deps[Top])
    PROVE  /\ nextDep[Top] \in DOMAIN deps[Top]
           /\ deps[Top][nextDep[Top]] \in Services
<1>1. Top \in Services /\ nextDep[Top] \in Nat \ {0}
  BY TopFacts
<1>2. nextDep[Top] \in DOMAIN deps[Top]
  BY <1>1, DependencyLists DEF TypeOK
<1>3. QED
  BY <1>1, <1>2 DEF NamesAreKnown

LEMMA TypeStep == TypeOK /\ NamesAreKnown /\ [Next]_graphVars => TypeOK'
<1> SUFFICES ASSUME TypeOK, NamesAreKnown, [Next]_graphVars PROVE TypeOK'
  OBVIOUS
<1>1. CASE CheckDependencies
  BY <1>1 DEF CheckDependencies, TypeOK, Verdicts
<1>2. ASSUME NEW s \in Services, Enter(s)
      PROVE  /\ stack' \in Seq(Services)
             /\ visiting' \subseteq Services
             /\ visited' \subseteq Services
             /\ status' \in {status, "dependency_cycle"}
  <2>1. stack' = stack \/ stack' = Append(stack, s)
    BY <1>2 DEF Enter
  <2>2. stack' \in Seq(Services)
    <3>1. stack \in Seq(Services)
      BY DEF TypeOK
    <3>2. Append(stack, s) \in Seq(Services)
      BY <3>1
    <3>3. QED
      BY <2>1, <3>1, <3>2
  <2>3. visiting' \subseteq Services /\ visited' \subseteq Services
    BY <1>2 DEF Enter, TypeOK
  <2>4. status' \in {status, "dependency_cycle"}
    BY <1>2 DEF Enter
  <2>5. QED
    BY <2>2, <2>3, <2>4
<1>3. CASE VisitRoot
  <2>1. root \in Services /\ root + 1 \in 1 .. NServices + 1
    BY <1>3, GraphConstants DEF VisitRoot, TypeOK, Services
  <2>2. QED
    BY <1>2, <1>3, <2>1 DEF VisitRoot, TypeOK, Verdicts
<1>4. CASE VisitDependency
  <2>1. Top \in Services /\ nextDep[Top] + 1 \in Nat \ {0}
    BY <1>4, TopFacts DEF VisitDependency
  <2>2. deps[Top][nextDep[Top]] \in Services
    BY <1>4, NextDependency DEF VisitDependency
  <2>3. nextDep' \in [Services -> Nat \ {0}]
    BY <1>4, <2>1 DEF VisitDependency, TypeOK
  <2>4. QED
    BY <1>2, <1>4, <2>2, <2>3 DEF VisitDependency, TypeOK, Verdicts
<1>5. CASE Leave
  <2>1. Top \in Services
    BY <1>5, TopFacts DEF Leave
  <2>2. output' \in Seq(Services)
    BY <1>5, <2>1, Pushed DEF Leave, TypeOK
  <2>3. stack' \in Seq(Services)
    BY <1>5, Popped DEF Leave, TypeOK
  <2>4. QED
    BY <1>5, <2>1, <2>2, <2>3 DEF Leave, TypeOK
<1>6. CASE OrderDone
  BY <1>6 DEF OrderDone, TypeOK, Verdicts
<1>7. CASE UNCHANGED graphVars
  BY <1>7 DEF graphVars, TypeOK
<1>8. QED
  BY <1>1, <1>3, <1>4, <1>5, <1>6, <1>7 DEF Next, GraphStep

-----------------------------------------------------------------------------
(* How the stack and the order change, in terms of their elements.         *)

\* A service is entered: it becomes the innermost visit.
LEMMA EnterPushes ==
    ASSUME TypeOK, NEW s \in Services, stack' = Append(stack, s)
    PROVE  /\ Len(stack) \in Nat /\ Len(stack') = Len(stack) + 1
           /\ DOMAIN stack = 1 .. Len(stack) /\ DOMAIN stack' = 1 .. Len(stack) + 1
           /\ \A i \in 1 .. Len(stack) : stack'[i] = stack[i]
           /\ stack'[Len(stack) + 1] = s
<1>1. stack \in Seq(Services) /\ Append(stack, s) \in Seq(Services)
  BY Pushed DEF TypeOK
<1>2. QED
  BY <1>1, Pushed

\* The innermost visit returns: its caller is innermost, it is listed last.
LEMMA LeavePops ==
    ASSUME TypeOK, Leave
    PROVE  /\ Len(stack) \in Nat \ {0} /\ Len(stack') = Len(stack) - 1
           /\ DOMAIN stack = 1 .. Len(stack) /\ DOMAIN stack' = 1 .. Len(stack) - 1
           /\ \A i \in 1 .. Len(stack) - 1 : stack'[i] = stack[i]
           /\ Top \in Services /\ stack[Len(stack)] = Top
<1>1. stack \in Seq(Services) /\ stack # <<>>
  BY DEF TypeOK, Leave
<1>2. stack' = SubSeq(stack, 1, Len(stack) - 1)
  BY DEF Leave
<1>3. stack' \in Seq(Services)
  BY <1>1, <1>2, Popped
<1>4. Len(stack) \in Nat \ {0} /\ Len(stack') = Len(stack) - 1
  BY <1>1, <1>2, Popped
<1>5. \A i \in 1 .. Len(stack) - 1 : stack'[i] = stack[i]
  BY <1>1, <1>2, Popped
<1>6. QED
  BY <1>1, <1>3, <1>4, <1>5, TopFacts DEF Top

LEMMA LeaveLists ==
    ASSUME TypeOK, Leave
    PROVE  /\ Len(output) \in Nat
           /\ DOMAIN output = 1 .. Len(output) /\ DOMAIN output' = 1 .. Len(output) + 1
           /\ \A i \in 1 .. Len(output) : output'[i] = output[i]
           /\ output'[Len(output) + 1] = Top
<1>1. output \in Seq(Services) /\ Top \in Services /\ output' = Append(output, Top)
  BY LeavePops DEF TypeOK, Leave
<1>2. output' \in Seq(Services)
  BY <1>1
<1>3. QED
  BY <1>1, <1>2, Pushed

LEMMA SetsStep == IInv /\ [Next]_graphVars => SetsMatchTheCalls'
<1> SUFFICES ASSUME IInv, [Next]_graphVars PROVE SetsMatchTheCalls'
  OBVIOUS
<1> USE DEF IInv
<1>1. ASSUME NEW s \in Services, Enter(s), output' = output
      PROVE  SetsMatchTheCalls'
  <2>1. CASE stack' = stack /\ visiting' = visiting
    BY <1>1, <2>1 DEF Enter, SetsMatchTheCalls
  <2>2. CASE s \notin visited \cup visiting /\ stack' = Append(stack, s)
             /\ visiting' = visiting \cup {s}
    <3>1. visiting' = {stack'[i] : i \in DOMAIN stack'}
      BY <2>2, EnterPushes DEF SetsMatchTheCalls
    <3>2. QED
      BY <1>1, <2>2, <3>1 DEF Enter, SetsMatchTheCalls
  <2>3. QED
    BY <1>1, <2>1, <2>2 DEF Enter
<1>2. CASE VisitRoot
  <2>1. root \in Services
    BY <1>2, GraphConstants DEF VisitRoot, TypeOK, Services
  <2>2. QED
    BY <1>1, <1>2, <2>1 DEF VisitRoot
<1>3. CASE VisitDependency
  BY <1>1, <1>3, NextDependency DEF VisitDependency
<1>4. CASE Leave
  <2>1. visiting' = {stack'[i] : i \in DOMAIN stack'}
    <3>1. \A i \in 1 .. Len(stack) - 1 : stack[i] # Top
      BY <1>4, LeavePops DEF StackIsSimple
    <3>2. visiting = {stack[i] : i \in 1 .. Len(stack)} /\ visiting' = visiting \ {Top}
      BY <1>4, LeavePops DEF SetsMatchTheCalls, Leave
    <3>3. visiting' = {stack[i] : i \in 1 .. Len(stack) - 1}
      BY <1>4, <3>1, <3>2, LeavePops
    <3>4. {stack'[i] : i \in DOMAIN stack'} = {stack[i] : i \in 1 .. Len(stack) - 1}
      BY <1>4, LeavePops
    <3>5. QED
      BY <3>3, <3>4
  <2>2. visited' = {output'[i] : i \in DOMAIN output'}
    BY <1>4, LeaveLists DEF Leave, SetsMatchTheCalls
  <2>3. visiting' \cap visited' = {}
    BY <1>4 DEF Leave, SetsMatchTheCalls
  <2>4. QED
    BY <2>1, <2>2, <2>3 DEF SetsMatchTheCalls
<1>5. CASE CheckDependencies \/ OrderDone \/ UNCHANGED graphVars
  BY <1>5 DEF CheckDependencies, OrderDone, graphVars, SetsMatchTheCalls
<1>6. QED
  BY <1>2, <1>3, <1>4, <1>5 DEF Next, GraphStep

LEMMA SimpleStep == IInv /\ [Next]_graphVars => StackIsSimple'
<1> SUFFICES ASSUME IInv, [Next]_graphVars PROVE StackIsSimple'
  OBVIOUS
<1> USE DEF IInv
<1>1. ASSUME NEW s \in Services, Enter(s)
      PROVE  \A i, j \in DOMAIN stack' : stack'[i] = stack'[j] => i = j
  <2>1. CASE stack' = stack
    BY <2>1 DEF StackIsSimple
  <2>2. CASE s \notin visited \cup visiting /\ stack' = Append(stack, s)
    <3>1. \A i \in 1 .. Len(stack) : stack[i] # s
      BY <2>2, EnterPushes DEF SetsMatchTheCalls
    <3>2. QED
      BY <2>2, <3>1, EnterPushes DEF StackIsSimple
  <2>3. QED
    BY <1>1, <2>1, <2>2 DEF Enter
<1>2. CASE VisitRoot
  <2>1. root \in Services
    BY <1>2, GraphConstants DEF VisitRoot, TypeOK, Services
  <2>2. QED
    BY <1>1, <1>2, <2>1 DEF VisitRoot, Enter, StackIsSimple
<1>3. CASE VisitDependency
  <2>1. deps[Top][nextDep[Top]] \in Services
    BY <1>3, NextDependency DEF VisitDependency
  <2>2. Top \in visiting
    BY <1>3, TopFacts DEF VisitDependency, SetsMatchTheCalls, Top
  <2>3. \A s \in Services : s \notin visiting' \cup visited' => nextDep'[s] = 1
    BY <1>3, <2>2 DEF VisitDependency, Enter, StackIsSimple, TypeOK
  <2>4. QED
    BY <1>1, <1>3, <2>1, <2>3 DEF VisitDependency, StackIsSimple
<1>4. CASE Leave
  <2>1. \A i, j \in DOMAIN stack' : stack'[i] = stack'[j] => i = j
    BY <1>4, LeavePops DEF StackIsSimple
  <2>2. QED
    BY <1>4, <2>1 DEF Leave, StackIsSimple
<1>5. CASE CheckDependencies \/ OrderDone \/ UNCHANGED graphVars
  BY <1>5 DEF CheckDependencies, OrderDone, graphVars, StackIsSimple
<1>6. QED
  BY <1>2, <1>3, <1>4, <1>5 DEF Next, GraphStep

LEMMA ChainStep == IInv /\ [Next]_graphVars => StackIsChain'
<1> SUFFICES ASSUME IInv, [Next]_graphVars PROVE StackIsChain'
  OBVIOUS
<1> USE DEF IInv
<1>1. CASE VisitRoot
  <2>1. root \in Services
    BY <1>1, GraphConstants DEF VisitRoot, TypeOK, Services
  <2>2. CASE stack' = stack
    BY <1>1, <2>2 DEF VisitRoot, StackIsChain
  <2>3. CASE stack' = Append(stack, root)
    <3>1. Len(stack') = 1
      BY <1>1, <2>1, <2>3, EnterPushes DEF VisitRoot
    <3>2. QED
      BY <3>1 DEF StackIsChain
  <2>4. QED
    BY <1>1, <2>2, <2>3 DEF VisitRoot, Enter
<1>2. CASE VisitDependency
  <2> DEFINE d == deps[Top][nextDep[Top]]
  <2>1. /\ d \in Services /\ Top \in Services /\ nextDep[Top] \in DOMAIN deps[Top]
        /\ nextDep[Top] \in Nat \ {0} /\ Len(stack) \in Nat \ {0} /\ stack[Len(stack)] = Top
    BY <1>2, NextDependency, TopFacts DEF VisitDependency, Top
  <2>2. /\ nextDep'[Top] = nextDep[Top] + 1 /\ deps' = deps
        /\ \A s \in Services \ {Top} : nextDep'[s] = nextDep[s]
    BY <1>2, <2>1 DEF VisitDependency, TypeOK
  <2>3. \A i \in 1 .. Len(stack) - 1 : stack[i] \in Services \ {Top}
    BY <2>1 DEF StackIsSimple, TypeOK
  <2>4. \A i \in 1 .. Len(stack) - 1 :
            /\ nextDep'[stack[i]] - 1 \in DOMAIN deps'[stack[i]]
            /\ deps'[stack[i]][nextDep'[stack[i]] - 1] = stack[i + 1]
    BY <2>2, <2>3 DEF StackIsChain
  <2>5. CASE stack' = stack
    BY <2>4, <2>5 DEF StackIsChain
  <2>6. CASE stack' = Append(stack, d)
    <3>1. /\ nextDep'[stack[Len(stack)]] - 1 \in DOMAIN deps'[stack[Len(stack)]]
          /\ deps'[stack[Len(stack)]][nextDep'[stack[Len(stack)]] - 1] = d
      BY <2>1, <2>2
    <3> HIDE DEF d
    <3>2. QED
      BY <2>1, <2>4, <2>6, <3>1, EnterPushes DEF StackIsChain
  <2>7. QED
    BY <1>2, <2>5, <2>6 DEF VisitDependency, Enter
<1>3. CASE Leave
  BY <1>3, LeavePops DEF Leave, StackIsChain
<1>4. CASE CheckDependencies \/ OrderDone \/ UNCHANGED graphVars
  BY <1>4 DEF CheckDependencies, OrderDone, graphVars, StackIsChain
<1>5. QED
  BY <1>1, <1>2, <1>3, <1>4 DEF Next, GraphStep

LEMMA OrderedStep == IInv /\ [Next]_graphVars => PrefixIsOrdered'
<1> SUFFICES ASSUME IInv, [Next]_graphVars PROVE PrefixIsOrdered'
  OBVIOUS
<1> USE DEF IInv
<1>1. CASE Leave
  <2>1. Top \notin visited /\ Top \in Services /\ stack # <<>> /\ status = "order"
    BY <1>1, LeavePops DEF Leave, SetsMatchTheCalls
  <2>2. \A i \in 1 .. Len(output) : output[i] # Top
    BY <1>1, <2>1, LeaveLists DEF SetsMatchTheCalls
  <2>3. \A k \in DOMAIN deps[Top] : deps[Top][k] \in visited
    <3>1. \A k \in DOMAIN deps[Top] : k < nextDep[Top]
      BY <1>1, <2>1, DependencyLists DEF Leave, TypeOK
    <3>2. Len(stack) \in DOMAIN stack /\ stack[Len(stack)] = Top /\ Len(stack) \in Nat
      BY <1>1, LeavePops
    <3>3. QED
      BY <2>1, <3>1, <3>2 DEF LoopsLeaveVisited
  <2>4. \A k \in DOMAIN deps[Top] : \E i \in 1 .. Len(output) : output[i] = deps[Top][k]
    BY <1>1, <2>3, LeaveLists DEF SetsMatchTheCalls
  <2>5. \A i, j \in DOMAIN output' : output'[i] = output'[j] => i = j
    BY <1>1, <2>2, LeaveLists DEF PrefixIsOrdered
  <2>6. ASSUME NEW j \in DOMAIN output', NEW k \in DOMAIN deps'[output'[j]]
        PROVE  \E i \in 1 .. j - 1 : output'[i] = deps'[output'[j]][k]
    <3>1. deps' = deps
      BY <1>1 DEF Leave
    <3>2. CASE j \in 1 .. Len(output)
      <4>1. PICK i \in 1 .. j - 1 : output[i] = deps[output[j]][k]
        BY <1>1, <2>6, <3>1, <3>2, LeaveLists DEF PrefixIsOrdered
      <4>2. i \in 1 .. Len(output)
        BY <1>1, <3>2, LeaveLists
      <4>3. QED
        BY <1>1, <3>1, <3>2, <4>1, <4>2, LeaveLists
    <3>3. CASE j = Len(output) + 1
      BY <1>1, <2>4, <2>6, <3>1, <3>3, LeaveLists
    <3>4. QED
      BY <1>1, <2>6, <3>2, <3>3, LeaveLists
  <2>7. QED
    BY <2>5, <2>6 DEF PrefixIsOrdered
<1>2. CASE UNCHANGED <<output, deps>>
  BY <1>2 DEF PrefixIsOrdered
<1>3. QED
  BY <1>1, <1>2 DEF Next, GraphStep, CheckDependencies, VisitRoot, VisitDependency,
     OrderDone, graphVars

LEMMA RootsStep == IInv /\ [Next]_graphVars => RootsAreTaken'
<1> SUFFICES ASSUME IInv, [Next]_graphVars PROVE RootsAreTaken'
  OBVIOUS
<1> USE DEF IInv
<1>1. CASE CheckDependencies
  BY <1>1 DEF CheckDependencies, RootsAreTaken, TypeOK
<1>2. CASE VisitRoot
  <2>1. visited \cup visiting \cup {root} \subseteq visited' \cup visiting'
    BY <1>2 DEF VisitRoot, Enter
  <2>2. \A s \in 1 .. root' - 1 : s \in 1 .. root - 1 \/ s = root
    BY <1>2 DEF VisitRoot, TypeOK
  <2>3. status' \notin {"ok", "check"} /\ status # "check"
    BY <1>2 DEF VisitRoot, Enter
  <2>4. QED
    BY <2>1, <2>2, <2>3 DEF RootsAreTaken
<1>3. CASE VisitDependency
  <2>1. visited \cup visiting \subseteq visited' \cup visiting' /\ root' = root
    BY <1>3 DEF VisitDependency, Enter
  <2>2. status' \notin {"ok", "check"} /\ status # "check"
    BY <1>3 DEF VisitDependency, Enter
  <2>3. QED
    BY <2>1, <2>2 DEF RootsAreTaken
<1>4. CASE Leave
  BY <1>4 DEF Leave, RootsAreTaken
<1>5. CASE OrderDone
  BY <1>5, GraphConstants DEF OrderDone, RootsAreTaken, TypeOK
<1>6. CASE UNCHANGED graphVars
  BY <1>6 DEF graphVars, RootsAreTaken
<1>7. QED
  BY <1>1, <1>2, <1>3, <1>4, <1>5, <1>6 DEF Next, GraphStep

LEMMA NamesStep == IInv /\ [Next]_graphVars => NamesAreKnown'
<1> SUFFICES ASSUME IInv, [Next]_graphVars PROVE NamesAreKnown'
  OBVIOUS
<1> USE DEF IInv
<1>1. CASE CheckDependencies
  <2>1. SUFFICES ASSUME ~ InvalidDependency,
                        NEW s \in Services, NEW k \in DOMAIN deps[s]
                 PROVE  deps[s][k] \in Services
    BY <1>1 DEF CheckDependencies, NamesAreKnown
  <2>2. deps[s][k] \in Names
    BY DependencyLists DEF TypeOK
  <2>3. QED
    BY <2>1, <2>2 DEF InvalidDependency, DependsOn, Names
<1>2. CASE status # "check" /\ deps' = deps /\ status # "dependency_invalid"
  BY <1>2 DEF NamesAreKnown
<1>3. CASE UNCHANGED graphVars
  BY <1>3 DEF graphVars, NamesAreKnown
<1>4. QED
  BY <1>1, <1>2, <1>3 DEF Next, GraphStep, VisitRoot, VisitDependency, Leave, OrderDone

LEMMA LoopsStep == IInv /\ [Next]_graphVars => LoopsLeaveVisited'
<1> SUFFICES ASSUME IInv, [Next]_graphVars, status' = "order" PROVE LoopsLeaveVisited'
  BY DEF LoopsLeaveVisited
<1> USE DEF IInv
<1>1. CASE VisitRoot
  <2>1. root \in Services /\ stack = <<>>
    BY <1>1, GraphConstants DEF VisitRoot, TypeOK, Services
  <2>2. CASE stack' = stack
    BY <2>1, <2>2 DEF LoopsLeaveVisited
  <2>3. CASE stack' = Append(stack, root) /\ root \notin visited \cup visiting
    <3>1. DOMAIN stack' = {1} /\ stack'[1] = root
      BY <2>1, <2>3, EnterPushes
    <3>2. nextDep'[root] = 1 /\ deps' = deps
      BY <1>1, <2>1, <2>3 DEF VisitRoot, StackIsSimple
    <3>3. \A k \in DOMAIN deps[root] : ~ (k < 1)
      BY <2>1, DependencyLists DEF TypeOK
    <3>4. QED
      BY <3>1, <3>2, <3>3 DEF LoopsLeaveVisited
  <2>4. QED
    BY <1>1, <2>2, <2>3 DEF VisitRoot, Enter
<1>2. CASE VisitDependency
  <2> DEFINE d == deps[Top][nextDep[Top]]
  <2>1. /\ d \in Services /\ Top \in Services /\ nextDep[Top] \in DOMAIN deps[Top]
        /\ nextDep[Top] \in Nat \ {0} /\ Len(stack) \in Nat \ {0} /\ stack[Len(stack)] = Top
    BY <1>2, NextDependency, TopFacts DEF VisitDependency, Top
  <2>2. /\ nextDep'[Top] = nextDep[Top] + 1 /\ deps' = deps /\ visited' = visited
        /\ \A s \in Services \ {Top} : nextDep'[s] = nextDep[s]
        /\ status = "order"
    BY <1>2, <2>1 DEF VisitDependency, TypeOK, Enter
  <2>3. \A i \in 1 .. Len(stack) - 1 : stack[i] \in Services \ {Top}
    BY <2>1 DEF StackIsSimple, TypeOK
  <2>4. \A i \in 1 .. Len(stack) - 1 : \A k \in DOMAIN deps[stack[i]] :
            k < nextDep'[stack[i]] =>
                deps[stack[i]][k] \in visited \/ k = nextDep'[stack[i]] - 1
    BY <2>1, <2>2, <2>3 DEF LoopsLeaveVisited, TypeOK
  <2>5. \A k \in DOMAIN deps[Top] :
            k < nextDep[Top] => deps[Top][k] \in visited
    BY <2>1, <2>2 DEF LoopsLeaveVisited, TypeOK
  <2>6. \A k \in DOMAIN deps[Top] :
            k < nextDep'[Top] => deps[Top][k] \in visited \/ k = nextDep[Top]
    BY <2>1, <2>2, <2>5, DependencyLists DEF TypeOK
  <2>7. DOMAIN stack = 1 .. Len(stack)
    BY DEF TypeOK
  <2>8. CASE stack' = stack /\ d \in visited
    <3>1. ASSUME NEW i \in 1 .. Len(stack), NEW k \in DOMAIN deps[stack[i]],
                 k < nextDep'[stack[i]]
          PROVE  \/ deps[stack[i]][k] \in visited
                 \/ i < Len(stack) /\ k = nextDep'[stack[i]] - 1
      <4>1. CASE i \in 1 .. Len(stack) - 1
        <5>1. i < Len(stack)
          BY <2>1, <4>1
        <5>2. deps[stack[i]][k] \in visited \/ k = nextDep'[stack[i]] - 1
          BY <2>4, <3>1, <4>1
        <5>3. QED
          BY <5>1, <5>2
      <4>2. CASE i = Len(stack)
        BY <2>1, <2>6, <2>8, <3>1, <4>2
      <4>3. QED
        BY <2>1, <3>1, <4>1, <4>2
    <3>2. QED
      BY <2>2, <2>7, <2>8, <3>1 DEF LoopsLeaveVisited
  <2>9. CASE stack' = Append(stack, d) /\ d \notin visited \cup visiting
    <3>1. Top \in visiting
      BY <2>1, <2>7 DEF SetsMatchTheCalls
    <3>2. nextDep'[d] = 1
      BY <2>1, <2>2, <2>9, <3>1 DEF StackIsSimple
    <3>3. \A k \in DOMAIN deps[d] : ~ (k < 1)
      BY <2>1, DependencyLists DEF TypeOK
    <3> HIDE DEF d
    <3>4. ASSUME NEW i \in 1 .. Len(stack) + 1, NEW k \in DOMAIN deps[stack'[i]],
                 k < nextDep'[stack'[i]]
          PROVE  \/ deps[stack'[i]][k] \in visited
                 \/ i < Len(stack) + 1 /\ k = nextDep'[stack'[i]] - 1
      <4>1. CASE i \in 1 .. Len(stack) - 1
        <5>1. stack'[i] = stack[i]
          BY <2>1, <2>9, <4>1, EnterPushes
        <5>2. QED
          BY <2>1, <2>4, <3>4, <4>1, <5>1
      <4>2. CASE i = Len(stack)
        <5>1. stack'[i] = Top
          BY <2>1, <2>9, <4>2, EnterPushes
        <5>2. QED
          BY <2>1, <2>2, <2>6, <3>4, <4>2, <5>1
      <4>3. CASE i = Len(stack) + 1
        <5>1. stack'[i] = d
          BY <2>1, <2>9, <4>3, EnterPushes
        <5>2. QED
          BY <3>2, <3>3, <3>4, <5>1
      <4>4. QED
        BY <2>1, <3>4, <4>1, <4>2, <4>3
    <3>5. DOMAIN stack' = 1 .. Len(stack) + 1 /\ Len(stack') = Len(stack) + 1
      BY <2>1, <2>9, EnterPushes
    <3>6. QED
      BY <2>2, <3>4, <3>5 DEF LoopsLeaveVisited
  <2>10. QED
    BY <1>2, <2>8, <2>9 DEF VisitDependency, Enter
<1>3. CASE Leave
  <2>1. /\ deps' = deps /\ nextDep' = nextDep /\ status = "order"
        /\ visited' = visited \cup {Top} /\ DOMAIN stack' = 1 .. Len(stack) - 1
    BY <1>3, LeavePops DEF Leave
  <2>2. SUFFICES ASSUME NEW i \in 1 .. Len(stack) - 1, NEW k \in DOMAIN deps[stack[i]],
                        k < nextDep[stack[i]]
                 PROVE  \/ deps[stack[i]][k] \in visited'
                        \/ i < Len(stack') /\ k = nextDep[stack[i]] - 1
    BY <1>3, <2>1, LeavePops DEF LoopsLeaveVisited
  <2>3. CASE deps[stack[i]][k] \in visited
    BY <2>1, <2>3
  <2>4. CASE k = nextDep[stack[i]] - 1
    <3>1. deps[stack[i]][k] = stack[i + 1]
      BY <2>4 DEF StackIsChain
    <3>2. i = Len(stack) - 1 => stack[i + 1] = Top
      BY <1>3, LeavePops
    <3>3. QED
      BY <1>3, <2>1, <2>4, <3>1, <3>2, LeavePops
  <2>5. i \in DOMAIN stack
    BY <1>3, LeavePops
  <2>6. deps[stack[i]][k] \in visited \/ k = nextDep[stack[i]] - 1
    BY <2>1, <2>2, <2>5 DEF LoopsLeaveVisited
  <2>7. QED
    BY <2>3, <2>4, <2>6
<1>4. CASE CheckDependencies
  <2>1. stack = <<>>
    BY <1>4 DEF CheckDependencies, RootsAreTaken
  <2>2. QED
    BY <1>4, <2>1 DEF CheckDependencies, LoopsLeaveVisited
<1>5. CASE OrderDone \/ UNCHANGED graphVars
  BY <1>5 DEF OrderDone, graphVars, LoopsLeaveVisited
<1>6. QED
  BY <1>1, <1>2, <1>3, <1>4, <1>5 DEF Next, GraphStep

\* A dependency that is still being visited closes a ring: the frames from
\* its own to the innermost each depend on the next, the innermost on it.
LEMMA RingOnTheStack ==
    ASSUME IInv, status = "order", stack # <<>>,
           nextDep[Top] <= Len(deps[Top]), deps[Top][nextDep[Top]] \in visiting
    PROVE  \E ring \in SUBSET Services :
               /\ ring # {}
               /\ \A s \in ring : \E d \in ring : DependsOn(s, d)
<1> USE DEF IInv
<1> DEFINE d == deps[Top][nextDep[Top]]
<1>1. /\ Len(stack) \in Nat \ {0} /\ DOMAIN stack = 1 .. Len(stack)
      /\ stack[Len(stack)] = Top /\ nextDep[Top] \in DOMAIN deps[Top]
  BY TopFacts, NextDependency DEF Top, TypeOK
<1>2. PICK i0 \in 1 .. Len(stack) : stack[i0] = d
  BY <1>1 DEF SetsMatchTheCalls
<1> DEFINE ring == {stack[i] : i \in i0 .. Len(stack)}
<1>3. ring \in SUBSET Services /\ ring # {}
  BY <1>1, <1>2 DEF TypeOK
<1>4. ASSUME NEW i \in i0 .. Len(stack) PROVE \E e \in ring : DependsOn(stack[i], e)
  <2>1. CASE i = Len(stack)
    <3>1. DependsOn(stack[i], d)
      BY <1>1, <2>1 DEF DependsOn
    <3>2. d \in ring
      BY <1>1, <1>2
    <3>3. QED
      BY <3>1, <3>2
  <2>2. CASE i < Len(stack)
    <3>1. i \in 1 .. Len(stack) - 1 /\ i + 1 \in i0 .. Len(stack)
      BY <1>1, <1>2, <2>2
    <3>2. DependsOn(stack[i], stack[i + 1])
      BY <3>1 DEF StackIsChain, DependsOn
    <3>3. QED
      BY <3>1, <3>2
  <2>3. i = Len(stack) \/ i < Len(stack)
    BY <1>1, <1>2
  <2>4. QED
    BY <2>1, <2>2, <2>3
<1>5. \A s \in ring : \E e \in ring : DependsOn(s, e)
  BY <1>4
<1>6. QED
  BY <1>3, <1>5

LEMMA CycleStep == IInv /\ [Next]_graphVars => CycleIsReal'
<1> SUFFICES ASSUME IInv, [Next]_graphVars PROVE CycleIsReal'
  OBVIOUS
<1> USE DEF IInv
<1>1. CASE deps' = deps /\ (status' = status \/ status' # "dependency_cycle")
  BY <1>1 DEF CycleIsReal, DependsOn
<1>2. CASE VisitDependency /\ deps[Top][nextDep[Top]] \in visiting
  <2>1. PICK ring \in SUBSET Services :
            /\ ring # {}
            /\ \A s \in ring : \E d \in ring : DependsOn(s, d)
    BY <1>2, RingOnTheStack DEF VisitDependency
  <2>2. deps' = deps
    BY <1>2 DEF VisitDependency
  <2>3. \A s \in ring : \E d \in ring : \E k \in DOMAIN deps'[s] : deps'[s][k] = d
    BY <2>1, <2>2 DEF DependsOn
  <2>4. QED
    BY <2>1, <2>3 DEF CycleIsReal, DependsOn
<1>3. CASE VisitRoot /\ root \in visiting
  <2>1. visiting = {}
    BY <1>3 DEF VisitRoot, SetsMatchTheCalls
  <2>2. QED
    BY <1>3, <2>1
<1>4. QED
  BY <1>1, <1>2, <1>3 DEF Next, GraphStep, CheckDependencies, VisitRoot,
     VisitDependency, Leave, OrderDone, Enter, graphVars

-----------------------------------------------------------------------------

LEMMA InvariantStep == IInv /\ [Next]_graphVars => IInv'
  BY TypeStep, SetsStep, SimpleStep, ChainStep, LoopsStep, OrderedStep, RootsStep,
     NamesStep, CycleStep DEF IInv

LEMMA Invariant == Spec => []IInv
  BY InitInvariant, InvariantStep, PTL DEF Spec

\* Every variable of the traversal keeps its type, for every manifest.
THEOREM TypeCorrect == Spec => []TypeOK
<1>1. IInv => TypeOK
  BY DEF IInv
<1>2. QED
  BY <1>1, Invariant, PTL

LEMMA OrderIsWhole == IInv => OrderIsTopological
<1>. SUFFICES ASSUME IInv, status = "ok" PROVE OrderIsTopological
  BY DEF OrderIsTopological
<1>1. visiting = {} /\ \A s \in Services : s \in visited \cup visiting
  BY GraphConstants DEF IInv, RootsAreTaken, SetsMatchTheCalls, Services
<1>2. \A s \in Services : \E i \in DOMAIN output : output[i] = s
  BY <1>1 DEF IInv, SetsMatchTheCalls
<1>. QED
  BY <1>2 DEF IInv, PrefixIsOrdered, OrderIsTopological

\* An order that service_order returns lists every service once, after
\* everything it depends on, however many services there are.
THEOREM OrderIsTopologicalAlways == Spec => []OrderIsTopological
BY OrderIsWhole, Invariant, PTL

\* service_order reports dependency_cycle only when some services depend on
\* one another in a ring.
THEOREM CycleIsRealAlways == Spec => []CycleIsReal
<1>1. IInv => CycleIsReal
  BY DEF IInv
<1>2. QED
  BY <1>1, Invariant, PTL

\* `visiting` and `visited` follow the calls of visit throughout.
THEOREM SetsMatchTheCallsAlways == Spec => []SetsMatchTheCalls
<1>1. IInv => SetsMatchTheCalls
  BY DEF IInv
<1>2. QED
  BY <1>1, Invariant, PTL

-----------------------------------------------------------------------------
(* The refinement: a service is placed when its visit returns.             *)

LEMMA InitPromise == Init => Promise!Init
  BY DEF Init, Promise!Init, Manifests, Promise!Manifests, Names, Services,
     Promise!Services

LEMMA StepPromise == IInv /\ [Next]_graphVars => [Promise!Next]_(Promise!vars)
<1> SUFFICES ASSUME IInv, [Next]_graphVars
             PROVE  Promise!Next \/ UNCHANGED Promise!vars
  OBVIOUS
<1> USE DEF IInv, Promise!vars
<1>1. CASE CheckDependencies
  <2>1. CASE InvalidDependency
    <3>1. Promise!HasInvalidDependency
      BY <2>1 DEF InvalidDependency, Promise!HasInvalidDependency, DependsOn,
         Promise!DependsOn, Promise!Services, Services
    <3>2. Promise!RefuseDependency
      BY <1>1, <2>1, <3>1 DEF CheckDependencies, Promise!RefuseDependency
    <3>3. QED
      BY <3>2 DEF Promise!Next
  <2>2. CASE ~ InvalidDependency
    BY <1>1, <2>2 DEF CheckDependencies
  <2>3. QED
    BY <2>1, <2>2
<1>2. CASE VisitRoot
  <2>1. root \notin visiting
    BY <1>2 DEF VisitRoot, SetsMatchTheCalls
  <2>2. QED
    BY <1>2, <2>1 DEF VisitRoot, Enter
<1>3. CASE VisitDependency
  <2>1. CASE status' = status
    BY <1>3, <2>1 DEF VisitDependency
  <2>2. CASE status' # status
    <3>1. status' = "dependency_cycle" /\ deps[Top][nextDep[Top]] \in visiting
      BY <1>3, <2>2 DEF VisitDependency, Enter
    <3>2. Promise!HasCycle
      BY <1>3, <3>1, RingOnTheStack DEF VisitDependency, Promise!HasCycle, DependsOn,
         Promise!DependsOn, Promise!Services, Services
    <3>3. Promise!RefuseCycle
      BY <1>3, <3>1, <3>2 DEF VisitDependency, Promise!RefuseCycle
    <3>4. QED
      BY <3>3 DEF Promise!Next
  <2>3. QED
    BY <2>1, <2>2
<1>4. CASE Leave
  <2>1. Top \in Services /\ Top \in visiting
    BY <1>4, LeavePops DEF SetsMatchTheCalls
  <2>2. ~ Promise!Listed(Top)
    BY <2>1 DEF Promise!Listed, SetsMatchTheCalls
  <2>3. output' = Append(output, Top) /\ deps' = deps /\ status = "order" /\ status' = status
    BY <1>4 DEF Leave
  <2>4. \A k \in DOMAIN deps[Top] : Promise!Listed(deps[Top][k])
    <3>1. PrefixIsOrdered'
      BY OrderedStep
    <3>2. Len(output) + 1 \in DOMAIN output' /\ output'[Len(output) + 1] = Top
      BY <1>4, LeaveLists
    <3>3. \A k \in DOMAIN deps[Top] :
              \E i \in 1 .. (Len(output) + 1) - 1 : output'[i] = deps[Top][k]
      BY <2>3, <3>1, <3>2 DEF PrefixIsOrdered
    <3>4. QED
      BY <1>4, <3>3, LeaveLists DEF Promise!Listed
  <2>5. Promise!Place(Top)
    BY <2>2, <2>3, <2>4 DEF Promise!Place
  <2>6. QED
    BY <2>1, <2>5 DEF Promise!Next, Promise!Services, Services
<1>5. CASE OrderDone
  <2>1. \A s \in Services : s \in visited
    BY <1>5, GraphConstants DEF OrderDone, RootsAreTaken, SetsMatchTheCalls, TypeOK, Services
  <2>2. \A s \in Services : Promise!Listed(s)
    BY <2>1 DEF SetsMatchTheCalls, Promise!Listed
  <2>3. Promise!Accept
    BY <1>5, <2>2 DEF OrderDone, Promise!Accept, Promise!Services, Services
  <2>4. QED
    BY <2>3 DEF Promise!Next
<1>6. CASE UNCHANGED graphVars
  BY <1>6 DEF graphVars
<1>7. QED
  BY <1>1, <1>2, <1>3, <1>4, <1>5, <1>6 DEF Next, GraphStep

\* The depth-first traversal implements the abstract dependency order: every
\* step lists one service whose dependencies are listed, accepts a complete
\* list, refuses a manifest for a reason it has, or changes nothing visible.
THEOREM ImplementsDependencyOrder == Spec => KeepsPromise
<1>1. Init => Promise!Init
  BY InitPromise
<1>2. IInv /\ [Next]_graphVars => [Promise!Next]_(Promise!vars)
  BY StepPromise
<1>3. QED
  BY <1>1, <1>2, Invariant, PTL DEF Spec, KeepsPromise, Promise!Spec
=============================================================================
