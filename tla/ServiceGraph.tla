---------------------------- MODULE ServiceGraph ----------------------------
(***************************************************************************)
(* The dependency check of CompositionManifest::validate and the           *)
(* depth-first traversal of CompositionManifest::service_order: the        *)
(* recursive `visit` is a stack of the services whose visit has begun and  *)
(* not returned, with the position of each one's loop over depends_on.     *)
(* The two sets `visiting` and `visited` are the ones of the code.         *)
(***************************************************************************)
EXTENDS Naturals, Sequences

CONSTANTS NServices,   \* services are named 1 .. NServices, in BTreeMap key order
          MaxDeps,     \* longest depends_on list
          Strangers    \* names a depends_on list may hold that are no service

ASSUME GraphConstants ==
    /\ NServices \in Nat \ {0}
    /\ MaxDeps \in Nat
    /\ Strangers \cap (1 .. NServices) = {}

VARIABLES deps,       \* depends_on of each service
          stack,      \* services whose visit has not returned, outermost first
          nextDep,    \* nextDep[s]: index of the dependency s's loop takes next
          visiting, visited,
          output,     \* the order built so far
          root,       \* the key the outer loop takes next
          status      \* "check", "order", or how the manifest ended

graphVars == <<deps, stack, nextDep, visiting, visited, output, root, status>>

Services == 1 .. NServices
Names == Services \cup Strangers
Manifests ==
    [Services -> UNION {[1 .. n -> Names] : n \in 0 .. MaxDeps}]
Verdicts == {"ok", "dependency_invalid", "dependency_cycle"}

Top == stack[Len(stack)]
DependsOn(s, d) == \E k \in DOMAIN deps[s] : deps[s][k] = d

Init ==
    /\ deps \in Manifests
    /\ stack = <<>>
    /\ nextDep = [s \in Services |-> 1]
    /\ visiting = {}
    /\ visited = {}
    /\ output = <<>>
    /\ root = 1
    /\ status = "check"

-----------------------------------------------------------------------------

\* validate: some depends_on names its own service or no service at all.
InvalidDependency ==
    \E s \in Services :
        DependsOn(s, s) \/ \E d \in Strangers : DependsOn(s, d)

CheckDependencies ==
    /\ status = "check"
    /\ status' = IF InvalidDependency THEN "dependency_invalid" ELSE "order"
    /\ UNCHANGED <<deps, stack, nextDep, visiting, visited, output, root>>

\* The head of `visit`: a service already visited returns at once, one
\* still being visited closes a cycle, any other begins its loop.
Enter(s) ==
    /\ visited' = visited
    /\ \/ /\ s \in visited
          /\ UNCHANGED <<stack, visiting, status>>
       \/ /\ s \in visiting \ visited
          /\ status' = "dependency_cycle"
          /\ UNCHANGED <<stack, visiting>>
       \/ /\ s \notin visited \cup visiting
          /\ stack' = Append(stack, s)
          /\ visiting' = visiting \cup {s}
          /\ UNCHANGED status

\* The outer loop over the keys of the service map.
VisitRoot ==
    /\ status = "order"
    /\ stack = <<>>
    /\ root <= NServices
    /\ Enter(root)
    /\ root' = root + 1
    /\ UNCHANGED <<deps, nextDep, output>>

\* Mutant: a finished dependency does not advance the loop.
VisitDependencyStuck ==
    /\ status = "order"
    /\ stack # <<>>
    /\ nextDep[Top] <= Len(deps[Top])
    /\ Enter(deps[Top][nextDep[Top]])
    /\ nextDep' = IF deps[Top][nextDep[Top]] \in visited
                  THEN nextDep ELSE [nextDep EXCEPT ![Top] = @ + 1]
    /\ UNCHANGED <<deps, output, root>>

\* The loop of `visit` over depends_on.
VisitDependency ==
    /\ status = "order"
    /\ stack # <<>>
    /\ nextDep[Top] <= Len(deps[Top])
    /\ Enter(deps[Top][nextDep[Top]])
    /\ nextDep' = [nextDep EXCEPT ![Top] = @ + 1]
    /\ UNCHANGED <<deps, output, root>>

\* Mutant: a visit listed before what it depends on.
LeaveToFront ==
    /\ status = "order"
    /\ stack # <<>>
    /\ nextDep[Top] > Len(deps[Top])
    /\ visiting' = visiting \ {Top}
    /\ visited' = visited \cup {Top}
    /\ output' = <<Top>> \o output
    /\ stack' = SubSeq(stack, 1, Len(stack) - 1)
    /\ UNCHANGED <<deps, nextDep, root, status>>

\* The loop of the innermost visit is over: it leaves `visiting`, is listed,
\* and returns to its caller.
Leave ==
    /\ status = "order"
    /\ stack # <<>>
    /\ nextDep[Top] > Len(deps[Top])
    /\ visiting' = visiting \ {Top}
    /\ visited' = visited \cup {Top}
    /\ output' = Append(output, Top)
    /\ stack' = SubSeq(stack, 1, Len(stack) - 1)
    /\ UNCHANGED <<deps, nextDep, root, status>>

OrderDone ==
    /\ status = "order"
    /\ stack = <<>>
    /\ root > NServices
    /\ status' = "ok"
    /\ UNCHANGED <<deps, stack, nextDep, visiting, visited, output, root>>

GraphStep == CheckDependencies \/ VisitRoot \/ VisitDependency \/ Leave \/ OrderDone

Next == GraphStep

Spec == Init /\ [][Next]_graphVars

\* The traversal is straight-line code of one thread: it is not abandoned.
FairSpec == Spec /\ WF_graphVars(Next)

-----------------------------------------------------------------------------
(* The type invariant, and what the two sets mean.                         *)

TypeOK ==
    /\ deps \in Manifests
    /\ stack \in Seq(Services)
    /\ nextDep \in [Services -> Nat \ {0}]
    /\ visiting \subseteq Services
    /\ visited \subseteq Services
    /\ output \in Seq(Services)
    /\ root \in 1 .. NServices + 1
    /\ status \in {"check", "order"} \cup Verdicts

\* While the traversal runs, `visiting` is exactly the chain of calls that
\* have not returned and `visited` exactly the services listed: no early
\* return leaves a service in the wrong set, which is what keeps a shared
\* dependency (a diamond) from being taken for a cycle.
SetsMatchTheCalls ==
    /\ visiting = {stack[i] : i \in DOMAIN stack}
    /\ visited = {output[i] : i \in DOMAIN output}
    /\ visiting \cap visited = {}

\* An accepted order lists every service once, each after all it depends on
\* (service_order's callers create containers and address teardown by it).
OrderIsTopological ==
    status = "ok" =>
        /\ \A s \in Services : \E i \in DOMAIN output : output[i] = s
        /\ \A i, j \in DOMAIN output : output[i] = output[j] => i = j
        /\ \A j \in DOMAIN output :
             \A k \in DOMAIN deps[output[j]] :
                \E i \in 1 .. j - 1 : output[i] = deps[output[j]][k]

\* dependency_cycle is reported only for services that do depend on one
\* another in a ring: a diamond or a repeated dependency is no cycle.
CycleIsReal ==
    status = "dependency_cycle" =>
        \E ring \in SUBSET Services :
            /\ ring # {}
            /\ \A s \in ring : \E d \in ring : DependsOn(s, d)

\* Every manifest is accepted or refused: `visit` does not recurse for ever
\* on a cyclic graph.
PlanEnds == <>(status \in Verdicts)

\* service_order implements the abstract promise of DependencyOrder.
Promise == INSTANCE DependencyOrder WITH
    verdict <- IF status \in {"check", "order"} THEN "open" ELSE status
KeepsPromise == Promise!Spec
=============================================================================
