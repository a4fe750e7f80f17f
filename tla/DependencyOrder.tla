-------------------------- MODULE DependencyOrder --------------------------
(***************************************************************************)
(* What a caller of CompositionManifest::validate and ::service_order is   *)
(* promised, whatever the traversal: a service is listed only after every  *)
(* service it depends on; the list is accepted only when it is complete;   *)
(* and a cycle is reported only when some services do depend on one        *)
(* another in a ring.  ServiceGraph implements this.                       *)
(***************************************************************************)
EXTENDS Naturals, Sequences

CONSTANTS NServices,   \* services are named 1 .. NServices, in BTreeMap key order
          MaxDeps,     \* longest depends_on list
          Strangers    \* names a depends_on list may hold that are no service

VARIABLES deps,     \* depends_on of each service: a list, repetitions allowed
          output,   \* the services listed so far
          verdict   \* "open" until the manifest is accepted or refused

Services == 1 .. NServices
Manifests ==
    [Services -> UNION {[1 .. n -> Services \cup Strangers] : n \in 0 .. MaxDeps}]

DependsOn(s, d) == \E k \in DOMAIN deps[s] : deps[s][k] = d
Listed(s) == \E i \in DOMAIN output : output[i] = s

\* Some service names itself or a stranger as its dependency.
HasInvalidDependency ==
    \E s \in Services : DependsOn(s, s) \/ \E d \in Strangers : DependsOn(s, d)

\* Each member of the ring depends on a member: in a finite graph, a cycle.
HasCycle ==
    \E ring \in SUBSET Services :
        /\ ring # {}
        /\ \A s \in ring : \E d \in ring : DependsOn(s, d)

-----------------------------------------------------------------------------

Init ==
    /\ deps \in Manifests
    /\ output = <<>>
    /\ verdict = "open"

Place(s) ==
    /\ verdict = "open"
    /\ ~ Listed(s)
    /\ \A k \in DOMAIN deps[s] : Listed(deps[s][k])
    /\ output' = Append(output, s)
    /\ UNCHANGED <<deps, verdict>>

Accept ==
    /\ verdict = "open"
    /\ \A s \in Services : Listed(s)
    /\ verdict' = "ok"
    /\ UNCHANGED <<deps, output>>

RefuseDependency ==
    /\ verdict = "open"
    /\ HasInvalidDependency
    /\ verdict' = "dependency_invalid"
    /\ UNCHANGED <<deps, output>>

RefuseCycle ==
    /\ verdict = "open"
    /\ HasCycle
    /\ verdict' = "dependency_cycle"
    /\ UNCHANGED <<deps, output>>

Next ==
    \/ \E s \in Services : Place(s)
    \/ Accept \/ RefuseDependency \/ RefuseCycle

vars == <<deps, output, verdict>>
Spec == Init /\ [][Next]_vars
=============================================================================
