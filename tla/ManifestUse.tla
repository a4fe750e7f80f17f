---------------------------- MODULE ManifestUse ----------------------------
(***************************************************************************)
(* What can be done with a manifest that ServiceGraph has accepted: a user *)
(* of the crate executes its lifecycle plan (LifecycleExec), or the CLI    *)
(* binds one of its actions to GPUs (ActionClosure).  The executor is the  *)
(* crate's public interface (re-exported at lib.rs:7-10), which the        *)
(* crate's tests call and its own apply does not: the rollback of apply    *)
(* (lib.rs:1065-1070) is in RunStore.                                      *)
(***************************************************************************)
EXTENDS LifecycleExec, ActionClosure

useVars == <<graphVars, execVars, closureVars>>

Idle == cursor = 1 /\ outcome = "none" /\ action = 0

UseInit == Init /\ ExecInit /\ ClosureInit

UseStep ==
    \/ GraphStep /\ UNCHANGED <<execVars, closureVars>>
    \/ ExecStep /\ action = 0 /\ UNCHANGED <<graphVars, closureVars>>
    \/ ClosureStep /\ (Idle \/ action # 0) /\ UNCHANGED <<graphVars, execVars>>

UseNext ==
    \/ UseStep
    \/ RollbackAgain /\ UNCHANGED <<graphVars, closureVars>>

\* One thread computes each of them: it is not abandoned.  Nobody has to call
\* rollback again.
UseSpec == UseInit /\ [][UseNext]_useVars /\ WF_useVars(UseStep)
-----------------------------------------------------------------------------
\* However often rollback is called and whichever stops fail: a container that runs
\* without what it depends on has a failed stop of its own, one that still runs when
\* rollback returns had its stop fail in that call, and a plan that succeeds leaves
\* no service out (service_graph.rs:53-71, :139-168).
RollbackIsSound ==
    DependenciesOutliveDependents /\ RollbackCoversTheRun /\ CreatedMeansAll

\* The services recorded for an action are exactly those it needs, each after what it
\* depends on (lib.rs:532-546).
ClosureIsExact == ClosureIsReachability /\ ClosureIsOrdered

\* Every manifest is accepted or refused, a failed plan is rolled back, and an action
\* is bound or refused: none of the traversals recurses for ever.
UseEnds ==
    /\ PlanEnds /\ BindingEnds
    /\ outcome = "error" ~> outcome = "rolled_back"
=============================================================================
