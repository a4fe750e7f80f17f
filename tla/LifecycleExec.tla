--------------------------- MODULE LifecycleExec ---------------------------
(***************************************************************************)
(* execute_lifecycle_plan and RollbackContract (service_graph.rs): the     *)
(* accepted order becomes a plan of Create and Start intents, Create       *)
(* intents are spawned one by one, and a failed spawn hands the caller the *)
(* contract, with which it asks what this run created to stop, newest      *)
(* first, as often as it likes.  Composes with ServiceGraph, which         *)
(* computes the order.  What a failed spawn leaves behind is not recorded  *)
(* in the contract and not modelled.                                       *)
(***************************************************************************)
EXTENDS ServiceGraph

CONSTANT MaxRollbacks   \* calls of rollback explored

ASSUME RollbacksAssumption == MaxRollbacks \in Nat \ {0}

VARIABLES cursor,    \* the intent taken next
          created,   \* RollbackContract.created: services, in spawn order
          undone,    \* how many of them this call of rollback has asked to stop
          container, \* state of each service's container
          round,     \* which call of rollback
          refused,   \* the last of them in which the service's stop failed, or 0
          outcome    \* "none", then how execution ended

execVars == <<cursor, created, undone, container, round, refused, outcome>>
rollbackVars == <<round, refused>>

Phases == {"create", "start"}

\* plan_lifecycle: a Create and a Start intent per service, in the order.
Intents ==
    [i \in 1 .. 2 * Len(output) |->
        [phase   |-> IF i % 2 = 1 THEN "create" ELSE "start",
         service |-> output[(i + 1) \div 2]]]

ExecInit ==
    /\ cursor = 1
    /\ created = <<>>
    /\ undone = 0
    /\ container = [s \in Services |-> "absent"]
    /\ round = 1
    /\ refused = [s \in Services |-> 0]
    /\ outcome = "none"

Executing == status = "ok" /\ outcome = "none"
Remaining == Len(created) - undone

\* Start intents are not executed here.
SkipIntent ==
    /\ Executing
    /\ cursor <= Len(Intents)
    /\ Intents[cursor].phase # "create"
    /\ cursor' = cursor + 1
    /\ UNCHANGED <<created, undone, container, outcome, rollbackVars>>

RecordCreate(s) == created' = Append(created, s)

SpawnOk ==
    /\ Executing
    /\ cursor <= Len(Intents)
    /\ Intents[cursor].phase = "create"
    /\ LET s == Intents[cursor].service IN
         /\ RecordCreate(s)
         /\ container' = [container EXCEPT ![s] = "running"]
    /\ cursor' = cursor + 1
    /\ UNCHANGED <<undone, outcome, rollbackVars>>

SpawnFails ==
    /\ Executing
    /\ cursor <= Len(Intents)
    /\ Intents[cursor].phase = "create"
    /\ outcome' = "error"
    /\ UNCHANGED <<cursor, created, undone, container, rollbackVars>>

PlanExecuted ==
    /\ Executing
    /\ cursor > Len(Intents)
    /\ outcome' = "created"
    /\ UNCHANGED <<cursor, created, undone, container, rollbackVars>>

\* Mutant: unwound from the oldest.
FromTheOldest == created[undone + 1]

\* The container rollback stops next.
NextToStop == created[Remaining]

\* rollback ignores what stop answers; a stop that fails changes no container.
RollbackStep ==
    /\ outcome = "error"
    /\ Remaining > 0
    /\ \/ /\ container' = [container EXCEPT ![NextToStop] = "stopped"]
          /\ UNCHANGED refused
       \/ /\ refused' = [refused EXCEPT ![NextToStop] = round]
          /\ UNCHANGED container
    /\ undone' = undone + 1
    /\ UNCHANGED <<cursor, created, round, outcome>>

RollbackDone ==
    /\ outcome = "error"
    /\ Remaining = 0
    /\ outcome' = "rolled_back"
    /\ UNCHANGED <<cursor, created, undone, container, rollbackVars>>

\* rollback(&self) consumes nothing: the caller may call it again.
RollbackAgain ==
    /\ outcome = "rolled_back"
    /\ round < MaxRollbacks
    /\ round' = round + 1
    /\ undone' = 0
    /\ outcome' = "error"
    /\ UNCHANGED <<cursor, created, container, refused>>

ExecStep ==
    SkipIntent \/ SpawnOk \/ SpawnFails \/ PlanExecuted \/ RollbackStep \/ RollbackDone

-----------------------------------------------------------------------------

ExecTypeOK ==
    /\ cursor \in 1 .. 2 * NServices + 1
    /\ created \in Seq(Services)
    /\ undone \in 0 .. Len(created)
    /\ container \in [Services -> {"absent", "running", "stopped"}]
    /\ round \in 1 .. MaxRollbacks
    /\ refused \in [Services -> 0 .. MaxRollbacks]
    /\ outcome \in {"none", "created", "error", "rolled_back"}

\* A container runs without a service it depends on only when a stop of its own has
\* failed: Create intents in the order of service_order, stops in the reverse of it.
DependenciesOutliveDependents ==
    \A s \in Services : \A d \in Services :
        (container[s] = "running" /\ DependsOn(s, d)) =>
            container[d] = "running" \/ refused[s] > 0

\* When a call of rollback has returned, a container still runs only when that very
\* call has asked it to stop, and the stop has failed.
RollbackCoversTheRun ==
    outcome = "rolled_back" =>
        \A s \in Services : container[s] = "running" => refused[s] = round

\* A completed plan has created a container for every service.
CreatedMeansAll ==
    outcome = "created" => \A s \in Services : container[s] = "running"
=============================================================================
