------------------------------ MODULE RunStore ------------------------------
(***************************************************************************)
(* One run of the PhenoCompose CLI and every process that touches it.      *)
(*                                                                         *)
(* Each element of Procs is one invocation of `pheno-compose` (apply, down *)
(* or status) on the SAME run id.  A run id carries the digest of its      *)
(* manifest, so all of them agree on the services, on the service order    *)
(* and on teardown.order.  The invocations share two directory entries of  *)
(* the state directory, <run>.json and <run>.json.tmp, and the containers  *)
(* of Podman; they take no lock.  Every system call that another           *)
(* invocation can observe is a step of its own.                            *)
(*                                                                         *)
(* Outside the repository, and modelled from how it is used: the NanoVMS   *)
(* lifecycle helper (creates the containers of an apply and reports them), *)
(* Podman, and the file system (a path names an inode; a rename moves the  *)
(* name and leaves open descriptors on the inode they opened).             *)
(***************************************************************************)
EXTENDS Integers, Sequences, FiniteSets

CONSTANTS
    Procs,         \* invocations of the CLI; each runs one command
    NServices,     \* the manifest's services, numbered in BTreeMap key order
    Extras,        \* other names under which the helper may report containers
    ServiceOrder,  \* what manifest.service_order() returns
    Teardown,      \* manifest.teardown.order, <<>> when it is not given
    MayFail,       \* the faults the environment may inject, by name
    Overlap,       \* the subcommands that may be in flight together
    None,          \* no inode, no state
    Empty,         \* contents of a truncated file
    Garbled        \* contents of a file with the bytes of two writers

Services == 1 .. NServices

\* The names a containers map may have.
Names == Services \cup Extras

Commands == {"apply", "down", "status"}

\* What can go wrong outside the program, and the step it strikes.
Faults == {"publish", "helper", "clock", "open", "write", "rename",
           "read", "inspect", "no_such", "stop", "crash", "exit", "remove"}

\* CompositionManifest::validate and service_order guarantee the last two.
ASSUME ConstantsAssumption ==
    /\ NServices \in Nat \ {0}
    /\ Extras \subseteq Nat \ Services
    /\ MayFail \subseteq Faults
    /\ Overlap \subseteq Commands
    /\ Teardown \in Seq(Services)
    /\ ServiceOrder \in [1 .. NServices -> Services]

Lifecycle == {"running", "down"}

\* A RunState: its lifecycle, and the apply whose container ids it lists.
\* A state is only built from a validated result, so it lists every service,
\* and whatever else the helper reported.
RunState == [lifecycle : Lifecycle, owner : Procs]

Contents == RunState \cup {Empty, Garbled}

ASSUME DistinctValues ==
    /\ None \notin Procs \cup Contents
    /\ {Empty, Garbled} \cap RunState = {}

ASSUME OrderIsPermutation ==
    \A s \in Services : \E i \in 1 .. NServices : ServiceOrder[i] = s

-----------------------------------------------------------------------------

VARIABLES
    pc,         \* pc[p]: the step invocation p is about to take
    cmd,        \* cmd[p]: its subcommand
    runState,   \* runState[p]: the RunState it holds in memory
    pos,        \* pos[p]: index of the service its loop over services is at
    rollback,   \* rollback[p]: containers its rollback has still to stop
    result,     \* result[p]: how it ended, the error code or "ok"
    container,  \* container[p][s]: what Podman holds for s, created by apply p
    reported,   \* reported[p]: names whose container the helper reported
    unstopped,  \* containers <<p, s>> whose stop failed, or was never tried as
                \* Podman answered "no such", and which the command went past
    stateFile,  \* inode <run>.json names
    tmpFile,    \* inode <run>.json.tmp names
    inode,      \* inode[i]: contents; an inode is named by its creator
    fd          \* fd[p]: inode p has open for writing

procVars == <<pc, cmd, runState, pos, rollback, result>>
podmanVars == <<container, reported, unstopped>>
fileVars == <<stateFile, tmpFile, inode, fd>>
vars == <<procVars, podmanVars, fileVars>>

ContainerStatus == {"none", "created", "running", "exited"}

ApplySteps == {"exists", "publish", "helper", "clock", "rollback"}
SaveSteps == {"open", "write", "rename"}
DownSteps == {"load", "inspect", "stop"}
Ended == {"done", "crashed"}
Steps == {"idle", "query"} \cup ApplySteps \cup SaveSteps \cup DownSteps \cup Ended

Results == {"none", "ok", "run_exists", "publish", "lifecycle", "clock", "save",
            "state_read", "run_not_found", "json", "run_already_down", "runtime"}

\* The steps at which an invocation has loaded or built a RunState.
HoldingSteps == SaveSteps \cup {"inspect", "stop", "query"}

ProcTypes ==
    /\ pc \in [Procs -> Steps]
    /\ cmd \in [Procs -> Commands \cup {"none"}]
    /\ runState \in [Procs -> RunState \cup {None}]
    /\ pos \in [Procs -> Nat \ {0}]
    /\ rollback \in [Procs -> SUBSET Names]
    /\ result \in [Procs -> Results]

PodmanTypes ==
    /\ container \in [Procs -> [Names -> ContainerStatus]]
    /\ reported \in [Procs -> SUBSET Names]
    /\ unstopped \subseteq Procs \X Names

FileTypes ==
    /\ stateFile \in Procs \cup {None}
    /\ tmpFile \in Procs \cup {None}
    /\ inode \in [Procs -> Contents]
    /\ fd \in [Procs -> Procs \cup {None}]

StepTypes ==
    \A p \in Procs :
      /\ pc[p] \in HoldingSteps => runState[p] \in RunState
      /\ pc[p] = "write" => fd[p] \in Procs

\* The type invariant: every variable has its type, a command that saves or
\* walks over a state holds one, and one that writes has a file open.
TypeOK == ProcTypes /\ PodmanTypes /\ FileTypes /\ StepTypes

Init ==
    /\ pc = [p \in Procs |-> "idle"]
    /\ cmd = [p \in Procs |-> "none"]
    /\ runState = [p \in Procs |-> None]
    /\ pos = [p \in Procs |-> 1]
    /\ rollback = [p \in Procs |-> {}]
    /\ result = [p \in Procs |-> "none"]
    /\ container = [p \in Procs |-> [s \in Names |-> "none"]]
    /\ reported = [p \in Procs |-> {}]
    /\ unstopped = {}
    /\ stateFile = None
    /\ tmpFile = None
    /\ inode = [p \in Procs |-> Empty]
    /\ fd = [p \in Procs |-> None]

-----------------------------------------------------------------------------
(* Control: where an invocation is, and how it ends. *)

Goto(p, step) == pc' = [pc EXCEPT ![p] = step]

Finish(p, code) ==
    /\ Goto(p, "done")
    /\ result' = [result EXCEPT ![p] = code]

\* The order `down` walks: teardown.order, or the service order reversed.
DownOrder ==
    IF Teardown # <<>> THEN Teardown
    ELSE [i \in 1 .. NServices |-> ServiceOrder[NServices + 1 - i]]

InFlight(p) == pc[p] \notin {"idle"} \cup Ended

\* An operator starts a command.  Nothing in the program keeps two of them
\* apart: Overlap = Commands is the program, a smaller set is a discipline of
\* the operator under which more can be promised.
Start(p, c) ==
    /\ pc[p] = "idle"
    /\ \A q \in Procs : InFlight(q) => {c, cmd[q]} \subseteq Overlap
    /\ cmd' = [cmd EXCEPT ![p] = c]
    /\ Goto(p, IF c = "apply" THEN "exists" ELSE "load")
    /\ UNCHANGED <<runState, pos, rollback, result, podmanVars, fileVars>>

-----------------------------------------------------------------------------
(* apply_with_lifecycle_client *)

\* state_path.exists(): a run with a state file is not applied again.
ApplyAgain(p) ==  \* wrong: applies over an existing state
    /\ pc[p] = "exists"
    /\ Goto(p, "publish")
    /\ UNCHANGED <<cmd, runState, pos, rollback, result, podmanVars, fileVars>>

CheckExists(p) ==
    /\ pc[p] = "exists"
    /\ IF stateFile # None THEN Finish(p, "run_exists")
       ELSE Goto(p, "publish") /\ UNCHANGED result
    /\ UNCHANGED <<cmd, runState, pos, rollback, podmanVars, fileVars>>

\* Probe Podman, compose and publish the image of every service.
PublishImages(p) ==
    /\ pc[p] = "publish"
    /\ \/ Goto(p, "helper") /\ UNCHANGED result
       \/ "publish" \in MayFail /\ Finish(p, "publish")
    /\ UNCHANGED <<cmd, runState, pos, rollback, podmanVars, fileVars>>

\* The containers one run of the helper may leave behind for apply p.
CreatedBy(p, status) ==
    container' = [container EXCEPT ![p] = status]

NewStatus == [Names -> {"none", "created", "running"}]

\* The helper succeeds and the result validates: the reported map has a
\* container for every service of the order.  It may have others, and the
\* helper may leave some behind that it does not report.
LifecycleOk(p) ==
    /\ pc[p] = "helper"
    /\ \E status \in NewStatus, extra \in SUBSET Extras :
         /\ \A s \in Services \cup extra : status[s] # "none"
         /\ CreatedBy(p, status)
         /\ reported' = [reported EXCEPT ![p] = Services \cup extra]
    /\ Goto(p, "clock")
    /\ UNCHANGED <<cmd, runState, pos, rollback, result, unstopped, fileVars>>

\* The helper fails, or its result does not validate.  What the result
\* lists is rolled back; containers it does not list are unknown to the CLI
\* (a malformed response reports none).
LifecycleFails(p) ==
    /\ pc[p] = "helper"
    /\ "helper" \in MayFail
    /\ \E status \in NewStatus, known \in SUBSET Names :
         /\ \A s \in known : status[s] # "none"
         /\ CreatedBy(p, status)
         /\ reported' = [reported EXCEPT ![p] = known]
         /\ rollback' = [rollback EXCEPT ![p] = known]
    /\ result' = [result EXCEPT ![p] = "lifecycle"]
    /\ Goto(p, "rollback")
    /\ UNCHANGED <<cmd, runState, pos, unstopped, fileVars>>

\* unix_seconds()? returns from apply without a rollback.
StampState(p) ==
    /\ pc[p] = "clock"
    /\ \/ /\ Goto(p, "open")
          /\ runState' = [runState EXCEPT ![p] =
                            [lifecycle |-> "running", owner |-> p]]
          /\ UNCHANGED result
       \/ /\ "clock" \in MayFail
          /\ Finish(p, "clock")
          /\ UNCHANGED runState
    /\ UNCHANGED <<cmd, pos, rollback, podmanVars, fileVars>>

\* rollback_containers_from_map: `podman stop` in reverse key order; the
\* outcome of each stop is discarded.
RollbackNext(p) ==
    /\ pc[p] = "rollback"
    /\ \E s \in rollback[p] :
         /\ \A t \in rollback[p] : t <= s
         /\ rollback' = [rollback EXCEPT ![p] = @ \ {s}]
         /\ \/ /\ container[p][s] # "none"
               /\ container' = [container EXCEPT ![p][s] = "exited"]
               /\ UNCHANGED unstopped
            \/ /\ "stop" \in MayFail \/ container[p][s] = "none"
               /\ unstopped' = unstopped \cup {<<p, s>>}
               /\ UNCHANGED container
    /\ UNCHANGED <<pc, cmd, runState, pos, result, reported, fileVars>>

RollbackEnds(p) ==
    /\ pc[p] = "rollback"
    /\ rollback[p] = {}
    /\ Goto(p, "done")
    /\ UNCHANGED <<cmd, runState, pos, rollback, result, podmanVars, fileVars>>

-----------------------------------------------------------------------------
(* save_state, shared by apply and down *)

IgnoreSaveFailure(p) ==  \* wrong: renames after a failed write
    Goto(p, "rename") /\ UNCHANGED <<rollback, result>>

RetrySave(p) ==  \* wrong: retries without a bound
    Goto(p, "open") /\ UNCHANGED <<rollback, result>>

NoRollback(p) ==  \* wrong: leaves the containers of a failed apply running
    Finish(p, "save") /\ UNCHANGED rollback

\* A failed save: apply rolls its containers back, down returns the error.
SaveFails(p) ==
    /\ result' = [result EXCEPT ![p] = "save"]
    /\ IF cmd[p] = "apply"
       THEN Goto(p, "rollback") /\ rollback' = [rollback EXCEPT ![p] = reported[p]]
       ELSE Goto(p, "done") /\ UNCHANGED rollback

\* fs::write opens the temporary file, creating or truncating it.
OpenTmp(p) ==
    /\ pc[p] = "open"
    /\ \/ LET i == IF tmpFile = None THEN p ELSE tmpFile IN
          /\ tmpFile' = i
          /\ inode' = [inode EXCEPT ![i] = Empty]
          /\ fd' = [fd EXCEPT ![p] = i]
          /\ Goto(p, "write")
          /\ UNCHANGED <<rollback, result>>
       \/ /\ "open" \in MayFail
          /\ SaveFails(p)
          /\ UNCHANGED <<tmpFile, inode, fd>>
    /\ UNCHANGED <<cmd, runState, pos, podmanVars, stateFile>>

\* Writing new at offset 0 of a file that holds old: the rest of a longer
\* file stays.  "down" is shorter than "running", all else is equally long.
Overwritten(old, new) ==
    IF /\ old # Empty
       /\ new.lifecycle = "down"
       /\ old # Garbled => old.lifecycle = "running"
    THEN Garbled ELSE new

\* ... writes it, and closes it; a write may fail and leave it truncated.
WriteTmp(p) ==
    /\ pc[p] = "write"
    /\ \/ /\ inode' = [inode EXCEPT ![fd[p]] = Overwritten(@, runState[p])]
          /\ Goto(p, "rename")
          /\ UNCHANGED <<rollback, result>>
       \/ /\ "write" \in MayFail
          /\ SaveFails(p)
          /\ UNCHANGED inode
    /\ fd' = [fd EXCEPT ![p] = None]
    /\ UNCHANGED <<cmd, runState, pos, podmanVars, stateFile, tmpFile>>

RollbackAfterCommit(p) ==  \* wrong: an error after the commit rolls back
    /\ pc[p] = "rename"
    /\ tmpFile # None
    /\ stateFile' = tmpFile
    /\ tmpFile' = None
    /\ SaveFails(p)
    /\ UNCHANGED <<cmd, runState, pos, podmanVars, inode, fd>>

\* fs::rename(temporary, path): whatever the temporary file is by now.
RenameTmp(p) ==
    /\ pc[p] = "rename"
    /\ \/ /\ tmpFile # None
          /\ stateFile' = tmpFile
          /\ tmpFile' = None
          /\ Finish(p, "ok")
          /\ UNCHANGED rollback
       \/ /\ tmpFile = None \/ "rename" \in MayFail
          /\ SaveFails(p)
          /\ UNCHANGED <<stateFile, tmpFile>>
    /\ UNCHANGED <<cmd, runState, pos, podmanVars, inode, fd>>

-----------------------------------------------------------------------------
(* down and status *)

StateContents == IF stateFile = None THEN None ELSE inode[stateFile]

\* load_state, then down's check that the run is not down already.
LoadState(p) ==
    /\ pc[p] = "load"
    /\ \/ /\ StateContents = None
          /\ Finish(p, "run_not_found") /\ UNCHANGED runState
       \/ /\ "read" \in MayFail
          /\ Finish(p, "state_read") /\ UNCHANGED runState
       \/ /\ StateContents \in {Empty, Garbled}
          /\ Finish(p, "json") /\ UNCHANGED runState
       \/ /\ StateContents \notin {None, Empty, Garbled}
          /\ runState' = [runState EXCEPT ![p] = StateContents]
          /\ IF cmd[p] = "down" /\ StateContents.lifecycle = "down"
             THEN Finish(p, "run_already_down")
             ELSE /\ Goto(p, IF cmd[p] = "down" THEN "inspect" ELSE "query")
                  /\ UNCHANGED result
    /\ UNCHANGED <<cmd, pos, rollback, podmanVars, fileVars>>

\* A container the state of p lists for service s, as Podman has it.
Listed(p, s) == container[runState[p].owner][s]

\* down asks for the status of the next service of its order and skips a
\* container that Podman does not know or that is not running.  Any failure
\* of Podman whose message says "no such" (its socket: "no such file") reads
\* as a container it does not know.
InspectService(p) ==
    /\ pc[p] = "inspect"
    /\ pos[p] <= Len(DownOrder)
    /\ \/ /\ IF Listed(p, DownOrder[pos[p]]) = "running"
             THEN Goto(p, "stop") /\ UNCHANGED pos
             ELSE pos' = [pos EXCEPT ![p] = @ + 1] /\ UNCHANGED pc
          /\ UNCHANGED <<result, unstopped>>
       \/ /\ "no_such" \in MayFail
          /\ pos' = [pos EXCEPT ![p] = @ + 1]
          /\ unstopped' = unstopped \cup {<<runState[p].owner, DownOrder[pos[p]]>>}
          /\ UNCHANGED <<pc, result>>
       \/ /\ "inspect" \in MayFail
          /\ Finish(p, "runtime")
          /\ UNCHANGED <<pos, unstopped>>
    /\ UNCHANGED <<cmd, runState, rollback, container, reported, fileVars>>

\* ... and stops the others.  A stop that fails ends the command; so does
\* one whose container was removed since it was inspected.
StopService(p) ==
    /\ pc[p] = "stop"
    /\ LET s == DownOrder[pos[p]] IN
       \/ /\ Listed(p, s) # "none"
          /\ container' = [container EXCEPT ![runState[p].owner][s] = "exited"]
          /\ pos' = [pos EXCEPT ![p] = @ + 1]
          /\ Goto(p, "inspect")
          /\ UNCHANGED result
       \/ /\ "stop" \in MayFail \/ Listed(p, s) = "none"
          /\ Finish(p, "runtime")
          /\ UNCHANGED <<container, pos>>
    /\ UNCHANGED <<cmd, runState, rollback, reported, unstopped, fileVars>>

MarkDownEarly(p) ==  \* wrong: misses the last service of the order
    /\ pc[p] = "inspect"
    /\ pos[p] >= Len(DownOrder)
    /\ runState' = [runState EXCEPT ![p].lifecycle = "down"]
    /\ Goto(p, "open")
    /\ UNCHANGED <<cmd, pos, rollback, result, podmanVars, fileVars>>

\* After the last service the state is marked down and saved.
MarkDown(p) ==
    /\ pc[p] = "inspect"
    /\ pos[p] > Len(DownOrder)
    /\ runState' = [runState EXCEPT ![p].lifecycle = "down"]
    /\ Goto(p, "open")
    /\ UNCHANGED <<cmd, pos, rollback, result, podmanVars, fileVars>>

\* status has asked about every container the state of p lists.
AllQueried(p) == pos[p] > Cardinality(reported[runState[p].owner])

\* status asks Podman for every container of the state; it changes nothing.
QueryService(p) ==
    /\ pc[p] = "query"
    /\ \/ /\ ~AllQueried(p)
          /\ pos' = [pos EXCEPT ![p] = @ + 1]
          /\ UNCHANGED <<pc, result>>
       \/ /\ AllQueried(p)
          /\ Finish(p, "ok")
          /\ UNCHANGED pos
       \/ /\ ~AllQueried(p) /\ "inspect" \in MayFail
          /\ Finish(p, "runtime")
          /\ UNCHANGED pos
    /\ UNCHANGED <<cmd, runState, rollback, podmanVars, fileVars>>

-----------------------------------------------------------------------------
(* The environment *)

\* The process is killed between two system calls.  The helper is a process
\* of its own: killed while it waits, the CLI never hears what it created.
Crash(p) ==
    /\ "crash" \in MayFail
    /\ InFlight(p)
    /\ Goto(p, "crashed")
    /\ fd' = [fd EXCEPT ![p] = None]
    /\ IF pc[p] = "helper"
       THEN \E status \in NewStatus : CreatedBy(p, status)
       ELSE UNCHANGED container
    /\ UNCHANGED <<cmd, runState, pos, rollback, result, reported, unstopped,
                   stateFile, tmpFile, inode>>

\* A container's process ends by itself.
ContainerExits(p, s) ==
    /\ "exit" \in MayFail
    /\ container[p][s] = "running"
    /\ container' = [container EXCEPT ![p][s] = "exited"]
    /\ UNCHANGED <<procVars, reported, unstopped, fileVars>>

\* Somebody removes a stopped container: Podman answers "no such container".
ContainerRemoved(p, s) ==
    /\ "remove" \in MayFail
    /\ container[p][s] = "exited"
    /\ container' = [container EXCEPT ![p][s] = "none"]
    /\ UNCHANGED <<procVars, reported, unstopped, fileVars>>

ApplyStep(p) ==
    \/ CheckExists(p) \/ PublishImages(p)
    \/ LifecycleOk(p) \/ LifecycleFails(p) \/ StampState(p)
    \/ RollbackNext(p) \/ RollbackEnds(p)

SaveStep(p) == OpenTmp(p) \/ WriteTmp(p) \/ RenameTmp(p)

DownStep(p) ==
    LoadState(p) \/ InspectService(p) \/ StopService(p) \/ MarkDown(p)

ProcessStep(p) == ApplyStep(p) \/ SaveStep(p) \/ DownStep(p) \/ QueryService(p)

Environment(p) ==
    \/ \E c \in Commands : Start(p, c)
    \/ Crash(p)
    \/ \E s \in Names : ContainerExits(p, s) \/ ContainerRemoved(p, s)

Next == \E p \in Procs : ProcessStep(p) \/ Environment(p)

Spec == Init /\ [][Next]_vars

\* The next step of p is the answer of another program: of Podman, or of the
\* lifecycle helper.  The CLI waits for each without a deadline.
AwaitsAnswer(p) ==
    \/ pc[p] \in {"publish", "helper", "stop"}
    \/ pc[p] = "rollback" /\ rollback[p] # {}
    \/ pc[p] = "inspect" /\ pos[p] <= Len(DownOrder)
    \/ pc[p] = "query" /\ ~AllQueried(p)

\* The operating system keeps running a process that was not killed and
\* answers its system calls.  Nothing makes another program answer, an
\* operator start a command, or a fault happen.
FairSpec ==
    Spec /\ \A p \in Procs : WF_vars(ProcessStep(p) /\ ~AwaitsAnswer(p))

-----------------------------------------------------------------------------
(* What the store promises *)

Readable == StateContents \in RunState

\* Once the state file or a command holds a state marked down, none of the
\* containers that `down` walks is running, and none is ever again: `down`
\* stops them all before it saves the state, whatever runs beside it.  The
\* only exception is a container `down` went past as Podman's failure read
\* "no such".
DownMeansStopped ==
    \A p \in Procs :
      \A state \in {StateContents, runState[p]} \cap [lifecycle : {"down"}, owner : Procs] :
        \A i \in DOMAIN DownOrder :
          container[state.owner][DownOrder[i]] = "running" =>
            <<state.owner, DownOrder[i]>> \in unstopped

\* An apply that fails after the helper returned, in the helper's result or
\* in saving the state, leaves no container it was told of running, unless
\* the stop of that container failed (the rollback ignores that).
RollbackIsComplete ==
    \A p \in Procs :
      /\ cmd[p] = "apply"
      /\ pc[p] = "done"
      /\ result[p] \in {"lifecycle", "save"}
      => \A s \in reported[p] :
           container[p][s] = "running" => <<p, s>> \in unstopped

\* A container that still runs after the apply that created it ended.
Leftover(p, s) == pc[p] \in Ended /\ container[p][s] = "running"

\* A running container that no state file lets `down` find has one of six
\* causes: its apply was killed; its apply failed to read the clock (the one
\* error return without a rollback); its stop failed, or was not tried on a
\* "no such"; the helper never reported it; `down` does not walk it, as the
\* teardown order or the manifest does not name it; or the helper told a
\* second apply of containers too, which only an apply that got past the
\* check for the state file beside this one can be.  Overlapping downs are no
\* cause.
EveryOrphanIsExplained ==
    \A p \in Procs, s \in Names :
      Leftover(p, s) =>
        \/ Readable /\ StateContents = [lifecycle |-> "running", owner |-> p]
        \/ pc[p] = "crashed"
        \/ result[p] = "clock"
        \/ <<p, s>> \in unstopped
        \/ s \notin reported[p]
        \/ s \notin {DownOrder[i] : i \in DOMAIN DownOrder}
        \/ \E q \in Procs \ {p} : reported[q] # {}

\* Writing a temporary file and renaming it never shows a reader of
\* <run>.json a truncated or mixed state, wherever a writer is killed.
StateFileReadable == stateFile # None => Readable

\* An apply that reports success has its container ids in the state file.
SuccessIsPersisted ==
    \A p \in Procs :
      cmd[p] = "apply" /\ result[p] = "ok" => Readable /\ StateContents.owner = p

\* The same of a store at rest: no command is in flight any more.
SuccessIsPersistedAtRest ==
    (\A p \in Procs : ~InFlight(p)) => SuccessIsPersisted

\* A run whose state says "running" was not rolled back by its apply: the
\* commit of the state and the rollback exclude each other.
CommittedIsNotRolledBack ==
    Readable /\ StateContents.lifecycle = "running" =>
      /\ rollback[StateContents.owner] = {}
      /\ result[StateContents.owner] \notin {"lifecycle", "save"}

\* The containers a state file lists are those of one apply for ever, and a
\* run that is down stays down.
StateIsFinal ==
    [][Readable =>
         /\ Readable'
         /\ StateContents'.owner = StateContents.owner
         /\ StateContents.lifecycle = "down" => StateContents'.lifecycle = "down"]_vars

\* `down` stops every container of the run it marks down.
DownStopsEveryContainer ==
    Readable /\ StateContents.lifecycle = "down" =>
      \A s \in Services : container[StateContents.owner][s] # "running"

\* A command that was started ends, one way or the other, or waits for ever
\* for one answer of the lifecycle helper or of Podman: nothing in the program
\* itself, whatever fails and whatever it overlaps with, keeps it going.
EveryCommandEnds ==
    \A p \in Procs :
      pc[p] \in {"exists", "load"} ~> pc[p] \in Ended \/ []AwaitsAnswer(p)

\* Another command is writing or renaming the temporary file p saves with.
SharesTmp(p) ==
    pc[p] \in SaveSteps /\ \E q \in Procs \ {p} : pc[q] \in SaveSteps

\* A `down` that finds a readable state leads to stopped containers and a
\* state file that says so, unless it reports an error, is killed, waits for
\* ever for Podman, or saves while another command does: then the temporary
\* file they share may be another's, half written, when it is renamed.
DownTakesEffect ==
    \A p \in Procs :
      cmd[p] = "down" /\ pc[p] = "load" /\ Readable ~>
        \/ result[p] \notin {"none", "ok"}
        \/ pc[p] = "crashed"
        \/ []AwaitsAnswer(p)
        \/ SharesTmp(p)
        \/ /\ Readable
           /\ StateContents.lifecycle = "down"
           /\ \A s \in Services : container[StateContents.owner][s] # "running"

=============================================================================
