--------------------------- MODULE RunStoreProofs ---------------------------
(***************************************************************************)
(* Proofs about RunStore, for every set of invocations, number of          *)
(* services, service order, teardown order and set of faults.  Whatever    *)
(* overlaps: the type invariant; a state marked down lists no running      *)
(* container among those that `down` walks; a failed apply rolls back all  *)
(* it was told of; and a container left running has one of six causes.     *)
(* When an operator lets only `status` overlap: what is on disk is always  *)
(* one whole state, of the one apply that succeeded, and never goes back.  *)
(***************************************************************************)
EXTENDS RunStore, TLAPS

\* The order `down` walks is a sequence of services.
LEMMA DownOrderType == DownOrder \in Seq(Services)
<1>1. CASE Teardown # <<>>
  BY <1>1, ConstantsAssumption DEF DownOrder
<1>2. CASE Teardown = <<>>
  <2>1. \A i \in 1 .. NServices : NServices + 1 - i \in 1 .. NServices
    BY ConstantsAssumption
  <2>2. DownOrder \in [1 .. NServices -> Services]
    BY <1>2, <2>1, ConstantsAssumption DEF DownOrder
  <2>3. QED
    BY <2>2, ConstantsAssumption
<1>3. QED
  BY <1>1, <1>2

\* Every position of that order names a container a state may list.
LEMMA DownOrderNames == \A i \in DOMAIN DownOrder : DownOrder[i] \in Names
  BY DownOrderType DEF Names

\* What the constants are: neither a marker nor a directory entry is a state.
LEMMA Distinct ==
    /\ None \notin RunState
    /\ Empty \notin RunState
    /\ Garbled \notin RunState
    /\ None \notin Procs
  BY DistinctValues DEF Contents

-----------------------------------------------------------------------------

LEMMA InitTypeOK == Init => TypeOK
  BY Distinct DEF Init, TypeOK, ProcTypes, PodmanTypes, FileTypes, StepTypes, Steps,
       Results, Contents, ContainerStatus, HoldingSteps, SaveSteps, ApplySteps,
       DownSteps, Ended, Commands

USE DEF TypeOK, Steps, HoldingSteps, SaveSteps, ApplySteps, DownSteps, Ended,
        procVars, podmanVars, fileVars, Goto, Finish

\* Every step keeps what the invocations hold in its type.
LEMMA ProcTypesStep == TypeOK /\ [Next]_vars => ProcTypes'
<1> SUFFICES ASSUME TypeOK, [Next]_vars PROVE ProcTypes'
  OBVIOUS
<1> USE Distinct DEF ProcTypes, Results
<1>1. ASSUME NEW p \in Procs, NEW c \in Commands, Start(p, c) PROVE ProcTypes'
  BY <1>1 DEF Start
<1>2. ASSUME NEW p \in Procs, ApplyStep(p) PROVE ProcTypes'
  <2>1. CASE CheckExists(p)
    BY <2>1 DEF CheckExists
  <2>2. CASE PublishImages(p)
    BY <2>2 DEF PublishImages
  <2>3. CASE LifecycleOk(p)
    BY <2>3 DEF LifecycleOk
  <2>4. CASE LifecycleFails(p)
    BY <2>4 DEF LifecycleFails
  <2>5. CASE StampState(p)
    BY <2>5 DEF StampState, RunState, Lifecycle
  <2>6. CASE RollbackNext(p)
    BY <2>6 DEF RollbackNext
  <2>7. CASE RollbackEnds(p)
    BY <2>7 DEF RollbackEnds
  <2>8. QED
    BY <1>2, <2>1, <2>2, <2>3, <2>4, <2>5, <2>6, <2>7 DEF ApplyStep
<1>3. ASSUME NEW p \in Procs, SaveStep(p) PROVE ProcTypes'
  BY <1>3 DEF SaveStep, OpenTmp, WriteTmp, RenameTmp, SaveFails, PodmanTypes
<1>4. ASSUME NEW p \in Procs, DownStep(p) PROVE ProcTypes'
  <2>1. CASE LoadState(p)
    <3>1. StateContents \in Contents \cup {None}
      BY DEF StateContents, FileTypes
    <3>2. QED
      BY <2>1, <3>1 DEF LoadState, Contents
  <2>2. CASE InspectService(p)
    <3>1. /\ pc' \in [Procs -> Steps]
          /\ result' \in [Procs -> Results]
      BY <2>2 DEF InspectService
    <3>2. pos' \in [Procs -> Nat \ {0}]
      BY <2>2 DEF InspectService
    <3>3. QED
      BY <2>2, <3>1, <3>2 DEF InspectService
  <2>3. CASE StopService(p)
    BY <2>3 DEF StopService
  <2>4. CASE MarkDown(p)
    <3>1. [runState[p] EXCEPT !.lifecycle = "down"] \in RunState
      BY <2>4 DEF MarkDown, StepTypes, RunState, Lifecycle
    <3>2. QED
      BY <2>4, <3>1 DEF MarkDown
  <2>5. QED
    BY <1>4, <2>1, <2>2, <2>3, <2>4 DEF DownStep
<1>5. ASSUME NEW p \in Procs, QueryService(p) PROVE ProcTypes'
  BY <1>5 DEF QueryService
<1>6. ASSUME NEW p \in Procs, Crash(p) PROVE ProcTypes'
  BY <1>6 DEF Crash
<1>7. CASE UNCHANGED procVars
  BY <1>7
<1>8. QED
  BY <1>1, <1>2, <1>3, <1>4, <1>5, <1>6, <1>7
     DEF Next, ProcessStep, Environment, ContainerExits, ContainerRemoved, vars

\* One container whose status changes keeps the others.
LEMMA ContainerType ==
  ASSUME PodmanTypes, NEW p \in Procs, NEW s, NEW st \in ContainerStatus,
         container' = [container EXCEPT ![p][s] = st],
         UNCHANGED <<reported, unstopped>>
  PROVE  PodmanTypes'
  BY DEF PodmanTypes

\* Every step keeps what Podman holds in its type.
LEMMA PodmanTypesStep == TypeOK /\ [Next]_vars => PodmanTypes'
<1> SUFFICES ASSUME TypeOK, [Next]_vars PROVE PodmanTypes'
  OBVIOUS
<1>0. "exited" \in ContainerStatus /\ "none" \in ContainerStatus
  BY DEF ContainerStatus
<1>1. CASE UNCHANGED podmanVars
  BY <1>1 DEF PodmanTypes
<1>2. ASSUME NEW p \in Procs, LifecycleOk(p) \/ LifecycleFails(p) \/ Crash(p)
      PROVE PodmanTypes'
  <2>1. NewStatus \subseteq [Names -> ContainerStatus]
    BY DEF NewStatus, ContainerStatus
  <2>2. container' \in [Procs -> [Names -> ContainerStatus]]
    BY <1>2, <2>1 DEF LifecycleOk, LifecycleFails, Crash, CreatedBy, PodmanTypes
  <2>3. reported' \in [Procs -> SUBSET Names] /\ unstopped' = unstopped
    <3>1. \A extra \in SUBSET Extras : Services \cup extra \in SUBSET Names
      BY DEF Names
    <3>. QED
      BY <1>2, <3>1 DEF LifecycleOk, LifecycleFails, Crash, PodmanTypes
  <2>. QED
    BY <2>2, <2>3 DEF PodmanTypes
<1>3. ASSUME NEW p \in Procs, RollbackNext(p) PROVE PodmanTypes'
  <2>1. PICK s \in rollback[p] :
          \/ /\ container' = [container EXCEPT ![p][s] = "exited"]
             /\ UNCHANGED <<reported, unstopped>>
          \/ /\ unstopped' = unstopped \cup {<<p, s>>}
             /\ UNCHANGED <<container, reported>>
    BY <1>3 DEF RollbackNext
  <2>2. s \in Names
    BY DEF ProcTypes
  <2>3. CASE container' = [container EXCEPT ![p][s] = "exited"]
             /\ UNCHANGED <<reported, unstopped>>
    BY <1>0, <2>3, ContainerType
  <2>4. CASE unstopped' = unstopped \cup {<<p, s>>} /\ UNCHANGED <<container, reported>>
    BY <2>2, <2>4 DEF PodmanTypes
  <2>5. QED
    BY <2>1, <2>3, <2>4
<1>4. ASSUME NEW p \in Procs, StopService(p) PROVE PodmanTypes'
  <2>1. runState[p].owner \in Procs
    BY <1>4 DEF StopService, StepTypes, RunState
  <2>2. \/ UNCHANGED podmanVars
        \/ /\ container' = [container EXCEPT
                             ![runState[p].owner][DownOrder[pos[p]]] = "exited"]
           /\ UNCHANGED <<reported, unstopped>>
    BY <1>4 DEF StopService
  <2>3. QED
    BY <1>0, <1>1, <2>1, <2>2, ContainerType
<1>5. ASSUME NEW p \in Procs, NEW s \in Names,
             ContainerExits(p, s) \/ ContainerRemoved(p, s)
      PROVE PodmanTypes'
  BY <1>0, <1>5, ContainerType DEF ContainerExits, ContainerRemoved
<1>6. ASSUME NEW p \in Procs, InspectService(p) PROVE PodmanTypes'
  <2>1. runState[p].owner \in Procs /\ pos[p] \in DOMAIN DownOrder
    <3>1. pos[p] \in Nat \ {0} /\ pos[p] <= Len(DownOrder)
      BY <1>6 DEF InspectService, ProcTypes
    <3>2. runState[p] \in RunState
      BY <1>6 DEF InspectService, StepTypes
    <3>. QED
      BY <3>1, <3>2, DownOrderType DEF RunState
  <2>2. DownOrder[pos[p]] \in Names
    BY <2>1, DownOrderNames
  <2>3. /\ UNCHANGED <<container, reported>>
        /\ \/ unstopped' = unstopped
           \/ unstopped' = unstopped \cup {<<runState[p].owner, DownOrder[pos[p]]>>}
    BY <1>6 DEF InspectService
  <2>. QED
    BY <2>1, <2>2, <2>3 DEF PodmanTypes
<1>7. ASSUME NEW p \in Procs, ApplyStep(p) \/ SaveStep(p) \/ DownStep(p) PROVE PodmanTypes'
  BY <1>1, <1>2, <1>3, <1>4, <1>6, <1>7
     DEF ApplyStep, SaveStep, DownStep, CheckExists, PublishImages, StampState,
         RollbackEnds, OpenTmp, WriteTmp, RenameTmp, LoadState, MarkDown
<1>8. QED
  BY <1>1, <1>2, <1>5, <1>7
     DEF Next, ProcessStep, Environment, Start, QueryService, vars

\* Every step keeps the directory entries and the inodes in their types.
LEMMA FileTypesStep == TypeOK /\ [Next]_vars => FileTypes'
<1> SUFFICES ASSUME TypeOK, [Next]_vars PROVE FileTypes'
  OBVIOUS
<1>1. CASE UNCHANGED fileVars
  BY <1>1 DEF FileTypes
<1>2. ASSUME NEW p \in Procs, SaveStep(p) PROVE FileTypes'
  <2>1. CASE OpenTmp(p)
    BY <2>1, Distinct DEF OpenTmp, FileTypes, Contents
  <2>2. CASE WriteTmp(p)
    <3>1. /\ runState[p] \in RunState
          /\ fd[p] \in Procs
      BY <2>2 DEF WriteTmp, StepTypes
    <3>2. \A old : Overwritten(old, runState[p]) \in Contents
      BY <3>1 DEF Overwritten, Contents
    <3>3. QED
      BY <2>2, <3>1, <3>2 DEF WriteTmp, FileTypes
  <2>3. CASE RenameTmp(p)
    BY <2>3 DEF RenameTmp, FileTypes
  <2>4. QED
    BY <1>2, <2>1, <2>2, <2>3 DEF SaveStep
<1>3. ASSUME NEW p \in Procs, Crash(p) PROVE FileTypes'
  BY <1>3 DEF Crash, FileTypes
<1>4. QED
  BY <1>1, <1>2, <1>3
     DEF Next, ProcessStep, Environment, ApplyStep, DownStep, CheckExists,
         PublishImages, LifecycleOk, LifecycleFails, StampState, RollbackNext,
         RollbackEnds, LoadState, InspectService, StopService, MarkDown, QueryService,
         Start, ContainerExits, ContainerRemoved, vars

\* Every step keeps the states and descriptors its next step relies on.
LEMMA StepTypesStep == TypeOK /\ [Next]_vars => StepTypes'
<1> SUFFICES ASSUME TypeOK, [Next]_vars PROVE StepTypes'
  OBVIOUS
<1> USE Distinct DEF ProcTypes, FileTypes, StepTypes, Contents
<1>1. ASSUME NEW p \in Procs, NEW c \in Commands, Start(p, c) PROVE StepTypes'
  BY <1>1 DEF Start
<1>2. ASSUME NEW p \in Procs, ApplyStep(p) PROVE StepTypes'
  <2>1. CASE CheckExists(p)
    BY <2>1 DEF CheckExists
  <2>2. CASE PublishImages(p)
    BY <2>2 DEF PublishImages
  <2>3. CASE LifecycleOk(p)
    BY <2>3 DEF LifecycleOk, CreatedBy
  <2>4. CASE LifecycleFails(p)
    BY <2>4 DEF LifecycleFails, CreatedBy, NewStatus
  <2>5. CASE StampState(p)
    BY <2>5 DEF StampState, RunState, Lifecycle
  <2>6. CASE RollbackNext(p)
    BY <2>6 DEF RollbackNext
  <2>7. CASE RollbackEnds(p)
    BY <2>7 DEF RollbackEnds
  <2>8. QED
    BY <1>2, <2>1, <2>2, <2>3, <2>4, <2>5, <2>6, <2>7 DEF ApplyStep
<1>3. ASSUME NEW p \in Procs, SaveStep(p) PROVE StepTypes'
  <2>1. CASE OpenTmp(p)
    BY <2>1 DEF OpenTmp, SaveFails
  <2>2. CASE WriteTmp(p)
    <3>1. /\ runState[p] \in RunState
          /\ fd[p] \in Procs
      BY <2>2 DEF WriteTmp, StepTypes
    <3>2. \A old : Overwritten(old, runState[p]) \in Contents
      BY <3>1 DEF Overwritten
    <3>3. QED
      BY <2>2, <3>1, <3>2 DEF WriteTmp, SaveFails
  <2>3. CASE RenameTmp(p)
    BY <2>3 DEF RenameTmp, SaveFails
  <2>4. QED
    BY <1>3, <2>1, <2>2, <2>3 DEF SaveStep
<1>4. ASSUME NEW p \in Procs, DownStep(p) PROVE StepTypes'
  <2>1. CASE LoadState(p)
    <3>1. StateContents \in Contents \cup {None}
      BY DEF StateContents
    <3>2. QED
      BY <2>1, <3>1 DEF LoadState
  <2>2. CASE InspectService(p)
    BY <2>2 DEF InspectService
  <2>3. CASE StopService(p)
    BY <2>3 DEF StopService
  <2>4. CASE MarkDown(p)
    <3>1. [runState[p] EXCEPT !.lifecycle = "down"] \in RunState
      BY <2>4 DEF MarkDown, StepTypes, RunState, Lifecycle
    <3>2. QED
      BY <2>4, <3>1 DEF MarkDown
  <2>5. QED
    BY <1>4, <2>1, <2>2, <2>3, <2>4 DEF DownStep
<1>5. ASSUME NEW p \in Procs, QueryService(p) PROVE StepTypes'
  BY <1>5 DEF QueryService
<1>6. ASSUME NEW p \in Procs, Crash(p) PROVE StepTypes'
  BY <1>6 DEF Crash, CreatedBy, NewStatus
<1>7. ASSUME NEW p \in Procs, NEW s \in Names,
             ContainerExits(p, s) \/ ContainerRemoved(p, s)
      PROVE StepTypes'
  BY <1>7 DEF ContainerExits, ContainerRemoved
<1>8. CASE UNCHANGED vars
  BY <1>8 DEF vars
<1>9. QED
  BY <1>1, <1>2, <1>3, <1>4, <1>5, <1>6, <1>7, <1>8
     DEF Next, ProcessStep, Environment

\* Every variable of the run store keeps its type, and a command that saves
\* or walks over a state holds one.
THEOREM TypeCorrect == Spec => []TypeOK
  BY InitTypeOK, ProcTypesStep, PodmanTypesStep, FileTypesStep,
     StepTypesStep, PTL DEF Spec, TypeOK

-----------------------------------------------------------------------------

\* The helper of apply o has returned (or its CLI died): none of the
\* containers of o is started any more.
HasRun(pcs, o) == pcs[o] \notin {"idle", "exists", "publish", "helper"}

\* Every state, in memory or on disk, lists containers of an apply whose
\* helper has returned.
OwnersHaveRun ==
    \A p \in Procs :
      /\ runState[p] \in RunState => HasRun(pc, runState[p].owner)
      /\ inode[p] \in RunState => HasRun(pc, inode[p].owner)

\* A container of apply o that `down` has in position i of its order does not
\* run, or it is among those left unstopped.
Stopped(containers, left, o, i) ==
    containers[o][DownOrder[i]] = "running" => <<o, DownOrder[i]>> \in left

\* Every state marked down lists stopped containers, in memory and in every
\* inode, also one that no name leads to yet.
DownIsStopped ==
    \A p \in Procs : \A i \in DOMAIN DownOrder :
      /\ runState[p] \in RunState /\ runState[p].lifecycle = "down"
           => Stopped(container, unstopped, runState[p].owner, i)
      /\ inode[p] \in RunState /\ inode[p].lifecycle = "down"
           => Stopped(container, unstopped, inode[p].owner, i)

\* A `down` has stopped what lies behind it in its order.
WalkedIsStopped ==
    \A p \in Procs :
      /\ pc[p] \in {"idle", "load"} => pos[p] = 1
      /\ pc[p] \in {"inspect", "stop"} =>
           \A i \in DOMAIN DownOrder : i < pos[p] => Stopped(container, unstopped, runState[p].owner, i)

\* The inductive strengthening of DownMeansStopped.
IInv == TypeOK /\ OwnersHaveRun /\ DownIsStopped /\ WalkedIsStopped

USE DEF HasRun

LEMMA InitIInv == Init => IInv
<1> SUFFICES ASSUME Init PROVE IInv
  OBVIOUS
<1>1. TypeOK
  BY InitTypeOK
<1>2. OwnersHaveRun /\ DownIsStopped /\ WalkedIsStopped
  BY Distinct DEF Init, OwnersHaveRun, DownIsStopped, WalkedIsStopped
<1>3. QED
  BY <1>1, <1>2 DEF IInv

\* Where the state an invocation holds can come from: the containers of its
\* own apply, or the state file, or what it held with another lifecycle.
LEMMA StateComesFrom ==
  ASSUME TypeOK, [Next]_vars, NEW p \in Procs
  PROVE  \/ runState'[p] = runState[p]
         \/ /\ pc[p] = "clock"
            /\ runState'[p] = [lifecycle |-> "running", owner |-> p]
         \/ \E i \in Procs : runState'[p] = inode[i]
         \/ MarkDown(p)
<1> USE DEF ProcTypes
<1>1. CASE UNCHANGED runState
  BY <1>1
<1>2. ASSUME NEW q \in Procs, StampState(q) PROVE
         \/ runState'[p] = runState[p]
         \/ /\ pc[p] = "clock"
            /\ runState'[p] = [lifecycle |-> "running", owner |-> p]
  BY <1>2 DEF StampState
<1>3. ASSUME NEW q \in Procs, LoadState(q) PROVE
         \/ runState'[p] = runState[p]
         \/ \E i \in Procs : runState'[p] = inode[i]
  <2>1. StateContents # None => stateFile \in Procs /\ StateContents = inode[stateFile]
    BY DEF StateContents, FileTypes
  <2>2. QED
    BY <1>3, <2>1 DEF LoadState
<1>4. ASSUME NEW q \in Procs, MarkDown(q) PROVE
         \/ runState'[p] = runState[p]
         \/ MarkDown(p)
  BY <1>4 DEF MarkDown
<1>5. QED
  BY <1>1, <1>2, <1>3, <1>4
     DEF Next, ProcessStep, Environment, ApplyStep, SaveStep, DownStep, CheckExists,
         PublishImages, LifecycleOk, LifecycleFails, RollbackNext, RollbackEnds,
         OpenTmp, WriteTmp, RenameTmp, InspectService, StopService, QueryService,
         Start, Crash, ContainerExits, ContainerRemoved, vars

\* What an inode can hold: what it held, no state, or the state in memory of
\* the invocation that writes it.
LEMMA InodeComesFrom ==
  ASSUME TypeOK, [Next]_vars, NEW i \in Procs
  PROVE  \/ inode'[i] = inode[i]
         \/ inode'[i] \notin RunState
         \/ \E q \in Procs : inode'[i] = runState[q]
<1>1. CASE UNCHANGED inode
  BY <1>1
<1>2. ASSUME NEW q \in Procs, OpenTmp(q)
      PROVE  inode'[i] = inode[i] \/ inode'[i] \notin RunState
  BY <1>2, Distinct DEF OpenTmp, FileTypes
<1>3. ASSUME NEW q \in Procs, WriteTmp(q)
      PROVE  \/ inode'[i] = inode[i]
             \/ inode'[i] \notin RunState
             \/ inode'[i] = runState[q]
  <2>1. \A old : Overwritten(old, runState[q]) \in {runState[q], Garbled}
    BY DEF Overwritten
  <2>2. QED
    BY <1>3, <2>1, Distinct DEF WriteTmp, FileTypes
<1>4. QED
  BY <1>1, <1>2, <1>3
     DEF Next, ProcessStep, Environment, ApplyStep, SaveStep, DownStep, CheckExists,
         PublishImages, LifecycleOk, LifecycleFails, StampState, RollbackNext,
         RollbackEnds, RenameTmp, LoadState, InspectService, StopService, MarkDown,
         QueryService, Start, Crash, ContainerExits, ContainerRemoved, vars

\* An apply whose helper has returned does not run it again.
LEMMA HasRunStable ==
  ASSUME TypeOK, [Next]_vars, NEW o \in Procs, HasRun(pc, o)
  PROVE  HasRun(pc', o)
<1> USE DEF ProcTypes
<1>1. CASE pc' = pc
  BY <1>1
<1>2. ASSUME NEW p \in Procs, ApplyStep(p) PROVE HasRun(pc', o)
  BY <1>2 DEF ApplyStep, CheckExists, PublishImages, LifecycleOk, LifecycleFails,
              StampState, RollbackNext, RollbackEnds
<1>3. ASSUME NEW p \in Procs, SaveStep(p) PROVE HasRun(pc', o)
  BY <1>3 DEF SaveStep, OpenTmp, WriteTmp, RenameTmp, SaveFails
<1>4. ASSUME NEW p \in Procs, DownStep(p) \/ QueryService(p) PROVE HasRun(pc', o)
  BY <1>4 DEF DownStep, LoadState, InspectService, StopService, MarkDown, QueryService
<1>5. ASSUME NEW p \in Procs, Environment(p) PROVE HasRun(pc', o)
  BY <1>5 DEF Environment, Start, Crash, ContainerExits, ContainerRemoved
<1>6. QED
  BY <1>1, <1>2, <1>3, <1>4, <1>5 DEF Next, ProcessStep, vars

\* ... and a container of its that does not run stays that way.
LEMMA StoppedStable ==
  ASSUME TypeOK, [Next]_vars, NEW o \in Procs, HasRun(pc, o), NEW i \in DOMAIN DownOrder,
         Stopped(container, unstopped, o, i)
  PROVE  Stopped(container', unstopped', o, i)
<1>0. DownOrder[i] \in Names /\ unstopped \subseteq unstopped'
  <2>1. DownOrder[i] \in Names
    BY DownOrderNames
  <2>2. unstopped \subseteq unstopped'
    BY DEF Next, ProcessStep, Environment, ApplyStep, SaveStep, DownStep, CheckExists,
           PublishImages, LifecycleOk, LifecycleFails, StampState, RollbackNext,
           RollbackEnds, OpenTmp, WriteTmp, RenameTmp, LoadState, InspectService,
           StopService, MarkDown, QueryService, Start, Crash, ContainerExits,
           ContainerRemoved, vars
  <2>3. QED
    BY <2>1, <2>2
<1> USE <1>0 DEF Stopped, PodmanTypes
<1>1. CASE UNCHANGED container
  BY <1>1
<1>2. ASSUME NEW p \in Procs, ApplyStep(p) PROVE Stopped(container', unstopped', o, i)
  <2>1. CASE LifecycleOk(p) \/ LifecycleFails(p)
    BY <2>1 DEF LifecycleOk, LifecycleFails, CreatedBy
  <2>2. CASE RollbackNext(p)
    <3>1. PICK s \in rollback[p] :
            \/ container' = [container EXCEPT ![p][s] = "exited"]
            \/ UNCHANGED container
      BY <2>2 DEF RollbackNext
    <3>2. QED
      BY <3>1
  <2>3. QED
    BY <1>1, <1>2, <2>1, <2>2
       DEF ApplyStep, CheckExists, PublishImages, StampState, RollbackEnds
<1>3. ASSUME NEW p \in Procs, DownStep(p) PROVE Stopped(container', unstopped', o, i)
  <2>1. pc[p] = "stop" => runState[p].owner \in Procs
    BY DEF StepTypes, RunState
  <2>2. QED
    BY <1>1, <1>3, <2>1
       DEF DownStep, LoadState, InspectService, StopService, MarkDown
<1>4. ASSUME NEW p \in Procs, Environment(p) PROVE Stopped(container', unstopped', o, i)
  BY <1>1, <1>4 DEF Environment, Start, Crash, CreatedBy, ContainerExits, ContainerRemoved
<1>5. QED
  BY <1>1, <1>2, <1>3, <1>4
     DEF Next, ProcessStep, SaveStep, OpenTmp, WriteTmp, RenameTmp, QueryService, vars

-----------------------------------------------------------------------------

LEMMA OwnersHaveRunStep == IInv /\ [Next]_vars => OwnersHaveRun'
<1> SUFFICES ASSUME IInv, [Next]_vars, NEW p \in Procs
             PROVE  /\ runState'[p] \in RunState => HasRun(pc', runState'[p].owner)
                    /\ inode'[p] \in RunState => HasRun(pc', inode'[p].owner)
  BY DEF OwnersHaveRun
<1> USE DEF IInv
<1>1. \A state \in RunState : state.owner \in Procs
  BY DEF RunState
<1>2. \A q \in Procs : runState[q] \in RunState => HasRun(pc', runState[q].owner)
  BY <1>1, HasRunStable DEF OwnersHaveRun
<1>3. \A q \in Procs : inode[q] \in RunState => HasRun(pc', inode[q].owner)
  BY <1>1, HasRunStable DEF OwnersHaveRun
<1>4. pc[p] = "clock" => HasRun(pc', p)
  BY HasRunStable
<1>5. MarkDown(p) => runState[p] \in RunState /\ runState'[p].owner = runState[p].owner
  BY DEF MarkDown, StepTypes, ProcTypes, RunState
<1>6. runState'[p] \in RunState => HasRun(pc', runState'[p].owner)
  <2>1. CASE runState'[p] = [lifecycle |-> "running", owner |-> p] /\ pc[p] = "clock"
    BY <1>4, <2>1
  <2>2. CASE MarkDown(p)
    BY <1>2, <1>5, <2>2
  <2>3. QED
    BY <1>2, <1>3, <2>1, <2>2, StateComesFrom
<1>7. inode'[p] \in RunState => HasRun(pc', inode'[p].owner)
  BY <1>2, <1>3, InodeComesFrom
<1>8. QED
  BY <1>6, <1>7

\* When `down` marks its state down it has walked its whole order.
LEMMA MarkDownStopped ==
  ASSUME IInv, NEW p \in Procs, MarkDown(p), NEW i \in DOMAIN DownOrder
  PROVE  /\ Stopped(container', unstopped', runState'[p].owner, i)
         /\ runState[p] \in RunState
<1>1. DownOrder \in Seq(Services)
  BY DownOrderType
<1>2. pos[p] \in Nat /\ pos[p] > Len(DownOrder) /\ pc[p] = "inspect"
  BY DEF MarkDown, IInv, ProcTypes
<1>3. i < pos[p]
  BY <1>1, <1>2
<1>4. Stopped(container, unstopped, runState[p].owner, i)
  BY <1>2, <1>3 DEF WalkedIsStopped, IInv
<1>5. runState[p] \in RunState /\ runState'[p].owner = runState[p].owner
  BY <1>2 DEF MarkDown, IInv, StepTypes, ProcTypes, RunState
<1>6. QED
  BY <1>4, <1>5 DEF MarkDown, Stopped

LEMMA DownIsStoppedStep == IInv /\ [Next]_vars => DownIsStopped'
<1> SUFFICES ASSUME IInv, [Next]_vars, NEW p \in Procs, NEW i \in DOMAIN DownOrder
             PROVE  /\ runState'[p] \in RunState /\ runState'[p].lifecycle = "down"
                         => Stopped(container', unstopped', runState'[p].owner, i)
                    /\ inode'[p] \in RunState /\ inode'[p].lifecycle = "down"
                         => Stopped(container', unstopped', inode'[p].owner, i)
  BY DEF DownIsStopped
<1>1. \A state \in RunState : state.owner \in Procs
  BY DEF RunState
<1>2. \A q \in Procs : runState[q] \in RunState /\ runState[q].lifecycle = "down"
                        => Stopped(container', unstopped', runState[q].owner, i)
  BY <1>1, StoppedStable DEF IInv, OwnersHaveRun, DownIsStopped
<1>3. \A q \in Procs : inode[q] \in RunState /\ inode[q].lifecycle = "down"
                        => Stopped(container', unstopped', inode[q].owner, i)
  BY <1>1, StoppedStable DEF IInv, OwnersHaveRun, DownIsStopped
<1>4. runState'[p] \in RunState /\ runState'[p].lifecycle = "down"
        => Stopped(container', unstopped', runState'[p].owner, i)
  <2>1. CASE runState'[p] = [lifecycle |-> "running", owner |-> p]
    BY <2>1
  <2>2. CASE MarkDown(p)
    BY <2>2, MarkDownStopped
  <2>3. TypeOK
    BY DEF IInv
  <2>4. QED
    BY <1>2, <1>3, <2>1, <2>2, <2>3, StateComesFrom
<1>5. inode'[p] \in RunState /\ inode'[p].lifecycle = "down"
        => Stopped(container', unstopped', inode'[p].owner, i)
  BY <1>2, <1>3, InodeComesFrom DEF IInv
<1>6. QED
  BY <1>4, <1>5

\* A step that leaves invocation p at one of the steps of `down`: p began to
\* walk, or went on after a container that does not run, or did nothing.
LEMMA WalkStep ==
  ASSUME TypeOK, [Next]_vars, NEW p \in Procs, pc'[p] \in {"inspect", "stop"}
  PROVE  \/ pc[p] = "load" /\ pos'[p] = pos[p]
         \/ /\ pc[p] \in {"inspect", "stop"}
            /\ runState'[p] = runState[p]
            /\ pos'[p] = pos[p]
         \/ /\ pc[p] \in {"inspect", "stop"}
            /\ runState'[p] = runState[p]
            /\ pos'[p] = pos[p] + 1
            /\ pos[p] \in DOMAIN DownOrder => Stopped(container', unstopped', runState[p].owner, pos[p])
<1> USE DEF ProcTypes
<1>1. CASE UNCHANGED <<pc, runState, pos>>
  BY <1>1
<1>2. ASSUME NEW q \in Procs, ApplyStep(q)
      PROVE  pc[p] = pc'[p] /\ runState'[p] = runState[p] /\ pos'[p] = pos[p]
  BY <1>2 DEF ApplyStep, CheckExists, PublishImages, LifecycleOk, LifecycleFails,
              StampState, RollbackNext, RollbackEnds
<1>3. ASSUME NEW q \in Procs, SaveStep(q)
      PROVE  pc[p] = pc'[p] /\ runState'[p] = runState[p] /\ pos'[p] = pos[p]
  BY <1>3 DEF SaveStep, OpenTmp, WriteTmp, RenameTmp, SaveFails
<1>4. ASSUME NEW q \in Procs, LoadState(q)
      PROVE  \/ pc[p] = "load" /\ pos'[p] = pos[p]
             \/ pc[p] = pc'[p] /\ runState'[p] = runState[p] /\ pos'[p] = pos[p]
  BY <1>4 DEF LoadState
<1>5. ASSUME NEW q \in Procs, MarkDown(q) \/ QueryService(q) \/ Environment(q)
      PROVE  pc[p] = pc'[p] /\ runState'[p] = runState[p] /\ pos'[p] = pos[p]
  BY <1>5 DEF MarkDown, QueryService, Environment, Start, Crash, ContainerExits,
              ContainerRemoved
<1>6. CASE InspectService(p)
  BY <1>6 DEF InspectService, Listed, Stopped
<1>7. CASE StopService(p)
  <2>1. runState[p].owner \in Procs /\ runState'[p] = runState[p]
    BY <1>7 DEF StopService, StepTypes, RunState
  <2>2. pos[p] \in DOMAIN DownOrder => DownOrder[pos[p]] \in Names
    BY DownOrderNames
  <2>3. CASE container' = [container EXCEPT
                             ![runState[p].owner][DownOrder[pos[p]]] = "exited"]
             /\ pos' = [pos EXCEPT ![p] = @ + 1]
    BY <1>7, <2>1, <2>2, <2>3 DEF StopService, Stopped, PodmanTypes
  <2>4. QED
    BY <1>7, <2>1, <2>3 DEF StopService
<1>8. ASSUME NEW q \in Procs, q # p, InspectService(q) \/ StopService(q)
      PROVE  pc[p] = pc'[p] /\ runState'[p] = runState[p] /\ pos'[p] = pos[p]
  BY <1>8 DEF InspectService, StopService
<1>9. QED
  BY <1>1, <1>2, <1>3, <1>4, <1>5, <1>6, <1>7, <1>8
     DEF Next, ProcessStep, DownStep, vars

LEMMA WalkedIsStoppedStep == IInv /\ [Next]_vars => WalkedIsStopped'
<1> SUFFICES ASSUME IInv, [Next]_vars, NEW p \in Procs
             PROVE  /\ pc'[p] \in {"idle", "load"} => pos'[p] = 1
                    /\ pc'[p] \in {"inspect", "stop"} =>
                         \A i \in DOMAIN DownOrder :
                           i < pos'[p] => Stopped(container', unstopped', runState'[p].owner, i)
  BY DEF WalkedIsStopped
<1>0. TypeOK /\ WalkedIsStopped /\ OwnersHaveRun
  BY DEF IInv
<1>1. pc'[p] \in {"idle", "load"} => pc[p] \in {"idle", "load"} /\ pos'[p] = pos[p]
  <2> USE <1>0 DEF ProcTypes
  <2>1. CASE UNCHANGED <<pc, pos>>
    BY <2>1
  <2>2. ASSUME NEW q \in Procs, ApplyStep(q)
        PROVE  pc'[p] \in {"idle", "load"} => pc'[p] = pc[p] /\ pos'[p] = pos[p]
    BY <2>2 DEF ApplyStep, CheckExists, PublishImages, LifecycleOk, LifecycleFails,
                StampState, RollbackNext, RollbackEnds
  <2>3. ASSUME NEW q \in Procs, SaveStep(q)
        PROVE  pc'[p] \in {"idle", "load"} => pc'[p] = pc[p] /\ pos'[p] = pos[p]
    BY <2>3 DEF SaveStep, OpenTmp, WriteTmp, RenameTmp, SaveFails
  <2>4. ASSUME NEW q \in Procs, LoadState(q) \/ MarkDown(q) \/ QueryService(q)
        PROVE  pc'[p] \in {"idle", "load"} => pc'[p] = pc[p] /\ pos'[p] = pos[p]
    BY <2>4 DEF LoadState, MarkDown, QueryService
  <2>5. ASSUME NEW q \in Procs, InspectService(q) \/ StopService(q)
        PROVE  pc'[p] \in {"idle", "load"} => pc'[p] = pc[p] /\ pos'[p] = pos[p]
    BY <2>5 DEF InspectService, StopService
  <2>6. ASSUME NEW q \in Procs, Environment(q)
        PROVE  pc'[p] \in {"idle", "load"} =>
                 pc[p] \in {"idle", "load"} /\ pos'[p] = pos[p]
    BY <2>6 DEF Environment, Start, Crash, ContainerExits, ContainerRemoved
  <2>7. QED
    BY <2>1, <2>2, <2>3, <2>4, <2>5, <2>6 DEF Next, ProcessStep, DownStep, vars
<1>2. ASSUME pc'[p] \in {"inspect", "stop"}, NEW i \in DOMAIN DownOrder, i < pos'[p]
      PROVE  Stopped(container', unstopped', runState'[p].owner, i)
  <2>1. pos[p] \in Nat /\ i \in Nat /\ i >= 1
    BY <1>0, DownOrderType DEF ProcTypes
  <2>2. CASE pc[p] = "load" /\ pos'[p] = pos[p]
    BY <1>0, <1>2, <2>1, <2>2 DEF WalkedIsStopped
  <2>3. CASE pc[p] \in {"inspect", "stop"} /\ runState'[p] = runState[p]
    <3>1. runState[p].owner \in Procs /\ HasRun(pc, runState[p].owner)
      BY <1>0, <2>3 DEF StepTypes, OwnersHaveRun, RunState
    <3>2. CASE i < pos[p]
      BY <1>0, <2>3, <3>1, <3>2, StoppedStable DEF WalkedIsStopped
    <3>3. CASE i = pos[p]
      BY <1>0, <1>2, <2>1, <2>3, <3>3, WalkStep
    <3>4. i < pos[p] \/ i = pos[p]
      BY <1>0, <1>2, <2>1, WalkStep
    <3>5. QED
      BY <3>2, <3>3, <3>4
  <2>4. QED
    BY <1>0, <1>2, <2>2, <2>3, WalkStep
<1>3. QED
  BY <1>0, <1>1, <1>2 DEF WalkedIsStopped

\* In every behaviour, with any number of invocations at once and any fault,
\* a state marked down lists no running container among those `down` walks, but
\* those it went past on a "no such".
THEOREM DownMeansStoppedAlways == Spec => []DownMeansStopped
<1>1. IInv /\ [Next]_vars => IInv'
  <2>1. IInv /\ [Next]_vars => TypeOK'
    BY ProcTypesStep, PodmanTypesStep, FileTypesStep, StepTypesStep DEF IInv
  <2>2. QED
    BY <2>1, OwnersHaveRunStep, DownIsStoppedStep, WalkedIsStoppedStep DEF IInv
<1>2. IInv => DownMeansStopped
  <2> SUFFICES ASSUME IInv, NEW p \in Procs, NEW i \in DOMAIN DownOrder,
                      NEW state \in {StateContents, runState[p]},
                      state \in [lifecycle : {"down"}, owner : Procs]
               PROVE  container[state.owner][DownOrder[i]] = "running" =>
                        <<state.owner, DownOrder[i]>> \in unstopped
    BY DEF DownMeansStopped
  <2>1. state \in RunState /\ state.lifecycle = "down"
    BY DEF RunState, Lifecycle
  <2>2. state = runState[p] \/ \E q \in Procs : state = inode[q]
    BY <2>1, Distinct DEF StateContents, IInv, FileTypes
  <2>3. QED
    BY <2>1, <2>2 DEF IInv, DownIsStopped, Stopped
<1>3. QED
  BY InitIInv, <1>1, <1>2, PTL DEF Spec


-----------------------------------------------------------------------------
(* The rollback of an apply, whatever runs beside it. *)

\* A container of apply p that runs although p was told of it.
Running(p, s) == s \in reported[p] /\ container[p][s] = "running"

RollbackCovers ==
    \A p \in Procs : cmd[p] = "apply" =>
      /\ pc[p] = "rollback" =>
            \A s \in Names : Running(p, s) => s \in rollback[p] \/ <<p, s>> \in unstopped
      /\ (pc[p] = "done" /\ result[p] \in {"lifecycle", "save"}) =>
            \A s \in Names : Running(p, s) => <<p, s>> \in unstopped

-----------------------------------------------------------------------------
(* One command at a time. *)

\* The discipline under which the state file is safe: only status overlaps.
OneWriterAtATime == Overlap \subseteq {"status"}

Alone ==
    \A p, q \in Procs : (p # q /\ InFlight(p) /\ InFlight(q)) =>
        cmd[p] = "status" /\ cmd[q] = "status"

\* Each command goes through its own steps, and ends with its result.
Course ==
    \A p \in Procs :
      /\ cmd[p] = "none" => pc[p] = "idle"
      /\ cmd[p] = "apply" => pc[p] \in ApplySteps \cup SaveSteps \cup Ended
      /\ cmd[p] = "down" => pc[p] \in DownSteps \cup SaveSteps \cup Ended
      /\ cmd[p] = "status" => pc[p] \in {"load", "query"} \cup Ended
      /\ pc[p] \notin {"rollback"} \cup Ended => result[p] = "none" /\ rollback[p] = {}
      /\ rollback[p] # {} => result[p] \in {"lifecycle", "save"}
      /\ pc[p] = "rollback" => result[p] \in {"lifecycle", "save"}

\* An inode has a name only when its creator has opened it; the temporary file is
\* not the state file.
Named ==
    /\ \A p \in Procs : p \in {stateFile, tmpFile} =>
          pc[p] \in {"write", "rename", "rollback"} \cup Ended
    /\ tmpFile # None => tmpFile # stateFile

\* What a save has written is in the temporary file, and nobody else's.
Saving ==
    \A p \in Procs :
      /\ pc[p] = "write" => tmpFile # None /\ fd[p] = tmpFile /\ inode[tmpFile] = Empty
      /\ pc[p] = "rename" => tmpFile # None /\ inode[tmpFile] = runState[p]

\* The state file is one state, of an apply that succeeded; and there is one.
Committed ==
    /\ stateFile # None =>
          /\ inode[stateFile] \in RunState
          /\ cmd[inode[stateFile].owner] = "apply"
          /\ result[inode[stateFile].owner] = "ok"
    /\ \A p \in Procs : (cmd[p] = "apply" /\ result[p] = "ok") =>
          stateFile # None /\ inode[stateFile].owner = p

\* What a command knows of the state file stays true while it is in flight.
Knows ==
    \A p \in Procs :
      /\ (cmd[p] = "apply" /\ InFlight(p) /\ pc[p] # "exists") => stateFile = None
      /\ (cmd[p] = "apply" /\ pc[p] \in SaveSteps) =>
            runState[p] = [lifecycle |-> "running", owner |-> p]
      /\ (cmd[p] = "down" /\ pc[p] \in {"inspect", "stop"} \cup SaveSteps) =>
            /\ stateFile # None
            /\ runState[p].owner = inode[stateFile].owner
            /\ inode[stateFile].lifecycle = "running"
      /\ (cmd[p] = "down" /\ pc[p] \in SaveSteps) => runState[p].lifecycle = "down"

SerialInv == TypeOK /\ Alone /\ Course /\ Named /\ Saving /\ Committed /\ Knows

-----------------------------------------------------------------------------
\* Once the helper has returned, a container that was reported runs only until the
\* rollback comes to it.
LEMMA RollbackCoversStep ==
    ASSUME TypeOK, RollbackCovers, TypeOK', [Next]_vars
    PROVE  RollbackCovers'
<1>0. ASSUME NEW p \in Procs, UNCHANGED <<cmd, podmanVars>>,
             \A q \in Procs \ {p} : UNCHANGED <<pc[q], result[q], rollback[q]>>,
             \/ pc'[p] \notin {"rollback", "done"}
             \/ cmd[p] # "apply"
             \/ pc'[p] = "rollback" /\ rollback'[p] = reported[p]
      PROVE  RollbackCovers'
  BY <1>0 DEF RollbackCovers, Running
<1>1. ASSUME NEW p \in Procs, LifecycleOk(p) PROVE RollbackCovers'
  BY <1>1, Distinct
  DEF LifecycleOk, CreatedBy, RollbackCovers, Running, TypeOK, ProcTypes,
      PodmanTypes, StepTypes, Goto, Finish, procVars, podmanVars, fileVars,
      Steps, HoldingSteps, ApplySteps, SaveSteps, DownSteps, Ended
<1>2. ASSUME NEW p \in Procs, LifecycleFails(p) PROVE RollbackCovers'
  BY <1>2, Distinct
  DEF LifecycleFails, CreatedBy, NewStatus, RollbackCovers, Running, TypeOK,
      ProcTypes, PodmanTypes, StepTypes, Goto, Finish, procVars, podmanVars,
      fileVars, Steps, HoldingSteps, ApplySteps, SaveSteps, DownSteps, Ended
<1>3. ASSUME NEW p \in Procs, RollbackNext(p) PROVE RollbackCovers'
  BY <1>3, Distinct
  DEF RollbackNext, RollbackCovers, Running, TypeOK, ProcTypes, PodmanTypes,
      StepTypes, Goto, Finish, procVars, podmanVars, fileVars, Steps,
      HoldingSteps, ApplySteps, SaveSteps, DownSteps, Ended
<1>4. ASSUME NEW p \in Procs, RollbackEnds(p) PROVE RollbackCovers'
  BY <1>4, Distinct
  DEF RollbackEnds, RollbackCovers, Running, TypeOK, ProcTypes, PodmanTypes,
      StepTypes, Goto, Finish, procVars, podmanVars, fileVars, Steps,
      HoldingSteps, ApplySteps, SaveSteps, DownSteps, Ended
<1>5. ASSUME NEW p \in Procs, OpenTmp(p) PROVE RollbackCovers'
  BY <1>0, <1>5 DEF OpenTmp, SaveFails, ProcTypes
<1>6. ASSUME NEW p \in Procs, WriteTmp(p) PROVE RollbackCovers'
  BY <1>0, <1>6 DEF WriteTmp, SaveFails, ProcTypes
<1>7. ASSUME NEW p \in Procs, RenameTmp(p) PROVE RollbackCovers'
  BY <1>7, Distinct
  DEF RenameTmp, SaveFails, RollbackCovers, Running, TypeOK, ProcTypes,
      PodmanTypes, StepTypes, Goto, Finish, procVars, podmanVars, fileVars,
      Steps, HoldingSteps, ApplySteps, SaveSteps, DownSteps, Ended
<1>8. ASSUME NEW p \in Procs, StopService(p) PROVE RollbackCovers'
  <2>1. runState[p].owner \in Procs
    BY <1>8 DEF StopService, TypeOK, StepTypes, HoldingSteps, RunState
  <2>2. \A q \in Procs, s \in Names :
            container'[q][s] = "running" => container[q][s] = "running"
    BY <1>8, <2>1 DEF StopService, TypeOK, PodmanTypes
  <2>3. /\ pc'[p] \in {"inspect", "done"} /\ (pc'[p] = "done" => result'[p] = "runtime")
        /\ \A q \in Procs \ {p} : pc'[q] = pc[q] /\ result'[q] = result[q]
    BY <1>8 DEF StopService, Goto, Finish, TypeOK, ProcTypes
  <2>4. UNCHANGED <<cmd, rollback, reported, unstopped>>
    BY <1>8 DEF StopService
  <2>. QED
    BY <2>2, <2>3, <2>4 DEF RollbackCovers, Running
<1>9. ASSUME NEW p \in Procs, Crash(p) PROVE RollbackCovers'
  <2>1. pc'[p] = "crashed"
    BY <1>9 DEF Crash, Goto, TypeOK, ProcTypes
  <2>2. \A q \in Procs \ {p} : pc'[q] = pc[q] /\ container'[q] = container[q]
    BY <1>9 DEF Crash, Goto, CreatedBy, TypeOK, ProcTypes, PodmanTypes
  <2>3. UNCHANGED <<cmd, result, rollback, reported, unstopped>>
    BY <1>9 DEF Crash
  <2>. QED
    BY <2>1, <2>2, <2>3 DEF RollbackCovers, Running
<1>10. ASSUME NEW p \in Procs, NEW s \in Names, ContainerExits(p, s) PROVE RollbackCovers'
  BY <1>10, Distinct
  DEF ContainerExits, RollbackCovers, Running, TypeOK, ProcTypes, PodmanTypes,
      StepTypes, Goto, Finish, procVars, podmanVars, fileVars, Steps,
      HoldingSteps, ApplySteps, SaveSteps, DownSteps, Ended
<1>11. ASSUME NEW p \in Procs, NEW s \in Names, ContainerRemoved(p, s) PROVE RollbackCovers'
  BY <1>11, Distinct
  DEF ContainerRemoved, RollbackCovers, Running, TypeOK, ProcTypes,
      PodmanTypes, StepTypes, Goto, Finish, procVars, podmanVars, fileVars,
      Steps, HoldingSteps, ApplySteps, SaveSteps, DownSteps, Ended
\* the other steps leave it as it is
<1>12. ASSUME NEW p \in Procs,
             \/ (\E c \in Commands : Start(p, c)) \/ CheckExists(p)
             \/ PublishImages(p) \/ StampState(p) \/ LoadState(p)
             \/ InspectService(p) \/ MarkDown(p) \/ QueryService(p)
      PROVE  RollbackCovers'
  BY <1>12, Distinct
  DEF Start, CheckExists, PublishImages, StampState, LoadState,
      InspectService, MarkDown, QueryService, RollbackCovers, Running, TypeOK,
      ProcTypes, PodmanTypes, StepTypes, Goto, Finish, procVars, podmanVars,
      fileVars, Steps, HoldingSteps, ApplySteps, SaveSteps, DownSteps, Ended
<1>13. CASE UNCHANGED vars
  BY <1>13 DEF vars, RollbackCovers, Running, TypeOK, ProcTypes, PodmanTypes,
      StepTypes, Goto, Finish, procVars, podmanVars, fileVars, Steps,
      HoldingSteps, ApplySteps, SaveSteps, DownSteps, Ended
<1>. QED
  BY <1>1, <1>2, <1>3, <1>4, <1>5, <1>6, <1>7, <1>8, <1>9, <1>10, <1>11,
      <1>12, <1>13
  DEF Next, ProcessStep, Environment, ApplyStep, SaveStep, DownStep

\* A command that writes is started only when nothing is in flight.
LEMMA AloneStep ==
    ASSUME SerialInv, TypeOK', [Next]_vars, OneWriterAtATime
    PROVE  Alone'
<1>1. ASSUME NEW p \in Procs, NEW c \in Commands, Start(p, c) PROVE Alone'
  <2>1. /\ cmd'[p] = c
        /\ \A q \in Procs \ {p} : cmd'[q] = cmd[q] /\ pc'[q] = pc[q]
    BY <1>1 DEF Start, Goto, TypeOK, ProcTypes
  <2>2. ASSUME NEW q \in Procs \ {p}, InFlight(q) PROVE c = "status" /\ cmd[q] = "status"
    BY <1>1, <2>2 DEF Start, OneWriterAtATime
  <2>. QED
    BY <2>1, <2>2 DEF SerialInv, Alone, InFlight
\* the other steps leave it as it is
<1>2. ASSUME NEW p \in Procs,
             \/ CheckExists(p) \/ PublishImages(p) \/ LifecycleOk(p)
             \/ LifecycleFails(p) \/ StampState(p) \/ RollbackNext(p)
             \/ RollbackEnds(p) \/ OpenTmp(p) \/ WriteTmp(p) \/ RenameTmp(p)
             \/ LoadState(p) \/ InspectService(p) \/ StopService(p)
             \/ MarkDown(p) \/ QueryService(p) \/ Crash(p)
             \/ (\E s \in Names : ContainerExits(p, s))
             \/ (\E s \in Names : ContainerRemoved(p, s))
      PROVE  Alone'
  BY <1>2, Distinct
  DEF CheckExists, PublishImages, LifecycleOk, LifecycleFails, StampState,
      RollbackNext, RollbackEnds, OpenTmp, WriteTmp, RenameTmp, LoadState,
      InspectService, StopService, MarkDown, QueryService, Crash,
      ContainerExits, ContainerRemoved, CreatedBy, NewStatus, SaveFails,
      Alone, OneWriterAtATime, InFlight, SerialInv, TypeOK, ProcTypes,
      FileTypes, StepTypes, Goto, Finish, procVars, podmanVars, fileVars,
      Steps, HoldingSteps, ApplySteps, SaveSteps, DownSteps, Ended
<1>3. CASE UNCHANGED vars
  BY <1>3 DEF vars, Alone, OneWriterAtATime, InFlight, SerialInv, TypeOK,
      ProcTypes, FileTypes, StepTypes, Goto, Finish, procVars, podmanVars,
      fileVars, Steps, HoldingSteps, ApplySteps, SaveSteps, DownSteps, Ended
<1>. QED
  BY <1>1, <1>2, <1>3
  DEF Next, ProcessStep, Environment, ApplyStep, SaveStep, DownStep

\* A command goes through its own steps only.
LEMMA CourseStep ==
    ASSUME TypeOK, Course, TypeOK', [Next]_vars
    PROVE  Course'
<1>1. ASSUME NEW p \in Procs, NEW c \in Commands, Start(p, c) PROVE Course'
  BY <1>1, Distinct
  DEF Start, Course, InFlight, Commands, TypeOK, ProcTypes,
      FileTypes, StepTypes, Goto, Finish, procVars, podmanVars, fileVars,
      Steps, HoldingSteps, ApplySteps, SaveSteps, DownSteps, Ended
<1>2. ASSUME NEW p \in Procs, CheckExists(p) PROVE Course'
  BY <1>2, Distinct
  DEF CheckExists, Course, InFlight, Commands, TypeOK, ProcTypes,
      FileTypes, StepTypes, Goto, Finish, procVars, podmanVars, fileVars,
      Steps, HoldingSteps, ApplySteps, SaveSteps, DownSteps, Ended
<1>3. ASSUME NEW p \in Procs, PublishImages(p) PROVE Course'
  BY <1>3, Distinct
  DEF PublishImages, Course, InFlight, Commands, TypeOK, ProcTypes,
      FileTypes, StepTypes, Goto, Finish, procVars, podmanVars, fileVars,
      Steps, HoldingSteps, ApplySteps, SaveSteps, DownSteps, Ended
<1>4. ASSUME NEW p \in Procs, LifecycleOk(p) PROVE Course'
  BY <1>4, Distinct
  DEF LifecycleOk, CreatedBy, Course, InFlight, Commands, TypeOK,
      ProcTypes, FileTypes, StepTypes, Goto, Finish, procVars, podmanVars,
      fileVars, Steps, HoldingSteps, ApplySteps, SaveSteps, DownSteps, Ended
<1>5. ASSUME NEW p \in Procs, LifecycleFails(p) PROVE Course'
  BY <1>5, Distinct
  DEF LifecycleFails, CreatedBy, NewStatus, Course, InFlight, Commands,
      TypeOK, ProcTypes, FileTypes, StepTypes, Goto, Finish,
      procVars, podmanVars, fileVars, Steps, HoldingSteps, ApplySteps,
      SaveSteps, DownSteps, Ended
<1>6. ASSUME NEW p \in Procs, StampState(p) PROVE Course'
  BY <1>6, Distinct
  DEF StampState, Course, InFlight, Commands, TypeOK, ProcTypes,
      FileTypes, StepTypes, Goto, Finish, procVars, podmanVars, fileVars,
      Steps, HoldingSteps, ApplySteps, SaveSteps, DownSteps, Ended
<1>7. ASSUME NEW p \in Procs, RollbackNext(p) PROVE Course'
  BY <1>7, Distinct
  DEF RollbackNext, Course, InFlight, Commands, TypeOK, ProcTypes,
      FileTypes, StepTypes, Goto, Finish, procVars, podmanVars, fileVars,
      Steps, HoldingSteps, ApplySteps, SaveSteps, DownSteps, Ended
<1>8. ASSUME NEW p \in Procs, RollbackEnds(p) PROVE Course'
  BY <1>8, Distinct
  DEF RollbackEnds, Course, InFlight, Commands, TypeOK, ProcTypes,
      FileTypes, StepTypes, Goto, Finish, procVars, podmanVars, fileVars,
      Steps, HoldingSteps, ApplySteps, SaveSteps, DownSteps, Ended
<1>9. ASSUME NEW p \in Procs, OpenTmp(p) PROVE Course'
  BY <1>9, Distinct
  DEF OpenTmp, SaveFails, Course, InFlight, Commands, TypeOK,
      ProcTypes, FileTypes, StepTypes, Goto, Finish, procVars, podmanVars,
      fileVars, Steps, HoldingSteps, ApplySteps, SaveSteps, DownSteps, Ended
<1>10. ASSUME NEW p \in Procs, WriteTmp(p) PROVE Course'
  BY <1>10, Distinct
  DEF WriteTmp, SaveFails, Course, InFlight, Commands, TypeOK,
      ProcTypes, FileTypes, StepTypes, Goto, Finish, procVars, podmanVars,
      fileVars, Steps, HoldingSteps, ApplySteps, SaveSteps, DownSteps, Ended
<1>11. ASSUME NEW p \in Procs, RenameTmp(p) PROVE Course'
  BY <1>11, Distinct
  DEF RenameTmp, SaveFails, Course, InFlight, Commands, TypeOK,
      ProcTypes, FileTypes, StepTypes, Goto, Finish, procVars, podmanVars,
      fileVars, Steps, HoldingSteps, ApplySteps, SaveSteps, DownSteps, Ended
<1>12. ASSUME NEW p \in Procs, LoadState(p) PROVE Course'
  BY <1>12, Distinct
  DEF LoadState, Course, InFlight, Commands, TypeOK, ProcTypes,
      FileTypes, StepTypes, Goto, Finish, procVars, podmanVars, fileVars,
      Steps, HoldingSteps, ApplySteps, SaveSteps, DownSteps, Ended
<1>13. ASSUME NEW p \in Procs, InspectService(p) PROVE Course'
  <2>1. pc[p] = "inspect" /\ result[p] = "none" /\ rollback[p] = {}
    BY <1>13 DEF InspectService, Course, Ended
  <2>2. cmd[p] = "down"
    BY <2>1 DEF Course, ApplySteps, SaveSteps, Ended, TypeOK, ProcTypes, Commands
  <2>3. /\ UNCHANGED <<cmd, rollback>>
        /\ pc'[p] \in {"inspect", "stop", "done"} /\ (pc'[p] # "done" => result'[p] = "none")
    BY <1>13, <2>1 DEF InspectService, Goto, Finish, TypeOK, ProcTypes
  <2>4. \A q \in Procs \ {p} : pc'[q] = pc[q] /\ result'[q] = result[q]
    BY <1>13 DEF InspectService, Goto, Finish, TypeOK, ProcTypes
  <2>. QED
    BY <2>1, <2>2, <2>3, <2>4 DEF Course, DownSteps, Ended
<1>14. ASSUME NEW p \in Procs, StopService(p) PROVE Course'
  BY <1>14, Distinct
  DEF StopService, Course, InFlight, Commands, TypeOK, ProcTypes,
      FileTypes, StepTypes, Goto, Finish, procVars, podmanVars, fileVars,
      Steps, HoldingSteps, ApplySteps, SaveSteps, DownSteps, Ended
<1>15. ASSUME NEW p \in Procs, MarkDown(p) PROVE Course'
  BY <1>15, Distinct
  DEF MarkDown, Course, InFlight, Commands, TypeOK, ProcTypes,
      FileTypes, StepTypes, Goto, Finish, procVars, podmanVars, fileVars,
      Steps, HoldingSteps, ApplySteps, SaveSteps, DownSteps, Ended
<1>16. ASSUME NEW p \in Procs, QueryService(p) PROVE Course'
  BY <1>16, Distinct
  DEF QueryService, Course, InFlight, Commands, TypeOK, ProcTypes,
      FileTypes, StepTypes, Goto, Finish, procVars, podmanVars, fileVars,
      Steps, HoldingSteps, ApplySteps, SaveSteps, DownSteps, Ended
<1>17. ASSUME NEW p \in Procs, Crash(p) PROVE Course'
  BY <1>17, Distinct
  DEF Crash, Course, InFlight, Commands, TypeOK, ProcTypes,
      FileTypes, StepTypes, Goto, Finish, procVars, podmanVars, fileVars,
      Steps, HoldingSteps, ApplySteps, SaveSteps, DownSteps, Ended
<1>18. ASSUME NEW p \in Procs, NEW s \in Names, ContainerExits(p, s) PROVE Course'
  BY <1>18, Distinct
  DEF ContainerExits, Course, InFlight, Commands, TypeOK,
      ProcTypes, FileTypes, StepTypes, Goto, Finish, procVars, podmanVars,
      fileVars, Steps, HoldingSteps, ApplySteps, SaveSteps, DownSteps, Ended
<1>19. ASSUME NEW p \in Procs, NEW s \in Names, ContainerRemoved(p, s) PROVE Course'
  BY <1>19, Distinct
  DEF ContainerRemoved, Course, InFlight, Commands, TypeOK,
      ProcTypes, FileTypes, StepTypes, Goto, Finish, procVars, podmanVars,
      fileVars, Steps, HoldingSteps, ApplySteps, SaveSteps, DownSteps, Ended
<1>20. CASE UNCHANGED vars
  BY <1>20 DEF vars, Course, InFlight, Commands, TypeOK, ProcTypes,
      FileTypes, StepTypes, Goto, Finish, procVars, podmanVars, fileVars,
      Steps, HoldingSteps, ApplySteps, SaveSteps, DownSteps, Ended
<1>. QED
  BY <1>1, <1>2, <1>3, <1>4, <1>5, <1>6, <1>7, <1>8, <1>9, <1>10, <1>11,
      <1>12, <1>13, <1>14, <1>15, <1>16, <1>17, <1>18, <1>19, <1>20
  DEF Next, ProcessStep, Environment, ApplyStep, SaveStep, DownStep

\* An inode gets a name from its creator, before which it has none.
LEMMA NamedStep ==
    ASSUME TypeOK, Course, Named, TypeOK', [Next]_vars
    PROVE  Named'
<1>1. ASSUME NEW p \in Procs, NEW c \in Commands, Start(p, c) PROVE Named'
  BY <1>1, Distinct
  DEF Start, Named, Course, InFlight, Commands, TypeOK, ProcTypes,
      FileTypes, StepTypes, Goto, Finish, procVars, podmanVars, fileVars,
      Steps, HoldingSteps, ApplySteps, SaveSteps, DownSteps, Ended
<1>2. ASSUME NEW p \in Procs, CheckExists(p) PROVE Named'
  BY <1>2, Distinct
  DEF CheckExists, Named, Course, InFlight, Commands, TypeOK,
      ProcTypes, FileTypes, StepTypes, Goto, Finish, procVars, podmanVars,
      fileVars, Steps, HoldingSteps, ApplySteps, SaveSteps, DownSteps, Ended
<1>3. ASSUME NEW p \in Procs, PublishImages(p) PROVE Named'
  BY <1>3, Distinct
  DEF PublishImages, Named, Course, InFlight, Commands, TypeOK,
      ProcTypes, FileTypes, StepTypes, Goto, Finish, procVars, podmanVars,
      fileVars, Steps, HoldingSteps, ApplySteps, SaveSteps, DownSteps, Ended
<1>4. ASSUME NEW p \in Procs, LifecycleOk(p) PROVE Named'
  BY <1>4, Distinct
  DEF LifecycleOk, CreatedBy, Named, Course, InFlight, Commands, TypeOK,
      ProcTypes, FileTypes, StepTypes, Goto, Finish, procVars, podmanVars,
      fileVars, Steps, HoldingSteps, ApplySteps, SaveSteps, DownSteps, Ended
<1>5. ASSUME NEW p \in Procs, LifecycleFails(p) PROVE Named'
  BY <1>5, Distinct
  DEF LifecycleFails, CreatedBy, NewStatus, Named, Course, InFlight, Commands,
      TypeOK, ProcTypes, FileTypes, StepTypes, Goto, Finish,
      procVars, podmanVars, fileVars, Steps, HoldingSteps, ApplySteps,
      SaveSteps, DownSteps, Ended
<1>6. ASSUME NEW p \in Procs, StampState(p) PROVE Named'
  BY <1>6, Distinct
  DEF StampState, Named, Course, InFlight, Commands, TypeOK,
      ProcTypes, FileTypes, StepTypes, Goto, Finish, procVars, podmanVars,
      fileVars, Steps, HoldingSteps, ApplySteps, SaveSteps, DownSteps, Ended
<1>7. ASSUME NEW p \in Procs, RollbackNext(p) PROVE Named'
  BY <1>7, Distinct
  DEF RollbackNext, Named, Course, InFlight, Commands, TypeOK,
      ProcTypes, FileTypes, StepTypes, Goto, Finish, procVars, podmanVars,
      fileVars, Steps, HoldingSteps, ApplySteps, SaveSteps, DownSteps, Ended
<1>8. ASSUME NEW p \in Procs, RollbackEnds(p) PROVE Named'
  BY <1>8, Distinct
  DEF RollbackEnds, Named, Course, InFlight, Commands, TypeOK,
      ProcTypes, FileTypes, StepTypes, Goto, Finish, procVars, podmanVars,
      fileVars, Steps, HoldingSteps, ApplySteps, SaveSteps, DownSteps, Ended
<1>9. ASSUME NEW p \in Procs, OpenTmp(p) PROVE Named'
  BY <1>9, Distinct
  DEF OpenTmp, SaveFails, Named, Course, InFlight, Commands, TypeOK,
      ProcTypes, FileTypes, StepTypes, Goto, Finish, procVars, podmanVars,
      fileVars, Steps, HoldingSteps, ApplySteps, SaveSteps, DownSteps, Ended
<1>10. ASSUME NEW p \in Procs, WriteTmp(p) PROVE Named'
  BY <1>10, Distinct
  DEF WriteTmp, SaveFails, Named, Course, InFlight, Commands, TypeOK,
      ProcTypes, FileTypes, StepTypes, Goto, Finish, procVars, podmanVars,
      fileVars, Steps, HoldingSteps, ApplySteps, SaveSteps, DownSteps, Ended
<1>11. ASSUME NEW p \in Procs, RenameTmp(p) PROVE Named'
  BY <1>11, Distinct
  DEF RenameTmp, SaveFails, Named, Course, InFlight, Commands, TypeOK,
      ProcTypes, FileTypes, StepTypes, Goto, Finish, procVars, podmanVars,
      fileVars, Steps, HoldingSteps, ApplySteps, SaveSteps, DownSteps, Ended
<1>12. ASSUME NEW p \in Procs, LoadState(p) PROVE Named'
  BY <1>12, Distinct
  DEF LoadState, Named, Course, InFlight, Commands, TypeOK,
      ProcTypes, FileTypes, StepTypes, Goto, Finish, procVars, podmanVars,
      fileVars, Steps, HoldingSteps, ApplySteps, SaveSteps, DownSteps, Ended
<1>13. ASSUME NEW p \in Procs, InspectService(p) PROVE Named'
  BY <1>13, Distinct
  DEF InspectService, Named, Course, InFlight, Commands, TypeOK,
      ProcTypes, FileTypes, StepTypes, Goto, Finish, procVars, podmanVars,
      fileVars, Steps, HoldingSteps, ApplySteps, SaveSteps, DownSteps, Ended
<1>14. ASSUME NEW p \in Procs, StopService(p) PROVE Named'
  BY <1>14, Distinct
  DEF StopService, Named, Course, InFlight, Commands, TypeOK,
      ProcTypes, FileTypes, StepTypes, Goto, Finish, procVars, podmanVars,
      fileVars, Steps, HoldingSteps, ApplySteps, SaveSteps, DownSteps, Ended
<1>15. ASSUME NEW p \in Procs, MarkDown(p) PROVE Named'
  BY <1>15, Distinct
  DEF MarkDown, Named, Course, InFlight, Commands, TypeOK,
      ProcTypes, FileTypes, StepTypes, Goto, Finish, procVars, podmanVars,
      fileVars, Steps, HoldingSteps, ApplySteps, SaveSteps, DownSteps, Ended
<1>16. ASSUME NEW p \in Procs, QueryService(p) PROVE Named'
  BY <1>16, Distinct
  DEF QueryService, Named, Course, InFlight, Commands, TypeOK,
      ProcTypes, FileTypes, StepTypes, Goto, Finish, procVars, podmanVars,
      fileVars, Steps, HoldingSteps, ApplySteps, SaveSteps, DownSteps, Ended
<1>17. ASSUME NEW p \in Procs, Crash(p) PROVE Named'
  BY <1>17, Distinct
  DEF Crash, Named, Course, InFlight, Commands, TypeOK, ProcTypes,
      FileTypes, StepTypes, Goto, Finish, procVars, podmanVars, fileVars,
      Steps, HoldingSteps, ApplySteps, SaveSteps, DownSteps, Ended
<1>18. ASSUME NEW p \in Procs, NEW s \in Names, ContainerExits(p, s) PROVE Named'
  BY <1>18, Distinct
  DEF ContainerExits, Named, Course, InFlight, Commands, TypeOK,
      ProcTypes, FileTypes, StepTypes, Goto, Finish, procVars, podmanVars,
      fileVars, Steps, HoldingSteps, ApplySteps, SaveSteps, DownSteps, Ended
<1>19. ASSUME NEW p \in Procs, NEW s \in Names, ContainerRemoved(p, s) PROVE Named'
  BY <1>19, Distinct
  DEF ContainerRemoved, Named, Course, InFlight, Commands, TypeOK,
      ProcTypes, FileTypes, StepTypes, Goto, Finish, procVars, podmanVars,
      fileVars, Steps, HoldingSteps, ApplySteps, SaveSteps, DownSteps, Ended
<1>20. CASE UNCHANGED vars
  BY <1>20 DEF vars, Named, Course, InFlight, Commands, TypeOK,
      ProcTypes, FileTypes, StepTypes, Goto, Finish, procVars, podmanVars,
      fileVars, Steps, HoldingSteps, ApplySteps, SaveSteps, DownSteps, Ended
<1>. QED
  BY <1>1, <1>2, <1>3, <1>4, <1>5, <1>6, <1>7, <1>8, <1>9, <1>10, <1>11,
      <1>12, <1>13, <1>14, <1>15, <1>16, <1>17, <1>18, <1>19, <1>20
  DEF Next, ProcessStep, Environment, ApplyStep, SaveStep, DownStep

\* Nobody writes to the temporary file of a save but the save.
LEMMA SavingStep ==
    ASSUME SerialInv, TypeOK', [Next]_vars, OneWriterAtATime
    PROVE  Saving'
<1>1. ASSUME NEW p \in Procs, StampState(p) PROVE Saving'
  BY <1>1, Distinct
  DEF StampState, Saving, Named, Alone, Course, InFlight, Overwritten,
      SerialInv, TypeOK, ProcTypes, FileTypes, StepTypes, Goto, Finish,
      procVars, podmanVars, fileVars, Steps, HoldingSteps, ApplySteps,
      SaveSteps, DownSteps, Ended
<1>2. ASSUME NEW p \in Procs, OpenTmp(p) PROVE Saving'
  BY <1>2, Distinct
  DEF OpenTmp, SaveFails, Saving, Named, Alone, Course, InFlight, Overwritten,
      SerialInv, TypeOK, ProcTypes, FileTypes, StepTypes, Goto, Finish,
      procVars, podmanVars, fileVars, Steps, HoldingSteps, ApplySteps,
      SaveSteps, DownSteps, Ended
<1>3. ASSUME NEW p \in Procs, WriteTmp(p) PROVE Saving'
  BY <1>3, Distinct
  DEF WriteTmp, SaveFails, Saving, Named, Alone, Course, InFlight,
      Overwritten, SerialInv, TypeOK, ProcTypes, FileTypes, StepTypes, Goto,
      Finish, procVars, podmanVars, fileVars, Steps, HoldingSteps, ApplySteps,
      SaveSteps, DownSteps, Ended
<1>4. ASSUME NEW p \in Procs, RenameTmp(p) PROVE Saving'
  BY <1>4, Distinct
  DEF RenameTmp, SaveFails, Saving, Named, Alone, Course, InFlight,
      Overwritten, SerialInv, TypeOK, ProcTypes, FileTypes, StepTypes, Goto,
      Finish, procVars, podmanVars, fileVars, Steps, HoldingSteps, ApplySteps,
      SaveSteps, DownSteps, Ended
<1>5. ASSUME NEW p \in Procs, MarkDown(p) PROVE Saving'
  BY <1>5, Distinct
  DEF MarkDown, Saving, Named, Alone, Course, InFlight, Overwritten,
      SerialInv, TypeOK, ProcTypes, FileTypes, StepTypes, Goto, Finish,
      procVars, podmanVars, fileVars, Steps, HoldingSteps, ApplySteps,
      SaveSteps, DownSteps, Ended
<1>6. ASSUME NEW p \in Procs, LoadState(p) PROVE Saving'
  BY <1>6, Distinct
  DEF LoadState, Saving, Named, Alone, Course, InFlight, Overwritten,
      SerialInv, TypeOK, ProcTypes, FileTypes, StepTypes, Goto, Finish,
      procVars, podmanVars, fileVars, Steps, HoldingSteps, ApplySteps,
      SaveSteps, DownSteps, Ended
\* the other steps leave it as it is
<1>7. ASSUME NEW p \in Procs,
             \/ (\E c \in Commands : Start(p, c)) \/ CheckExists(p)
             \/ PublishImages(p) \/ LifecycleOk(p) \/ LifecycleFails(p)
             \/ RollbackNext(p) \/ RollbackEnds(p) \/ InspectService(p)
             \/ StopService(p) \/ QueryService(p) \/ Crash(p)
             \/ (\E s \in Names : ContainerExits(p, s))
             \/ (\E s \in Names : ContainerRemoved(p, s))
      PROVE  Saving'
  BY <1>7, Distinct
  DEF Start, CheckExists, PublishImages, LifecycleOk, LifecycleFails,
      RollbackNext, RollbackEnds, InspectService, StopService, QueryService,
      Crash, ContainerExits, ContainerRemoved, CreatedBy, NewStatus, Saving,
      Named, Alone, Course, InFlight, Overwritten, SerialInv, TypeOK,
      ProcTypes, FileTypes, StepTypes, Goto, Finish, procVars, podmanVars,
      fileVars, Steps, HoldingSteps, ApplySteps, SaveSteps, DownSteps, Ended
<1>8. CASE UNCHANGED vars
  BY <1>8 DEF vars, Saving, Named, Alone, Course, InFlight, Overwritten,
      SerialInv, TypeOK, ProcTypes, FileTypes, StepTypes, Goto, Finish,
      procVars, podmanVars, fileVars, Steps, HoldingSteps, ApplySteps,
      SaveSteps, DownSteps, Ended
<1>. QED
  BY <1>1, <1>2, <1>3, <1>4, <1>5, <1>6, <1>7, <1>8
  DEF Next, ProcessStep, Environment, ApplyStep, SaveStep, DownStep

\* What keeps the state file, its contents and who succeeded keeps Committed.
LEMMA CommittedKept ==
    ASSUME TypeOK, Committed, stateFile' = stateFile,
           stateFile # None => inode'[stateFile] = inode[stateFile],
           \A q \in Procs : (cmd'[q] = "apply" /\ result'[q] = "ok")
                                <=> (cmd[q] = "apply" /\ result[q] = "ok")
    PROVE  Committed'
<1>1. stateFile # None => inode[stateFile].owner \in Procs
  BY DEF Committed, RunState
<1>. QED
  BY <1>1 DEF Committed

\* The state file changes only when the one writer renames a whole state over it.
LEMMA CommittedStep ==
    ASSUME SerialInv, TypeOK', [Next]_vars, OneWriterAtATime
    PROVE  Committed'
<1>1. ASSUME NEW p \in Procs, NEW c \in Commands, Start(p, c) PROVE Committed'
  <2>1. result' = result /\ result[p] = "none" /\ UNCHANGED <<stateFile, inode>>
    BY <1>1 DEF Start, SerialInv, Course, Ended, fileVars
  <2>2. \A q \in Procs \ {p} : cmd'[q] = cmd[q]
    BY <1>1 DEF Start, TypeOK, ProcTypes
  <2>. QED
    BY <2>1, <2>2, CommittedKept DEF SerialInv
<1>2. ASSUME NEW p \in Procs, CheckExists(p) PROVE Committed'
  <2>1. UNCHANGED <<cmd, stateFile, inode>>
    BY <1>2 DEF CheckExists, procVars, fileVars
  <2>2. \A q \in Procs : (result'[q] = "ok") = (result[q] = "ok")
    BY <1>2 DEF CheckExists, Finish, procVars, SerialInv, Course, Ended, TypeOK, ProcTypes
  <2>. QED
    BY <2>1, <2>2, CommittedKept DEF SerialInv
<1>3. ASSUME NEW p \in Procs, PublishImages(p) PROVE Committed'
  <2>1. UNCHANGED <<cmd, stateFile, inode>>
    BY <1>3 DEF PublishImages, procVars, fileVars
  <2>2. \A q \in Procs : (result'[q] = "ok") = (result[q] = "ok")
    BY <1>3 DEF PublishImages, Finish, procVars, SerialInv, Course, Ended, TypeOK, ProcTypes
  <2>. QED
    BY <2>1, <2>2, CommittedKept DEF SerialInv
<1>4. ASSUME NEW p \in Procs, LifecycleOk(p) PROVE Committed'
  <2>1. UNCHANGED <<cmd, stateFile, inode>>
    BY <1>4 DEF LifecycleOk, procVars, fileVars
  <2>2. \A q \in Procs : (result'[q] = "ok") = (result[q] = "ok")
    BY <1>4 DEF LifecycleOk, Finish, procVars, SerialInv, Course, Ended, TypeOK, ProcTypes
  <2>. QED
    BY <2>1, <2>2, CommittedKept DEF SerialInv
<1>5. ASSUME NEW p \in Procs, LifecycleFails(p) PROVE Committed'
  <2>1. UNCHANGED <<cmd, stateFile, inode>>
    BY <1>5 DEF LifecycleFails, procVars, fileVars
  <2>2. \A q \in Procs : (result'[q] = "ok") = (result[q] = "ok")
    BY <1>5 DEF LifecycleFails, Finish, procVars, SerialInv, Course, Ended, TypeOK, ProcTypes
  <2>. QED
    BY <2>1, <2>2, CommittedKept DEF SerialInv
<1>6. ASSUME NEW p \in Procs, StampState(p) PROVE Committed'
  <2>1. UNCHANGED <<cmd, stateFile, inode>>
    BY <1>6 DEF StampState, procVars, fileVars
  <2>2. \A q \in Procs : (result'[q] = "ok") = (result[q] = "ok")
    BY <1>6 DEF StampState, Finish, procVars, SerialInv, Course, Ended, TypeOK, ProcTypes
  <2>. QED
    BY <2>1, <2>2, CommittedKept DEF SerialInv
<1>7. ASSUME NEW p \in Procs, RollbackNext(p) PROVE Committed'
  <2>1. UNCHANGED <<cmd, stateFile, inode>>
    BY <1>7 DEF RollbackNext, procVars, fileVars
  <2>2. \A q \in Procs : (result'[q] = "ok") = (result[q] = "ok")
    BY <1>7 DEF RollbackNext, Finish, procVars, SerialInv, Course, Ended, TypeOK, ProcTypes
  <2>. QED
    BY <2>1, <2>2, CommittedKept DEF SerialInv
<1>8. ASSUME NEW p \in Procs, RollbackEnds(p) PROVE Committed'
  <2>1. UNCHANGED <<cmd, stateFile, inode>>
    BY <1>8 DEF RollbackEnds, procVars, fileVars
  <2>2. \A q \in Procs : (result'[q] = "ok") = (result[q] = "ok")
    BY <1>8 DEF RollbackEnds, Finish, procVars, SerialInv, Course, Ended, TypeOK, ProcTypes
  <2>. QED
    BY <2>1, <2>2, CommittedKept DEF SerialInv
<1>9. ASSUME NEW p \in Procs, OpenTmp(p) PROVE Committed'
  <2>1. result[p] = "none" /\ cmd' = cmd /\ stateFile' = stateFile
    BY <1>9 DEF OpenTmp, SerialInv, Course, Ended
  <2>2. \A q \in Procs : (result'[q] = "ok") = (result[q] = "ok")
    BY <1>9, <2>1 DEF OpenTmp, SaveFails, TypeOK, ProcTypes
  <2>3. stateFile # None => inode'[stateFile] = inode[stateFile]
    BY <1>9 DEF OpenTmp, SaveFails, SerialInv, Named, Ended, TypeOK, FileTypes
  <2>. QED
    BY <2>1, <2>2, <2>3, CommittedKept DEF SerialInv
<1>10. ASSUME NEW p \in Procs, WriteTmp(p) PROVE Committed'
  <2>1. result[p] = "none" /\ cmd' = cmd /\ stateFile' = stateFile
    BY <1>10 DEF WriteTmp, SerialInv, Course, Ended
  <2>2. \A q \in Procs : (result'[q] = "ok") = (result[q] = "ok")
    BY <1>10, <2>1 DEF WriteTmp, SaveFails, TypeOK, ProcTypes
  <2>3. fd[p] # stateFile
    BY <1>10 DEF WriteTmp, SerialInv, Saving, Named
  <2>4. stateFile # None => inode'[stateFile] = inode[stateFile]
    BY <1>10, <2>3 DEF WriteTmp, TypeOK, FileTypes
  <2>. QED
    BY <2>1, <2>2, <2>4, CommittedKept DEF SerialInv
<1>11. ASSUME NEW p \in Procs, RenameTmp(p) PROVE Committed'
  <2>1. /\ result[p] = "none" /\ cmd' = cmd /\ inode' = inode
        /\ cmd[p] \in {"apply", "down"} /\ pc[p] = "rename" /\ InFlight(p)
    BY <1>11 DEF RenameTmp, SerialInv, Course, InFlight, ApplySteps, DownSteps, Ended,
               TypeOK, ProcTypes, Commands
  <2>2. \A q \in Procs \ {p} : result'[q] = result[q]
    BY <1>11 DEF RenameTmp, SaveFails, Finish, TypeOK, ProcTypes
  <2>3. CASE stateFile' = tmpFile /\ tmpFile # None /\ result'[p] = "ok"
    <3>1. inode[tmpFile] = runState[p] /\ runState[p] \in RunState
      BY <2>1 DEF SerialInv, Saving, TypeOK, StepTypes, HoldingSteps, SaveSteps
    <3>2. CASE cmd[p] = "apply"
      <4>0. stateFile = None
        BY <2>1, <3>2 DEF SerialInv, Knows
      <4>1. runState[p].owner = p
        <5>1. runState[p] = [lifecycle |-> "running", owner |-> p]
          BY <2>1, <3>2 DEF SerialInv, Knows, SaveSteps
        <5>. QED BY <5>1
      <4>2. \A q \in Procs : ~(cmd[q] = "apply" /\ result[q] = "ok")
        BY <4>0 DEF SerialInv, Committed
      <4>. QED
        BY <2>1, <2>2, <2>3, <3>1, <3>2, <4>0, <4>1, <4>2 DEF Committed
    <3>3. CASE cmd[p] = "down"
      <4>1. stateFile # None /\ runState[p].owner = inode[stateFile].owner
        BY <2>1, <3>3 DEF SerialInv, Knows, SaveSteps
      <4>2. runState[p].owner \in Procs \ {p}
        BY <3>1, <3>3, <4>1 DEF SerialInv, Committed, RunState
      <4>. QED
        BY <2>1, <2>2, <2>3, <3>1, <3>3, <4>1, <4>2 DEF SerialInv, Committed
    <3>. QED
      BY <2>1, <3>2, <3>3
  <2>4. CASE stateFile' = stateFile /\ result'[p] = "save"
    BY <2>1, <2>2, <2>4, CommittedKept DEF SerialInv
  <2>. QED
    BY <1>11, <2>3, <2>4 DEF RenameTmp, SaveFails, Finish, TypeOK, ProcTypes
<1>12. ASSUME NEW p \in Procs, LoadState(p) PROVE Committed'
  <2>1. UNCHANGED <<cmd, stateFile, inode>>
    BY <1>12 DEF LoadState, procVars, fileVars
  <2>2. \A q \in Procs : (result'[q] = "ok") = (result[q] = "ok")
    BY <1>12 DEF LoadState, Finish, procVars, SerialInv, Course, Ended, TypeOK, ProcTypes
  <2>. QED
    BY <2>1, <2>2, CommittedKept DEF SerialInv
<1>13. ASSUME NEW p \in Procs, InspectService(p) PROVE Committed'
  <2>1. UNCHANGED <<cmd, stateFile, inode>>
    BY <1>13 DEF InspectService, procVars, fileVars
  <2>2. \A q \in Procs : (result'[q] = "ok") = (result[q] = "ok")
    BY <1>13 DEF InspectService, Finish, procVars, SerialInv, Course, Ended, TypeOK, ProcTypes
  <2>. QED
    BY <2>1, <2>2, CommittedKept DEF SerialInv
<1>14. ASSUME NEW p \in Procs, StopService(p) PROVE Committed'
  <2>1. UNCHANGED <<cmd, stateFile, inode>>
    BY <1>14 DEF StopService, procVars, fileVars
  <2>2. \A q \in Procs : (result'[q] = "ok") = (result[q] = "ok")
    BY <1>14 DEF StopService, Finish, procVars, SerialInv, Course, Ended, TypeOK, ProcTypes
  <2>. QED
    BY <2>1, <2>2, CommittedKept DEF SerialInv
<1>15. ASSUME NEW p \in Procs, MarkDown(p) PROVE Committed'
  <2>1. UNCHANGED <<cmd, stateFile, inode>>
    BY <1>15 DEF MarkDown, procVars, fileVars
  <2>2. \A q \in Procs : (result'[q] = "ok") = (result[q] = "ok")
    BY <1>15 DEF MarkDown, Finish, procVars, SerialInv, Course, Ended, TypeOK, ProcTypes
  <2>. QED
    BY <2>1, <2>2, CommittedKept DEF SerialInv
<1>16. ASSUME NEW p \in Procs, QueryService(p) PROVE Committed'
  <2>1. cmd[p] # "apply" /\ UNCHANGED <<cmd, stateFile, inode>>
    BY <1>16 DEF QueryService, SerialInv, Course, ApplySteps, SaveSteps, Ended, fileVars
  <2>2. \A q \in Procs \ {p} : result'[q] = result[q]
    BY <1>16 DEF QueryService, Finish, TypeOK, ProcTypes
  <2>. QED
    BY <2>1, <2>2, CommittedKept DEF SerialInv
<1>17. ASSUME NEW p \in Procs, Crash(p) PROVE Committed'
  <2>1. UNCHANGED <<cmd, stateFile, inode>>
    BY <1>17 DEF Crash, procVars, fileVars
  <2>2. \A q \in Procs : (result'[q] = "ok") = (result[q] = "ok")
    BY <1>17 DEF Crash, Finish, procVars, SerialInv, Course, Ended, TypeOK, ProcTypes
  <2>. QED
    BY <2>1, <2>2, CommittedKept DEF SerialInv
<1>18. ASSUME NEW p \in Procs, NEW s \in Names, ContainerExits(p, s) PROVE Committed'
  <2>1. UNCHANGED <<cmd, stateFile, inode>>
    BY <1>18 DEF ContainerExits, procVars, fileVars
  <2>2. \A q \in Procs : (result'[q] = "ok") = (result[q] = "ok")
    BY <1>18 DEF ContainerExits, Finish, procVars, SerialInv, Course, Ended, TypeOK, ProcTypes
  <2>. QED
    BY <2>1, <2>2, CommittedKept DEF SerialInv
<1>19. ASSUME NEW p \in Procs, NEW s \in Names, ContainerRemoved(p, s) PROVE Committed'
  <2>1. UNCHANGED <<cmd, stateFile, inode>>
    BY <1>19 DEF ContainerRemoved, procVars, fileVars
  <2>2. \A q \in Procs : (result'[q] = "ok") = (result[q] = "ok")
    BY <1>19 DEF ContainerRemoved, Finish, procVars, SerialInv, Course, Ended, TypeOK, ProcTypes
  <2>. QED
    BY <2>1, <2>2, CommittedKept DEF SerialInv
<1>20. CASE UNCHANGED vars
  BY <1>20 DEF vars, Committed, Saving, Named, Alone, Course, Knows, InFlight,
      SerialInv, TypeOK, ProcTypes, FileTypes, StepTypes, Goto, Finish,
      procVars, podmanVars, fileVars, Steps, HoldingSteps, ApplySteps,
      SaveSteps, DownSteps, Ended
<1>. QED
  BY <1>1, <1>2, <1>3, <1>4, <1>5, <1>6, <1>7, <1>8, <1>9, <1>10, <1>11,
      <1>12, <1>13, <1>14, <1>15, <1>16, <1>17, <1>18, <1>19, <1>20
  DEF Next, ProcessStep, Environment, ApplyStep, SaveStep, DownStep

\* No other command changes the state file under a command that goes by it.
LEMMA KnowsStep ==
    ASSUME SerialInv, TypeOK', [Next]_vars, OneWriterAtATime
    PROVE  Knows'
<1>1. ASSUME NEW p \in Procs, NEW c \in Commands, Start(p, c) PROVE Knows'
  BY <1>1, Distinct
  DEF Start, Knows, Committed, Saving, Named, Alone, Course, InFlight,
      StateContents, SerialInv, TypeOK, ProcTypes, FileTypes, StepTypes, Goto,
      Finish, procVars, podmanVars, fileVars, Steps, HoldingSteps, ApplySteps,
      SaveSteps, DownSteps, Ended
<1>2. ASSUME NEW p \in Procs, CheckExists(p) PROVE Knows'
  BY <1>2, Distinct
  DEF CheckExists, Knows, Committed, Saving, Named, Alone, Course, InFlight,
      StateContents, SerialInv, TypeOK, ProcTypes, FileTypes, StepTypes, Goto,
      Finish, procVars, podmanVars, fileVars, Steps, HoldingSteps, ApplySteps,
      SaveSteps, DownSteps, Ended
<1>3. ASSUME NEW p \in Procs, StampState(p) PROVE Knows'
  BY <1>3, Distinct
  DEF StampState, Knows, Committed, Saving, Named, Alone, Course, InFlight,
      StateContents, SerialInv, TypeOK, ProcTypes, FileTypes, StepTypes, Goto,
      Finish, procVars, podmanVars, fileVars, Steps, HoldingSteps, ApplySteps,
      SaveSteps, DownSteps, Ended
<1>4. ASSUME NEW p \in Procs, OpenTmp(p) PROVE Knows'
  BY <1>4, Distinct
  DEF OpenTmp, SaveFails, Knows, Committed, Saving, Named, Alone, Course,
      InFlight, StateContents, SerialInv, TypeOK, ProcTypes, FileTypes,
      StepTypes, Goto, Finish, procVars, podmanVars, fileVars, Steps,
      HoldingSteps, ApplySteps, SaveSteps, DownSteps, Ended
<1>5. ASSUME NEW p \in Procs, WriteTmp(p) PROVE Knows'
  BY <1>5, Distinct
  DEF WriteTmp, SaveFails, Knows, Committed, Saving, Named, Alone, Course,
      InFlight, StateContents, SerialInv, TypeOK, ProcTypes, FileTypes,
      StepTypes, Goto, Finish, procVars, podmanVars, fileVars, Steps,
      HoldingSteps, ApplySteps, SaveSteps, DownSteps, Ended
<1>6. ASSUME NEW p \in Procs, RenameTmp(p) PROVE Knows'
  BY <1>6, Distinct
  DEF RenameTmp, SaveFails, Knows, Committed, Saving, Named, Alone, Course,
      InFlight, StateContents, SerialInv, TypeOK, ProcTypes, FileTypes,
      StepTypes, Goto, Finish, procVars, podmanVars, fileVars, Steps,
      HoldingSteps, ApplySteps, SaveSteps, DownSteps, Ended
<1>7. ASSUME NEW p \in Procs, LoadState(p) PROVE Knows'
  <2>1. UNCHANGED <<cmd, stateFile, inode>>
    BY <1>7 DEF LoadState, fileVars
  <2>2. \A q \in Procs \ {p} : pc'[q] = pc[q] /\ runState'[q] = runState[q]
    BY <1>7 DEF LoadState, Goto, Finish, TypeOK, ProcTypes
  <2>3. pc'[p] \in {"done", "query", "inspect"}
    BY <1>7 DEF LoadState, Goto, Finish, TypeOK, ProcTypes
  <2>4. cmd[p] \in {"down", "status"}
    BY <1>7 DEF LoadState, SerialInv, Course, ApplySteps, SaveSteps, Ended, TypeOK,
               ProcTypes, Commands
  <2>5. ASSUME pc'[p] = "inspect"
        PROVE  /\ stateFile # None /\ runState'[p] = inode[stateFile]
               /\ inode[stateFile].lifecycle = "running"
    <3>1. StateContents # None /\ StateContents \notin {Empty, Garbled}
      BY <1>7, <2>5 DEF LoadState, Finish, Goto, TypeOK, ProcTypes
    <3>2. /\ runState'[p] = StateContents
          /\ ~(cmd[p] = "down" /\ StateContents.lifecycle = "down")
          /\ cmd[p] = "down"
      BY <1>7, <2>5, <3>1 DEF LoadState, Finish, Goto, TypeOK, ProcTypes
    <3>3. stateFile # None /\ StateContents = inode[stateFile]
      BY <3>1 DEF StateContents
    <3>4. StateContents.lifecycle \in {"running", "down"}
      BY <3>3 DEF SerialInv, Committed, RunState, Lifecycle
    <3>. QED
      BY <3>2, <3>3, <3>4
  <2>6. (cmd[p] = "down" /\ pc'[p] \in {"inspect", "stop"} \cup SaveSteps) =>
            /\ stateFile # None
            /\ runState'[p].owner = inode[stateFile].owner
            /\ inode[stateFile].lifecycle = "running"
    BY <2>3, <2>5 DEF SaveSteps
  <2>7. pc'[p] \notin SaveSteps
    BY <2>3 DEF SaveSteps
  <2>8. \A q \in Procs \ {p} : InFlight(q)' = InFlight(q)
    BY <2>2 DEF InFlight
  <2>. QED
    BY <2>1, <2>2, <2>4, <2>6, <2>7, <2>8 DEF SerialInv, Knows
<1>8. ASSUME NEW p \in Procs, MarkDown(p) PROVE Knows'
  <2>1. UNCHANGED <<cmd, stateFile, inode>>
    BY <1>8 DEF MarkDown, fileVars
  <2>2. \A q \in Procs \ {p} : pc'[q] = pc[q] /\ runState'[q] = runState[q]
    BY <1>8 DEF MarkDown, Goto, TypeOK, ProcTypes
  <2>3. pc'[p] = "open" /\ pc[p] = "inspect" /\ cmd[p] = "down"
    BY <1>8 DEF MarkDown, Goto, SerialInv, Course, ApplySteps, SaveSteps, Ended, TypeOK,
               ProcTypes, Commands
  <2>4. runState'[p].owner = runState[p].owner /\ runState'[p].lifecycle = "down"
    BY <1>8, <2>3 DEF MarkDown, TypeOK, ProcTypes, StepTypes, HoldingSteps, RunState
  <2>5. /\ stateFile # None
        /\ runState'[p].owner = inode[stateFile].owner
        /\ inode[stateFile].lifecycle = "running"
    BY <2>3, <2>4 DEF SerialInv, Knows
  <2>6. \A q \in Procs \ {p} : InFlight(q)' = InFlight(q)
    BY <2>2 DEF InFlight
  <2>. QED
    BY <2>1, <2>2, <2>3, <2>4, <2>5, <2>6 DEF SerialInv, Knows
\* the other steps leave it as it is
<1>9. ASSUME NEW p \in Procs,
             \/ PublishImages(p) \/ LifecycleOk(p) \/ LifecycleFails(p)
             \/ RollbackNext(p) \/ RollbackEnds(p) \/ InspectService(p)
             \/ StopService(p) \/ QueryService(p) \/ Crash(p)
             \/ (\E s \in Names : ContainerExits(p, s))
             \/ (\E s \in Names : ContainerRemoved(p, s))
      PROVE  Knows'
  BY <1>9, Distinct
  DEF PublishImages, LifecycleOk, LifecycleFails, RollbackNext, RollbackEnds,
      InspectService, StopService, QueryService, Crash, ContainerExits,
      ContainerRemoved, CreatedBy, NewStatus, Knows, Committed, Saving, Named,
      Alone, Course, InFlight, StateContents, SerialInv, TypeOK, ProcTypes,
      FileTypes, StepTypes, Goto, Finish, procVars, podmanVars, fileVars,
      Steps, HoldingSteps, ApplySteps, SaveSteps, DownSteps, Ended
<1>10. CASE UNCHANGED vars
  BY <1>10 DEF vars, Knows, Committed, Saving, Named, Alone, Course, InFlight,
      StateContents, SerialInv, TypeOK, ProcTypes, FileTypes, StepTypes, Goto,
      Finish, procVars, podmanVars, fileVars, Steps, HoldingSteps, ApplySteps,
      SaveSteps, DownSteps, Ended
<1>. QED
  BY <1>1, <1>2, <1>3, <1>4, <1>5, <1>6, <1>7, <1>8, <1>9, <1>10
  DEF Next, ProcessStep, Environment, ApplyStep, SaveStep, DownStep

-----------------------------------------------------------------------------
LEMMA InitCommit == Init => SerialInv /\ RollbackCovers
<1>. SUFFICES ASSUME Init PROVE SerialInv /\ RollbackCovers
  OBVIOUS
<1>1. TypeOK
  BY InitTypeOK
<1>2. Alone /\ Course /\ RollbackCovers
  BY DEF Init, Alone, InFlight, Course, RollbackCovers
<1>3. Named /\ Saving /\ Committed /\ Knows
  BY Distinct DEF Init, Named, Saving, Committed, Knows
<1>. QED BY <1>1, <1>2, <1>3 DEF SerialInv

LEMMA NextTypeOK == TypeOK /\ [Next]_vars => TypeOK'
BY ProcTypesStep, PodmanTypesStep, FileTypesStep, StepTypesStep DEF TypeOK

\* With any commands in flight at once and any fault, an apply that fails after its
\* helper returned leaves no container it was told of running, but those whose stop
\* failed.
THEOREM RollbackIsCompleteAlways == Spec => []RollbackIsComplete
<1>1. TypeOK /\ RollbackCovers /\ [Next]_vars => (TypeOK /\ RollbackCovers)'
  BY NextTypeOK, RollbackCoversStep
<1>2. TypeOK /\ RollbackCovers => RollbackIsComplete
  BY DEF RollbackCovers, Running, RollbackIsComplete, TypeOK, PodmanTypes
<1>. QED BY InitTypeOK, InitCommit, <1>1, <1>2, PTL DEF Spec

LEMMA SerialInvAlways == OneWriterAtATime => (Spec => []SerialInv)
<1>. SUFFICES ASSUME OneWriterAtATime PROVE Spec => []SerialInv
  OBVIOUS
<1>1. SerialInv /\ [Next]_vars => SerialInv'
  <2>. SUFFICES ASSUME SerialInv, [Next]_vars PROVE SerialInv'
    OBVIOUS
  <2>1. TypeOK'
    BY NextTypeOK DEF SerialInv
  <2>. QED
    BY <2>1, AloneStep, CourseStep, NamedStep, SavingStep, CommittedStep, KnowsStep
    DEF SerialInv
<1>. QED BY InitCommit, <1>1, PTL DEF Spec

\* When only `status` overlaps, a reader of the state file never sees a truncated or
\* mixed state, wherever a writer is killed or fails.
THEOREM StateFileReadableAlways == OneWriterAtATime => (Spec => []StateFileReadable)
<1>1. SerialInv => StateFileReadable
  BY DEF SerialInv, Committed, StateFileReadable, Readable, StateContents
<1>. QED BY <1>1, SerialInvAlways, PTL

\* When only `status` overlaps, the success of an apply is on disk for ever.
THEOREM SuccessIsPersistedAlways == OneWriterAtATime => (Spec => []SuccessIsPersisted)
<1>1. SerialInv => SuccessIsPersisted
  BY DEF SerialInv, Committed, SuccessIsPersisted, Readable, StateContents
<1>. QED BY <1>1, SerialInvAlways, PTL

\* When only `status` overlaps, the apply of the state on disk was not rolled back.
THEOREM CommittedIsNotRolledBackAlways ==
    OneWriterAtATime => (Spec => []CommittedIsNotRolledBack)
<1>1. SerialInv => CommittedIsNotRolledBack
  <2>. SUFFICES ASSUME SerialInv, Readable
                PROVE  /\ rollback[StateContents.owner] = {}
                       /\ result[StateContents.owner] \notin {"lifecycle", "save"}
    BY DEF CommittedIsNotRolledBack
  <2>1. stateFile # None /\ StateContents = inode[stateFile]
    BY Distinct DEF Readable, StateContents
  <2>2. StateContents.owner \in Procs /\ result[StateContents.owner] = "ok"
    BY <2>1 DEF SerialInv, Committed, RunState
  <2>. QED
    BY <2>2 DEF SerialInv, Course
<1>. QED BY <1>1, SerialInvAlways, PTL

\* When only `status` overlaps, the state on disk stays that of one apply, and never
\* goes from down back to running.
THEOREM StateIsFinalAlways == OneWriterAtATime => (Spec => StateIsFinal)
<1>. SUFFICES ASSUME OneWriterAtATime PROVE Spec => StateIsFinal
  OBVIOUS
<1>. DEFINE Final == Readable => /\ Readable'
                                 /\ StateContents'.owner = StateContents.owner
                                 /\ StateContents.lifecycle = "down" =>
                                       StateContents'.lifecycle = "down"
<1>1. SerialInv /\ SerialInv' /\ [Next]_vars => [Final]_vars
  <2>. SUFFICES ASSUME SerialInv, SerialInv', [Next]_vars, Readable
                PROVE  /\ Readable'
                       /\ StateContents'.owner = StateContents.owner
                       /\ StateContents.lifecycle = "down" =>
                             StateContents'.lifecycle = "down"
    OBVIOUS
  <2>1. stateFile # None /\ StateContents = inode[stateFile]
    BY Distinct DEF Readable, StateContents
  <2>2. CASE stateFile' = stateFile /\ inode'[stateFile] = inode[stateFile]
    BY <2>1, <2>2 DEF Readable, StateContents
  <2>3. ASSUME NEW p \in Procs, RenameTmp(p), stateFile' = tmpFile, tmpFile # None
        PROVE  /\ Readable'
               /\ StateContents'.owner = StateContents.owner
               /\ StateContents.lifecycle = "down" => StateContents'.lifecycle = "down"
    <3>1. /\ inode' = inode /\ inode[tmpFile] = runState[p] /\ runState[p] \in RunState
          /\ cmd[p] \in {"apply", "down"} /\ pc[p] = "rename" /\ InFlight(p)
      BY <2>3 DEF RenameTmp, SerialInv, Saving, Course, InFlight, ApplySteps, DownSteps,
                  Ended, TypeOK, ProcTypes, StepTypes, HoldingSteps, SaveSteps, Commands
    <3>2. cmd[p] = "down"
      BY <2>1, <3>1 DEF SerialInv, Knows
    <3>3. /\ runState[p].owner = inode[stateFile].owner
          /\ inode[stateFile].lifecycle = "running"
      BY <3>1, <3>2 DEF SerialInv, Knows, SaveSteps
    <3>4. StateContents' = runState[p]
      BY <2>3, <3>1 DEF StateContents
    <3>. QED
      BY <2>1, <3>1, <3>3, <3>4 DEF Readable
  <2>4. ASSUME NEW p \in Procs, OpenTmp(p)
        PROVE  stateFile' = stateFile /\ inode'[stateFile] = inode[stateFile]
    BY <2>1, <2>4 DEF OpenTmp, SaveFails, SerialInv, Named, Ended, TypeOK, FileTypes
  <2>5. ASSUME NEW p \in Procs, WriteTmp(p)
        PROVE  stateFile' = stateFile /\ inode'[stateFile] = inode[stateFile]
    BY <2>1, <2>5 DEF WriteTmp, SerialInv, Saving, Named, TypeOK, FileTypes
  <2>6. ASSUME NEW p \in Procs, RenameTmp(p)
        PROVE  \/ stateFile' = tmpFile /\ tmpFile # None
               \/ stateFile' = stateFile /\ inode'[stateFile] = inode[stateFile]
    BY <2>6 DEF RenameTmp
  <2>7. CASE UNCHANGED <<stateFile, inode>>
    BY <2>2, <2>7
  <2>. QED
    BY <2>2, <2>3, <2>4, <2>5, <2>6, <2>7
    DEF Next, ProcessStep, Environment, ApplyStep, SaveStep, DownStep, CheckExists,
        PublishImages, LifecycleOk, LifecycleFails, StampState, RollbackNext,
        RollbackEnds, LoadState, InspectService, StopService, MarkDown, QueryService,
        Start, Crash, ContainerExits, ContainerRemoved, fileVars, vars
<1>. QED BY SerialInvAlways, <1>1, PTL DEF StateIsFinal, Spec

-----------------------------------------------------------------------------
(* What is left running, whatever overlaps. *)

\* The helper reported containers to apply p.
Told(p) == reported[p] # {}

\* Two ways in which the state of an apply may be replaced, or its containers
\* stopped.  Neither is ever undone.
TwoApplies == \E p, q \in Procs : p # q /\ Told(p) /\ Told(q)

SomeStopped ==
    \E o \in Procs :
      /\ Told(o) /\ HasRun(pc, o)
      /\ \A i \in DOMAIN DownOrder : Stopped(container, unstopped, o, i)

Disturbed == TwoApplies \/ SomeStopped

\* Who was told of containers, and which states list them.
Reports ==
    \A p \in Procs :
      /\ Told(p) => cmd[p] = "apply" /\ HasRun(pc, p)
      /\ (cmd[p] = "apply" /\ pc[p] \in {"clock"} \cup SaveSteps) => Told(p)
      /\ (Told(p) /\ pc[p] = "done") => result[p] \in {"ok", "lifecycle", "clock", "save"}
      /\ runState[p] \in RunState => Told(runState[p].owner)
      /\ inode[p] \in RunState => Told(inode[p].owner)

\* What was saved stays; and a `down` saves a state marked down.
Saved ==
    \A p \in Procs :
      /\ (cmd[p] = "apply" /\ result[p] = "ok") => stateFile # None
      /\ (cmd[p] = "down" /\ pc[p] \in SaveSteps) => runState[p].lifecycle = "down"

\* While only one apply was told of containers and some of them may run, nobody
\* but that apply saves: the state file holds one whole state.
Quiet ==
    ~Disturbed =>
      /\ \A p \in Procs :
           /\ pc[p] = "write" => tmpFile # None /\ fd[p] = tmpFile /\ inode[tmpFile] = Empty
           /\ pc[p] = "rename" => tmpFile # None /\ inode[tmpFile] = runState[p]
      /\ stateFile # None => inode[stateFile] \in RunState

OrphanInv == IInv /\ RollbackCovers /\ Course /\ Named /\ Reports /\ Saved /\ Quiet

\* The list of reported containers of an apply is set by its helper only.
LEMMA ReportedStep ==
    ASSUME TypeOK, [Next]_vars, NEW p \in Procs, reported'[p] # reported[p]
    PROVE  pc[p] = "helper" /\ cmd'[p] = cmd[p] /\ pc'[p] \in {"clock", "rollback"}
<1>. USE DEF ProcTypes, PodmanTypes
<1>1. ASSUME NEW q \in Procs, LifecycleOk(q) \/ LifecycleFails(q)
      PROVE  pc[p] = "helper" /\ cmd'[p] = cmd[p] /\ pc'[p] \in {"clock", "rollback"}
  BY <1>1 DEF LifecycleOk, LifecycleFails
<1>. QED
  BY <1>1
  DEF Next, ProcessStep, Environment, ApplyStep, SaveStep, DownStep, CheckExists,
      PublishImages, StampState, RollbackNext, RollbackEnds, OpenTmp, WriteTmp,
      RenameTmp, LoadState, InspectService, StopService, MarkDown, QueryService, Start,
      Crash, ContainerExits, ContainerRemoved, vars

\* An apply that was told of containers stays one.
LEMMA ToldStable ==
    ASSUME TypeOK, Reports, [Next]_vars, NEW p \in Procs, Told(p)
    PROVE  Told(p)'
  BY ReportedStep DEF Reports, Told

\* Neither disturbance is ever undone.
LEMMA DisturbedStable ==
    ASSUME TypeOK, Reports, [Next]_vars, Disturbed
    PROVE  Disturbed'
<1>1. CASE TwoApplies
  BY <1>1, ToldStable DEF TwoApplies, Disturbed
<1>2. CASE SomeStopped
  <2>1. PICK o \in Procs : /\ Told(o) /\ HasRun(pc, o)
                           /\ \A i \in DOMAIN DownOrder : Stopped(container, unstopped, o, i)
    BY <1>2 DEF SomeStopped
  <2>2. Told(o)'
    BY <2>1, ToldStable
  <2>3. HasRun(pc', o)
    BY <2>1, HasRunStable
  <2>4. \A i \in DOMAIN DownOrder : Stopped(container', unstopped', o, i)
    BY <2>1, StoppedStable
  <2>. QED
    BY <2>2, <2>3, <2>4 DEF SomeStopped, Disturbed
<1>. QED
  BY <1>1, <1>2 DEF Disturbed

\* How an apply comes to be told of containers, saves them and ends.
LEMMA ToldCourse ==
    ASSUME TypeOK, Course, Reports, Course', TypeOK', [Next]_vars, NEW p \in Procs
    PROVE  /\ Told(p)' => cmd'[p] = "apply" /\ HasRun(pc', p)
           /\ (cmd'[p] = "apply" /\ pc'[p] \in {"clock"} \cup SaveSteps) => Told(p)'
           /\ (Told(p)' /\ pc'[p] = "done") =>
                 result'[p] \in {"ok", "lifecycle", "clock", "save"}
<1>. DEFINE Goal == /\ Told(p)' => cmd'[p] = "apply" /\ HasRun(pc', p)
                    /\ (cmd'[p] = "apply" /\ pc'[p] \in {"clock"} \cup SaveSteps) => Told(p)'
                    /\ (Told(p)' /\ pc'[p] = "done") =>
                          result'[p] \in {"ok", "lifecycle", "clock", "save"}
<1>0. Services # {}
  BY ConstantsAssumption DEF Services
<1>1. CASE UNCHANGED <<pc[p], cmd[p], result[p], reported[p]>>
  BY <1>1 DEF Reports, Told
<1>2. CASE LifecycleOk(p) \/ LifecycleFails(p)
  <2>1. pc[p] = "helper" /\ cmd' = cmd
    BY <1>2 DEF LifecycleOk, LifecycleFails
  <2>2. cmd[p] = "apply"
    BY <2>1 DEF Course, ProcTypes, Commands
  <2>3. \/ pc'[p] = "clock" /\ reported'[p] # {}
        \/ pc'[p] = "rollback"
    BY <1>0, <1>2 DEF LifecycleOk, LifecycleFails, ProcTypes, PodmanTypes
  <2>. QED
    BY <2>1, <2>2, <2>3 DEF Told
<1>3. CASE CheckExists(p) \/ PublishImages(p)
  BY <1>3 DEF CheckExists, PublishImages, Reports, Told, ProcTypes
<1>4. CASE StampState(p) \/ RollbackNext(p) \/ RollbackEnds(p)
  BY <1>4 DEF StampState, RollbackNext, RollbackEnds, Reports, Told, ProcTypes, Course
<1>5. CASE SaveStep(p)
  BY <1>5 DEF SaveStep, OpenTmp, WriteTmp, RenameTmp, SaveFails, Reports, Told, ProcTypes
<1>6. CASE DownStep(p) \/ QueryService(p)
  <2>1. cmd[p] \in {"down", "status"}
    BY <1>6 DEF DownStep, LoadState, InspectService, StopService, MarkDown, QueryService,
                Course, ProcTypes, Commands
  <2>2. cmd' = cmd /\ reported' = reported
    BY <1>6 DEF DownStep, LoadState, InspectService, StopService, MarkDown, QueryService
  <2>. QED
    BY <2>1, <2>2 DEF Reports, Told
<1>7. CASE Environment(p)
  BY <1>7 DEF Environment, Start, Crash, ContainerExits, ContainerRemoved, Reports, Told,
              ProcTypes, InFlight
<1>8. ASSUME NEW q \in Procs \ {p}, ProcessStep(q) \/ Environment(q)
      PROVE  UNCHANGED <<pc[p], cmd[p], result[p], reported[p]>>
  <2>1. CASE ApplyStep(q)
    BY <2>1 DEF ApplyStep, CheckExists, PublishImages, LifecycleOk, LifecycleFails,
                StampState, RollbackNext, RollbackEnds, ProcTypes, PodmanTypes
  <2>2. CASE SaveStep(q)
    BY <2>2 DEF SaveStep, OpenTmp, WriteTmp, RenameTmp, SaveFails, ProcTypes
  <2>3. CASE DownStep(q) \/ QueryService(q)
    BY <2>3 DEF DownStep, LoadState, InspectService, StopService, MarkDown, QueryService,
                ProcTypes
  <2>4. CASE Environment(q)
    BY <2>4 DEF Environment, Start, Crash, ContainerExits, ContainerRemoved, ProcTypes
  <2>. QED
    BY <1>8, <2>1, <2>2, <2>3, <2>4 DEF ProcessStep
<1>9. CASE UNCHANGED vars
  BY <1>1, <1>9 DEF vars
<1>. QED
  BY <1>1, <1>2, <1>3, <1>4, <1>5, <1>6, <1>7, <1>8, <1>9 DEF Next, ProcessStep, ApplyStep

\* Every state lists the containers of an apply that was told of them.
LEMMA ReportsStep ==
    ASSUME TypeOK, Course, Reports, Course', TypeOK', [Next]_vars
    PROVE  Reports'
<1>0. \A state \in RunState : state.owner \in Procs
  BY DEF RunState
<1>1. \A q \in Procs : /\ runState[q] \in RunState => reported'[runState[q].owner] # {}
                       /\ inode[q] \in RunState => reported'[inode[q].owner] # {}
  <2>1. \A o \in Procs : Told(o) => reported'[o] # {}
    BY ToldStable DEF Told
  <2>. QED
    BY <1>0, <2>1 DEF Reports, Told
<1>. SUFFICES ASSUME NEW p \in Procs
              PROVE  /\ runState'[p] \in RunState => reported'[runState'[p].owner] # {}
                     /\ inode'[p] \in RunState => reported'[inode'[p].owner] # {}
  BY ToldCourse DEF Reports, Told
<1>2. runState'[p] \in RunState => reported'[runState'[p].owner] # {}
  <2>1. CASE pc[p] = "clock" /\ runState'[p] = [lifecycle |-> "running", owner |-> p]
    <3>1. Told(p)
      BY <2>1 DEF Reports, Course, ProcTypes, Commands
    <3>. QED
      BY <2>1, <3>1, ToldStable DEF Told
  <2>2. CASE MarkDown(p)
    <3>1. runState[p] \in RunState /\ runState'[p].owner = runState[p].owner
      BY <2>2 DEF MarkDown, StepTypes, ProcTypes, RunState
    <3>. QED
      BY <1>1, <3>1
  <2>. QED
    BY <1>1, <2>1, <2>2, StateComesFrom
<1>3. inode'[p] \in RunState => reported'[inode'[p].owner] # {}
  BY <1>1, InodeComesFrom
<1>. QED
  BY <1>2, <1>3

\* The state file, once there, stays; and a `down` saves what it marked down.
LEMMA SavedStep ==
    ASSUME TypeOK, Course, Saved, TypeOK', [Next]_vars
    PROVE  Saved'
<1>. USE DEF ProcTypes, FileTypes
<1>1. stateFile # None => stateFile' # None
  <2>1. ASSUME NEW q \in Procs, SaveStep(q) PROVE stateFile # None => stateFile' # None
    BY <2>1 DEF SaveStep, OpenTmp, WriteTmp, RenameTmp
  <2>. QED
    BY <2>1
    DEF Next, ProcessStep, Environment, ApplyStep, DownStep, CheckExists, PublishImages,
        LifecycleOk, LifecycleFails, StampState, RollbackNext, RollbackEnds, LoadState,
        InspectService, StopService, MarkDown, QueryService, Start, Crash,
        ContainerExits, ContainerRemoved, vars
<1>2. ASSUME NEW p \in Procs, NEW q \in Procs, ProcessStep(q) \/ Environment(q)
      PROVE  /\ (cmd'[p] = "apply" /\ result'[p] = "ok") => stateFile' # None
             /\ (cmd'[p] = "down" /\ pc'[p] \in SaveSteps) =>
                   runState'[p].lifecycle = "down"
  <2>1. CASE ApplyStep(q)
    BY <1>1, <2>1 DEF ApplyStep, CheckExists, PublishImages, LifecycleOk, LifecycleFails,
                      StampState, RollbackNext, RollbackEnds, Saved, Course
  <2>2. CASE SaveStep(q)
    BY <1>1, <2>2 DEF SaveStep, OpenTmp, WriteTmp, RenameTmp, SaveFails, Saved
  <2>3. CASE LoadState(q) \/ InspectService(q) \/ StopService(q) \/ QueryService(q)
    <3>0. pc[q] \in {"load", "inspect", "stop", "query"}
      BY <2>3 DEF LoadState, InspectService, StopService, QueryService
    <3>1. cmd' = cmd /\ cmd[q] # "apply"
      BY <2>3, <3>0 DEF LoadState, InspectService, StopService, QueryService, Course
    <3>3. \A r \in Procs \ {q} : UNCHANGED <<pc[r], result[r], runState[r]>>
      BY <2>3 DEF LoadState, InspectService, StopService, QueryService
    <3>2. pc'[q] \notin SaveSteps
      BY <2>3 DEF LoadState, InspectService, StopService, QueryService
    <3>. QED
      BY <1>1, <3>1, <3>2, <3>3 DEF Saved
  <2>4. CASE MarkDown(q)
    <3>1. runState[q] \in RunState
      BY <2>4 DEF MarkDown, StepTypes
    <3>2. runState'[q].lifecycle = "down"
      BY <2>4, <3>1 DEF MarkDown, RunState
    <3>3. q # p => runState'[p] = runState[p] /\ pc'[p] = pc[p]
      BY <2>4 DEF MarkDown
    <3>. QED
      BY <1>1, <2>4, <3>2, <3>3 DEF MarkDown, Saved
  <2>5. CASE Environment(q)
    BY <1>1, <2>5 DEF Environment, Start, Crash, ContainerExits, ContainerRemoved, Saved,
                      Course
  <2>. QED
    BY <1>2, <2>1, <2>2, <2>3, <2>4, <2>5 DEF ProcessStep, DownStep
<1>3. CASE UNCHANGED vars
  BY <1>3 DEF vars, Saved
<1>. QED
  BY <1>2, <1>3 DEF Next, Saved

\* While nothing is disturbed, at most one command saves, and it is an apply.
LEMMA OneSaver ==
    ASSUME IInv, Course, Reports, Saved, ~Disturbed, NEW p \in Procs, pc[p] \in SaveSteps
    PROVE  /\ cmd[p] = "apply"
           /\ \A q \in Procs \ {p} : pc[q] \notin SaveSteps
<1>. USE DEF IInv, ProcTypes
<1>1. ASSUME NEW q \in Procs, pc[q] \in SaveSteps PROVE cmd[q] = "apply" /\ Told(q)
  <2>1. runState[q] \in RunState /\ runState[q].owner \in Procs
    BY <1>1 DEF StepTypes, RunState
  <2>2. ASSUME cmd[q] = "down" PROVE FALSE
    <3>1. runState[q].lifecycle = "down"
      BY <1>1, <2>2 DEF Saved
    <3>2. \A i \in DOMAIN DownOrder : Stopped(container, unstopped, runState[q].owner, i)
      BY <2>1, <3>1 DEF DownIsStopped
    <3>3. Told(runState[q].owner) /\ HasRun(pc, runState[q].owner)
      BY <2>1 DEF Reports, OwnersHaveRun
    <3>. QED
      BY <2>1, <3>2, <3>3 DEF SomeStopped, Disturbed
  <2>3. cmd[q] = "apply"
    BY <1>1, <2>2 DEF Course, Commands
  <2>. QED
    BY <1>1, <2>3 DEF Reports
<1>. QED
  BY <1>1 DEF TwoApplies, Disturbed

\* While nothing is disturbed, what the one save wrote is in the temporary file,
\* and the state file is what an earlier one renamed.
LEMMA QuietStep ==
    ASSUME IInv, Course, Named, Reports, Saved, Quiet, TypeOK', [Next]_vars
    PROVE  Quiet'
<1>. SUFFICES ASSUME ~Disturbed'
              PROVE  /\ \A p \in Procs :
                          /\ pc'[p] = "write" =>
                                tmpFile' # None /\ fd'[p] = tmpFile' /\ inode'[tmpFile'] = Empty
                          /\ pc'[p] = "rename" =>
                                tmpFile' # None /\ inode'[tmpFile'] = runState'[p]
                     /\ stateFile' # None => inode'[stateFile'] \in RunState
  BY DEF Quiet
<1>. USE DEF IInv, ProcTypes, FileTypes
<1>0. ~Disturbed
  BY DisturbedStable
<1>1. /\ \A p \in Procs :
           /\ pc[p] = "write" => tmpFile # None /\ fd[p] = tmpFile /\ inode[tmpFile] = Empty
           /\ pc[p] = "rename" => tmpFile # None /\ inode[tmpFile] = runState[p]
      /\ stateFile # None => inode[stateFile] \in RunState
  BY <1>0 DEF Quiet
<1>2. \A p \in Procs : pc[p] \in SaveSteps => \A q \in Procs \ {p} : pc[q] \notin SaveSteps
  BY <1>0, OneSaver
<1>. DEFINE Goal == /\ \A p \in Procs :
                         /\ pc'[p] = "write" =>
                               /\ tmpFile' # None
                               /\ fd'[p] = tmpFile'
                               /\ inode'[tmpFile'] = Empty
                         /\ pc'[p] = "rename" =>
                               tmpFile' # None /\ inode'[tmpFile'] = runState'[p]
                    /\ stateFile' # None => inode'[stateFile'] \in RunState
<1>3. ASSUME NEW q \in Procs, OpenTmp(q) PROVE Goal
  <2>1. pc[q] = "open" /\ stateFile' = stateFile /\ stateFile # q
    BY <1>3 DEF OpenTmp, Named
  <2>2. \A p \in Procs \ {q} : pc'[p] = pc[p] /\ pc[p] \notin SaveSteps
    BY <1>2, <1>3, <2>1 DEF OpenTmp, SaveFails
  <2>3. stateFile # None => inode'[stateFile] = inode[stateFile]
    BY <1>3, <2>1 DEF OpenTmp, Named
  <2>4. pc'[q] = "write" => tmpFile' \in Procs /\ fd'[q] = tmpFile' /\ inode'[tmpFile'] = Empty
    BY <1>3 DEF OpenTmp, SaveFails
  <2>5. pc'[q] # "rename"
    BY <1>3 DEF OpenTmp, SaveFails
  <2>. QED
    BY <1>1, <2>1, <2>2, <2>3, <2>4, <2>5, Distinct
<1>4. ASSUME NEW q \in Procs, WriteTmp(q) PROVE Goal
  <2>1. /\ pc[q] = "write" /\ tmpFile \in Procs /\ fd[q] = tmpFile /\ inode[tmpFile] = Empty
        /\ UNCHANGED <<stateFile, tmpFile, runState>> /\ tmpFile # stateFile
    BY <1>1, <1>4 DEF WriteTmp, Named
  <2>2. \A p \in Procs \ {q} : pc'[p] = pc[p] /\ pc[p] \notin SaveSteps
    BY <1>2, <1>4, <2>1 DEF WriteTmp, SaveFails
  <2>3. pc'[q] # "write" /\ (pc'[q] = "rename" => inode'[tmpFile] = runState[q])
    BY <1>4, <2>1 DEF WriteTmp, SaveFails, Overwritten
  <2>4. stateFile # None => inode'[stateFile] = inode[stateFile]
    BY <1>4, <2>1 DEF WriteTmp
  <2>. QED
    BY <1>1, <2>1, <2>2, <2>3, <2>4, Distinct
<1>5. ASSUME NEW q \in Procs, RenameTmp(q) PROVE Goal
  <2>1. pc[q] = "rename" /\ pc'[q] \notin SaveSteps /\ inode' = inode
    BY <1>5 DEF RenameTmp, SaveFails
  <2>2. \A p \in Procs \ {q} : pc'[p] = pc[p] /\ pc[p] \notin SaveSteps
    BY <1>2, <1>5, <2>1 DEF RenameTmp, SaveFails
  <2>3. stateFile' = stateFile \/ stateFile' = tmpFile
    BY <1>5 DEF RenameTmp
  <2>4. inode[tmpFile] \in RunState
    BY <1>1, <2>1 DEF StepTypes
  <2>. QED
    BY <1>1, <2>1, <2>2, <2>3, <2>4
<1>6. ASSUME UNCHANGED <<stateFile, tmpFile, inode>>,
             NEW q \in Procs, \A p \in Procs \ {q} :
               pc'[p] = pc[p] /\ fd'[p] = fd[p] /\ runState'[p] = runState[p],
             \/ pc'[q] \notin {"write", "rename"}
             \/ UNCHANGED <<pc[q], fd[q], runState[q]>>
      PROVE  Goal
  BY <1>1, <1>6
<1>7. ASSUME NEW q \in Procs,
             ApplyStep(q) \/ DownStep(q) \/ QueryService(q) \/ Environment(q)
      PROVE  /\ UNCHANGED <<stateFile, tmpFile, inode>>
             /\ \A p \in Procs \ {q} :
                  pc'[p] = pc[p] /\ fd'[p] = fd[p] /\ runState'[p] = runState[p]
             /\ \/ pc'[q] \notin {"write", "rename"}
                \/ UNCHANGED <<pc[q], fd[q], runState[q]>>
  <2>1. CASE ApplyStep(q)
    BY <2>1 DEF ApplyStep, CheckExists, PublishImages, LifecycleOk, LifecycleFails,
                StampState, RollbackNext, RollbackEnds
  <2>2. CASE DownStep(q) \/ QueryService(q)
    BY <2>2 DEF DownStep, LoadState, InspectService, StopService, MarkDown, QueryService
  <2>3. CASE Environment(q)
    BY <2>3 DEF Environment, Start, Crash, ContainerExits, ContainerRemoved
  <2>. QED
    BY <1>7, <2>1, <2>2, <2>3
<1>8. ASSUME UNCHANGED vars PROVE Goal
  BY <1>1, <1>8 DEF vars
<1>. HIDE DEF Goal
<1>9. ASSUME NEW q \in Procs,
             ApplyStep(q) \/ DownStep(q) \/ QueryService(q) \/ Environment(q)
      PROVE  Goal
  BY <1>6, <1>7, <1>9
<1>10. Goal
  BY <1>3, <1>4, <1>5, <1>8, <1>9 DEF Next, ProcessStep, SaveStep
<1>. QED
  BY <1>10 DEF Goal

\* With any commands in flight at once and any fault, a container left running that
\* the state file does not list as running has one of six causes.
THEOREM EveryOrphanIsExplainedAlways == Spec => []EveryOrphanIsExplained
<1>1. Init => OrphanInv
  <2>. SUFFICES ASSUME Init PROVE OrphanInv
    OBVIOUS
  <2>1. Reports /\ Saved /\ Quiet
    BY Distinct DEF Init, Reports, Told, Saved, Quiet
  <2>. QED
    BY <2>1, InitIInv, InitCommit DEF OrphanInv, SerialInv
<1>2. OrphanInv /\ [Next]_vars => OrphanInv'
  <2>. SUFFICES ASSUME OrphanInv, [Next]_vars PROVE OrphanInv'
    OBVIOUS
  <2>1. TypeOK /\ TypeOK'
    BY NextTypeOK DEF OrphanInv, IInv
  <2>2. IInv'
    BY <2>1, OwnersHaveRunStep, DownIsStoppedStep, WalkedIsStoppedStep DEF OrphanInv, IInv
  <2>3. RollbackCovers' /\ Course'
    BY <2>1, RollbackCoversStep, CourseStep DEF OrphanInv
  <2>4. Named'
    BY <2>1, NamedStep DEF OrphanInv
  <2>5. Reports' /\ Saved' /\ Quiet'
    BY <2>1, <2>3, ReportsStep, SavedStep, QuietStep DEF OrphanInv
  <2>. QED
    BY <2>2, <2>3, <2>4, <2>5 DEF OrphanInv
<1>3. OrphanInv => EveryOrphanIsExplained
  <2>. SUFFICES ASSUME OrphanInv, NEW p \in Procs, NEW s \in Names, Leftover(p, s),
                       pc[p] # "crashed", result[p] # "clock", <<p, s>> \notin unstopped,
                       s \in reported[p], NEW i \in DOMAIN DownOrder, DownOrder[i] = s,
                       \A q \in Procs \ {p} : reported[q] = {}
                PROVE  /\ Readable
                       /\ StateContents = [lifecycle |-> "running", owner |-> p]
    BY DEF EveryOrphanIsExplained
  <2>1. Told(p) /\ pc[p] = "done" /\ container[p][s] = "running"
    BY DEF Leftover, Told, Ended
  <2>2. cmd[p] = "apply" /\ result[p] \in {"ok", "lifecycle", "save"}
    BY <2>1 DEF OrphanInv, Reports
  <2>3. result[p] = "ok"
    BY <2>1, <2>2 DEF OrphanInv, RollbackCovers, Running
  <2>4. ~Disturbed
    <3>1. ~TwoApplies
      BY DEF TwoApplies, Told
    <3>2. ~SomeStopped
      <4>1. \A o \in Procs : Told(o) => o = p
        BY DEF Told
      <4>2. ~Stopped(container, unstopped, p, i)
        BY <2>1 DEF Stopped
      <4>. QED
        BY <4>1, <4>2 DEF SomeStopped
    <3>. QED
      BY <3>1, <3>2 DEF Disturbed
  <2>5. stateFile \in Procs /\ inode[stateFile] \in RunState
    BY <2>2, <2>3, <2>4 DEF OrphanInv, Saved, Quiet, IInv, FileTypes
  <2>6. inode[stateFile].owner \in Procs /\ Told(inode[stateFile].owner)
    BY <2>5 DEF OrphanInv, Reports, RunState
  <2>7. StateContents = inode[stateFile]
    BY <2>5, Distinct DEF StateContents
  <2>8. inode[stateFile].owner = p
    BY <2>6 DEF Told
  <2>9. inode[stateFile].lifecycle # "down"
    <3>1. ~Stopped(container, unstopped, inode[stateFile].owner, i)
      BY <2>1, <2>8 DEF Stopped
    <3>. QED
      BY <2>5, <3>1 DEF OrphanInv, IInv, DownIsStopped
  <2>. QED
    BY <2>5, <2>7, <2>8, <2>9 DEF Readable, RunState, Lifecycle
<1>. QED
  BY <1>1, <1>2, <1>3, PTL DEF Spec

=============================================================================
