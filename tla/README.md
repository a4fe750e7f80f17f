# A verification development for PhenoCompose

PhenoCompose turns a composition manifest into containers.  The part of the
repository that does this is the `pheno-compose` CLI (`src/crates/phenocompose-cli`);
around it stand port traits with their adapters, a file-backed secret store, an
in-process instance registry behind a C ABI, its Go counterpart, and a number of
stubs.  This directory holds TLA+ models of the parts with behaviour worth checking,
the TLC configurations that model-check them, and proofs checked by TLAPS.

## 1. Inventory

| Component | State it keeps | Operations | What is hard | What makes it correct |
|---|---|---|---|---|
| Run store (CLI `apply`, `status`, `down`) | `<run>.json`, `<run>.json.tmp`, containers in Podman | check, publish, helper, save; load, inspect, stop, save | processes share files and take no lock; a process can be killed between any two system calls; rollback ignores errors; one error return has no rollback | the state file is readable and final; *down* means stopped; a failed apply leaves nothing it knows of; a successful one is findable |
| Job store (CLI `run-action`, `export-provenance`) | `<run>.jobs/<job>.json`, per-process temporary files | check, execute, save; list and read | the existence check is long before the rename; process ids are reused; a killed process leaves its temporary file | one execution per recorded job; provenance is never torn; failure is recorded; exports agree with reports |
| Service graph, lifecycle plan (`model.rs`, `service_graph.rs`) | none (pure), `RollbackContract` | `service_order`, `plan_lifecycle`, `execute_lifecycle_plan`, `rollback` | recursion with two sets, cycles, a spawn that fails in the middle | the order is topological and complete, a cycle is refused, nothing loses its dependencies in a rollback |
| Action closure and GPU bindings (`lib.rs`) | none | `action_gpu_bindings` | a traversal without a cycle check | exactly what the action needs, in order, with exactly its GPUs |
| Apply gate and action gates (`lib.rs`, `service_graph.rs`, `model.rs`) | none | validation, capability checks, routes | three invocations at three times, each trusting the ones before; several declarations of one capability | what is admitted can be executed; what is refused late is refused for a known reason |
| Run ids, slugs, output roots (`lib.rs`) | none | `sanitize_name`, `validate_slug`, `resolve_output_root` | two functions that must agree; `..`, rooted and prefixed paths | every run can be addressed, a relative root stays inside |
| NanoVMS evaluation process (`nvms.rs`, `lib.rs`) | one child, three pipes, two reader threads | spawn, write request, read bounded, wait with deadline, kill, join; judge and record the answer | pipes fill; the deadline races the answer; a grandchild keeps a pipe open; an answer may lie | the call returns within its bounds; an answer is whole; what is recorded is sound |
| NanoVMS lifecycle process (`nvms.rs`) | one child | spawn, write, wait | no deadline; a malformed answer reports no container | as above; the rollback covers what was reported |
| Secret port and stores (`port-secret`, `secret-file-adapter`) | a map behind a mutex, `<file>.json` and its temporary file | open, get, put, delete, list, flush | memory changes before the disk does; crash inside flush | acknowledged is durable, versions grow, the port's promise |
| Instance registry and driver (`bindings/rust-ffi`, `pheno-compose-driver`) | a global list, heap structs owned by the caller, a counter | create, start, stop, destroy, list | two copies of one instance; addresses reused | the list agrees with the instances |
| Go shim (`nanovms/cgo-shim`) | a counter, structs in C memory | create, destroy | unsynchronised read-modify-write | ids are unique as far as callers keep apart |
| Composer, publisher and runtime ports, DI (`port-*`, CLI, `apple-container-adapter`, `wslc-adapter`) | lists, counters, containers | wiring, compose, publish, spawn, status, stop | adapters shared by threads; a tool's words parsed by substring; a container that changes between two commands | what an adapter says it did is what happened |
| OCI references (`port-types/src/oci.rs`) | none | parse, print | a colon is a tag's or a port's | parsing loses nothing |
| `pheno-config`, orchestrator ports, agent CLI, plugins, i18n, mobile shells, Windows service, Zig/Mojo bindings, Go domain, TypeScript, tools, benches, fuzz targets | small or none | | | not modelled, section 7 |

Interaction: `apply` checks the manifest (gates), composes and publishes it (ports),
calls the lifecycle helper (a child process) that creates containers in Podman, then
writes the run store; `status` and `down` read the run store and talk to Podman
through the runtime port; `run-action` reads the run store, resolves closure and
bindings, calls the evaluation helper, judges its answer and writes the job store;
`export-provenance` reads both stores.  Every invocation is a process of its own; they
meet only in the file system and in Podman.  The secret store, the registry and the
Go shim are shared by the threads of one process.

## 2. The modules

| Module | What it is | Code |
|---|---|---|
| `RunStore` | one run: state file, temporary file, containers, any number of invocations | `phenocompose-cli/src/lib.rs` 242-388, 1065-1193, 1377-1396 |
| `JobStore` | the provenance files of one run | `lib.rs` 405-530, 805-876 |
| `DependencyOrder` | what a caller of `service_order` is promised (abstract) | `model.rs` 235-364 |
| `ServiceGraph` | the depth-first traversal that implements it | `model.rs` 235-364 |
| `LifecycleExec` | plan, execution and rollback, on top of `ServiceGraph`: public functions of the crate that its tests call; `apply` has a rollback of its own, which is in `RunStore` | `service_graph.rs` 31-168 |
| `ActionClosure` | closure and GPU bindings of an action, on top of `ServiceGraph` | `lib.rs` 532-594 |
| `ManifestUse` | composes the last three: an accepted manifest is executed by a caller of the crate, or one of its actions is bound | |
| `NvmsProcess` | one call of the helper by either client, with its pipes, threads and deadline | `nvms.rs` 150-376, 461-572 |
| `Gates` | an ordered list of checks and its verdict; names, slugs, output roots | `lib.rs` 249-255, 878-961, 1202-1212 |
| `Admission` | one manifest through `validate`, `apply` and `run-action` | `model.rs`, `lib.rs`, `service_graph.rs` 109-137 |
| `Evidence` | what a job records of an answer, or in place of one | `lib.rs` 405-530, 660-803, `nvms.rs` 150-171 |
| `SecretPort` | what a `SecretStore` promises (abstract) | `port-secret/src/lib.rs` |
| `FileSecretStore` | the file-backed store | `secret-file-adapter/src/file.rs` |
| `InstanceRegistry` | instances through the FFI, and the driver's configuration | `rust-ffi/src/lib.rs`, `pheno-compose-driver/src/*.rs` |
| `GoShim` | the Go counter and its instances | `nvms_export.go` |
| `RuntimePort` | `NoopRuntime`, `PodmanRuntime`, the Apple and WSL adapters | `port-runtime`, CLI, `apple-container-adapter`, `wslc-adapter` |
| `Ports` | builder and container of `port-di`, composers, publishers | `port-di`, `port-composer`, `port-publisher`, `port-types/src/compose.rs`, CLI |
| `OciReference` | parsing and printing image references | `port-types/src/oci.rs` |

`MCx` modules are instances for TLC; `MCChecks` puts the modules that do not interact
(`Admission`, `Evidence`, `OciReference`, `InstanceRegistry`, `GoShim`, `RuntimePort`, `Ports`,
`NvmsProcess`) into one specification in which every behaviour follows one of them;
`MCRuntimePort` is `RuntimePort` alone, for the run whose trace is a counterexample.  The theorems are in
`RunStoreProofs`, `JobStoreProofs`, `ServiceGraphProofs`, `ManifestUseProofs` (on top of it:
`LifecycleExec`, `ActionClosure`), `NvmsProcessProofs`, `FileSecretStoreProofs`, `ChecksProofs`
(`Admission`, `Evidence`, `OciReference`) and `AdapterProofs` (`InstanceRegistry`, `GoShim`,
`RuntimePort`, `Ports`).  In every module an operator marked `\* wrong:` or `\* Mutant:` is a plausible
bug of the operator that follows it; it is not part of the specification, and shows
that a property can fail.

### RunStore

Each element of `Procs` is one invocation of `apply`, `down` or `status`.  `pc[p]`
is the step it is about to take, one per system call another process can see:

    apply   exists -> publish -> helper -> clock -> open -> write -> rename -> done
                                   \                  \       \        \
                                    +------------------+-------+--------+-> rollback -> done
    down    load -> (inspect -> stop)* -> open -> write -> rename -> done
    status  load -> query* -> done

`stateFile` and `tmpFile` are directory entries that name inodes; a rename moves
the name, an open descriptor (`fd`) stays on its inode, and two writers of one inode
leave `Garbled`.  `container[p][s]` is what Podman holds for service `s` of apply
`p`, one of the manifest's (`Services`) or one more the helper may report (`Extras`);
`reported` is what the helper told the CLI, all the services at least; `unstopped` records
the containers whose failed stop the rollback ignored, and those that `down` skipped because
Podman's failure said "no such".  A state file that cannot be read ends a command with
`state_read`.  `AwaitsAnswer(p)` holds while `p` waits for the helper or Podman, which the
program does without a deadline.  `MayFail` names the faults the environment may
inject, `Overlap` the subcommands that may be in flight together: the program keeps
none of them apart (`Overlap = Commands`), a smaller set is a discipline of the
operator under which more can be promised.

### JobStore

`pc[p]` walks `load -> exists -> request -> execute -> open -> write -> rename` for
`run-action` (a failure at `request` or `execute` goes to `open` with `success`
false, as `persist_job_failure` does) and `load_export -> list -> read*` for
`export-provenance`.  `temp[j][i]` is the temporary file of job `j` and process id
`i`: ids are distinct among living processes and reused after a process ends, which
is how a later process can find the file of a killed one.  A directory scan reports
every entry that was there when it began and may or may not report a later one.
`Shared` is the set of job ids under which two actions may be in flight at once.  The
program keeps no two apart (`Shared = Jobs`); an operator may, and some properties are about
the other ids only.

### DependencyOrder, ServiceGraph, LifecycleExec, ActionClosure

Services are numbers in the order of the manifest's `BTreeMap`; `deps` is any
function to lists of service names, unknown names (`Strangers`) included.
`ServiceGraph` turns the recursion of `service_order::visit` into an explicit `stack`
of calls with the index each loop has reached; `visiting`, `visited` and `output`
are the variables of the code.  `DependencyOrder` says only what a caller sees:
services are listed one by one, each after its dependencies, and a verdict is given.
`LifecycleExec` spawns the Create intents of the accepted order and rolls back with
the contract when one fails, at any intent.  A stop that fails leaves its container running
and the contract without it, and the caller may call `rollback` again (`MaxRollbacks`).  `ActionClosure`
starts where `service_order` has accepted and follows a traversal that marks on
entry and checks no cycle.

### NvmsProcess

Sizes are counted in units.  `pc` is the CLI's place (`spawn -> write -> wait -> join ->
done`), `status` how the wait ended, `child` the state of the helper and `left` a process
of its own that it leaves behind with the output pipes, and with the read end of its
standard input if the script `keeps` it: then the request can neither be written nor break.  `unsent` and `stdin` are the
request on its way; `wrote[s]`, `pipe[s]` and `kept[s]` are what was written to an output
stream, what is in the pipe and what the reader holds.  The evaluation client writes
the whole request before its two readers exist, reads bounded prefixes and has a
deadline; the lifecycle client reads everything and has none.  The helper is external:
it follows any `script` (answers of any length, before or after it reads its
request, well-formed or not) and may die, hang or fork.

### Admission and Evidence

`Admission` follows one manifest through what happens at different times, each stage a
gate of ordered checks.  Manifests are records of what the checks tell apart.
`Evidence` takes an answer of the helper, or none, through `validate_evaluation_result`
and `trustworthy_failure_lifecycle` (or `local_failure`) into the recorded job.  A text is
the sequence of its characters' widths in bytes, so that a limit may fall inside a
character; a digest is the text it was taken of.  Standard output's digest is checked in full
before standard error's, and a refused answer is recorded with the helper's own error code if
it gave one, with the check's otherwise.

### FileSecretStore, SecretPort

`memory` is the map behind the mutex, `disk` and `tmp` the two files.  `Mutate` is
what `put` and `delete` do under the mutex before they drop it; `FlushCreate`,
`FlushWrite` and `FlushRename` are `flush`, which holds it across all three (`lock`).
A value is identified with its version.  `seq`, `age` and `acked` exist for the
properties: which call a map has seen last, how often a ref was deleted, and which
calls returned `Ok`.  A killed process loses `memory`, and `open` reads `disk`.
`SecretPort` has the map of `InMemorySecretStore` as its state, the change that each running
call has made and the changes answered with `Ok`.  As the trait says, a call that fails
leaves the store unchanged, so it takes no step in the port: a call that has made a change can
only answer `Ok`, or lose its process.  A reopened store may have lost calls it had
not answered.  `ImplementsPort` says that every step of the file store is one of the port's,
except for one that is named, because the code breaks the trait there: a call returns
an error and leaves its change in the map (`FailsAfterChange`).

### InstanceRegistry, GoShim, RuntimePort, Ports, OciReference

`InstanceRegistry`: `heap[h]` is the struct at an address, `listed` the global list;
create draws an id and then lists the instance, destroy unlists it and then frees the
struct, and other threads run in between.  `GoShim` splits `atomicAddUint64` into its load,
store and reload.  In `RuntimePort` a container is a word (`engine`) with other words in its
description (`noise`); it changes whenever it likes, also between the two commands of the
Apple adapter, which looks for the id as a part of the listing's text: `Mentions` says which ids
are a part of another container's row.  `Ports` wires a container and lets pipelines compose and publish with
its shared adapters while images come and go.  `OciReference` works on the
characters the parser tells apart.

## 3. What the runs check

| Run | Instance | Shows |
|---|---|---|
| `run_serial` | 3 invocations, one at a time, 1 service and 1 container the manifest does not name, 9 faults | the state file is never torn, agrees with what apply reported, is final, and a committed run is not rolled back |
| `run_overlap` | 3 invocations in any overlap, 2 services, 6 faults | a state marked down lists no container that down saw running; a failed apply rolls back what it was told of; every orphan has one of six causes |
| `run_live` | 3 invocations in any overlap, 1 service, failing writes and renames, containers that exit or are removed, fair | a command ends, or waits for one answer of the helper or Podman for ever; a `down` stops everything and says so, reports an error, or shares the temporary file with another command |
| `run_lost_success` | 2 overlapping applies, no fault | *violation*: two applies succeed, one's containers are in no file |
| `run_partial_teardown` | `teardown.order` names one of two services | *violation*: down marks the run down and leaves a container |
| `manifest_use` | 3 services, every `depends_on` of at most 2 entries, 2 GPUs, an unknown name, 2 calls of rollback, fair | the traversal implements `DependencyOrder`; a rollback takes no dependency away from a container whose own stop did not fail, and leaves only what failed to stop; closure and bindings are exact; all of it ends |
| `job_store` | 3 invocations in any overlap, 2 process ids, one job id that is shared and one that is not, all faults, fair | provenance is never torn, leftovers are explained, every command ends; under the id that is not shared, reports are recorded and final, repeats are explained, exports agree |
| `job_replaced` | 2 actions with one job id at once, no fault | *violation*: recorded provenance is replaced |
| `secret_store` | 2 threads, 2 refs, 3 calls, all faults, fair | acknowledged is durable, versions are not reissued until a deletion, gaps are reported, no call waits for itself; every step is the port's but for a failing call that leaves its change |
| `secret_failed_put` | the same threads and refs, `create` fails | *violation*: a put that returns an error has changed the store |
| `runtime_listing` | the Apple adapter, 2 containers, the id of one a part of the other's row | *violation*: a container that is not there is answered Running |
| `checks` | names of at most 4 characters, roots of 2 components, texts of 3 characters, references of 6; 2 threads, 2 handles, 3 creations; 2 users of 4 runtime adapters with 2 containers; 2 pipelines with 2 calls; both clients of the helper, a request of 3 units, pipes of 2, all faults, fair | the properties of the eight parts that do not interact; of the helper, what is accepted is whole, the bound is exact, no helper is left behind, a good answer is used, the call returns unless held up in one of five named ways |

`LateRefusalIsExplained`, `RepeatIsExplained`, `TemporaryIsExplained`, `EveryOrphanIsExplained`,
`EqualIdsAreExplained` and `AnswersAreExplained` have one form: something unwanted happens only
for one of the listed causes.  The list is what the code makes true, found by asking
TLC for a state that none of them explains; each cause is a thing a user can meet.

**Bounds.**  Two services suffice for partial teardown, partial rollback and reverse
order (`run_serial` and `run_live` have one service: they ask about the file and about ending);
three invocations for two writers and a reader, or a writer, a killed writer
and a successor; two process ids for three processes, so that one is reused.  Three
calls to the secret store are a put that is lost, a crash, and the put that follows
it, or put, delete, put.  Three services with two dependencies each hold chain, shared
dependency, repeated entry, self-loop, ring and ring with a tail; of what needs more
(the diamond), the order and the rollback are proved.  A request of three units and
pipes of two fill a pipe; reads of one or two units cross the limit and end on it.
Four characters are a name longer than the slug the instance allows and one of each kind
of first character; six are a host, a port, a path, a tag and a digest mark.
`MaxDeps` (entries of `depends_on`), `MaxRollbacks`, `MaxOps` (calls to a secret store), `MaxCreates`, `MaxAdds`
and `MaxIds` (instances and containers), `MaxCalls` (calls of compose) and `Extra` (what a
process left behind writes) bound otherwise unbounded data; the theorems of section
4 hold for every value of those in their modules.

**Deadlock** is checked in `manifest_use`, whose `MC` module adds an explicit rest once the
function has returned.  The other instances end when every invocation has ended, every
call is used up or every input judged, and say `CHECK_DEADLOCK FALSE`; that commands and calls
end is checked there as liveness.

**Fairness.**  An invocation that was started is a process the operating system
schedules: weak fairness of its steps, one condition per process or thread.  No
fairness makes an operator start a command, a fault happen, a process be killed or a
container exit.  In `RunStore` only the CLI's own steps are fair
(`ProcessStep(p) /\ ~AwaitsAnswer(p)`): nothing makes the lifecycle helper or Podman answer, for
which the code waits without a deadline, so a command may wait for ever and
`EveryCommandEnds` says that it does nothing else for ever.  In `JobStore` the evaluation helper
answers, because that client has a deadline; what can hold it up all the same is the subject of
`NvmsProcess`: there the CLI, its readers and the deadline are scheduled, and so is a helper
that has neither hung nor died; a process it left behind need not end.  `checks` states that
fairness, and its other parts have safety properties only.  A plan is executed and rolled back
once by a thread that is not abandoned; nobody has to call `rollback` again.  A thread that
waits for the secret store's mutex gets it although the mutex is not fair: the number of
calls is bounded, so nobody can be overtaken for ever.  `run_live` leaves out killed processes
and other failing steps (the other runs have them): they end a command, which is what the run asks.

## 4. What is proved

Every invariant and every action property of the runs that pass is a theorem, for every
value of the constants that the modules' `ASSUME`s admit and for every interleaving and
fault of the specification; where a theorem has a hypothesis, it is named here.

*RunStore* (`RunStoreProofs`).  With any overlap: `TypeCorrect`,
`DownMeansStoppedAlways` (but for a container that was skipped because Podman's failure said
"no such") and `RollbackIsCompleteAlways`.  The invariants are not inductive by
themselves.  For *down*: the apply that a state names as owner is past its helper
(`OwnersHaveRun`: otherwise its containers could start after down looked), a process that
saves a *down* state has stopped them all, in every inode a rename could expose
(`DownIsStopped`), and a down in the middle of its walk has stopped what is behind it
(`WalkedIsStopped`); it rests on `StoppedStable`: nothing in the system starts a container
again.  For rollback: a container that was reported, also one the manifest does not name, and runs is
still to be stopped, or its stop failed (`RollbackCovers`).  While only `status` overlaps (`OneWriterAtATime`):
`StateFileReadableAlways`, `SuccessIsPersistedAlways`, `CommittedIsNotRolledBackAlways` and
`StateIsFinalAlways`.  `SerialInv` says that a writer is alone (`Alone`) and on its own
course (`Course`), the temporary file is its own and not the state file (`Named`, `Saving`),
the state file is one state of the one apply that succeeded (`Committed`), and what a
command knew when it looked is still so (`Knows`).  `run_lost_success` shows that the
discipline is needed.

`EveryOrphanIsExplainedAlways` holds with any overlap and any fault.  `OrphanInv` follows the
apply that was told of a container and still leads to it: unless a second apply was told of
containers (`TwoApplies`) or a down has stopped what that apply made (`SomeStopped`), two
disturbances that are never undone, at most one command saves, and it is that apply
(`OneSaver`), so that its state is what the temporary file and then the state file hold, and
stays there.  A container that no down walks, because `teardown.order` leaves it out or the
manifest does not name it, is one of the six causes, so the theorem needs no hypothesis on
the order.

*ServiceGraph, LifecycleExec, ActionClosure* (`ServiceGraphProofs`, `ManifestUseProofs`).
`OrderIsTopologicalAlways`, `CycleIsRealAlways`, `SetsMatchTheCallsAlways`, `TypeCorrect` and
`ImplementsDependencyOrder`, the refinement of the abstract promise.  The inductive
invariant says that the stack has no repetition and each call was made by the one
below it (`StackIsSimple`, `StackIsChain`), that a loop leaves only visited dependencies
behind (`LoopsLeaveVisited`), that every prefix of the output is ordered
(`PrefixIsOrdered`), and that the roots before the current one are listed.
`RollbackIsSoundAlways` is about every choice of stops that fail and any number of calls of
`rollback`: a container that runs without what it depends on has a failed stop of its own, one
that still runs when a call returns failed to stop in that very call, and a completed plan has
created every service.  What it rests on (`Executed`) is that the contract records the first
services of the order that were created, less those taken out again from the end
(`Recorded`), and that what runs is what the contract holds and what failed to stop
(`WhatRuns`).  `ClosureIsExactAlways` and `BindingsCoverTheClosureAlways` are about
the traversal of an action that checks no cycle: what was seen has returned or is a pending
call, each call is needed by the one it was made for, and a dependency that a loop finds
already seen has returned, because a pending one would stand in the accepted order both before and
after the innermost.  So the list is closed under `depends_on` when the traversal is over, and
least because nothing enters it that the action does not need.  The theorems of `ManifestUseProofs` are about
`UseInit /\ [][UseNext]_useVars`, the specification without its fairness.

*JobStore* (`JobStoreProofs`).  Without any assumption on overlap: `TypeCorrect`,
`ProvenanceIsWholeAlways`, `TemporaryIsExplainedAlways`.  The invariant is that living
processes have different ids (`PidsDiffer`), hence a saving process owns its temporary
file (`OwnTemporary`), and that a temporary file's writer is saving, killed, or failed to
remove it.  For the job ids under which no two actions are in flight (those outside `Shared`),
whatever else overlaps: `ReportIsRecordedAlways`, `RepeatIsExplainedAlways`,
`ProvenanceIsFinalAlways`, from
`NothingYet` (from check to rename nobody records the job) and `ExecutedGoesOn` (an
executed action is saved or its end says why not), and `ExportAgreesWithReportsAlways`:
what an export has read is still in the file (`SeenIsFile`), and it ends only when it has
read all that was there (`ExportIsWhole`).  `job_replaced` shows what happens under the others.

*NvmsProcess* (`NvmsProcessProofs`).  `TypeCorrect`, `BoundIsExactAlways`,
`NoHelperLeftBehindAlways`, `AnswerIsWholeAlways`, `AnswerIsUsedAlways`, for every size of
request, pipe, read, limit and answer.  `Flow` says that the reader holds the prefix it
must of what it took out of the pipe, and flags exactly what went beyond; `EndOfFile` that
nobody is left who could write once a reader has seen the end, which is why an answer
stays whole; `Phases` in which phases the helper may be alive; `Exits` and `Concluded` why a call
that returned has returned what it did.

*FileSecretStore* (`FileSecretStoreProofs`).  `TypeCorrect`, `FileIsWholeAlways`,
`AckedIsOnDiskAlways`, `GapIsReportedAlways`, `VersionsAreIssuedOnceAlways`.  `LockInv`: the mutex
is held exactly by the thread that writes or renames, and what it writes is the
current map; `PhaseInv`: until the store is open only the opener works; `DiskInv`: the
file is never ahead.  For versions, `VersionInv` orders entries by deletions and version:
the file covers every acknowledged put, the map those in flight too, so the next
version is new even after a crash took mutations back.  `FileStoreImplementsPort` is the
refinement of `SecretPort`, for every fault and without a hypothesis: `Mutate` is `Put` or
`Delete`, a return with `Ok` is `Answer`, a kill `Close`, an open `Reopen`, and every other step
stutters, but for `FailsAfterChange`, which is a disjunct of the statement.  `PortInv` carries what the two need that the port asks
something of: the file holds every change that was answered (so a reopened store has it), and
the map is never behind the file nor behind a running call.

*Admission* (`ChecksProofs`).  `AdmissionInv` says which gates a manifest has passed at each
stage and that a refusal is that of the gate it stands before; one lemma per gate says what it lets pass
or refuses (`ApplyLets`, `RouteRefuses`, ...), from `VerdictDecides`: the first check that refuses
decides.  `AdmittedIsSupportedAlways` needs two gates together, the one that looks for any
declaration and the one that takes the first; `LateRefusalIsExplainedAlways` needs that a run id is
made of a slug's characters (`UnaddressableIs`).  `RootStaysInsideAlways` rests on
`NormalizeIs`, about paths of any number of components.

*Evidence, OciReference* (`ChecksProofs`).  `EvidenceIsSoundAlways`: cutting a text keeps a
prefix within the bound, and the whole of a text within it (`BoundedIs`); a report that
passed the checks of a result is recorded unchanged (`ResultLets`, `SoundIsKept`).
`ReferenceIsFaithfulAlways`: each split keeps the whole of what it splits (`SplitTagIs`,
`SplitRegistryIs`), and trimming twice is trimming once (`TrimIs`); what stands before a digest is
not empty, so that a repository is missing only before a tag or after a host.

*InstanceRegistry* (`AdapterProofs`).  `RegistryTypeCorrect`, `IdsAreUniqueAlways`,
`RegistryAgreesAlways`, for any number of threads and addresses.  `Drawn`: every id was
drawn from the counter; `Freeing`: a struct being freed belongs to the thread that frees
it; `ListIsExact`: the list is the entries of the instances not being freed.  The
uniqueness of ids is what makes it right that destroy goes by the id.

*GoShim, RuntimePort, Ports* (`AdapterProofs`).  `EqualIdsAreExplainedAlways`: a creation that
nothing overlapped is alone (`UndisturbedIsAlone`), and the counter never falls below its id
again (`CleanIsPassed`), although the counter itself may go backwards.  `AnswersAreExplainedAlways`: an
answer is of a state the container had during the call, or has one of the causes the property names, each
a place where an adapter reads something else: a failure that spoke of another missing thing,
another row of the listing, a word elsewhere in the text, an id that is a part of another row.  Ids that
were answered are below the counter (`IdsAreDrawn`), and a call misses no state its container has
between its two commands (`CallsAreObserved`).  `ReceiptsAreBackedAlways`: nothing is asked of
adapters before the container is built (`NothingBefore`), and an artifact in hand is the first image of the
manifest it was composed of (`InHandIsFirst`).

**Recursion.**  The library's induction theorems take a predicate as a parameter, which
the provers here cannot instantiate.  Over numbers there is a way around it: that a set of
numbers has a least element is first-order (`MinIsLeast`, from the well-foundedness of `<`), and so is
induction for a set that is given by a definition (`UpTo`).  That is how what `Normalize` pushes and the sum
behind `Bytes` are shown to be defined (`PushedExists`, `SumsExist`) and to be what they should be.

**Assumptions.**  Those of the modules type the constants.  `EvidenceAssumption` also says that no
error code is "ok", the model's word for a job's success, and `OciAssumption` that an absent
component is no string.

*Only model-checked*: liveness (`EveryCommandEnds`, `DownTakesEffect`, `UseEnds`, `CallReturns`,
`EveryCallReturns`), which needs `ENABLED` and is outside the prover's reach; and the five violations of
section 5, which are counterexamples.

## 5. Where the code and its documents disagree

With a run that shows it:

* Two overlapping applies of one manifest both succeed and one loses its containers
  (`run_lost_success`): the check at `lib.rs` 270 and the shared temporary file at 1189.
* A partial `teardown.order` leaves containers behind a run marked down
  (`run_partial_teardown`, `lib.rs` 366).
* Two actions with one job id both execute, and the later provenance replaces the earlier
  (`job_replaced`, `lib.rs` 459).
* A `put` whose flush fails returns an error and leaves its value in the map (`secret_failed_put`,
  `file.rs` 149), although the port says the store is unchanged (`port-secret/src/store.rs` 26-28).
* The Apple adapter looks for an id anywhere in the text of the listing, so that an id that does not
  exist, but is a part of another container's row, is answered with that row's status
  (`runtime_listing`, `apple-container-adapter/src/lib.rs` 120; the trait: NotFound,
  `port-runtime/src/lib.rs` 70-73).

Read off the code while modelling it, and in the models as the code has it:

* Down.  A failed `podman inspect` whose message says "no such" is taken for a container that is gone
  (`lib.rs` 1385), also when it is the daemon's socket that is missing: `down` skips the running
  container and marks the run down.  `DownMeansStopped` names this exception.
* Secrets.  A deleted ref starts at version 1 again (`file.rs` 136), so that put, delete, put return the
  same version twice, where `port-secret/src/store.rs` 28 wants versions that grow per ref.
  `secret-file-adapter/src/lib.rs` 25-31 says a put
  with another version is rejected; the code ignores the incoming version.  The comment at `file.rs` 144 says a `get` can run during
  the disk write, but `flush` holds the mutex throughout.
* Instances.  The driver lists "all running instances" (`pheno-compose-driver/src/lib.rs` 95),
  but the list holds every instance, each with the status of its creation: one that was
  stopped is still there (`rust-ffi/src/lib.rs` 437).  With
  `nvms_real_ffi` `list_instances` refers to a module that does not exist.  A start that answers -1 becomes `InitFailed`.
  `create_instance_with_config` always refuses a configuration made for firecracker, which
  has resources set; `with_memory_gb` overflows for large values (`config.rs` 106-108); the fields
  `unsupported_fields` returns are documented as sorted and are not.
* Go shim.  The file's build tag keeps it out of ordinary builds; `nvms_init` resets a backend
  that was chosen before.
* References.  `oci.rs` 137 says a missing repository is an error; `a.b/:t` and `:t` parse, with
  an empty one; `ReferenceIsFaithful` names the two forms this can take.
* Runtimes.  A command that fails with words like "no such file" is answered as NotFound,
  where the trait asks for Backend (`port-runtime` 69-73); stopping a container twice is
  NotFound for `NoopRuntime` (the trait: idempotent, 50-52), and stopping an unknown one
  Backend for Podman (the trait: NotFound).  The comment in `port-runtime/src/lib.rs` 134 says
  of `NoopRuntime` that stop removes the id, which is what it does.  The Apple adapter's fallback parses the
  whole listing (`apple-container-adapter/src/lib.rs` 110-125), so that another container's row may decide.
* Composers.  `compose.rs` 26-33 says adapters must honour `artifact_name` and `tags`;
  `CountingComposer` and `PrebuiltImageComposer` do not.  Artifacts of different images of one
  name have equal ids.  An image may vanish between publish's `image exists` and the helper.
* `pheno-config` splits environment variables at every underscore, so that fields of several
  words cannot be set (its doc, `lib.rs` 118-124, says they can).

## 6. Hazards without a property

`PROJECT.json` lists what is hard to test in this code.  Two have no property.
`run-action` looks at the run's lifecycle once, at its start (`lib.rs` 416): the action may
run, and be recorded, after a `down`; `JobStore` has the step (`RunDown`), but nothing in the
repository says which outcome is right.  Two handles on one secret file (`file.rs` 64) share no mutex
and one temporary file, and `open`'s own flush writes back what it read: `FileSecretStore`
has one handle, as the adapter's tests do.

## 7. What is not modelled, and why

Partly modelled: of manifest validation, the checks that later commands rely on (the
others check syntax that no other code depends on); of the FFI, its functions that
answer constants of the platform are left out, as is the Go shim's detection of a GPU
backend; of the driver's errors, only which one is returned, not its words.

Not modelled: `pheno-config` (structures merged by a library, nothing reloads them); the
orchestrator ports, the agent CLI, plugins and translations (traits with stubs and
lookups without state); the mobile shells and the Windows service (glue around the FFI);
the Zig and Mojo bindings (placeholders: the Zig file does not parse, the Mojo memory pool's
`free` gives nothing back); the Go domain and TypeScript packages (value types);
tools, benches, fuzz targets and infrastructure (not part of the running system).
Containers, images, Podman, the container tools, pipes and the NanoVMS helper are external and
modelled by what the code can observe of them.  Power loss (as opposed to a killed process) is outside
`FileSecretStore` and `JobStore`: neither code syncs its directory.

## 8. How the models were built, and what could follow

The order was: the run store, whose behaviour matters most; the service graph with its
abstract specification; job store and secret store; the helper process; then the gates,
evidence, registry and ports.  What could follow: two handles on one secret file as an
extension of `FileSecretStore`, with a decision on what the adapter promises; a composition of
`RunStore` and `JobStore` on one run once the intended outcome of an action during a down is
settled; and the theorems that assume a discipline (`OneWriterAtATime`) under weaker ones,
overlapping downs of one run, say.
