------------------------------ MODULE JobStore ------------------------------
(***************************************************************************)
(* `run-action` and `export-provenance` of the CLI on one run: the job     *)
(* provenance files <run>.jobs/<job>.json and the temporary files          *)
(* <job>.json.<pid>.tmp they are renamed from.  Every invocation is a      *)
(* process; they share nothing but the directory, take no lock, and may be *)
(* killed between any two system calls.  Process ids are reused.           *)
(***************************************************************************)
EXTENDS Naturals

CONSTANTS Procs,     \* invocations
          Pids,      \* process ids the system hands out
          Jobs,      \* job ids
          MayFail,   \* which steps may fail, and whether a process is killed
          Shared,    \* job ids under which two actions may be in flight at once
          None

Faults == {"request", "client", "rejected", "open", "write", "rename", "remove", "crash"}

ASSUME JobConstants ==
    /\ MayFail \subseteq Faults
    /\ Shared \subseteq Jobs
    /\ None \notin [writer : Procs, success : BOOLEAN, whole : BOOLEAN]

VARIABLES run,        \* lifecycle in the run's state file
          file,       \* file[j]: the provenance file of job j
          temp,       \* temp[j][i]: the temporary file of job j and process id i
          pc, job, pid,
          succeeded,  \* the `success` of p's JobProvenance
          executed,   \* whether p had the helper execute the action
          result,     \* how p's command ended
          required,   \* the jobs in the directory when p's export opened it
          seen        \* seen[p][j]: what p's export has read of job j

procVars == <<pc, job, pid, succeeded, executed, result>>
exportVars == <<required, seen>>
fileVars == <<run, file, temp>>
vars == <<procVars, exportVars, fileVars>>

JobProvenance == [writer : Procs, success : BOOLEAN, whole : BOOLEAN]

Before == {"load", "exists", "request", "execute"}
Saving == {"open", "write", "rename"}
Exporting == {"load_export", "list", "read"}
Ended == {"done", "killed"}
Steps == {"idle"} \cup Before \cup Saving \cup Exporting \cup Ended

\* Results of run-action, then of export.
Refused == {"run_not_running", "job_exists"}
Unrecorded == {"job_write", "job_commit", "job_write_kept", "job_commit_kept"}
Recorded == {"ok", "action_failed"}
Results == {"none", "exported", "json"} \cup Refused \cup Unrecorded \cup Recorded

Init ==
    /\ run = "running"
    /\ file = [j \in Jobs |-> None]
    /\ temp = [j \in Jobs |-> [i \in Pids |-> None]]
    /\ pc = [p \in Procs |-> "idle"]
    /\ job \in [Procs -> Jobs]
    /\ pid \in [Procs -> Pids]
    /\ succeeded = [p \in Procs |-> FALSE]
    /\ executed = [p \in Procs |-> FALSE]
    /\ result = [p \in Procs |-> "none"]
    /\ required = [p \in Procs |-> {}]
    /\ seen = [p \in Procs |-> [j \in Jobs |-> None]]

-----------------------------------------------------------------------------

Goto(p, step) == pc' = [pc EXCEPT ![p] = step]
Finish(p, code) ==
    /\ Goto(p, "done")
    /\ result' = [result EXCEPT ![p] = code]

InFlight(p) == pc[p] \notin {"idle"} \cup Ended
Acting(p) == pc[p] \in Before \cup Saving

\* p's temporary file.
Temporary(p) == temp[job[p]][pid[p]]
PutTemporary(p, contents) == temp' = [temp EXCEPT ![job[p]][pid[p]] = contents]

\* An operator starts run-action with a job id, or an export.  The program
\* does not keep two actions of one job apart: Shared = Jobs is the program,
\* and a job outside of Shared is one whose actions the operator keeps apart.
Start(p, step) ==
    /\ pc[p] = "idle"
    /\ \A q \in Procs : InFlight(q) => pid[q] # pid[p]
    /\ step = "load" /\ job[p] \notin Shared =>
         \A q \in Procs : Acting(q) => job[q] # job[p]
    /\ Goto(p, step)
    /\ UNCHANGED <<job, pid, succeeded, executed, result, exportVars, fileVars>>

\* Another command takes the run down.
RunDown ==
    /\ run = "running"
    /\ run' = "down"
    /\ UNCHANGED <<procVars, exportVars, file, temp>>

-----------------------------------------------------------------------------
(* run_action_with_client_at *)

LoadRun(p) ==
    /\ pc[p] = "load"
    /\ IF run = "running" THEN Goto(p, "exists") /\ UNCHANGED result
       ELSE Finish(p, "run_not_running")
    /\ UNCHANGED <<job, pid, succeeded, executed, exportVars, fileVars>>

SkipCheck(p) ==  \* wrong: never looks for the job's provenance
    /\ pc[p] = "exists"
    /\ Goto(p, "request")
    /\ UNCHANGED <<job, pid, succeeded, executed, result, exportVars, fileVars>>

\* job_path(..).exists(): a job with provenance is not run again.
CheckJob(p) ==
    /\ pc[p] = "exists"
    /\ IF file[job[p]] = None THEN Goto(p, "request") /\ UNCHANGED result
       ELSE Finish(p, "job_exists")
    /\ UNCHANGED <<job, pid, succeeded, executed, exportVars, fileVars>>

\* build_evaluation_request; a failure is persisted like any other.
BuildRequest(p) ==
    /\ pc[p] = "request"
    /\ \/ Goto(p, "execute")
       \/ "request" \in MayFail /\ Goto(p, "open")
    /\ UNCHANGED <<job, pid, succeeded, executed, result, exportVars, fileVars>>

\* client.execute and what is made of its answer: a failed call or an
\* answer that does not validate or reports failure leaves success false.
Execute(p) ==
    /\ pc[p] = "execute"
    /\ executed' = [executed EXCEPT ![p] = TRUE]
    /\ \/ succeeded' = [succeeded EXCEPT ![p] = TRUE]
       \/ {"client", "rejected"} \cap MayFail # {} /\ UNCHANGED succeeded
    /\ Goto(p, "open")
    /\ UNCHANGED <<job, pid, result, exportVars, fileVars>>

-----------------------------------------------------------------------------
(* save_job_provenance *)

\* OpenOptions::create_new: a temporary file that is there is an error.
OpenTemporary(p) ==
    /\ pc[p] = "open"
    /\ \/ /\ Temporary(p) = None
          /\ PutTemporary(p, [writer |-> p, success |-> succeeded[p], whole |-> FALSE])
          /\ Goto(p, "write")
          /\ UNCHANGED result
       \/ /\ Temporary(p) # None \/ "open" \in MayFail
          /\ Finish(p, "job_write")
          /\ UNCHANGED temp
    /\ UNCHANGED <<job, pid, succeeded, executed, exportVars, run, file>>

KeepTemporary(p, code, kept) ==  \* wrong: returns without removing the file
    /\ UNCHANGED temp
    /\ Finish(p, code)

TryAgain(p, code, kept) ==  \* wrong: tries again for ever
    /\ PutTemporary(p, None)
    /\ Goto(p, "open")
    /\ UNCHANGED result

\* An error return of save_job_provenance: it removes the temporary file,
\* and ignores whether that worked.
RemoveAndReturn(p, code, kept) ==
    \/ /\ PutTemporary(p, None)
       /\ Finish(p, code)
    \/ /\ "remove" \in MayFail
       /\ Finish(p, kept)
       /\ UNCHANGED temp

WriteUnchecked(p) ==  \* wrong: goes on to rename whatever was written
    /\ pc[p] = "write"
    /\ \/ /\ PutTemporary(p, [Temporary(p) EXCEPT !.whole = TRUE])
       \/ "write" \in MayFail /\ UNCHANGED temp
    /\ Goto(p, "rename")
    /\ UNCHANGED <<job, pid, succeeded, executed, result, exportVars, run, file>>

\* write_all and sync_all.
WriteTemporary(p) ==
    /\ pc[p] = "write"
    /\ \/ /\ PutTemporary(p, [Temporary(p) EXCEPT !.whole = TRUE])
          /\ Goto(p, "rename")
          /\ UNCHANGED result
       \/ "write" \in MayFail /\ RemoveAndReturn(p, "job_write", "job_write_kept")
    /\ UNCHANGED <<job, pid, succeeded, executed, exportVars, run, file>>

AlwaysOk(p) ==  \* wrong: a persisted failure is reported as a success
    /\ pc[p] = "rename"
    /\ file' = [file EXCEPT ![job[p]] = Temporary(p)]
    /\ PutTemporary(p, None)
    /\ Finish(p, "ok")
    /\ UNCHANGED <<job, pid, succeeded, executed, exportVars, run>>

\* rename over the job's file; then run-action answers with the job or with
\* the error it has just recorded.
RenameTemporary(p) ==
    /\ pc[p] = "rename"
    /\ \/ /\ file' = [file EXCEPT ![job[p]] = Temporary(p)]
          /\ PutTemporary(p, None)
          /\ Finish(p, IF succeeded[p] THEN "ok" ELSE "action_failed")
       \/ /\ "rename" \in MayFail
          /\ RemoveAndReturn(p, "job_commit", "job_commit_kept")
          /\ UNCHANGED file
    /\ UNCHANGED <<job, pid, succeeded, executed, exportVars, run>>

-----------------------------------------------------------------------------
(* export_provenance and load_jobs *)

LoadForExport(p) ==
    /\ pc[p] = "load_export"
    /\ Goto(p, "list")
    /\ UNCHANGED <<job, pid, succeeded, executed, result, exportVars, fileVars>>

\* read_dir: what is in the directory now will be among its entries.
OpenDirectory(p) ==
    /\ pc[p] = "list"
    /\ required' = [required EXCEPT ![p] = {j \in Jobs : file[j] # None}]
    /\ Goto(p, "read")
    /\ UNCHANGED <<job, pid, succeeded, executed, result, seen, fileVars>>

\* The next .json entry; one renamed in meanwhile may or may not appear.
\* A file that does not parse would fail the whole export.
ReadEntry(p) ==
    /\ pc[p] = "read"
    /\ \E j \in Jobs : /\ file[j] # None
                       /\ seen[p][j] = None
                       /\ seen' = [seen EXCEPT ![p][j] = file[j]]
                       /\ IF file[j].whole THEN UNCHANGED <<pc, result>>
                          ELSE Finish(p, "json")
    /\ UNCHANGED <<job, pid, succeeded, executed, required, fileVars>>

EndEarly(p) ==  \* wrong: stops at the first entry
    /\ pc[p] = "read"
    /\ required[p] # {} => \E j \in Jobs : seen[p][j] # None
    /\ Finish(p, "exported")
    /\ UNCHANGED <<job, pid, succeeded, executed, exportVars, fileVars>>

EndOfDirectory(p) ==
    /\ pc[p] = "read"
    /\ \A j \in required[p] : seen[p][j] # None
    /\ Finish(p, "exported")
    /\ UNCHANGED <<job, pid, succeeded, executed, exportVars, fileVars>>

\* The process is killed.
Crash(p) ==
    /\ "crash" \in MayFail
    /\ InFlight(p)
    /\ Goto(p, "killed")
    /\ UNCHANGED <<job, pid, succeeded, executed, result, exportVars, fileVars>>

ActionStep(p) ==
    \/ LoadRun(p) \/ CheckJob(p) \/ BuildRequest(p) \/ Execute(p)
    \/ OpenTemporary(p) \/ WriteTemporary(p) \/ RenameTemporary(p)

ExportStep(p) == LoadForExport(p) \/ OpenDirectory(p) \/ ReadEntry(p) \/ EndOfDirectory(p)

Next ==
    \/ RunDown
    \/ \E p \in Procs :
         \/ \E step \in {"load", "load_export"} : Start(p, step)
         \/ ActionStep(p)
         \/ ExportStep(p)
         \/ Crash(p)

Spec == Init /\ [][Next]_vars

\* A started command is a running process: it is scheduled, and no step of
\* it waits for another process (the helper answers: NvmsProcess is about
\* that).
FairSpec == Spec /\ \A p \in Procs : WF_vars(ActionStep(p) \/ ExportStep(p))

-----------------------------------------------------------------------------

Types ==
    /\ run \in {"running", "down"}
    /\ file \in [Jobs -> JobProvenance \cup {None}]
    /\ temp \in [Jobs -> [Pids -> JobProvenance \cup {None}]]
    /\ pc \in [Procs -> Steps]
    /\ job \in [Procs -> Jobs]
    /\ pid \in [Procs -> Pids]
    /\ succeeded \in [Procs -> BOOLEAN]
    /\ executed \in [Procs -> BOOLEAN]
    /\ result \in [Procs -> Results]
    /\ required \in [Procs -> SUBSET Jobs]
    /\ seen \in [Procs -> [Jobs -> JobProvenance \cup {None}]]

\* Types, and a process that saves has a temporary file.
TypeOK ==
    /\ Types
    /\ \A p \in Procs : pc[p] \in {"write", "rename"} => Temporary(p) \in JobProvenance

\* A provenance file is never partly written, whoever is killed or fails and
\* whatever runs at once: it appears by rename of a synced file that only
\* the process that renames it has written.
ProvenanceIsWhole == \A j \in Jobs : file[j] # None => file[j].whole

\* What run-action reports of a job whose actions are kept apart is what it has
\* recorded, and no other invocation has recorded since: a success as a
\* success, a failure as a failure.
ReportIsRecorded ==
    \A p \in Procs : (result[p] \in Recorded /\ job[p] \notin Shared) =>
        /\ file[job[p]] # None
        /\ file[job[p]].writer = p
        /\ file[job[p]].success = (result[p] = "ok")

\* The provenance of a job whose actions are kept apart, once there, is not
\* replaced, by a retry after a lost answer or a process with a reused id.
ProvenanceIsFinal ==
    [][\A j \in Jobs \ Shared : file[j] # None => file'[j] = file[j]]_vars

\* No job's provenance is replaced, whatever overlaps (lib.rs:459-466).
NoProvenanceIsReplaced ==
    [][\A j \in Jobs : file[j] # None => file'[j] = file[j]]_vars

\* An action runs twice under a job id that is not shared only if the first run
\* went unrecorded: its process was killed or could not save.
RepeatIsExplained ==
    \A p, q \in Procs :
        (p # q /\ job[p] = job[q] /\ job[p] \notin Shared /\ executed[p] /\ executed[q]) =>
            \E r \in {p, q} : pc[r] = "killed" \/ result[r] \in Unrecorded

\* A temporary file belongs to a process that is writing it, was killed, or
\* could not remove it.
TemporaryIsExplained ==
    \A j \in Jobs, i \in Pids : temp[j][i] # None =>
        LET w == temp[j][i].writer IN
            \/ pc[w] \in {"write", "rename", "killed"}
            \/ result[w] \in {"job_write_kept", "job_commit_kept"}

\* An export agrees with what earlier invocations reported: a job that is not
\* shared and was recorded before the export opened the directory is in it,
\* whole, with the outcome its run-action returned; and no export fails on an
\* unreadable file, whatever overlaps.
ExportAgreesWithReports ==
    \A p \in Procs :
        /\ result[p] # "json"
        /\ result[p] = "exported" =>
             \A q \in Procs :
               (result[q] \in Recorded /\ job[q] \in required[p] \ Shared) =>
                 seen[p][job[q]] =
                     [writer |-> q, success |-> result[q] = "ok", whole |-> TRUE]

\* Every command that is started ends.
EveryCommandEnds ==
    \A p \in Procs : InFlight(p) ~> pc[p] \in Ended
=============================================================================
