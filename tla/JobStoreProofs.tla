--------------------------- MODULE JobStoreProofs ---------------------------
(***************************************************************************)
(* Proofs about JobStore, for every set of invocations, process ids, jobs  *)
(* and faults.  Whatever overlaps: provenance is never torn and leftover   *)
(* temporary files are explained.  For a job id under which no two actions *)
(* are ever in flight: provenance is final, what is reported is recorded,  *)
(* an action repeats only after an unrecorded run, and exports agree.      *)
(***************************************************************************)
EXTENDS JobStore, TLAPS

\* No marker is a provenance record.
LEMMA Distinct == None \notin JobProvenance
  BY JobConstants DEF JobProvenance

\* Two commands that run at once have different process ids.
PidsDiffer ==
    \A p, q \in Procs : (p # q /\ InFlight(p) /\ InFlight(q)) => pid[p] # pid[q]

\* A process that saves has its temporary file to itself, and renames it
\* only when it is complete.
OwnTemporary ==
    \A p \in Procs : pc[p] \in {"write", "rename"} =>
        /\ Temporary(p) \in JobProvenance
        /\ Temporary(p).writer = p
        /\ Temporary(p).success = succeeded[p]
        /\ pc[p] = "rename" => Temporary(p).whole

\* A temporary file bears the job and the process id of the process that
\* made it, which is saving, was killed, or could not remove it.
WritersExplained ==
    \A j \in Jobs, i \in Pids : temp[j][i] # None =>
        \E w \in Procs :
            /\ temp[j][i].writer = w /\ job[w] = j /\ pid[w] = i
            /\ \/ pc[w] \in {"write", "rename", "killed"}
               \/ pc[w] = "done" /\ result[w] \in {"job_write_kept", "job_commit_kept"}

IInv == Types /\ PidsDiffer /\ OwnTemporary /\ WritersExplained /\ ProvenanceIsWhole

-----------------------------------------------------------------------------

USE DEF procVars, exportVars, fileVars, Goto, Finish

LEMMA InitTypes == Init => Types
  BY Distinct DEF Init, Types, Steps, Results

LEMMA InitIInv == Init => IInv
  BY Distinct, InitTypes DEF Init, IInv, PidsDiffer, OwnTemporary, WritersExplained,
       ProvenanceIsWhole, InFlight, Ended

\* What one temporary file's change does to the others: nothing.
LEMMA TemporaryChange ==
  ASSUME Types, NEW p \in Procs, NEW c \in JobProvenance \cup {None}, PutTemporary(p, c)
  PROVE  /\ temp' \in [Jobs -> [Pids -> JobProvenance \cup {None}]]
         /\ temp'[job[p]][pid[p]] = c
         /\ \A j \in Jobs, i \in Pids :
              j # job[p] \/ i # pid[p] => temp'[j][i] = temp[j][i]
  BY DEF PutTemporary, Types

\* An error return of save_job_provenance.
LEMMA RemoveAndReturnStep ==
  ASSUME Types, NEW p \in Procs, NEW code \in Results, NEW kept \in Results,
         RemoveAndReturn(p, code, kept)
  PROVE  /\ pc' = [pc EXCEPT ![p] = "done"]
         /\ \/ result' = [result EXCEPT ![p] = code] /\ PutTemporary(p, None)
            \/ result' = [result EXCEPT ![p] = kept] /\ UNCHANGED temp
         /\ temp' \in [Jobs -> [Pids -> JobProvenance \cup {None}]]
<1>1. CASE PutTemporary(p, None) /\ Finish(p, code)
  BY <1>1, TemporaryChange
<1>2. CASE Finish(p, kept) /\ UNCHANGED temp
  BY <1>2 DEF Types
<1>3. QED
  BY <1>1, <1>2 DEF RemoveAndReturn

LEMMA TypesStep == Types /\ OwnTemporary /\ [Next]_vars => Types'
<1> SUFFICES ASSUME Types, OwnTemporary, [Next]_vars PROVE Types'
  OBVIOUS
<1> USE DEF Steps, Before, Saving, Exporting, Ended, Results, Refused, Unrecorded, Recorded
<1>1. ASSUME NEW p \in Procs, NEW step \in {"load", "load_export"}, Start(p, step)
      PROVE Types'
  BY <1>1 DEF Start, Types
<1>2. CASE RunDown
  BY <1>2 DEF RunDown, Types
<1>3. ASSUME NEW p \in Procs, LoadRun(p) \/ CheckJob(p) \/ BuildRequest(p) \/ Execute(p)
      PROVE Types'
  BY <1>3 DEF LoadRun, CheckJob, BuildRequest, Execute, Types
<1>4. ASSUME NEW p \in Procs, OpenTemporary(p) PROVE Types'
  <2>1. [writer |-> p, success |-> succeeded[p], whole |-> FALSE] \in JobProvenance
    BY DEF JobProvenance, Types
  <2>2. temp' \in [Jobs -> [Pids -> JobProvenance \cup {None}]]
    BY <1>4, <2>1, TemporaryChange DEF OpenTemporary, Types
  <2>3. QED
    BY <1>4, <2>2 DEF OpenTemporary, Types
<1>5. ASSUME NEW p \in Procs, Temporary(p) \in JobProvenance, WriteTemporary(p) PROVE Types'
  <2>1. [Temporary(p) EXCEPT !.whole = TRUE] \in JobProvenance
    BY <1>5 DEF JobProvenance
  <2>2. CASE PutTemporary(p, [Temporary(p) EXCEPT !.whole = TRUE]) /\ Goto(p, "rename")
             /\ UNCHANGED result
    <3>1. temp' \in [Jobs -> [Pids -> JobProvenance \cup {None}]]
      BY <2>1, <2>2, TemporaryChange
    <3>2. QED
      BY <1>5, <2>2, <3>1 DEF WriteTemporary, Types
  <2>3. CASE RemoveAndReturn(p, "job_write", "job_write_kept")
    <3>1. /\ pc' = [pc EXCEPT ![p] = "done"]
          /\ \/ result' = [result EXCEPT ![p] = "job_write"]
             \/ result' = [result EXCEPT ![p] = "job_write_kept"]
          /\ temp' \in [Jobs -> [Pids -> JobProvenance \cup {None}]]
      BY <2>3, RemoveAndReturnStep
    <3>2. QED
      BY <1>5, <3>1 DEF WriteTemporary, Types
  <2>4. QED
    BY <1>5, <2>2, <2>3 DEF WriteTemporary
<1>6. ASSUME NEW p \in Procs, Temporary(p) \in JobProvenance, RenameTemporary(p) PROVE Types'
  <2>1. CASE file' = [file EXCEPT ![job[p]] = Temporary(p)] /\ PutTemporary(p, None)
             /\ Finish(p, IF succeeded[p] THEN "ok" ELSE "action_failed")
    <3>1. temp' \in [Jobs -> [Pids -> JobProvenance \cup {None}]]
      BY <2>1, TemporaryChange
    <3>2. file' \in [Jobs -> JobProvenance \cup {None}]
      BY <1>6, <2>1 DEF Types
    <3>3. QED
      BY <1>6, <2>1, <3>1, <3>2 DEF RenameTemporary, Types
  <2>2. CASE RemoveAndReturn(p, "job_commit", "job_commit_kept") /\ UNCHANGED file
    <3>1. /\ pc' = [pc EXCEPT ![p] = "done"]
          /\ \/ result' = [result EXCEPT ![p] = "job_commit"]
             \/ result' = [result EXCEPT ![p] = "job_commit_kept"]
          /\ temp' \in [Jobs -> [Pids -> JobProvenance \cup {None}]]
      BY <2>2, RemoveAndReturnStep
    <3>2. QED
      BY <1>6, <2>2, <3>1 DEF RenameTemporary, Types
  <2>3. QED
    BY <1>6, <2>1, <2>2 DEF RenameTemporary
<1>7. ASSUME NEW p \in Procs, ExportStep(p) \/ Crash(p) PROVE Types'
  <2>1. CASE LoadForExport(p) \/ OpenDirectory(p) \/ EndOfDirectory(p) \/ Crash(p)
    BY <2>1 DEF LoadForExport, OpenDirectory, EndOfDirectory, Crash, Types
  <2>2. CASE ReadEntry(p)
    <3>1. PICK j \in Jobs : seen' = [seen EXCEPT ![p][j] = file[j]]
      BY <2>2 DEF ReadEntry
    <3>2. seen' \in [Procs -> [Jobs -> JobProvenance \cup {None}]]
      BY <3>1 DEF Types
    <3>3. QED
      BY <2>2, <3>2 DEF ReadEntry, Types
  <2>3. QED
    BY <1>7, <2>1, <2>2 DEF ExportStep
<1>8. CASE UNCHANGED vars
  BY <1>8 DEF vars, Types
<1>9. \A p \in Procs : WriteTemporary(p) \/ RenameTemporary(p) => Temporary(p) \in JobProvenance
  BY DEF OwnTemporary, WriteTemporary, RenameTemporary
<1>10. QED
  BY <1>1, <1>2, <1>3, <1>4, <1>5, <1>6, <1>7, <1>8, <1>9 DEF Next, ActionStep

-----------------------------------------------------------------------------

\* A step of a command that runs.
Step(p) == ActionStep(p) \/ ExportStep(p) \/ Crash(p)

\* What a step of p leaves alone: ids, other processes, other temporary
\* files, and every provenance file unless it renames.
LEMMA StepFrame ==
  ASSUME Types, NEW p \in Procs, Step(p)
  PROVE  /\ InFlight(p)
         /\ UNCHANGED <<job, pid>>
         /\ \A q \in Procs : q # p =>
              /\ pc'[q] = pc[q] /\ result'[q] = result[q]
              /\ succeeded'[q] = succeeded[q] /\ executed'[q] = executed[q]
         /\ \A j \in Jobs, i \in Pids :
              j # job[p] \/ i # pid[p] => temp'[j][i] = temp[j][i]
         /\ RenameTemporary(p) \/ UNCHANGED file
<1> USE DEF InFlight, Ended
<1>1. CASE LoadRun(p) \/ CheckJob(p) \/ BuildRequest(p) \/ Execute(p)
  BY <1>1 DEF LoadRun, CheckJob, BuildRequest, Execute, Types
<1>2. CASE OpenTemporary(p)
  BY <1>2 DEF OpenTemporary, PutTemporary, Types
<1>3. CASE WriteTemporary(p)
  BY <1>3 DEF WriteTemporary, RemoveAndReturn, PutTemporary, Types
<1>4. CASE RenameTemporary(p)
  BY <1>4 DEF RenameTemporary, RemoveAndReturn, PutTemporary, Types
<1>5. CASE ExportStep(p) \/ Crash(p)
  BY <1>5 DEF ExportStep, LoadForExport, OpenDirectory, ReadEntry, EndOfDirectory, Crash, Types
<1>6. QED
  BY <1>1, <1>2, <1>3, <1>4, <1>5 DEF Step, ActionStep

LEMMA PidsDifferStep == Types /\ PidsDiffer /\ [Next]_vars => PidsDiffer'
<1> SUFFICES ASSUME Types, PidsDiffer, [Next]_vars PROVE PidsDiffer'
  OBVIOUS
<1>1. ASSUME NEW p \in Procs, NEW step \in {"load", "load_export"}, Start(p, step)
      PROVE PidsDiffer'
  BY <1>1 DEF Start, PidsDiffer, InFlight, Types
<1>2. ASSUME NEW p \in Procs, Step(p) PROVE PidsDiffer'
  BY <1>2, StepFrame DEF PidsDiffer, InFlight
<1>3. CASE RunDown \/ UNCHANGED vars
  BY <1>3 DEF RunDown, vars, PidsDiffer, InFlight
<1>4. QED
  BY <1>1, <1>2, <1>3 DEF Next, Step

\* A process that saves keeps its temporary file to itself: another one's
\* has another process id.
LEMMA OwnTemporaryStep ==
  Types /\ PidsDiffer /\ OwnTemporary /\ [Next]_vars => OwnTemporary'
<1> SUFFICES ASSUME Types, PidsDiffer, OwnTemporary, [Next]_vars,
                    NEW q \in Procs, pc'[q] \in {"write", "rename"}
             PROVE  /\ (Temporary(q) \in JobProvenance)'
                    /\ Temporary(q)'.writer = q
                    /\ Temporary(q)'.success = succeeded'[q]
                    /\ pc'[q] = "rename" => Temporary(q)'.whole
  BY DEF OwnTemporary
<1>1. ASSUME NEW p \in Procs, NEW step \in {"load", "load_export"}, Start(p, step)
      PROVE  pc[q] = pc'[q] /\ UNCHANGED <<temp, job, pid, succeeded>>
  BY <1>1 DEF Start, Types
<1>2. ASSUME NEW p \in Procs, p # q, Step(p)
      PROVE  /\ pc[q] = pc'[q] /\ succeeded[q] = succeeded'[q]
             /\ Temporary(q)' = Temporary(q)
  <2>1. InFlight(p) /\ InFlight(q)
    BY <1>2, StepFrame DEF InFlight, Ended
  <2>2. pid[p] # pid[q]
    BY <1>2, <2>1 DEF PidsDiffer
  <2>3. job[q] \in Jobs /\ pid[q] \in Pids
    BY DEF Types
  <2>4. QED
    BY <1>2, <2>2, <2>3, StepFrame DEF Temporary
<1>3. CASE OpenTemporary(q)
  <2>1. PutTemporary(q, [writer |-> q, success |-> succeeded[q], whole |-> FALSE])
        /\ Goto(q, "write")
    BY <1>3 DEF OpenTemporary, Types
  <2>2. Temporary(q)' = [writer |-> q, success |-> succeeded[q], whole |-> FALSE]
    BY <1>3, <2>1 DEF OpenTemporary, Temporary, PutTemporary, Types
  <2>3. QED
    BY <1>3, <2>1, <2>2 DEF OpenTemporary, JobProvenance, Types
<1>4. CASE WriteTemporary(q)
  <2>1. PutTemporary(q, [Temporary(q) EXCEPT !.whole = TRUE]) /\ Goto(q, "rename")
    BY <1>4 DEF WriteTemporary, RemoveAndReturn, Types
  <2>2. Temporary(q)' = [Temporary(q) EXCEPT !.whole = TRUE]
    BY <1>4, <2>1 DEF WriteTemporary, Temporary, PutTemporary, Types
  <2>3. QED
    BY <1>4, <2>2 DEF WriteTemporary, JobProvenance, OwnTemporary
<1>5. CASE RenameTemporary(q)
  BY <1>5 DEF RenameTemporary, RemoveAndReturn, Types
<1>6. CASE LoadRun(q) \/ CheckJob(q) \/ BuildRequest(q) \/ Execute(q) \/ ExportStep(q) \/ Crash(q)
  BY <1>6 DEF LoadRun, CheckJob, BuildRequest, Execute, ExportStep, LoadForExport,
              OpenDirectory, ReadEntry, EndOfDirectory, Crash, Types
<1>7. CASE RunDown \/ UNCHANGED vars
  BY <1>7 DEF RunDown, vars, OwnTemporary, Temporary
<1>8. CASE \E p \in Procs, step \in {"load", "load_export"} : Start(p, step)
  BY <1>1, <1>8 DEF OwnTemporary, Temporary
<1>9. CASE \E p \in Procs : p # q /\ Step(p)
  BY <1>2, <1>9 DEF OwnTemporary
<1>10. QED
  BY <1>3, <1>4, <1>5, <1>6, <1>7, <1>8, <1>9 DEF Next, Step, ActionStep

\* A temporary file keeps its explanation: only its writer touches it.
LEMMA WritersExplainedStep ==
  Types /\ PidsDiffer /\ OwnTemporary /\ WritersExplained /\ [Next]_vars => WritersExplained'
<1> SUFFICES ASSUME Types, PidsDiffer, OwnTemporary, WritersExplained, [Next]_vars,
                    NEW j \in Jobs, NEW i \in Pids, temp'[j][i] # None
             PROVE  \E w \in Procs :
                       /\ temp'[j][i].writer = w /\ job'[w] = j /\ pid'[w] = i
                       /\ \/ pc'[w] \in {"write", "rename", "killed"}
                          \/ pc'[w] = "done"
                             /\ result'[w] \in {"job_write_kept", "job_commit_kept"}
  BY DEF WritersExplained
<1>1. CASE (\E p \in Procs, step \in {"load", "load_export"} : Start(p, step))
           \/ RunDown \/ UNCHANGED vars
  <2>1. /\ UNCHANGED <<temp, job, pid, result>>
        /\ \A w \in Procs : pc[w] # "idle" => pc'[w] = pc[w]
    BY <1>1 DEF Start, RunDown, vars, Types
  <2>2. QED
    BY <2>1 DEF WritersExplained
<1>2. ASSUME NEW p \in Procs, Step(p), j # job[p] \/ i # pid[p]
      PROVE  \E w \in Procs :
                       /\ temp'[j][i].writer = w /\ job'[w] = j /\ pid'[w] = i
                       /\ \/ pc'[w] \in {"write", "rename", "killed"}
                          \/ pc'[w] = "done"
                             /\ result'[w] \in {"job_write_kept", "job_commit_kept"}
  <2>1. temp'[j][i] = temp[j][i]
    BY <1>2, StepFrame
  <2>2. PICK w \in Procs :
           /\ temp[j][i].writer = w /\ job[w] = j /\ pid[w] = i
           /\ \/ pc[w] \in {"write", "rename", "killed"}
              \/ pc[w] = "done" /\ result[w] \in {"job_write_kept", "job_commit_kept"}
    BY <2>1 DEF WritersExplained
  <2>3. w # p
    BY <1>2, <2>2
  <2>4. QED
    BY <1>2, <2>1, <2>2, <2>3, StepFrame
<1>3. ASSUME NEW p \in Procs, Step(p), j = job[p], i = pid[p]
      PROVE  \E w \in Procs :
                       /\ temp'[j][i].writer = w /\ job'[w] = j /\ pid'[w] = i
                       /\ \/ pc'[w] \in {"write", "rename", "killed"}
                          \/ pc'[w] = "done"
                             /\ result'[w] \in {"job_write_kept", "job_commit_kept"}
  <2>0. UNCHANGED <<job, pid>> /\ InFlight(p)
    BY <1>3, StepFrame
  <2>1. CASE OpenTemporary(p) /\ Goto(p, "write")
    <3>1. temp'[j][i].writer = p
      BY <1>3, <2>1 DEF OpenTemporary, PutTemporary, Types
    <3>2. QED
      BY <1>3, <2>0, <2>1, <3>1 DEF Types
  <2>2. CASE WriteTemporary(p) /\ Goto(p, "rename")
    <3>0. PutTemporary(p, [Temporary(p) EXCEPT !.whole = TRUE])
      BY <2>2 DEF WriteTemporary, RemoveAndReturn, Types
    <3>1. temp'[j][i] = [Temporary(p) EXCEPT !.whole = TRUE]
      BY <1>3, <3>0 DEF PutTemporary, Types
    <3>2. Temporary(p) \in JobProvenance /\ Temporary(p).writer = p
      BY <2>2 DEF OwnTemporary, WriteTemporary
    <3>3. temp'[j][i].writer = p
      BY <3>1, <3>2 DEF JobProvenance
    <3>4. QED
      BY <1>3, <2>0, <2>2, <3>3 DEF Types
  <2>3. CASE (WriteTemporary(p) /\ RemoveAndReturn(p, "job_write", "job_write_kept"))
             \/ (RenameTemporary(p) /\ RemoveAndReturn(p, "job_commit", "job_commit_kept"))
    <3>1. UNCHANGED temp /\ pc'[p] = "done"
          /\ result'[p] \in {"job_write_kept", "job_commit_kept"}
      BY <1>3, <2>3 DEF RemoveAndReturn, PutTemporary, Types
    <3>2. Temporary(p).writer = p
      BY <2>3 DEF OwnTemporary, WriteTemporary, RenameTemporary
    <3>3. QED
      BY <1>3, <2>0, <3>1, <3>2 DEF Temporary
  <2>4. CASE RenameTemporary(p) /\ PutTemporary(p, None)
    BY <1>3, <2>4 DEF PutTemporary, Types
  <2>5. CASE UNCHANGED temp /\ (pc[p] \in {"write", "rename"} => pc'[p] = "killed")
    <3>1. PICK w \in Procs :
             /\ temp[j][i].writer = w /\ job[w] = j /\ pid[w] = i
             /\ \/ pc[w] \in {"write", "rename", "killed"}
                \/ pc[w] = "done" /\ result[w] \in {"job_write_kept", "job_commit_kept"}
      BY <2>5 DEF WritersExplained
    <3>2. CASE w = p
      BY <2>0, <2>5, <3>1, <3>2 DEF InFlight, Ended
    <3>3. CASE w # p
      BY <1>3, <2>0, <2>5, <3>1, <3>3, StepFrame
    <3>4. QED
      BY <3>2, <3>3
  <2>6. CASE OpenTemporary(p)
    BY <2>1, <2>5, <2>6 DEF OpenTemporary
  <2>7. CASE WriteTemporary(p)
    BY <2>2, <2>3, <2>7 DEF WriteTemporary
  <2>8. CASE RenameTemporary(p)
    BY <2>3, <2>4, <2>8 DEF RenameTemporary
  <2>9. CASE LoadRun(p) \/ CheckJob(p) \/ BuildRequest(p) \/ Execute(p)
    BY <2>5, <2>9 DEF LoadRun, CheckJob, BuildRequest, Execute
  <2>10. CASE ExportStep(p)
    BY <2>5, <2>10 DEF ExportStep, LoadForExport, OpenDirectory, ReadEntry, EndOfDirectory
  <2>11. CASE Crash(p)
    BY <2>5, <2>11 DEF Crash, Types
  <2>12. QED
    BY <1>3, <2>6, <2>7, <2>8, <2>9, <2>10, <2>11 DEF Step, ActionStep
<1>4. QED
  BY <1>1, <1>2, <1>3 DEF Next, Step

\* A rename moves a complete file; nothing else touches provenance.
LEMMA ProvenanceIsWholeStep ==
  Types /\ OwnTemporary /\ ProvenanceIsWhole /\ [Next]_vars => ProvenanceIsWhole'
<1> SUFFICES ASSUME Types, OwnTemporary, ProvenanceIsWhole, [Next]_vars
             PROVE  ProvenanceIsWhole'
  OBVIOUS
<1>1. ASSUME NEW p \in Procs, RenameTemporary(p) PROVE ProvenanceIsWhole'
  BY <1>1 DEF RenameTemporary, OwnTemporary, ProvenanceIsWhole, Types
<1>2. CASE UNCHANGED file
  BY <1>2 DEF ProvenanceIsWhole
<1>3. (\E p \in Procs : RenameTemporary(p)) \/ UNCHANGED file
  BY StepFrame DEF Next, Step, Start, RunDown, vars
<1>4. QED
  BY <1>1, <1>2, <1>3

LEMMA IInvStep == IInv /\ [Next]_vars => IInv'
  BY TypesStep, PidsDifferStep, OwnTemporaryStep, WritersExplainedStep,
     ProvenanceIsWholeStep DEF IInv

LEMMA IInvAlways == Spec => []IInv
  BY InitIInv, IInvStep, PTL DEF Spec

\* Every variable keeps its type, and a process that saves has a temporary
\* file, in every run of run-action and export-provenance.
THEOREM TypeCorrect == Spec => []TypeOK
<1>1. IInv => TypeOK
  BY DEF IInv, TypeOK, OwnTemporary
<1>2. QED
  BY IInvAlways, <1>1, PTL

\* save_job_provenance never leaves a torn provenance file, whatever
\* overlaps, fails or is killed.
THEOREM ProvenanceIsWholeAlways == Spec => []ProvenanceIsWhole
<1>1. IInv => ProvenanceIsWhole
  BY DEF IInv
<1>2. QED
  BY IInvAlways, <1>1, PTL

\* A temporary file in the job directory belongs to a process that is
\* saving, was killed, or could not remove it.
THEOREM TemporaryIsExplainedAlways == Spec => []TemporaryIsExplained
<1>1. IInv => TemporaryIsExplained
  BY DEF IInv, WritersExplained, TemporaryIsExplained
<1>2. QED
  BY IInvAlways, <1>1, PTL

-----------------------------------------------------------------------------
(* What holds as long as no two actions with one job id are in flight. *)

\* Two actions that run at once are about different jobs, or a shared one.
ActingDiffer ==
    \A p, q \in Procs :
        (p # q /\ Acting(p) /\ Acting(q) /\ job[p] \notin Shared) => job[p] # job[q]

\* From its check until its rename, nobody records the job of an action that
\* is not shared.
NothingYet ==
    \A p \in Procs :
        (job[p] \notin Shared /\ pc[p] \in {"request", "execute"} \cup Saving)
            => file[job[p]] = None

\* An action that was executed is being saved, or its command has ended and
\* says whether it was.
ExecutedGoesOn ==
    \A p \in Procs : executed[p] =>
        \/ pc[p] \in Saving \cup {"killed"}
        \/ pc[p] = "done" /\ result[p] \in Recorded \cup Unrecorded

SerialInv == ActingDiffer /\ NothingYet /\ ReportIsRecorded /\ ExecutedGoesOn

LEMMA InitSerialInv == Init => SerialInv
  BY DEF Init, SerialInv, ActingDiffer, NothingYet, ReportIsRecorded, ExecutedGoesOn,
         Acting, Before, Saving, Recorded

LEMMA ActingDifferStep ==
  ASSUME Types, ActingDiffer, [Next]_vars
  PROVE  ActingDiffer'
<1> USE DEF Acting, Before, Saving
<1>1. ASSUME NEW p \in Procs, NEW step \in {"load", "load_export"}, Start(p, step)
      PROVE ActingDiffer'
  BY <1>1 DEF Start, ActingDiffer, Types
<1>2. ASSUME NEW p \in Procs, Step(p) PROVE ActingDiffer'
  <2>1. Acting(p)' => Acting(p)
    BY <1>2 DEF Step, ActionStep, ExportStep, LoadRun, CheckJob, BuildRequest, Execute,
         OpenTemporary, WriteTemporary, RenameTemporary, LoadForExport, OpenDirectory,
         ReadEntry, EndOfDirectory, Crash, Types
  <2>2. \A q \in Procs : Acting(q)' => Acting(q)
    BY <1>2, <2>1, StepFrame
  <2>3. QED
    BY <1>2, <2>2, StepFrame DEF ActingDiffer
<1>3. CASE RunDown \/ UNCHANGED vars
  BY <1>3 DEF RunDown, vars, ActingDiffer
<1>4. QED
  BY <1>1, <1>2, <1>3 DEF Next, Step

\* Only a rename changes provenance, of an absent file if the job is not shared,
\* and only it makes a command report what is recorded.
RecordingStep(p) ==
    /\ pc[p] = "rename" /\ pc'[p] = "done"
    /\ job[p] \notin Shared => file[job[p]] = None
    /\ file' = [file EXCEPT ![job[p]] = Temporary(p)]
    /\ result'[p] = IF succeeded[p] THEN "ok" ELSE "action_failed"
    /\ \A q \in Procs : q # p => pc'[q] = pc[q] /\ result'[q] = result[q]

LEMMA FileStep ==
  ASSUME Types, OwnTemporary, NothingYet, [Next]_vars
  PROVE  \/ /\ UNCHANGED file
            /\ \A q \in Procs : result'[q] \in Recorded => result'[q] = result[q]
         \/ \E p \in Procs : RecordingStep(p)
<1> USE DEF Recorded
<1>1. CASE \/ \E p \in Procs, step \in {"load", "load_export"} : Start(p, step)
           \/ RunDown \/ UNCHANGED vars
  BY <1>1 DEF Start, RunDown, vars
<1>2. ASSUME NEW p \in Procs, Step(p)
      PROVE  \/ /\ UNCHANGED file
                /\ \A q \in Procs : result'[q] \in Recorded => result'[q] = result[q]
             \/ RecordingStep(p)
  <2>1. CASE LoadRun(p) \/ CheckJob(p) \/ BuildRequest(p) \/ Execute(p)
    BY <2>1 DEF LoadRun, CheckJob, BuildRequest, Execute, Types
  <2>2. CASE OpenTemporary(p) \/ WriteTemporary(p)
    BY <2>2 DEF OpenTemporary, WriteTemporary, RemoveAndReturn, Types
  <2>3. CASE RenameTemporary(p) /\ RemoveAndReturn(p, "job_commit", "job_commit_kept")
             /\ UNCHANGED file
    BY <2>3 DEF RemoveAndReturn, Types
  <2>4. CASE RenameTemporary(p) /\ file' = [file EXCEPT ![job[p]] = Temporary(p)]
             /\ Finish(p, IF succeeded[p] THEN "ok" ELSE "action_failed")
    <3>1. job[p] \notin Shared => file[job[p]] = None
      BY <2>4 DEF RenameTemporary, NothingYet, Saving
    <3>2. QED
      BY <2>4, <3>1 DEF RenameTemporary, RecordingStep, Types
  <2>5. CASE RenameTemporary(p)
    BY <2>3, <2>4, <2>5 DEF RenameTemporary
  <2>6. CASE ExportStep(p) \/ Crash(p)
    BY <2>6 DEF ExportStep, LoadForExport, OpenDirectory, ReadEntry, EndOfDirectory, Crash, Types
  <2>7. QED
    BY <1>2, <2>1, <2>2, <2>5, <2>6 DEF Step, ActionStep
<1>3. QED
  BY <1>1, <1>2 DEF Next, Step

LEMMA NothingYetStep ==
  ASSUME Types, OwnTemporary, ActingDiffer, NothingYet, [Next]_vars
  PROVE  NothingYet'
<1> SUFFICES ASSUME NEW q \in Procs, pc'[q] \in {"request", "execute"} \cup Saving,
                    job'[q] \notin Shared
             PROVE  file'[job'[q]] = None
  BY DEF NothingYet
<1> USE DEF Saving
<1>1. UNCHANGED job
  BY StepFrame DEF Next, Step, Start, RunDown, vars
<1>2. job[q] \notin Shared
  BY <1>1
<1>3. file[job[q]] = None
  <2>1. ASSUME NEW p \in Procs, NEW step \in {"load", "load_export"}, Start(p, step)
        PROVE  pc[q] = pc'[q]
    BY <2>1 DEF Start, Types
  <2>2. CASE RunDown \/ UNCHANGED vars
    BY <2>2 DEF RunDown, vars, NothingYet
  <2>3. ASSUME NEW p \in Procs, p # q, Step(p) PROVE pc[q] = pc'[q]
    BY <2>3, StepFrame
  <2>4. CASE LoadRun(q) \/ CheckJob(q) \/ BuildRequest(q) \/ Execute(q)
    BY <2>4 DEF LoadRun, CheckJob, BuildRequest, Execute, NothingYet, Types
  <2>5. CASE OpenTemporary(q) \/ WriteTemporary(q) \/ RenameTemporary(q)
    BY <2>5 DEF OpenTemporary, WriteTemporary, RenameTemporary, NothingYet
  <2>6. CASE ExportStep(q) \/ Crash(q)
    BY <2>6 DEF ExportStep, LoadForExport, OpenDirectory, ReadEntry, EndOfDirectory, Crash, Types
  <2>7. QED
    BY <1>2, <2>1, <2>2, <2>3, <2>4, <2>5, <2>6 DEF Next, Step, ActionStep, NothingYet
<1>4. ASSUME NEW p \in Procs, RecordingStep(p) PROVE file'[job'[q]] = None
  <2>1. q # p /\ pc[q] = pc'[q]
    BY <1>4 DEF RecordingStep
  <2>2. job[q] # job[p]
    BY <1>2, <1>4, <2>1 DEF RecordingStep, ActingDiffer, Acting, Before
  <2>3. QED
    BY <1>1, <1>3, <1>4, <2>2 DEF RecordingStep, Types
<1>5. QED
  BY <1>1, <1>3, <1>4, FileStep

LEMMA ReportIsRecordedStep ==
  ASSUME Types, OwnTemporary, NothingYet, ReportIsRecorded, [Next]_vars
  PROVE  ReportIsRecorded'
<1> SUFFICES ASSUME NEW q \in Procs, result'[q] \in Recorded, job'[q] \notin Shared
             PROVE  /\ file'[job'[q]] # None
                    /\ file'[job'[q]].writer = q
                    /\ file'[job'[q]].success = (result'[q] = "ok")
  BY DEF ReportIsRecorded
<1> USE DEF Recorded
<1>1. UNCHANGED job
  BY StepFrame DEF Next, Step, Start, RunDown, vars
<1>2. CASE /\ UNCHANGED file
           /\ \A r \in Procs : result'[r] \in Recorded => result'[r] = result[r]
  BY <1>1, <1>2 DEF ReportIsRecorded
<1>3. ASSUME NEW p \in Procs, RecordingStep(p)
      PROVE  /\ file'[job'[q]] # None
             /\ file'[job'[q]].writer = q
             /\ file'[job'[q]].success = (result'[q] = "ok")
  <2>1. CASE q = p
    <3>1. /\ Temporary(p) \in JobProvenance
          /\ Temporary(p).writer = p
          /\ Temporary(p).success = succeeded[p]
      BY <1>3 DEF RecordingStep, OwnTemporary
    <3>2. file'[job'[q]] = Temporary(p)
      BY <1>1, <1>3, <2>1 DEF RecordingStep, Types
    <3>3. succeeded[p] \in BOOLEAN
      BY DEF Types
    <3>4. QED
      BY <1>3, <2>1, <3>1, <3>2, <3>3, Distinct DEF RecordingStep
  <2>2. CASE q # p
    BY <1>1, <1>3, <2>2 DEF RecordingStep, ReportIsRecorded, Types
  <2>3. QED
    BY <2>1, <2>2
<1>4. QED
  BY <1>2, <1>3, FileStep

\* An executed action is saved or explained.
LEMMA ExecutedGoesOnStep ==
  ASSUME Types, ExecutedGoesOn, [Next]_vars
  PROVE  ExecutedGoesOn'
<1> SUFFICES ASSUME NEW q \in Procs, executed'[q]
             PROVE  \/ pc'[q] \in Saving \cup {"killed"}
                    \/ pc'[q] = "done" /\ result'[q] \in Recorded \cup Unrecorded
  BY DEF ExecutedGoesOn
<1> USE DEF Saving, Recorded, Unrecorded
<1>1. ASSUME NEW p \in Procs, NEW step \in {"load", "load_export"}, Start(p, step)
      PROVE  UNCHANGED <<executed, result>> /\ (pc[q] # "idle" => pc'[q] = pc[q])
  BY <1>1 DEF Start, Types
<1>2. CASE RunDown \/ UNCHANGED vars
  BY <1>2 DEF RunDown, vars, ExecutedGoesOn
<1>3. ASSUME NEW p \in Procs, p # q, Step(p)
      PROVE  pc[q] = pc'[q] /\ executed[q] = executed'[q] /\ result[q] = result'[q]
  BY <1>3, StepFrame
<1>4. CASE LoadRun(q) \/ CheckJob(q) \/ BuildRequest(q)
  BY <1>4 DEF LoadRun, CheckJob, BuildRequest, ExecutedGoesOn
<1>5. CASE Execute(q)
  BY <1>5 DEF Execute, Types
<1>6. CASE OpenTemporary(q) \/ WriteTemporary(q)
  BY <1>6 DEF OpenTemporary, WriteTemporary, RemoveAndReturn, Types
<1>7. CASE RenameTemporary(q)
  BY <1>7 DEF RenameTemporary, RemoveAndReturn, Types
<1>8. CASE ExportStep(q)
  BY <1>8 DEF ExportStep, LoadForExport, OpenDirectory, ReadEntry, EndOfDirectory, ExecutedGoesOn
<1>9. CASE Crash(q)
  BY <1>9 DEF Crash, Types
<1>10. QED
  BY <1>1, <1>2, <1>3, <1>4, <1>5, <1>6, <1>7, <1>8, <1>9
     DEF Next, Step, ActionStep, ExecutedGoesOn

LEMMA SerialInvStep == IInv /\ SerialInv /\ [Next]_vars => SerialInv'
  BY ActingDifferStep, NothingYetStep, ReportIsRecordedStep, ExecutedGoesOnStep
     DEF IInv, SerialInv

LEMMA SerialInvAlways == Spec => [](IInv /\ SerialInv)
  BY InitIInv, IInvStep, InitSerialInv, SerialInvStep, PTL DEF Spec

\* As long as no two actions under one job id are in flight, run-action reports
\* what it has recorded of that job, and nobody records over it, whatever
\* overlaps under other ids.
THEOREM ReportIsRecordedAlways == Spec => []ReportIsRecorded
<1>1. IInv /\ SerialInv => ReportIsRecorded
  BY DEF SerialInv
<1>2. QED
  BY SerialInvAlways, <1>1, PTL

\* ... an action runs twice under one job id only if a run of it went
\* unrecorded: the check before the execution is enough.
THEOREM RepeatIsExplainedAlways == Spec => []RepeatIsExplained
<1>1. IInv /\ SerialInv => RepeatIsExplained
  <2> SUFFICES ASSUME IInv, SerialInv, NEW p \in Procs, NEW q \in Procs, p # q,
                      job[p] = job[q], job[p] \notin Shared, executed[p], executed[q],
                      pc[p] # "killed", pc[q] # "killed",
                      result[p] \notin Unrecorded, result[q] \notin Unrecorded
               PROVE  FALSE
    BY DEF RepeatIsExplained
  <2>1. /\ pc[p] \in Saving \/ result[p] \in Recorded
        /\ pc[q] \in Saving \/ result[q] \in Recorded
    BY DEF SerialInv, ExecutedGoesOn
  <2>2. CASE pc[p] \in Saving /\ pc[q] \in Saving
    BY <2>2 DEF SerialInv, ActingDiffer, Acting
  <2>3. CASE result[p] \in Recorded /\ result[q] \in Recorded
    BY <2>3 DEF SerialInv, ReportIsRecorded
  <2>4. CASE \/ pc[p] \in Saving /\ result[q] \in Recorded
             \/ pc[q] \in Saving /\ result[p] \in Recorded
    BY <2>4 DEF SerialInv, NothingYet, ReportIsRecorded
  <2>5. QED
    BY <2>1, <2>2, <2>3, <2>4
<1>2. QED
  BY SerialInvAlways, <1>1, PTL

\* ... and provenance, once there, is final.
THEOREM ProvenanceIsFinalAlways == Spec => ProvenanceIsFinal
<1>1. IInv /\ SerialInv /\ [Next]_vars =>
        [\A j \in Jobs \ Shared : file[j] # None => file'[j] = file[j]]_vars
  <2> SUFFICES ASSUME IInv, SerialInv, [Next]_vars, NEW j \in Jobs \ Shared, file[j] # None
               PROVE  file'[j] = file[j]
    OBVIOUS
  <2>1. ASSUME NEW p \in Procs, RecordingStep(p) PROVE file'[j] = file[j]
    BY <2>1 DEF RecordingStep, IInv, Types
  <2>2. QED
    BY <2>1, FileStep DEF IInv, SerialInv
<1>2. QED
  BY SerialInvAlways, <1>1, PTL DEF Spec, ProvenanceIsFinal

-----------------------------------------------------------------------------
(* What an export has read, with actions of other jobs, and of its own,    *)
(* being recorded meanwhile.                                               *)

\* A provenance file that was read is still what was read, unless its job is
\* shared.
SeenIsFile ==
    \A p \in Procs : \A j \in Jobs \ Shared : seen[p][j] # None => seen[p][j] = file[j]

\* An export never fails on a file, and ends when it has read all it must.
ExportIsWhole ==
    \A p \in Procs :
        /\ result[p] # "json"
        /\ result[p] = "exported" =>
             pc[p] = "done" /\ \A j \in required[p] : seen[p][j] # None

ExportInv == SeenIsFile /\ ExportIsWhole

LEMMA InitExportInv == Init => ExportInv
  BY DEF Init, ExportInv, SeenIsFile, ExportIsWhole

\* Reading copies a file; recording does not touch a file that is there.
LEMMA SeenIsFileStep ==
  ASSUME Types, OwnTemporary, NothingYet, SeenIsFile, [Next]_vars
  PROVE  SeenIsFile'
<1>1. UNCHANGED seen \/ \E p \in Procs : ReadEntry(p)
  BY DEF Next, Start, RunDown, ActionStep, ExportStep, LoadRun, CheckJob, BuildRequest, Execute,
         OpenTemporary, WriteTemporary, RenameTemporary, LoadForExport, OpenDirectory,
         EndOfDirectory, Crash, vars
<1>2. \A j \in Jobs \ Shared : file[j] # None => file'[j] = file[j]
  <2>1. ASSUME NEW p \in Procs, RecordingStep(p), NEW j \in Jobs \ Shared, file[j] # None
        PROVE  file'[j] = file[j]
    BY <2>1 DEF RecordingStep, Types
  <2>2. QED
    BY <2>1, FileStep
<1>3. CASE UNCHANGED seen
  BY <1>2, <1>3 DEF SeenIsFile
<1>4. ASSUME NEW p \in Procs, ReadEntry(p) PROVE SeenIsFile'
  <2>1. PICK j \in Jobs : seen' = [seen EXCEPT ![p][j] = file[j]]
    BY <1>4 DEF ReadEntry
  <2>2. UNCHANGED file
    BY <1>4 DEF ReadEntry
  <2>3. QED
    BY <2>1, <2>2 DEF SeenIsFile, Types
<1>5. QED
  BY <1>1, <1>3, <1>4

LEMMA ExportIsWholeStep ==
  ASSUME Types, ProvenanceIsWhole, ExportIsWhole, [Next]_vars
  PROVE  ExportIsWhole'
<1> SUFFICES ASSUME NEW q \in Procs
             PROVE  /\ result'[q] # "json"
                    /\ result'[q] = "exported" =>
                         pc'[q] = "done" /\ \A j \in required'[q] : seen'[q][j] # None
  BY DEF ExportIsWhole
<1>1. CASE \/ \E p \in Procs, step \in {"load", "load_export"} : Start(p, step)
           \/ RunDown \/ UNCHANGED vars
  BY <1>1 DEF Start, RunDown, vars, ExportIsWhole, Types
<1>2. CASE LoadRun(q) \/ CheckJob(q) \/ BuildRequest(q) \/ Execute(q) \/ OpenTemporary(q)
           \/ Crash(q)
  BY <1>2 DEF LoadRun, CheckJob, BuildRequest, Execute, OpenTemporary, Crash, InFlight, Ended,
              ExportIsWhole, Types
<1>3. CASE WriteTemporary(q) \/ RenameTemporary(q)
  BY <1>3 DEF WriteTemporary, RenameTemporary, RemoveAndReturn, ExportIsWhole, Types
<1>4. CASE LoadForExport(q) \/ OpenDirectory(q) \/ EndOfDirectory(q)
  BY <1>4 DEF LoadForExport, OpenDirectory, EndOfDirectory, ExportIsWhole, Types
<1>5. CASE ReadEntry(q)
  <2>1. UNCHANGED result /\ pc[q] = "read"
    BY <1>5 DEF ReadEntry, ProvenanceIsWhole
  <2>2. QED
    BY <2>1 DEF ExportIsWhole
<1>6. ASSUME NEW p \in Procs, p # q, Step(p)
      PROVE  /\ pc'[q] = pc[q] /\ result'[q] = result[q]
             /\ required'[q] = required[q] /\ seen'[q] = seen[q]
  <2>1. pc'[q] = pc[q] /\ result'[q] = result[q]
    BY <1>6, StepFrame
  <2>2. required'[q] = required[q] /\ seen'[q] = seen[q]
    BY <1>6 DEF Step, ActionStep, ExportStep, LoadRun, CheckJob, BuildRequest, Execute,
         OpenTemporary, WriteTemporary, RenameTemporary, LoadForExport, OpenDirectory,
         ReadEntry, EndOfDirectory, Crash, Types
  <2>3. QED
    BY <2>1, <2>2
<1>7. CASE \E p \in Procs : p # q /\ Step(p)
  BY <1>6, <1>7 DEF ExportIsWhole
<1>8. QED
  BY <1>1, <1>2, <1>3, <1>4, <1>5, <1>7 DEF Next, Step, ActionStep, ExportStep

\* ... what an export returns agrees with what earlier run-actions reported.
THEOREM ExportAgreesWithReportsAlways == Spec => []ExportAgreesWithReports
<1>1. IInv /\ SerialInv /\ ExportInv /\ [Next]_vars => ExportInv'
  BY SeenIsFileStep, ExportIsWholeStep DEF IInv, SerialInv, ExportInv
<1>2. IInv /\ SerialInv /\ ExportInv => ExportAgreesWithReports
  <2> SUFFICES ASSUME IInv, SerialInv, ExportInv,
                      NEW p \in Procs, result[p] = "exported",
                      NEW q \in Procs, result[q] \in Recorded,
                      job[q] \in required[p] \ Shared
               PROVE  seen[p][job[q]] =
                        [writer |-> q, success |-> result[q] = "ok", whole |-> TRUE]
    BY DEF ExportAgreesWithReports, ExportInv, ExportIsWhole
  <2>1. job[q] \in Jobs /\ seen[p][job[q]] = file[job[q]]
    BY DEF ExportInv, SeenIsFile, ExportIsWhole, IInv, Types
  <2>2. /\ file[job[q]] # None
        /\ file[job[q]].writer = q /\ file[job[q]].success = (result[q] = "ok")
    BY DEF SerialInv, ReportIsRecorded
  <2>3. file[job[q]].whole = TRUE /\ file[job[q]] \in JobProvenance
    BY <2>1, <2>2 DEF IInv, ProvenanceIsWhole, Types, JobProvenance
  <2>4. QED
    BY <2>1, <2>2, <2>3 DEF JobProvenance
<1>3. QED
  BY SerialInvAlways, InitExportInv, <1>1, <1>2, PTL DEF Spec
=============================================================================
