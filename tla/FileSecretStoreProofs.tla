----------------------- MODULE FileSecretStoreProofs -----------------------
(***************************************************************************)
(* Proofs about FileSecretStore, for every set of threads and refs, every  *)
(* number of mutations and every set of faults: the file is whole, what    *)
(* was acknowledged stays on disk, an unsaved change was reported, and no  *)
(* version is issued twice.                                                *)
(***************************************************************************)
EXTENDS FileSecretStore, TLAPS

LEMMA Distinct == None \notin Threads /\ None \notin Contents /\ None \notin Call
  BY SecretConstants DEF Contents, Map, Entry, Call, Kinds, Mutations

\* The mutex is held exactly by the thread that writes or renames, and what
\* it writes is the map, which nobody changes meanwhile.
LockInv ==
    /\ \A t \in Threads : pc[t] \in {"write", "rename"} <=> lock = t
    /\ lock # None => /\ tmp # None
                      /\ tmp.map = memory
                      /\ tmp.seq = seq
                      /\ pc[lock] = "rename" => tmp.whole

\* Only the thread that opens the store is at work until it is open.
PhaseInv ==
    /\ \A t \in Threads : pc[t] # "idle" =>
         /\ phase # "down"
         /\ op[t].kind = "open" <=> phase = "opening"
         /\ op[t].seq <= seq
    /\ phase = "opening" =>
         \A t, u \in Threads : (pc[t] # "idle" /\ pc[u] # "idle") => t = u
    /\ phase = "open" => disk # None

\* The file is never ahead of the map it mirrors.
DiskInv == (phase # "down" /\ disk # None) => disk.seq <= seq

IInv == Types /\ LockInv /\ PhaseInv /\ DiskInv /\ FileIsWhole /\ AckedIsOnDisk

-----------------------------------------------------------------------------

USE DEF Goto, Mutations

LEMMA InitIInv == Init => IInv
  BY Distinct DEF Init, IInv, Types, LockInv, PhaseInv, DiskInv, FileIsWhole,
       AckedIsOnDisk, Map, Entry, NoEntry

LEMMA MutatedType ==
  ASSUME NEW kind \in Mutations, NEW entry \in Entry
  PROVE  Mutated(kind, entry) \in Entry
  BY DEF Mutated, Entry, Mutations

LEMMA ChangesType ==
  ASSUME NEW kind, NEW entry
  PROVE  Changes(kind, entry) \in BOOLEAN
  BY DEF Changes

\* A call returns with an answer.
LEMMA ReturnType ==
  ASSUME Types, NEW t \in Threads, pc[t] # "idle",
         NEW answer \in {"ok", "error"}, Return(t, answer)
  PROVE  /\ phase' \in {"down", "opening", "open"}
         /\ lock' = None
         /\ pc' \in [Threads -> {"idle", "flush", "write", "rename"}]
         /\ reply' \in [Threads -> {"none", "ok", "error"}]
         /\ acked' \subseteq Call
         /\ \A u \in Threads : pc'[u] # "idle" => pc[u] # "idle"
<1>1. op[t] \in Call
  BY DEF Types
<1>2. QED
  BY <1>1 DEF Return, Types

LEMMA TypesStep == Types /\ LockInv /\ [Next]_vars => Types'
<1> SUFFICES ASSUME Types, LockInv, [Next]_vars PROVE Types'
  OBVIOUS
<1>1. ASSUME NEW t \in Threads, Open(t) PROVE Types'
  <2>1. /\ memory' \in Map
        /\ seq' \in Nat
    BY <1>1, Distinct DEF Open, Types, Contents, Map, Entry, NoEntry
  <2>0. [kind |-> "open", key |-> None, version |-> 0, age |-> 0, seq |-> seq',
        changed |-> FALSE] \in Call
    BY <2>1 DEF Call, Kinds
  <2>2. op' \in [Threads -> Call \cup {None}] /\ op'[t] # None
    BY <1>1, <2>0, Distinct DEF Open, Types
  <2>3. \A u \in Threads : pc'[u] # "idle" => op'[u] # None
    BY <1>1, <2>2 DEF Open, Types
  <2>4. QED
    BY <1>1, <2>1, <2>2, <2>3 DEF Open, Types
<1>2. ASSUME NEW t \in Threads, NEW kind \in Mutations, NEW k \in Keys,
             Mutate(t, kind, k)
      PROVE  Types'
  <2>1. Mutated(kind, memory[k]) \in Entry
    BY MutatedType DEF Types, Map
  <2>2. memory' \in Map /\ memory'[k] \in Entry
    BY <1>2, <2>1 DEF Mutate, Types, Map
  <2>3. [kind |-> kind, key |-> k, version |-> memory'[k].version,
         age |-> memory'[k].age, seq |-> seq + 1,
         changed |-> Changes(kind, memory[k])] \in Call
    BY <2>2, ChangesType DEF Types, Entry, Call, Kinds
  <2>4. op' \in [Threads -> Call \cup {None}] /\ op'[t] # None
    BY <1>2, <2>3, Distinct DEF Mutate, Types
  <2>5. \A u \in Threads : pc'[u] # "idle" => op'[u] # None
    BY <1>2, <2>4 DEF Mutate, Types
  <2>6. QED
    BY <1>2, <2>2, <2>4, <2>5 DEF Mutate, Types
<1>3. ASSUME NEW t \in Threads, FlushCreate(t) PROVE Types'
  <2>1. CASE tmp' = Snapshot(FALSE) /\ lock' = t /\ Goto(t, "write")
             /\ UNCHANGED <<phase, reply, acked>>
    <3>1. tmp' \in Contents
      BY <2>1 DEF Types, Snapshot, Contents
    <3>2. QED
      BY <1>3, <2>1, <3>1 DEF FlushCreate, Types
  <2>2. CASE Return(t, "error") /\ UNCHANGED tmp
    BY <1>3, <2>2, ReturnType DEF FlushCreate, Types
  <2>3. QED
    BY <1>3, <2>1, <2>2 DEF FlushCreate
<1>4. ASSUME NEW t \in Threads, FlushWrite(t) PROVE Types'
  <2>1. CASE tmp' = [tmp EXCEPT !.whole = TRUE] /\ Goto(t, "rename")
             /\ UNCHANGED <<phase, lock, reply, acked>>
    <3>1. tmp \in Contents
      BY <1>4, Distinct DEF FlushWrite, LockInv, Types
    <3>2. tmp' \in Contents
      BY <2>1, <3>1 DEF Contents
    <3>3. QED
      BY <1>4, <2>1, <3>2 DEF FlushWrite, Types
  <2>2. CASE Return(t, "error") /\ UNCHANGED tmp
    BY <1>4, <2>2, ReturnType DEF FlushWrite, Types
  <2>3. QED
    BY <1>4, <2>1, <2>2 DEF FlushWrite
<1>5. ASSUME NEW t \in Threads, FlushRename(t) PROVE Types'
  BY <1>5, ReturnType DEF FlushRename, Types
<1>6. CASE Crash
  BY <1>6 DEF Crash, Types
<1>7. CASE UNCHANGED vars
  BY <1>7 DEF vars, Types
<1>8. QED
  BY <1>1, <1>2, <1>3, <1>4, <1>5, <1>6, <1>7 DEF Next, Flush

-----------------------------------------------------------------------------

LEMMA LockInvStep == Types /\ LockInv /\ PhaseInv /\ [Next]_vars => LockInv'
<1> SUFFICES ASSUME Types, LockInv, PhaseInv, [Next]_vars PROVE LockInv'
  OBVIOUS
<1>1. ASSUME NEW t \in Threads, Open(t) PROVE LockInv'
  <2>1. \A u \in Threads : pc[u] = "idle"
    BY <1>1 DEF Open, PhaseInv
  <2>2. lock = None
    BY <2>1, Distinct DEF LockInv, Types
  <2>3. QED
    BY <1>1, <2>1, <2>2, Distinct DEF Open, LockInv, Types
<1>2. ASSUME NEW t \in Threads, NEW kind \in Mutations, NEW k \in Keys,
             Mutate(t, kind, k)
      PROVE  LockInv'
  BY <1>2, Distinct DEF Mutate, LockInv, Types
<1>3. ASSUME NEW t \in Threads, FlushCreate(t) PROVE LockInv'
  <2>1. CASE tmp' = Snapshot(FALSE) /\ lock' = t /\ Goto(t, "write")
    <3>1. tmp' \in Contents
      BY <2>1 DEF Types, Snapshot, Contents
    <3>2. QED
      BY <1>3, <2>1, <3>1, Distinct DEF FlushCreate, LockInv, Types, Snapshot
  <2>2. CASE Return(t, "error") /\ UNCHANGED tmp
    BY <1>3, <2>2, Distinct DEF FlushCreate, Return, LockInv, Types
  <2>3. QED
    BY <1>3, <2>1, <2>2 DEF FlushCreate
<1>4. ASSUME NEW t \in Threads, FlushWrite(t) PROVE LockInv'
  <2>1. lock = t /\ tmp # None /\ tmp \in Contents
    BY <1>4, Distinct DEF FlushWrite, LockInv, Types
  <2>2. CASE tmp' = [tmp EXCEPT !.whole = TRUE] /\ Goto(t, "rename") /\ UNCHANGED lock
    <3>1. /\ tmp' \in Contents /\ tmp'.whole
          /\ tmp'.map = tmp.map /\ tmp'.seq = tmp.seq
      BY <2>1, <2>2 DEF Contents
    <3>2. QED
      BY <1>4, <2>1, <2>2, <3>1, Distinct DEF FlushWrite, LockInv, Types
  <2>3. CASE Return(t, "error") /\ UNCHANGED tmp
    BY <1>4, <2>1, <2>3, Distinct DEF FlushWrite, Return, LockInv, Types
  <2>4. QED
    BY <1>4, <2>2, <2>3 DEF FlushWrite
<1>5. ASSUME NEW t \in Threads, FlushRename(t) PROVE LockInv'
  BY <1>5, Distinct DEF FlushRename, Return, LockInv, Types
<1>6. CASE Crash
  BY <1>6, Distinct DEF Crash, LockInv, Types
<1>7. CASE UNCHANGED vars
  BY <1>7 DEF vars, LockInv
<1>8. QED
  BY <1>1, <1>2, <1>3, <1>4, <1>5, <1>6, <1>7 DEF Next, Flush

LEMMA PhaseInvStep == Types /\ LockInv /\ PhaseInv /\ [Next]_vars => PhaseInv'
<1> SUFFICES ASSUME Types, LockInv, PhaseInv, [Next]_vars PROVE PhaseInv'
  OBVIOUS
<1>1. ASSUME NEW t \in Threads, Open(t) PROVE PhaseInv'
  <2>1. \A u \in Threads : u # t => pc'[u] = "idle"
    BY <1>1 DEF Open, PhaseInv, Types
  <2>2. op'[t].kind = "open" /\ op'[t].seq = seq' /\ seq' \in Nat
    BY <1>1, Distinct DEF Open, Types, Contents
  <2>3. QED
    BY <1>1, <2>1, <2>2 DEF Open, PhaseInv
<1>2. ASSUME NEW t \in Threads, NEW kind \in Mutations, NEW k \in Keys,
             Mutate(t, kind, k)
      PROVE  PhaseInv'
  <2>1. op'[t].kind # "open" /\ op'[t].seq = seq + 1
    BY <1>2 DEF Mutate, Types
  <2>2. \A u \in Threads : u # t => op'[u] = op[u] /\ pc'[u] = pc[u]
    BY <1>2 DEF Mutate, Types
  <2>3. \A u \in Threads : pc[u] # "idle" => op[u].seq \in Nat
    BY DEF Types, Call
  <2>4. QED
    BY <1>2, <2>1, <2>2, <2>3 DEF Mutate, PhaseInv, Types
<1>3. ASSUME NEW t \in Threads, NEW answer \in {"ok", "error"}, pc[t] # "idle",
             Return(t, answer), answer = "ok" => disk' # None,
             disk' = disk \/ disk' # None, UNCHANGED <<seq, op>>
      PROVE  PhaseInv'
  <2>1. \A u \in Threads : pc'[u] # "idle" => pc[u] # "idle" /\ u # t
    BY <1>3 DEF Return, Types
  <2>2. CASE op[t].kind = "open"
    <3>1. \A u \in Threads : pc'[u] = "idle"
      BY <1>3, <2>1, <2>2 DEF PhaseInv, Return, Types
    <3>2. QED
      BY <1>3, <2>2, <3>1 DEF Return, PhaseInv
  <2>3. CASE op[t].kind # "open"
    BY <1>3, <2>1, <2>3 DEF Return, PhaseInv
  <2>4. QED
    BY <2>2, <2>3
<1>4. ASSUME NEW t \in Threads, pc[t] # "idle", pc'[t] # "idle",
             \A u \in Threads : u # t => pc'[u] = pc[u],
             UNCHANGED <<phase, op, seq, disk>>
      PROVE  PhaseInv'
  BY <1>4 DEF PhaseInv
<1>5. ASSUME NEW t \in Threads, FlushCreate(t) PROVE PhaseInv'
  BY <1>3, <1>4, <1>5 DEF FlushCreate, PhaseInv, Types
<1>6. ASSUME NEW t \in Threads, FlushWrite(t) PROVE PhaseInv'
  BY <1>3, <1>4, <1>6 DEF FlushWrite, PhaseInv, Types
<1>7. ASSUME NEW t \in Threads, FlushRename(t) PROVE PhaseInv'
  <2>1. tmp # None
    BY <1>7, Distinct DEF FlushRename, LockInv
  <2>2. QED
    BY <1>3, <1>7, <2>1 DEF FlushRename
<1>8. CASE Crash
  BY <1>8 DEF Crash, PhaseInv
<1>9. CASE UNCHANGED vars
  BY <1>9 DEF vars, PhaseInv
<1>10. QED
  BY <1>1, <1>2, <1>5, <1>6, <1>7, <1>8, <1>9 DEF Next, Flush

\* What an acknowledging rename puts on disk covers every acknowledged call.
LEMMA DiskStep ==
  IInv /\ [Next]_vars => DiskInv' /\ FileIsWhole' /\ AckedIsOnDisk'
<1> SUFFICES ASSUME IInv, [Next]_vars PROVE DiskInv' /\ FileIsWhole' /\ AckedIsOnDisk'
  OBVIOUS
<1> USE DEF IInv
<1>1. ASSUME NEW t \in Threads, Open(t) PROVE DiskInv' /\ FileIsWhole' /\ AckedIsOnDisk'
  BY <1>1 DEF Open, DiskInv, FileIsWhole, AckedIsOnDisk, Types, Contents
<1>2. ASSUME NEW t \in Threads, NEW kind \in Mutations, NEW k \in Keys,
             Mutate(t, kind, k)
      PROVE  DiskInv' /\ FileIsWhole' /\ AckedIsOnDisk'
  BY <1>2 DEF Mutate, DiskInv, FileIsWhole, AckedIsOnDisk, Types, Contents
<1>3. ASSUME NEW t \in Threads, Return(t, "error"), pc[t] # "idle",
             UNCHANGED <<disk, seq, memory, op>>
      PROVE  DiskInv' /\ FileIsWhole' /\ AckedIsOnDisk'
  BY <1>3 DEF Return, DiskInv, FileIsWhole, AckedIsOnDisk, PhaseInv
<1>4. ASSUME UNCHANGED <<disk, seq, acked, phase>>
      PROVE  DiskInv' /\ FileIsWhole' /\ AckedIsOnDisk'
  BY <1>4 DEF DiskInv, FileIsWhole, AckedIsOnDisk
<1>5. ASSUME NEW t \in Threads, FlushCreate(t) \/ FlushWrite(t)
      PROVE  DiskInv' /\ FileIsWhole' /\ AckedIsOnDisk'
  BY <1>3, <1>4, <1>5 DEF FlushCreate, FlushWrite
<1>6. ASSUME NEW t \in Threads, FlushRename(t)
      PROVE  DiskInv' /\ FileIsWhole' /\ AckedIsOnDisk'
  <2>1. CASE disk' = tmp /\ tmp' = None /\ Return(t, "ok")
    <3>1. /\ tmp \in Contents /\ tmp # None /\ tmp.whole /\ tmp.seq = seq
          /\ op[t].seq <= seq /\ op[t] \in Call
      BY <1>6, Distinct DEF FlushRename, LockInv, PhaseInv, Types
    <3>2. \A call \in acked' : call \in acked \/ call = op[t]
      BY <2>1 DEF Return
    <3>3. \A call \in acked : disk # None /\ call.seq <= disk.seq /\ disk.seq <= seq
      BY <1>6 DEF FlushRename, AckedIsOnDisk, DiskInv, PhaseInv
    <3>4. \A call \in acked' : call.seq <= seq
      BY <3>1, <3>2, <3>3 DEF Types, Contents, Call
    <3>5. QED
      BY <1>6, <2>1, <3>1, <3>4 DEF FlushRename, DiskInv, FileIsWhole, AckedIsOnDisk, Types
  <2>2. CASE Return(t, "error") /\ UNCHANGED <<disk, tmp>>
    BY <1>3, <1>6, <2>2 DEF FlushRename
  <2>3. QED
    BY <1>6, <2>1, <2>2 DEF FlushRename
<1>7. CASE Crash
  BY <1>7 DEF Crash, DiskInv, FileIsWhole, AckedIsOnDisk
<1>8. CASE UNCHANGED vars
  BY <1>4, <1>8 DEF vars
<1>9. QED
  BY <1>1, <1>2, <1>5, <1>6, <1>7, <1>8 DEF Next, Flush

LEMMA IInvStep == IInv /\ [Next]_vars => IInv'
  BY TypesStep, LockInvStep, PhaseInvStep, DiskStep DEF IInv

LEMMA IInvAlways == Spec => []IInv
  BY InitIInv, IInvStep, PTL DEF Spec

\* Every variable keeps its type, and a flush that writes or renames has its
\* temporary file, in every run of FileSecretStore.
THEOREM TypeCorrect == Spec => []TypeOK
<1>1. IInv => TypeOK
  BY Distinct DEF IInv, TypeOK, LockInv
<1>2. QED
  BY IInvAlways, <1>1, PTL

\* The file is one complete map, wherever flush fails or the process dies.
THEOREM FileIsWholeAlways == Spec => []FileIsWhole
<1>1. IInv => FileIsWhole
  BY DEF IInv
<1>2. QED
  BY IInvAlways, <1>1, PTL

\* What put or delete acknowledged is on disk, and no later flush of any
\* thread, nor a reopened store, puts an older map over it.
THEOREM AckedIsOnDiskAlways == Spec => []AckedIsOnDisk
<1>1. IInv => AckedIsOnDisk
  BY DEF IInv
<1>2. QED
  BY IInvAlways, <1>1, PTL

-----------------------------------------------------------------------------
(* The gap between the map and the file. *)

\* An open store whose file is behind has a thread that is about to flush,
\* or was told that it could not.
GapInv ==
    phase = "open" =>
        \/ disk.seq = seq /\ disk.map = memory
        \/ \E t \in Threads :
             /\ op[t] # None /\ op[t].seq = seq
             /\ pc[t] # "idle" \/ reply[t] = "error"

LEMMA GapInvStep == IInv /\ GapInv /\ [Next]_vars => GapInv'
<1> SUFFICES ASSUME IInv, GapInv, [Next]_vars, phase' = "open"
             PROVE  \/ disk'.seq = seq' /\ disk'.map = memory'
                    \/ \E t \in Threads :
                         /\ op'[t] # None /\ op'[t].seq = seq'
                         /\ pc'[t] # "idle" \/ reply'[t] = "error"
  BY DEF GapInv
<1> DEFINE Goal == \/ disk'.seq = seq' /\ disk'.map = memory'
                   \/ \E t \in Threads :
                        /\ op'[t] # None /\ op'[t].seq = seq'
                        /\ pc'[t] # "idle" \/ reply'[t] = "error"
<1>1. ASSUME NEW t \in Threads, NEW kind \in Mutations, NEW k \in Keys,
             Mutate(t, kind, k)
      PROVE  Goal
  <2>1. op'[t] # None
    BY <1>1, TypesStep, Distinct DEF Mutate, IInv, Types
  <2>2. op'[t].seq = seq' /\ pc'[t] # "idle"
    BY <1>1 DEF Mutate, IInv, Types
  <2>3. QED
    BY <2>1, <2>2
<1>2. ASSUME NEW t \in Threads, pc[t] # "idle", Return(t, "error"),
             UNCHANGED <<disk, seq, memory, op>>
      PROVE  Goal
  <2>1. phase = "open"
    BY <1>2 DEF Return, IInv, PhaseInv
  <2>2. \A u \in Threads : (pc[u] # "idle" \/ reply[u] = "error")
                              => (pc'[u] # "idle" \/ reply'[u] = "error")
    BY <1>2 DEF Return, IInv, Types
  <2>3. QED
    BY <1>2, <2>1, <2>2 DEF GapInv
<1>3. ASSUME NEW t \in Threads, pc'[t] # "idle", UNCHANGED <<phase, reply>>,
             \A u \in Threads : u # t => pc'[u] = pc[u],
             UNCHANGED <<disk, seq, memory, op>>
      PROVE  Goal
  BY <1>3 DEF GapInv
<1>4. ASSUME NEW t \in Threads, FlushCreate(t) PROVE Goal
  BY <1>2, <1>3, <1>4 DEF FlushCreate, IInv, Types
<1>5. ASSUME NEW t \in Threads, FlushWrite(t) PROVE Goal
  BY <1>2, <1>3, <1>5 DEF FlushWrite, IInv, Types
<1>6. ASSUME NEW t \in Threads, FlushRename(t) PROVE Goal
  <2>1. tmp.seq = seq /\ tmp.map = memory
    BY <1>6, Distinct DEF FlushRename, IInv, LockInv, Types
  <2>2. QED
    BY <1>2, <1>6, <2>1 DEF FlushRename
<1>7. CASE \/ Crash \/ \E t \in Threads : Open(t)
  BY <1>7 DEF Crash, Open
<1>8. CASE UNCHANGED vars
  BY <1>8 DEF vars, GapInv
<1>9. QED
  BY <1>1, <1>4, <1>5, <1>6, <1>7, <1>8 DEF Next, Flush

\* When no call is in flight, the file mirrors the map or the caller whose
\* change is missing was told of an error.
THEOREM GapIsReportedAlways == Spec => []GapIsReported
<1>1. Init => GapInv
  BY DEF Init, GapInv
<1>2. IInv /\ GapInv => GapIsReported
  BY DEF IInv, PhaseInv, GapInv, GapIsReported
<1>3. QED
  BY IInvAlways, GapInvStep, <1>1, <1>2, PTL DEF Spec

-----------------------------------------------------------------------------
(* Versions. *)

\* An entry is at or past a put: deleted since, or of that version or later.
Covers(entry, call) ==
    \/ entry.age > call.age
    \/ entry.age = call.age /\ entry.version >= call.version

\* Two puts of one ref returned one version, with no deletion in between.
SameVersion(a, b) ==
    /\ a.kind = "put" /\ b.kind = "put" /\ a.key = b.key
    /\ a.version = b.version /\ a.age = b.age

Putting(t) == pc[t] # "idle" /\ op[t].kind = "put"

\* The file covers every acknowledged put, so a reopened store does; the map
\* covers those in flight too, and they all differ.
VersionInv ==
    /\ \A call \in acked : call.kind = "put" =>
         /\ call.key \in Keys
         /\ Covers(disk.map[call.key], call)
         /\ phase # "down" => Covers(memory[call.key], call)
    /\ \A t \in Threads : Putting(t) =>
         /\ op[t].key \in Keys
         /\ Covers(memory[op[t].key], op[t])
         /\ \A call \in acked : ~ SameVersion(call, op[t])
    /\ \A t, u \in Threads : (t # u /\ Putting(t) /\ Putting(u)) => ~ SameVersion(op[t], op[u])

\* A mutation never takes an entry back.
LEMMA MutatedCovers ==
  ASSUME NEW kind \in Mutations, NEW entry \in Entry, NEW call \in Call,
         Covers(entry, call)
  PROVE  Covers(Mutated(kind, entry), call)
  BY DEF Covers, Mutated, Entry, Call, Mutations

\* The version a put issues is new.
LEMMA PutIsNew ==
  ASSUME NEW entry \in Entry, NEW call \in Call, Covers(entry, call)
  PROVE  ~ /\ call.version = Mutated("put", entry).version
           /\ call.age = Mutated("put", entry).age
  BY DEF Covers, Mutated, Entry, Call, Mutations

\* Steps that only end calls or move them on, unsaved.
LEMMA VersionKept ==
  ASSUME IInv, VersionInv, UNCHANGED <<memory, disk, op, acked>>,
         phase' # "down" => phase # "down",
         \A t \in Threads : pc'[t] # "idle" => pc[t] # "idle"
  PROVE  VersionInv'
  BY DEF VersionInv, Putting

LEMMA VersionMutate ==
  ASSUME IInv, VersionInv, NEW t \in Threads, NEW kind \in Mutations, NEW k \in Keys,
         Mutate(t, kind, k)
  PROVE  VersionInv'
<1> USE DEF IInv
<1>1. /\ memory[k] \in Entry
      /\ memory'[k] = Mutated(kind, memory[k])
      /\ \A j \in Keys : j # k => memory'[j] = memory[j]
      /\ phase = "open" /\ UNCHANGED <<disk, acked, phase>>
  BY DEF Mutate, Types, Map
<1>2. ASSUME NEW call \in Call, call.key \in Keys, Covers(memory[call.key], call)
      PROVE  Covers(memory'[call.key], call)
  <2>1. CASE call.key = k
    BY <1>1, <1>2, <2>1, MutatedCovers
  <2>2. CASE call.key # k
    BY <1>1, <1>2, <2>2
  <2>3. QED
    BY <2>1, <2>2
<1>3. /\ op'[t] = [kind |-> kind, key |-> k, version |-> memory'[k].version,
                   age |-> memory'[k].age, seq |-> seq + 1,
                   changed |-> Changes(kind, memory[k])]
      /\ pc[t] = "idle" /\ pc'[t] = "flush"
      /\ \A u \in Threads : u # t => op'[u] = op[u] /\ pc'[u] = pc[u]
  BY DEF Mutate, Types
<1>4. \A u \in Threads : Putting(u) => op[u] \in Call
  BY DEF Putting, Types
<1>5. acked \subseteq Call
  BY DEF Types
<1>6. \A call \in acked : call.kind = "put" =>
         /\ call.key \in Keys
         /\ Covers(disk'.map[call.key], call)
         /\ phase # "down" => Covers(memory'[call.key], call)
  BY <1>1, <1>2, <1>5 DEF VersionInv
<1>7. ASSUME NEW call \in Call, call.kind = "put",
             call.key \in Keys, Covers(memory[call.key], call)
      PROVE  ~ SameVersion(call, op'[t]) /\ ~ SameVersion(op'[t], call)
  BY <1>1, <1>3, <1>7, PutIsNew DEF SameVersion
<1>8. kind = "put" => Covers(memory'[k], op'[t])
  <2>1. Mutated(kind, memory[k]) \in Entry
    BY <1>1, MutatedType
  <2>2. QED
    BY <1>1, <1>3, <2>1 DEF Covers, Entry
<1>9. \A u \in Threads : u # t => Putting(u)' = Putting(u)
  BY <1>3 DEF Putting
<1>10. ASSUME NEW u \in Threads, Putting(u)'
       PROVE  /\ op'[u].key \in Keys
              /\ Covers(memory'[op'[u].key], op'[u])
              /\ \A call \in acked' : ~ SameVersion(call, op'[u])
  <2>1. CASE u = t
    <3>1. kind = "put" /\ op'[u].key = k
      BY <1>3, <1>10, <2>1 DEF Putting
    <3>2. \A call \in acked : ~ SameVersion(call, op'[t])
      BY <1>1, <1>5, <1>7 DEF VersionInv, SameVersion
    <3>3. QED
      BY <1>1, <1>8, <2>1, <3>1, <3>2
  <2>2. CASE u # t
    BY <1>1, <1>2, <1>3, <1>4, <1>9, <1>10, <2>2 DEF VersionInv
  <2>3. QED
    BY <2>1, <2>2
<1>11. ASSUME NEW u \in Threads, NEW v \in Threads, u # v, Putting(u)', Putting(v)'
       PROVE  ~ SameVersion(op'[u], op'[v])
  <2>1. CASE u # t /\ v # t
    BY <1>3, <1>9, <1>11, <2>1 DEF VersionInv
  <2>2. CASE u = t
    <3>1. Putting(v) /\ op[v] \in Call /\ op'[v] = op[v] /\ op[v].kind = "put"
      BY <1>3, <1>4, <1>9, <1>11, <2>2 DEF Putting
    <3>2. QED
      BY <1>7, <2>2, <3>1 DEF VersionInv
  <2>3. CASE v = t
    <3>1. Putting(u) /\ op[u] \in Call /\ op'[u] = op[u] /\ op[u].kind = "put"
      BY <1>3, <1>4, <1>9, <1>11, <2>3 DEF Putting
    <3>2. QED
      BY <1>7, <2>3, <3>1 DEF VersionInv
  <2>4. QED
    BY <2>1, <2>2, <2>3
<1>12. QED
  BY <1>1, <1>6, <1>10, <1>11 DEF VersionInv

LEMMA VersionRename ==
  ASSUME IInv, VersionInv, NEW t \in Threads, FlushRename(t),
         disk' = tmp, Return(t, "ok")
  PROVE  VersionInv'
<1> USE DEF IInv
<1>1. /\ tmp.map = memory /\ UNCHANGED <<memory, op>>
      /\ pc[t] # "idle" /\ phase # "down"
      /\ op[t].kind # "open" => phase' # "down"
  BY Distinct DEF FlushRename, LockInv, PhaseInv, Return, Types
<1>2. \A call \in acked' : call \in acked \/ (call = op[t] /\ op[t].kind # "open")
  BY DEF Return
<1>3. \A u \in Threads : Putting(u)' => u # t /\ Putting(u)
  BY <1>1 DEF Return, Putting, Types
<1>4. \A call \in acked' : call.kind = "put" =>
         /\ call.key \in Keys
         /\ Covers(disk'.map[call.key], call)
         /\ phase' # "down" => Covers(memory'[call.key], call)
  BY <1>1, <1>2 DEF VersionInv, Putting
<1>5. ASSUME NEW u \in Threads, Putting(u)', NEW call \in acked'
      PROVE  ~ SameVersion(call, op'[u])
  <2>1. CASE call \in acked
    BY <1>1, <1>3, <1>5, <2>1 DEF VersionInv
  <2>2. CASE call = op[t]
    BY <1>1, <1>3, <1>5, <2>2 DEF VersionInv, Putting, SameVersion
  <2>3. QED
    BY <1>2, <1>5, <2>1, <2>2
<1>6. QED
  BY <1>1, <1>3, <1>4, <1>5 DEF VersionInv

LEMMA VersionInvStep == IInv /\ VersionInv /\ [Next]_vars => VersionInv'
<1> SUFFICES ASSUME IInv, VersionInv, [Next]_vars PROVE VersionInv'
  OBVIOUS
<1>1. ASSUME NEW t \in Threads, Open(t) PROVE VersionInv'
  <2>1. \A call \in acked : disk # None
    BY DEF IInv, AckedIsOnDisk
  <2>2. \A u \in Threads : ~ Putting(u)'
    BY <1>1 DEF Open, Putting, IInv, PhaseInv, Types
  <2>3. QED
    BY <1>1, <2>1, <2>2 DEF Open, VersionInv
<1>2. ASSUME NEW t \in Threads, pc[t] # "idle", Return(t, "error"),
             UNCHANGED <<disk, memory, op>>
      PROVE  VersionInv'
  <2>1. /\ UNCHANGED acked
        /\ phase' # "down" => phase # "down"
        /\ \A u \in Threads : pc'[u] # "idle" => pc[u] # "idle"
    BY <1>2 DEF Return, IInv, Types, PhaseInv
  <2>2. QED
    BY <1>2, <2>1, VersionKept
<1>3. ASSUME NEW t \in Threads, FlushCreate(t) PROVE VersionInv'
  <2>1. CASE Return(t, "error")
    BY <1>2, <1>3, <2>1 DEF FlushCreate
  <2>2. CASE Goto(t, "write") /\ UNCHANGED <<phase, acked>>
    BY <1>3, <2>2, VersionKept DEF FlushCreate, IInv, Types
  <2>3. QED
    BY <1>3, <2>1, <2>2 DEF FlushCreate
<1>4. ASSUME NEW t \in Threads, FlushWrite(t) PROVE VersionInv'
  <2>1. CASE Return(t, "error")
    BY <1>2, <1>4, <2>1 DEF FlushWrite
  <2>2. CASE Goto(t, "rename") /\ UNCHANGED <<phase, acked>>
    BY <1>4, <2>2, VersionKept DEF FlushWrite, IInv, Types
  <2>3. QED
    BY <1>4, <2>1, <2>2 DEF FlushWrite
<1>5. ASSUME NEW t \in Threads, FlushRename(t) PROVE VersionInv'
  BY <1>2, <1>5, VersionRename DEF FlushRename
<1>6. CASE Crash
  BY <1>6 DEF Crash, VersionInv, Putting
<1>7. CASE UNCHANGED vars
  BY <1>7, VersionKept DEF vars
<1>8. QED
  BY <1>1, <1>3, <1>4, <1>5, <1>6, <1>7, VersionMutate DEF Next, Flush

\* A put that returns Ok returns a version no put of that ref has returned
\* since the ref was last deleted, whatever was lost in between.
THEOREM VersionsAreIssuedOnceAlways == Spec => VersionsAreIssuedOnce
<1>1. Init => VersionInv
  BY DEF Init, VersionInv, Putting
<1>2. IInv /\ VersionInv /\ [Next]_vars =>
        [\A t \in Threads :
           (reply[t] # "ok" /\ reply'[t] = "ok" /\ op[t].kind = "put") =>
              ~ \E call \in acked :
                   /\ call.kind = "put" /\ call.key = op[t].key
                   /\ call.version = op[t].version /\ call.age = op[t].age]_vars
  <2> SUFFICES ASSUME IInv, VersionInv, [Next]_vars, NEW t \in Threads,
                      reply[t] # "ok", reply'[t] = "ok", op[t].kind = "put",
                      NEW call \in acked, call.kind = "put", call.key = op[t].key,
                      call.version = op[t].version, call.age = op[t].age
               PROVE  FALSE
    OBVIOUS
  <2>1. pc[t] # "idle"
    BY DEF Next, vars, Open, Mutate, Flush, FlushCreate, FlushWrite, FlushRename, Return,
           Crash, IInv, Types
  <2>2. QED
    BY <2>1 DEF VersionInv, Putting, SameVersion
<1>3. QED
  BY IInvAlways, VersionInvStep, <1>1, <1>2, PTL DEF Spec, VersionsAreIssuedOnce

-----------------------------------------------------------------------------
(* The store is what its port promises, wherever the process is killed,    *)
(* but for the step in which a flush fails after its call has changed the  *)
(* map.                                                                    *)

EntryOf(c) == [version |-> c.version, age |-> c.age]

LEMMA NotAfterOrders ==
  /\ \A e \in Entry : Port!NotAfter(e, e) /\ Port!NotAfter(NoEntry, e)
  /\ \A e, f, g \in Entry :
       Port!NotAfter(e, f) /\ Port!NotAfter(f, g) => Port!NotAfter(e, g)
  BY DEF Entry, NoEntry, Port!NotAfter

\* A mutation takes no entry back.
LEMMA MutatedNotBefore ==
  ASSUME NEW kind \in Mutations, NEW entry \in Entry
  PROVE  Port!NotAfter(entry, Mutated(kind, entry))
  BY DEF Mutated, Entry, Mutations, Port!NotAfter

LEMMA EntryOfIsEntry ==
  ASSUME NEW c \in Call
  PROVE  EntryOf(c) \in Entry
  BY DEF EntryOf, Call, Entry

\* The map is never behind the file, not even the map a killed process leaves;
\* the file is never behind what was answered, nor the map behind the calls in
\* flight.
PortInv ==
    /\ disk # None => \A k \in Keys : Port!NotAfter(disk.map[k], memory[k])
    /\ \A c \in acked : c.key \in Keys /\ Port!NotAfter(EntryOf(c), disk.map[c.key])
    /\ \A t \in Threads : pc[t] # "idle" =>
         \/ op[t].kind = "open" /\ ~ op[t].changed
         \/ /\ op[t].kind # "open" /\ op[t].key \in Keys
            /\ Port!NotAfter(EntryOf(op[t]), memory[op[t].key])

\* Steps that answer nothing and leave map and file alone.
LEMMA PortInvKept ==
  ASSUME PortInv, UNCHANGED <<memory, disk, op, acked>>,
         \A t \in Threads : pc'[t] # "idle" => pc[t] # "idle"
  PROVE  PortInv'
  BY DEF PortInv

LEMMA PortInvMutate ==
  ASSUME IInv, PortInv, NEW t \in Threads, NEW kind \in Mutations, NEW k \in Keys,
         Mutate(t, kind, k)
  PROVE  PortInv'
<1> USE DEF IInv
<1>1. /\ memory[k] \in Entry /\ memory'[k] \in Entry
      /\ memory'[k] = Mutated(kind, memory[k])
      /\ \A j \in Keys : j # k => memory'[j] = memory[j]
      /\ UNCHANGED <<disk, acked>>
  BY MutatedType DEF Mutate, Types, Map
<1>2. \A j \in Keys : /\ memory[j] \in Entry /\ memory'[j] \in Entry
                      /\ Port!NotAfter(memory[j], memory'[j])
  BY <1>1, MutatedNotBefore, NotAfterOrders DEF Types, Map
<1>3. ASSUME NEW e \in Entry, NEW j \in Keys, Port!NotAfter(e, memory[j])
      PROVE  Port!NotAfter(e, memory'[j])
  BY <1>2, <1>3, NotAfterOrders
<1>4. disk' # None => \A j \in Keys : Port!NotAfter(disk'.map[j], memory'[j])
  <2>1. disk # None => \A j \in Keys : disk.map[j] \in Entry
    BY DEF Types, Contents, Map
  <2>2. QED
    BY <1>1, <1>3, <2>1 DEF PortInv
<1>5. ASSUME NEW u \in Threads, pc'[u] # "idle"
      PROVE  \/ op'[u].kind = "open" /\ ~ op'[u].changed
             \/ /\ op'[u].kind # "open" /\ op'[u].key \in Keys
                /\ Port!NotAfter(EntryOf(op'[u]), memory'[op'[u].key])
  <2>1. CASE u = t
    <3>1. op'[u].kind # "open" /\ op'[u].key = k /\ EntryOf(op'[u]) = memory'[k]
      BY <1>1, <2>1 DEF Mutate, Types, EntryOf, Entry
    <3>2. QED
      BY <1>1, <3>1, NotAfterOrders
  <2>2. CASE u # t
    <3>1. op'[u] = op[u] /\ pc[u] # "idle" /\ op[u] \in Call
      BY <1>5, <2>2 DEF Mutate, Types
    <3>2. QED
      BY <1>3, <1>5, <3>1, EntryOfIsEntry DEF PortInv
  <2>3. QED
    BY <2>1, <2>2
<1>6. QED
  BY <1>1, <1>4, <1>5 DEF PortInv

\* The rename that answers puts the map on disk.
LEMMA PortInvRename ==
  ASSUME IInv, PortInv, NEW t \in Threads, FlushRename(t),
         disk' = tmp, Return(t, "ok")
  PROVE  PortInv'
<1> USE DEF IInv
<1>1. /\ tmp # None /\ tmp.map = memory /\ memory \in Map /\ UNCHANGED <<memory, op>>
      /\ pc[t] # "idle" /\ op[t] \in Call
  BY Distinct DEF FlushRename, LockInv, Types
<1>2. \A k \in Keys : Port!NotAfter(disk'.map[k], memory'[k])
  BY <1>1, NotAfterOrders DEF Map
<1>3. \A c \in acked : c.key \in Keys /\ Port!NotAfter(EntryOf(c), memory[c.key])
  <2>1. TAKE c \in acked
  <2>2. /\ c.key \in Keys /\ c \in Call /\ disk.map[c.key] \in Entry /\ disk # None
        /\ memory[c.key] \in Entry
        /\ Port!NotAfter(EntryOf(c), disk.map[c.key])
        /\ Port!NotAfter(disk.map[c.key], memory[c.key])
    BY DEF PortInv, Types, AckedIsOnDisk, Contents, Map
  <2>3. QED
    BY <2>2, EntryOfIsEntry, NotAfterOrders
<1>4. \A u \in Threads : pc'[u] # "idle" => pc[u] # "idle"
  BY DEF Return, Types
<1>5. \A c \in acked' : c.key \in Keys /\ Port!NotAfter(EntryOf(c), memory[c.key])
  BY <1>1, <1>3 DEF Return, PortInv
<1>6. QED
  BY <1>1, <1>2, <1>4, <1>5 DEF PortInv

LEMMA PortInvStep == IInv /\ PortInv /\ [Next]_vars => PortInv'
<1> SUFFICES ASSUME IInv, PortInv, [Next]_vars PROVE PortInv'
  OBVIOUS
<1>1. ASSUME NEW t \in Threads, Open(t) PROVE PortInv'
  <2>1. \A u \in Threads : pc'[u] # "idle" => op'[u].kind = "open" /\ ~ op'[u].changed
    BY <1>1 DEF Open, IInv, PhaseInv, Types
  <2>2. disk' # None => \A k \in Keys : Port!NotAfter(disk'.map[k], memory'[k])
    BY <1>1, NotAfterOrders DEF Open, IInv, Types, Contents, Map
  <2>3. UNCHANGED <<disk, acked>>
    BY <1>1 DEF Open
  <2>4. QED
    BY <2>1, <2>2, <2>3 DEF PortInv
<1>2. ASSUME NEW t \in Threads, pc[t] # "idle", Return(t, "error"),
             UNCHANGED <<disk, memory, op>>
      PROVE  PortInv'
  BY <1>2, PortInvKept DEF Return, IInv, Types
<1>3. ASSUME NEW t \in Threads, FlushCreate(t) \/ FlushWrite(t) PROVE PortInv'
  BY <1>2, <1>3, PortInvKept DEF FlushCreate, FlushWrite, IInv, Types
<1>4. ASSUME NEW t \in Threads, FlushRename(t) PROVE PortInv'
  BY <1>2, <1>4, PortInvRename DEF FlushRename
<1>5. CASE Crash
  BY <1>5 DEF Crash, PortInv
<1>6. CASE UNCHANGED vars
  BY <1>6, PortInvKept DEF vars
<1>7. QED
  BY <1>1, <1>3, <1>4, <1>5, <1>6, PortInvMutate DEF Next, Flush

\* A call that changed the map made a change of the port; no change is None.
LEMMA MadeIsChange ==
  ASSUME NEW c \in Call, c.key \in Keys
  PROVE  Made(c) # None
  BY SecretConstants DEF Made, Call

\* Opening reads a map that is between what was answered and what was lost.
LEMMA OpenReopens ==
  ASSUME IInv, PortInv, Types', NEW t \in Threads, Open(t)
  PROVE  Port!Reopen
<1> USE DEF IInv
<1>1. phase = "down" /\ phase' = "opening" /\ UNCHANGED <<disk, acked>>
  BY DEF Open
<1>2. \A k \in Keys : memory[k] \in Entry /\ memory'[k] \in Entry
  BY DEF Types, Map
<1>3. \A k \in Keys : Port!NotAfter(memory'[k], memory[k])
  <2>1. CASE disk = None
    BY <1>2, <2>1, NotAfterOrders DEF Open
  <2>2. CASE disk # None
    BY <1>2, <2>2 DEF Open, PortInv
  <2>3. QED
    BY <2>1, <2>2
<1>4. \A change \in Answered : Port!NotAfter(change, memory'[change.key])
  <2>1. ASSUME NEW c \in acked
        PROVE  Port!NotAfter(Made(c), memory'[Made(c).key])
    <3>1. disk # None /\ memory' = disk.map
      BY <2>1 DEF AckedIsOnDisk, Open
    <3>2. Port!NotAfter(EntryOf(c), memory'[c.key])
      BY <2>1, <3>1 DEF PortInv
    <3>3. QED
      BY <3>2 DEF Made, EntryOf, Port!NotAfter
  <2>2. QED
    BY <2>1 DEF Answered
<1>5. memory' \in [Keys -> Port!Entry]
  BY DEF Types, Map, Entry, Port!Entry
<1>6. UNCHANGED Answered
  BY <1>1 DEF Answered
<1>7. UNCHANGED Running
  <2>1. \A u \in Threads : pc[u] = "idle"
    BY <1>1 DEF PhaseInv
  <2>2. \A u \in Threads : ~ (pc'[u] # "idle" /\ op'[u].changed)
    BY <2>1 DEF Open, Types
  <2>3. QED
    BY <2>1, <2>2 DEF Running
<1>8. QED
  BY <1>1, <1>3, <1>4, <1>5, <1>6, <1>7 DEF Port!Reopen

\* put is Put and delete is Delete; flush, and the delete of a ref that has no
\* secret, change nothing the port knows.
LEMMA MutateIsOne ==
  ASSUME IInv, NEW t \in Threads, NEW kind \in Mutations, NEW k \in Keys,
         Mutate(t, kind, k)
  PROVE  \/ Port!Put(t, k) \/ Port!Delete(t, k)
         \/ UNCHANGED <<phase # "down", memory, Running, Answered>>
<1>1. /\ phase = "open" /\ UNCHANGED <<phase, acked>>
      /\ memory' = [memory EXCEPT ![k] = Mutated(kind, @)]
      /\ memory \in Map /\ memory[k] \in Entry
      /\ pc[t] = "idle" /\ pc' = [pc EXCEPT ![t] = "flush"]
      /\ op' = [op EXCEPT ![t] = [kind |-> kind, key |-> k, version |-> memory'[k].version,
                                  age |-> memory'[k].age, seq |-> seq + 1,
                                  changed |-> Changes(kind, memory[k])]]
      /\ pc \in [Threads -> {"idle", "flush", "write", "rename"}]
      /\ op \in [Threads -> Call \cup {None}]
  BY DEF Mutate, IInv, Types, Map
<1>2. UNCHANGED Answered
  BY <1>1 DEF Answered
<1>3. \A u \in Threads : Running[u] = IF pc[u] # "idle" /\ op[u].changed THEN Made(op[u])
                                     ELSE None
  BY DEF Running
<1>4. Running[t] = None
  BY <1>1, <1>3
<1>5. ASSUME Changes(kind, memory[k])
      PROVE  Running' = [Running EXCEPT ![t] = [key |-> k, version |-> memory'[k].version,
                                                age |-> memory'[k].age]]
  <2>1. Made(op'[t]) = [key |-> k, version |-> memory'[k].version, age |-> memory'[k].age]
    BY <1>1 DEF Made
  <2>2. pc'[t] # "idle" /\ op'[t].changed
    BY <1>1, <1>5
  <2>3. \A u \in Threads \ {t} : pc'[u] = pc[u] /\ op'[u] = op[u]
    BY <1>1
  <2>4. QED
    BY <2>1, <2>2, <2>3 DEF Running
<1>6. CASE kind = "put"
  <2>1. memory' = [memory EXCEPT ![k].version = @ + 1]
    BY <1>1, <1>6 DEF Mutated
  <2>2. Changes(kind, memory[k])
    BY <1>6 DEF Changes
  <2>3. QED
    BY <1>1, <1>2, <1>4, <1>5, <2>1, <2>2 DEF Port!Put, Port!Change
<1>7. CASE kind = "delete" /\ memory[k].version # 0
  <2>1. memory' = [memory EXCEPT ![k] = [version |-> 0, age |-> @.age + 1]]
    BY <1>1, <1>7 DEF Mutated
  <2>2. Changes(kind, memory[k])
    BY <1>7 DEF Changes
  <2>3. QED
    BY <1>1, <1>2, <1>4, <1>5, <1>7, <2>1, <2>2 DEF Port!Delete, Port!Change
<1>8. CASE kind = "flush" \/ (kind = "delete" /\ memory[k].version = 0)
  <2>1. Mutated(kind, memory[k]) = memory[k] /\ ~ Changes(kind, memory[k])
    BY <1>1, <1>8 DEF Mutated, Changes, Entry
  <2>2. memory' = memory
    BY <1>1, <2>1 DEF Map
  <2>3. UNCHANGED Running
    <3>1. ~ op'[t].changed
      BY <1>1, <2>1
    <3>2. \A u \in Threads \ {t} : pc'[u] = pc[u] /\ op'[u] = op[u]
      BY <1>1
    <3>3. QED
      BY <1>1, <3>1, <3>2 DEF Running
  <2>4. QED
    BY <1>1, <1>2, <2>2, <2>3
<1>9. QED
  BY <1>6, <1>7, <1>8

\* A call that answers Ok answers the change it made, if it made one.
LEMMA RenameAnswers ==
  ASSUME IInv, PortInv, NEW t \in Threads, FlushRename(t), Return(t, "ok")
  PROVE  \/ Port!Answer(t)
         \/ UNCHANGED <<phase # "down", memory, Running, Answered>>
<1>1. /\ op[t] \in Call /\ pc[t] # "idle" /\ pc' = [pc EXCEPT ![t] = "idle"]
      /\ UNCHANGED <<memory, op>> /\ phase # "down" /\ phase' # "down"
      /\ pc \in [Threads -> {"idle", "flush", "write", "rename"}]
  BY DEF FlushRename, Return, IInv, Types, PhaseInv
<1>2. CASE op[t].changed
  <2>1. op[t].kind # "open" /\ op[t].key \in Keys
    BY <1>1, <1>2 DEF PortInv
  <2>2. acked' = acked \cup {op[t]}
    BY <2>1 DEF Return
  <2>3. {c \in acked' : c.changed} = {c \in acked : c.changed} \cup {op[t]}
    BY <1>2, <2>2
  <2>4. Answered' = Answered \cup {Made(op[t])}
    BY <2>3 DEF Answered, Made
  <2>5. Running[t] = Made(op[t]) /\ Running[t] # None
    BY <1>1, <1>2, <2>1, MadeIsChange DEF Running
  <2>6. Running' = [Running EXCEPT ![t] = None]
    BY <1>1 DEF Running
  <2>7. QED
    BY <1>1, <2>4, <2>5, <2>6 DEF Port!Answer
<1>3. CASE ~ op[t].changed
  <2>1. {c \in acked' : c.changed} = {c \in acked : c.changed}
    BY <1>3 DEF Return
  <2>2. UNCHANGED Answered
    BY <2>1 DEF Answered, Made
  <2>3. UNCHANGED Running
    BY <1>1, <1>3 DEF Running
  <2>4. QED
    BY <1>1, <2>2, <2>3
<1>4. QED
  BY <1>2, <1>3

PortVars == <<phase # "down", memory, Running, Answered>>

\* A flush that fails closes a store that was being opened, is the failure of a call
\* that changed the map, or is nothing to the port.
LEMMA FailedFlush ==
  ASSUME IInv, NEW t \in Threads, pc[t] # "idle", Return(t, "error"),
         UNCHANGED <<memory, op>>
  PROVE  Port!Close \/ FailsAfterChange \/ UNCHANGED PortVars
<1> USE DEF PortVars, IInv
<1>1. /\ op[t] \in Call /\ pc' = [pc EXCEPT ![t] = "idle"] /\ reply'[t] = "error"
      /\ UNCHANGED acked /\ phase # "down"
      /\ pc \in [Threads -> {"idle", "flush", "write", "rename"}]
  BY DEF Return, Types, PhaseInv
<1>2. UNCHANGED Answered
  BY <1>1 DEF Answered
<1>3. CASE op[t].kind = "open"
  <2>1. phase' = "down" /\ \A u \in Threads : pc'[u] = "idle"
    BY <1>1, <1>3 DEF Return, PhaseInv
  <2>2. Running' = [u \in Threads |-> None]
    BY <2>1 DEF Running
  <2>3. QED
    BY <1>1, <1>2, <2>1, <2>2 DEF Port!Close
<1>4. CASE op[t].kind # "open" /\ op[t].changed
  BY <1>1, <1>2, <1>4 DEF Return, FailsAfterChange
<1>5. CASE op[t].kind # "open" /\ ~ op[t].changed
  <2>1. UNCHANGED Running
    BY <1>1, <1>5 DEF Running
  <2>2. QED
    BY <1>2, <1>5, <2>1 DEF Return
<1>6. QED
  BY <1>3, <1>4, <1>5

LEMMA PortStep ==
  ASSUME IInv, PortInv, Types', [Next]_vars
  PROVE  Port!Next \/ FailsAfterChange \/ UNCHANGED PortVars
<1> USE DEF PortVars
<1>1. ASSUME NEW t \in Threads, Open(t) PROVE Port!Next
  BY <1>1, OpenReopens DEF Port!Next
<1>2. ASSUME NEW t \in Threads, NEW kind \in Mutations, NEW k \in Keys,
             Mutate(t, kind, k)
      PROVE  Port!Next \/ UNCHANGED PortVars
  BY <1>2, MutateIsOne DEF Port!Next
<1>3. ASSUME NEW t \in Threads, Flush(t), Return(t, "error")
      PROVE  Port!Next \/ FailsAfterChange \/ UNCHANGED PortVars
  <2>1. pc[t] # "idle" /\ UNCHANGED <<memory, op>>
    BY <1>3 DEF Flush, FlushCreate, FlushWrite, FlushRename
  <2>2. QED
    BY <1>3, <2>1, FailedFlush DEF Port!Next
<1>4. ASSUME NEW t \in Threads, FlushCreate(t) \/ FlushWrite(t), ~ Return(t, "error")
      PROVE  UNCHANGED PortVars
  <2>1. /\ UNCHANGED <<phase, memory, op, acked>>
        /\ \A u \in Threads : pc'[u] # "idle" <=> pc[u] # "idle"
    BY <1>4 DEF FlushCreate, FlushWrite, IInv, Types
  <2>2. QED
    BY <2>1 DEF Running, Answered
<1>5. ASSUME NEW t \in Threads, FlushRename(t), ~ Return(t, "error")
      PROVE  Port!Next \/ UNCHANGED PortVars
  <2>1. Return(t, "ok")
    BY <1>5 DEF FlushRename
  <2>2. QED
    BY <1>5, <2>1, RenameAnswers DEF Port!Next
<1>6. CASE Crash
  <2>1. /\ phase # "down" /\ phase' = "down" /\ UNCHANGED <<memory, acked>>
        /\ \A u \in Threads : pc'[u] = "idle"
    BY <1>6 DEF Crash
  <2>2. Running' = [u \in Threads |-> None] /\ UNCHANGED Answered
    BY <2>1 DEF Running, Answered
  <2>3. QED
    BY <2>1, <2>2 DEF Port!Close, Port!Next
<1>7. CASE UNCHANGED vars
  BY <1>7 DEF vars, Running, Answered
<1>8. QED
  BY <1>1, <1>2, <1>3, <1>4, <1>5, <1>6, <1>7 DEF Next, Flush

LEMMA PortInit == Init => PortInv /\ Port!Init
  BY DEF Init, PortInv, Port!Init, Port!NoEntry, NoEntry, Running, Answered

\* The file store implements the SecretPort, however the threads interleave, whatever
\* fails and wherever the process is killed, but for the step in which a flush fails
\* after its call has changed the map: every put issues the next version of its ref
\* and touches no other, and a store that is opened again has lost no change it had
\* answered with Ok.
THEOREM FileStoreImplementsPort == Spec => ImplementsPort
<1>1. IInv /\ PortInv /\ IInv' /\ [Next]_vars =>
        [Port!Next \/ FailsAfterChange]_<<phase # "down", memory, Running, Answered>>
  BY PortStep DEF IInv, PortVars
<1>2. QED
  BY IInvAlways, PortInit, PortInvStep, <1>1, PTL DEF Spec, ImplementsPort
=============================================================================
