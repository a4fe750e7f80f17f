-------------------------- MODULE FileSecretStore --------------------------
(***************************************************************************)
(* FileSecretStore (secret-file-adapter): a map behind a mutex, mirrored   *)
(* to one JSON file.  put and delete change the map, release the mutex and *)
(* flush; flush takes the mutex again, writes <file>.json.tmp and renames  *)
(* it.  Threads share one handle; the process may be killed anywhere and   *)
(* opens the file again.  A secret's value is its version: each version of *)
(* a ref is written by one put.                                            *)
(***************************************************************************)
EXTENDS Naturals

CONSTANTS Threads, Keys,
          MaxOps,    \* bound on the calls to a store
          MayFail,   \* which file operations may fail, and whether the process is killed
          None

Faults == {"create", "write", "rename", "crash"}

ASSUME SecretConstants ==
    /\ MaxOps \in Nat
    /\ MayFail \subseteq Faults
    /\ None \notin Threads \cup Keys
    /\ None \notin [map : [Keys -> [version : Nat, age : Nat]], seq : Nat, whole : BOOLEAN]
    /\ None \notin [kind : {"open", "put", "delete", "flush"}, key : Keys \cup {None},
                     version : Nat, age : Nat, seq : Nat, changed : BOOLEAN]
    /\ None \notin [key : Keys, version : Nat, age : Nat]

VARIABLES phase,    \* "down", "opening" or "open"
          memory,   \* inner: per ref, its version (0: no entry) and, for the
                    \* properties, how often it was deleted
          seq,      \* for the properties: how many calls the map has seen
          disk,     \* the file
          tmp,      \* the temporary file
          lock,     \* who holds the mutex across a step
          pc, op,   \* where a thread is, and the call it is in or made last
          reply,    \* what that call returned
          acked     \* for the properties: the put, delete and flush calls that returned Ok

vars == <<phase, memory, seq, disk, tmp, lock, pc, op, reply, acked>>

Entry == [version : Nat, age : Nat]
Map == [Keys -> Entry]
Contents == [map : Map, seq : Nat, whole : BOOLEAN]
Mutations == {"put", "delete", "flush"}
Kinds == Mutations \cup {"open"}
\* changed, for the properties: whether the call changed the map.
Call == [kind : Kinds, key : Keys \cup {None}, version : Nat, age : Nat, seq : Nat,
         changed : BOOLEAN]

NoEntry == [version |-> 0, age |-> 0]
Snapshot(whole) == [map |-> memory, seq |-> seq, whole |-> whole]

Init ==
    /\ phase = "down"
    /\ memory = [k \in Keys |-> NoEntry]
    /\ seq = 0
    /\ disk = None
    /\ tmp = None
    /\ lock = None
    /\ pc = [t \in Threads |-> "idle"]
    /\ op = [t \in Threads |-> None]
    /\ reply = [t \in Threads |-> "none"]
    /\ acked = {}

Goto(t, step) == pc' = [pc EXCEPT ![t] = step]

-----------------------------------------------------------------------------

\* open: the file's map, or an empty one, then a flush.
Open(t) ==
    /\ phase = "down"
    /\ phase' = "opening"
    /\ memory' = IF disk = None THEN [j \in Keys |-> NoEntry] ELSE disk.map
    /\ seq' = IF disk = None THEN 0 ELSE disk.seq
    /\ op' = [op EXCEPT ![t] = [kind |-> "open", key |-> None, version |-> 0,
                                age |-> 0, seq |-> seq', changed |-> FALSE]]
    /\ reply' = [reply EXCEPT ![t] = "none"]
    /\ Goto(t, "flush")
    /\ UNCHANGED <<disk, tmp, lock, acked>>

TrustTheCaller(kind, entry) ==  \* wrong: stores Secret::new's version, 1
    CASE kind = "put" -> [entry EXCEPT !.version = 1]
      [] kind = "delete" -> [version |-> 0, age |-> IF entry.version = 0 THEN entry.age
                                                    ELSE entry.age + 1]
      [] kind = "flush" -> entry

\* The entry a call leaves: put bumps the version, delete removes, the public
\* flush does nothing.
Mutated(kind, entry) ==
    CASE kind = "put" -> [entry EXCEPT !.version = @ + 1]
      [] kind = "delete" -> [version |-> 0, age |-> IF entry.version = 0 THEN entry.age
                                                    ELSE entry.age + 1]
      [] kind = "flush" -> entry

\* A flush, or the delete of a ref that has no entry, changes nothing.
Changes(kind, entry) == kind = "put" \/ (kind = "delete" /\ entry.version # 0)

HoldAcrossFlush(t, kind, k) ==  \* wrong: put calls flush with the mutex held
    /\ phase = "open" /\ pc[t] = "idle" /\ lock = None /\ seq < MaxOps
    /\ memory' = [memory EXCEPT ![k] = Mutated(kind, @)]
    /\ seq' = seq + 1
    /\ lock' = t
    /\ op' = [op EXCEPT ![t] = [kind |-> kind, key |-> k, version |-> memory'[k].version,
                                age |-> memory'[k].age, seq |-> seq + 1,
                                changed |-> Changes(kind, memory[k])]]
    /\ reply' = [reply EXCEPT ![t] = "none"]
    /\ Goto(t, "flush")
    /\ UNCHANGED <<phase, disk, tmp, acked>>

\* put and delete: change the map under the mutex, then go to flush.  The
\* public flush starts when the mutex is free, which is when it can go on.
Mutate(t, kind, k) ==
    /\ phase = "open" /\ pc[t] = "idle" /\ lock = None /\ seq < MaxOps
    /\ memory' = [memory EXCEPT ![k] = Mutated(kind, @)]
    /\ seq' = seq + 1
    /\ op' = [op EXCEPT ![t] = [kind |-> kind, key |-> k, version |-> memory'[k].version,
                                age |-> memory'[k].age, seq |-> seq + 1,
                                changed |-> Changes(kind, memory[k])]]
    /\ reply' = [reply EXCEPT ![t] = "none"]
    /\ Goto(t, "flush")
    /\ UNCHANGED <<phase, disk, tmp, lock, acked>>

\* A call returns; the mutex, if held, is released.
Return(t, answer) ==
    /\ Goto(t, "idle")
    /\ reply' = [reply EXCEPT ![t] = answer]
    /\ acked' = IF answer = "ok" /\ op[t].kind # "open" THEN acked \cup {op[t]} ELSE acked
    /\ phase' = IF op[t].kind # "open" THEN phase
                ELSE IF answer = "ok" THEN "open" ELSE "down"
    /\ lock' = None

\* flush: lock, serialize, File::create truncates the temporary file.
FlushCreate(t) ==
    /\ pc[t] = "flush"
    /\ lock = None
    /\ \/ /\ tmp' = Snapshot(FALSE)
          /\ lock' = t
          /\ Goto(t, "write")
          /\ UNCHANGED <<phase, reply, acked>>
       \/ "create" \in MayFail /\ Return(t, "error") /\ UNCHANGED tmp
    /\ UNCHANGED <<memory, seq, disk, op>>

ReportWritten(t) ==  \* wrong: answers before the rename
    /\ pc[t] = "write"
    /\ tmp' = [tmp EXCEPT !.whole = TRUE]
    /\ Return(t, "ok")
    /\ UNCHANGED <<memory, seq, disk, op>>

FlushWrite(t) ==
    /\ pc[t] = "write"
    /\ \/ /\ tmp' = [tmp EXCEPT !.whole = TRUE]
          /\ Goto(t, "rename")
          /\ UNCHANGED <<phase, lock, reply, acked>>
       \/ "write" \in MayFail /\ Return(t, "error") /\ UNCHANGED tmp
    /\ UNCHANGED <<memory, seq, disk, op>>

SwallowRename(t) ==  \* wrong: an error of the rename is not returned
    /\ pc[t] = "rename"
    /\ \/ disk' = tmp /\ tmp' = None
       \/ UNCHANGED <<disk, tmp>>
    /\ Return(t, "ok")
    /\ UNCHANGED <<memory, seq, op>>

FlushRename(t) ==
    /\ pc[t] = "rename"
    /\ \/ /\ disk' = tmp
          /\ tmp' = None
          /\ Return(t, "ok")
       \/ "rename" \in MayFail /\ Return(t, "error") /\ UNCHANGED <<disk, tmp>>
    /\ UNCHANGED <<memory, seq, op>>

\* The process is killed: what it had in memory is gone.
Crash ==
    /\ "crash" \in MayFail
    /\ phase # "down"
    /\ phase' = "down"
    /\ lock' = None
    /\ pc' = [t \in Threads |-> "idle"]
    /\ op' = [t \in Threads |-> None]
    /\ reply' = [t \in Threads |-> "none"]
    /\ UNCHANGED <<memory, seq, disk, tmp, acked>>

Flush(t) == FlushCreate(t) \/ FlushWrite(t) \/ FlushRename(t)

Next ==
    \/ \E t \in Threads :
         \/ Open(t)
         \/ \E kind \in Mutations, k \in Keys : Mutate(t, kind, k)
         \/ Flush(t)
    \/ Crash

Spec == Init /\ [][Next]_vars

\* Threads are scheduled; a thread that waits for the mutex gets it when it
\* is free and nobody else keeps taking it (MaxOps bounds the others).
FairSpec == Spec /\ \A t \in Threads : WF_vars(Flush(t))

-----------------------------------------------------------------------------

Types ==
    /\ phase \in {"down", "opening", "open"}
    /\ memory \in Map
    /\ seq \in Nat
    /\ disk \in Contents \cup {None}
    /\ tmp \in Contents \cup {None}
    /\ lock \in Threads \cup {None}
    /\ pc \in [Threads -> {"idle", "flush", "write", "rename"}]
    /\ op \in [Threads -> Call \cup {None}]
    /\ reply \in [Threads -> {"none", "ok", "error"}]
    /\ acked \subseteq Call
    /\ \A t \in Threads : pc[t] # "idle" => op[t] # None

\* Types, and a flush that writes or renames has its temporary file.
TypeOK ==
    /\ Types
    /\ \A t \in Threads : pc[t] \in {"write", "rename"} => tmp # None

\* The file is one complete map, wherever the process is killed.
FileIsWhole == disk # None => disk.whole

\* What a call that returned Ok did is on disk, and stays there: no later
\* flush puts an older map over it.  A reopened store has it.
AckedIsOnDisk ==
    \A call \in acked : disk # None /\ call.seq <= disk.seq

\* No two puts of one ref return the same version, killed processes and lost
\* mutations included, unless the ref was deleted in between: a caller can
\* tell the updates apart by Secret::version.
VersionsAreIssuedOnce ==
    [][\A t \in Threads :
         (reply[t] # "ok" /\ reply'[t] = "ok" /\ op[t].kind = "put") =>
            ~ \E call \in acked :
                 /\ call.kind = "put" /\ call.key = op[t].key
                 /\ call.version = op[t].version /\ call.age = op[t].age]_vars

\* When no call is in flight, the file mirrors the map unless the call that
\* changed it last was told of an error.
GapIsReported ==
    (phase = "open" /\ \A t \in Threads : pc[t] = "idle") =>
        \/ disk # None /\ disk.seq = seq /\ disk.map = memory
        \/ \E t \in Threads : reply[t] = "error" /\ op[t].seq = seq

\* Every call returns: put and delete do not wait for a mutex they hold.
EveryCallReturns ==
    \A t \in Threads : pc[t] = "flush" ~> pc[t] = "idle"

\* A put that fails leaves the store unchanged, as the trait asks (store.rs:26-28):
\* its ref does not hold what the put wrote.
FailedPutLeavesNoTrace ==
    [][\A t \in Threads :
         (pc[t] # "idle" /\ op[t].kind = "put" /\ reply'[t] = "error") =>
            memory'[op[t].key] # [version |-> op[t].version, age |-> op[t].age]]_vars

\* What the port sees of the store.
Made(call) == [key |-> call.key, version |-> call.version, age |-> call.age]
Running == [t \in Threads |-> IF pc[t] # "idle" /\ op[t].changed THEN Made(op[t]) ELSE None]
Answered == {Made(call) : call \in {c \in acked : c.changed}}
Port == INSTANCE SecretPort WITH
            Callers <- Threads, open <- (phase # "down"), secrets <- memory,
            calls <- Running, answered <- Answered
\* A flush fails, and its call answers an error for a change that stays in the map
\* (FailedPutLeavesNoTrace is about this step).
FailsAfterChange ==
    /\ \E t \in Threads : pc[t] # "idle" /\ op[t].changed /\ reply'[t] = "error"
    /\ UNCHANGED <<phase, memory, Answered>>

\* But for FailsAfterChange the store is what the SecretStore port promises, with the
\* map for its secrets: each put issues the next version of its ref and touches no
\* other, and a store that is opened again has lost no change it had answered with Ok
\* (store.rs:23-34).
ImplementsPort ==
    /\ Port!Init
    /\ [][Port!Next \/ FailsAfterChange]_<<phase # "down", memory, Running, Answered>>
=============================================================================
