------------------------------- MODULE GoShim -------------------------------
(***************************************************************************)
(* The Go implementation of the same interface (nanovms/cgo-shim), which   *)
(* C callers may enter from any thread: instances numbered by a counter    *)
(* whose atomicAddUint64 is an unsynchronised load, store and load.  Reads *)
(* and writes of a word are atomic here.                                   *)
(***************************************************************************)
EXTENDS Naturals

CONSTANTS
    Callers,
    Boxes,       \* addresses of instances
    MaxAdds      \* bound on the calls of nvms_instance_create

ASSUME GoAssumption == MaxAdds \in Nat

VARIABLES
    instanceCounter,
    at,        \* at[c]: where a caller is
    reg,       \* reg[c]: the word it has loaded
    overlaps,  \* for the properties: another create ran within c's
    adds,      \* creates begun
    box        \* box[b]: the instance at b

goVars == <<instanceCounter, at, reg, overlaps, adds, box>>

NoBox == [id |-> 0]

GoInit ==
    /\ instanceCounter = 0 /\ adds = 0
    /\ at = [c \in Callers |-> "idle"]
    /\ reg = [c \in Callers |-> 0]
    /\ overlaps = [c \in Callers |-> FALSE]
    /\ box = [b \in Boxes |-> NoBox]

Move(c, from, to) == at[c] = from /\ at' = [at EXCEPT ![c] = to]

-----------------------------------------------------------------------------
Adding(c) == at[c] \in {"store", "reload", "make"}
Others(c) == {d \in Callers \ {c} : Adding(d)}

\* Mutant: the value loaded is returned, not the sum.
LoadOnly(c) == reg' = [reg EXCEPT ![c] = instanceCounter]

Add(c) == reg' = [reg EXCEPT ![c] = instanceCounter + 1]

\* atomicAddUint64: *v += delta; return *v.
AddLoad(c) ==
    /\ Move(c, "idle", "store") /\ adds < MaxAdds /\ adds' = adds + 1
    /\ Add(c)
    /\ overlaps' = [d \in Callers |->
           IF d = c THEN Others(c) # {} ELSE overlaps[d] \/ d \in Others(c)]
    /\ UNCHANGED <<instanceCounter, box>>

AddStore(c) ==
    /\ Move(c, "store", "reload")
    /\ instanceCounter' = reg[c]
    /\ UNCHANGED <<reg, overlaps, adds, box>>

AddReload(c) ==
    /\ Move(c, "reload", "make")
    /\ reg' = [reg EXCEPT ![c] = instanceCounter]
    /\ UNCHANGED <<instanceCounter, overlaps, adds, box>>

Make(c, b) ==
    /\ Move(c, "make", "idle") /\ box[b] = NoBox
    /\ box' = [box EXCEPT ![b] = [id |-> reg[c], status |-> "running", raced |-> overlaps[c]]]
    /\ UNCHANGED <<instanceCounter, reg, overlaps, adds>>

GoDestroy(c, b) ==
    /\ at[c] = "idle" /\ box[b] # NoBox
    /\ box' = [box EXCEPT ![b] = NoBox]
    /\ UNCHANGED <<instanceCounter, reg, overlaps, adds, at>>

GoSetStatus(c, b, status) ==
    /\ at[c] = "idle" /\ box[b] # NoBox
    /\ box' = [box EXCEPT ![b].status = status]
    /\ UNCHANGED <<instanceCounter, reg, overlaps, adds, at>>

-----------------------------------------------------------------------------
GoStep ==
    \E c \in Callers :
        \/ AddLoad(c) \/ AddStore(c) \/ AddReload(c)
        \/ \E b \in Boxes :
              \/ Make(c, b) \/ GoDestroy(c, b)
              \/ \E s \in {"running", "stopped"} : GoSetStatus(c, b, s)

GoSpec == GoInit /\ [][GoStep]_goVars

-----------------------------------------------------------------------------
\* Two instances have one id only if the creation of at least one of them overlapped
\* another: callers that create one after the other get distinct ids, however long
\* the others pause in between (nvms_export.go:250-268, :315-318).
EqualIdsAreExplained ==
    \A a, b \in Boxes :
        (a # b /\ box[a] # NoBox /\ box[b] # NoBox /\ box[a].id = box[b].id) =>
            box[a].raced \/ box[b].raced
=============================================================================
