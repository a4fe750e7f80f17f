----------------------------- MODULE SecretPort -----------------------------
(***************************************************************************)
(* What a SecretStore promises (port-secret): put bumps the version of one *)
(* ref, delete removes it, and nothing else changes; InMemorySecretStore   *)
(* is this, under one mutex.  A call that fails leaves the store unchanged *)
(* and takes no step here: a call that has changed the store answers Ok,   *)
(* or its process ends first.  A store that is reopened may have lost the  *)
(* last changes, but none that was answered.  The entries of a ref are     *)
(* ordered: by how often it was deleted, then by version.                  *)
(***************************************************************************)
EXTENDS Naturals

CONSTANTS Callers, Keys, None

VARIABLES open,      \* whether the store can be called
          secrets,   \* per ref, its version (0: no entry) and how often it was deleted
          calls,     \* per caller, the change its running call made
          answered   \* the changes a call answered Ok for

Entry == [version : Nat, age : Nat]
NoEntry == [version |-> 0, age |-> 0]

NotAfter(e, f) == e.age < f.age \/ (e.age = f.age /\ e.version <= f.version)

Init ==
    /\ open = FALSE
    /\ secrets = [k \in Keys |-> NoEntry]
    /\ calls = [c \in Callers |-> None]
    /\ answered = {}

Change(c, k) ==
    /\ open
    /\ calls[c] = None
    /\ calls' = [calls EXCEPT ![c] = [key |-> k, version |-> secrets'[k].version,
                                      age |-> secrets'[k].age]]
    /\ UNCHANGED <<open, answered>>

Put(c, k) ==
    /\ secrets' = [secrets EXCEPT ![k].version = @ + 1]
    /\ Change(c, k)

Delete(c, k) ==
    /\ secrets[k].version # 0
    /\ secrets' = [secrets EXCEPT ![k] = [version |-> 0, age |-> @.age + 1]]
    /\ Change(c, k)

Answer(c) ==
    /\ calls[c] # None
    /\ answered' = answered \cup {calls[c]}
    /\ calls' = [calls EXCEPT ![c] = None]
    /\ UNCHANGED <<open, secrets>>

Close ==
    /\ open
    /\ open' = FALSE
    /\ calls' = [c \in Callers |-> None]
    /\ UNCHANGED <<secrets, answered>>

Reopen ==
    /\ ~ open
    /\ open' = TRUE
    /\ secrets' \in [Keys -> Entry]
    /\ \A k \in Keys : NotAfter(secrets'[k], secrets[k])
    /\ \A change \in answered : NotAfter(change, secrets'[change.key])
    /\ UNCHANGED <<calls, answered>>

Next ==
    \/ Close \/ Reopen
    \/ \E c \in Callers : Answer(c) \/ \E k \in Keys : Put(c, k) \/ Delete(c, k)

Spec == Init /\ [][Next]_<<open, secrets, calls, answered>>
=============================================================================
