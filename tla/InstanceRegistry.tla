-------------------------- MODULE InstanceRegistry --------------------------
(***************************************************************************)
(* Instances as the driver makes them (pheno-compose-driver) through the   *)
(* FFI of bindings/rust-ffi: a struct on the heap that the caller's        *)
(* Instance owns, and beside it an entry of the global list INSTANCES,     *)
(* which only create and destroy touch.  An Instance stays with the thread *)
(* that made it (it holds a raw pointer).  The order of INSTANCES is left  *)
(* out: it is a set.                                                       *)
(***************************************************************************)
EXTENDS Naturals

CONSTANTS
    Threads, Handles,  \* addresses, reused when freed
    Names, NulNames,   \* names of instances, and those with a NUL inside
    Settings,          \* sets of other fields that callers give a configuration
    MaxCreates,        \* bound on the ids drawn
    Nobody

ASSUME RegistryAssumption ==
    /\ MaxCreates \in Nat
    /\ NulNames \subseteq Names
    /\ Settings \subseteq SUBSET {"cpu_count", "memory_bytes", "network", "image", "env"}
    /\ Nobody \notin Threads \cup Handles

VARIABLES
    counter,  \* INSTANCE_COUNTER
    listed,   \* INSTANCES: {[id, tier, name, status]}
    heap,     \* heap[h]: the NvmsInstance at h, with its owner and what it was asked to be
    step,     \* step[t]: "idle", "drawn" (in create) or "untracked" (in destroy)
    held,     \* held[t]: the struct in the making, or the handle being freed
    refusal   \* refusal[t]: why the last create was refused

registryVars == <<counter, listed, heap, step, held, refusal>>

Tiers == {"wasm", "gvisor", "firecracker"}
Fields == {"cpu_count", "memory_bytes", "network", "image", "env"}
Config == [tier : Tiers, name : Names, fields : SUBSET Fields]
Statuses == {"stopped", "starting", "running", "stopping", "error"}
Struct == [id : Nat, tier : Tiers, name : Names, status : Statuses,
           owner : Threads, asked : Config]
NoStruct == [id |-> 0]

RegistryInit ==
    /\ counter = 0 /\ listed = {}
    /\ heap = [h \in Handles |-> NoStruct]
    /\ step = [t \in Threads |-> "idle"]
    /\ held = [t \in Threads |-> Nobody]
    /\ refusal = [t \in Threads |-> "none"]

Exists(h) == heap[h] # NoStruct
Owned(t, h) == Exists(h) /\ heap[h].owner = t
BeingFreed(h) == \E t \in Threads : step[t] = "untracked" /\ held[t] = h
ListInstances == listed

-----------------------------------------------------------------------------
\* NvmsConfig: a factory, then with_* calls for the fields in `set`.
FactoryFields(tier) == IF tier = "firecracker" THEN {"cpu_count", "memory_bytes"} ELSE {}
Built(tier, name, set) ==
    [tier |-> tier, name |-> name, fields |-> FactoryFields(tier) \cup set]

\* create_instance takes a tier and a name, create_instance_with_config a config
\* whose other fields it must not honour.
Plain(tier, name) == [tier |-> tier, name |-> name, fields |-> {}]

Unsupported(config) == config.fields

RefuseCreate(t, config) ==
    /\ step[t] = "idle"
    /\ \/ Unsupported(config) # {} /\ refusal' = [refusal EXCEPT ![t] = "config"]
       \/ /\ Unsupported(config) = {} /\ config.name \in NulNames
          /\ refusal' = [refusal EXCEPT ![t] = "create"]
    /\ UNCHANGED <<counter, listed, heap, step, held>>

NextId == counter + 1
NewStruct(id, config, t) ==
    [id |-> id, tier |-> config.tier, name |-> config.name, status |-> "running",
     owner |-> t, asked |-> config]

\* nvms_instance_create: fetch_add, then the struct, then the list.
Draw(t, config) ==
    /\ step[t] = "idle" /\ counter < MaxCreates
    /\ Unsupported(config) = {} /\ config.name \notin NulNames
    /\ counter' = counter + 1
    /\ held' = [held EXCEPT ![t] = NewStruct(NextId, config, t)]
    /\ step' = [step EXCEPT ![t] = "drawn"]
    /\ refusal' = [refusal EXCEPT ![t] = "none"]
    /\ UNCHANGED <<listed, heap>>

Entry(s) == [id |-> s.id, tier |-> s.tier, name |-> s.name, status |-> "running"]

Track(t, h) ==
    /\ step[t] = "drawn" /\ ~Exists(h)
    /\ heap' = [heap EXCEPT ![h] = held[t]]
    /\ listed' = listed \cup {Entry(held[t])}
    /\ step' = [step EXCEPT ![t] = "idle"] /\ held' = [held EXCEPT ![t] = Nobody]
    /\ UNCHANGED <<counter, refusal>>

\* Mutant: entries are taken from the list by name.
RetainOtherNames(s) == {e \in listed : e.name # s.name}

Retain(s) == {e \in listed : e.id # s.id}

\* nvms_instance_destroy, from the drop of an Instance: list, then memory.
Untrack(t, h) ==
    /\ step[t] = "idle" /\ Owned(t, h)
    /\ listed' = Retain(heap[h])
    /\ step' = [step EXCEPT ![t] = "untracked"] /\ held' = [held EXCEPT ![t] = h]
    /\ UNCHANGED <<counter, heap, refusal>>

Free(t) ==
    /\ step[t] = "untracked"
    /\ heap' = [heap EXCEPT ![held[t]] = NoStruct]
    /\ step' = [step EXCEPT ![t] = "idle"] /\ held' = [held EXCEPT ![t] = Nobody]
    /\ UNCHANGED <<counter, listed, refusal>>

\* nvms_instance_start and _stop write the struct alone.
SetStatus(t, h, status) ==
    /\ step[t] = "idle" /\ Owned(t, h)
    /\ heap' = [heap EXCEPT ![h].status = status]
    /\ UNCHANGED <<counter, listed, step, held, refusal>>

RegistryStep ==
    \E t \in Threads :
        \/ \E tier \in Tiers, name \in Names :
              \/ RefuseCreate(t, Plain(tier, name)) \/ Draw(t, Plain(tier, name))
              \/ \E set \in Settings :
                    RefuseCreate(t, Built(tier, name, set)) \/ Draw(t, Built(tier, name, set))
        \/ \E h \in Handles :
              \/ Track(t, h) \/ Untrack(t, h)
              \/ \E s \in {"running", "stopped"} : SetStatus(t, h, s)
        \/ Free(t)

RegistrySpec == RegistryInit /\ [][RegistryStep]_registryVars

-----------------------------------------------------------------------------
RegistryTypeOK ==
    /\ counter \in Nat
    /\ listed \subseteq [id : Nat, tier : Tiers, name : Names, status : {"running"}]
    /\ heap \in [Handles -> Struct \cup {NoStruct}]
    /\ step \in [Threads -> {"idle", "drawn", "untracked"}]
    /\ held \in [Threads -> Struct \cup Handles \cup {Nobody}]
    /\ \A t \in Threads :
          /\ step[t] = "idle" => held[t] = Nobody
          /\ step[t] = "drawn" => held[t] \in Struct
          /\ step[t] = "untracked" => held[t] \in Handles
    /\ refusal \in [Threads -> {"none", "config", "create"}]

\* However threads create and destroy instances, list_instances shows each instance
\* that exists and is not being destroyed exactly once, and no other, with the tier
\* and the name that were asked for; and an instance was asked for with nothing
\* else, so that no field of a configuration was dropped (rust-ffi lib.rs:437-448,
\* driver lib.rs:81-93).  The status it shows is the one of the creation: start and
\* stop change the struct only.
RegistryAgrees ==
    /\ \A e \in ListInstances : \E h \in Handles :
          /\ Exists(h) /\ ~BeingFreed(h) /\ heap[h].id = e.id
          /\ Plain(e.tier, e.name) = heap[h].asked
    /\ \A h \in Handles : (Exists(h) /\ ~BeingFreed(h)) =>
          \E e \in ListInstances : e.id = heap[h].id
    /\ \A e, f \in ListInstances : e.id = f.id => e = f

\* No two instances, made or in the making, have one id: destroy, which goes by the
\* id, takes the entry of no other instance (rust-ffi lib.rs:589-627).
IdsAreUnique ==
    /\ \A g, h \in Handles : (Exists(g) /\ Exists(h) /\ heap[g].id = heap[h].id) => g = h
    /\ \A t \in Threads : step[t] = "drawn" =>
          /\ \A h \in Handles : Exists(h) => heap[h].id # held[t].id
          /\ \A u \in Threads : (step[u] = "drawn" /\ held[u].id = held[t].id) => u = t
=============================================================================
