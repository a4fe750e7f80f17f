---------------------------- MODULE AdapterProofs ----------------------------
(***************************************************************************)
(* Proofs about the adapters that concurrent callers share, for any number *)
(* of callers, and of calls:                                               *)
(*   - the instance registry: list_instances and the structs agree.  An id *)
(*     is drawn once, a struct being freed belongs to the thread that      *)
(*     frees it, and what a struct was asked to be is all it is;           *)
(*   - the Go shim: equal ids come from overlapping creations only.  Once  *)
(*     a creation that nothing overlapped is done, the counter stays above *)
(*     its id;                                                             *)
(*   - the runtime adapters: what they answer was so during the call.  A   *)
(*     call in progress has seen every state of its container;             *)
(*   - the composing and publishing ports: a receipt is backed.  What a    *)
(*     pipeline holds is what its manifest asked for first.                *)
(***************************************************************************)
EXTENDS InstanceRegistry, GoShim, RuntimePort, Ports, WellFoundedInduction, TLAPS

-----------------------------------------------------------------------------
(* The instance registry. *)

\* An instance that exists, or is in the making, has an id drawn before.
Drawn ==
    /\ \A h \in Handles : Exists(h) => heap[h] \in Struct /\ heap[h].id \in 1..counter
    /\ \A t \in Threads : step[t] = "drawn" => held[t].id \in 1..counter

Honest ==
    /\ \A h \in Handles : Exists(h) => heap[h].asked = Plain(heap[h].tier, heap[h].name)
    /\ \A t \in Threads : step[t] = "drawn" =>
          held[t].asked = Plain(held[t].tier, held[t].name)

\* What a thread frees is its own.
Freeing == \A t \in Threads : step[t] = "untracked" => Owned(t, held[t])

ListIsExact ==
    /\ \A e \in listed : \E h \in Handles :
          Exists(h) /\ ~BeingFreed(h) /\ e = Entry(heap[h])
    /\ \A h \in Handles : (Exists(h) /\ ~BeingFreed(h)) => Entry(heap[h]) \in listed

RegistryInv ==
    RegistryTypeOK /\ Drawn /\ IdsAreUnique /\ Honest /\ Freeing /\ ListIsExact

-----------------------------------------------------------------------------
LEMMA InitInv == RegistryInit => RegistryInv
<1>. SUFFICES ASSUME RegistryInit PROVE RegistryInv
  OBVIOUS
<1>1. \A h \in Handles : heap[h] = NoStruct /\ ~Exists(h)
  BY DEF RegistryInit, Exists
<1>2. \A t \in Threads : step[t] = "idle" /\ held[t] = Nobody
  BY DEF RegistryInit
<1>3. RegistryTypeOK
  BY <1>2 DEF RegistryInit, RegistryTypeOK
<1>4. Drawn /\ IdsAreUnique /\ Honest /\ Freeing
  BY <1>1, <1>2 DEF Drawn, IdsAreUnique, Honest, Freeing
<1>5. ListIsExact
  BY <1>1 DEF RegistryInit, ListIsExact
<1>. QED BY <1>3, <1>4, <1>5 DEF RegistryInv

LEMMA BuiltConfig ==
    ASSUME NEW tier \in Tiers, NEW name \in Names, NEW set \in Settings
    PROVE  Plain(tier, name) \in Config /\ Built(tier, name, set) \in Config
BY RegistryAssumption DEF Plain, Built, FactoryFields, Config, Fields

\* A refused create says why, and nothing else.
LEMMA RefuseStep ==
    ASSUME RegistryInv, NEW t \in Threads, NEW config \in Config, RefuseCreate(t, config)
    PROVE  RegistryInv'
<1>1. UNCHANGED <<counter, listed, heap, step, held>>
  BY DEF RefuseCreate
<1>2. refusal' \in [Threads -> {"none", "config", "create"}]
  BY DEF RefuseCreate, RegistryInv, RegistryTypeOK
<1>. QED
  BY <1>1, <1>2
  DEF RegistryInv, RegistryTypeOK, Drawn, IdsAreUnique, Honest, Freeing, ListIsExact,
      Exists, BeingFreed, Owned, ListInstances

\* create, first half: the id is above every id there is.
LEMMA DrawStep ==
    ASSUME RegistryInv, NEW t \in Threads, NEW config \in Config, Draw(t, config)
    PROVE  RegistryInv'
<1>. DEFINE new == NewStruct(NextId, config, t)
<1>1. /\ counter \in Nat /\ counter' = counter + 1 /\ heap' = heap /\ listed' = listed
      /\ held' = [held EXCEPT ![t] = new]
      /\ step' = [step EXCEPT ![t] = "drawn"]
      /\ refusal' = [refusal EXCEPT ![t] = "none"]
  BY DEF Draw, RegistryInv, RegistryTypeOK
<1>2. /\ new \in Struct /\ new.id = counter + 1
      /\ new.asked = config /\ new.tier = config.tier /\ new.name = config.name
  BY <1>1 DEF NewStruct, NextId, Struct, Config, Statuses
<1>3. new.asked = Plain(new.tier, new.name)
  BY <1>2 DEF Draw, Unsupported, Plain, Config
<1>4. /\ step'[t] = "drawn" /\ held'[t] = new /\ step[t] = "idle"
      /\ \A u \in Threads : u # t => step'[u] = step[u] /\ held'[u] = held[u]
  BY <1>1 DEF Draw, RegistryInv, RegistryTypeOK
<1>. HIDE DEF new
<1>5. RegistryTypeOK'
  <2>1. held' \in [Threads -> Struct \cup Handles \cup {Nobody}]
    BY <1>1, <1>2 DEF RegistryInv, RegistryTypeOK
  <2>2. step' \in [Threads -> {"idle", "drawn", "untracked"}]
    BY <1>1 DEF RegistryInv, RegistryTypeOK
  <2>3. refusal' \in [Threads -> {"none", "config", "create"}]
    BY <1>1 DEF RegistryInv, RegistryTypeOK
  <2>. QED
    BY <1>1, <1>2, <1>4, <2>1, <2>2, <2>3 DEF RegistryInv, RegistryTypeOK
<1>6. Drawn'
  BY <1>1, <1>2, <1>4 DEF RegistryInv, Drawn, Exists
<1>7. IdsAreUnique'
  BY <1>1, <1>2, <1>4 DEF RegistryInv, Drawn, IdsAreUnique, Exists
<1>8. Honest'
  BY <1>1, <1>3, <1>4 DEF RegistryInv, Honest, Exists
<1>9. Freeing'
  BY <1>1, <1>4 DEF RegistryInv, Freeing, Owned, Exists
<1>10. ListIsExact'
  <2>1. \A h \in Handles : BeingFreed(h)' = BeingFreed(h)
    BY <1>4 DEF BeingFreed
  <2>. QED
    BY <1>1, <2>1 DEF RegistryInv, ListIsExact, Exists
<1>. QED BY <1>5, <1>6, <1>7, <1>8, <1>9, <1>10 DEF RegistryInv

\* create, second half: the struct goes where no struct is.
LEMMA TrackStep ==
    ASSUME RegistryInv, NEW t \in Threads, NEW h \in Handles, Track(t, h)
    PROVE  RegistryInv'
<1>1. /\ heap' = [heap EXCEPT ![h] = held[t]]
      /\ listed' = listed \cup {Entry(held[t])}
      /\ step' = [step EXCEPT ![t] = "idle"] /\ held' = [held EXCEPT ![t] = Nobody]
      /\ counter' = counter /\ refusal' = refusal
      /\ step[t] = "drawn" /\ ~Exists(h)
  BY DEF Track
<1>2. /\ held[t] \in Struct /\ held[t].id \in 1..counter /\ counter \in Nat
      /\ held[t].asked = Plain(held[t].tier, held[t].name)
  BY <1>1 DEF RegistryInv, RegistryTypeOK, Drawn, Honest
<1>3. /\ step'[t] = "idle" /\ held'[t] = Nobody
      /\ \A u \in Threads : u # t => step'[u] = step[u] /\ held'[u] = held[u]
  BY <1>1 DEF RegistryInv, RegistryTypeOK
<1>4. heap'[h] = held[t] /\ \A g \in Handles : g # h => heap'[g] = heap[g]
  BY <1>1 DEF RegistryInv, RegistryTypeOK
<1>5. held[t] # NoStruct
  BY <1>2 DEF NoStruct
<1>6. Exists(h)' /\ \A g \in Handles : g # h => Exists(g)' = Exists(g)
  BY <1>4, <1>5 DEF Exists
<1>7. RegistryTypeOK'
  <2>1. Entry(held[t]) \in [id : Nat, tier : Tiers, name : Names, status : {"running"}]
    BY <1>2 DEF Entry, Struct
  <2>2. heap' \in [Handles -> Struct \cup {NoStruct}]
    BY <1>1, <1>2 DEF RegistryInv, RegistryTypeOK
  <2>3. step' \in [Threads -> {"idle", "drawn", "untracked"}]
    BY <1>1 DEF RegistryInv, RegistryTypeOK
  <2>4. held' \in [Threads -> Struct \cup Handles \cup {Nobody}]
    BY <1>1 DEF RegistryInv, RegistryTypeOK
  <2>. QED
    BY <1>1, <1>3, <2>1, <2>2, <2>3, <2>4 DEF RegistryInv, RegistryTypeOK
<1>8. Drawn'
  BY <1>1, <1>2, <1>3, <1>4, <1>6 DEF RegistryInv, Drawn
<1>9. IdsAreUnique'
  BY <1>1, <1>3, <1>4, <1>6 DEF RegistryInv, IdsAreUnique
<1>10. Honest'
  BY <1>2, <1>3, <1>4, <1>6 DEF RegistryInv, Honest
<1>11. Freeing'
  <2>1. ASSUME NEW u \in Threads, step'[u] = "untracked" PROVE Owned(u, held[u])'
    <3>1. u # t /\ step[u] = "untracked" /\ held'[u] = held[u]
      BY <1>3, <2>1
    <3>2. Exists(held[u]) /\ heap[held[u]].owner = u /\ held[u] \in Handles
      BY <3>1 DEF RegistryInv, Freeing, Owned, RegistryTypeOK
    <3>. QED
      BY <1>1, <1>4, <1>6, <3>1, <3>2 DEF Owned, Exists
  <2>. QED BY <2>1 DEF Freeing
<1>12. ListIsExact'
  <2>1. ~BeingFreed(h)'
    BY <1>1, <1>3 DEF BeingFreed, RegistryInv, Freeing, Owned
  <2>2. \A g \in Handles : BeingFreed(g)' = BeingFreed(g)
    BY <1>1, <1>3 DEF BeingFreed
  <2>3. ASSUME NEW e \in listed'
        PROVE  \E g \in Handles : Exists(g)' /\ ~BeingFreed(g)' /\ e = Entry(heap'[g])
    BY <1>1, <1>4, <1>6, <2>1, <2>2, <2>3 DEF RegistryInv, ListIsExact
  <2>4. ASSUME NEW g \in Handles, Exists(g)', ~BeingFreed(g)'
        PROVE  Entry(heap'[g]) \in listed'
    BY <1>1, <1>4, <1>6, <2>2, <2>4 DEF RegistryInv, ListIsExact
  <2>. QED
    BY <2>3, <2>4 DEF ListIsExact
<1>. QED BY <1>7, <1>8, <1>9, <1>10, <1>11, <1>12 DEF RegistryInv

\* destroy, first half: the entry with the id is the one of this struct.
LEMMA UntrackStep ==
    ASSUME RegistryInv, NEW t \in Threads, NEW h \in Handles, Untrack(t, h)
    PROVE  RegistryInv'
<1>1. /\ listed' = {e \in listed : e.id # heap[h].id}
      /\ step' = [step EXCEPT ![t] = "untracked"] /\ held' = [held EXCEPT ![t] = h]
      /\ counter' = counter /\ heap' = heap /\ refusal' = refusal
      /\ step[t] = "idle" /\ Exists(h) /\ heap[h].owner = t
  BY DEF Untrack, Retain, Owned
<1>2. /\ step'[t] = "untracked" /\ held'[t] = h
      /\ \A u \in Threads : u # t => step'[u] = step[u] /\ held'[u] = held[u]
  BY <1>1 DEF RegistryInv, RegistryTypeOK
<1>3. \A g \in Handles : Exists(g)' = Exists(g)
  BY <1>1 DEF Exists
<1>4. \A g \in Handles : BeingFreed(g)' <=> (BeingFreed(g) \/ g = h)
  BY <1>1, <1>2 DEF BeingFreed
<1>5. RegistryTypeOK'
  <2>1. step' \in [Threads -> {"idle", "drawn", "untracked"}]
    BY <1>1 DEF RegistryInv, RegistryTypeOK
  <2>2. held' \in [Threads -> Struct \cup Handles \cup {Nobody}]
    BY <1>1 DEF RegistryInv, RegistryTypeOK
  <2>. QED
    BY <1>1, <1>2, <2>1, <2>2 DEF RegistryInv, RegistryTypeOK
<1>6. Drawn'
  BY <1>1, <1>2, <1>3 DEF RegistryInv, Drawn
<1>7. IdsAreUnique'
  BY <1>1, <1>2, <1>3 DEF RegistryInv, IdsAreUnique
<1>8. Honest'
  BY <1>1, <1>2, <1>3 DEF RegistryInv, Honest
<1>9. Freeing'
  BY <1>1, <1>2, <1>3 DEF RegistryInv, Freeing, Owned, Exists
<1>10. ListIsExact'
  <2>1. ASSUME NEW e \in listed'
        PROVE  \E g \in Handles : Exists(g)' /\ ~BeingFreed(g)' /\ e = Entry(heap'[g])
    <3>1. e \in listed /\ e.id # heap[h].id
      BY <1>1
    <3>2. PICK g \in Handles : Exists(g) /\ ~BeingFreed(g) /\ e = Entry(heap[g])
      BY <3>1 DEF RegistryInv, ListIsExact
    <3>3. g # h
      BY <3>1, <3>2 DEF Entry
    <3>. QED
      BY <1>1, <1>3, <1>4, <3>2, <3>3
  <2>2. ASSUME NEW g \in Handles, Exists(g)', ~BeingFreed(g)'
        PROVE  Entry(heap'[g]) \in listed'
    <3>1. Exists(g) /\ ~BeingFreed(g) /\ g # h
      BY <1>3, <1>4, <2>2
    <3>2. Entry(heap[g]) \in listed
      BY <3>1 DEF RegistryInv, ListIsExact
    <3>3. heap[g].id # heap[h].id
      BY <1>1, <3>1 DEF RegistryInv, IdsAreUnique
    <3>. QED
      BY <1>1, <3>2, <3>3 DEF Entry
  <2>. QED
    BY <2>1, <2>2 DEF ListIsExact
<1>. QED BY <1>5, <1>6, <1>7, <1>8, <1>9, <1>10 DEF RegistryInv

\* destroy, second half: nobody else is freeing this struct.
LEMMA FreeStep ==
    ASSUME RegistryInv, NEW t \in Threads, Free(t)
    PROVE  RegistryInv'
<1>. PICK h \in Handles : h = held[t]
  BY DEF Free, RegistryInv, RegistryTypeOK
<1>1. /\ heap' = [heap EXCEPT ![h] = NoStruct]
      /\ step' = [step EXCEPT ![t] = "idle"] /\ held' = [held EXCEPT ![t] = Nobody]
      /\ counter' = counter /\ listed' = listed /\ refusal' = refusal
      /\ step[t] = "untracked"
  BY DEF Free
<1>2. h \in Handles /\ Exists(h) /\ heap[h].owner = t
  BY <1>1 DEF RegistryInv, RegistryTypeOK, Freeing, Owned
<1>3. /\ step'[t] = "idle" /\ held'[t] = Nobody
      /\ \A u \in Threads : u # t => step'[u] = step[u] /\ held'[u] = held[u]
  BY <1>1 DEF RegistryInv, RegistryTypeOK
<1>4. heap'[h] = NoStruct /\ \A g \in Handles : g # h => heap'[g] = heap[g]
  BY <1>1, <1>2 DEF RegistryInv, RegistryTypeOK
<1>5. ~Exists(h)' /\ \A g \in Handles : g # h => Exists(g)' = Exists(g)
  BY <1>2, <1>4 DEF Exists
<1>6. \A u \in Threads : (step[u] = "untracked" /\ held[u] = h) => u = t
  BY <1>2 DEF RegistryInv, Freeing, Owned
<1>7. BeingFreed(h)
  BY <1>1 DEF BeingFreed
<1>8. \A g \in Handles : g # h => BeingFreed(g)' = BeingFreed(g)
  BY <1>1, <1>3 DEF BeingFreed
<1>9. RegistryTypeOK'
  <2>1. heap' \in [Handles -> Struct \cup {NoStruct}]
    BY <1>1 DEF RegistryInv, RegistryTypeOK
  <2>2. step' \in [Threads -> {"idle", "drawn", "untracked"}]
    BY <1>1 DEF RegistryInv, RegistryTypeOK
  <2>3. held' \in [Threads -> Struct \cup Handles \cup {Nobody}]
    BY <1>1 DEF RegistryInv, RegistryTypeOK
  <2>. QED
    BY <1>1, <1>3, <2>1, <2>2, <2>3 DEF RegistryInv, RegistryTypeOK
<1>10. Drawn'
  BY <1>1, <1>3, <1>4, <1>5 DEF RegistryInv, Drawn
<1>11. IdsAreUnique'
  BY <1>1, <1>3, <1>4, <1>5 DEF RegistryInv, IdsAreUnique
<1>12. Honest'
  BY <1>1, <1>3, <1>4, <1>5 DEF RegistryInv, Honest
<1>13. Freeing'
  <2>1. ASSUME NEW u \in Threads, step'[u] = "untracked" PROVE Owned(u, held[u])'
    <3>1. u # t /\ step[u] = "untracked" /\ held'[u] = held[u]
      BY <1>3, <2>1
    <3>2. held[u] \in Handles /\ held[u] # h /\ Owned(u, held[u])
      BY <1>6, <3>1 DEF RegistryInv, Freeing, RegistryTypeOK
    <3>. QED
      BY <1>4, <1>5, <3>1, <3>2 DEF Owned, Exists
  <2>. QED BY <2>1 DEF Freeing
<1>14. ListIsExact'
  BY <1>1, <1>2, <1>4, <1>5, <1>7, <1>8 DEF RegistryInv, ListIsExact
<1>. QED BY <1>9, <1>10, <1>11, <1>12, <1>13, <1>14 DEF RegistryInv

\* start and stop: the list does not show the status of the struct.
LEMMA SetStatusStep ==
    ASSUME RegistryInv, NEW t \in Threads, NEW h \in Handles,
           NEW s \in {"running", "stopped"}, SetStatus(t, h, s)
    PROVE  RegistryInv'
<1>1. /\ heap' = [heap EXCEPT ![h].status = s]
      /\ counter' = counter /\ listed' = listed /\ refusal' = refusal
      /\ step' = step /\ held' = held /\ Exists(h)
  BY DEF SetStatus, Owned
<1>2. heap[h] \in Struct /\ heap[h].id \in 1..counter /\ counter \in Nat
  BY <1>1 DEF RegistryInv, Drawn, RegistryTypeOK
<1>3. heap'[h] = [heap[h] EXCEPT !.status = s]
      /\ \A g \in Handles : g # h => heap'[g] = heap[g]
  BY <1>1 DEF RegistryInv, RegistryTypeOK
<1>4. /\ heap'[h] \in Struct
      /\ heap'[h].id = heap[h].id /\ heap'[h].tier = heap[h].tier
      /\ heap'[h].name = heap[h].name /\ heap'[h].owner = heap[h].owner
      /\ heap'[h].asked = heap[h].asked
  BY <1>2, <1>3 DEF Struct, Statuses
<1>5. heap'[h] # NoStruct
  BY <1>2, <1>4 DEF NoStruct
<1>6. \A g \in Handles : Exists(g)' = Exists(g)
  BY <1>1, <1>3, <1>5 DEF Exists
<1>7. \A g \in Handles : BeingFreed(g)' = BeingFreed(g)
  BY <1>1 DEF BeingFreed
<1>8. RegistryTypeOK'
  <2>1. heap' \in [Handles -> Struct \cup {NoStruct}]
    BY <1>1, <1>3, <1>4 DEF RegistryInv, RegistryTypeOK
  <2>. QED
    BY <1>1, <2>1 DEF RegistryInv, RegistryTypeOK
<1>9. Drawn'
  BY <1>1, <1>2, <1>3, <1>4, <1>6 DEF RegistryInv, Drawn
<1>10. IdsAreUnique'
  BY <1>1, <1>3, <1>4, <1>6 DEF RegistryInv, IdsAreUnique
<1>11. Honest'
  BY <1>1, <1>3, <1>4, <1>6 DEF RegistryInv, Honest
<1>12. Freeing'
  <2>1. ASSUME NEW u \in Threads, step'[u] = "untracked" PROVE Owned(u, held[u])'
    <3>1. held[u] \in Handles /\ Owned(u, held[u])
      BY <1>1, <2>1 DEF RegistryInv, Freeing, RegistryTypeOK
    <3>. QED
      BY <1>1, <1>3, <1>4, <1>6, <3>1 DEF Owned, Exists
  <2>. QED BY <2>1 DEF Freeing
<1>13. ListIsExact'
  <2>1. \A g \in Handles : Entry(heap[g])' = Entry(heap[g])
    BY <1>3, <1>4 DEF Entry
  <2>. QED
    BY <1>1, <1>6, <1>7, <2>1 DEF RegistryInv, ListIsExact
<1>. QED BY <1>8, <1>9, <1>10, <1>11, <1>12, <1>13 DEF RegistryInv

LEMMA NextInv == RegistryInv /\ [RegistryStep]_registryVars => RegistryInv'
<1>. SUFFICES ASSUME RegistryInv, [RegistryStep]_registryVars PROVE RegistryInv'
  OBVIOUS
<1>1. CASE UNCHANGED registryVars
  BY <1>1 DEF RegistryInv, RegistryTypeOK, Drawn, IdsAreUnique, Honest, Freeing,
              ListIsExact, Exists, BeingFreed, Owned, ListInstances, registryVars
<1>2. CASE RegistryStep
  <2>. PICK t \in Threads :
        \/ \E tier \in Tiers, name \in Names :
              \/ RefuseCreate(t, Plain(tier, name)) \/ Draw(t, Plain(tier, name))
              \/ \E set \in Settings :
                    RefuseCreate(t, Built(tier, name, set)) \/ Draw(t, Built(tier, name, set))
        \/ \E h \in Handles :
              \/ Track(t, h) \/ Untrack(t, h)
              \/ \E s \in {"running", "stopped"} : SetStatus(t, h, s)
        \/ Free(t)
    BY <1>2 DEF RegistryStep
  <2>1. ASSUME NEW tier \in Tiers, NEW name \in Names,
               RefuseCreate(t, Plain(tier, name)) \/ Draw(t, Plain(tier, name))
        PROVE  RegistryInv'
    <3>1. Plain(tier, name) \in Config
      BY DEF Plain, Config
    <3>. QED BY <2>1, <3>1, RefuseStep, DrawStep
  <2>2. ASSUME NEW tier \in Tiers, NEW name \in Names, NEW set \in Settings,
               RefuseCreate(t, Built(tier, name, set)) \/ Draw(t, Built(tier, name, set))
        PROVE  RegistryInv'
    BY <2>2, BuiltConfig, RefuseStep, DrawStep
  <2>3. ASSUME NEW h \in Handles, Track(t, h) \/ Untrack(t, h) PROVE RegistryInv'
    BY <2>3, TrackStep, UntrackStep
  <2>4. ASSUME NEW h \in Handles, NEW s \in {"running", "stopped"}, SetStatus(t, h, s)
        PROVE  RegistryInv'
    BY <2>4, SetStatusStep
  <2>5. CASE Free(t)
    BY <2>5, FreeStep
  <2>. QED BY <2>1, <2>2, <2>3, <2>4, <2>5
<1>. QED BY <1>1, <1>2

-----------------------------------------------------------------------------
\* The registry invariant holds in every run of the registry calls.
THEOREM RegistryInvAlways == RegistrySpec => []RegistryInv
BY InitInv, NextInv, PTL DEF RegistrySpec

\* The types of the registry, for any number of threads.
THEOREM RegistryTypeCorrect == RegistrySpec => []RegistryTypeOK
<1>1. RegistryInv => RegistryTypeOK BY DEF RegistryInv
<1>. QED BY <1>1, RegistryInvAlways, PTL

\* Two instances never share an id, however creates and destroys interleave.
THEOREM IdsAreUniqueAlways == RegistrySpec => []IdsAreUnique
<1>1. RegistryInv => IdsAreUnique BY DEF RegistryInv
<1>. QED BY <1>1, RegistryInvAlways, PTL

\* The list and the structs agree, also while other threads create and destroy.
THEOREM RegistryAgreesAlways == RegistrySpec => []RegistryAgrees
<1>1. RegistryInv => RegistryAgrees
  <2>. SUFFICES ASSUME RegistryInv PROVE RegistryAgrees
    OBVIOUS
  <2>1. ASSUME NEW e \in listed
        PROVE  \E h \in Handles :
                  /\ Exists(h) /\ ~BeingFreed(h) /\ heap[h].id = e.id
                  /\ Plain(e.tier, e.name) = heap[h].asked
    <3>1. PICK h \in Handles : Exists(h) /\ ~BeingFreed(h) /\ e = Entry(heap[h])
      BY DEF RegistryInv, ListIsExact
    <3>2. heap[h].asked = Plain(heap[h].tier, heap[h].name)
      BY <3>1 DEF RegistryInv, Honest
    <3>. QED
      BY <3>1, <3>2 DEF Entry
  <2>2. ASSUME NEW h \in Handles, Exists(h), ~BeingFreed(h)
        PROVE  \E e \in listed : e.id = heap[h].id
    BY <2>2 DEF RegistryInv, ListIsExact, Entry
  <2>3. ASSUME NEW e \in listed, NEW f \in listed, e.id = f.id PROVE e = f
    <3>1. PICK g \in Handles : Exists(g) /\ e = Entry(heap[g])
      BY DEF RegistryInv, ListIsExact
    <3>2. PICK h \in Handles : Exists(h) /\ f = Entry(heap[h])
      BY DEF RegistryInv, ListIsExact
    <3>3. g = h
      BY <2>3, <3>1, <3>2 DEF RegistryInv, IdsAreUnique, Entry
    <3>. QED
      BY <3>1, <3>2, <3>3
  <2>. QED
    BY <2>1, <2>2, <2>3 DEF RegistryAgrees, ListInstances
<1>. QED BY <1>1, RegistryInvAlways, PTL

-----------------------------------------------------------------------------
(* The ids of the Go shim. *)

GoTypeOK ==
    /\ instanceCounter \in Nat
    /\ at \in [Callers -> {"idle", "store", "reload", "make"}]
    /\ reg \in [Callers -> Nat]
    /\ overlaps \in [Callers -> BOOLEAN]
    /\ box \in [Boxes -> {NoBox} \cup [id : Nat, status : {"running", "stopped"}, raced : BOOLEAN]]

\* A creation that nothing overlapped is the only one in progress, and has drawn
\* what the counter holds.
Undisturbed(c) == Adding(c) /\ ~overlaps[c]
UndisturbedIsAlone ==
    \A c \in Callers : Undisturbed(c) =>
        /\ Others(c) = {}
        /\ at[c] = "make" => reg[c] = instanceCounter

\* An instance whose creation nothing overlapped.
Clean(b) == box[b] # NoBox /\ ~box[b].raced

\* The counter never falls below the id of such an instance, and what others are
\* about to draw is above it.
CleanIsPassed ==
    \A b \in Boxes : Clean(b) =>
        /\ box[b].id <= instanceCounter
        /\ \A c \in Callers :
              /\ at[c] \in {"store", "make"} => box[b].id < reg[c]
              /\ at[c] = "reload" => box[b].id < instanceCounter

GoInv == GoTypeOK /\ UndisturbedIsAlone /\ CleanIsPassed /\ EqualIdsAreExplained

\* Every field of an instance has its type.
LEMMA GoTypeStep == GoTypeOK /\ [GoStep]_goVars => GoTypeOK'
<1>. SUFFICES ASSUME GoTypeOK, [GoStep]_goVars PROVE GoTypeOK'
  OBVIOUS
<1>. USE DEF GoTypeOK, NoBox
<1>1. ASSUME NEW c \in Callers, AddLoad(c) \/ AddStore(c) \/ AddReload(c) PROVE GoTypeOK'
  <2>1. CASE AddLoad(c)
    <3>1. instanceCounter + 1 \in Nat
      OBVIOUS
    <3>2. overlaps' \in [Callers -> BOOLEAN]
      BY <2>1 DEF AddLoad
    <3>. QED
      BY <2>1, <3>1, <3>2 DEF AddLoad, Add, Move
  <2>2. CASE AddStore(c)
    BY <2>2 DEF AddStore, Move
  <2>3. CASE AddReload(c)
    BY <2>3 DEF AddReload, Move
  <2>. QED
    BY <1>1, <2>1, <2>2, <2>3
<1>2. ASSUME NEW c \in Callers, NEW b \in Boxes, Make(c, b) PROVE GoTypeOK'
  <2>1. [id |-> reg[c], status |-> "running", raced |-> overlaps[c]] \in
            [id : Nat, status : {"running", "stopped"}, raced : BOOLEAN]
    OBVIOUS
  <2>. QED
    BY <1>2, <2>1 DEF Make, Move
<1>3. ASSUME NEW c \in Callers, NEW b \in Boxes, GoDestroy(c, b) PROVE GoTypeOK'
  BY <1>3 DEF GoDestroy
<1>4. ASSUME NEW c \in Callers, NEW b \in Boxes, NEW s \in {"running", "stopped"},
             GoSetStatus(c, b, s)
      PROVE  GoTypeOK'
  <2>1. [box[b] EXCEPT !.status = s] \in
            [id : Nat, status : {"running", "stopped"}, raced : BOOLEAN]
    BY <1>4 DEF GoSetStatus
  <2>. QED
    BY <1>4, <2>1 DEF GoSetStatus
<1>5. CASE UNCHANGED goVars
  BY <1>5 DEF goVars
<1>. QED
  BY <1>1, <1>2, <1>3, <1>4, <1>5 DEF GoStep

\* A creation that another overlaps is marked.
LEMMA UndisturbedStep ==
    ASSUME GoTypeOK, UndisturbedIsAlone, [GoStep]_goVars
    PROVE  UndisturbedIsAlone'
<1>. USE DEF GoTypeOK, UndisturbedIsAlone, Undisturbed, Others, Adding
<1>1. ASSUME NEW c \in Callers, AddLoad(c) PROVE UndisturbedIsAlone'
  <2>1. /\ at[c] = "idle" /\ at' = [at EXCEPT ![c] = "store"]
        /\ UNCHANGED instanceCounter
        /\ \A d \in Callers \ {c} : reg'[d] = reg[d]
        /\ overlaps'[c] = (Others(c) # {})
        /\ \A d \in Callers \ {c} : overlaps'[d] = (overlaps[d] \/ Adding(d))
    BY <1>1 DEF AddLoad, Add, Move
  <2>2. /\ at'[c] = "store" /\ \A d \in Callers \ {c} : at'[d] = at[d]
        /\ instanceCounter' = instanceCounter
    BY <2>1
  <2>3. ASSUME NEW d \in Callers \ {c}, Undisturbed(d)' PROVE FALSE
    BY <2>1, <2>2, <2>3
  <2>4. Undisturbed(c)' => Others(c)' = {}
    BY <2>1, <2>2
  <2>. QED
    BY <2>2, <2>3, <2>4
<1>2. ASSUME NEW c \in Callers, AddStore(c) \/ AddReload(c) PROVE UndisturbedIsAlone'
  BY <1>2 DEF AddStore, AddReload, Move
<1>3. ASSUME NEW c \in Callers, NEW b \in Boxes, Make(c, b) PROVE UndisturbedIsAlone'
  BY <1>3 DEF Make, Move
<1>4. CASE UNCHANGED <<instanceCounter, at, reg, overlaps>>
  BY <1>4
<1>. QED
  BY <1>1, <1>2, <1>3, <1>4 DEF GoStep, GoDestroy, GoSetStatus, goVars

\* Nobody draws an id at or below that of a clean instance again.
LEMMA CleanStep ==
    ASSUME GoInv, GoTypeOK', [GoStep]_goVars
    PROVE  CleanIsPassed' /\ EqualIdsAreExplained'
<1>. USE DEF GoInv, GoTypeOK
<1>1. ASSUME NEW c \in Callers, AddLoad(c) \/ AddStore(c) \/ AddReload(c)
      PROVE  CleanIsPassed' /\ EqualIdsAreExplained'
  <2>1. box' = box
    BY <1>1 DEF AddLoad, AddStore, AddReload
  <2>2. \A b \in Boxes : Clean(b) => box[b].id \in Nat
    BY DEF Clean, NoBox
  <2>3. CASE AddLoad(c)
    BY <2>1, <2>2, <2>3 DEF AddLoad, Add, Move, CleanIsPassed, EqualIdsAreExplained, Clean
  <2>4. CASE AddStore(c)
    BY <2>1, <2>2, <2>4 DEF AddStore, Move, CleanIsPassed, EqualIdsAreExplained, Clean
  <2>5. CASE AddReload(c)
    BY <2>1, <2>2, <2>5 DEF AddReload, Move, CleanIsPassed, EqualIdsAreExplained, Clean
  <2>. QED
    BY <1>1, <2>3, <2>4, <2>5
<1>2. ASSUME NEW c \in Callers, NEW b \in Boxes, Make(c, b)
      PROVE  CleanIsPassed' /\ EqualIdsAreExplained'
  <2>. DEFINE new == [id |-> reg[c], status |-> "running", raced |-> overlaps[c]]
  <2>1. /\ at[c] = "make" /\ at' = [at EXCEPT ![c] = "idle"]
        /\ UNCHANGED <<instanceCounter, reg>>
        /\ box' = [box EXCEPT ![b] = new]
    BY <1>2 DEF Make, Move
  <2>2. /\ box'[b].id = reg[c] /\ box'[b].raced = overlaps[c]
        /\ \A a \in Boxes \ {b} : box'[a] = box[a]
    BY <2>1
  <2>3. ~overlaps[c] => reg[c] = instanceCounter /\ \A d \in Callers \ {c} : at[d] = "idle"
    BY <2>1 DEF UndisturbedIsAlone, Undisturbed, Others, Adding
  <2>4. \A a \in Boxes : Clean(a) => box[a].id < reg[c]
    BY <2>1 DEF CleanIsPassed
  <2>5. CleanIsPassed'
    <3>. SUFFICES ASSUME NEW a \in Boxes, Clean(a)'
                  PROVE  /\ box'[a].id <= instanceCounter
                         /\ \A d \in Callers :
                              /\ at'[d] \in {"store", "make"} => box'[a].id < reg[d]
                              /\ at'[d] = "reload" => box'[a].id < instanceCounter
      BY <2>1 DEF CleanIsPassed
    <3>1. CASE a = b
      BY <2>1, <2>2, <2>3, <3>1 DEF Clean
    <3>2. CASE a # b
      BY <2>1, <2>2, <3>2 DEF Clean, CleanIsPassed
    <3>. QED
      BY <3>1, <3>2
  <2>6. EqualIdsAreExplained'
    <3>. SUFFICES ASSUME NEW a \in Boxes, NEW d \in Boxes, a # d,
                         Clean(a)', Clean(d)'
                  PROVE  box'[a].id # box'[d].id
      BY DEF EqualIdsAreExplained, Clean
    <3>1. ASSUME NEW e \in Boxes \ {b}, Clean(e)' PROVE box'[e].id \in Nat /\ box'[e].id < reg[c]
      BY <2>2, <2>4, <3>1 DEF Clean, NoBox
    <3>2. CASE a = b \/ d = b
      BY <2>2, <3>1, <3>2
    <3>3. CASE a # b /\ d # b
      BY <2>2, <3>3 DEF EqualIdsAreExplained, Clean
    <3>. QED
      BY <3>2, <3>3
  <2>. QED
    BY <2>5, <2>6
<1>3. ASSUME \A b \in Boxes : box'[b] # NoBox => /\ box[b] # NoBox
                                                 /\ box'[b].id = box[b].id
                                                 /\ box'[b].raced = box[b].raced,
             UNCHANGED <<instanceCounter, at, reg>>
      PROVE  CleanIsPassed' /\ EqualIdsAreExplained'
  BY <1>3 DEF CleanIsPassed, EqualIdsAreExplained, Clean
<1>4. ASSUME NEW c \in Callers, NEW b \in Boxes, GoDestroy(c, b)
      PROVE  CleanIsPassed' /\ EqualIdsAreExplained'
  <2>1. \A a \in Boxes : box'[a] # NoBox => box'[a] = box[a]
    BY <1>4 DEF GoDestroy
  <2>. QED
    BY <1>3, <1>4, <2>1 DEF GoDestroy
<1>5. ASSUME NEW c \in Callers, NEW b \in Boxes, NEW s \in {"running", "stopped"},
             GoSetStatus(c, b, s)
      PROVE  CleanIsPassed' /\ EqualIdsAreExplained'
  <2>1. box[b] # NoBox /\ box' = [box EXCEPT ![b].status = s]
    BY <1>5 DEF GoSetStatus
  <2>2. box'[b].id = box[b].id /\ box'[b].raced = box[b].raced
    BY <2>1 DEF NoBox
  <2>3. \A a \in Boxes \ {b} : box'[a] = box[a]
    BY <2>1
  <2>. QED
    BY <1>3, <1>5, <2>1, <2>2, <2>3 DEF GoSetStatus
<1>6. CASE UNCHANGED goVars
  BY <1>3, <1>6 DEF goVars
<1>. QED
  BY <1>1, <1>2, <1>4, <1>5, <1>6 DEF GoStep

LEMMA GoInvAlways == GoSpec => []GoInv
<1>1. GoInit => GoInv
  BY DEF GoInit, GoInv, GoTypeOK, UndisturbedIsAlone, Undisturbed, Adding, CleanIsPassed,
         Clean, EqualIdsAreExplained, NoBox
<1>2. GoInv /\ [GoStep]_goVars => GoInv'
  BY GoTypeStep, UndisturbedStep, CleanStep DEF GoInv
<1>. QED
  BY <1>1, <1>2, PTL DEF GoSpec

\* Whatever the callers' steps interleave to, two instances of the Go shim have one
\* id only if another creation ran within that of one of them.
THEOREM EqualIdsAreExplainedAlways == GoSpec => []EqualIdsAreExplained
  BY GoInvAlways, PTL DEF GoInv

-----------------------------------------------------------------------------
(* The answers of the runtime adapters. *)

EngineStates == States \cup {"absent", "running", "exited"}

RuntimeTypeOK ==
    /\ adapter \in AllAdapters
    /\ next_id \in Nat \ {0}
    /\ engine \in [Ids -> EngineStates]
    /\ noise \in [Ids -> Noise \cup {{}}]
    /\ calling \in [Users -> {"idle", "spawn", "list"}]
    /\ about \in [Users -> Nat]
    /\ seen \in [Users -> SUBSET EngineStates]

\* An id that spawn has answered, or that a spawn is about to answer, is below the
\* counter and answered once.
IdsAreDrawn ==
    /\ \A i \in handed : i \in 1 .. (next_id - 1)
    /\ \A u \in Users : calling[u] = "spawn" =>
          about[u] \in 1 .. (next_id - 1) /\ about[u] \notin handed
    /\ \A u, v \in Users :
          (u # v /\ calling[u] = "spawn" /\ calling[v] = "spawn") => about[u] # about[v]

\* A container there is was spawned, and the first command of a status that goes on
\* to the listing has seen the container's states since.
CallsAreObserved ==
    /\ \A i \in Ids : Known(i) => i \in handed
    /\ \A u \in Users : calling[u] = "list" =>
          adapter = "apple" /\ about[u] \in Ids /\ engine[about[u]] \in seen[u]

RuntimeInv == RuntimeTypeOK /\ IdsAreDrawn /\ CallsAreObserved /\ AnswersAreExplained

LEMMA RuntimeTypeStep == RuntimeTypeOK /\ [RuntimeStep]_runtimeVars => RuntimeTypeOK'
<1>. SUFFICES ASSUME RuntimeTypeOK, [RuntimeStep]_runtimeVars PROVE RuntimeTypeOK'
  OBVIOUS
<1>. USE DEF RuntimeTypeOK, EngineStates
<1>0. \A i, state : state \in EngineStates =>
         Observed(i, state) \in [Users -> SUBSET EngineStates]
  BY DEF Observed
<1>1. ASSUME NEW i \in Ids, NEW state \in States \cup {"absent"}, ContainerBecomes(i, state)
      PROVE  RuntimeTypeOK'
  BY <1>0, <1>1 DEF ContainerBecomes
<1>2. ASSUME NEW u \in Users, SpawnInvalid(u) \/ SpawnFails(u) PROVE RuntimeTypeOK'
  BY <1>2 DEF SpawnInvalid, SpawnFails, callVars
<1>3. ASSUME NEW u \in Users, SpawnNoop(u) PROVE RuntimeTypeOK'
  BY <1>3 DEF SpawnNoop, NoopNext, Waits
<1>4. ASSUME NEW u \in Users, SpawnedNoop(u) PROVE RuntimeTypeOK'
  BY <1>4 DEF SpawnedNoop, Waits
<1>5. ASSUME NEW u \in Users, NEW words \in Noise, SpawnTool(u, words) PROVE RuntimeTypeOK'
  <2>1. /\ engine' = [engine EXCEPT ![next_id] = "running"]
        /\ noise' = [noise EXCEPT ![next_id] = words]
        /\ next_id' = next_id + 1 /\ seen' = Observed(next_id, "running")
        /\ UNCHANGED <<adapter, calling, about>>
    BY <1>5 DEF SpawnTool
  <2>2. "running" \in EngineStates
    OBVIOUS
  <2>3. seen' \in [Users -> SUBSET EngineStates]
    BY <1>0, <2>1, <2>2
  <2>4. engine' \in [Ids -> EngineStates] /\ noise' \in [Ids -> Noise \cup {{}}]
    BY <2>1, <2>2
  <2>. QED
    BY <2>1, <2>3, <2>4
<1>6. ASSUME NEW u \in Users, NEW i \in Ids,
             \/ StopNoop(u, i) \/ StatusNoop(u, i) \/ StatusInspected(u, i)
             \/ \E why \in Failures \cup {"absent"} : StopToolFails(u, i, why)
      PROVE  RuntimeTypeOK'
  BY <1>6 DEF StopNoop, StatusNoop, StatusInspected, StopToolFails, callVars
<1>7. ASSUME NEW u \in Users, NEW i \in Ids, StopTool(u, i) PROVE RuntimeTypeOK'
  BY <1>0, <1>7 DEF StopTool
<1>8. ASSUME NEW u \in Users, NEW i \in Ids, NEW why \in Failures \cup {"absent"},
             StatusFails(u, i, why)
      PROVE  RuntimeTypeOK'
  <2>1. i \in Nat
    BY RuntimeAssumption DEF Ids
  <2>. QED
    BY <1>8, <2>1 DEF StatusFails, Waits, callVars
<1>9. ASSUME NEW u \in Users, StatusListed(u) \/ StatusListFails(u) PROVE RuntimeTypeOK'
  BY <1>9 DEF StatusListed, StatusListFails, Waits
<1>10. CASE UNCHANGED runtimeVars
  BY <1>10 DEF runtimeVars
<1>. QED
  BY <1>1, <1>2, <1>3, <1>4, <1>5, <1>6, <1>7, <1>8, <1>9, <1>10 DEF RuntimeStep

\* spawn draws an id before it answers it, and answers none twice.
LEMMA IdsAreDrawnStep ==
    ASSUME RuntimeTypeOK, IdsAreDrawn, RuntimeTypeOK', [RuntimeStep]_runtimeVars
    PROVE  IdsAreDrawn'
<1>. USE DEF RuntimeTypeOK, IdsAreDrawn
<1>1. ASSUME UNCHANGED <<next_id, handed, calling, about>> PROVE IdsAreDrawn'
  BY <1>1
<1>2. ASSUME NEW u \in Users, SpawnNoop(u) PROVE IdsAreDrawn'
  <2>1. /\ next_id' = next_id + 1 /\ handed' = handed
        /\ calling' = [calling EXCEPT ![u] = "spawn"]
        /\ about' = [about EXCEPT ![u] = next_id]
    BY <1>2 DEF SpawnNoop, NoopNext, Waits
  <2>. QED
    BY <2>1
<1>3. ASSUME NEW u \in Users, SpawnedNoop(u) PROVE IdsAreDrawn'
  <2>1. /\ calling[u] = "spawn" /\ next_id' = next_id /\ handed' = handed \cup {about[u]}
        /\ calling' = [calling EXCEPT ![u] = "idle"]
        /\ \A v \in Users \ {u} : about'[v] = about[v]
    BY <1>3 DEF SpawnedNoop, Waits
  <2>. QED
    BY <2>1
<1>4. ASSUME NEW u \in Users, NEW words \in Noise, SpawnTool(u, words) PROVE IdsAreDrawn'
  <2>1. /\ next_id' = next_id + 1 /\ handed' = handed \cup {next_id}
        /\ UNCHANGED <<calling, about>>
    BY <1>4 DEF SpawnTool
  <2>. QED
    BY <2>1
<1>5. ASSUME NEW u \in Users, NEW i \in Ids, NEW why \in Failures \cup {"absent"},
             StatusFails(u, i, why)
      PROVE  IdsAreDrawn'
  BY <1>5 DEF StatusFails, Waits, callVars
<1>6. ASSUME NEW u \in Users, StatusListed(u) \/ StatusListFails(u) PROVE IdsAreDrawn'
  BY <1>6 DEF StatusListed, StatusListFails, Waits
<1>. QED
  BY <1>1, <1>2, <1>3, <1>4, <1>5, <1>6
  DEF RuntimeStep, ContainerBecomes, SpawnInvalid, SpawnFails, StopNoop, StopTool,
      StopToolFails, StatusNoop, StatusInspected, callVars, runtimeVars

\* A status that goes on to the listing misses no state of its container.
LEMMA CallsAreObservedStep ==
    ASSUME RuntimeTypeOK, CallsAreObserved, RuntimeTypeOK', [RuntimeStep]_runtimeVars
    PROVE  CallsAreObserved'
<1>. USE DEF RuntimeTypeOK, CallsAreObserved, Known
<1>1. ASSUME UNCHANGED <<adapter, engine, seen, calling, about>>, handed \subseteq handed'
      PROVE  CallsAreObserved'
  BY <1>1
<1>2. ASSUME NEW i \in Ids, NEW state \in EngineStates,
             engine' = [engine EXCEPT ![i] = state], seen' = Observed(i, state),
             UNCHANGED <<adapter, calling, about>>,
             handed \subseteq handed', state # "absent" => i \in handed'
      PROVE  CallsAreObserved'
  <2>1. \A u \in Users : calling[u] = "list" =>
           IF about[u] = i THEN state \in seen'[u] ELSE seen'[u] = seen[u]
    BY <1>2 DEF Observed
  <2>2. \A j \in Ids : engine'[j] = IF j = i THEN state ELSE engine[j]
    BY <1>2
  <2>. QED
    BY <1>2, <2>1, <2>2
<1>3. ASSUME NEW i \in Ids, NEW state \in States \cup {"absent"}, ContainerBecomes(i, state)
      PROVE  CallsAreObserved'
  BY <1>2, <1>3 DEF ContainerBecomes, EngineStates
<1>4. ASSUME NEW u \in Users, NEW words \in Noise, SpawnTool(u, words)
      PROVE  CallsAreObserved'
  <2>1. next_id \in Ids /\ "running" \in EngineStates
    BY <1>4, RuntimeAssumption DEF SpawnTool, Ids, EngineStates
  <2>. QED
    BY <1>2, <1>4, <2>1 DEF SpawnTool
<1>5. ASSUME NEW u \in Users, NEW i \in Ids, StopTool(u, i) PROVE CallsAreObserved'
  BY <1>2, <1>5 DEF StopTool, EngineStates
<1>6. ASSUME NEW u \in Users, NEW i \in Ids, NEW why \in Failures \cup {"absent"},
             StatusFails(u, i, why)
      PROVE  CallsAreObserved'
  <2>1. CASE UNCHANGED callVars
    BY <1>6, <2>1 DEF StatusFails, callVars
  <2>2. CASE adapter = "apple" /\ Waits(u, "list", i, {engine[i]})
    BY <1>6, <2>2 DEF StatusFails, Waits
  <2>. QED
    BY <1>6, <2>1, <2>2 DEF StatusFails
<1>7. ASSUME NEW u \in Users, \/ SpawnNoop(u) \/ SpawnedNoop(u)
                              \/ StatusListed(u) \/ StatusListFails(u)
      PROVE  CallsAreObserved'
  <2>1. /\ UNCHANGED <<adapter, engine>> /\ handed \subseteq handed'
        /\ calling'[u] # "list"
        /\ \A v \in Users \ {u} : UNCHANGED <<calling[v], about[v], seen[v]>>
    BY <1>7 DEF SpawnNoop, SpawnedNoop, StatusListed, StatusListFails, Waits
  <2>. QED
    BY <2>1
<1>. QED
  BY <1>1, <1>3, <1>4, <1>5, <1>6, <1>7
  DEF RuntimeStep, SpawnInvalid, SpawnFails, StopNoop, StopToolFails, StatusNoop,
      StatusInspected, callVars, runtimeVars

\* While one container was spawned, a listing describes it alone.
LEMMA ListingOfOne ==
    ASSUME CallsAreObserved, NEW i \in Ids, Known(i), handed = {i}
    PROVE  Listing = Description(i)
<1>1. \A j \in Ids : Known(j) => j = i
  BY DEF CallsAreObserved
<1>2. {Description(j) : j \in {k \in Ids : Known(k)}} = {Description(i)}
  BY <1>1
<1>. QED
  BY <1>2 DEF Listing

\* What each call answers is explained by the states seen during it.
LEMMA AnswersStep ==
    ASSUME RuntimeTypeOK, IdsAreDrawn, CallsAreObserved, AnswersAreExplained,
           [RuntimeStep]_runtimeVars
    PROVE  AnswersAreExplained'
<1>. USE DEF RuntimeTypeOK, StatusAnswers
<1>1. ASSUME UNCHANGED <<answer, adapter, noise, handed>> PROVE AnswersAreExplained'
  BY <1>1 DEF AnswersAreExplained
<1>2. ASSUME NEW i, NEW says \in {"validation", "ok", "backend"}, NEW via, NEW states,
             Answer(i, "spawn", says, via, states)
      PROVE  AnswersAreExplained'
  BY <1>2 DEF Answer, AnswersAreExplained
<1>3. ASSUME NEW u \in Users, SpawnedNoop(u) PROVE AnswersAreExplained'
  <2>1. about[u] \notin handed
    BY <1>3 DEF SpawnedNoop, IdsAreDrawn
  <2>. QED
    BY <1>2, <1>3, <2>1 DEF SpawnedNoop
<1>4. ASSUME NEW u \in Users, NEW i \in Ids, StopNoop(u, i) PROVE AnswersAreExplained'
  BY <1>4 DEF StopNoop, Answer, StateOf, AnswersAreExplained
<1>5. ASSUME NEW u \in Users, NEW i \in Ids, StopTool(u, i) PROVE AnswersAreExplained'
  BY <1>5 DEF StopTool, Answer, AnswersAreExplained
<1>6. ASSUME NEW u \in Users, NEW i \in Ids, NEW why \in Failures \cup {"absent"},
             StopToolFails(u, i, why)
      PROVE  AnswersAreExplained'
  BY <1>6 DEF StopToolFails, Fails, Known, MentionsNotFound, Answer, AnswersAreExplained
<1>7. ASSUME NEW u \in Users, NEW i \in Ids, StatusNoop(u, i) PROVE AnswersAreExplained'
  <2>1. CASE i \notin alive
    BY <1>7, <2>1 DEF StatusNoop, Answer, StateOf, AnswersAreExplained
  <2>2. CASE i \in alive
    <3>1. /\ answer'.op = "status" /\ answer'.says = "running" /\ answer'.seen = {"running"}
      BY <1>7, <2>2 DEF StatusNoop, Answer, StateOf
    <3>2. PodmanStatus("running") = "running"
      BY DEF PodmanStatus, Exited
    <3>3. Plainly("running", {"running"})
      BY <3>2 DEF Plainly
    <3>. QED
      BY <3>1, <3>3 DEF AnswersAreExplained
  <2>. QED
    BY <2>1, <2>2
<1>8. ASSUME NEW u \in Users, NEW i \in Ids, StatusInspected(u, i) PROVE AnswersAreExplained'
  <2>. DEFINE says == answer'.says
  <2>1. /\ answer'.op = "status" /\ answer'.seen = {engine[i]} /\ answer'.id = i
        /\ engine[i] # "absent" /\ UNCHANGED <<adapter, noise, handed>>
        /\ says = IF adapter = "podman" THEN PodmanStatus(engine[i])
                  ELSE ParseStatus(Description(i))
    BY <1>8 DEF StatusInspected, Answer, Known
  <2>2. says \notin {"repeated", "not_found", "ok"}
    BY <2>1 DEF PodmanStatus, ParseStatus
  <2>3. CASE adapter = "podman"
    <3>1. Plainly(says, answer'.seen)
      BY <2>1, <2>3 DEF Plainly
    <3>. QED
      BY <2>1, <2>2, <3>1 DEF AnswersAreExplained
  <2>4. CASE adapter # "podman"
    <3>1. adapter \in {"apple", "wslc"}
      BY <1>8, <2>4 DEF StatusInspected, Tool, AllAdapters
    <3>2. noise[i] = {} => says = ParseStatus({engine[i]})
      BY <2>1, <2>4 DEF Description
    <3>. QED
      BY <2>1, <2>2, <3>1, <3>2 DEF AnswersAreExplained
  <2>. QED
    BY <2>3, <2>4
<1>9. ASSUME NEW u \in Users, NEW i \in Ids, NEW why \in Failures \cup {"absent"},
             StatusFails(u, i, why)
      PROVE  AnswersAreExplained'
  <2>1. CASE Answer(i, "status", "not_found", why, {engine[i]}) /\ MentionsNotFound(why)
    <3>1. engine[i] = "absent" \/ why = "no_such_file"
      BY <1>9, <2>1 DEF StatusFails, Fails, Known, MentionsNotFound
    <3>. QED
      BY <2>1, <3>1 DEF Answer, AnswersAreExplained
  <2>2. CASE Answer(i, "status", "backend", why, {engine[i]})
    BY <2>2 DEF Answer, AnswersAreExplained
  <2>3. CASE UNCHANGED answer
    BY <1>1, <1>9, <2>3 DEF StatusFails
  <2>. QED
    BY <1>9, <2>1, <2>2, <2>3 DEF StatusFails
<1>10. ASSUME NEW u \in Users, StatusListed(u) PROVE AnswersAreExplained'
  <2>. DEFINE i == about[u]
  <2>1. /\ answer'.op = "status" /\ answer'.seen = seen[u] /\ answer'.id = i
        /\ answer'.via = "list" /\ UNCHANGED <<adapter, noise, handed>>
        /\ answer'.says = IF InListing(i) THEN ParseStatus(Listing) ELSE "not_found"
    BY <1>10 DEF StatusListed, Answer
  <2>2. adapter = "apple" /\ i \in Ids /\ engine[i] \in seen[u]
    BY <1>10 DEF StatusListed, CallsAreObserved
  <2>3. CASE ~InListing(i)
    <3>1. "absent" \in seen[u]
      BY <2>2, <2>3 DEF InListing, Known
    <3>. QED
      BY <2>1, <2>3, <3>1 DEF AnswersAreExplained
  <2>4. CASE InListing(i) /\ ~Known(i)
    <3>1. PICK j \in Ids : Known(j) /\ j # i /\ <<i, j>> \in Mentions
      BY <2>4 DEF InListing
    <3>2. j \in handed \ {i}
      BY <3>1 DEF CallsAreObserved
    <3>3. answer'.says \notin {"repeated", "not_found", "ok"}
      BY <2>1, <2>4 DEF ParseStatus
    <3>. QED
      BY <2>1, <2>2, <3>1, <3>2, <3>3 DEF AnswersAreExplained
  <2>5. CASE Known(i)
    <3>1. InListing(i) /\ engine[i] \in seen[u] \ {"absent"}
      BY <2>2, <2>5 DEF InListing, Known
    <3>2. (handed = {i} /\ noise[i] = {}) => answer'.says = ParseStatus({engine[i]})
      BY <2>1, <2>2, <2>5, <3>1, ListingOfOne DEF Description
    <3>3. answer'.says \notin {"repeated", "not_found", "ok"}
      BY <2>1, <3>1 DEF ParseStatus
    <3>. QED
      BY <2>1, <2>2, <3>1, <3>2, <3>3 DEF AnswersAreExplained
  <2>. QED
    BY <2>3, <2>4, <2>5
<1>11. ASSUME NEW u \in Users, StatusListFails(u) PROVE AnswersAreExplained'
  BY <1>11 DEF StatusListFails, Answer, AnswersAreExplained
<1>12. ASSUME NEW u \in Users, \/ SpawnInvalid(u) \/ SpawnFails(u)
                               \/ \E words \in Noise : SpawnTool(u, words)
       PROVE  AnswersAreExplained'
  BY <1>2, <1>12 DEF SpawnInvalid, SpawnFails, SpawnTool
<1>. QED
  BY <1>1, <1>3, <1>4, <1>5, <1>6, <1>7, <1>8, <1>9, <1>10, <1>11, <1>12
  DEF RuntimeStep, ContainerBecomes, SpawnNoop, runtimeVars

\* For any number of threads, containers and words of the tools, and whatever ids are
\* parts of others: an answer of an adapter was so at some time during the call, or
\* has one of the causes the property names, and spawn answers no id twice.
THEOREM AnswersAreExplainedAlways == RuntimeSpec => []AnswersAreExplained
<1>1. RuntimeInit => RuntimeInv
  <2>. SUFFICES ASSUME RuntimeInit PROVE RuntimeInv
    OBVIOUS
  <2>1. RuntimeTypeOK /\ IdsAreDrawn /\ CallsAreObserved
    BY RuntimeAssumption
    DEF RuntimeInit, RuntimeTypeOK, EngineStates, IdsAreDrawn, CallsAreObserved, Known
  <2>2. AnswersAreExplained
    BY DEF RuntimeInit, NoCall, AnswersAreExplained
  <2>. QED
    BY <2>1, <2>2 DEF RuntimeInv
<1>2. RuntimeInv /\ [RuntimeStep]_runtimeVars => RuntimeInv'
  BY RuntimeTypeStep, IdsAreDrawnStep, CallsAreObservedStep, AnswersStep DEF RuntimeInv
<1>. QED
  BY <1>1, <1>2, PTL DEF RuntimeSpec, RuntimeInv

-----------------------------------------------------------------------------
\* A set of numbers that is not empty has a least element, which is its Min.
LEMMA MinIsLeast ==
    ASSUME NEW T \in SUBSET Nat, T # {}
    PROVE  Min(T) \in T /\ \A k \in T : Min(T) <= k
<1>. DEFINE R == OpToRel(<, Nat)
<1>1. IsWellFoundedOn(R, Nat)
  BY NatLessThanWellFounded
<1>2. \A k, n \in T : k < n => <<k, n>> \in R
  BY DEF OpToRel
<1>. HIDE DEF R
<1>3. PICK n \in T : \A k \in T : ~(<<k, n>> \in R)
  BY <1>1, WFMin
<1>4. n \in Nat /\ \A k \in T : k \in Nat
  OBVIOUS
<1>5. \A k \in T : ~(k < n)
  BY <1>2, <1>3
<1>6. \A k \in T : n <= k
  BY <1>4, <1>5
<1>. QED
  BY <1>6 DEF Min

-----------------------------------------------------------------------------
(* The receipts of the composing and publishing ports. *)

IsSequence(s) == s \in Seq({s[i] : i \in DOMAIN s})

LEMMA AppendIsSequence ==
    ASSUME NEW s, NEW e, IsSequence(s)
    PROVE  /\ IsSequence(Append(s, e))
           /\ Len(s) \in Nat /\ DOMAIN s = 1 .. Len(s)
           /\ Len(Append(s, e)) = Len(s) + 1
           /\ DOMAIN Append(s, e) = 1 .. (Len(s) + 1)
           /\ \A i \in 1 .. Len(s) : Append(s, e)[i] = s[i]
           /\ Append(s, e)[Len(s) + 1] = e
<1>. DEFINE S == {s[i] : i \in DOMAIN s} \cup {e}
            t == Append(s, e)
            T == {t[i] : i \in DOMAIN t}
<1>1. s \in Seq(S)
  BY DEF IsSequence
<1>. HIDE DEF S
<1>2. /\ Len(s) \in Nat /\ DOMAIN s = 1 .. Len(s)
      /\ t \in Seq(S \cup {e}) /\ Len(t) = Len(s) + 1 /\ DOMAIN t = 1 .. (Len(s) + 1)
      /\ \A i \in 1 .. Len(s) : t[i] = s[i]
      /\ t[Len(s) + 1] = e
  BY <1>1
<1>. HIDE DEF t
<1>3. t \in [1 .. (Len(s) + 1) -> T]
  BY <1>2
<1>4. t \in Seq(T)
  BY <1>2, <1>3
<1>. QED
  BY <1>2, <1>4 DEF IsSequence, t

\* Before the container is built nothing was asked of it.
NothingBefore ==
    container = Unwired =>
        /\ asked = 0 /\ call_count = 0 /\ calls = <<>> /\ receipts = <<>>
        /\ \A p \in Pipelines : inHand[p] = NoArtifact

\* What PrebuiltComposer composed is the first image its manifest names.
InHandIsFirst ==
    container.composer = "prebuilt" =>
        \A p \in Pipelines : inHand[p] # NoArtifact =>
            /\ inHand[p].manifest \in PortManifest
            /\ ImageTags(inHand[p].manifest) # {}
            /\ inHand[p].artifact.image = FirstImage(inHand[p].manifest)

PortsInv ==
    /\ inHand = [p \in Pipelines |-> inHand[p]]
    /\ IsSequence(calls) /\ IsSequence(receipts)
    /\ asked \in Nat
    /\ NothingBefore /\ InHandIsFirst /\ ReceiptsAreBacked

\* The first image tag of a manifest is one, and none comes before it.
LEMMA FirstImageIsFirst ==
    ASSUME NEW m \in PortManifest, ImageTags(m) # {}
    PROVE  \E k \in DOMAIN m.tags :
              /\ m.tags[k].key = "image" /\ \A j \in 1 .. (k - 1) : m.tags[j].key # "image"
              /\ FirstImage(m) = m.tags[k].value
<1>1. m.tags \in Seq([key : STRING, value : StringPieces])
  BY DEF PortManifest
<1>2. DOMAIN m.tags = 1 .. Len(m.tags) /\ Len(m.tags) \in Nat
  BY <1>1
<1>3. ImageTags(m) \in SUBSET Nat
  BY <1>2 DEF ImageTags
<1>. DEFINE k == Min(ImageTags(m))
<1>4. k \in ImageTags(m) /\ \A j \in ImageTags(m) : k <= j
  BY <1>3, MinIsLeast
<1>. HIDE DEF k
<1>5. k \in 1 .. Len(m.tags) /\ m.tags[k].key = "image"
  BY <1>2, <1>4 DEF ImageTags
<1>6. ASSUME NEW j \in 1 .. (k - 1) PROVE m.tags[j].key # "image"
  <2>1. j \in DOMAIN m.tags /\ ~(k <= j)
    BY <1>2, <1>5, <1>6
  <2>. QED
    BY <1>4, <2>1 DEF ImageTags
<1>. QED
  BY <1>2, <1>5, <1>6 DEF FirstImage, k

LEMMA PortsComposeStep ==
    ASSUME PortsInv, NEW p \in Pipelines, NEW m \in Manifests, Compose(p, m)
    PROVE  PortsInv'
<1>. USE DEF PortsInv
<1>1. /\ container # Unwired /\ asked' = asked + 1 /\ call_count' = Count(m)
      /\ UNCHANGED <<container, calls, receipts>>
      /\ \A q \in Pipelines \ {p} : inHand'[q] = inHand[q]
      /\ inHand' = [q \in Pipelines |-> inHand'[q]]
      /\ \/ inHand'[p] = inHand[p]
         \/ /\ ~ComposeInvalid(m)
            /\ inHand'[p] = [manifest |-> m, artifact |-> ComposedArtifact(m)]
  BY DEF Compose
<1>2. InHandIsFirst'
  <2>. SUFFICES ASSUME container.composer = "prebuilt", NEW q \in Pipelines,
                       inHand'[q] # NoArtifact
                PROVE  /\ inHand'[q].manifest \in PortManifest
                       /\ ImageTags(inHand'[q].manifest) # {}
                       /\ inHand'[q].artifact.image = FirstImage(inHand'[q].manifest)
    BY <1>1 DEF InHandIsFirst
  <2>1. CASE inHand'[q] = inHand[q]
    BY <2>1 DEF InHandIsFirst
  <2>2. CASE /\ ~ComposeInvalid(m)
             /\ inHand'[q] = [manifest |-> m, artifact |-> ComposedArtifact(m)]
    <3>1. m \in PortManifest
      BY PortsAssumption
    <3>2. ImageTags(m) # {}
      BY <2>2 DEF ComposeInvalid
    <3>. QED
      BY <2>2, <3>1, <3>2 DEF ComposedArtifact
  <2>. QED
    BY <1>1, <2>1, <2>2
<1>3. ReceiptsAreBacked'
  BY <1>1 DEF ReceiptsAreBacked, Count
<1>. QED
  BY <1>1, <1>2, <1>3 DEF NothingBefore

LEMMA PortsPublishStep ==
    ASSUME PortsInv, NEW p \in Pipelines, NEW target \in Targets, Publish(p, target)
    PROVE  PortsInv'
<1>. DEFINE a == inHand[p].artifact
            call == [artifact |-> a, target |-> target]
            receipt == [artifact_id |-> a.id, target |-> target,
                        published_at |-> PublishedAt(a, target),
                        manifest |-> inHand[p].manifest, images |-> images]
<1>1. /\ inHand[p] # NoArtifact /\ ~PublishInvalid(a, target)
      /\ container.publisher = "podman-local" => ImageExists(a)
      /\ calls' = IF container.publisher = "recording" THEN Append(calls, call) ELSE calls
      /\ receipts' = Append(receipts, receipt)
      /\ UNCHANGED <<container, call_count, asked>>
      /\ inHand' = [inHand EXCEPT ![p] = NoArtifact]
  BY DEF Publish, Record
<1>2. container # Unwired
  BY <1>1 DEF PortsInv, NothingBefore
<1>3. /\ IsSequence(receipts') /\ Len(receipts) \in Nat
      /\ DOMAIN receipts = 1 .. Len(receipts)
      /\ Len(receipts') = Len(receipts) + 1 /\ DOMAIN receipts' = 1 .. (Len(receipts) + 1)
      /\ \A i \in 1 .. Len(receipts) : receipts'[i] = receipts[i]
      /\ receipts'[Len(receipts) + 1] = receipt
  <2>. HIDE DEF receipt
  <2>. QED
    BY <1>1, AppendIsSequence DEF PortsInv
<1>4. /\ IsSequence(calls') /\ Len(calls) \in Nat /\ DOMAIN calls = 1 .. Len(calls)
      /\ container.publisher = "recording" =>
            /\ Len(calls') = Len(calls) + 1 /\ DOMAIN calls' = 1 .. (Len(calls) + 1)
            /\ \A i \in 1 .. Len(calls) : calls'[i] = calls[i]
            /\ calls'[Len(calls) + 1] = call
  <2>. HIDE DEF call
  <2>. QED
    BY <1>1, AppendIsSequence DEF PortsInv
<1>5. receipt.artifact_id = call.artifact.id /\ receipt.target = call.target
  OBVIOUS
<1>6. (container.composer = "prebuilt" /\ container.publisher = "podman-local") =>
         \E k \in DOMAIN receipt.manifest.tags :
            /\ receipt.manifest.tags[k].key = "image"
            /\ \A j \in 1 .. (k - 1) : receipt.manifest.tags[j].key # "image"
            /\ receipt.target.locator = receipt.manifest.tags[k].value
            /\ receipt.manifest.tags[k].value \in receipt.images
  <2>. SUFFICES ASSUME container.composer = "prebuilt", container.publisher = "podman-local"
                PROVE  \E k \in DOMAIN receipt.manifest.tags :
                          /\ receipt.manifest.tags[k].key = "image"
                          /\ \A j \in 1 .. (k - 1) : receipt.manifest.tags[j].key # "image"
                          /\ receipt.target.locator = receipt.manifest.tags[k].value
                          /\ receipt.manifest.tags[k].value \in receipt.images
    OBVIOUS
  <2>1. target.locator = a.image /\ a.image \in images
    BY <1>1 DEF PublishInvalid, ImageExists
  <2>2. /\ inHand[p].manifest \in PortManifest /\ ImageTags(inHand[p].manifest) # {}
        /\ a.image = FirstImage(inHand[p].manifest)
    BY <1>1 DEF PortsInv, InHandIsFirst
  <2>3. /\ receipt.manifest = inHand[p].manifest
        /\ receipt.target = target /\ receipt.images = images
    OBVIOUS
  <2>. HIDE DEF receipt, a
  <2>. QED
    BY <2>1, <2>2, <2>3, FirstImageIsFirst
<1>. HIDE DEF receipt, call
<1>7. ReceiptsAreBacked'
  <2>1. container.publisher = "recording" =>
           /\ Len(calls') = Len(receipts')
           /\ \A i \in DOMAIN calls' :
                 /\ calls'[i].artifact.id = receipts'[i].artifact_id
                 /\ calls'[i].target = receipts'[i].target
    <3>. SUFFICES ASSUME container.publisher = "recording"
                  PROVE  /\ Len(calls') = Len(receipts')
                         /\ \A i \in DOMAIN calls' :
                               /\ calls'[i].artifact.id = receipts'[i].artifact_id
                               /\ calls'[i].target = receipts'[i].target
      OBVIOUS
    <3>1. /\ Len(calls) = Len(receipts)
          /\ \A i \in DOMAIN calls : /\ calls[i].artifact.id = receipts[i].artifact_id
                                     /\ calls[i].target = receipts[i].target
      BY DEF PortsInv, ReceiptsAreBacked
    <3>2. \A i \in DOMAIN calls' : i \in 1 .. Len(calls) \/ i = Len(calls) + 1
      BY <1>4
    <3>. QED
      BY <1>3, <1>4, <1>5, <3>1, <3>2
  <2>2. (container.composer = "prebuilt" /\ container.publisher = "podman-local") =>
           \A i \in DOMAIN receipts' : \E k \in DOMAIN receipts'[i].manifest.tags :
              /\ receipts'[i].manifest.tags[k].key = "image"
              /\ \A j \in 1 .. (k - 1) : receipts'[i].manifest.tags[j].key # "image"
              /\ receipts'[i].target.locator = receipts'[i].manifest.tags[k].value
              /\ receipts'[i].manifest.tags[k].value \in receipts'[i].images
    <3>1. \A i \in DOMAIN receipts' : i \in 1 .. Len(receipts) \/ i = Len(receipts) + 1
      BY <1>3
    <3>. QED
      BY <1>3, <1>6, <3>1 DEF PortsInv, ReceiptsAreBacked
  <2>. QED
    BY <1>1, <2>1, <2>2 DEF PortsInv, ReceiptsAreBacked
<1>8. InHandIsFirst'
  BY <1>1 DEF PortsInv, InHandIsFirst
<1>. QED
  BY <1>1, <1>2, <1>3, <1>4, <1>7, <1>8 DEF PortsInv, NothingBefore

\* However pipelines share the adapters, each receipt is backed by what the adapters
\* recorded, and as `apply` wires them by the image its manifest names first.
THEOREM ReceiptsAreBackedAlways == PortsSpec => []ReceiptsAreBacked
<1>1. PortsInit => PortsInv
  BY DEF PortsInit, PortsInv, NothingBefore, InHandIsFirst, ReceiptsAreBacked, IsSequence, Unwired
<1>2. PortsInv /\ [PortsStep]_portVars => PortsInv'
  <2>. SUFFICES ASSUME PortsInv, [PortsStep]_portVars PROVE PortsInv'
    OBVIOUS
  <2>1. ASSUME UNCHANGED <<container, call_count, calls, inHand, asked, receipts>>
        PROVE  PortsInv'
    BY <2>1 DEF PortsInv, NothingBefore, InHandIsFirst, ReceiptsAreBacked, ImageTags, FirstImage
  <2>2. CASE Build
    <3>1. /\ container = Unwired
          /\ UNCHANGED <<call_count, calls, inHand, asked, receipts>>
      BY <2>2 DEF Build
    <3>2. /\ asked = 0 /\ call_count = 0 /\ calls = <<>> /\ receipts = <<>>
          /\ \A p \in Pipelines : inHand[p] = NoArtifact
      BY <3>1 DEF PortsInv, NothingBefore
    <3>. QED
      BY <3>1, <3>2 DEF PortsInv, NothingBefore, InHandIsFirst, ReceiptsAreBacked
  <2>3. ASSUME NEW p \in Pipelines, NEW target \in Targets, PublishFails(p, target)
        PROVE  PortsInv'
    BY <2>3 DEF PublishFails, PortsInv, NothingBefore, InHandIsFirst, ReceiptsAreBacked
  <2>. QED
    BY <2>1, <2>2, <2>3, PortsComposeStep, PortsPublishStep
    DEF PortsStep, With, ImagesChange, portVars
<1>. QED
  BY <1>1, <1>2, PTL DEF PortsSpec, PortsInv
==============================================================================
