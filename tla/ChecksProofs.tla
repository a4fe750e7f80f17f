---------------------------- MODULE ChecksProofs ----------------------------
(***************************************************************************)
(* Proofs about the checks of the CLI and the port types: the admission of *)
(* a manifest, the evidence of an answer, and references to images.        *)
(*                                                                         *)
(* Two of them rest on recursive functions (the components of a normalized *)
(* path, the bytes of a text).  What such a function computes is proved    *)
(* with UpTo, which is induction over a set of numbers.                    *)
(***************************************************************************)
EXTENDS Admission, Evidence, OciReference, SequenceTheorems, FiniteSetTheorems,
        WellFoundedInduction, TLAPS

-----------------------------------------------------------------------------
(* Numbers and sequences. *)

\* A set of numbers that is not empty has a least element, which is its Min.
LEMMA MinIsLeast ==
    ASSUME NEW T \in SUBSET Nat, T # {}
    PROVE  Min(T) \in T /\ \A k \in T : Min(T) <= k
<1>. DEFINE R == OpToRel(<, Nat)
<1>1. IsWellFoundedOn(R, Nat)
  BY NatLessThanWellFounded
<1>2. \A k, n \in T : k < n => <<k, n>> \in R
  BY DEF OpToRel
<1>. HIDE DEF R
<1>3. PICK n \in T : \A k \in T : ~(<<k, n>> \in R)
  BY <1>1, WFMin
<1>4. n \in Nat /\ \A k \in T : k \in Nat
  OBVIOUS
<1>5. \A k \in T : ~(k < n)
  BY <1>2, <1>3
<1>6. \A k \in T : n <= k
  BY <1>4, <1>5
<1>. QED
  BY <1>6 DEF Min

\* A set of numbers up to n that is not empty has a greatest element, which is its Max.
LEMMA MaxIsGreatest ==
    ASSUME NEW n \in Nat, NEW T \in SUBSET (0 .. n), T # {}
    PROVE  Max(T) \in T /\ \A k \in T : k <= Max(T)
<1>. DEFINE below == {n - k : k \in T}
<1>1. below \in SUBSET Nat /\ below # {}
  <2>1. \A k \in T : n - k \in Nat
    OBVIOUS
  <2>2. below \subseteq Nat
    BY <2>1
  <2>3. PICK k : k \in T
    OBVIOUS
  <2>4. n - k \in below
    BY <2>3
  <2>. HIDE DEF below
  <2>. QED
    BY <2>2, <2>4
<1>2. Min(below) \in below /\ \A k \in below : Min(below) <= k
  <2>. HIDE DEF below
  <2>. QED
    BY <1>1, MinIsLeast
<1>3. PICK g \in T : Min(below) = n - g
  BY <1>2
<1>4. \A k \in T : g >= k
  <2>. TAKE k \in T
  <2>1. n - g <= n - k
    BY <1>2, <1>3
  <2>2. g \in 0 .. n /\ k \in 0 .. n
    OBVIOUS
  <2>. QED
    BY <2>1, <2>2
<1>5. Max(T) \in T /\ \A k \in T : Max(T) >= k
  BY <1>4 DEF Max
<1>6. \A k \in T : k \in Int
  OBVIOUS
<1>. QED
  BY <1>5, <1>6

\* A set that has 0, and what follows each of its numbers below n, has all up to n.
LEMMA UpTo ==
    ASSUME NEW n \in Nat, NEW T, 0 \in T, \A k \in 0 .. n : k \in T /\ k < n => k + 1 \in T
    PROVE  \A k \in 0 .. n : k \in T
<1>. DEFINE bad == {k \in 0 .. n : k \notin T}
<1>. SUFFICES ASSUME bad # {} PROVE FALSE
  OBVIOUS
<1>1. bad \in SUBSET Nat
  OBVIOUS
<1>2. Min(bad) \in bad /\ \A k \in bad : Min(bad) <= k
  <2>. HIDE DEF bad
  <2>. QED
    BY <1>1, MinIsLeast
<1>. DEFINE b == Min(bad)
<1>3. b \in 0 .. n /\ b \notin T /\ \A k \in 0 .. n : k \notin T => b <= k
  BY <1>2
<1>. HIDE DEF b
<1>4. b # 0
  BY <1>3
<1>5. b - 1 \in 0 .. n /\ b - 1 < n /\ (b - 1) + 1 = b
  BY <1>3, <1>4
<1>6. b - 1 \in T
  BY <1>3, <1>5
<1>. QED
  BY <1>3, <1>5, <1>6

\* The length and the elements of a concatenation.
LEMMA ConcatIs ==
    ASSUME NEW S, NEW s \in Seq(S), NEW t \in Seq(S)
    PROVE  /\ s \o t \in Seq(S) /\ Len(s \o t) = Len(s) + Len(t)
           /\ \A i \in 1 .. Len(s) : (s \o t)[i] = s[i]
           /\ \A i \in 1 .. Len(t) : (s \o t)[Len(s) + i] = t[i]
  OBVIOUS

\* The prefix of length 1.
LEMMA FirstIs ==
    ASSUME NEW S, NEW s \in Seq(S), s # <<>>
    PROVE  1 <= Len(s) /\ SubSeq(s, 1, 1) = <<s[1]>>
<1>. DEFINE a == SubSeq(s, 1, 1)
            b == <<s[1]>>
<1>1. Len(s) \in Nat /\ 1 <= Len(s) /\ s[1] \in S
  OBVIOUS
<1>2. a \in Seq(S) /\ Len(a) = 1 /\ a[1] = s[1]
  BY <1>1
<1>3. b \in Seq(S) /\ Len(b) = 1 /\ b[1] = s[1]
  BY <1>1
<1>. HIDE DEF a, b
<1>4. \A i \in 1 .. Len(a) : a[i] = b[i]
  BY <1>2, <1>3
<1>5. a = b
  BY <1>2, <1>3, <1>4, SeqEqual
<1>. QED
  BY <1>1, <1>5 DEF a, b

-----------------------------------------------------------------------------
(* Gates. *)

\* The verdict of a gate is that of its first check that refuses, or "ok".
LEMMA VerdictDecides ==
    ASSUME NEW gate, DOMAIN gate \in SUBSET Nat
    PROVE  \/ Verdict(gate) = "ok" /\ \A i \in DOMAIN gate : ~gate[i][1]
           \/ \E i \in DOMAIN gate :
                 /\ gate[i][1] /\ Verdict(gate) = gate[i][2]
                 /\ \A j \in DOMAIN gate : j < i => ~gate[j][1]
<1>. DEFINE failing == {i \in DOMAIN gate : gate[i][1]}
<1>1. CASE failing = {}
  BY <1>1 DEF Verdict
<1>2. CASE failing # {}
  <2>1. Verdict(gate) = gate[Min(failing)][2]
    BY <1>2 DEF Verdict
  <2>2. failing \in SUBSET Nat
    OBVIOUS
  <2>3. Min(failing) \in failing /\ \A k \in failing : Min(failing) <= k
    BY <1>2, <2>2, MinIsLeast
  <2>. DEFINE i == Min(failing)
  <2>. HIDE DEF i
  <2>4. i \in DOMAIN gate /\ gate[i][1] /\ Verdict(gate) = gate[i][2]
    BY <2>1, <2>3 DEF i
  <2>5. \A j \in DOMAIN gate : j < i => ~gate[j][1]
    <3>. SUFFICES ASSUME NEW j \in DOMAIN gate, j < i, gate[j][1] PROVE FALSE
      OBVIOUS
    <3>1. i <= j
      BY <2>3 DEF i
    <3>. QED
      BY <2>4, <3>1
  <2>. QED
    BY <2>4, <2>5
<1>. QED
  BY <1>1, <1>2

\* A gate whose verdict is "ok" refuses nothing, when no check has that code; and its
\* verdict is otherwise the code of one of its checks.
LEMMA OkPasses ==
    ASSUME NEW gate, DOMAIN gate \in SUBSET Nat, Verdict(gate) = "ok",
           \A i \in DOMAIN gate : gate[i][2] # "ok"
    PROVE  \A i \in DOMAIN gate : ~gate[i][1]
  BY VerdictDecides

\* What `parse` lets pass.
LEMMA ValidateLets ==
    ASSUME NEW m \in CompositionManifest, Verdict(ValidateGate(m)) = "ok"
    PROVE  /\ ~IsBlank(m.name)
           /\ m.near \notin {"empty", "ordinal"} /\ m.far \notin {"empty", "ordinal"}
           /\ m.action.known /\ m.action.command /\ m.action.declared
           /\ ~IsEmptyRoot(m.action.root)
<1>. DEFINE g == ValidateGate(m)
            C1 == IsBlank(m.name)
            C2 == m.near = "empty"
            C3 == m.near = "ordinal"
            C4 == m.far = "empty"
            C5 == m.far = "ordinal"
            C6 == ~m.action.known \/ ~m.action.command
            C7 == ~m.action.declared
            C8 == IsEmptyRoot(m.action.root)
<1>1. /\ C1 \in BOOLEAN /\ C2 \in BOOLEAN /\ C3 \in BOOLEAN /\ C4 \in BOOLEAN
      /\ C5 \in BOOLEAN /\ C6 \in BOOLEAN /\ C7 \in BOOLEAN /\ C8 \in BOOLEAN
  BY DEF IsBlank, IsEmptyRoot
<1>. HIDE DEF C1, C2, C3, C4, C5, C6, C7, C8
<1>2. /\ DOMAIN g = 1 .. 8
      /\ g[1] = <<C1, "metadata_name">> /\ g[2] = <<C2, "gpu_selector_empty">>
      /\ g[3] = <<C3, "gpu_selector_invalid">> /\ g[4] = <<C4, "gpu_selector_empty">>
      /\ g[5] = <<C5, "gpu_selector_invalid">> /\ g[6] = <<C6, "action_invalid">>
      /\ g[7] = <<C7, "action_output_root_missing">>
      /\ g[8] = <<C8, "action_output_root_empty">>
  BY DEF ValidateGate, NameGate, SelectorGate, ActionGate, Refuse, C1, C2, C3, C4, C5, C6, C7, C8
<1>3. \A i \in 1 .. 8 : g[i][2] # "ok"
  BY <1>2
<1>4. Verdict(g) = "ok"
  OBVIOUS
<1>. HIDE DEF g
<1>5. \A i \in 1 .. 8 : ~g[i][1]
  BY <1>2, <1>3, <1>4, OkPasses
<1>6. ~C1 /\ ~C2 /\ ~C3 /\ ~C4 /\ ~C5 /\ ~C6 /\ ~C7 /\ ~C8
  BY <1>1, <1>2, <1>5
<1>. QED
  BY <1>6 DEF C1, C2, C3, C4, C5, C6, C7, C8

\* What `apply` lets pass before it creates anything.
LEMMA ApplyLets ==
    ASSUME NEW m \in CompositionManifest, Verdict(ApplyGate(m)) = "ok"
    PROVE  /\ m.runtime = "podman"
           /\ \A i \in DOMAIN m.providers :
                 m.providers[i].status = "available" \/ Lifecycle(m.providers[i])
           /\ ~(LifecycleAvailable(m) /\ m.healthCheck)
           /\ ~m.artifacts /\ ~m.removeVolumes /\ ~ForeignVendor(m)
<1>. DEFINE g == ApplyGate(m)
            C1 == m.runtime = "nvms"
            C2 == m.runtime = "placeholder"
            C3 == \E i \in DOMAIN m.providers :
                      ~Lifecycle(m.providers[i]) /\ m.providers[i].status # "available"
            C4 == LifecycleAvailable(m) /\ m.healthCheck
            C5 == m.artifacts
            C6 == m.removeVolumes
            C7 == ForeignVendor(m)
<1>1. /\ C1 \in BOOLEAN /\ C2 \in BOOLEAN /\ C3 \in BOOLEAN /\ C4 \in BOOLEAN
      /\ C5 \in BOOLEAN /\ C6 \in BOOLEAN /\ C7 \in BOOLEAN
  BY DEF CompositionManifest, ForeignVendor
<1>2. g = << <<C1, "nvms_persistence_unsupported">>, <<C2, "runtime_provider_placeholder">>,
             <<C3, "provider_unavailable">>, <<C4, "health_check_unsupported">>,
             <<C5, "artifact_publication_unsupported">>, <<C6, "volume_teardown_unsupported">>,
             <<C7, "gpu_vendor_unsupported">> >>
  BY DEF ApplyGate, Refuse
<1>. HIDE DEF C1, C2, C3, C4, C5, C6, C7
<1>4. Verdict(g) = "ok"
  OBVIOUS
<1>. HIDE DEF g
<1>3. DOMAIN g = 1 .. 7 /\ \A i \in 1 .. 7 : g[i][2] # "ok"
  BY <1>2
<1>5. \A i \in 1 .. 7 : ~g[i][1]
  BY <1>3, <1>4, OkPasses
<1>6. ~C1 /\ ~C2 /\ ~C3 /\ ~C4 /\ ~C5 /\ ~C6 /\ ~C7
  BY <1>1, <1>2, <1>5
<1>7. m.runtime \in {"podman", "nvms", "placeholder"}
  BY DEF CompositionManifest
<1>. QED
  BY <1>6, <1>7 DEF C1, C2, C3, C4, C5, C6, C7

\* The lifecycle gate passes when the first declaration of the capability says that it
\* is available.
LEMMA LifecycleLets ==
    ASSUME NEW m \in CompositionManifest, Verdict(LifecycleGate(m)) = "ok"
    PROVE  \E i \in DOMAIN m.providers :
              /\ Lifecycle(m.providers[i])
              /\ m.providers[i].status = "available"
              /\ \A j \in 1 .. (i - 1) : ~Lifecycle(m.providers[j])
<1>. DEFINE g == LifecycleGate(m)
            declared == {i \in DOMAIN m.providers : Lifecycle(m.providers[i])}
            d == Min(declared)
            C1 == declared = {}
            C2 == declared # {} /\ m.providers[d].status = "placeholder"
            C3 == declared # {} /\ m.providers[d].status = "unsupported"
<1>1. C1 \in BOOLEAN /\ C2 \in BOOLEAN /\ C3 \in BOOLEAN
  OBVIOUS
<1>2. g = << <<C1, "service_lifecycle_undeclared">>, <<C2, "service_lifecycle_placeholder">>,
             <<C3, "service_lifecycle_unsupported">> >>
  BY DEF LifecycleGate, Refuse
<1>. HIDE DEF C1, C2, C3
<1>3. \A i \in 1 .. 3 : g[i][2] # "ok"
  <2>. HIDE DEF g
  <2>. QED
    BY <1>2
<1>4. Verdict(g) = "ok"
  OBVIOUS
<1>. HIDE DEF g
<1>5. DOMAIN g = 1 .. 3
  BY <1>2
<1>6. \A i \in 1 .. 3 : ~g[i][1]
  BY <1>3, <1>4, <1>5, OkPasses
<1>7. ~C1 /\ ~C2 /\ ~C3
  BY <1>1, <1>2, <1>6
<1>8. m.providers \in Seq(ProviderDeclaration)
  BY DEF CompositionManifest
<1>9. declared \in SUBSET Nat /\ declared # {}
  BY <1>7, <1>8 DEF C1
<1>10. d \in declared /\ \A k \in declared : d <= k
  <2>. HIDE DEF declared
  <2>. QED
    BY <1>9, MinIsLeast
<1>11. m.providers[d].status # "placeholder" /\ m.providers[d].status # "unsupported"
  BY <1>7, <1>9 DEF C2, C3
<1>. HIDE DEF d
<1>12. m.providers[d] \in ProviderDeclaration
  BY <1>8, <1>10
<1>13. m.providers[d].status = "available"
  BY <1>11, <1>12 DEF ProviderDeclaration
<1>14. \A j \in 1 .. (d - 1) : ~Lifecycle(m.providers[j])
  <2>. SUFFICES ASSUME NEW j \in 1 .. (d - 1), Lifecycle(m.providers[j]) PROVE FALSE
    OBVIOUS
  <2>1. d \in 1 .. Len(m.providers) /\ DOMAIN m.providers = 1 .. Len(m.providers)
        /\ Len(m.providers) \in Nat
    BY <1>8, <1>10
  <2>2. j \in declared
    BY <2>1
  <2>3. d <= j
    BY <1>10, <2>2
  <2>. QED
    BY <2>1, <2>3
<1>. QED
  BY <1>10, <1>13, <1>14

\* What `run-action`, `status` and `down` refuse a created run for, first of all.
LEMMA RouteRefuses ==
    ASSUME NEW m \in CompositionManifest, Verdict(RouteGate(m)) # "ok", m.runtime = "podman"
    PROVE  \/ Verdict(RouteGate(m)) = "run_id_invalid" /\ ~Addressable(m)
           \/ Verdict(RouteGate(m)) = "action_route_rejected" /\ ~m.compatibility
<1>. DEFINE g == RouteGate(m)
            C1 == ~Addressable(m)
            C2 == m.runtime # "podman" \/ ~m.compatibility
<1>1. C1 \in BOOLEAN /\ C2 \in BOOLEAN
  OBVIOUS
<1>2. g = << <<C1, "run_id_invalid">>, <<C2, "action_route_rejected">> >>
  BY DEF RouteGate, Refuse
<1>. HIDE DEF C1, C2
<1>3. Verdict(g) # "ok"
  OBVIOUS
<1>. HIDE DEF g
<1>4. DOMAIN g = 1 .. 2
  BY <1>2
<1>5. PICK i \in 1 .. 2 : g[i][1] /\ Verdict(g) = g[i][2]
  BY <1>3, <1>4, VerdictDecides
<1>6. \/ C1 /\ Verdict(g) = "run_id_invalid"
      \/ C2 /\ Verdict(g) = "action_route_rejected"
  BY <1>1, <1>2, <1>5
<1>. QED
  BY <1>6 DEF C1, C2, g

\* What `run-action` refuses to bind, of a run that was validated and created.
LEMMA BindingRefuses ==
    ASSUME NEW m \in CompositionManifest, Verdict(BindingGate(m)) # "ok",
           m.near \in {"none", "nvidia"}
    PROVE  \/ Verdict(BindingGate(m)) = "toolkit_missing" /\ ~m.cuda
           \/ Verdict(BindingGate(m)) = "gpu_binding_missing" /\ m.near = "none"
<1>. DEFINE g == BindingGate(m)
            C1 == m.near = "amd"
            C2 == m.near # "none" /\ ~m.cuda
            C3 == m.near = "ordinal"
            C4 == m.near \in {"none", "empty"}
<1>1. C1 \in BOOLEAN /\ C2 \in BOOLEAN /\ C3 \in BOOLEAN /\ C4 \in BOOLEAN
  OBVIOUS
<1>2. g = << <<C1, "gpu_vendor_unsupported">>, <<C2, "toolkit_missing">>,
             <<C3, "gpu_selector_invalid">>, <<C4, "gpu_binding_missing">> >>
  BY DEF BindingGate, Refuse
<1>3. ~C1 /\ ~C3
  OBVIOUS
<1>. HIDE DEF C1, C2, C3, C4
<1>4. Verdict(g) # "ok"
  OBVIOUS
<1>. HIDE DEF g
<1>5. DOMAIN g = 1 .. 4
  BY <1>2
<1>6. PICK i \in 1 .. 4 : g[i][1] /\ Verdict(g) = g[i][2]
  BY <1>4, <1>5, VerdictDecides
<1>7. \/ C2 /\ Verdict(g) = "toolkit_missing"
      \/ C4 /\ Verdict(g) = "gpu_binding_missing"
  BY <1>1, <1>2, <1>3, <1>6
<1>. QED
  BY <1>7 DEF C2, C4, g

\* The checks of the request, one by one; a path is judged by what it resolves to.
LEMMA RequestGateIs ==
    ASSUME NEW m
    PROVE  LET g == RequestGate(m)
               root == m.action.root
               resolved == ResolveOutputRoot(Base, root, windows)
           IN  /\ DOMAIN g = 1 .. 6
               /\ g[1] = <<~m.action.command, "action_command_empty">>
               /\ g[2] = <<~m.action.declared, "action_output_root_missing">>
               /\ g[3] = <<IsEmptyRoot(root), "action_output_root_empty">>
               /\ g[4] = <<Ambiguous(root, windows), "action_output_root_ambiguous">>
               /\ g[5] = <<\E i \in DOMAIN resolved.parts : resolved.parts[i] = "parent",
                           "action_output_root_traversal">>
               /\ g[6] = <<~IsAbsolute(resolved, windows), "action_output_root_ambiguous">>
<1>. DEFINE g == RequestGate(m)
            root == m.action.root
            resolved == ResolveOutputRoot(Base, root, windows)
            D1 == <<~m.action.command, "action_command_empty">>
            D2 == <<~m.action.declared, "action_output_root_missing">>
            D3 == <<IsEmptyRoot(root), "action_output_root_empty">>
            D4 == <<Ambiguous(root, windows), "action_output_root_ambiguous">>
            D5 == <<\E i \in DOMAIN resolved.parts : resolved.parts[i] = "parent",
                    "action_output_root_traversal">>
            D6 == <<~IsAbsolute(resolved, windows), "action_output_root_ambiguous">>
<1>1. g = <<D1, D2>> \o <<D3, D4, D5, D6>>
  BY DEF RequestGate, OutputRootGate, Refuse
<1>. HIDE DEF g, D1, D2, D3, D4, D5, D6
<1>2. /\ DOMAIN g = 1 .. 6
      /\ g[1] = D1 /\ g[2] = D2 /\ g[3] = D3 /\ g[4] = D4 /\ g[5] = D5 /\ g[6] = D6
  BY <1>1
<1>. QED
  BY <1>2 DEF g, D1, D2, D3, D4, D5, D6

\* A request that is built has an output root that resolves to an absolute path
\* without "..", and is not ambiguous.
LEMMA RequestLets ==
    ASSUME NEW m, Verdict(RequestGate(m)) = "ok"
    PROVE  LET root == m.action.root
               resolved == ResolveOutputRoot(Base, root, windows)
           IN  /\ ~Ambiguous(root, windows)
               /\ \A i \in DOMAIN resolved.parts : resolved.parts[i] # "parent"
               /\ IsAbsolute(resolved, windows)
<1>. DEFINE g == RequestGate(m)
            root == m.action.root
            resolved == ResolveOutputRoot(Base, root, windows)
            C1 == ~m.action.command
            C2 == ~m.action.declared
            C3 == IsEmptyRoot(root)
            C4 == Ambiguous(root, windows)
            C5 == \E i \in DOMAIN resolved.parts : resolved.parts[i] = "parent"
            C6 == ~IsAbsolute(resolved, windows)
<1>1. C4 \in BOOLEAN /\ C5 \in BOOLEAN /\ C6 \in BOOLEAN
  BY DEF Ambiguous
<1>2. /\ DOMAIN g = 1 .. 6
      /\ g[1] = <<C1, "action_command_empty">> /\ g[2] = <<C2, "action_output_root_missing">>
      /\ g[3] = <<C3, "action_output_root_empty">>
      /\ g[4] = <<C4, "action_output_root_ambiguous">>
      /\ g[5] = <<C5, "action_output_root_traversal">>
      /\ g[6] = <<C6, "action_output_root_ambiguous">>
  BY RequestGateIs
<1>. HIDE DEF C1, C2, C3, C4, C5, C6
<1>3. Verdict(g) = "ok"
  OBVIOUS
<1>. HIDE DEF g
<1>4. DOMAIN g = 1 .. 6 /\ \A i \in 1 .. 6 : g[i][2] # "ok"
  BY <1>2
<1>5. \A i \in 1 .. 6 : ~g[i][1]
  BY <1>3, <1>4, OkPasses
<1>6. ~C4 /\ ~C5 /\ ~C6
  BY <1>1, <1>2, <1>5
<1>. QED
  BY <1>6 DEF C4, C5, C6

\* What building the request refuses, of an action that was validated: its output root.
LEMMA RequestRefuses ==
    ASSUME NEW m \in CompositionManifest, Verdict(RequestGate(m)) # "ok",
           m.action.command, m.action.declared, ~IsEmptyRoot(m.action.root)
    PROVE  Verdict(RequestGate(m)) \in
             {"action_output_root_ambiguous", "action_output_root_traversal"}
<1>. DEFINE g == RequestGate(m)
            root == m.action.root
            resolved == ResolveOutputRoot(Base, root, windows)
            C1 == ~m.action.command
            C2 == ~m.action.declared
            C3 == IsEmptyRoot(root)
            C4 == Ambiguous(root, windows)
            C5 == \E i \in DOMAIN resolved.parts : resolved.parts[i] = "parent"
            C6 == ~IsAbsolute(resolved, windows)
<1>1. C1 = FALSE /\ C2 = FALSE /\ C3 = FALSE
  BY DEF IsEmptyRoot
<1>2. /\ DOMAIN g = 1 .. 6
      /\ g[1] = <<C1, "action_command_empty">> /\ g[2] = <<C2, "action_output_root_missing">>
      /\ g[3] = <<C3, "action_output_root_empty">>
      /\ g[4] = <<C4, "action_output_root_ambiguous">>
      /\ g[5] = <<C5, "action_output_root_traversal">>
      /\ g[6] = <<C6, "action_output_root_ambiguous">>
  BY RequestGateIs
<1>. HIDE DEF C1, C2, C3, C4, C5, C6
<1>3. Verdict(g) # "ok"
  OBVIOUS
<1>. HIDE DEF g
<1>4. DOMAIN g = 1 .. 6
  BY <1>2
<1>5. PICK i \in 1 .. 6 : g[i][1] /\ Verdict(g) = g[i][2]
  BY <1>3, <1>4, VerdictDecides
<1>6. i \notin {1, 2, 3}
  BY <1>1, <1>2, <1>5
<1>7. i \in {4, 5, 6}
  BY <1>6
<1>8. Verdict(g) \in {"action_output_root_ambiguous", "action_output_root_traversal"}
  BY <1>2, <1>5, <1>7
<1>. QED
  BY <1>8 DEF g

\* A run id is one of a slug's characters, as long as the name and the digest make it,
\* so that only its first character and its length can be wrong.
LEMMA UnaddressableIs ==
    ASSUME NEW m \in CompositionManifest, ~IsBlank(m.name), ~Addressable(m)
    PROVE  ~IsAlnum(m.name[1]) \/ Len(m.name) + 1 + HashLen > MaxSlug
<1>. DEFINE name == m.name
            kept == {"lower", "digit", "dash"}
            clean == SanitizeName(name)
            hash == [i \in 1 .. HashLen |-> "digit"]
            id == RunId(name, HashLen)
<1>1. HashLen \in Nat /\ MaxSlug \in Nat
  BY AdmissionAssumption
<1>2. name \in Seq(CharClasses)
  BY DEF CompositionManifest
<1>3. Len(name) \in Nat \ {0} /\ DOMAIN name = 1 .. Len(name)
  BY <1>2 DEF IsBlank
<1>. HIDE DEF name
<1>4. clean = [i \in 1 .. Len(name) |->
                 CASE name[i] = "upper" -> "lower"
                   [] name[i] \in {"lower", "digit", "dash"} -> name[i]
                   [] OTHER -> "dash"]
  BY <1>3 DEF SanitizeName
<1>. HIDE DEF clean
<1>5. \A i \in 1 .. Len(name) : clean[i] \in kept
  BY <1>4
<1>6. clean \in Seq(kept) /\ Len(clean) = Len(name)
  BY <1>3, <1>4, <1>5
<1>7. hash \in Seq(kept) /\ Len(hash) = HashLen
  BY <1>1
<1>8. IsAlnum(name[1]) => IsAlnum(clean[1])
  BY <1>3, <1>4 DEF IsAlnum
<1>9. id = clean \o <<"dash">> \o hash
  BY DEF RunId, clean
<1>. HIDE DEF hash, id
<1>. DEFINE front == clean \o <<"dash">>
<1>10. front \in Seq(kept) /\ Len(front) = Len(name) + 1 /\ front[1] = clean[1]
  BY <1>3, <1>6
<1>. HIDE DEF front
<1>11. id \in Seq(kept) /\ Len(id) = Len(name) + 1 + HashLen /\ id[1] = clean[1]
  <2>1. id = front \o hash
    BY <1>9 DEF front
  <2>. HIDE DEF kept
  <2>2. id \in Seq(kept) /\ Len(id) = Len(front) + Len(hash)
    BY <1>7, <1>10, <2>1, ConcatIs
  <2>3. id[1] = front[1]
    BY <1>3, <1>7, <1>10, <2>1
  <2>. QED
    BY <1>7, <1>10, <2>2, <2>3
<1>12. \A i \in DOMAIN id : IsAlnum(id[i]) \/ id[i] \in {"dash", "underscore"}
  BY <1>11 DEF IsAlnum
<1>13. id # <<>>
  BY <1>1, <1>3, <1>11
<1>14. ~ValidSlug(id, MaxSlug)
  BY DEF Addressable, id, name
<1>15. ~IsAlnum(clean[1]) \/ Len(name) + 1 + HashLen > MaxSlug
  BY <1>1, <1>3, <1>11, <1>12, <1>13, <1>14 DEF ValidSlug
<1>. QED
  BY <1>8, <1>15 DEF name

-----------------------------------------------------------------------------
(* The admission. *)

\* The gates a manifest has passed follow from the stage it has reached, and a refusal
\* is that of the gate it stands before.
Reached(m) ==
    /\ stage # "submitted" => Verdict(ValidateGate(m)) = "ok"
    /\ stage \notin {"submitted", "parsed"} => Verdict(ApplyGate(m)) = "ok"
    /\ Persisted => Verdict(LifecycleGate(m)) = "ok"
    /\ stage \in {"routed", "bound", "requested"} => Verdict(RouteGate(m)) = "ok"
    /\ stage \in {"bound", "requested"} => Verdict(BindingGate(m)) = "ok"
    /\ stage = "requested" => Verdict(RequestGate(m)) = "ok"

RefusedBy(m) ==
    /\ stage = "persisted" /\ verdict # "ok" => verdict = Verdict(RouteGate(m))
    /\ stage = "routed" /\ verdict # "ok" => verdict = Verdict(BindingGate(m))
    /\ stage = "bound" /\ verdict # "ok" => verdict = Verdict(RequestGate(m))
    /\ stage = "requested" => verdict = "ok"

Stages == {"submitted", "parsed", "admitted", "persisted", "routed", "bound", "requested"}

AdmissionTypeOK == manifest \in Submitted /\ windows \in BOOLEAN /\ stage \in Stages

AdmissionInv == AdmissionTypeOK /\ Reached(manifest) /\ RefusedBy(manifest)

\* A step of one gate keeps the invariant.
LEMMA AdmissionStepKeeps == AdmissionInv /\ [AdmissionStep]_admissionVars => AdmissionInv'
<1>. SUFFICES ASSUME AdmissionInv, [AdmissionStep]_admissionVars PROVE AdmissionInv'
  OBVIOUS
<1>. DEFINE V == Verdict(ValidateGate(manifest))
            A == Verdict(ApplyGate(manifest))
            L == Verdict(LifecycleGate(manifest))
            R == Verdict(RouteGate(manifest))
            B == Verdict(BindingGate(manifest))
            Q == Verdict(RequestGate(manifest))
<1>1. manifest' = manifest /\ windows' = windows
  BY DEF AdmissionStep, Parse, EnsureApplyCapabilities, EnsureServiceLifecycle,
         EnsureActionRoute, BindGpus, BuildRequest, Pass, admissionVars
<1>2. AdmissionTypeOK /\ Reached(manifest) /\ RefusedBy(manifest)
  BY DEF AdmissionInv
<1>3. V' = V /\ A' = A /\ L' = L /\ R' = R /\ B' = B
  BY <1>1
<1>4. Q' = Q
  BY <1>1 DEF RequestGate, Base
<1>5. \/ stage' = stage /\ verdict' = verdict
      \/ /\ verdict = "ok" /\ stage = "submitted" /\ verdict' = V
         /\ stage' = IF V = "ok" THEN "parsed" ELSE stage
      \/ /\ verdict = "ok" /\ stage = "parsed" /\ verdict' = A
         /\ stage' = IF A = "ok" THEN "admitted" ELSE stage
      \/ /\ verdict = "ok" /\ stage = "admitted" /\ verdict' = L
         /\ stage' = IF L = "ok" THEN "persisted" ELSE stage
      \/ /\ verdict = "ok" /\ stage = "persisted" /\ verdict' = R
         /\ stage' = IF R = "ok" THEN "routed" ELSE stage
      \/ /\ verdict = "ok" /\ stage = "routed" /\ verdict' = B
         /\ stage' = IF B = "ok" THEN "bound" ELSE stage
      \/ /\ verdict = "ok" /\ stage = "bound" /\ verdict' = Q
         /\ stage' = IF Q = "ok" THEN "requested" ELSE stage
  BY DEF AdmissionStep, Parse, EnsureApplyCapabilities, EnsureServiceLifecycle,
         EnsureActionRoute, BindGpus, BuildRequest, Pass, admissionVars
<1>. HIDE DEF V, A, L, R, B, Q
<1>6. /\ stage # "submitted" => V = "ok"
      /\ stage \notin {"submitted", "parsed"} => A = "ok"
      /\ stage \in {"persisted", "routed", "bound", "requested"} => L = "ok"
      /\ stage \in {"routed", "bound", "requested"} => R = "ok"
      /\ stage \in {"bound", "requested"} => B = "ok"
      /\ stage = "requested" => Q = "ok" /\ verdict = "ok"
      /\ stage = "persisted" /\ verdict # "ok" => verdict = R
      /\ stage = "routed" /\ verdict # "ok" => verdict = B
      /\ stage = "bound" /\ verdict # "ok" => verdict = Q
  BY <1>2 DEF Reached, RefusedBy, Persisted, V, A, L, R, B, Q
<1>7. stage \in Stages
  BY <1>2 DEF AdmissionTypeOK
<1>8. /\ stage' \in Stages
      /\ stage' # "submitted" => V = "ok"
      /\ stage' \notin {"submitted", "parsed"} => A = "ok"
      /\ stage' \in {"persisted", "routed", "bound", "requested"} => L = "ok"
      /\ stage' \in {"routed", "bound", "requested"} => R = "ok"
      /\ stage' \in {"bound", "requested"} => B = "ok"
      /\ stage' = "requested" => Q = "ok" /\ verdict' = "ok"
      /\ stage' = "persisted" /\ verdict' # "ok" => verdict' = R
      /\ stage' = "routed" /\ verdict' # "ok" => verdict' = B
      /\ stage' = "bound" /\ verdict' # "ok" => verdict' = Q
  BY <1>5, <1>6, <1>7 DEF Stages
<1>9. AdmissionTypeOK'
  BY <1>1, <1>2, <1>8 DEF AdmissionTypeOK
<1>10. Reached(manifest)'
  BY <1>3, <1>4, <1>8 DEF Reached, Persisted, V, A, L, R, B, Q
<1>11. RefusedBy(manifest)'
  BY <1>3, <1>4, <1>8 DEF RefusedBy, R, B, Q
<1>. QED
  BY <1>9, <1>10, <1>11 DEF AdmissionInv

\* The stage a manifest has reached says which gates it has passed (phenocompose-cli:
\* validate, apply, run-action).
THEOREM AdmissionInvAlways == AdmissionSpec => []AdmissionInv
<1>1. AdmissionInit => AdmissionInv
  BY AdmissionAssumption
     DEF AdmissionInit, AdmissionInv, AdmissionTypeOK, Stages, Reached, RefusedBy, Persisted
<1>. QED
  BY <1>1, AdmissionStepKeeps, PTL DEF AdmissionSpec

\* What apply goes on to create is something it can create (lib.rs:979-1049,
\* service_graph.rs:109-137), for every set of submitted manifests.
THEOREM AdmittedIsSupportedAlways == AdmissionSpec => []AdmittedIsSupported
<1>1. AdmissionInv => AdmittedIsSupported
  <2>. SUFFICES ASSUME AdmissionInv, Persisted PROVE AdmittedIsSupported
    BY DEF AdmittedIsSupported
  <2>. DEFINE m == manifest
  <2>1. m \in CompositionManifest
    BY AdmissionAssumption DEF AdmissionInv, AdmissionTypeOK
  <2>2. Verdict(ValidateGate(m)) = "ok" /\ Verdict(ApplyGate(m)) = "ok"
        /\ Verdict(LifecycleGate(m)) = "ok"
    BY DEF AdmissionInv, Reached, Persisted
  <2>. HIDE DEF m
  <2>3. /\ m.runtime = "podman"
        /\ \A i \in DOMAIN m.providers :
              m.providers[i].status = "available" \/ Lifecycle(m.providers[i])
        /\ ~(LifecycleAvailable(m) /\ m.healthCheck)
        /\ ~m.artifacts /\ ~m.removeVolumes /\ ~ForeignVendor(m)
    BY <2>1, <2>2, ApplyLets
  <2>4. \E i \in DOMAIN m.providers :
           /\ Lifecycle(m.providers[i]) /\ m.providers[i].status = "available"
           /\ \A j \in 1 .. (i - 1) : ~Lifecycle(m.providers[j])
    BY <2>1, <2>2, LifecycleLets
  <2>5. ~m.healthCheck
    BY <2>3, <2>4 DEF LifecycleAvailable
  <2>6. Gpus(m) \subseteq {"none", "nvidia"}
    <3>1. m.near \notin {"empty", "ordinal"} /\ m.far \notin {"empty", "ordinal"}
      BY <2>1, <2>2, ValidateLets
    <3>2. m.near \in GpuRequirements /\ m.far \in GpuRequirements
      BY <2>1 DEF CompositionManifest
    <3>. QED
      BY <2>3, <3>1, <3>2 DEF ForeignVendor, Gpus, GpuRequirements
  <2>. QED
    BY <2>3, <2>4, <2>5, <2>6 DEF AdmittedIsSupported, m
<1>. QED
  BY <1>1, AdmissionInvAlways, PTL

\* A created run is refused later only for what apply does not look at
\* (lib.rs:249-255, :422-466, :623-638), whatever the manifests and the limits are.
THEOREM LateRefusalIsExplainedAlways == AdmissionSpec => []LateRefusalIsExplained
<1>1. AdmissionInv => LateRefusalIsExplained
  <2>. SUFFICES ASSUME AdmissionInv, Persisted, verdict # "ok" PROVE LateRefusalIsExplained
    BY DEF LateRefusalIsExplained
  <2>. DEFINE m == manifest
  <2>1. m \in CompositionManifest
    BY AdmissionAssumption DEF AdmissionInv, AdmissionTypeOK
  <2>2. Verdict(ValidateGate(m)) = "ok" /\ Verdict(ApplyGate(m)) = "ok"
    BY DEF AdmissionInv, Reached, Persisted
  <2>3. \/ stage = "persisted" /\ verdict = Verdict(RouteGate(m))
        \/ stage = "routed" /\ verdict = Verdict(BindingGate(m))
        \/ stage = "bound" /\ verdict = Verdict(RequestGate(m))
    BY DEF AdmissionInv, RefusedBy, Persisted
  <2>. HIDE DEF m
  <2>4. /\ ~IsBlank(m.name) /\ m.near \notin {"empty", "ordinal"}
        /\ m.action.command /\ m.action.declared /\ ~IsEmptyRoot(m.action.root)
    BY <2>1, <2>2, ValidateLets
  <2>5. m.runtime = "podman" /\ ~ForeignVendor(m)
    BY <2>1, <2>2, ApplyLets
  <2>6. m.near \in {"none", "nvidia"}
    <3>1. m.near \in GpuRequirements
      BY <2>1 DEF CompositionManifest
    <3>. QED
      BY <2>4, <2>5, <3>1 DEF GpuRequirements, ForeignVendor, Gpus
  <2>7. CASE stage = "persisted" /\ verdict = Verdict(RouteGate(m))
    <3>1. \/ verdict = "run_id_invalid" /\ ~Addressable(m)
          \/ verdict = "action_route_rejected" /\ ~m.compatibility
      BY <2>1, <2>5, <2>7, RouteRefuses
    <3>2. ~Addressable(m) => \/ ~IsAlnum(m.name[1])
                             \/ Len(m.name) + 1 + HashLen > MaxSlug
      BY <2>1, <2>4, UnaddressableIs
    <3>. QED
      BY <3>1, <3>2 DEF LateRefusalIsExplained, m
  <2>8. CASE stage = "routed" /\ verdict = Verdict(BindingGate(m))
    <3>1. \/ verdict = "toolkit_missing" /\ ~m.cuda
          \/ verdict = "gpu_binding_missing" /\ m.near = "none"
      BY <2>1, <2>6, <2>8, BindingRefuses
    <3>. QED
      BY <3>1 DEF LateRefusalIsExplained, m
  <2>9. CASE stage = "bound" /\ verdict = Verdict(RequestGate(m))
    <3>1. verdict \in {"action_output_root_ambiguous", "action_output_root_traversal"}
      BY <2>1, <2>4, <2>9, RequestRefuses
    <3>. QED
      BY <3>1 DEF LateRefusalIsExplained
  <2>. QED
    BY <2>3, <2>7, <2>8, <2>9
<1>. QED
  BY <1>1, AdmissionInvAlways, PTL

-----------------------------------------------------------------------------
(* Paths. *)

Kinds == {"normal", "cur", "parent"}

\* What normalizing pushes of the first n components, over all n.
Pushes(f, parts) ==
    f = [n \in 0 .. Len(parts) |->
            IF n = 0 THEN <<>>
            ELSE IF parts[n] = "cur" THEN f[n - 1]
            ELSE Append(f[n - 1], parts[n])]

Pushed(parts, n) == {f \in [0 .. n -> Seq(Kinds)] :
    /\ f[0] = <<>>
    /\ \A k \in 1 .. n : f[k] = IF parts[k] = "cur" THEN f[k - 1] ELSE Append(f[k - 1], parts[k])}

\* The recursion is well defined: there is a function that satisfies it.
LEMMA PushedExists ==
    ASSUME NEW parts \in Seq(Kinds)
    PROVE  \E f : Pushes(f, parts)
<1>. DEFINE len == Len(parts)
            T == {n \in 0 .. len : Pushed(parts, n) # {}}
<1>1. len \in Nat
  OBVIOUS
<1>. HIDE DEF len
<1>2. 0 \in T
  <2>. DEFINE f == [n \in 0 .. 0 |-> <<>>]
  <2>1. f \in [0 .. 0 -> Seq(Kinds)] /\ f[0] = <<>>
    OBVIOUS
  <2>2. f \in Pushed(parts, 0)
    BY <2>1 DEF Pushed
  <2>. QED
    BY <1>1, <2>2
<1>3. ASSUME NEW k \in 0 .. len, k \in T, k < len PROVE k + 1 \in T
  <2>1. PICK f : f \in Pushed(parts, k)
    BY <1>3
  <2>2. /\ f \in [0 .. k -> Seq(Kinds)] /\ f[0] = <<>>
        /\ \A j \in 1 .. k : f[j] = IF parts[j] = "cur" THEN f[j - 1]
                                    ELSE Append(f[j - 1], parts[j])
    BY <2>1 DEF Pushed
  <2>. DEFINE next == IF parts[k + 1] = "cur" THEN f[k] ELSE Append(f[k], parts[k + 1])
              g == [j \in 0 .. (k + 1) |-> IF j = k + 1 THEN next ELSE f[j]]
  <2>3. k \in Nat /\ k + 1 \in 1 .. len
    BY <1>1, <1>3
  <2>4. parts[k + 1] \in Kinds
    BY <2>3 DEF len
  <2>5. f[k] \in Seq(Kinds)
    BY <2>2, <2>3
  <2>6. next \in Seq(Kinds)
    BY <2>4, <2>5
  <2>. HIDE DEF next
  <2>7. g \in [0 .. (k + 1) -> Seq(Kinds)]
    BY <2>2, <2>3, <2>6
  <2>8. g[0] = <<>> /\ g[k + 1] = next /\ \A j \in 0 .. k : g[j] = f[j]
    BY <2>2, <2>3
  <2>. HIDE DEF g
  <2>9. ASSUME NEW j \in 1 .. (k + 1)
        PROVE  g[j] = IF parts[j] = "cur" THEN g[j - 1] ELSE Append(g[j - 1], parts[j])
    <3>1. CASE j = k + 1
      <4>1. j - 1 = k /\ g[j - 1] = f[k]
        BY <2>3, <2>8, <3>1
      <4>. QED
        BY <2>8, <3>1, <4>1 DEF next
    <3>2. CASE j # k + 1
      <4>1. j \in 1 .. k /\ j - 1 \in 0 .. k /\ j \in 0 .. k
        BY <2>3, <3>2
      <4>. QED
        BY <2>2, <2>8, <4>1
    <3>. QED
      BY <3>1, <3>2
  <2>10. g \in Pushed(parts, k + 1)
    BY <2>7, <2>8, <2>9 DEF Pushed
  <2>. QED
    BY <2>3, <2>10
<1>4. \A k \in 0 .. len : k \in T
  <2>. HIDE DEF T
  <2>. QED
    BY <1>1, <1>2, <1>3, UpTo
<1>5. PICK f : f \in Pushed(parts, len)
  BY <1>1, <1>4
<1>6. /\ f \in [0 .. len -> Seq(Kinds)] /\ f[0] = <<>>
      /\ \A j \in 1 .. len : f[j] = IF parts[j] = "cur" THEN f[j - 1]
                                    ELSE Append(f[j - 1], parts[j])
  BY <1>5 DEF Pushed
<1>7. f = [n \in 0 .. len |-> f[n]]
  BY <1>6
<1>8. \A n \in 0 .. len : f[n] = IF n = 0 THEN <<>>
                                 ELSE IF parts[n] = "cur" THEN f[n - 1]
                                 ELSE Append(f[n - 1], parts[n])
  <2>. TAKE n \in 0 .. len
  <2>1. CASE n = 0
    BY <1>6, <2>1
  <2>2. CASE n # 0
    <3>1. n \in 1 .. len
      BY <1>1, <2>2
    <3>. QED
      BY <1>6, <2>2, <3>1
  <2>. QED
    BY <2>1, <2>2
<1>9. f = [n \in 0 .. len |-> IF n = 0 THEN <<>>
                              ELSE IF parts[n] = "cur" THEN f[n - 1]
                              ELSE Append(f[n - 1], parts[n])]
  BY <1>7, <1>8
<1>. QED
  BY <1>9 DEF Pushes, len

\* What is pushed has no ".", and begins as the components begin, when they begin with a
\* normal one.
LEMMA PushedIs ==
    ASSUME NEW parts \in Seq(Kinds), NEW f, Pushes(f, parts)
    PROVE  LET pushed == f[Len(parts)]
           IN  /\ pushed \in Seq(Kinds \ {"cur"})
               /\ parts # <<>> /\ parts[1] = "normal" => pushed # <<>> /\ pushed[1] = "normal"
<1>. DEFINE len == Len(parts)
            Begins == parts # <<>> /\ parts[1] = "normal"
            T == {n \in 0 .. len :
                     /\ f[n] \in Seq(Kinds \ {"cur"})
                     /\ Begins /\ n # 0 => f[n] # <<>> /\ f[n][1] = "normal"}
<1>1. len \in Nat
  OBVIOUS
<1>2. \A n \in 0 .. len : f[n] = IF n = 0 THEN <<>>
                                 ELSE IF parts[n] = "cur" THEN f[n - 1]
                                 ELSE Append(f[n - 1], parts[n])
  BY DEF Pushes
<1>. HIDE DEF len
<1>3. 0 \in T
  <2>1. 0 \in 0 .. len
    BY <1>1
  <2>2. f[0] = <<>>
    BY <1>2, <2>1
  <2>3. f[0] \in Seq(Kinds \ {"cur"})
    BY <2>2
  <2>. QED
    BY <2>1, <2>3
<1>4. ASSUME NEW k \in 0 .. len, k \in T, k < len PROVE k + 1 \in T
  <2>1. k \in Nat /\ k + 1 \in 0 .. len /\ k + 1 # 0 /\ (k + 1) - 1 = k
    BY <1>1, <1>4
  <2>2. f[k + 1] = IF parts[k + 1] = "cur" THEN f[k] ELSE Append(f[k], parts[k + 1])
    BY <1>2, <2>1
  <2>3. parts[k + 1] \in Kinds
    BY <2>1 DEF len
  <2>4. f[k] \in Seq(Kinds \ {"cur"})
    BY <1>4
  <2>5. f[k + 1] \in Seq(Kinds \ {"cur"})
    BY <2>2, <2>3, <2>4
  <2>6. ASSUME Begins PROVE f[k + 1] # <<>> /\ f[k + 1][1] = "normal"
    <3>1. CASE k = 0
      <4>1. f[0] = <<>>
        BY <1>1, <1>2
      <4>2. f[k + 1] = Append(<<>>, "normal")
        BY <2>2, <2>6, <3>1, <4>1
      <4>. QED
        BY <4>2
    <3>2. CASE k # 0
      <4>1. f[k] # <<>> /\ f[k][1] = "normal"
        BY <1>4, <2>6, <3>2
      <4>. QED
        BY <2>2, <2>3, <2>4, <4>1
    <3>. QED
      BY <3>1, <3>2
  <2>. QED
    BY <2>1, <2>5, <2>6
<1>5. \A k \in 0 .. len : k \in T
  <2>. HIDE DEF T
  <2>. QED
    BY <1>1, <1>3, <1>4, UpTo
<1>6. len \in T
  BY <1>1, <1>5
<1>7. parts # <<>> => len # 0
  BY DEF len
<1>. QED
  BY <1>6, <1>7 DEF len

\* Normalizing changes the components of a path only, and as PushedIs says.
LEMMA NormalizeIs ==
    ASSUME NEW path \in [prefix : BOOLEAN, rooted : BOOLEAN, parts : Seq(Kinds)]
    PROVE  /\ Normalize(path).prefix = path.prefix /\ Normalize(path).rooted = path.rooted
           /\ Normalize(path).parts \in Seq(Kinds \ {"cur"})
           /\ path.parts # <<>> /\ path.parts[1] = "normal" =>
                 Normalize(path).parts # <<>> /\ Normalize(path).parts[1] = "normal"
<1>. DEFINE parts == path.parts
            f == CHOOSE g : Pushes(g, parts)
<1>1. parts \in Seq(Kinds)
  OBVIOUS
<1>2. Pushes(f, parts)
  <2>1. \E g : Pushes(g, parts)
    BY <1>1, PushedExists
  <2>. QED
    BY <2>1
<1>3. Normalize(path) = [path EXCEPT !.parts = f[Len(parts)]]
  BY DEF Normalize, Pushes
<1>. HIDE DEF f
<1>4. /\ f[Len(parts)] \in Seq(Kinds \ {"cur"})
      /\ parts # <<>> /\ parts[1] = "normal" =>
            f[Len(parts)] # <<>> /\ f[Len(parts)][1] = "normal"
  BY <1>1, <1>2, PushedIs
<1>5. /\ Normalize(path).prefix = path.prefix /\ Normalize(path).rooted = path.rooted
      /\ Normalize(path).parts = f[Len(parts)]
  BY <1>3
<1>. QED
  BY <1>4, <1>5

\* An output root that is accepted climbs nowhere, and one that is relative stays inside
\* the directory the CLI runs in (lib.rs:905-961), however many components it has.
THEOREM RootStaysInsideAlways == AdmissionSpec => []RootStaysInside
<1>1. AdmissionInv => RootStaysInside
  <2>. SUFFICES ASSUME AdmissionInv, stage = "requested" PROVE RootStaysInside
    BY DEF RootStaysInside
  <2>. DEFINE root == manifest.action.root
              paths == [prefix : BOOLEAN, rooted : BOOLEAN, parts : Seq(Kinds)]
              joined == Join(Base, root, windows)
              resolved == ResolveOutputRoot(Base, root, windows)
  <2>1. manifest \in CompositionManifest /\ windows \in BOOLEAN
    BY AdmissionAssumption DEF AdmissionInv, AdmissionTypeOK
  <2>2. root \in paths
    BY <2>1 DEF CompositionManifest, Action, Path, Kinds
  <2>3. Verdict(RequestGate(manifest)) = "ok"
    BY DEF AdmissionInv, Reached
  <2>4. /\ ~Ambiguous(root, windows)
        /\ \A i \in DOMAIN resolved.parts : resolved.parts[i] # "parent"
        /\ IsAbsolute(resolved, windows)
    BY <2>3, RequestLets
  <2>. HIDE DEF root
  <2>5. Base \in paths /\ Base.prefix = windows /\ Base.parts = <<"normal">>
    BY <2>1 DEF Base, Kinds
  <2>6. joined \in paths
    <3>1. CASE IsAbsolute(root, windows) \/ root.prefix
      BY <2>2, <3>1 DEF Join
    <3>2. CASE ~(IsAbsolute(root, windows) \/ root.prefix) /\ root.rooted
      BY <2>2, <2>5, <3>2 DEF Join
    <3>3. CASE ~(IsAbsolute(root, windows) \/ root.prefix) /\ ~root.rooted
      <4>1. joined = [Base EXCEPT !.parts = Base.parts \o root.parts]
        BY <3>3 DEF Join
      <4>2. Base.parts \o root.parts \in Seq(Kinds)
        <5>1. Base.parts \in Seq(Kinds) /\ root.parts \in Seq(Kinds)
          BY <2>2, <2>5
        <5>. QED
          BY <5>1, ConcatIs
      <4>. QED
        BY <2>5, <4>1, <4>2
    <3>. QED
      BY <3>1, <3>2, <3>3
  <2>. HIDE DEF joined
  <2>7. resolved = Normalize(joined)
    BY DEF ResolveOutputRoot, joined
  <2>. HIDE DEF resolved
  <2>8. /\ resolved.prefix = joined.prefix
        /\ resolved.parts \in Seq(Kinds \ {"cur"})
        /\ joined.parts # <<>> /\ joined.parts[1] = "normal" =>
              resolved.parts # <<>> /\ resolved.parts[1] = "normal"
    BY <2>6, <2>7, NormalizeIs
  <2>9. \A i \in DOMAIN resolved.parts : resolved.parts[i] = "normal"
    BY <2>4, <2>8 DEF Kinds
  <2>10. ASSUME ~IsAbsolute(root, windows)
         PROVE  /\ resolved.prefix = Base.prefix
                /\ Len(Base.parts) <= Len(resolved.parts)
                /\ SubSeq(resolved.parts, 1, Len(Base.parts)) = Base.parts
    <3>1. ~root.rooted /\ ~root.prefix
      BY <2>2, <2>4, <2>10 DEF Ambiguous
    <3>2. joined = [Base EXCEPT !.parts = <<"normal">> \o root.parts]
      BY <2>5, <2>10, <3>1 DEF Join, joined
    <3>3. joined.prefix = Base.prefix /\ joined.parts = <<"normal">> \o root.parts
      BY <2>5, <3>2
    <3>4. joined.parts # <<>> /\ joined.parts[1] = "normal"
      <4>1. root.parts \in Seq(Kinds) /\ <<"normal">> \in Seq(Kinds)
        BY <2>2 DEF Kinds
      <4>2. Len(<<"normal">> \o root.parts) = 1 + Len(root.parts)
            /\ (<<"normal">> \o root.parts)[1] = "normal"
        BY <4>1, ConcatIs
      <4>. QED
        BY <3>3, <4>1, <4>2
    <3>5. resolved.parts # <<>> /\ resolved.parts[1] = "normal"
      BY <2>8, <3>4
    <3>6. 1 <= Len(resolved.parts) /\ SubSeq(resolved.parts, 1, 1) = <<"normal">>
      BY <2>8, <3>5, FirstIs
    <3>. QED
      BY <2>5, <2>8, <3>3, <3>6
  <2>. QED
    BY <2>4, <2>9, <2>10 DEF RootStaysInside, root, resolved
<1>. QED
  BY <1>1, AdmissionInvAlways, PTL
-----------------------------------------------------------------------------
(* The bytes of a text: a sum over the set of its positions. *)

Sums(it, text) ==
    it = [s \in SUBSET DOMAIN text |->
             IF s = {} THEN 0
             ELSE LET x == CHOOSE y \in s : TRUE IN text[x] + it[s \ {x}]]

\* The sets of at most k positions.
Small(text, k) == {s \in SUBSET DOMAIN text : Cardinality(s) <= k}

PartSums(text, k) ==
    {f \in [Small(text, k) -> Nat] :
        \A s \in Small(text, k) :
            f[s] = IF s = {} THEN 0
                   ELSE LET x == CHOOSE y \in s : TRUE IN text[x] + f[s \ {x}]}

\* Taking a position away leaves a smaller set.
LEMMA SmallStep ==
    ASSUME NEW text \in Seq(Nat), NEW k \in Nat, NEW s \in Small(text, k + 1), s # {}
    PROVE  LET x == CHOOSE y \in s : TRUE
           IN  x \in s /\ text[x] \in Nat /\ s \ {x} \in Small(text, k)
<1>. DEFINE x == CHOOSE y \in s : TRUE
<1>1. x \in s
  OBVIOUS
<1>. HIDE DEF x
<1>2. DOMAIN text = 1 .. Len(text) /\ Len(text) \in Nat
  OBVIOUS
<1>3. s \subseteq DOMAIN text /\ Cardinality(s) <= k + 1
  BY DEF Small
<1>4. text[x] \in Nat
  BY <1>1, <1>3
<1>5. IsFiniteSet(DOMAIN text)
  BY <1>2, FS_Interval
<1>6. IsFiniteSet(s)
  BY <1>3, <1>5, FS_Subset
<1>7. Cardinality(s) \in Nat /\ Cardinality(s \ {x}) = Cardinality(s) - 1
  BY <1>1, <1>6, FS_RemoveElement, FS_CardinalityType
<1>8. Cardinality(s \ {x}) <= k
  BY <1>3, <1>7
<1>. QED
  BY <1>1, <1>3, <1>4, <1>8 DEF Small, x

\* The only set of no positions.
LEMMA SmallIsEmpty ==
    ASSUME NEW text \in Seq(Nat), NEW s \in Small(text, 0)
    PROVE  s = {}
<1>1. DOMAIN text = 1 .. Len(text) /\ Len(text) \in Nat
  OBVIOUS
<1>2. s \subseteq DOMAIN text /\ Cardinality(s) <= 0
  BY DEF Small
<1>3. IsFiniteSet(DOMAIN text)
  BY <1>1, FS_Interval
<1>4. IsFiniteSet(s)
  BY <1>2, <1>3, FS_Subset
<1>5. Cardinality(s) \in Nat
  BY <1>4, FS_CardinalityType
<1>6. Cardinality(s) = 0
  BY <1>2, <1>5
<1>. QED
  BY <1>4, <1>6, FS_EmptySet

\* No set of positions has more than the text has characters.
LEMMA SmallIsAll ==
    ASSUME NEW text \in Seq(Nat)
    PROVE  Small(text, Len(text)) = SUBSET DOMAIN text
<1>1. DOMAIN text = 1 .. Len(text) /\ Len(text) \in Nat
  OBVIOUS
<1>2. IsFiniteSet(DOMAIN text) /\ Cardinality(DOMAIN text) = Len(text)
  BY <1>1, FS_Interval
<1>3. \A s \in SUBSET DOMAIN text : Cardinality(s) <= Len(text)
  BY <1>2, FS_Subset
<1>. QED
  BY <1>3 DEF Small

\* The recursion of the fold is well defined: there is a function that satisfies it.
LEMMA SumsExist ==
    ASSUME NEW text \in Seq(Nat)
    PROVE  \E it : Sums(it, text)
<1>. DEFINE len == Len(text)
            T == {k \in 0 .. len : PartSums(text, k) # {}}
<1>1. len \in Nat
  OBVIOUS
<1>2. 0 \in T
  <2>. DEFINE f == [s \in Small(text, 0) |-> 0]
  <2>1. \A s \in Small(text, 0) : s = {}
    BY SmallIsEmpty
  <2>2. f \in PartSums(text, 0)
    BY <2>1 DEF PartSums
  <2>. QED
    BY <1>1, <2>2
<1>. HIDE DEF len
<1>3. ASSUME NEW k \in 0 .. len, k \in T, k < len PROVE k + 1 \in T
  <2>0. k \in Nat
    BY <1>1
  <2>1. PICK f : f \in PartSums(text, k)
    BY <1>3
  <2>. DEFINE X(s) == CHOOSE y \in s : TRUE
              g == [s \in Small(text, k + 1) |->
                       IF s = {} THEN 0 ELSE text[X(s)] + f[s \ {X(s)}]]
  <2>2. /\ f \in [Small(text, k) -> Nat]
        /\ \A s \in Small(text, k) : f[s] = IF s = {} THEN 0 ELSE text[X(s)] + f[s \ {X(s)}]
    BY <2>1 DEF PartSums
  <2>3. \A s \in Small(text, k + 1) :
            s # {} => X(s) \in s /\ text[X(s)] \in Nat /\ s \ {X(s)} \in Small(text, k)
    BY <2>0, SmallStep
  <2>. HIDE DEF X
  <2>4. \A s \in Small(text, k + 1) :
            g[s] = IF s = {} THEN 0 ELSE text[X(s)] + f[s \ {X(s)}]
    OBVIOUS
  <2>5. g \in [Small(text, k + 1) -> Nat]
    BY <2>2, <2>3
  <2>6. Small(text, k) \subseteq Small(text, k + 1)
    <3>. SUFFICES ASSUME NEW s \in Small(text, k) PROVE s \in Small(text, k + 1)
      OBVIOUS
    <3>1. DOMAIN text = 1 .. Len(text) /\ Len(text) \in Nat
      OBVIOUS
    <3>2. IsFiniteSet(DOMAIN text)
      BY <3>1, FS_Interval
    <3>3. Cardinality(s) \in Nat
      BY <3>2, FS_Subset, FS_CardinalityType DEF Small
    <3>. QED
      BY <2>0, <3>3 DEF Small
  <2>. HIDE DEF g
  <2>7. \A s \in Small(text, k) : g[s] = f[s]
    BY <2>2, <2>4, <2>6
  <2>8. \A s \in Small(text, k + 1) :
            g[s] = IF s = {} THEN 0 ELSE text[X(s)] + g[s \ {X(s)}]
    BY <2>3, <2>4, <2>7
  <2>9. g \in PartSums(text, k + 1)
    BY <2>5, <2>8 DEF PartSums, X
  <2>10. k + 1 \in 0 .. len
    BY <1>1, <1>3
  <2>. QED
    BY <2>9, <2>10
<1>4. \A k \in 0 .. len : k \in T
  <2>. HIDE DEF T
  <2>. QED
    BY <1>1, <1>2, <1>3, UpTo
<1>5. PICK f : f \in PartSums(text, len)
  BY <1>1, <1>4
<1>6. Small(text, len) = SUBSET DOMAIN text
  BY SmallIsAll DEF len
<1>7. /\ f \in [SUBSET DOMAIN text -> Nat]
      /\ \A s \in SUBSET DOMAIN text :
            f[s] = IF s = {} THEN 0
                   ELSE LET x == CHOOSE y \in s : TRUE IN text[x] + f[s \ {x}]
  BY <1>5, <1>6 DEF PartSums
<1>8. Sums(f, text)
  BY <1>7 DEF Sums
<1>. QED
  BY <1>8

\* The bytes of a text are a number, which is 0 for the text without characters.
LEMMA BytesAreCounted ==
    ASSUME NEW text \in Seq(Nat)
    PROVE  Bytes(text) \in Nat /\ (text = <<>> => Bytes(text) = 0)
<1>. DEFINE c == CHOOSE it : Sums(it, text)
            len == Len(text)
            T == {k \in 0 .. len : \A s \in Small(text, k) : c[s] \in Nat}
<1>1. Bytes(text) = c[DOMAIN text]
  BY DEF Bytes, FoldSeq, FoldFunction, FoldFunctionOnSet, MapThenFoldSet, Sums
<1>2. Sums(c, text)
  BY SumsExist
<1>. HIDE DEF c
<1>3. \A s \in SUBSET DOMAIN text :
          c[s] = IF s = {} THEN 0
                 ELSE LET x == CHOOSE y \in s : TRUE IN text[x] + c[s \ {x}]
  BY <1>2 DEF Sums
<1>4. len \in Nat /\ \A k : Small(text, k) \subseteq SUBSET DOMAIN text
  BY DEF Small
<1>10. c[{}] = 0
  BY <1>3
<1>. HIDE DEF len
<1>5. 0 \in T
  <2>1. \A s \in Small(text, 0) : s = {}
    BY SmallIsEmpty
  <2>2. \A s \in Small(text, 0) : c[s] \in Nat
    <3>. SUFFICES ASSUME NEW s \in Small(text, 0) PROVE c[s] \in Nat
      OBVIOUS
    <3>1. s = {}
      BY <2>1
    <3>2. c[s] = 0
      BY <1>10, <3>1
    <3>. QED
      BY <3>2
  <2>3. 0 \in 0 .. len
    BY <1>4
  <2>. QED
    BY <2>2, <2>3
<1>6. ASSUME NEW k \in 0 .. len, k \in T, k < len PROVE k + 1 \in T
  <2>1. k \in Nat /\ k + 1 \in 0 .. len
    BY <1>4, <1>6
  <2>2. ASSUME NEW s \in Small(text, k + 1) PROVE c[s] \in Nat
    <3>1. CASE s = {}
      BY <1>10, <3>1
    <3>2. CASE s # {}
      <4>. DEFINE x == CHOOSE y \in s : TRUE
      <4>1. text[x] \in Nat /\ s \ {x} \in Small(text, k)
        BY <2>1, <3>2, SmallStep
      <4>2. c[s] = text[x] + c[s \ {x}]
        BY <1>3, <1>4, <3>2
      <4>. HIDE DEF x
      <4>3. c[s \ {x}] \in Nat
        BY <1>6, <4>1
      <4>. QED
        BY <4>1, <4>2, <4>3
    <3>. QED
      BY <3>1, <3>2
  <2>. QED
    BY <2>1, <2>2
<1>7. \A k \in 0 .. len : k \in T
  <2>. HIDE DEF T
  <2>. QED
    BY <1>4, <1>5, <1>6, UpTo
<1>8. \A s \in SUBSET DOMAIN text : c[s] \in Nat
  <2>1. len \in T
    BY <1>4, <1>7
  <2>2. Small(text, len) = SUBSET DOMAIN text
    BY SmallIsAll DEF len
  <2>. QED
    BY <2>1, <2>2
<1>9. text = <<>> => DOMAIN text = {}
  OBVIOUS
<1>. QED
  BY <1>1, <1>8, <1>9, <1>10

\* Cutting a text keeps a prefix of it that is within the bound, and a text that is
\* within the bound.
LEMMA BoundedIs ==
    ASSUME NEW S \in SUBSET Nat, NEW text \in Seq(S)
    PROVE  /\ Bytes(Bounded(text)) <= MaxOutput
           /\ IsPrefix(Bounded(text), text)
           /\ Bytes(text) <= MaxOutput => Bounded(text) = text
<1>. DEFINE len == Len(text)
            fits == {n \in 0 .. len : Bytes(SubSeq(text, 1, n)) <= MaxOutput}
            best == Max(fits)
<1>1. len \in Nat /\ MaxOutput \in Nat
  BY EvidenceAssumption
<1>2. SubSeq(text, 1, 0) = <<>>
  BY SubSeqEmpty
<1>3. 0 \in fits
  <2>1. Bytes(SubSeq(text, 1, 0)) <= MaxOutput
    <3>1. <<>> \in Seq(Nat)
      OBVIOUS
    <3>2. Bytes(<<>>) = 0
      BY <3>1, BytesAreCounted
    <3>3. Bytes(SubSeq(text, 1, 0)) = 0
      BY <1>2, <3>2
    <3>. QED
      BY <1>1, <3>3
  <2>2. 0 \in 0 .. len
    BY <1>1
  <2>. QED
    BY <2>1, <2>2
<1>4. Bounded(text) = SubSeq(text, 1, best)
  BY DEF Bounded
<1>5. fits \in SUBSET (0 .. len) /\ fits # {}
  BY <1>3
<1>6. best \in fits /\ \A k \in fits : k <= best
  <2>. HIDE DEF fits, len
  <2>. QED
    BY <1>1, <1>5, MaxIsGreatest
<1>7. best \in 0 .. len /\ Bytes(SubSeq(text, 1, best)) <= MaxOutput
  BY <1>6
<1>8. IsPrefix(Bounded(text), text)
  <2>. HIDE DEF best
  <2>. DEFINE cut == SubSeq(text, 1, best)
  <2>1. \A i \in 1 .. best : text[i] \in S
    BY <1>7
  <2>2. cut \in Seq(S) /\ Len(cut) = best
    BY <1>1, <1>7, <2>1
  <2>3. SubSeq(cut, 1, Len(cut)) = cut
    <3>. HIDE DEF cut
    <3>. QED
      BY <2>2, SubSeqFull
  <2>. QED
    BY <1>1, <1>4, <1>7, <2>2, <2>3 DEF IsPrefix
<1>9. Bytes(text) <= MaxOutput => Bounded(text) = text
  <2>. SUFFICES ASSUME Bytes(text) <= MaxOutput PROVE Bounded(text) = text
    OBVIOUS
  <2>1. SubSeq(text, 1, len) = text
    BY SubSeqFull
  <2>2. len \in fits
    <3>1. Bytes(SubSeq(text, 1, len)) <= MaxOutput
      BY <2>1
    <3>2. len \in 0 .. len
      BY <1>1
    <3>. HIDE DEF len
    <3>. QED
      BY <3>1, <3>2
  <2>3. len <= best
    BY <1>6, <2>2
  <2>4. best = len
    <3>. HIDE DEF best, len, fits
    <3>. QED
      BY <1>1, <1>7, <2>3
  <2>. QED
    BY <1>4, <2>1, <2>4
<1>. QED
  BY <1>4, <1>7, <1>8, <1>9

-----------------------------------------------------------------------------
(* The evidence of a job. *)

\* What is reported, by the helper or in its place: its texts are texts; a digest may be
\* of anything.
Reports ==
    [text : [TextStreams -> Seq(0 .. 4)],
     sha : [TextStreams -> {NoDigest} \cup ({"sha256"} \X Seq(0 .. 4))],
     exit : Int, duration : Int, timedOut : BOOLEAN, truncated : BOOLEAN]

\* The evidence kept of a report is sound, whatever the report says.
LEMMA TrustworthyIsSound ==
    ASSUME NEW l \in Reports
    PROVE  LET kept == Trustworthy(l)
           IN  /\ \A s \in TextStreams :
                     /\ Bytes(kept.text[s]) <= MaxOutput
                     /\ kept.sha[s] = Sha256(kept.text[s])
                     /\ IsPrefix(kept.text[s], l.text[s])
                     /\ kept.text[s] # l.text[s] => kept.truncated
               /\ l.truncated => kept.truncated
               /\ kept.exit = l.exit /\ kept.timedOut = l.timedOut
<1>. DEFINE kept == Trustworthy(l)
            text == [s \in TextStreams |-> Bounded(l.text[s])]
            sha == [s \in TextStreams |->
                       IF Matches(text[s], l.sha[s]) THEN l.sha[s] ELSE Sha256(text[s])]
            cut == \E s \in TextStreams : text[s] # l.text[s]
<1>1. kept = [l EXCEPT !.text = text, !.sha = sha, !.truncated = l.truncated \/ cut]
  BY DEF Trustworthy
<1>. HIDE DEF kept
<1>2. \A s \in TextStreams : sha[s] = Sha256(text[s])
  BY DEF Matches
<1>3. \A s \in TextStreams : text[s] = Bounded(l.text[s]) /\ l.text[s] \in Seq(0 .. 4)
  BY DEF Reports
<1>. HIDE DEF sha, text
<1>4. cut \in BOOLEAN
  OBVIOUS
<1>5. \A s \in TextStreams : text[s] # l.text[s] => cut
  OBVIOUS
<1>. HIDE DEF cut
<1>6. /\ kept.text = text /\ kept.sha = sha
      /\ kept.exit = l.exit /\ kept.timedOut = l.timedOut
  BY <1>1 DEF Reports
<1>7. kept.truncated <=> (l.truncated \/ cut)
  BY <1>1, <1>4 DEF Reports
<1>8. \A s \in TextStreams : Bytes(text[s]) <= MaxOutput /\ IsPrefix(text[s], l.text[s])
  BY <1>3, BoundedIs
<1>. QED
  BY <1>2, <1>5, <1>6, <1>7, <1>8 DEF kept

\* A report that is within the bound, with the digests of its texts, is kept as it is.
LEMMA SoundIsKept ==
    ASSUME NEW l \in Reports, ~l.truncated,
           \A s \in TextStreams : Bytes(l.text[s]) <= MaxOutput,
           \A s \in TextStreams : Matches(l.text[s], l.sha[s])
    PROVE  Trustworthy(l) = l
<1>. DEFINE text == [s \in TextStreams |-> Bounded(l.text[s])]
            sha == [s \in TextStreams |->
                       IF Matches(text[s], l.sha[s]) THEN l.sha[s] ELSE Sha256(text[s])]
            cut == \E s \in TextStreams : text[s] # l.text[s]
<1>1. Trustworthy(l) = [l EXCEPT !.text = text, !.sha = sha, !.truncated = l.truncated \/ cut]
  BY DEF Trustworthy
<1>2. /\ l.text \in [TextStreams -> Seq(0 .. 4)]
      /\ \A s \in TextStreams : l.text[s] \in Seq(0 .. 4)
      /\ l.sha = [s \in TextStreams |-> l.sha[s]]
  BY DEF Reports
<1>3. \A s \in TextStreams : text[s] = l.text[s]
  <2>1. (0 .. 4) \in SUBSET Nat
    OBVIOUS
  <2>. QED
    BY <1>2, <2>1, BoundedIs
<1>4. text = l.text
  <2>1. l.text = [s \in TextStreams |-> l.text[s]]
    BY <1>2
  <2>2. text = [s \in TextStreams |-> text[s]]
    OBVIOUS
  <2>. HIDE DEF text
  <2>. QED
    BY <1>3, <2>1, <2>2
<1>5. \A s \in TextStreams : sha[s] = l.sha[s]
  BY <1>3
<1>6. sha = l.sha
  <2>1. sha = [s \in TextStreams |-> sha[s]]
    OBVIOUS
  <2>. HIDE DEF sha
  <2>. QED
    BY <1>2, <1>5, <2>1
<1>7. ~cut
  BY <1>3
<1>. HIDE DEF text, sha, cut
<1>8. (l.truncated \/ cut) = l.truncated
  BY <1>7 DEF Reports
<1>9. Trustworthy(l) = [l EXCEPT !.text = l.text, !.sha = l.sha, !.truncated = l.truncated]
  BY <1>1, <1>4, <1>6, <1>8
<1>. QED
  BY <1>9 DEF Reports

\* An answer that is judged "ok" is within the bounds, truthful and successful.
LEMMA ResultLets ==
    ASSUME NEW a \in EvaluationResult, Verdict(ResultGate(a)) = "ok"
    PROVE  LET l == a.lifecycle
           IN  /\ \A s \in TextStreams : Bytes(l.text[s]) <= MaxOutput
               /\ \A s \in TextStreams : Matches(l.text[s], l.sha[s])
               /\ l.exit = 0 /\ ~l.timedOut /\ ~l.truncated
<1>. DEFINE l == a.lifecycle
            g == ResultGate(a)
            C1 == a.claims # "as requested"
            C2 == a.jobDirectory \notin {"", "child"}
            C3 == GpuMismatch(a.gpus)
            C4 == \/ l.duration \notin 0 .. Timeout
                  \/ \E s \in TextStreams : Bytes(l.text[s]) > MaxOutput
            C5 == l.sha["stdout"] = NoDigest
            C6 == ~Matches(l.text["stdout"], l.sha["stdout"])
            C9 == l.sha["stderr"] = NoDigest
            C10 == ~Matches(l.text["stderr"], l.sha["stderr"])
            C7 == a.success /\ (~a.released \/ l.exit # 0 \/ l.timedOut \/ l.truncated
                                  \/ a.error # "")
            C8 == ~a.success
            E8 == IF a.error = "" THEN "nvms_action_failed" ELSE a.error
<1>1. /\ C4 \in BOOLEAN /\ C6 \in BOOLEAN /\ C10 \in BOOLEAN
      /\ C7 \in BOOLEAN /\ C8 \in BOOLEAN
  OBVIOUS
<1>2. g = << <<C1, a.claims>>, <<C2, "nvms_output_root_mismatch">>,
             <<C3, "nvms_gpu_binding_mismatch">>, <<C4, "nvms_lifecycle_limits">>,
             <<C5, "nvms_evidence_hash_invalid">>, <<C6, "nvms_evidence_hash_mismatch">>,
             <<C9, "nvms_evidence_hash_invalid">>, <<C10, "nvms_evidence_hash_mismatch">>,
             <<C7, "nvms_success_inconsistent">>, <<C8, E8>> >>
  BY DEF ResultGate, Refuse, DigestInvalid, DigestMismatch
<1>3. a.claims # "ok" /\ E8 # "ok"
  BY DEF EvaluationResult
<1>. HIDE DEF C1, C2, C3, C4, C5, C6, C7, C8, C9, C10, E8
<1>4. Verdict(g) = "ok"
  OBVIOUS
<1>. HIDE DEF g
<1>5. DOMAIN g = 1 .. 10 /\ \A i \in 1 .. 10 : g[i][2] # "ok"
  BY <1>2, <1>3
<1>6. \A i \in 1 .. 10 : ~g[i][1]
  BY <1>4, <1>5, OkPasses
<1>7. ~C4 /\ ~C6 /\ ~C10 /\ ~C7 /\ ~C8
  BY <1>1, <1>2, <1>6
<1>8. l \in LifecycleReport
  BY DEF EvaluationResult
<1>9. \A s \in TextStreams : Bytes(l.text[s]) <= MaxOutput
  <2>. TAKE s \in TextStreams
  <2>1. ~(Bytes(l.text[s]) > MaxOutput)
    BY <1>7 DEF C4
  <2>2. l.text[s] \in Seq(1 .. 4)
    BY <1>8 DEF LifecycleReport, Text
  <2>3. l.text[s] \in Seq(Nat)
    BY <2>2, SeqMonotonic
  <2>4. Bytes(l.text[s]) \in Nat /\ MaxOutput \in Nat
    BY <2>3, BytesAreCounted, EvidenceAssumption
  <2>. QED
    BY <2>1, <2>4
<1>10. \A s \in TextStreams : Matches(l.text[s], l.sha[s])
  BY <1>7 DEF C6, C10, TextStreams
<1>11. l.exit = 0 /\ ~l.timedOut /\ ~l.truncated
  BY <1>7 DEF C7, C8
<1>. QED
  BY <1>9, <1>10, <1>11

\* Every report is in Reports: that of an answer, and that in the place of one.
LEMMA ReportsAre ==
    /\ \A answer \in Answers : answer \in EvaluationResult /\ answer.lifecycle \in Reports
    /\ \A raw \in RawOutputs : LocalFailure(raw) \in Reports
<1>1. ASSUME NEW answer \in Answers
      PROVE  answer \in EvaluationResult /\ answer.lifecycle \in Reports
  <2>1. answer \in EvaluationResult
    BY EvidenceAssumption
  <2>. DEFINE l == answer.lifecycle
  <2>2. l \in LifecycleReport
    BY <2>1 DEF EvaluationResult
  <2>3. Text \subseteq Seq(0 .. 4)
    <3>1. (1 .. 4) \subseteq (0 .. 4)
      OBVIOUS
    <3>. QED
      BY <3>1, SeqMonotonic DEF Text
  <2>. HIDE DEF l
  <2>4. l.text \in [TextStreams -> Seq(0 .. 4)]
    BY <2>2, <2>3 DEF LifecycleReport
  <2>5. l.sha \in [TextStreams -> {NoDigest} \cup ({"sha256"} \X Seq(0 .. 4))]
    <3>1. {NoDigest} \cup ({"sha256"} \X Text)
            \subseteq {NoDigest} \cup ({"sha256"} \X Seq(0 .. 4))
      BY <2>3
    <3>2. l.sha \in [TextStreams -> {NoDigest} \cup ({"sha256"} \X Text)]
      BY <2>2 DEF LifecycleReport
    <3>. DEFINE A == {NoDigest} \cup ({"sha256"} \X Text)
                B == {NoDigest} \cup ({"sha256"} \X Seq(0 .. 4))
    <3>. HIDE DEF A, B
    <3>3. A \subseteq B /\ l.sha \in [TextStreams -> A]
      BY <3>1, <3>2 DEF A, B
    <3>4. l.sha \in [TextStreams -> B]
      BY <3>3
    <3>. QED
      BY <3>4 DEF B
  <2>6. l \in Reports
    BY <2>2, <2>4, <2>5 DEF LifecycleReport, Reports
  <2>. QED
    BY <2>1, <2>6 DEF l
<1>2. ASSUME NEW raw \in RawOutputs PROVE LocalFailure(raw) \in Reports
  <2>1. raw \in [TextStreams -> Seq(0 .. 4)]
    BY EvidenceAssumption
  <2>2. \A s \in TextStreams : Lossy(raw[s]) \in Seq(0 .. 4)
    <3>. TAKE s \in TextStreams
    <3>1. raw[s] \in Seq(0 .. 4)
      BY <2>1
    <3>. DEFINE r == raw[s]
    <3>. HIDE DEF r
    <3>2. r \in Seq(0 .. 4)
      BY <3>1 DEF r
    <3>3. Lossy(r) = [i \in 1 .. Len(r) |-> IF r[i] = 0 THEN 3 ELSE r[i]]
      BY <3>2 DEF Lossy
    <3>4. \A i \in 1 .. Len(r) : (IF r[i] = 0 THEN 3 ELSE r[i]) \in 0 .. 4
      BY <3>2
    <3>5. Lossy(r) \in Seq(0 .. 4)
      BY <3>2, <3>3, <3>4
    <3>. QED
      BY <3>5 DEF r
  <2>3. \A s \in TextStreams : Sha256(raw[s]) \in {"sha256"} \X Seq(0 .. 4)
    BY <2>1 DEF Sha256
  <2>. DEFINE texts == [s \in TextStreams |-> Lossy(raw[s])]
              shas == [s \in TextStreams |-> Sha256(raw[s])]
  <2>4. texts \in [TextStreams -> Seq(0 .. 4)]
    BY <2>2
  <2>5. shas \in [TextStreams -> {NoDigest} \cup ({"sha256"} \X Seq(0 .. 4))]
    BY <2>3
  <2>6. LocalFailure(raw) = [text |-> texts, sha |-> shas, exit |-> -1, duration |-> 0,
                             timedOut |-> FALSE, truncated |-> FALSE]
    BY DEF LocalFailure
  <2>. HIDE DEF texts, shas
  <2>. QED
    BY <2>4, <2>5, <2>6 DEF Reports
<1>. QED
  BY <1>1, <1>2

\* What a job records is within the bound, its digests those of the recorded texts,
\* each a prefix of what was reported (lib.rs:780-803, nvms.rs:159-171), for every
\* answer, raw output and limit.
THEOREM EvidenceIsSoundAlways == EvidenceSpec => []EvidenceIsSound
<1>1. EvidenceInit => EvidenceIsSound
  BY DEF EvidenceInit, EvidenceIsSound
<1>2. EvidenceIsSound /\ [EvidenceStep]_evidenceVars => EvidenceIsSound'
  <2>. SUFFICES ASSUME EvidenceIsSound, [EvidenceStep]_evidenceVars PROVE EvidenceIsSound'
    OBVIOUS
  <2>1. ASSUME NEW l \in Reports, ClientFails(l) PROVE EvidenceIsSound'
    <3>1. reported' = l /\ job'.lifecycle = Trustworthy(l) /\ job'.code # "ok"
      BY <2>1 DEF ClientFails
    <3>. QED
      BY <3>1, TrustworthyIsSound DEF EvidenceIsSound
  <2>2. CASE NoAnswer
    BY <2>1, <2>2, ReportsAre DEF NoAnswer
  <2>3. CASE RefusedAnswer
    BY <2>1, <2>3, ReportsAre DEF RefusedAnswer
  <2>4. CASE AcceptAnswer
    <3>1. PICK answer \in Answers :
             /\ reported' = answer.lifecycle
             /\ job' = [lifecycle |-> Trustworthy(answer.lifecycle),
                        code |-> RecordedCode(answer)]
      BY <2>4 DEF AcceptAnswer
    <3>. DEFINE l == answer.lifecycle
    <3>2. answer \in EvaluationResult /\ l \in Reports
      BY ReportsAre
    <3>3. Verdict(ResultGate(answer)) = "ok" =>
             /\ \A s \in TextStreams : Bytes(l.text[s]) <= MaxOutput
             /\ \A s \in TextStreams : Matches(l.text[s], l.sha[s])
             /\ l.exit = 0 /\ ~l.timedOut /\ ~l.truncated
      BY <3>2, ResultLets
    <3>. HIDE DEF l
    <3>4. Verdict(ResultGate(answer)) = "ok" => Trustworthy(l) = l
      BY <3>2, <3>3, SoundIsKept
    <3>5. /\ reported' = l /\ job'.lifecycle = Trustworthy(l)
          /\ job'.code = "ok" => Verdict(ResultGate(answer)) = "ok"
      BY <3>1, <3>2 DEF l, RecordedCode, EvaluationResult
    <3>6. job'.code = "ok" => /\ job'.lifecycle = reported'
                              /\ job'.lifecycle.exit = 0 /\ ~job'.lifecycle.timedOut
                              /\ ~job'.lifecycle.truncated
      BY <3>3, <3>4, <3>5
    <3>7. /\ \A s \in TextStreams :
                /\ Bytes(job'.lifecycle.text[s]) <= MaxOutput
                /\ job'.lifecycle.sha[s] = Sha256(job'.lifecycle.text[s])
                /\ IsPrefix(job'.lifecycle.text[s], reported'.text[s])
                /\ job'.lifecycle.text[s] # reported'.text[s] => job'.lifecycle.truncated
          /\ reported'.truncated => job'.lifecycle.truncated
      BY <3>2, <3>5, TrustworthyIsSound
    <3>. QED
      BY <3>6, <3>7 DEF EvidenceIsSound
  <2>5. CASE UNCHANGED evidenceVars
    BY <2>5 DEF evidenceVars, EvidenceIsSound
  <2>. QED
    BY <2>2, <2>3, <2>4, <2>5 DEF EvidenceStep
<1>. QED
  BY <1>1, <1>2, PTL DEF EvidenceSpec

-----------------------------------------------------------------------------
(* References to images. *)

\* What is before and after a position, and that they make up the whole with it.
LEMMA SplitAt ==
    ASSUME NEW s \in Seq(STRING), NEW i \in DOMAIN s
    PROVE  /\ i \in 1 .. Len(s)
           /\ Before(s, i) \in Seq(STRING) /\ Len(Before(s, i)) = i - 1
           /\ \A j \in 1 .. (i - 1) : Before(s, i)[j] = s[j]
           /\ After(s, i) \in Seq(STRING) /\ Len(After(s, i)) = Len(s) - i
           /\ \A j \in 1 .. (Len(s) - i) : After(s, i)[j] = s[i + j]
           /\ Before(s, i) \o (<<s[i]>> \o After(s, i)) = s
<1>1. Len(s) \in Nat /\ i \in 1 .. Len(s) /\ s[i] \in STRING
  OBVIOUS
<1>2. /\ Before(s, i) \in Seq(STRING) /\ Len(Before(s, i)) = i - 1
      /\ \A j \in 1 .. (i - 1) : Before(s, i)[j] = s[j]
  <2>1. /\ \A j \in 1 .. (i - 1) : s[j] \in STRING
        /\ 1 \in Int /\ i - 1 \in Int
    BY <1>1
  <2>2. /\ SubSeq(s, 1, i - 1) \in Seq(STRING)
        /\ Len(SubSeq(s, 1, i - 1)) = IF 1 <= i - 1 THEN (i - 1) - 1 + 1 ELSE 0
        /\ \A j \in 1 .. (i - 1) - 1 + 1 : SubSeq(s, 1, i - 1)[j] = s[1 + j - 1]
    BY <2>1, SubSeqProperties
  <2>. QED
    BY <1>1, <2>2 DEF Before
<1>3. /\ After(s, i) \in Seq(STRING) /\ Len(After(s, i)) = Len(s) - i
      /\ \A j \in 1 .. (Len(s) - i) : After(s, i)[j] = s[i + j]
  <2>1. /\ \A j \in (i + 1) .. Len(s) : s[j] \in STRING
        /\ i + 1 \in Int /\ Len(s) \in Int
    BY <1>1
  <2>2. /\ SubSeq(s, i + 1, Len(s)) \in Seq(STRING)
        /\ Len(SubSeq(s, i + 1, Len(s))) = IF i + 1 <= Len(s) THEN Len(s) - (i + 1) + 1 ELSE 0
        /\ \A j \in 1 .. Len(s) - (i + 1) + 1 :
              SubSeq(s, i + 1, Len(s))[j] = s[(i + 1) + j - 1]
    BY <2>1, SubSeqProperties
  <2>. QED
    BY <1>1, <2>2 DEF After
<1>. DEFINE b == Before(s, i)
            a == After(s, i)
            c == <<s[i]>>
            whole == b \o (c \o a)
<1>4. c \in Seq(STRING) /\ Len(c) = 1 /\ c[1] = s[i]
  BY <1>1
<1>. HIDE DEF a, b, c
<1>5. /\ c \o a \in Seq(STRING) /\ Len(c \o a) = 1 + Len(a)
      /\ (c \o a)[1] = s[i] /\ \A j \in 1 .. Len(a) : (c \o a)[1 + j] = a[j]
  <2>1. a \in Seq(STRING)
    BY <1>3 DEF a
  <2>. DEFINE ca == c \o a
  <2>2. /\ ca \in Seq(STRING) /\ Len(ca) = Len(c) + Len(a)
        /\ \A j \in 1 .. Len(c) : ca[j] = c[j]
        /\ \A j \in 1 .. Len(a) : ca[Len(c) + j] = a[j]
    BY <1>4, <2>1, ConcatIs
  <2>. HIDE DEF ca
  <2>3. ca[1] = c[1]
    BY <1>4, <2>2
  <2>. QED
    BY <1>4, <2>2, <2>3 DEF ca
<1>6. /\ whole \in Seq(STRING) /\ Len(whole) = Len(b) + (1 + Len(a))
      /\ \A j \in 1 .. Len(b) : whole[j] = b[j]
      /\ \A j \in 1 .. (1 + Len(a)) : whole[Len(b) + j] = (c \o a)[j]
  <2>. DEFINE ca == c \o a
  <2>. HIDE DEF ca
  <2>1. ca \in Seq(STRING) /\ Len(ca) = 1 + Len(a) /\ b \in Seq(STRING)
    BY <1>2, <1>5 DEF ca, b
  <2>2. /\ b \o ca \in Seq(STRING) /\ Len(b \o ca) = Len(b) + Len(ca)
        /\ \A j \in 1 .. Len(b) : (b \o ca)[j] = b[j]
        /\ \A j \in 1 .. Len(ca) : (b \o ca)[Len(b) + j] = ca[j]
    BY <2>1, ConcatIs
  <2>. QED
    BY <2>1, <2>2 DEF ca
<1>. HIDE DEF whole
<1>7. Len(a) = Len(s) - i /\ Len(b) = i - 1
  BY <1>2, <1>3 DEF a, b
<1>8. Len(whole) = Len(s)
  BY <1>1, <1>6, <1>7
<1>9. ASSUME NEW j \in 1 .. Len(s) PROVE whole[j] = s[j]
  <2>1. CASE j < i
    <3>1. j \in 1 .. Len(b) /\ j \in 1 .. (i - 1)
      BY <1>1, <1>7, <2>1
    <3>. QED
      BY <1>2, <1>6, <3>1 DEF b
  <2>2. CASE j = i
    <3>1. 1 \in 1 .. (1 + Len(a)) /\ Len(b) + 1 = i
      BY <1>1, <1>7
    <3>. QED
      BY <1>5, <1>6, <2>2, <3>1
  <2>3. CASE j > i
    <3>. DEFINE k == j - i
    <3>1. /\ k \in 1 .. Len(a) /\ k \in 1 .. (Len(s) - i) /\ 1 + k \in 1 .. (1 + Len(a))
          /\ Len(b) + (1 + k) = j /\ i + k = j
      BY <1>1, <1>7, <2>3
    <3>. HIDE DEF k
    <3>2. whole[j] = (c \o a)[1 + k]
      BY <1>6, <3>1
    <3>3. (c \o a)[1 + k] = a[k]
      BY <1>5, <3>1
    <3>4. a[k] = s[j]
      BY <1>3, <3>1 DEF a
    <3>. QED
      BY <3>2, <3>3, <3>4
  <2>. QED
    BY <1>1, <2>1, <2>2, <2>3
<1>10. whole = s
  BY <1>6, <1>8, <1>9, SeqEqual
<1>. QED
  BY <1>1, <1>2, <1>3, <1>10 DEF whole, a, b, c

\* The first and the last of the positions of a character.
LEMMA FirstPosition ==
    ASSUME NEW s \in Seq(STRING), NEW c, Has(s, c)
    PROVE  LET i == Min(Positions(s, c))
           IN  i \in DOMAIN s /\ s[i] = c /\ ~Has(Before(s, i), c)
<1>. DEFINE P == Positions(s, c)
            i == Min(P)
<1>1. DOMAIN s = 1 .. Len(s) /\ Len(s) \in Nat
  OBVIOUS
<1>2. P \in SUBSET Nat /\ P # {}
  BY <1>1 DEF Positions, Has
<1>3. i \in P /\ \A k \in P : i <= k
  <2>. HIDE DEF P
  <2>. QED
    BY <1>2, MinIsLeast
<1>. HIDE DEF i
<1>4. i \in DOMAIN s /\ s[i] = c
  BY <1>3 DEF Positions
<1>5. ~Has(Before(s, i), c)
  <2>. SUFFICES ASSUME NEW j \in DOMAIN Before(s, i), Before(s, i)[j] = c PROVE FALSE
    BY DEF Has
  <2>1. /\ Before(s, i) \in Seq(STRING) /\ Len(Before(s, i)) = i - 1
        /\ \A k \in 1 .. (i - 1) : Before(s, i)[k] = s[k]
    BY <1>4, SplitAt
  <2>2. j \in 1 .. (i - 1) /\ s[j] = c
    BY <2>1
  <2>3. j \in P
    BY <1>1, <1>4, <2>2 DEF Positions
  <2>4. i <= j
    BY <1>3, <2>3
  <2>. QED
    BY <1>1, <1>4, <2>2, <2>4
<1>. QED
  BY <1>4, <1>5 DEF i

\* Splitting the tag off keeps all of the string; a tag has no colon and no slash.
LEMMA SplitTagIs ==
    ASSUME NEW s \in Seq(STRING)
    PROVE  LET body == SplitTag(s)
           IN  /\ body.rest \in Seq(STRING)
               /\ body.tag # None => body.tag \in Seq(STRING)
               /\ body.rest \o Prefixed(":", body.tag) = s
               /\ body.tag # None => ~Has(body.tag, "/") /\ ~Has(body.tag, ":")
               /\ body.rest = <<>> => s = <<>> \/ s[1] = ":"
<1>. DEFINE body == SplitTag(s)
            T == TagColon(s)
            i == Max(T)
<1>1. DOMAIN s = 1 .. Len(s) /\ Len(s) \in Nat
  OBVIOUS
<1>2. CASE T = {}
  <2>1. body = [rest |-> s, tag |-> None]
    BY <1>2 DEF SplitTag
  <2>2. body.rest = s /\ body.tag = None
    BY <2>1
  <2>3. Prefixed(":", body.tag) = <<>>
    BY <2>2 DEF Prefixed
  <2>. HIDE DEF body
  <2>4. body.rest \o Prefixed(":", body.tag) = s
    BY <2>2, <2>3
  <2>. QED
    BY <2>2, <2>4 DEF body
<1>3. CASE T # {}
  <2>1. T \in SUBSET (0 .. Len(s))
    BY <1>1 DEF TagColon, Positions
  <2>2. i \in T
    <3>. HIDE DEF T
    <3>. QED
      BY <1>1, <1>3, <2>1, MaxIsGreatest
  <2>3. body = [rest |-> Before(s, i), tag |-> After(s, i)]
    BY <1>3 DEF SplitTag
  <2>. HIDE DEF i
  <2>4. i \in DOMAIN s /\ s[i] = ":" /\ ~Has(After(s, i), ":") /\ ~Has(After(s, i), "/")
    BY <2>2 DEF TagColon, Positions
  <2>5. /\ Before(s, i) \in Seq(STRING) /\ Len(Before(s, i)) = i - 1
        /\ After(s, i) \in Seq(STRING)
        /\ Before(s, i) \o (<<s[i]>> \o After(s, i)) = s
    BY <2>4, SplitAt
  <2>6. body.rest = Before(s, i) /\ body.tag = After(s, i)
    BY <2>3
  <2>. HIDE DEF body
  <2>7. After(s, i) # None
    BY <2>5, OciAssumption
  <2>8. Prefixed(":", body.tag) = <<s[i]>> \o After(s, i)
    BY <2>4, <2>6, <2>7 DEF Prefixed
  <2>9. body.rest \o Prefixed(":", body.tag) = s
    BY <2>5, <2>6, <2>8
  <2>10. body.rest = <<>> => s[1] = ":"
    <3>. SUFFICES ASSUME body.rest = <<>> PROVE s[1] = ":"
      OBVIOUS
    <3>1. i - 1 = 0
      <4>1. Len(<<>>) = 0
        OBVIOUS
      <4>. QED
        BY <2>5, <2>6, <4>1
    <3>. QED
      BY <1>1, <2>4, <3>1
  <2>. QED
    BY <2>4, <2>5, <2>6, <2>9, <2>10 DEF body
<1>. QED
  BY <1>2, <1>3

\* Splitting the registry off keeps all of the string; a registry has no slash.
LEMMA SplitRegistryIs ==
    ASSUME NEW s \in Seq(STRING)
    PROVE  LET path == SplitRegistry(s)
           IN  /\ path.repository \in Seq(STRING)
               /\ path.registry # None =>
                     path.registry \in Seq(STRING) /\ ~Has(path.registry, "/")
               /\ (IF path.registry = None THEN <<>> ELSE Append(path.registry, "/"))
                     \o path.repository = s
               /\ path.registry = None => path.repository = s
<1>. DEFINE path == SplitRegistry(s)
            slash == Min(Positions(s, "/"))
<1>1. CASE ~(Has(s, "/") /\ LooksLikeHost(Before(s, slash)))
  <2>1. path = [registry |-> None, repository |-> s]
    BY <1>1 DEF SplitRegistry
  <2>2. path.registry = None /\ path.repository = s
    BY <2>1
  <2>3. <<>> \o s = s
    OBVIOUS
  <2>. HIDE DEF path
  <2>. QED
    BY <2>2, <2>3 DEF path
<1>2. CASE Has(s, "/") /\ LooksLikeHost(Before(s, slash))
  <2>1. path = [registry |-> Before(s, slash), repository |-> After(s, slash)]
    BY <1>2 DEF SplitRegistry
  <2>2. path.registry = Before(s, slash) /\ path.repository = After(s, slash)
    BY <2>1
  <2>3. slash \in DOMAIN s /\ s[slash] = "/" /\ ~Has(Before(s, slash), "/")
    BY <1>2, FirstPosition
  <2>. HIDE DEF slash, path
  <2>. DEFINE b == Before(s, slash)
              a == After(s, slash)
  <2>4. /\ b \in Seq(STRING) /\ a \in Seq(STRING)
        /\ b \o (<<s[slash]>> \o a) = s
    BY <2>3, SplitAt
  <2>5. b # None
    BY <2>4, OciAssumption
  <2>. HIDE DEF a, b
  <2>6. "/" \in STRING /\ <<"/">> \in Seq(STRING)
    <3>. DEFINE c == s[slash]
    <3>1. c \in STRING /\ <<c>> \in Seq(STRING)
      BY <2>3
    <3>2. c = "/"
      BY <2>3
    <3>. HIDE DEF c
    <3>. QED
      BY <3>1, <3>2
  <2>7. Append(b, "/") = b \o <<"/">>
    BY <2>4, <2>6, AppendIsConcat
  <2>8. (b \o <<"/">>) \o a = b \o (<<"/">> \o a)
    BY <2>4, <2>6, ConcatAssociative
  <2>9. Append(b, "/") \o a = s
    BY <2>3, <2>4, <2>7, <2>8
  <2>. QED
    BY <2>2, <2>3, <2>4, <2>5, <2>9 DEF a, b, path
<1>. QED
  BY <1>1, <1>2

\* Trimming leaves a string, which has nothing to trim.
LEMMA TrimIs ==
    ASSUME NEW s \in Seq(STRING)
    PROVE  Trim(s) \in Seq(STRING) /\ Trim(Trim(s)) = Trim(s)
<1>. DEFINE blank == " "
            solid == {i \in DOMAIN s : s[i] # blank}
            t == Trim(s)
<1>1. DOMAIN s = 1 .. Len(s) /\ Len(s) \in Nat
  OBVIOUS
<1>2. CASE solid = {}
  <2>1. t = <<>>
    BY <1>2 DEF Trim
  <2>2. {i \in DOMAIN <<>> : <<>>[i] # " "} = {}
    OBVIOUS
  <2>3. Trim(<<>>) = <<>>
    BY <2>2 DEF Trim
  <2>. QED
    BY <2>1, <2>3
<1>3. CASE solid # {}
  <2>. HIDE DEF blank
  <2>. DEFINE lo == Min(solid)
              hi == Max(solid)
  <2>1. t = SubSeq(s, lo, hi)
    BY <1>3 DEF Trim, blank
  <2>2. solid \in SUBSET Nat /\ solid \in SUBSET (0 .. Len(s))
    BY <1>1
  <2>3. /\ lo \in solid /\ hi \in solid
        /\ lo <= hi
    <3>. HIDE DEF solid
    <3>. QED
      BY <1>1, <1>3, <2>2, MinIsLeast, MaxIsGreatest
  <2>4. /\ lo \in 1 .. Len(s) /\ hi \in 1 .. Len(s) /\ s[lo] # blank /\ s[hi] # blank
    BY <1>1, <2>3
  <2>. HIDE DEF lo, hi, t
  <2>. DEFINE n == hi - lo + 1
  <2>5. n \in Nat /\ 1 <= n
    BY <1>1, <2>3, <2>4
  <2>6. t \in Seq(STRING) /\ Len(t) = n /\ \A i \in 1 .. n : t[i] = s[lo + i - 1]
    <3>1. /\ lo \in Int /\ hi \in Int
          /\ \A i \in lo .. hi : s[i] \in STRING
      BY <1>1, <2>4
    <3>2. /\ SubSeq(s, lo, hi) \in Seq(STRING)
          /\ Len(SubSeq(s, lo, hi)) = IF lo <= hi THEN hi - lo + 1 ELSE 0
          /\ \A i \in 1 .. hi - lo + 1 : SubSeq(s, lo, hi)[i] = s[lo + i - 1]
      BY <3>1, SubSeqProperties
    <3>. QED
      BY <2>1, <2>3, <3>2
  <2>7. t[1] # blank /\ t[n] # blank
    <3>1. 1 \in 1 .. n /\ n \in 1 .. n /\ lo + 1 - 1 = lo /\ lo + n - 1 = hi
      BY <1>1, <2>4, <2>5
    <3>2. t[1] = s[lo] /\ t[n] = s[hi]
      BY <2>6, <3>1
    <3>. QED
      BY <2>4, <3>2
  <2>. HIDE DEF n
  <2>. DEFINE rest == {i \in DOMAIN t : t[i] # blank}
  <2>8. DOMAIN t = 1 .. n
    BY <2>6
  <2>9. 1 \in rest /\ n \in rest /\ rest \in SUBSET Nat /\ rest \in SUBSET (0 .. n)
    BY <2>5, <2>7, <2>8
  <2>10. \A i \in rest : 1 <= i /\ i <= n
    BY <2>5, <2>8
  <2>11. Trim(t) = SubSeq(t, Min(rest), Max(rest))
    BY <2>9 DEF Trim, blank
  <2>. HIDE DEF rest
  <2>12. /\ Min(rest) \in rest /\ \A i \in rest : Min(rest) <= i
         /\ Max(rest) \in rest /\ \A i \in rest : i <= Max(rest)
    BY <2>5, <2>9, MinIsLeast, MaxIsGreatest
  <2>13. Min(rest) = 1 /\ Max(rest) = n
    <3>. DEFINE a == Min(rest)
                b == Max(rest)
    <3>1. a \in Nat /\ b \in Nat /\ a <= 1 /\ 1 <= a /\ n <= b /\ b <= n
      BY <2>9, <2>10, <2>12
    <3>. HIDE DEF a, b
    <3>2. a = 1 /\ b = n
      BY <2>5, <3>1
    <3>. QED
      BY <3>2 DEF a, b
  <2>14. SubSeq(t, 1, n) = t
    BY <2>6, SubSeqFull
  <2>15. Trim(t) = t
    BY <2>11, <2>13, <2>14
  <2>. QED
    BY <2>6, <2>15 DEF t
<1>. QED
  BY <1>2, <1>3

\* What is parsed of a string, printed, is the string without the blanks around it.
LEMMA ParsedIs ==
    ASSUME NEW input \in Seq(STRING), ParseReference(input) # None
    PROVE  LET r == ParseReference(input)
           IN  /\ Printed(r) = Trim(input)
               /\ r.tag # None => ~Has(r.tag, "/") /\ ~Has(r.tag, ":")
               /\ r.registry # None => ~Has(r.registry, "/")
               /\ r.repository = <<>> => r.registry # None \/ r.tag # None
<1>. DEFINE s == Trim(input)
            at == Min(Positions(s, "@"))
            front == IF Has(s, "@") THEN Before(s, at) ELSE s
            digest == IF Has(s, "@") THEN After(s, at) ELSE None
            body == SplitTag(front)
            path == SplitRegistry(body.rest)
            r == ParseReference(input)
<1>1. s \in Seq(STRING)
  BY TrimIs
<1>2. ~Refused(s)
  BY DEF ParseReference
<1>3. r = [registry |-> path.registry, repository |-> path.repository, tag |-> body.tag,
           digest |-> digest]
  BY <1>2 DEF ParseReference
<1>10. s # <<>> /\ (Has(s, "@") => at # 1)
  BY <1>2 DEF Refused
<1>. HIDE DEF path, body, digest, front, at, s, r
<1>4. /\ r.registry = path.registry /\ r.repository = path.repository
      /\ r.tag = body.tag /\ r.digest = digest
  BY <1>3
<1>5. /\ front \in Seq(STRING) /\ front # <<>>
      /\ front \o Prefixed("@", digest) = s
  <2>1. CASE Has(s, "@")
    <3>1. front = Before(s, at) /\ digest = After(s, at)
      BY <2>1 DEF front, digest
    <3>2. at \in DOMAIN s /\ s[at] = "@"
      BY <1>1, <2>1, FirstPosition DEF at
    <3>4. /\ at \in 1 .. Len(s) /\ front \in Seq(STRING) /\ Len(front) = at - 1
          /\ \A j \in 1 .. (at - 1) : front[j] = s[j]
          /\ digest \in Seq(STRING)
          /\ front \o (<<s[at]>> \o digest) = s
      BY <1>1, <3>1, <3>2, SplitAt
    <3>6. digest # None
      BY <3>4, OciAssumption
    <3>7. Prefixed("@", digest) = <<s[at]>> \o digest
      BY <3>2, <3>6 DEF Prefixed
    <3>8. front # <<>>
      <4>1. Len(front) # 0
        BY <1>10, <2>1, <3>4
      <4>2. Len(<<>>) = 0
        OBVIOUS
      <4>. QED
        BY <4>1, <4>2
    <3>. QED
      BY <3>4, <3>7, <3>8
  <2>2. CASE ~Has(s, "@")
    <3>1. front = s /\ digest = None
      BY <2>2 DEF front, digest
    <3>2. Prefixed("@", digest) = <<>>
      BY <3>1 DEF Prefixed
    <3>4. s \o <<>> = s
      BY <1>1
    <3>. QED
      BY <1>1, <1>10, <3>1, <3>2, <3>4
  <2>. QED
    BY <2>1, <2>2
<1>6. /\ body.rest \in Seq(STRING)
      /\ body.tag # None => body.tag \in Seq(STRING)
      /\ body.rest \o Prefixed(":", body.tag) = front
      /\ body.tag # None => ~Has(body.tag, "/") /\ ~Has(body.tag, ":")
  BY <1>5, SplitTagIs DEF body
<1>7. /\ path.repository \in Seq(STRING)
      /\ path.registry # None => path.registry \in Seq(STRING) /\ ~Has(path.registry, "/")
      /\ (IF path.registry = None THEN <<>> ELSE Append(path.registry, "/"))
            \o path.repository = body.rest
  BY <1>6, SplitRegistryIs DEF path
<1>8. WithTag(r.registry, r.repository, r.tag) = front
  <2>. DEFINE host == IF path.registry = None THEN <<>> ELSE Append(path.registry, "/")
              tag == Prefixed(":", body.tag)
  <2>1. WithTag(r.registry, r.repository, r.tag) = (host \o path.repository) \o tag
    BY <1>4 DEF WithTag
  <2>2. host \o path.repository = body.rest
    BY <1>7
  <2>. HIDE DEF host
  <2>. QED
    BY <1>6, <2>1, <2>2
<1>9. Printed(r) = s
  BY <1>4, <1>5, <1>8 DEF Printed
<1>11. path.repository = <<>> => path.registry # None \/ body.tag # None
  <2>. SUFFICES ASSUME path.repository = <<>>, path.registry = None, body.tag = None
                PROVE  FALSE
    OBVIOUS
  <2>1. body.rest = <<>> /\ Prefixed(":", body.tag) = <<>>
    BY <1>7 DEF Prefixed
  <2>. QED
    BY <1>5, <1>6, <2>1
<1>. QED
  BY <1>4, <1>6, <1>7, <1>9, <1>11 DEF r, s

\* A reference is what it was parsed from (oci.rs:93-115, :140-213): printing it gives the
\* trimmed input, and parsing that gives it again, for strings of every length; and only
\* before a tag or after a host is its repository missing.
THEOREM ReferenceIsFaithfulAlways == OciSpec => []ReferenceIsFaithful
<1>. DEFINE Inv == /\ reference \in References
                   /\ parsed # None => parsed = ParseReference(reference)
<1>1. OciInit => Inv
  BY DEF OciInit
<1>2. Inv /\ [ParseStep]_ociVars => Inv'
  BY DEF ParseStep, ociVars
<1>3. Inv => ReferenceIsFaithful
  <2>. SUFFICES ASSUME reference \in References, parsed # None,
                       parsed = ParseReference(reference)
                PROVE  ReferenceIsFaithful
    BY DEF ReferenceIsFaithful
  <2>1. reference \in Seq(STRING)
    BY OciAssumption
  <2>2. /\ Printed(parsed) = Trim(reference)
        /\ parsed.tag # None => ~Has(parsed.tag, "/") /\ ~Has(parsed.tag, ":")
        /\ parsed.registry # None => ~Has(parsed.registry, "/")
        /\ parsed.repository = <<>> => parsed.registry # None \/ parsed.tag # None
    BY <2>1, ParsedIs
  <2>3. Trim(Trim(reference)) = Trim(reference)
    BY <2>1, TrimIs
  <2>4. ParseReference(Trim(reference)) = ParseReference(reference)
    BY <2>3 DEF ParseReference
  <2>5. ParseReference(Printed(parsed)) = parsed
    BY <2>2, <2>4
  <2>. QED
    BY <2>2, <2>5 DEF ReferenceIsFaithful
<1>. QED
  BY <1>1, <1>2, <1>3, PTL DEF OciSpec
=============================================================================
