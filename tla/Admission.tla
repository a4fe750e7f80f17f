----------------------------- MODULE Admission -----------------------------
(***************************************************************************)
(* What a manifest passes on its way to an executed action: the checks of  *)
(* `validate` when it is read, of `apply` before anything is created, and  *)
(* of `run-action` on what apply persisted (phenocompose-cli/src/model.rs, *)
(* lib.rs, service_graph.rs).  The three invocations happen at different   *)
(* times and each has its own checks; the later ones index and unwrap what *)
(* the earlier ones are to have made sure of.                              *)
(*                                                                         *)
(* The manifest has a service the action runs in, with what it depends on  *)
(* (`near`), and another service (`far`); the order of services is         *)
(* ServiceGraph's, the closure of an action ActionClosure's.               *)
(***************************************************************************)
EXTENDS Gates

CONSTANTS
    Submitted, \* the manifests that are submitted
    Hosts,     \* whether paths are Windows paths: a subset of BOOLEAN
    MaxSlug,   \* the length of the longest slug (128)
    HashLen    \* what a run id has of the digest (12)

-----------------------------------------------------------------------------
\* What the checks tell apart of a manifest: the GPU of a service is none, of a
\* vendor, without a selector, or with one that is no UUID; cuda is the toolkit.

ProviderDeclaration ==
    [capability : {"lifecycle", "other"}, status : {"available", "placeholder", "unsupported"}]
GpuRequirements == {"none", "nvidia", "amd", "empty", "ordinal"}
Path == [prefix : BOOLEAN, rooted : BOOLEAN, parts : Seq({"normal", "cur", "parent"})]
Action == [known : BOOLEAN, command : BOOLEAN, declared : BOOLEAN, root : Path]

CompositionManifest ==
    [name : Seq(CharClasses), runtime : {"podman", "nvms", "placeholder"},
     compatibility : BOOLEAN, cuda : BOOLEAN, providers : Seq(ProviderDeclaration),
     near : GpuRequirements, far : GpuRequirements, healthCheck : BOOLEAN,
     artifacts : BOOLEAN, removeVolumes : BOOLEAN, action : Action]

ASSUME AdmissionAssumption ==
    /\ Submitted \subseteq CompositionManifest
    /\ HashLen \in Nat \ {0} /\ MaxSlug \in Nat /\ HashLen < MaxSlug
    /\ Hosts \subseteq BOOLEAN

VARIABLES
    manifest, windows,
    stage,    \* "submitted", "parsed", "admitted", "persisted", "routed", "bound", "requested"
    verdict   \* "ok", or the code of the refusal

admissionVars == <<manifest, windows, stage, verdict>>

AdmissionInit ==
    /\ manifest \in Submitted /\ windows \in Hosts
    /\ manifest.action.root.prefix => windows
    /\ stage = "submitted" /\ verdict = "ok"

\* The manifest passes gate and reaches stage next, or is refused.
Pass(from, gate, next) ==
    /\ stage = from /\ verdict = "ok"
    /\ verdict' = Verdict(gate)
    /\ stage' = IF verdict' = "ok" THEN next ELSE stage
    /\ UNCHANGED <<manifest, windows>>

-----------------------------------------------------------------------------
\* CompositionManifest::parse: validate, as far as it concerns these fields.  The
\* services are looked at one after the other.

Gpus(m) == {m.near, m.far}

SelectorGate(gpu) ==
    << Refuse(gpu = "empty", "gpu_selector_empty"),
       Refuse(gpu = "ordinal", "gpu_selector_invalid") >>

NameGate(m) == << Refuse(IsBlank(m.name), "metadata_name") >>

ActionGate(a) ==
    << Refuse(~a.known \/ ~a.command, "action_invalid"),
       Refuse(~a.declared, "action_output_root_missing"),
       Refuse(IsEmptyRoot(a.root), "action_output_root_empty") >>

ValidateGate(m) ==
    NameGate(m) \o SelectorGate(m.near) \o SelectorGate(m.far) \o ActionGate(m.action)

Parse == Pass("submitted", ValidateGate(manifest), "parsed")

-----------------------------------------------------------------------------
\* apply: ensure_apply_capabilities and ensure_service_lifecycle_capability,
\* over the provider declarations in the order of their names.

Lifecycle(d) == d.capability = "lifecycle"

LifecycleAvailable(m) ==
    \E i \in DOMAIN m.providers :
        Lifecycle(m.providers[i]) /\ m.providers[i].status = "available"

\* Mutant: no vendor is looked at before the services run.
VendorUnchecked(m) == FALSE

ForeignVendor(m) == "amd" \in Gpus(m)

ApplyGate(m) == <<
    Refuse(m.runtime = "nvms", "nvms_persistence_unsupported"),
    Refuse(m.runtime = "placeholder", "runtime_provider_placeholder"),
    Refuse(\E i \in DOMAIN m.providers :
               ~Lifecycle(m.providers[i]) /\ m.providers[i].status # "available",
           "provider_unavailable"),
    Refuse(LifecycleAvailable(m) /\ m.healthCheck, "health_check_unsupported"),
    Refuse(m.artifacts, "artifact_publication_unsupported"),
    Refuse(m.removeVolumes, "volume_teardown_unsupported"),
    Refuse(ForeignVendor(m), "gpu_vendor_unsupported") >>

EnsureApplyCapabilities == Pass("parsed", ApplyGate(manifest), "admitted")

\* The first declaration of the capability decides, not any of them.
\* Mutant: no declaration counts as an available one.
LifecycleGateOpen(m) ==
    << Refuse(m.providers # <<>> /\ ~LifecycleAvailable(m), "service_lifecycle_unsupported") >>

LifecycleGate(m) ==
    LET declared == {i \in DOMAIN m.providers : Lifecycle(m.providers[i])}
        First(status) == declared # {} /\ m.providers[Min(declared)].status = status
    IN  << Refuse(declared = {}, "service_lifecycle_undeclared"),
           Refuse(First("placeholder"), "service_lifecycle_placeholder"),
           Refuse(First("unsupported"), "service_lifecycle_unsupported") >>

EnsureServiceLifecycle == Pass("admitted", LifecycleGate(manifest), "persisted")

-----------------------------------------------------------------------------
\* run-action, and status and down with the first of its checks, on the state
\* apply persisted under the run id.

Addressable(m) == ValidSlug(RunId(m.name, HashLen), MaxSlug)

RouteGate(m) == <<
    Refuse(~Addressable(m), "run_id_invalid"),
    Refuse(m.runtime # "podman" \/ ~m.compatibility, "action_route_rejected") >>

EnsureActionRoute == Pass("persisted", RouteGate(manifest), "routed")

\* The services of the closure of the action: it and what it depends on.
BindingGate(m) == <<
    Refuse(m.near = "amd", "gpu_vendor_unsupported"),
    Refuse(m.near # "none" /\ ~m.cuda, "toolkit_missing"),
    Refuse(m.near = "ordinal", "gpu_selector_invalid"),
    Refuse(m.near \in {"none", "empty"}, "gpu_binding_missing") >>

BindGpus == Pass("routed", BindingGate(manifest), "bound")

\* The directory the CLI runs in.
Base == [prefix |-> windows, rooted |-> TRUE, parts |-> <<"normal">>]

RequestGate(m) ==
    << Refuse(~m.action.command, "action_command_empty"),
       Refuse(~m.action.declared, "action_output_root_missing") >>
    \o OutputRootGate(Base, m.action.root, windows)

BuildRequest == Pass("bound", RequestGate(manifest), "requested")

AdmissionStep ==
    \/ Parse \/ EnsureApplyCapabilities \/ EnsureServiceLifecycle
    \/ EnsureActionRoute \/ BindGpus \/ BuildRequest

AdmissionSpec == AdmissionInit /\ [][AdmissionStep]_admissionVars

-----------------------------------------------------------------------------
Persisted == stage \in {"persisted", "routed", "bound", "requested"}

\* What apply goes on to create is something it can create: Podman, no health
\* check, artifact, volume removal or GPU of another vendor, every capability but
\* the lifecycle available, and that one by its first declaration.  The health check
\* is looked at only where some declaration is available (lib.rs:1002-1012), and
\* a later check has to refuse the rest (service_graph.rs:109-137).
AdmittedIsSupported ==
    Persisted =>
        /\ manifest.runtime = "podman"
        /\ ~manifest.healthCheck /\ ~manifest.artifacts /\ ~manifest.removeVolumes
        /\ Gpus(manifest) \subseteq {"none", "nvidia"}
        /\ \E i \in DOMAIN manifest.providers :
              /\ Lifecycle(manifest.providers[i])
              /\ manifest.providers[i].status = "available"
              /\ \A j \in 1..(i - 1) : ~Lifecycle(manifest.providers[j])
        /\ \A i \in DOMAIN manifest.providers :
              manifest.providers[i].status = "available"
                \/ Lifecycle(manifest.providers[i])

\* A run that was created is refused by its later commands only for what apply does
\* not look at: a run id that is no slug, the compatibility block, the toolkit, an
\* action without a GPU, and what the output root resolves to.  What the later
\* commands index or unwrap (the service of the action, its command, its
\* output root, a valid selector) is there (lib.rs:249-255, :422-466, :623-638).
LateRefusalIsExplained ==
    (Persisted /\ verdict # "ok") =>
        \/ /\ verdict = "run_id_invalid"
           /\ ~IsAlnum(manifest.name[1]) \/ Len(manifest.name) + 1 + HashLen > MaxSlug
        \/ verdict = "action_route_rejected" /\ ~manifest.compatibility
        \/ verdict = "toolkit_missing" /\ ~manifest.cuda
        \/ verdict = "gpu_binding_missing" /\ manifest.near = "none"
        \/ verdict \in {"action_output_root_ambiguous", "action_output_root_traversal"}

\* An output root that is relative stays inside the directory the CLI runs in, and
\* none that is accepted climbs (lib.rs:905-961).
RootStaysInside ==
    stage = "requested" =>
        LET root == manifest.action.root
            resolved == ResolveOutputRoot(Base, root, windows)
        IN  /\ IsAbsolute(resolved, windows)
            /\ \A i \in DOMAIN resolved.parts : resolved.parts[i] = "normal"
            /\ ~IsAbsolute(root, windows) =>
                  /\ resolved.prefix = Base.prefix
                  /\ Len(Base.parts) <= Len(resolved.parts)
                  /\ SubSeq(resolved.parts, 1, Len(Base.parts)) = Base.parts
=============================================================================
