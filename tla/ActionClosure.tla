--------------------------- MODULE ActionClosure ---------------------------
(***************************************************************************)
(* action_gpu_bindings (lib.rs): which services an action depends on and   *)
(* which GPUs it is bound to.  The traversal marks a service on entry and  *)
(* has no cycle check: it relies on the manifest having been accepted by   *)
(* service_order, which ServiceGraph models and this module starts from.   *)
(***************************************************************************)
EXTENDS ServiceGraph

CONSTANT Uuids   \* GPU selectors, in canonical form

VARIABLES action,    \* the action's service, 0 before run-action is called
          gpu,       \* gpu[s]: the service's GPU request
          cuda,      \* the environment names a versioned CUDA toolkit
          calls,     \* visit's pending calls, outermost first
          taken,     \* taken[s]: dependencies s's loop has taken
          seen,      \* visit's set
          closure,   \* visit's output, then dependency_services
          scanned,   \* how far the GPU loop is along closure
          uuids,     \* the bindings collected
          answer     \* "none", or the result of action_gpu_bindings

closureVars == <<action, gpu, cuda, calls, taken, seen, closure, scanned, uuids, answer>>

\* validate: a service selects no GPU or a non-empty list of them.
GpuRequests ==
    [vendor : {"none"}, uuids : {{}}]
      \cup [vendor : {"nvidia", "amd"}, uuids : SUBSET Uuids \ {{}}]

ClosureInit ==
    /\ action = 0
    /\ gpu = [s \in Services |-> [vendor |-> "none", uuids |-> {}]]
    /\ cuda = FALSE
    /\ calls = <<>>
    /\ taken = [s \in Services |-> 0]
    /\ seen = {}
    /\ closure = <<>>
    /\ scanned = 0
    /\ uuids = {}
    /\ answer = "none"

Inner == calls[Len(calls)]

\* Mutant: a traversal of the direct dependencies only.
VisitDirect(s) ==
    IF s \in seen \/ Len(calls) >= 2
    THEN UNCHANGED <<calls, seen>>
    ELSE calls' = Append(calls, s) /\ seen' = seen \cup {s}

\* visit's guard: `visited.insert` is true for a service seen first.
Visit(s) ==
    \/ s \in seen /\ UNCHANGED <<calls, seen>>
    \/ /\ s \notin seen
       /\ calls' = Append(calls, s)
       /\ seen' = seen \cup {s}

\* run-action on an accepted manifest: visit(action.service).
Choose ==
    /\ status = "ok"
    /\ action = 0
    /\ action' \in Services
    /\ gpu' \in [Services -> GpuRequests]
    /\ cuda' \in BOOLEAN
    /\ calls' = <<action'>>
    /\ seen' = {action'}
    /\ UNCHANGED <<taken, closure, scanned, uuids, answer>>

\* Mutant: a dependency already seen does not advance the loop.
VisitNextStuck ==
    /\ calls # <<>>
    /\ taken[Inner] < Len(deps[Inner])
    /\ Visit(deps[Inner][taken[Inner] + 1])
    /\ taken' = IF deps[Inner][taken[Inner] + 1] \in seen
                THEN taken ELSE [taken EXCEPT ![Inner] = @ + 1]
    /\ UNCHANGED <<action, gpu, cuda, closure, scanned, uuids, answer>>

\* The loop of visit over depends_on.
VisitNext ==
    /\ calls # <<>>
    /\ taken[Inner] < Len(deps[Inner])
    /\ Visit(deps[Inner][taken[Inner] + 1])
    /\ taken' = [taken EXCEPT ![Inner] = @ + 1]
    /\ UNCHANGED <<action, gpu, cuda, closure, scanned, uuids, answer>>

\* The end of visit.
Push ==
    /\ calls # <<>>
    /\ taken[Inner] = Len(deps[Inner])
    /\ closure' = Append(closure, Inner)
    /\ calls' = SubSeq(calls, 1, Len(calls) - 1)
    /\ UNCHANGED <<action, gpu, cuda, taken, seen, scanned, uuids, answer>>

Scanning == action # 0 /\ calls = <<>> /\ answer = "none"
Candidate == gpu[closure[scanned + 1]]

\* Mutant: another vendor's GPU is passed over.
ScanAnyVendor ==
    /\ Scanning
    /\ scanned < Len(closure)
    /\ \/ /\ Candidate.vendor # "nvidia"
          /\ UNCHANGED <<uuids, answer>>
       \/ /\ Candidate.vendor = "nvidia" /\ ~ cuda
          /\ answer' = "toolkit_missing"
          /\ UNCHANGED uuids
       \/ /\ Candidate.vendor = "nvidia" /\ cuda
          /\ uuids' = uuids \cup Candidate.uuids
          /\ UNCHANGED answer
    /\ scanned' = scanned + 1
    /\ UNCHANGED <<action, gpu, cuda, calls, taken, seen, closure>>

\* The loop over the closure: no GPU, a foreign vendor, no toolkit, selectors.
ScanService ==
    /\ Scanning
    /\ scanned < Len(closure)
    /\ \/ /\ Candidate.vendor = "none"
          /\ UNCHANGED <<uuids, answer>>
       \/ /\ Candidate.vendor \notin {"none", "nvidia"}
          /\ answer' = "gpu_vendor_unsupported"
          /\ UNCHANGED uuids
       \/ /\ Candidate.vendor = "nvidia" /\ ~ cuda
          /\ answer' = "toolkit_missing"
          /\ UNCHANGED uuids
       \/ /\ Candidate.vendor = "nvidia" /\ cuda
          /\ uuids' = uuids \cup Candidate.uuids
          /\ UNCHANGED answer
    /\ scanned' = scanned + 1
    /\ UNCHANGED <<action, gpu, cuda, calls, taken, seen, closure>>

Bind ==
    /\ Scanning
    /\ scanned = Len(closure)
    /\ answer' = IF uuids = {} THEN "gpu_binding_missing" ELSE "bound"
    /\ UNCHANGED <<action, gpu, cuda, calls, taken, seen, closure, scanned, uuids>>

ClosureStep ==
    \/ Choose \/ VisitNext \/ Push \/ ScanService \/ Bind

-----------------------------------------------------------------------------

ClosureTypeOK ==
    /\ action \in 0 .. NServices
    /\ gpu \in [Services -> GpuRequests]
    /\ cuda \in BOOLEAN
    /\ calls \in Seq(Services)
    /\ taken \in [Services -> Nat]
    /\ seen \subseteq Services
    /\ closure \in Seq(Services)
    /\ scanned \in 0 .. Len(closure)
    /\ uuids \subseteq Uuids
    /\ answer \in {"none", "bound", "gpu_vendor_unsupported", "toolkit_missing",
                   "gpu_binding_missing"}

InClosure == {closure[i] : i \in DOMAIN closure}

ClosedUnderDependencies(set) ==
    \A s \in set : \A k \in DOMAIN deps[s] : deps[s][k] \in set

\* The recorded dependency_services are the action's service and everything
\* it depends on, directly or not: the least closed set that holds it.
ClosureIsReachability ==
    Scanning =>
        /\ action \in InClosure
        /\ ClosedUnderDependencies(InClosure)
        /\ \A set \in SUBSET Services :
             (action \in set /\ ClosedUnderDependencies(set)) => InClosure \subseteq set

\* They are listed once each, in an order in which service_order, too, could
\* have listed them: without a cycle check of its own, visit leaves a service
\* only after everything below it.
ClosureIsOrdered ==
    Scanning =>
        \A j \in DOMAIN closure :
            /\ \A i \in 1 .. j - 1 : closure[i] # closure[j]
            /\ \A k \in DOMAIN deps[closure[j]] :
                 \E i \in 1 .. j - 1 : closure[i] = deps[closure[j]][k]

\* An action is bound to exactly the GPUs its closure selects, and only if
\* the closure needs no GPU of another vendor.
BindingsCoverTheClosure ==
    answer = "bound" =>
        /\ uuids = UNION {gpu[s].uuids : s \in InClosure}
        /\ \A s \in InClosure : gpu[s].vendor \in {"none", "nvidia"}
        /\ cuda

\* action_gpu_bindings returns.
BindingEnds == [](action # 0 => <>(answer # "none"))
=============================================================================
