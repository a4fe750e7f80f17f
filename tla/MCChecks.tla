------------------------------ MODULE MCChecks ------------------------------
(***************************************************************************)
(* The parts that do not interact, one of them per behaviour: the checks   *)
(* of the CLI and the port types on bounded inputs (the admission of a     *)
(* manifest, the evidence of an answer, a reference to an image), and the  *)
(* adapters under concurrent callers (the instance registry, the Go shim,  *)
(* a container runtime, the composing and publishing ports), and one call  *)
(* of the nvms helper, whose request is more than a pipe holds and whose   *)
(* answers are below, at and above the limit, in reads of one or two units.*)
(***************************************************************************)
EXTENDS Admission, Evidence, OciReference, InstanceRegistry, GoShim, RuntimePort, Ports,
        NvmsProcess

VARIABLE part

SeqsUpTo(S, n) == UNION {[1..k -> S] : k \in 0..n}

-----------------------------------------------------------------------------
TheRoots == [prefix : BOOLEAN, rooted : BOOLEAN, parts : SeqsUpTo({"normal", "cur", "parent"}, 2)]
SomeRoots ==
    {[prefix |-> FALSE, rooted |-> FALSE, parts |-> <<"cur", "normal">>],
     [prefix |-> FALSE, rooted |-> FALSE, parts |-> <<>>]}

AnAction(root) == [known |-> TRUE, command |-> TRUE, declared |-> TRUE, root |-> root]
Good ==
    [name |-> <<"lower">>, runtime |-> "podman", compatibility |-> TRUE,
     providers |-> <<[capability |-> "lifecycle", status |-> "available"]>>,
     healthCheck |-> FALSE, artifacts |-> FALSE, removeVolumes |-> FALSE,
     near |-> "nvidia", far |-> "none", cuda |-> TRUE,
     action |-> AnAction([prefix |-> FALSE, rooted |-> FALSE, parts |-> <<"normal">>])]

Named == {[Good EXCEPT !.name = n] : n \in SeqsUpTo(CharClasses, 4)}
Rooted == {[Good EXCEPT !.action = AnAction(r)] : r \in TheRoots}
Declared ==
    {[Good EXCEPT !.providers = p, !.runtime = r, !.healthCheck = h, !.artifacts = a, !.far = f] :
        p \in SeqsUpTo([capability : {"lifecycle", "other"},
                        status : {"available", "placeholder", "unsupported"}], 2),
        r \in {"podman", "nvms", "placeholder"}, h \in BOOLEAN, a \in BOOLEAN,
        f \in {"none", "nvidia", "amd"}}
Acting ==
    {[Good EXCEPT !.near = n, !.far = f, !.cuda = c, !.compatibility = k, !.removeVolumes = v,
                  !.action = a] :
        n \in {"none", "nvidia", "amd", "empty", "ordinal"},
        f \in {"none", "nvidia", "amd", "empty", "ordinal"},
        c \in BOOLEAN, k \in BOOLEAN, v \in BOOLEAN,
        a \in [known : BOOLEAN, command : BOOLEAN, declared : BOOLEAN, root : SomeRoots]}
TheManifests == Named \cup Rooted \cup Declared \cup Acting

-----------------------------------------------------------------------------
TheRaw == [TextStreams -> SeqsUpTo({0, 1, 2}, 3)]
Texts == SeqsUpTo({1, 3}, 3)
Lifecycles ==
    {[text |-> [s \in TextStreams |-> IF s = "stdout" THEN t ELSE u],
      sha |-> [s \in TextStreams |-> IF s = "stdout" THEN d ELSE Sha256(u)],
      exit |-> x, duration |-> e, timedOut |-> o, truncated |-> c] :
        t \in Texts, u \in {<<>>, <<1, 3>>, <<3, 3>>},
        d \in {Sha256(<<1, 1>>), Sha256(<<1, 3, 1>>), Sha256(<<1>>), NoDigest},
        x \in {0, 1}, e \in {0, 5, 6}, o \in BOOLEAN, c \in BOOLEAN}
AnswerOf(l) ==
    [lifecycle |-> l, claims |-> "as requested", jobDirectory |-> "child", gpus |-> <<1, 2>>,
     success |-> TRUE, released |-> TRUE, error |-> ""]
TheAnswers ==
    {[AnswerOf(l) EXCEPT !.success = s] : l \in Lifecycles, s \in BOOLEAN}
    \cup {[AnswerOf(Nothing) EXCEPT !.gpus = g, !.claims = m, !.jobDirectory = j, !.released = r,
                                    !.error = e] :
            g \in {<<1, 2>>, <<2, 1>>, <<1>>, <<1, 2, 2>>},
            m \in {"as requested", "nvms_version_mismatch", "nvms_manifest_mismatch",
                   "nvms_route_mismatch", "nvms_pipe_mismatch"},
            j \in {"", "child", "elsewhere"}, r \in BOOLEAN, e \in {"", "failed"}}

Tag(k, v) == [key |-> k, value |-> v]
ImageTag(i) == Tag("image", i)
TheImages == {<<"img">>, <<"old">>}
AManifest == [name |-> "web", artifact_name |-> Unset, tags |-> <<ImageTag(<<"img">>)>>]
ComposedManifests ==
    {AManifest,
     [AManifest EXCEPT !.name = ""],
     [AManifest EXCEPT !.tags = <<>>],
     [AManifest EXCEPT !.artifact_name = <<>>, !.tags = <<Tag("version", <<"1">>)>>],
     [AManifest EXCEPT !.artifact_name = <<"explicit">>,
                       !.tags = <<Tag("version", <<"1">>), ImageTag(<<"img">>), ImageTag(<<"old">>)>>]}
TheTargets ==
    [kind : {"podman-local"}, locator : TheImages] \cup
    {[kind |-> "registry", locator |-> <<"img">>], [kind |-> "registry", locator |-> <<>>]}
TheOverrides ==
    [composer |-> {"noop", "counting", "prebuilt"},
     publisher |-> {"noop", "recording", "podman-local"}, runtime |-> {}, secrets |-> {"file"}]

\* Container 1 is "web", container 2 "web-2".
TheMentions == {<<1, 2>>}

TheReferences == SeqsUpTo({"a", ".", ":", "/", "@", " "}, 6)

TheLimits == [s \in Streams |-> IF s = "out" THEN 3 ELSE 1]
TheScripts ==
    [eager : BOOLEAN, good : BOOLEAN, keeps : BOOLEAN, out : {0, 3, 4}, err : {0, 2}]

-----------------------------------------------------------------------------
AdmissionRests == manifest = Good /\ windows = FALSE /\ stage = "submitted" /\ verdict = "ok"

\* The call that was made before another part begins.
CallMade(s) ==
    /\ client = "lifecycle" /\ script = s
    /\ pc = "done" /\ status = "none" /\ result = [NoResult EXCEPT !.code = "nvms_spawn"]
    /\ child = "none" /\ code = -1 /\ left = FALSE /\ unsent = Request /\ stdin = 0
    /\ wrote = [t \in Streams |-> 0] /\ pipe = [t \in Streams |-> 0]
    /\ reader = [t \in Streams |-> "none"]
    /\ kept = [t \in Streams |-> 0] /\ truncated = [t \in Streams |-> FALSE]
SomeScript == [eager |-> FALSE, good |-> TRUE, keeps |-> FALSE, out |-> 3, err |-> 0]

checkVars ==
    <<part, admissionVars, evidenceVars, ociVars, registryVars, goVars, runtimeVars, portVars,
      vars>>

MCInit ==
    /\ part \in {"admission", "evidence", "reference", "registry", "go", "runtime", "ports", "nvms"}
    /\ EvidenceInit /\ RegistryInit /\ GoInit /\ PortsInit
    /\ IF part = "admission" THEN AdmissionInit ELSE AdmissionRests
    /\ IF part = "reference" THEN OciInit ELSE reference = <<>> /\ parsed = None
    /\ RuntimeInit /\ (part # "runtime" => adapter = "noop")
    /\ IF part = "nvms" THEN Init ELSE CallMade(SomeScript)

MCNext ==
    /\ UNCHANGED part
    /\ IF part = "admission" THEN AdmissionStep ELSE UNCHANGED admissionVars
    /\ IF part = "evidence" THEN EvidenceStep ELSE UNCHANGED evidenceVars
    /\ IF part = "reference" THEN ParseStep ELSE UNCHANGED ociVars
    /\ IF part = "registry" THEN RegistryStep ELSE UNCHANGED registryVars
    /\ IF part = "go" THEN GoStep ELSE UNCHANGED goVars
    /\ IF part = "runtime" THEN RuntimeStep ELSE UNCHANGED runtimeVars
    /\ IF part = "ports" THEN PortsStep ELSE UNCHANGED portVars
    /\ IF part = "nvms" THEN Next ELSE UNCHANGED vars

\* The fairness of NvmsProcess!FairSpec; the other parts only keep what holds.
MCSpec ==
    /\ MCInit /\ [][MCNext]_checkVars
    /\ WF_vars(Cli) /\ WF_vars(HelperWorks)
    /\ \A s \in Streams : WF_vars(Reader(s))
=============================================================================
