------------------------------- MODULE Ports -------------------------------
(***************************************************************************)
(* The Composer and Publisher ports (port-composer, port-publisher), the   *)
(* container that wires them (port-di) and the adapters of the CLI: a      *)
(* manifest is composed into an artifact, and the artifact published for a *)
(* receipt, by pipelines that share the adapters.  A string that adapters  *)
(* put together is the tuple of its pieces; <<>> is the empty one.         *)
(***************************************************************************)
EXTENDS Naturals, Sequences, FiniteSetsExt

CONSTANTS
    Pipelines,  \* threads that share a container
    Overrides,  \* Overrides[port]: the adapters a builder may be given
    Manifests, Targets,
    Images,     \* images that come to and go from Podman's local storage
    MaxCalls,   \* bound on the calls of compose
    Unset

StringPieces == Seq(STRING)
PortManifest ==
    [name : STRING, artifact_name : {Unset} \cup StringPieces,
     tags : Seq([key : STRING, value : StringPieces])]
PublishTarget == [kind : STRING, locator : StringPieces]

ASSUME PortsAssumption ==
    /\ Manifests \subseteq PortManifest
    /\ Targets \subseteq PublishTarget
    /\ MaxCalls \in Nat

VARIABLES
    builder,     \* ContainerBuilder: the override of each port, or Unset
    container,   \* Container: the adapter of each port
    images,      \* what Podman's local storage holds
    call_count,  \* of CountingComposer
    calls,       \* of RecordingPublisher
    inHand,      \* inHand[p]: the manifest and the artifact p has composed
    outcome,     \* outcome[p]: the error code p ended its last call with, or "ok"
    asked,       \* for the property: how often compose was called
    receipts     \* for the property: what publish has answered

portVars ==
    <<builder, container, images, call_count, calls, inHand, outcome, asked, receipts>>

PortNames == {"composer", "publisher", "runtime", "secrets"}
Defaults ==
    [composer |-> "noop", publisher |-> "noop", runtime |-> "noop", secrets |-> "in-memory"]
Unwired == [port \in PortNames |-> Unset]
NoArtifact == [manifest |-> Unset, artifact |-> Unset]

PortsInit ==
    /\ builder = Unwired /\ container = Unwired
    /\ images = Images
    /\ call_count = 0 /\ calls = <<>>
    /\ inHand = [p \in Pipelines |-> NoArtifact]
    /\ outcome = [p \in Pipelines |-> "ok"]
    /\ asked = 0 /\ receipts = <<>>

-----------------------------------------------------------------------------
\* ContainerBuilder: with_* replaces the adapter of a port; build consumes the builder.

With(port, adapter) ==
    /\ container = Unwired
    /\ builder' = [builder EXCEPT ![port] = adapter]
    /\ UNCHANGED <<container, images, call_count, calls, inHand, outcome, asked, receipts>>

Build ==
    /\ container = Unwired
    /\ container' =
          [port \in PortNames |-> IF builder[port] = Unset THEN Defaults[port] ELSE builder[port]]
    /\ builder' = Unwired
    /\ UNCHANGED <<images, call_count, calls, inHand, outcome, asked, receipts>>

\* External: `podman pull` and `podman rmi` of others.
ImagesChange(i) ==
    /\ images' = IF i \in images THEN images \ {i} ELSE images \cup {i}
    /\ UNCHANGED <<builder, container, call_count, calls, inHand, outcome, asked, receipts>>

-----------------------------------------------------------------------------
\* Composer::compose.

ImageTags(m) == {k \in DOMAIN m.tags : m.tags[k].key = "image"}

\* Mutant: the last image tag of a manifest decides.
LastImage(m) == m.tags[Max(ImageTags(m))].value

FirstImage(m) == m.tags[Min(ImageTags(m))].value

ComposeInvalid(m) ==
    IF container.composer = "prebuilt" THEN ImageTags(m) = {} ELSE m.name = ""

Suffix == [noop |-> "noop", counting |-> "counted", prebuilt |-> "prebuilt"]

\* Only NoopComposer looks at artifact_name, and only it copies the tags.
ArtifactId(m) ==
    IF container.composer = "noop" /\ m.artifact_name # Unset THEN m.artifact_name
    ELSE <<m.name, Suffix[container.composer]>>
ComposedArtifact(m) ==
    [id    |-> ArtifactId(m),
     image |-> IF container.composer # "counting" /\ ImageTags(m) # {} THEN FirstImage(m)
               ELSE ArtifactId(m),
     tags  |-> IF container.composer = "noop" THEN m.tags ELSE <<>>]

\* Mutant: CountingComposer counts the calls that succeed.
CountSuccesses(m) ==
    call_count + IF container.composer = "counting" /\ ~ComposeInvalid(m) THEN 1 ELSE 0

Count(m) == call_count + IF container.composer = "counting" THEN 1 ELSE 0

Compose(p, m) ==
    /\ container # Unwired /\ inHand[p] = NoArtifact /\ asked < MaxCalls
    /\ asked' = asked + 1
    /\ call_count' = Count(m)
    /\ \/ /\ ComposeInvalid(m)
          /\ outcome' = [outcome EXCEPT ![p] = "compose_failed"]
          /\ UNCHANGED inHand
       \/ /\ ~ComposeInvalid(m)
          /\ inHand' = [inHand EXCEPT ![p] = [manifest |-> m, artifact |-> ComposedArtifact(m)]]
          /\ outcome' = [outcome EXCEPT ![p] = "ok"]
    /\ UNCHANGED <<builder, container, images, calls, receipts>>

-----------------------------------------------------------------------------
\* Publisher::publish.

PublishInvalid(a, target) ==
    CASE container.publisher = "noop" -> a.id = <<>> \/ target.locator = <<>>
      [] container.publisher = "recording" -> a.id = <<>>
      [] OTHER -> target.kind # "podman-local" \/ target.locator # a.image

\* The target is wrong; or the command cannot be run; or the image is not there.
PublishFails(p, target) ==
    /\ inHand[p] # NoArtifact
    /\ PublishInvalid(inHand[p].artifact, target) \/ container.publisher = "podman-local"
    /\ inHand' = [inHand EXCEPT ![p] = NoArtifact]
    /\ outcome' = [outcome EXCEPT ![p] = "publish_failed"]
    /\ UNCHANGED <<builder, container, images, call_count, calls, asked, receipts>>

PublishedAt(a, target) ==
    CASE container.publisher = "noop" -> target.locator
      [] container.publisher = "recording" -> <<"recording", target.kind>> \o a.id
      [] OTHER -> <<"podman-local">> \o a.image

\* `podman image exists`, of the artifact's image.
ImageExists(a) == a.image \in images

Record(a, target) ==
    IF container.publisher = "recording" THEN Append(calls, [artifact |-> a, target |-> target])
    ELSE calls

Publish(p, target) ==
    /\ inHand[p] # NoArtifact
    /\ LET a == inHand[p].artifact
       IN  /\ ~PublishInvalid(a, target)
           /\ container.publisher = "podman-local" => ImageExists(a)
           /\ calls' = Record(a, target)
           /\ receipts' = Append(receipts,
                 [artifact_id |-> a.id, target |-> target, published_at |-> PublishedAt(a, target),
                  manifest |-> inHand[p].manifest, images |-> images])
    /\ inHand' = [inHand EXCEPT ![p] = NoArtifact]
    /\ outcome' = [outcome EXCEPT ![p] = "ok"]
    /\ UNCHANGED <<builder, container, images, call_count, asked>>

-----------------------------------------------------------------------------
PortsStep ==
    \/ \E port \in PortNames : \E adapter \in Overrides[port] : With(port, adapter)
    \/ Build
    \/ \E i \in Images : ImagesChange(i)
    \/ \E p \in Pipelines :
        \/ \E m \in Manifests : Compose(p, m)
        \/ \E target \in Targets : PublishFails(p, target) \/ Publish(p, target)

PortsSpec == PortsInit /\ [][PortsStep]_portVars

-----------------------------------------------------------------------------
\* However pipelines share the adapters, what an adapter says it did is what callers
\* got: RecordingPublisher holds one call for each receipt, of that artifact and
\* target, in order, and none for a publish it refused; CountingComposer counts every
\* call, refused ones too (port-composer lib.rs:152-177, port-publisher lib.rs:150-171).
\* And wired as `apply` wires them, a receipt is for the image that the caller's manifest
\* asked for first, which was in Podman's storage (lib.rs:277-295, 1214-1278).
ReceiptsAreBacked ==
    /\ container.composer = "counting" => call_count = asked
    /\ container.publisher = "recording" =>
          /\ Len(calls) = Len(receipts)
          /\ \A i \in DOMAIN calls :
                /\ calls[i].artifact.id = receipts[i].artifact_id
                /\ calls[i].target = receipts[i].target
    /\ (container.composer = "prebuilt" /\ container.publisher = "podman-local") =>
          \A i \in DOMAIN receipts : \E k \in DOMAIN receipts[i].manifest.tags :
              LET tags == receipts[i].manifest.tags
              IN  /\ tags[k].key = "image" /\ \A j \in 1..(k - 1) : tags[j].key # "image"
                  /\ receipts[i].target.locator = tags[k].value
                  /\ tags[k].value \in receipts[i].images
=============================================================================
