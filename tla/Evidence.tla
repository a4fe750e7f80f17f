------------------------------ MODULE Evidence ------------------------------
(***************************************************************************)
(* What a job records of the helper's answer (phenocompose-cli/src/lib.rs, *)
(* run_action_with_client_at, validate_evaluation_result,                  *)
(* trustworthy_failure_lifecycle; nvms.rs, Lifecycle::local_failure).  The *)
(* answer is an external program's: its texts may be too long, its digests *)
(* wrong, its claims inconsistent; or there is none, and what the helper   *)
(* wrote, text or not, is recorded in its place.                           *)
(*                                                                         *)
(* A text is the sequence of the widths of its characters in bytes; in raw *)
(* output a 0 stands for a byte that is no part of a character.            *)
(***************************************************************************)
EXTENDS Gates, Integers, SequencesExt

CONSTANTS
    Answers,     \* what the helper may answer
    RawOutputs,  \* what it may have written instead: [stdout, stderr]
    MaxOutput,   \* max_output_bytes
    Timeout,     \* timeout_millis
    Requested    \* the GPUs of the request

TextStreams == {"stdout", "stderr"}

\* The digest of a text, and something that is none.
Sha256(text) == <<"sha256", text>>
NoDigest == <<"not hexadecimal">>

Text == Seq(1..4)
LifecycleReport ==
    [text : [TextStreams -> Text], sha : [TextStreams -> {NoDigest} \cup ({"sha256"} \X Text)],
     exit : Int, duration : Int, timedOut : BOOLEAN, truncated : BOOLEAN]

\* Its claims are those of EvaluationProvenance: "as requested", or the code of the
\* first that is not.  A job's success is the code "ok" here, which is no other code:
\* the job has a field of its own for it.
EvaluationResult ==
    [lifecycle : LifecycleReport, claims : STRING \ {"ok"}, jobDirectory : STRING,
     gpus : Seq(Nat), success : BOOLEAN, released : BOOLEAN, error : STRING \ {"ok"}]

ASSUME EvidenceAssumption ==
    /\ Answers \subseteq EvaluationResult
    /\ RawOutputs \subseteq [TextStreams -> Seq(0..4)]
    /\ MaxOutput \in Nat /\ Timeout \in Nat

VARIABLES
    reported, \* the lifecycle of the answer, or of what stands for it
    job,      \* [lifecycle, code]: the job's record; code "ok" is success
    phase     \* "calling", "recorded"

evidenceVars == <<reported, job, phase>>

Bytes(text) == FoldSeq(+, 0, text)

\* String::from_utf8_lossy: the replacement character is three bytes wide.
Lossy(raw) == [i \in DOMAIN raw |-> IF raw[i] = 0 THEN 3 ELSE raw[i]]

LocalFailure(raw) ==
    [text |-> [s \in TextStreams |-> Lossy(raw[s])],
     sha |-> [s \in TextStreams |-> Sha256(raw[s])],
     exit |-> -1, duration |-> 0, timedOut |-> FALSE, truncated |-> FALSE]

Nothing == LocalFailure([s \in TextStreams |-> <<>>])

EvidenceInit ==
    /\ reported = Nothing /\ phase = "calling"
    /\ job = [lifecycle |-> Nothing, code |-> "none"]

-----------------------------------------------------------------------------
\* bounded_string: the longest prefix of whole characters within the limit.
Bounded(text) ==
    LET fits == {n \in 0..Len(text) : Bytes(SubSeq(text, 1, n)) <= MaxOutput}
    IN  SubSeq(text, 1, Max(fits))

Matches(text, sha) == sha = Sha256(text)

\* Mutant: the digest is checked against the text before it is cut.
TrustworthyUncut(l) ==
    [l EXCEPT !.text = [s \in TextStreams |-> Bounded(l.text[s])],
              !.sha = [s \in TextStreams |->
                  IF Matches(l.text[s], l.sha[s]) THEN l.sha[s] ELSE Sha256(Bounded(l.text[s]))],
              !.truncated = @ \/ \E s \in TextStreams : Bounded(l.text[s]) # l.text[s]]

Trustworthy(l) ==
    LET text == [s \in TextStreams |-> Bounded(l.text[s])]
    IN  [l EXCEPT !.text = text,
                  !.sha = [s \in TextStreams |->
                      IF Matches(text[s], l.sha[s]) THEN l.sha[s] ELSE Sha256(text[s])],
                  !.truncated = @ \/ \E s \in TextStreams : text[s] # l.text[s]]

\* The client returns an error: without an answer, or with one it refused.
ClientFails(lifecycle) ==
    /\ reported' = lifecycle
    /\ job' = [lifecycle |-> Trustworthy(lifecycle), code |-> "client_error"]
    /\ phase' = "recorded"

NoAnswer == phase = "calling" /\ \E raw \in RawOutputs : ClientFails(LocalFailure(raw))
RefusedAnswer == phase = "calling" /\ \E answer \in Answers : ClientFails(answer.lifecycle)

-----------------------------------------------------------------------------
\* validate_evaluation_result; the claims are those about the manifest, the
\* route and the pipe, each of which is compared with the request.
DigestInvalid(l, s) == Refuse(l.sha[s] = NoDigest, "nvms_evidence_hash_invalid")
DigestMismatch(l, s) == Refuse(~Matches(l.text[s], l.sha[s]), "nvms_evidence_hash_mismatch")

GpuMismatch(gpus) == ToSet(gpus) # Requested \/ Cardinality(ToSet(gpus)) # Len(gpus)

ResultGate(a) ==
    LET l == a.lifecycle
    IN  << Refuse(a.claims # "as requested", a.claims),
           Refuse(a.jobDirectory \notin {"", "child"}, "nvms_output_root_mismatch"),
           Refuse(GpuMismatch(a.gpus), "nvms_gpu_binding_mismatch"),
           Refuse(l.duration \notin 0..Timeout
                    \/ \E s \in TextStreams : Bytes(l.text[s]) > MaxOutput,
                  "nvms_lifecycle_limits"),
           DigestInvalid(l, "stdout"), DigestMismatch(l, "stdout"),
           DigestInvalid(l, "stderr"), DigestMismatch(l, "stderr"),
           Refuse(a.success /\ (~a.released \/ l.exit # 0 \/ l.timedOut \/ l.truncated
                                  \/ a.error # ""),
                  "nvms_success_inconsistent"),
           Refuse(~a.success, IF a.error = "" THEN "nvms_action_failed" ELSE a.error) >>

\* persist_job_failure: the helper's own error code stays, when it gave one.
RecordedCode(a) ==
    IF Verdict(ResultGate(a)) = "ok" THEN "ok"
    ELSE IF a.error # "" THEN a.error
    ELSE Verdict(ResultGate(a))

\* An answer is recorded first and judged after.
AcceptAnswer ==
    /\ phase = "calling"
    /\ \E answer \in Answers :
          /\ reported' = answer.lifecycle
          /\ job' = [lifecycle |-> Trustworthy(answer.lifecycle),
                     code |-> RecordedCode(answer)]
    /\ phase' = "recorded"

EvidenceStep == NoAnswer \/ RefusedAnswer \/ AcceptAnswer

EvidenceSpec == EvidenceInit /\ [][EvidenceStep]_evidenceVars

-----------------------------------------------------------------------------
\* What a job records is within the bound, its digests are those of the recorded
\* texts, each a prefix of what was reported, and truncated when it is a shorter
\* one: also where the limit falls inside a character, and where the raw output was
\* no text and its digest is of other bytes (lib.rs:780-803, nvms.rs:159-171).  A job
\* recorded as a success records its evidence as it was reported.
EvidenceIsSound ==
    phase = "recorded" =>
        LET l == job.lifecycle
        IN  /\ \A s \in TextStreams :
                  /\ Bytes(l.text[s]) <= MaxOutput
                  /\ l.sha[s] = Sha256(l.text[s])
                  /\ IsPrefix(l.text[s], reported.text[s])
                  /\ l.text[s] # reported.text[s] => l.truncated
            /\ reported.truncated => l.truncated
            /\ job.code = "ok" =>
                  l = reported /\ l.exit = 0 /\ ~l.timedOut /\ ~l.truncated
=============================================================================
