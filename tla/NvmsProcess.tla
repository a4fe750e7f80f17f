---------------------------- MODULE NvmsProcess ----------------------------
(***************************************************************************)
(* One call of the nvms helper (phenocompose-cli/src/nvms.rs): the CLI     *)
(* spawns it, writes the request to its standard input, reads its standard *)
(* output and error, and waits for it.  ProcessEvaluationClient reads with *)
(* two threads that keep a bounded prefix, and has a deadline;             *)
(* ProcessLifecycleClient reads everything and waits for ever.             *)
(*                                                                         *)
(* The helper is external.  It follows a script: what it writes, whether   *)
(* it does so before it reads its request, and whether its answer is       *)
(* well formed.  It may die or hang, and leave a process of its own behind *)
(* that holds its output pipes, and the pipe it would read its request     *)
(* from if the script keeps it.  Sizes are counted in units.               *)
(***************************************************************************)
EXTENDS Integers

CONSTANTS
    Clients,   \* those to run, among "evaluation" and "lifecycle"
    Request,   \* the size of the request
    Capacity,  \* what a pipe holds
    Chunk,     \* what one read returns at most
    Limit,     \* Limit[s]: what read_bounded keeps of stream s
    AnswerSize,    \* the size of a well-formed answer
    Scripts,   \* what the helper may do: [eager, good, keeps, out, err]
    Extra,     \* bound on what the process left behind writes
    Codes,     \* exit codes; -1 stands for death by a signal
    MayFail    \* among "spawn", "wait", "read", "hang", "die", "fork"

Streams == {"out", "err"}

ASSUME SizesAssumption ==
    /\ {Request, Capacity, Chunk, AnswerSize} \subseteq Nat \ {0}
    /\ Extra \in Nat
    /\ Limit \in [Streams -> Nat]
ASSUME ScriptsAssumption ==
    /\ Scripts \subseteq [eager : BOOLEAN, good : BOOLEAN, keeps : BOOLEAN,
                    out : Nat, err : Nat]
    /\ Clients \subseteq {"evaluation", "lifecycle"}
    /\ Codes \subseteq Int

VARIABLES
    client, script,
    pc,        \* the CLI: "spawn", "write", "wait", "join", "done"
    status,    \* how the wait ended: "none", "exited", "timeout", "wait_error"
    child,     \* "none", "running", "hung", "exited", "reaped"
    code,      \* its exit code
    left,      \* a process it left behind holds its output pipes
    unsent,    \* what of the request the CLI has still to write
    stdin,     \* what lies in the pipe to the helper
    wrote,     \* wrote[s]: what was written to stream s so far
    pipe,      \* pipe[s]: what of it lies in the pipe
    reader,    \* reader[s]: "none", "reading", "eof", "failed"
    kept,      \* kept[s]: BoundedBytes.bytes
    truncated, \* truncated[s]: BoundedBytes.truncated
    result     \* [code, timedOut, cut]: what the caller gets

cliVars == <<pc, status, result>>
helperVars == <<child, code, left>>
outVars == <<wrote, pipe, reader, kept, truncated>>
vars == <<client, script, cliVars, helperVars, unsent, stdin, outVars>>

Smaller(a, b) == IF a <= b THEN a ELSE b
ResultCodes == {"none", "ok", "nvms_spawn", "nvms_request_write", "nvms_read",
    "nvms_timeout", "nvms_wait", "nvms_response_too_large", "nvms_malformed_response",
    "nvms_usage", "nvms_request_rejected", "nvms_encode_failed", "nvms_process_failed"}
NoResult == [code |-> "none", timedOut |-> FALSE, cut |-> FALSE]

Init ==
    /\ client \in Clients /\ script \in Scripts
    /\ pc = "spawn" /\ status = "none" /\ result = NoResult
    /\ child = "none" /\ code = -1 /\ left = FALSE
    /\ unsent = Request /\ stdin = 0
    /\ wrote = [s \in Streams |-> 0] /\ pipe = [s \in Streams |-> 0]
    /\ reader = [s \in Streams |-> "none"]
    /\ kept = [s \in Streams |-> 0] /\ truncated = [s \in Streams |-> FALSE]

-----------------------------------------------------------------------------
\* The helper.

Alive == child \in {"running", "hung"}
Said == \A s \in Streams : wrote[s] >= script[s]
Heard == unsent = 0 /\ stdin = 0
MaySpeak == script.eager \/ Heard

HelperReads ==
    /\ child = "running" /\ stdin > 0
    /\ script.eager => Said
    /\ stdin' = stdin - 1
    /\ UNCHANGED <<client, script, cliVars, helperVars, unsent, outVars>>

Put(s) ==
    /\ pipe[s] < Capacity /\ reader[s] # "failed"
    /\ wrote' = [wrote EXCEPT ![s] = @ + 1]
    /\ pipe' = [pipe EXCEPT ![s] = @ + 1]
    /\ UNCHANGED <<client, script, cliVars, helperVars, unsent, stdin,
                   reader, kept, truncated>>

HelperWrites(s) ==
    child = "running" /\ MaySpeak /\ wrote[s] < script[s] /\ Put(s)

ExitWith(c) ==
    /\ child' = "exited" /\ code' = c
    /\ UNCHANGED <<client, script, cliVars, left, unsent, stdin, outVars>>

HelperExits(c) == child = "running" /\ MaySpeak /\ Said /\ ExitWith(c)

\* A write to a pipe nobody reads any more kills the helper.
HelperBreaks ==
    /\ child = "running" /\ MaySpeak
    /\ \E s \in Streams : reader[s] = "failed" /\ wrote[s] < script[s]
    /\ ExitWith(-1)

HelperDies == "die" \in MayFail /\ child = "running" /\ ExitWith(-1)

HelperHangs ==
    /\ "hang" \in MayFail /\ child = "running"
    /\ child' = "hung"
    /\ UNCHANGED <<client, script, cliVars, code, left, unsent, stdin, outVars>>

HelperForks ==
    /\ "fork" \in MayFail /\ child = "running" /\ ~left
    /\ left' = TRUE
    /\ UNCHANGED <<client, script, cliVars, child, code, unsent, stdin, outVars>>

LeftWrites(s) == left /\ Said /\ wrote[s] < script[s] + Extra /\ Put(s)

LeftExits ==
    /\ left
    /\ left' = FALSE
    /\ UNCHANGED <<client, script, cliVars, child, code, unsent, stdin, outVars>>

-----------------------------------------------------------------------------
\* The readers: the threads of the evaluation client, and the loop of
\* wait_with_output, which keeps everything.

Keeps(s, n) == IF client = "lifecycle" THEN n ELSE Smaller(n, Limit[s] - kept[s])

\* Mutant: `count >= remaining`.
CutsAtLimit(s, n) == client = "evaluation" /\ n >= Limit[s] - kept[s]
Cuts(s, n) == n > Keeps(s, n)

ReadBounded(s) ==
    /\ reader[s] = "reading" /\ pipe[s] > 0
    /\ \E n \in 1..Smaller(Chunk, pipe[s]) :
          /\ pipe' = [pipe EXCEPT ![s] = @ - n]
          /\ kept' = [kept EXCEPT ![s] = @ + Keeps(s, n)]
          /\ truncated' = [truncated EXCEPT ![s] = @ \/ Cuts(s, n)]
    /\ UNCHANGED <<client, script, cliVars, helperVars, unsent, stdin, wrote, reader>>

ReadToEnd(s) ==
    /\ reader[s] = "reading" /\ pipe[s] = 0 /\ ~Alive /\ ~left
    /\ reader' = [reader EXCEPT ![s] = "eof"]
    /\ UNCHANGED <<client, script, cliVars, helperVars, unsent, stdin,
                   wrote, pipe, kept, truncated>>

ReadFails(s) ==
    /\ "read" \in MayFail /\ client = "evaluation" /\ reader[s] = "reading"
    /\ reader' = [reader EXCEPT ![s] = "failed"]
    /\ UNCHANGED <<client, script, cliVars, helperVars, unsent, stdin,
                   wrote, pipe, kept, truncated>>

-----------------------------------------------------------------------------
\* The CLI.

Return(c, timedOut, cut) ==
    /\ pc' = "done"
    /\ result' = [code |-> c, timedOut |-> timedOut, cut |-> cut]

Spawn ==
    /\ pc = "spawn"
    /\ child' = "running" /\ pc' = "write"
    /\ UNCHANGED <<client, script, status, result, code, left, unsent, stdin, outVars>>

SpawnRefused ==
    /\ pc = "spawn" /\ "spawn" \in MayFail
    /\ Return("nvms_spawn", FALSE, FALSE)
    /\ UNCHANGED <<client, script, status, helperVars, unsent, stdin, outVars>>

\* Whether anyone holds the end of standard input that is read.
Readable == Alive \/ (left /\ script.keeps)

WriteRequest ==
    /\ pc = "write" /\ unsent > 0 /\ stdin < Capacity /\ Readable
    /\ unsent' = unsent - 1 /\ stdin' = stdin + 1
    /\ UNCHANGED <<client, script, cliVars, helperVars, outVars>>

\* Mutant: the helper is not killed, only given up.
TerminateNothing == UNCHANGED helperVars

\* terminate: both errors are ignored, and a killed process can be reaped.
Terminate == child' = "reaped" /\ UNCHANGED <<code, left>>

RequestBroken ==
    /\ pc = "write" /\ unsent > 0 /\ ~Readable
    /\ Terminate /\ Return("nvms_request_write", FALSE, FALSE)
    /\ UNCHANGED <<client, script, status, unsent, stdin, outVars>>

StartReaders ==
    /\ pc = "write" /\ unsent = 0
    /\ pc' = "wait" /\ reader' = [s \in Streams |-> "reading"]
    /\ UNCHANGED <<client, script, status, result, helperVars, unsent, stdin,
                   wrote, pipe, kept, truncated>>

Waited(how) ==
    /\ pc' = "join" /\ status' = how
    /\ UNCHANGED <<client, script, result, unsent, stdin, outVars>>

\* wait_with_output waits only when both streams have ended.
ReadersDone == \A s \in Streams : reader[s] = "eof"
MayWait == pc = "wait" /\ (client = "lifecycle" => ReadersDone)

WaitExit ==
    /\ MayWait /\ child = "exited"
    /\ child' = "reaped" /\ UNCHANGED <<code, left>>
    /\ Waited("exited")

WaitTimeout == pc = "wait" /\ client = "evaluation" /\ Terminate /\ Waited("timeout")

WaitFails ==
    /\ "wait" \in MayFail /\ MayWait
    /\ IF client = "evaluation" THEN Terminate ELSE UNCHANGED helperVars
    /\ Waited("wait_error")

JoinFails ==
    /\ pc = "join"
    /\ \/ reader["out"] = "failed"
       \/ reader["out"] = "eof" /\ reader["err"] = "failed"
    /\ Return("nvms_read", FALSE, FALSE)
    /\ UNCHANGED <<client, script, status, helperVars, unsent, stdin, outVars>>

ExitError(c) ==
    CASE c = 2 -> "nvms_usage"
      [] c = 3 -> "nvms_request_rejected"
      [] c = 5 -> "nvms_encode_failed"
      [] OTHER -> "nvms_process_failed"

\* Mutant: a response that was cut is parsed like any other.
TooLargeNever == FALSE

TooLarge == truncated["out"]

Parses == script.good /\ kept["out"] = AnswerSize

Conclude ==
    /\ pc = "join" /\ ReadersDone
    /\ \/ /\ status = "timeout"
          /\ Return("nvms_timeout", TRUE, truncated["out"] \/ truncated["err"])
       \/ /\ status = "wait_error" /\ Return("nvms_wait", FALSE, FALSE)
       \/ /\ status = "exited" /\ TooLarge
          /\ Return("nvms_response_too_large", FALSE, TRUE)
       \/ /\ status = "exited" /\ ~TooLarge /\ ~Parses
          /\ Return("nvms_malformed_response", FALSE, FALSE)
       \/ /\ status = "exited" /\ ~TooLarge /\ Parses
          /\ Return(IF code \in {0, 4} THEN "ok" ELSE ExitError(code), FALSE, FALSE)
    /\ UNCHANGED <<client, script, status, helperVars, unsent, stdin, outVars>>

-----------------------------------------------------------------------------
HelperWorks ==
    \/ HelperReads \/ HelperBreaks
    \/ \E s \in Streams : HelperWrites(s)
    \/ \E c \in Codes : HelperExits(c)

Helper ==
    \/ HelperWorks \/ HelperDies \/ HelperHangs \/ HelperForks \/ LeftExits
    \/ \E s \in Streams : LeftWrites(s)

Reader(s) == ReadBounded(s) \/ ReadToEnd(s)

Cli ==
    \/ Spawn \/ WriteRequest \/ RequestBroken \/ StartReaders
    \/ WaitExit \/ WaitTimeout \/ JoinFails \/ Conclude

CliFails == SpawnRefused \/ WaitFails

Next ==
    \/ Cli \/ CliFails \/ Helper
    \/ \E s \in Streams : Reader(s) \/ ReadFails(s)

Spec == Init /\ [][Next]_vars

\* The CLI and its threads are scheduled, the deadline passes, and a helper that
\* has neither hung nor died goes on; nothing makes the process it left end.
FairSpec ==
    /\ Spec /\ WF_vars(Cli) /\ WF_vars(HelperWorks)
    /\ \A s \in Streams : WF_vars(Reader(s))
-----------------------------------------------------------------------------
TypeOK ==
    /\ client \in Clients /\ script \in Scripts
    /\ pc \in {"spawn", "write", "wait", "join", "done"}
    /\ status \in {"none", "exited", "timeout", "wait_error"}
    /\ child \in {"none", "running", "hung", "exited", "reaped"}
    /\ code \in Int /\ left \in BOOLEAN
    /\ unsent \in 0..Request /\ stdin \in 0..Request
    /\ wrote \in [Streams -> Nat] /\ pipe \in [Streams -> 0..Capacity]
    /\ reader \in [Streams -> {"none", "reading", "eof", "failed"}]
    /\ kept \in [Streams -> Nat] /\ truncated \in [Streams -> BOOLEAN]
    /\ result \in [code : ResultCodes, timedOut : BOOLEAN, cut : BOOLEAN]

\* An answer the caller gets is everything the helper, and whoever held its
\* standard output, wrote there; the helper was not killed and said 0 or 4
\* (nvms.rs:272-296, :515-528).
AnswerIsWhole ==
    result.code = "ok" =>
        /\ status = "exited" /\ code \in {0, 4}
        /\ script.good /\ kept["out"] = AnswerSize /\ wrote["out"] = AnswerSize

\* When a reader has come to the end it holds the first Limit units of what was
\* written, and says truncated exactly when there were more: also when a read
\* crosses the limit or ends on it (nvms.rs:333-347).
BoundIsExact ==
    \A s \in Streams : reader[s] = "eof" =>
        LET bound == IF client = "lifecycle" THEN wrote[s] ELSE Limit[s]
        IN  /\ kept[s] = Smaller(wrote[s], bound)
            /\ truncated[s] = (wrote[s] > bound)

\* No helper outlives the call that spawned it, whichever way the call returns
\* (nvms.rs:186-320), except that the lifecycle client gives up a helper it cannot
\* wait for (nvms.rs:509-514).
NoHelperLeftBehind ==
    pc = "done" =>
        \/ child \in {"none", "reaped"}
        \/ client = "lifecycle" /\ status = "wait_error"

\* The caller gets the answer of a helper that wrote a whole one and ended with 0
\* or 4, unless the deadline passed first, the helper ended before it had been sent
\* its request, something wrote more, or the operating system failed.
AnswerIsUsed ==
    (pc = "done" /\ child = "reaped" /\ code \in {0, 4} /\ Said
        /\ script.good /\ wrote["out"] = AnswerSize /\ AnswerSize <= Limit["out"]) =>
        \/ result.code = "ok"
        \/ status \in {"timeout", "wait_error"}
        \/ result.code = "nvms_request_write" /\ unsent > 0 /\ script.eager
        \/ \E s \in Streams : reader[s] = "failed"

\* What a call can be kept from returning by: a helper that hangs before it has
\* read its request, or at any time under the lifecycle client, which has no
\* deadline; a process left behind that holds a pipe which is read to its end; one
\* that keeps the pipe of a request which its helper has not read to the end; and
\* a helper that fills a pipe before it reads its request, while the CLI, whose
\* readers and deadline do not exist yet, fills the other (nvms.rs:199-236).
Embrace ==
    /\ child = "running" /\ script.eager
    /\ \E s \in Streams : pipe[s] = Capacity /\ wrote[s] < script[s]
HeldUp ==
    \/ /\ pc = "write" /\ unsent > 0 /\ stdin = Capacity
       /\ child = "hung" \/ Embrace \/ (~Alive /\ Readable)
    \/ client = "lifecycle" /\ pc = "wait" /\ (child = "hung" \/ left)
    \/ pc = "join" /\ left

\* Every call returns, unless it is held up for ever in one of these ways: the
\* deadline ends every other wait (nvms.rs:232-269).
CallReturns == <>(pc = "done") \/ <>[]HeldUp
=============================================================================
