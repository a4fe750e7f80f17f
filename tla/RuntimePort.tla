---------------------------- MODULE RuntimePort ----------------------------
(***************************************************************************)
(* The Runtime port and its adapters: NoopRuntime (port-runtime), the      *)
(* CLI's PodmanRuntime, AppleContainerRuntime and WslcRuntime.  The last   *)
(* three run a command line tool per call and read its exit status and its *)
(* words; what the tool and its containers do is external.  Containers     *)
(* exit, pause and are removed at any time, also between the two commands  *)
(* of the Apple adapter's status.                                          *)
(***************************************************************************)
EXTENDS Naturals

CONSTANTS
    Users,      \* threads that call the port
    Adapters,   \* those to run, of AllAdapters
    MaxIds,     \* bound on the containers spawned
    States,     \* the words a tool has for the state of a container
    Noise,      \* what other words its description may hold
    Mentions,   \* <<i, j>>: the id i is a part of the text of container j's row
    Failures    \* "offline", "no_such_file": how a command may fail otherwise

AllAdapters == {"noop", "podman", "apple", "wslc"}
Ids == 1..MaxIds

ASSUME RuntimeAssumption ==
    /\ MaxIds \in Nat
    /\ Adapters \subseteq AllAdapters
    /\ Failures \subseteq {"offline", "no_such_file"}
    /\ Mentions \subseteq Ids \X Ids

VARIABLES
    adapter,
    next_id, alive,  \* NoopRuntime; alive is a list of which the order means nothing
    engine,          \* engine[i]: the state of container i, or "absent"
    noise,           \* noise[i]: the other words of its description
    handed,          \* the ids spawn has answered
    calling,         \* calling[u]: "idle", "spawn" (noop), "list" (apple)
    about,           \* about[u]: the id of a call in progress
    seen,            \* for the properties: the states of it during that call
    answer           \* what the call that ended last answered

runtimeVars == <<adapter, next_id, alive, engine, noise, handed, calling, about, seen, answer>>

NoCall == [op |-> "none", id |-> 0, says |-> "none", via |-> "none", seen |-> {}]

RuntimeInit ==
    /\ adapter \in Adapters
    /\ next_id = 1 /\ alive = {} /\ handed = {}
    /\ engine = [i \in Ids |-> "absent"] /\ noise = [i \in Ids |-> {}]
    /\ calling = [u \in Users |-> "idle"]
    /\ about = [u \in Users |-> 0]
    /\ seen = [u \in Users |-> {}]
    /\ answer = NoCall

Tool == adapter # "noop"
Idle(u) == calling[u] = "idle"
StateOf(i) ==
    IF ~Tool THEN IF i \in alive THEN "running" ELSE "absent" ELSE engine[i]

Answer(i, op, says, via, states) ==
    answer' = [op |-> op, id |-> i, says |-> says, via |-> via, seen |-> states]

Waits(u, for, i, states) ==
    /\ calling' = [calling EXCEPT ![u] = for]
    /\ about' = [about EXCEPT ![u] = i]
    /\ seen' = [seen EXCEPT ![u] = states]

callVars == <<calling, about, seen>>

-----------------------------------------------------------------------------
\* The tools and their containers.

Known(i) == engine[i] # "absent"
Observed(i, state) ==
    [u \in Users |-> IF calling[u] = "list" /\ about[u] = i THEN seen[u] \cup {state} ELSE seen[u]]

ContainerBecomes(i, state) ==
    /\ Known(i) /\ state # engine[i]
    /\ engine' = [engine EXCEPT ![i] = state]
    /\ seen' = Observed(i, state)
    /\ UNCHANGED <<adapter, next_id, alive, noise, handed, calling, about, answer>>

Description(i) == {engine[i]} \cup noise[i]
Listing == UNION {Description(i) : i \in {j \in Ids : Known(j)}}

-----------------------------------------------------------------------------
\* spawn.

\* Every adapter but podman's refuses an empty image; podman's refuses to spawn
\* without the configuration of a service.
SpawnInvalid(u) ==
    /\ Idle(u)
    /\ Answer(0, "spawn", "validation", "none", {})
    /\ UNCHANGED <<adapter, next_id, alive, engine, noise, handed, callVars>>

NoopNext == next_id

SpawnNoop(u) ==
    /\ Idle(u) /\ ~Tool /\ next_id <= MaxIds
    /\ next_id' = next_id + 1
    /\ Waits(u, "spawn", NoopNext, {})
    /\ UNCHANGED <<adapter, alive, engine, noise, handed, answer>>

SpawnedNoop(u) ==
    /\ calling[u] = "spawn"
    /\ alive' = alive \cup {about[u]} /\ handed' = handed \cup {about[u]}
    /\ Answer(about[u], "spawn", IF about[u] \in handed THEN "repeated" ELSE "ok", "none", {})
    /\ Waits(u, "idle", 0, {})
    /\ UNCHANGED <<adapter, next_id, engine, noise>>

SpawnTool(u, words) ==
    /\ Idle(u) /\ Tool /\ next_id <= MaxIds
    /\ next_id' = next_id + 1
    /\ engine' = [engine EXCEPT ![next_id] = "running"]
    /\ noise' = [noise EXCEPT ![next_id] = words]
    /\ handed' = handed \cup {next_id}
    /\ Answer(next_id, "spawn", "ok", "none", {"running"})
    /\ seen' = Observed(next_id, "running")
    /\ UNCHANGED <<adapter, alive, calling, about>>

\* The tool cannot be run, fails, or answers no id.
SpawnFails(u) ==
    /\ Idle(u) /\ Tool /\ Failures # {}
    /\ Answer(0, "spawn", "backend", "none", {})
    /\ UNCHANGED <<adapter, next_id, alive, engine, noise, handed, callVars>>

-----------------------------------------------------------------------------
\* stop.

StopNoop(u, i) ==
    /\ Idle(u) /\ ~Tool
    /\ alive' = alive \ {i}
    /\ Answer(i, "stop", IF i \in alive THEN "ok" ELSE "not_found", "none", {StateOf(i)})
    /\ UNCHANGED <<adapter, next_id, engine, noise, handed, callVars>>

StopTool(u, i) ==
    /\ Idle(u) /\ Tool /\ Known(i)
    /\ engine' = [engine EXCEPT ![i] = "exited"]
    /\ Answer(i, "stop", "ok", "command", {engine[i], "exited"})
    /\ seen' = Observed(i, "exited")
    /\ UNCHANGED <<adapter, next_id, alive, noise, handed, calling, about>>

\* How a command fails: the container is unknown, or something else is wrong.
Fails(i, why) == IF why = "absent" THEN ~Known(i) ELSE why \in Failures

\* output_mentions_not_found of the Apple and wslc adapters, and the "no such" of
\* podman's status: they look for words of the message.
MentionsNotFound(why) == why \in {"absent", "no_such_file"}

StopToolFails(u, i, why) ==
    /\ Idle(u) /\ Tool /\ Fails(i, why)
    /\ Answer(i, "stop",
              IF adapter # "podman" /\ MentionsNotFound(why) THEN "not_found" ELSE "backend",
              why, {engine[i]})
    /\ UNCHANGED <<adapter, next_id, alive, engine, noise, handed, callVars>>

-----------------------------------------------------------------------------
\* status.

Exited == {"exited", "stopped", "created"}

\* podman inspect prints the state alone.
PodmanStatus(state) ==
    CASE state \in {"running", "paused"} -> state
      [] state \in Exited \cup {"configured"} -> "exited"
      [] OTHER -> "backend"

\* parse_status looks for words in all that was printed, in this order.
ParseStatus(words) ==
    CASE "paused" \in words -> "paused"
      [] "paused" \notin words /\ "running" \in words -> "running"
      [] words \cap {"paused", "running"} = {} /\ words \cap (Exited \cup {"dead"}) # {} -> "exited"
      [] OTHER -> "running"

StatusNoop(u, i) ==
    /\ Idle(u) /\ ~Tool
    /\ Answer(i, "status", IF i \in alive THEN "running" ELSE "not_found", "none", {StateOf(i)})
    /\ UNCHANGED <<adapter, next_id, alive, engine, noise, handed, callVars>>

StatusInspected(u, i) ==
    /\ Idle(u) /\ Tool /\ Known(i)
    /\ Answer(i, "status",
              IF adapter = "podman" THEN PodmanStatus(engine[i]) ELSE ParseStatus(Description(i)),
              "command", {engine[i]})
    /\ UNCHANGED <<adapter, next_id, alive, engine, noise, handed, callVars>>

StatusFails(u, i, why) ==
    /\ Idle(u) /\ Tool /\ Fails(i, why)
    /\ \/ /\ MentionsNotFound(why)
          /\ Answer(i, "status", "not_found", why, {engine[i]}) /\ UNCHANGED callVars
       \/ /\ ~MentionsNotFound(why) /\ adapter # "apple"
          /\ Answer(i, "status", "backend", why, {engine[i]}) /\ UNCHANGED callVars
       \/ /\ ~MentionsNotFound(why) /\ adapter = "apple"
          /\ Waits(u, "list", i, {engine[i]}) /\ UNCHANGED answer
    /\ UNCHANGED <<adapter, next_id, alive, engine, noise, handed>>

\* Mutant: the listing is not searched for the id.
InAnyListing(i) == TRUE

\* `listing.contains(id)`: the id may be in the row of another container.
InListing(i) == \E j \in Ids : Known(j) /\ (i = j \/ <<i, j>> \in Mentions)

\* The Apple adapter's second command, `container ls -a`: all its rows are parsed.
StatusListed(u) ==
    /\ calling[u] = "list"
    /\ Waits(u, "idle", 0, {})
    /\ Answer(about[u], "status",
              IF InListing(about[u]) THEN ParseStatus(Listing) ELSE "not_found",
              "list", seen[u])
    /\ UNCHANGED <<adapter, next_id, alive, engine, noise, handed>>

StatusListFails(u) ==
    /\ calling[u] = "list" /\ Failures # {}
    /\ Waits(u, "idle", 0, {})
    /\ Answer(about[u], "status", "backend", "offline", seen[u])
    /\ UNCHANGED <<adapter, next_id, alive, engine, noise, handed>>

-----------------------------------------------------------------------------
RuntimeStep ==
    \/ \E i \in Ids, state \in States \cup {"absent"} : ContainerBecomes(i, state)
    \/ \E u \in Users :
        \/ SpawnInvalid(u) \/ SpawnNoop(u) \/ SpawnedNoop(u) \/ SpawnFails(u)
        \/ \E words \in Noise : SpawnTool(u, words)
        \/ \E i \in Ids :
              \/ StopNoop(u, i) \/ StopTool(u, i) \/ StatusNoop(u, i) \/ StatusInspected(u, i)
              \/ \E why \in Failures \cup {"absent"} :
                    StopToolFails(u, i, why) \/ StatusFails(u, i, why)
        \/ StatusListed(u) \/ StatusListFails(u)

RuntimeSpec == RuntimeInit /\ [][RuntimeStep]_runtimeVars

-----------------------------------------------------------------------------
Plainly(says, states) ==
    \/ says \in {PodmanStatus(w) : w \in states \ {"absent"}}
    \/ says = "exited" /\ "dead" \in states

StatusAnswers == {"running", "paused", "exited"}

\* An answer about a container is one of what it was at some time during the call, but
\* for these, each at a place in the code:
\*  - "not found" also when the command complained of something else that was missing,
\*    as of a daemon that is offline, against the trait (port-runtime lib.rs:69-70);
\*  - of the adapters that search all that is printed, a status whose word stood
\*    elsewhere in the description or in another row, and "running" for a word they
\*    do not know;
\*  - of the Apple adapter, a status of a container that was not there, when its id
\*    was a part of the row of one that spawn had answered, against the trait
\*    (:70-73).
\* And spawn never answers one id twice.
AnswersAreExplained ==
    LET says == answer.says
        states == answer.seen
        elsewhere == answer.via = "list" /\ handed # {answer.id}
        inAnother == \E j \in handed \ {answer.id} : <<answer.id, j>> \in Mentions
    IN  /\ says # "repeated"
        /\ says = "not_found" => "absent" \in states \/ answer.via = "no_such_file"
        /\ (answer.op = "stop" /\ says = "ok") => states # {"absent"}
        /\ (answer.op = "status" /\ says \in StatusAnswers) =>
              \/ Plainly(says, states)
              \/ /\ adapter \in {"apple", "wslc"} /\ states # {"absent"}
                 /\ \/ \E w \in states \ {"absent"} : ParseStatus({w}) = says
                    \/ noise[answer.id] # {}
                    \/ elsewhere
              \/ adapter = "apple" /\ elsewhere /\ inAnother

\* The trait (port-runtime lib.rs:71-73): a non-existent id is reported as not found.
AbsentHasNoStatus ==
    (answer.op = "status" /\ answer.says \in StatusAnswers) => answer.seen # {"absent"}
=============================================================================
