------------------------- MODULE NvmsProcessProofs -------------------------
(***************************************************************************)
(* What holds of a call of the nvms helper for every size of request,      *)
(* pipe, read, limit and answer.  The invariant says how much of what was  *)
(* written is in the pipe and in the reader's hands, that nobody can write *)
(* once a reader has seen the end, and in which phases the helper may be   *)
(* alive.                                                                  *)
(***************************************************************************)
EXTENDS NvmsProcess, TLAPS

\* What the reader of stream s has taken out of the pipe.
Taken(s) == wrote[s] - pipe[s]

Conserved == unsent + stdin <= Request

\* The reader holds the prefix it must of what it has taken.
Flow ==
    \A s \in Streams :
        /\ Taken(s) >= 0
        /\ client = "lifecycle" => kept[s] = Taken(s) /\ ~truncated[s]
        /\ client = "evaluation" =>
              kept[s] = Smaller(Taken(s), Limit[s]) /\ truncated[s] = (Taken(s) > Limit[s])

\* Nobody is left who could write when a reader has seen the end.
EndOfFile ==
    \A s \in Streams : reader[s] = "eof" => pipe[s] = 0 /\ ~Alive /\ ~left

Phases ==
    /\ pc = "spawn" => child = "none" /\ ~left
    /\ pc \in {"spawn", "write"} => \A s \in Streams : reader[s] = "none"
    /\ pc \in {"spawn", "write", "wait"} => status = "none"
    /\ pc = "join" =>
          /\ status # "none"
          /\ child = "reaped" \/ (client = "lifecycle" /\ status = "wait_error")
    /\ status = "exited" => child = "reaped"
    /\ NoHelperLeftBehind

\* What was true when an answer was returned is true for ever.
Answered ==
    result.code = "ok" =>
        /\ pc = "done" /\ status = "exited" /\ child = "reaped" /\ code \in {0, 4}
        /\ ReadersDone /\ ~truncated["out"]
        /\ script.good /\ kept["out"] = AnswerSize

\* A helper that ended well had its whole request, or does not wait for it.
Exits ==
    code \in {0, 4} => child \in {"exited", "reaped"} /\ (script.eager \/ unsent = 0)

\* Why a call that returned has returned what it did.
Concluded ==
    pc = "done" =>
        /\ status = "none" =>
              child = "none" \/ (result.code = "nvms_request_write" /\ unsent > 0)
        /\ status = "exited" =>
              \/ \E s \in Streams : reader[s] = "failed"
              \/ ReadersDone /\ (TooLarge \/ ~Parses \/ code \notin {0, 4} \/ result.code = "ok")

IInv ==
    /\ TypeOK /\ Conserved /\ Flow /\ EndOfFile /\ Phases
    /\ Answered /\ Exits /\ Concluded

-----------------------------------------------------------------------------
\* Every step keeps the types: a pipe holds no more than it can, and no more of
\* the request is on its way than there is.
LEMMA TypeOKStep ==
    ASSUME IInv, [Next]_vars
    PROVE  TypeOK'
<1>1. CASE HelperReads
  BY <1>1, SizesAssumption, ScriptsAssumption
  DEF HelperReads, IInv, TypeOK, Conserved, Flow, Taken, vars, cliVars,
      helperVars, outVars
<1>2. ASSUME NEW s \in Streams, HelperWrites(s) PROVE TypeOK'
  BY <1>2, SizesAssumption, ScriptsAssumption
  DEF HelperWrites, Put, IInv, TypeOK, Conserved, Flow, Taken, vars,
      cliVars, helperVars, outVars
<1>3. ASSUME NEW c \in Codes, HelperExits(c) PROVE TypeOK'
  BY <1>3, SizesAssumption, ScriptsAssumption
  DEF HelperExits, ExitWith, IInv, TypeOK, Conserved, Flow, Taken, vars,
      cliVars, helperVars, outVars
<1>4. CASE HelperBreaks
  BY <1>4, SizesAssumption, ScriptsAssumption
  DEF HelperBreaks, ExitWith, IInv, TypeOK, Conserved, Flow, Taken, vars,
      cliVars, helperVars, outVars
<1>5. CASE HelperDies
  BY <1>5, SizesAssumption, ScriptsAssumption
  DEF HelperDies, ExitWith, IInv, TypeOK, Conserved, Flow, Taken, vars,
      cliVars, helperVars, outVars
<1>6. CASE HelperHangs
  BY <1>6, SizesAssumption, ScriptsAssumption
  DEF HelperHangs, IInv, TypeOK, Conserved, Flow, Taken, vars, cliVars,
      helperVars, outVars
<1>7. CASE HelperForks
  BY <1>7, SizesAssumption, ScriptsAssumption
  DEF HelperForks, IInv, TypeOK, Conserved, Flow, Taken, vars, cliVars,
      helperVars, outVars
<1>8. ASSUME NEW s \in Streams, LeftWrites(s) PROVE TypeOK'
  BY <1>8, SizesAssumption, ScriptsAssumption
  DEF LeftWrites, Put, IInv, TypeOK, Conserved, Flow, Taken, vars, cliVars,
      helperVars, outVars
<1>9. CASE LeftExits
  BY <1>9, SizesAssumption, ScriptsAssumption
  DEF LeftExits, IInv, TypeOK, Conserved, Flow, Taken, vars, cliVars,
      helperVars, outVars
<1>10. ASSUME NEW s \in Streams, ReadBounded(s) PROVE TypeOK'
  <2>1. PICK n \in 1..Smaller(Chunk, pipe[s]) :
            /\ pipe' = [pipe EXCEPT ![s] = @ - n]
            /\ kept' = [kept EXCEPT ![s] = @ + Keeps(s, n)]
            /\ truncated' = [truncated EXCEPT ![s] = @ \/ Cuts(s, n)]
    BY <1>10 DEF ReadBounded
  <2>2. n \in Nat /\ n <= pipe[s] /\ pipe[s] \in 0..Capacity
    BY SizesAssumption DEF IInv, TypeOK, Smaller
  <2>3. kept[s] + Keeps(s, n) \in Nat
    BY <2>2, SizesAssumption, ScriptsAssumption DEF IInv, TypeOK, Keeps, Smaller
  <2>4. /\ pipe' \in [Streams -> 0..Capacity] /\ kept' \in [Streams -> Nat]
        /\ truncated' \in [Streams -> BOOLEAN]
    BY <2>1, <2>2, <2>3, SizesAssumption DEF IInv, TypeOK, Cuts
  <2>. QED
    BY <1>10, <2>4 DEF ReadBounded, IInv, TypeOK, cliVars, helperVars
<1>11. ASSUME NEW s \in Streams, ReadToEnd(s) PROVE TypeOK'
  BY <1>11, SizesAssumption, ScriptsAssumption
  DEF ReadToEnd, IInv, TypeOK, Conserved, Flow, Taken, vars, cliVars,
      helperVars, outVars
<1>12. ASSUME NEW s \in Streams, ReadFails(s) PROVE TypeOK'
  BY <1>12, SizesAssumption, ScriptsAssumption
  DEF ReadFails, IInv, TypeOK, Conserved, Flow, Taken, vars, cliVars,
      helperVars, outVars
<1>13. CASE Spawn
  BY <1>13, SizesAssumption, ScriptsAssumption
  DEF Spawn, IInv, TypeOK, Conserved, Flow, Taken, vars, cliVars,
      helperVars, outVars
<1>14. CASE SpawnRefused
  <2>1. result' \in [code : ResultCodes, timedOut : BOOLEAN, cut : BOOLEAN]
    BY <1>14 DEF SpawnRefused, Return, ExitError, ResultCodes, IInv, TypeOK
  <2>. QED
    BY <1>14, <2>1, SizesAssumption, ScriptsAssumption DEF SpawnRefused, Return,
      IInv, TypeOK, vars, cliVars, helperVars, outVars
<1>15. CASE WriteRequest
  BY <1>15, SizesAssumption, ScriptsAssumption
  DEF WriteRequest, Alive, IInv, TypeOK, Conserved, Flow, Taken, vars,
      cliVars, helperVars, outVars
<1>16. CASE RequestBroken
  <2>1. result' \in [code : ResultCodes, timedOut : BOOLEAN, cut : BOOLEAN]
    BY <1>16 DEF RequestBroken, Return, ExitError, ResultCodes, IInv, TypeOK
  <2>. QED
    BY <1>16, <2>1, SizesAssumption, ScriptsAssumption DEF RequestBroken,
      Terminate, Return, IInv, TypeOK, vars, cliVars, helperVars, outVars
<1>17. CASE StartReaders
  BY <1>17, SizesAssumption, ScriptsAssumption
  DEF StartReaders, IInv, TypeOK, Conserved, Flow, Taken, vars, cliVars,
      helperVars, outVars
<1>18. CASE WaitExit
  BY <1>18, SizesAssumption, ScriptsAssumption
  DEF WaitExit, Waited, MayWait, IInv, TypeOK, Conserved, Flow, Taken, vars,
      cliVars, helperVars, outVars
<1>19. CASE WaitTimeout
  BY <1>19, SizesAssumption, ScriptsAssumption
  DEF WaitTimeout, Waited, Terminate, IInv, TypeOK, Conserved, Flow, Taken,
      vars, cliVars, helperVars, outVars
<1>20. CASE WaitFails
  BY <1>20, SizesAssumption, ScriptsAssumption
  DEF WaitFails, Waited, Terminate, MayWait, IInv, TypeOK, Conserved, Flow,
      Taken, vars, cliVars, helperVars, outVars
<1>21. CASE JoinFails
  <2>1. result' \in [code : ResultCodes, timedOut : BOOLEAN, cut : BOOLEAN]
    BY <1>21 DEF JoinFails, Return, ExitError, ResultCodes, IInv, TypeOK
  <2>. QED
    BY <1>21, <2>1, SizesAssumption, ScriptsAssumption DEF JoinFails, Return,
      IInv, TypeOK, vars, cliVars, helperVars, outVars
<1>22. CASE Conclude
  <2>1. truncated["out"] \in BOOLEAN /\ truncated["err"] \in BOOLEAN
    BY DEF IInv, TypeOK, Streams
  <2>2. PICK c \in ResultCodes, timedOut \in BOOLEAN, cut \in BOOLEAN :
            Return(c, timedOut, cut)
    BY <1>22, <2>1 DEF Conclude, ExitError, ResultCodes
  <2>3. result' \in [code : ResultCodes, timedOut : BOOLEAN, cut : BOOLEAN]
    BY <2>2 DEF Return
  <2>4. pc' = "done"
    BY <2>2 DEF Return
  <2>. QED
    BY <1>22, <2>3, <2>4 DEF Conclude, IInv, TypeOK, helperVars, outVars
<1>23. CASE UNCHANGED vars
  BY <1>23 DEF IInv, TypeOK, Conserved, Flow, Taken, vars, cliVars,
      helperVars, outVars
<1>. QED
  BY <1>1, <1>2, <1>3, <1>4, <1>5, <1>6, <1>7, <1>8, <1>9, <1>10, <1>11,
      <1>12, <1>13, <1>14, <1>15, <1>16, <1>17, <1>18, <1>19, <1>20, <1>21,
      <1>22, <1>23
  DEF Next, Cli, CliFails, Helper, HelperWorks, Reader

\* No part of the request is sent twice.
LEMMA ConservedStep ==
    ASSUME IInv, TypeOK', [Next]_vars
    PROVE  Conserved'
<1>1. CASE HelperReads
  BY <1>1, SizesAssumption, ScriptsAssumption
  DEF HelperReads, IInv, TypeOK, Conserved, vars, cliVars, helperVars,
      outVars
<1>2. CASE WriteRequest
  BY <1>2, SizesAssumption, ScriptsAssumption
  DEF WriteRequest, Alive, IInv, TypeOK, Conserved, vars, cliVars,
      helperVars, outVars
\* the other steps leave all of it alone
<1>3. CASE \/ (\E s \in Streams : HelperWrites(s))
           \/ (\E c \in Codes : HelperExits(c)) \/ HelperBreaks \/ HelperDies
           \/ HelperHangs \/ HelperForks \/ (\E s \in Streams : LeftWrites(s))
           \/ LeftExits \/ (\E s \in Streams : ReadBounded(s))
           \/ (\E s \in Streams : ReadToEnd(s))
           \/ (\E s \in Streams : ReadFails(s)) \/ Spawn \/ SpawnRefused
           \/ RequestBroken \/ StartReaders \/ WaitExit \/ WaitTimeout
           \/ WaitFails \/ JoinFails \/ Conclude
  BY <1>3, SizesAssumption, ScriptsAssumption
  DEF HelperWrites, HelperExits, HelperBreaks, HelperDies, HelperHangs,
      HelperForks, LeftWrites, LeftExits, ReadBounded, ReadToEnd, ReadFails,
      Spawn, SpawnRefused, RequestBroken, StartReaders, WaitExit, WaitTimeout,
      WaitFails, JoinFails, Conclude, Put, ExitWith, Keeps, Cuts, Smaller,
      Return, Terminate, Waited, MayWait, ExitError, IInv, Conserved, vars,
      cliVars, helperVars, outVars
<1>4. CASE UNCHANGED vars
  BY <1>4 DEF IInv, Conserved, vars, cliVars, helperVars, outVars
<1>. QED
  BY <1>1, <1>2, <1>3, <1>4
  DEF Next, Cli, CliFails, Helper, HelperWorks, Reader

\* A write adds to the pipe what it adds to the stream, a read takes a part of it and
\* keeps the prefix exact.
LEMMA FlowStep ==
    ASSUME IInv, TypeOK', [Next]_vars
    PROVE  Flow'
<1>1. ASSUME NEW s \in Streams, HelperWrites(s) PROVE Flow'
  BY <1>1, SizesAssumption, ScriptsAssumption
  DEF HelperWrites, Put, IInv, TypeOK, Flow, Taken, Smaller, vars, cliVars,
      helperVars, outVars
<1>2. ASSUME NEW s \in Streams, LeftWrites(s) PROVE Flow'
  BY <1>2, SizesAssumption, ScriptsAssumption
  DEF LeftWrites, Put, IInv, TypeOK, Flow, Taken, Smaller, vars, cliVars,
      helperVars, outVars
<1>3. ASSUME NEW s \in Streams, ReadBounded(s) PROVE Flow'
  <2>1. PICK n \in 1..Smaller(Chunk, pipe[s]) :
            /\ pipe' = [pipe EXCEPT ![s] = @ - n]
            /\ kept' = [kept EXCEPT ![s] = @ + Keeps(s, n)]
            /\ truncated' = [truncated EXCEPT ![s] = @ \/ Cuts(s, n)]
    BY <1>3 DEF ReadBounded
  <2>2. n \in Nat /\ n <= pipe[s] /\ pipe[s] \in Nat /\ wrote[s] \in Nat
    BY SizesAssumption DEF IInv, TypeOK, Smaller
  <2>3. wrote' = wrote /\ client' = client
    BY <1>3 DEF ReadBounded
  <2>4. ASSUME NEW u \in Streams, u # s
        PROVE  pipe'[u] = pipe[u] /\ kept'[u] = kept[u] /\ truncated'[u] = truncated[u]
    BY <2>1, <2>4 DEF IInv, TypeOK
  <2>5. /\ pipe'[s] = pipe[s] - n /\ kept'[s] = kept[s] + Keeps(s, n)
        /\ truncated'[s] = (truncated[s] \/ Cuts(s, n))
    BY <2>1 DEF IInv, TypeOK
  <2>6. Taken(s)' = Taken(s) + n /\ Taken(s) \in Nat
    BY <2>2, <2>3, <2>5 DEF Taken, IInv, Flow
  <2>7. CASE client = "lifecycle"
    <3>1. Keeps(s, n) = n /\ Cuts(s, n) = FALSE
      BY <2>2, <2>7 DEF Keeps, Cuts
    <3>2. kept[s] = Taken(s) /\ truncated[s] = FALSE
      BY <2>7 DEF IInv, Flow, TypeOK
    <3>3. kept'[s] = Taken(s)' /\ truncated'[s] = FALSE
      BY <2>5, <2>6, <3>1, <3>2
    <3>. QED
      BY <2>3, <2>4, <2>6, <2>7, <3>3 DEF IInv, Flow, Taken
  <2>8. CASE client = "evaluation"
    <3>1. kept[s] = Smaller(Taken(s), Limit[s]) /\ truncated[s] = (Taken(s) > Limit[s])
      BY <2>8 DEF IInv, Flow
    <3>2. Keeps(s, n) = Smaller(n, Limit[s] - kept[s]) /\ Limit[s] \in Nat
      BY <2>8, SizesAssumption DEF Keeps
    <3>3. kept[s] + Keeps(s, n) = Smaller(Taken(s) + n, Limit[s])
      BY <2>2, <2>6, <3>1, <3>2 DEF Smaller
    <3>4. (Taken(s) > Limit[s] \/ n > Keeps(s, n)) = (Taken(s) + n > Limit[s])
      BY <2>2, <2>6, <3>1, <3>2 DEF Smaller
    <3>5. kept'[s] = Smaller(Taken(s)', Limit[s])
      BY <2>5, <2>6, <3>3
    <3>6. truncated'[s] = (Taken(s)' > Limit[s])
      BY <2>5, <2>6, <3>1, <3>4 DEF Cuts
    <3>. QED
      BY <2>3, <2>4, <2>6, <2>8, <3>5, <3>6 DEF IInv, Flow, Taken
  <2>. QED
    BY <2>7, <2>8, ScriptsAssumption DEF IInv, TypeOK
\* the other steps leave all of it alone
<1>4. CASE \/ HelperReads \/ (\E c \in Codes : HelperExits(c)) \/ HelperBreaks
           \/ HelperDies \/ HelperHangs \/ HelperForks \/ LeftExits
           \/ (\E s \in Streams : ReadToEnd(s))
           \/ (\E s \in Streams : ReadFails(s)) \/ Spawn \/ SpawnRefused
           \/ WriteRequest \/ RequestBroken \/ StartReaders \/ WaitExit
           \/ WaitTimeout \/ WaitFails \/ JoinFails \/ Conclude
  BY <1>4, SizesAssumption, ScriptsAssumption
  DEF HelperReads, HelperExits, HelperBreaks, HelperDies, HelperHangs,
      HelperForks, LeftExits, ReadToEnd, ReadFails, Spawn, SpawnRefused,
      WriteRequest, RequestBroken, StartReaders, WaitExit, WaitTimeout,
      WaitFails, JoinFails, Conclude, ExitWith, Return, Alive, Terminate,
      Waited, MayWait, ExitError, IInv, Flow, Taken, Smaller, vars, cliVars,
      helperVars, outVars
<1>5. CASE UNCHANGED vars
  BY <1>5 DEF IInv, Flow, Taken, Smaller, vars, cliVars, helperVars, outVars
<1>. QED
  BY <1>1, <1>2, <1>3, <1>4, <1>5
  DEF Next, Cli, CliFails, Helper, HelperWorks, Reader

\* Nothing is written, and nobody comes to life, after the end of file.
LEMMA EndOfFileStep ==
    ASSUME IInv, TypeOK', [Next]_vars
    PROVE  EndOfFile'
<1>1. ASSUME NEW s \in Streams, HelperWrites(s) PROVE EndOfFile'
  BY <1>1, SizesAssumption, ScriptsAssumption
  DEF HelperWrites, Put, IInv, TypeOK, EndOfFile, Phases, Alive, vars,
      cliVars, helperVars, outVars
<1>2. CASE HelperForks
  BY <1>2, SizesAssumption, ScriptsAssumption
  DEF HelperForks, IInv, TypeOK, EndOfFile, Phases, Alive, vars, cliVars,
      helperVars, outVars
<1>3. ASSUME NEW s \in Streams, LeftWrites(s) PROVE EndOfFile'
  BY <1>3, SizesAssumption, ScriptsAssumption
  DEF LeftWrites, Put, IInv, TypeOK, EndOfFile, Phases, Alive, vars,
      cliVars, helperVars, outVars
<1>4. CASE LeftExits
  BY <1>4, SizesAssumption, ScriptsAssumption
  DEF LeftExits, IInv, TypeOK, EndOfFile, Phases, Alive, vars, cliVars,
      helperVars, outVars
<1>5. ASSUME NEW s \in Streams, ReadBounded(s) PROVE EndOfFile'
  BY <1>5, SizesAssumption, ScriptsAssumption
  DEF ReadBounded, Keeps, Cuts, Smaller, IInv, TypeOK, EndOfFile, Phases,
      Alive, vars, cliVars, helperVars, outVars
<1>6. ASSUME NEW s \in Streams, ReadToEnd(s) PROVE EndOfFile'
  BY <1>6, SizesAssumption, ScriptsAssumption
  DEF ReadToEnd, IInv, TypeOK, EndOfFile, Phases, Alive, vars, cliVars,
      helperVars, outVars
<1>7. ASSUME NEW s \in Streams, ReadFails(s) PROVE EndOfFile'
  BY <1>7, SizesAssumption, ScriptsAssumption
  DEF ReadFails, IInv, TypeOK, EndOfFile, Phases, Alive, vars, cliVars,
      helperVars, outVars
<1>8. CASE Spawn
  BY <1>8, SizesAssumption, ScriptsAssumption
  DEF Spawn, IInv, TypeOK, EndOfFile, Phases, Alive, vars, cliVars,
      helperVars, outVars
<1>9. CASE StartReaders
  BY <1>9, SizesAssumption, ScriptsAssumption
  DEF StartReaders, IInv, TypeOK, EndOfFile, Phases, Alive, vars, cliVars,
      helperVars, outVars
\* the other steps leave all of it alone
<1>10. CASE \/ HelperReads \/ (\E c \in Codes : HelperExits(c)) \/ HelperBreaks
            \/ HelperDies \/ HelperHangs \/ SpawnRefused \/ WriteRequest
            \/ RequestBroken \/ WaitExit \/ WaitTimeout \/ WaitFails
            \/ JoinFails \/ Conclude
  BY <1>10, SizesAssumption, ScriptsAssumption
  DEF HelperReads, HelperExits, HelperBreaks, HelperDies, HelperHangs,
      SpawnRefused, WriteRequest, RequestBroken, WaitExit, WaitTimeout,
      WaitFails, JoinFails, Conclude, ExitWith, Return, Alive, Terminate,
      Waited, MayWait, ExitError, IInv, EndOfFile, Phases, vars, cliVars,
      helperVars, outVars
<1>11. CASE UNCHANGED vars
  BY <1>11 DEF IInv, EndOfFile, Phases, Alive, vars, cliVars, helperVars,
      outVars
<1>. QED
  BY <1>1, <1>2, <1>3, <1>4, <1>5, <1>6, <1>7, <1>8, <1>9, <1>10, <1>11
  DEF Next, Cli, CliFails, Helper, HelperWorks, Reader

\* The phases of the call and those of the helper go together.
LEMMA PhasesStep ==
    ASSUME IInv, TypeOK', [Next]_vars
    PROVE  Phases'
<1>1. CASE HelperForks
  BY <1>1, SizesAssumption, ScriptsAssumption
  DEF HelperForks, IInv, TypeOK, Phases, NoHelperLeftBehind, vars, cliVars,
      helperVars, outVars
<1>2. ASSUME NEW s \in Streams, ReadToEnd(s) PROVE Phases'
  BY <1>2, SizesAssumption, ScriptsAssumption
  DEF ReadToEnd, IInv, TypeOK, Phases, NoHelperLeftBehind, vars, cliVars,
      helperVars, outVars
<1>3. ASSUME NEW s \in Streams, ReadFails(s) PROVE Phases'
  BY <1>3, SizesAssumption, ScriptsAssumption
  DEF ReadFails, IInv, TypeOK, Phases, NoHelperLeftBehind, vars, cliVars,
      helperVars, outVars
<1>4. CASE Spawn
  BY <1>4, SizesAssumption, ScriptsAssumption
  DEF Spawn, IInv, TypeOK, Phases, NoHelperLeftBehind, vars, cliVars,
      helperVars, outVars
<1>5. CASE SpawnRefused
  BY <1>5, SizesAssumption, ScriptsAssumption
  DEF SpawnRefused, Return, IInv, TypeOK, Phases, NoHelperLeftBehind, vars,
      cliVars, helperVars, outVars
<1>6. CASE RequestBroken
  BY <1>6, SizesAssumption, ScriptsAssumption
  DEF RequestBroken, Terminate, Return, IInv, TypeOK, Phases,
      NoHelperLeftBehind, vars, cliVars, helperVars, outVars
<1>7. CASE StartReaders
  BY <1>7, SizesAssumption, ScriptsAssumption
  DEF StartReaders, IInv, TypeOK, Phases, NoHelperLeftBehind, vars, cliVars,
      helperVars, outVars
<1>8. CASE WaitExit
  BY <1>8, SizesAssumption, ScriptsAssumption
  DEF WaitExit, Waited, MayWait, IInv, TypeOK, Phases, NoHelperLeftBehind,
      vars, cliVars, helperVars, outVars
<1>9. CASE WaitTimeout
  BY <1>9, SizesAssumption, ScriptsAssumption
  DEF WaitTimeout, Waited, Terminate, IInv, TypeOK, Phases,
      NoHelperLeftBehind, vars, cliVars, helperVars, outVars
<1>10. CASE WaitFails
  BY <1>10, SizesAssumption, ScriptsAssumption
  DEF WaitFails, Waited, Terminate, MayWait, IInv, TypeOK, Phases,
      NoHelperLeftBehind, vars, cliVars, helperVars, outVars
<1>11. CASE JoinFails
  BY <1>11, SizesAssumption, ScriptsAssumption
  DEF JoinFails, Return, IInv, TypeOK, Phases, NoHelperLeftBehind, vars,
      cliVars, helperVars, outVars
<1>12. CASE Conclude
  BY <1>12, SizesAssumption, ScriptsAssumption
  DEF Conclude, Return, ExitError, IInv, TypeOK, Phases, NoHelperLeftBehind,
      vars, cliVars, helperVars, outVars
\* the other steps leave all of it alone
<1>13. CASE \/ HelperReads \/ (\E s \in Streams : HelperWrites(s))
            \/ (\E c \in Codes : HelperExits(c)) \/ HelperBreaks \/ HelperDies
            \/ HelperHangs \/ (\E s \in Streams : LeftWrites(s)) \/ LeftExits
            \/ (\E s \in Streams : ReadBounded(s)) \/ WriteRequest
  BY <1>13, SizesAssumption, ScriptsAssumption
  DEF HelperReads, HelperWrites, HelperExits, HelperBreaks, HelperDies,
      HelperHangs, LeftWrites, LeftExits, ReadBounded, WriteRequest, Put,
      ExitWith, Keeps, Cuts, Smaller, Alive, IInv, Phases,
      NoHelperLeftBehind, vars, cliVars, helperVars, outVars
<1>14. CASE UNCHANGED vars
  BY <1>14 DEF IInv, Phases, NoHelperLeftBehind, vars, cliVars, helperVars,
      outVars
<1>. QED
  BY <1>1, <1>2, <1>3, <1>4, <1>5, <1>6, <1>7, <1>8, <1>9, <1>10, <1>11,
      <1>12, <1>13, <1>14
  DEF Next, Cli, CliFails, Helper, HelperWorks, Reader

\* An answer that was returned stays the whole one.
LEMMA AnsweredStep ==
    ASSUME IInv, TypeOK', [Next]_vars
    PROVE  Answered'
<1>1. ASSUME NEW s \in Streams, ReadBounded(s) PROVE Answered'
  BY <1>1, SizesAssumption, ScriptsAssumption
  DEF ReadBounded, Keeps, Cuts, Smaller, IInv, TypeOK, Answered, EndOfFile,
      Phases, ReadersDone, Alive, TooLarge, Parses, vars, cliVars,
      helperVars, outVars
<1>2. ASSUME NEW s \in Streams, ReadToEnd(s) PROVE Answered'
  BY <1>2, SizesAssumption, ScriptsAssumption
  DEF ReadToEnd, IInv, TypeOK, Answered, EndOfFile, Phases, ReadersDone,
      Alive, TooLarge, Parses, vars, cliVars, helperVars, outVars
<1>3. ASSUME NEW s \in Streams, ReadFails(s) PROVE Answered'
  BY <1>3, SizesAssumption, ScriptsAssumption
  DEF ReadFails, IInv, TypeOK, Answered, EndOfFile, Phases, ReadersDone,
      Alive, TooLarge, Parses, vars, cliVars, helperVars, outVars
<1>4. CASE SpawnRefused
  BY <1>4, SizesAssumption, ScriptsAssumption
  DEF SpawnRefused, Return, IInv, TypeOK, Answered, EndOfFile, Phases,
      ReadersDone, Alive, TooLarge, Parses, vars, cliVars, helperVars,
      outVars
<1>5. CASE RequestBroken
  BY <1>5, SizesAssumption, ScriptsAssumption
  DEF RequestBroken, Terminate, Return, IInv, TypeOK, Answered, EndOfFile,
      Phases, ReadersDone, Alive, TooLarge, Parses, vars, cliVars,
      helperVars, outVars
<1>6. CASE StartReaders
  BY <1>6, SizesAssumption, ScriptsAssumption
  DEF StartReaders, IInv, TypeOK, Answered, EndOfFile, Phases, ReadersDone,
      Alive, TooLarge, Parses, vars, cliVars, helperVars, outVars
<1>7. CASE WaitExit
  BY <1>7, SizesAssumption, ScriptsAssumption
  DEF WaitExit, Waited, MayWait, IInv, TypeOK, Answered, EndOfFile, Phases,
      ReadersDone, Alive, TooLarge, Parses, vars, cliVars, helperVars,
      outVars
<1>8. CASE WaitTimeout
  BY <1>8, SizesAssumption, ScriptsAssumption
  DEF WaitTimeout, Waited, Terminate, IInv, TypeOK, Answered, EndOfFile,
      Phases, ReadersDone, Alive, TooLarge, Parses, vars, cliVars,
      helperVars, outVars
<1>9. CASE WaitFails
  BY <1>9, SizesAssumption, ScriptsAssumption
  DEF WaitFails, Waited, Terminate, MayWait, IInv, TypeOK, Answered,
      EndOfFile, Phases, ReadersDone, Alive, TooLarge, Parses, vars,
      cliVars, helperVars, outVars
<1>10. CASE JoinFails
  BY <1>10, SizesAssumption, ScriptsAssumption
  DEF JoinFails, Return, IInv, TypeOK, Answered, EndOfFile, Phases,
      ReadersDone, Alive, TooLarge, Parses, vars, cliVars, helperVars,
      outVars
<1>11. CASE Conclude
  BY <1>11, SizesAssumption, ScriptsAssumption
  DEF Conclude, Return, ExitError, IInv, TypeOK, Answered, EndOfFile,
      Phases, ReadersDone, Alive, TooLarge, Parses, vars, cliVars,
      helperVars, outVars
\* the other steps leave all of it alone
<1>12. CASE \/ HelperReads \/ (\E s \in Streams : HelperWrites(s))
            \/ (\E c \in Codes : HelperExits(c)) \/ HelperBreaks \/ HelperDies
            \/ HelperHangs \/ HelperForks \/ (\E s \in Streams : LeftWrites(s))
            \/ LeftExits \/ Spawn \/ WriteRequest
  BY <1>12, SizesAssumption, ScriptsAssumption
  DEF HelperReads, HelperWrites, HelperExits, HelperBreaks, HelperDies,
      HelperHangs, HelperForks, LeftWrites, LeftExits, Spawn, WriteRequest,
      Put, ExitWith, Alive, IInv, Answered, EndOfFile, Phases, ReadersDone,
      TooLarge, Parses, vars, cliVars, helperVars, outVars
<1>13. CASE UNCHANGED vars
  BY <1>13 DEF IInv, Answered, EndOfFile, Phases, ReadersDone, Alive,
      TooLarge, Parses, vars, cliVars, helperVars, outVars
<1>. QED
  BY <1>1, <1>2, <1>3, <1>4, <1>5, <1>6, <1>7, <1>8, <1>9, <1>10, <1>11,
      <1>12, <1>13
  DEF Next, Cli, CliFails, Helper, HelperWorks, Reader

\* A helper ends once, and only what it says itself is 0 or 4.
LEMMA ExitsStep ==
    ASSUME IInv, TypeOK', [Next]_vars
    PROVE  Exits'
<1>1. ASSUME NEW c \in Codes, HelperExits(c) PROVE Exits'
  BY <1>1, SizesAssumption, ScriptsAssumption
  DEF HelperExits, ExitWith, IInv, TypeOK, Exits, Phases, MaySpeak, Heard,
      vars, cliVars, helperVars, outVars
<1>2. CASE HelperBreaks
  BY <1>2, SizesAssumption, ScriptsAssumption
  DEF HelperBreaks, ExitWith, IInv, TypeOK, Exits, Phases, MaySpeak, Heard,
      vars, cliVars, helperVars, outVars
<1>3. CASE HelperDies
  BY <1>3, SizesAssumption, ScriptsAssumption
  DEF HelperDies, ExitWith, IInv, TypeOK, Exits, Phases, MaySpeak, Heard,
      vars, cliVars, helperVars, outVars
<1>4. CASE HelperHangs
  BY <1>4, SizesAssumption, ScriptsAssumption
  DEF HelperHangs, IInv, TypeOK, Exits, Phases, MaySpeak, Heard, vars,
      cliVars, helperVars, outVars
<1>5. CASE Spawn
  BY <1>5, SizesAssumption, ScriptsAssumption
  DEF Spawn, IInv, TypeOK, Exits, Phases, MaySpeak, Heard, vars, cliVars,
      helperVars, outVars
<1>6. CASE WriteRequest
  BY <1>6, SizesAssumption, ScriptsAssumption
  DEF WriteRequest, Alive, IInv, TypeOK, Exits, Phases, MaySpeak, Heard,
      vars, cliVars, helperVars, outVars
<1>7. CASE RequestBroken
  BY <1>7, SizesAssumption, ScriptsAssumption
  DEF RequestBroken, Terminate, Return, IInv, TypeOK, Exits, Phases,
      MaySpeak, Heard, vars, cliVars, helperVars, outVars
<1>8. CASE WaitExit
  BY <1>8, SizesAssumption, ScriptsAssumption
  DEF WaitExit, Waited, MayWait, IInv, TypeOK, Exits, Phases, MaySpeak,
      Heard, vars, cliVars, helperVars, outVars
<1>9. CASE WaitTimeout
  BY <1>9, SizesAssumption, ScriptsAssumption
  DEF WaitTimeout, Waited, Terminate, IInv, TypeOK, Exits, Phases, MaySpeak,
      Heard, vars, cliVars, helperVars, outVars
<1>10. CASE WaitFails
  BY <1>10, SizesAssumption, ScriptsAssumption
  DEF WaitFails, Waited, Terminate, MayWait, IInv, TypeOK, Exits, Phases,
      MaySpeak, Heard, vars, cliVars, helperVars, outVars
\* the other steps leave all of it alone
<1>11. CASE \/ HelperReads \/ (\E s \in Streams : HelperWrites(s))
            \/ HelperForks \/ (\E s \in Streams : LeftWrites(s)) \/ LeftExits
            \/ (\E s \in Streams : ReadBounded(s))
            \/ (\E s \in Streams : ReadToEnd(s))
            \/ (\E s \in Streams : ReadFails(s)) \/ SpawnRefused \/ StartReaders
            \/ JoinFails \/ Conclude
  BY <1>11, SizesAssumption, ScriptsAssumption
  DEF HelperReads, HelperWrites, HelperForks, LeftWrites, LeftExits,
      ReadBounded, ReadToEnd, ReadFails, SpawnRefused, StartReaders,
      JoinFails, Conclude, Put, Keeps, Cuts, Smaller, Return, ExitError,
      IInv, Exits, Phases, MaySpeak, Heard, vars, cliVars, helperVars,
      outVars
<1>12. CASE UNCHANGED vars
  BY <1>12 DEF IInv, Exits, Phases, MaySpeak, Heard, vars, cliVars,
      helperVars, outVars
<1>. QED
  BY <1>1, <1>2, <1>3, <1>4, <1>5, <1>6, <1>7, <1>8, <1>9, <1>10, <1>11,
      <1>12
  DEF Next, Cli, CliFails, Helper, HelperWorks, Reader

\* What a call has returned goes on to be explained.
LEMMA ConcludedStep ==
    ASSUME IInv, TypeOK', [Next]_vars
    PROVE  Concluded'
<1>1. ASSUME NEW c \in Codes, HelperExits(c) PROVE Concluded'
  BY <1>1, SizesAssumption, ScriptsAssumption
  DEF HelperExits, ExitWith, IInv, TypeOK, Concluded, Streams, EndOfFile,
      Phases, ReadersDone, Alive, TooLarge, Parses, vars, cliVars,
      helperVars, outVars
<1>2. CASE HelperBreaks
  BY <1>2, SizesAssumption, ScriptsAssumption
  DEF HelperBreaks, ExitWith, IInv, TypeOK, Concluded, Streams, EndOfFile,
      Phases, ReadersDone, Alive, TooLarge, Parses, vars, cliVars,
      helperVars, outVars
<1>3. CASE HelperDies
  BY <1>3, SizesAssumption, ScriptsAssumption
  DEF HelperDies, ExitWith, IInv, TypeOK, Concluded, Streams, EndOfFile,
      Phases, ReadersDone, Alive, TooLarge, Parses, vars, cliVars,
      helperVars, outVars
<1>4. CASE HelperHangs
  BY <1>4, SizesAssumption, ScriptsAssumption
  DEF HelperHangs, IInv, TypeOK, Concluded, Streams, EndOfFile, Phases,
      ReadersDone, Alive, TooLarge, Parses, vars, cliVars, helperVars,
      outVars
<1>5. ASSUME NEW s \in Streams, ReadBounded(s) PROVE Concluded'
  BY <1>5, SizesAssumption, ScriptsAssumption
  DEF ReadBounded, Keeps, Cuts, Smaller, IInv, TypeOK, Concluded, Streams,
      EndOfFile, Phases, ReadersDone, Alive, TooLarge, Parses, vars,
      cliVars, helperVars, outVars
<1>6. ASSUME NEW s \in Streams, ReadToEnd(s) PROVE Concluded'
  BY <1>6, SizesAssumption, ScriptsAssumption
  DEF ReadToEnd, IInv, TypeOK, Concluded, Streams, EndOfFile, Phases,
      ReadersDone, Alive, TooLarge, Parses, vars, cliVars, helperVars,
      outVars
<1>7. ASSUME NEW s \in Streams, ReadFails(s) PROVE Concluded'
  BY <1>7, SizesAssumption, ScriptsAssumption
  DEF ReadFails, IInv, TypeOK, Concluded, Streams, EndOfFile, Phases,
      ReadersDone, Alive, TooLarge, Parses, vars, cliVars, helperVars,
      outVars
<1>8. CASE Spawn
  BY <1>8, SizesAssumption, ScriptsAssumption
  DEF Spawn, IInv, TypeOK, Concluded, Streams, EndOfFile, Phases,
      ReadersDone, Alive, TooLarge, Parses, vars, cliVars, helperVars,
      outVars
<1>9. CASE SpawnRefused
  BY <1>9, SizesAssumption, ScriptsAssumption
  DEF SpawnRefused, Return, IInv, TypeOK, Concluded, Streams, EndOfFile,
      Phases, ReadersDone, Alive, TooLarge, Parses, vars, cliVars,
      helperVars, outVars
<1>10. CASE WriteRequest
  BY <1>10, SizesAssumption, ScriptsAssumption
  DEF WriteRequest, Alive, IInv, TypeOK, Concluded, Streams, EndOfFile,
      Phases, ReadersDone, TooLarge, Parses, vars, cliVars, helperVars,
      outVars
<1>11. CASE RequestBroken
  BY <1>11, SizesAssumption, ScriptsAssumption
  DEF RequestBroken, Terminate, Return, IInv, TypeOK, Concluded, Streams,
      EndOfFile, Phases, ReadersDone, Alive, TooLarge, Parses, vars,
      cliVars, helperVars, outVars
<1>12. CASE StartReaders
  BY <1>12, SizesAssumption, ScriptsAssumption
  DEF StartReaders, IInv, TypeOK, Concluded, Streams, EndOfFile, Phases,
      ReadersDone, Alive, TooLarge, Parses, vars, cliVars, helperVars,
      outVars
<1>13. CASE WaitExit
  BY <1>13, SizesAssumption, ScriptsAssumption
  DEF WaitExit, Waited, MayWait, IInv, TypeOK, Concluded, Streams,
      EndOfFile, Phases, ReadersDone, Alive, TooLarge, Parses, vars,
      cliVars, helperVars, outVars
<1>14. CASE WaitTimeout
  BY <1>14, SizesAssumption, ScriptsAssumption
  DEF WaitTimeout, Waited, Terminate, IInv, TypeOK, Concluded, Streams,
      EndOfFile, Phases, ReadersDone, Alive, TooLarge, Parses, vars,
      cliVars, helperVars, outVars
<1>15. CASE WaitFails
  BY <1>15, SizesAssumption, ScriptsAssumption
  DEF WaitFails, Waited, Terminate, MayWait, IInv, TypeOK, Concluded,
      Streams, EndOfFile, Phases, ReadersDone, Alive, TooLarge, Parses,
      vars, cliVars, helperVars, outVars
<1>16. CASE JoinFails
  BY <1>16, SizesAssumption, ScriptsAssumption
  DEF JoinFails, Return, IInv, TypeOK, Concluded, Streams, EndOfFile,
      Phases, ReadersDone, Alive, TooLarge, Parses, vars, cliVars,
      helperVars, outVars
<1>17. CASE Conclude
  BY <1>17, SizesAssumption, ScriptsAssumption
  DEF Conclude, Return, ExitError, IInv, TypeOK, Concluded, Streams,
      EndOfFile, Phases, ReadersDone, Alive, TooLarge, Parses, vars,
      cliVars, helperVars, outVars
\* the other steps leave all of it alone
<1>18. CASE \/ HelperReads \/ (\E s \in Streams : HelperWrites(s))
            \/ HelperForks \/ (\E s \in Streams : LeftWrites(s)) \/ LeftExits
  BY <1>18, SizesAssumption, ScriptsAssumption
  DEF HelperReads, HelperWrites, HelperForks, LeftWrites, LeftExits, Put,
      IInv, Concluded, Streams, EndOfFile, Phases, ReadersDone, Alive,
      TooLarge, Parses, vars, cliVars, helperVars, outVars
<1>19. CASE UNCHANGED vars
  BY <1>19 DEF IInv, Concluded, Streams, EndOfFile, Phases, ReadersDone,
      Alive, TooLarge, Parses, vars, cliVars, helperVars, outVars
<1>. QED
  BY <1>1, <1>2, <1>3, <1>4, <1>5, <1>6, <1>7, <1>8, <1>9, <1>10, <1>11,
      <1>12, <1>13, <1>14, <1>15, <1>16, <1>17, <1>18, <1>19
  DEF Next, Cli, CliFails, Helper, HelperWorks, Reader

-----------------------------------------------------------------------------
LEMMA InitIInv == Init => IInv
<1>. SUFFICES ASSUME Init PROVE IInv
  OBVIOUS
<1>1. TypeOK
  <2>1. result \in [code : ResultCodes, timedOut : BOOLEAN, cut : BOOLEAN]
    BY DEF Init, NoResult, ResultCodes
  <2>2. pipe \in [Streams -> 0..Capacity]
    BY SizesAssumption DEF Init
  <2>3. unsent \in 0..Request /\ stdin \in 0..Request
    BY SizesAssumption DEF Init
  <2>4. code \in Int
    BY DEF Init
  <2>. QED
    BY <2>1, <2>2, <2>3, <2>4 DEF Init, TypeOK
<1>2. Conserved
  BY SizesAssumption DEF Init, Conserved
<1>3. Flow
  <2>1. \A s \in Streams : Taken(s) = 0 /\ Limit[s] \in Nat
    BY SizesAssumption DEF Init, Taken
  <2>2. \A s \in Streams : kept[s] = 0 /\ truncated[s] = FALSE
    BY DEF Init
  <2>3. \A s \in Streams :
            /\ Smaller(Taken(s), Limit[s]) = 0 /\ (Taken(s) > Limit[s]) = FALSE
            /\ Taken(s) >= 0
    BY <2>1 DEF Smaller
  <2>. QED
    BY <2>1, <2>2, <2>3 DEF Flow
<1>4. EndOfFile /\ Phases
  BY DEF Init, EndOfFile, Phases, NoHelperLeftBehind
<1>5. Answered
  BY DEF Init, Answered, NoResult
<1>6. Exits /\ Concluded
  BY DEF Init, Exits, Concluded
<1>. QED BY <1>1, <1>2, <1>3, <1>4, <1>5, <1>6 DEF IInv

LEMMA NextIInv == IInv /\ [Next]_vars => IInv'
<1>. SUFFICES ASSUME IInv, [Next]_vars PROVE IInv'
  OBVIOUS
<1>1. TypeOK' BY TypeOKStep
<1>2. Conserved' BY <1>1, ConservedStep
<1>3. Flow' BY <1>1, FlowStep
<1>4. EndOfFile' BY <1>1, EndOfFileStep
<1>5. Phases' BY <1>1, PhasesStep
<1>6. Answered' BY <1>1, AnsweredStep
<1>7. Exits' BY <1>1, ExitsStep
<1>8. Concluded' BY <1>1, ConcludedStep
<1>. QED BY <1>1, <1>2, <1>3, <1>4, <1>5, <1>6, <1>7, <1>8 DEF IInv

\* The invariant holds of every call, for every size and every script.
THEOREM IInvAlways == Spec => []IInv
BY InitIInv, NextIInv, PTL DEF Spec

\* Types, and with them the bounds of the pipes: the CLI never has more of the
\* request under way than there is, and no pipe holds more than it can.
THEOREM TypeCorrect == Spec => []TypeOK
<1>1. IInv => TypeOK BY DEF IInv
<1>. QED BY <1>1, IInvAlways, PTL

\* A reader that has come to the end holds exactly the first Limit units and
\* flags exactly what went beyond them, whatever the sizes of limit and reads.
THEOREM BoundIsExactAlways == Spec => []BoundIsExact
<1>1. IInv => BoundIsExact
  <2>. SUFFICES ASSUME IInv, NEW s \in Streams, reader[s] = "eof"
                PROVE  LET bound == IF client = "lifecycle" THEN wrote[s] ELSE Limit[s]
                       IN  /\ kept[s] = Smaller(wrote[s], bound)
                           /\ truncated[s] = (wrote[s] > bound)
    BY DEF BoundIsExact
  <2>1. wrote[s] \in Nat /\ Limit[s] \in Nat /\ truncated[s] \in BOOLEAN
    BY SizesAssumption DEF IInv, TypeOK
  <2>2. pipe[s] = 0
    BY DEF IInv, EndOfFile
  <2>3. Taken(s) = wrote[s]
    BY <2>1, <2>2 DEF Taken
  <2>4. CASE client = "lifecycle"
    BY <2>1, <2>3, <2>4 DEF IInv, Flow, Smaller
  <2>5. CASE client = "evaluation"
    BY <2>1, <2>3, <2>5 DEF IInv, Flow, Smaller
  <2>. QED
    BY <2>4, <2>5, ScriptsAssumption DEF IInv, TypeOK
<1>. QED BY <1>1, IInvAlways, PTL

\* Whichever way a call returns, its helper is dead and reaped, or was never
\* started, unless the lifecycle client could not wait for it.
THEOREM NoHelperLeftBehindAlways == Spec => []NoHelperLeftBehind
<1>1. IInv => NoHelperLeftBehind BY DEF IInv, Phases
<1>. QED BY <1>1, IInvAlways, PTL

\* An answer is never cut, never of a helper that was killed, and complete: nobody
\* who holds the stream can add to it afterwards.
THEOREM AnswerIsWholeAlways == Spec => []AnswerIsWhole
<1>1. IInv => AnswerIsWhole
  <2>. SUFFICES ASSUME IInv, result.code = "ok"
                PROVE  /\ status = "exited" /\ code \in {0, 4}
                       /\ script.good /\ kept["out"] = AnswerSize /\ wrote["out"] = AnswerSize
    BY DEF AnswerIsWhole
  <2>1. "out" \in Streams
    BY DEF Streams
  <2>2. wrote["out"] \in Nat /\ Limit["out"] \in Nat /\ truncated["out"] \in BOOLEAN
    BY <2>1, SizesAssumption DEF IInv, TypeOK
  <2>3. pipe["out"] = 0
    BY <2>1 DEF IInv, Answered, ReadersDone, EndOfFile
  <2>4. Taken("out") = wrote["out"]
    BY <2>2, <2>3 DEF Taken
  <2>5. CASE client = "lifecycle"
    BY <2>1, <2>4, <2>5 DEF IInv, Flow, Answered
  <2>6. CASE client = "evaluation"
    BY <2>1, <2>2, <2>4, <2>6 DEF IInv, Flow, Answered, Smaller
  <2>. QED
    BY <2>5, <2>6, ScriptsAssumption DEF IInv, TypeOK
<1>. QED BY <1>1, IInvAlways, PTL

\* A good and whole answer reaches the caller, unless the deadline, the helper's
\* early end or the operating system is in the way: no bookkeeping of the CLI's own
\* loses it.
THEOREM AnswerIsUsedAlways == Spec => []AnswerIsUsed
<1>1. IInv => AnswerIsUsed
  <2>. SUFFICES ASSUME IInv, pc = "done", child = "reaped", code \in {0, 4}, script.good,
                       wrote["out"] = AnswerSize, AnswerSize <= Limit["out"],
                       status \notin {"timeout", "wait_error"},
                       \A s \in Streams : reader[s] # "failed"
                PROVE  \/ result.code = "ok"
                       \/ result.code = "nvms_request_write" /\ unsent > 0 /\ script.eager
    BY DEF AnswerIsUsed
  <2>1. CASE status = "none"
    BY <2>1 DEF IInv, Concluded, Exits, TypeOK
  <2>2. CASE status = "exited"
    <3>1. "out" \in Streams
      BY DEF Streams
    <3>2. AnswerSize \in Nat /\ Limit["out"] \in Nat /\ truncated["out"] \in BOOLEAN
      BY <3>1, SizesAssumption DEF IInv, TypeOK
    <3>3. ReadersDone
      BY <2>2 DEF IInv, Concluded
    <3>4. pipe["out"] = 0
      BY <3>1, <3>3 DEF IInv, EndOfFile, ReadersDone
    <3>5. Taken("out") = AnswerSize
      BY <3>2, <3>4 DEF Taken
    <3>6. CASE client = "lifecycle"
      BY <2>2, <3>1, <3>5, <3>6 DEF IInv, Flow, Concluded, TooLarge, Parses
    <3>7. CASE client = "evaluation"
      <4>1. kept["out"] = AnswerSize /\ ~truncated["out"]
        BY <3>1, <3>2, <3>5, <3>7 DEF IInv, Flow, Smaller
      <4>. QED
        BY <2>2, <4>1 DEF IInv, Concluded, TooLarge, Parses
    <3>. QED
      BY <3>6, <3>7, ScriptsAssumption DEF IInv, TypeOK
  <2>. QED
    BY <2>1, <2>2 DEF IInv, TypeOK
<1>. QED BY <1>1, IInvAlways, PTL
=============================================================================
