----------------------------- MODULE MCJobStore -----------------------------
(***************************************************************************)
(* Instances of JobStore for TLC.  An instance ends when every invocation  *)
(* has, so its runs do not check deadlock.  Invocations are                *)
(* interchangeable and so are process ids: of the initial states that only *)
(* rename them, MCInit keeps one.                                          *)
(***************************************************************************)
EXTENDS JobStore, FiniteSets

CONSTANTS p1, p2, p3, i1, i2, j1, j2

Place(p) == (IF job[p] = j1 THEN 0 ELSE 2) + (IF pid[p] = i1 THEN 0 ELSE 1)

MCInit ==
    /\ Init
    /\ Place(p1) <= Place(p2) /\ Place(p2) <= Place(p3)
    /\ Cardinality({p \in Procs : pid[p] = i1}) >= 2

MCSpec ==
    MCInit /\ [][Next]_vars /\ \A p \in Procs : WF_vars(ActionStep(p) \/ ExportStep(p))
=============================================================================
