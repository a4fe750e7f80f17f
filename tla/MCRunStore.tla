----------------------------- MODULE MCRunStore -----------------------------
(***************************************************************************)
(* Instances of RunStore for TLC: two services, the second depending on    *)
(* the first, or one service and what else the helper reports, and two or  *)
(* three invocations of the CLI.                                           *)
(***************************************************************************)
EXTENDS RunStore, TLC

OneService == <<1>>
TwoServices == <<1, 2>>
NoTeardown == <<>>
PartialTeardown == <<2>>
AllCommands == Commands

\* Invocations are interchangeable: they run the same code.
Symmetry == Permutations(Procs)

=============================================================================
