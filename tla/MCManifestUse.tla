--------------------------- MODULE MCManifestUse ---------------------------
(***************************************************************************)
(* Instance of ManifestUse for TLC.  An invocation that has ended rests,   *)
(* so that the run keeps deadlock checking for the others.                 *)
(***************************************************************************)
EXTENDS ManifestUse

Ended ==
    \/ status \in Verdicts \ {"ok"}
    \/ outcome \in {"created", "rolled_back"}
    \/ answer # "none"
Rest == Ended /\ UNCHANGED useVars
MCSpec == UseInit /\ [][UseNext \/ Rest]_useVars /\ WF_useVars(UseStep)
=============================================================================
