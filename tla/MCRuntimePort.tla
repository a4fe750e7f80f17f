---------------------------- MODULE MCRuntimePort ----------------------------
(***************************************************************************)
(* The runtime adapters alone, for what the Runtime trait says of them.    *)
(***************************************************************************)
EXTENDS RuntimePort

\* Container 1 is "web", container 2 "web-2".
TheMentions == {<<1, 2>>}
=============================================================================
