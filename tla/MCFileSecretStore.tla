------------------------- MODULE MCFileSecretStore -------------------------
(***************************************************************************)
(* Instances of FileSecretStore for TLC.  An instance rests when its       *)
(* mutations are used up, so its runs do not check deadlock.               *)
(***************************************************************************)
EXTENDS FileSecretStore
=============================================================================
