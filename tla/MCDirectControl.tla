-------------------------- MODULE MCDirectControl ---------------------------
(***************************************************************************)
(* Small instances of DirectControl for TLC.                               *)
(***************************************************************************)
EXTENDS DirectControl
=============================================================================
