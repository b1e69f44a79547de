------------------------------ MODULE MCShowKey -----------------------------
(***************************************************************************)
(* An instance of ShowKey; the timeout is in the .cfg files.               *)
(***************************************************************************)
EXTENDS ShowKey
=============================================================================
