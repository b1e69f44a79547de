------------------------------ MODULE MCVLock -------------------------------
(***************************************************************************)
(* An instance of VLock; the consoles are in the .cfg file.                *)
(***************************************************************************)
EXTENDS VLock
=============================================================================
