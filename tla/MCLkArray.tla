----------------------------- MODULE MCLkArray -----------------------------
(***************************************************************************)
(* A small instance of LkArray with the owners libkeymap has.              *)
(***************************************************************************)
EXTENDS LkArray

(* ctx->keymap, key maps, key_constant, func_table; ctx->key_line;         *)
(* ctx->accent_table.                                                      *)
MCOwners == {{"set", "unset"}, {"append", "empty"}, {"append", "set", "unset"}}

(* Every item is stored, the all-zero one too.                             *)
MCItem == Item
=============================================================================
