------------------------------ MODULE MCKeymap ------------------------------
(***************************************************************************)
(* Small instances of Keymap.                                              *)
(***************************************************************************)
EXTENDS Keymap

(* The plain, Shift and Alt tables: the letter columns, and alt_is_meta.   *)
MCTable == {0, 1, 8}

(* A letter, a digit and VoidSymbol, and a keysym that does not convert.   *)
MCEntry == {K("LATIN", 97), K("LATIN", 49), K_HOLE, BadCode}
=============================================================================
