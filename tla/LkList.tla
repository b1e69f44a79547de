------------------------------- MODULE LkList -------------------------------
(***************************************************************************)
(* What ctx->key_line promises the parser (src/src/libkeymap/parser.y): a  *)
(* list of the values seen so far on one "keycode N = ..." line, grown at  *)
(* its end by rvalue1 and dropped as a whole by the lexer's "=" rule.      *)
(***************************************************************************)
EXTENDS Naturals, Sequences

CONSTANTS
    Value,          \* what a column of the line may hold
    MaxEntries      \* the longest line (MAX_NR_KEYMAPS columns)

VARIABLE list

ListInit == list = <<>>

AppendValue ==
    /\ Len(list) < MaxEntries
    /\ \E v \in Value : list' = Append(list, v)

StartLine == list' = <<>>

ListNext == AppendValue \/ StartLine

ListSpec == ListInit /\ [][ListNext]_list
=============================================================================
