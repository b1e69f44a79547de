---------------------------- MODULE MCKeymapLoad ----------------------------
(***************************************************************************)
(* Small instances of KeymapLoad: three tables, of which an old kernel     *)
(* knows two, two keys, two strings; "u" is a code for Unicode mode.       *)
(***************************************************************************)
EXTENDS KeymapLoad

Full == [k \in Key |-> "a"]

(* A kernel with every table an old one can have, and one with the plain   *)
(* table and the last one.                                                 *)
MCKernelMaps ==
    {[t \in Table |-> IF t < OldTables THEN Full ELSE NoMap],
     [t \in Table |-> IF t = 0 \/ t >= OldTables THEN Full ELSE NoMap]}

MCKernelStrings == [f \in Func |-> "old"]

NoStrings == [f \in {} |-> Empty]

(* Two tables, one key of which is Unicode, and a string.                  *)
TwoTables ==
    [maps |-> {0, 1}, keymaps |-> FALSE,
     keys |-> [t \in {0, 1} |-> IF t = 0 THEN [k \in Key |-> IF k = 1 THEN "u" ELSE "b"]
                                ELSE [k \in {0} |-> "b"]],
     funcs |-> [f \in {0} |-> "new"], accents |-> <<"narrow", "wide">>]

(* After "keymaps 1" and "keymaps 0, 2".                                   *)
OnlyOne ==
    [maps |-> {1}, keymaps |-> TRUE, keys |-> [t \in {1} |-> [k \in Key |-> "b"]],
     funcs |-> NoStrings, accents |-> <<"narrow", "narrow", "narrow">>]

ZeroAndTwo ==
    [maps |-> {0, 2}, keymaps |-> TRUE, keys |-> [t \in {0, 2} |-> [k \in {1} |-> "b"]],
     funcs |-> NoStrings, accents |-> <<>>]

(* A table is new, and one of its keys has a value that is skipped, as has *)
(* the only key of another.                                                *)
NumberTooLarge ==
    [maps |-> {1, 2}, keymaps |-> FALSE,
     keys |-> [t \in {1, 2} |-> IF t = 1 THEN [k \in Key |-> IF k = 0 THEN TooLarge ELSE "b"]
                                ELSE [k \in {1} |-> TooLarge]],
     funcs |-> NoStrings, accents |-> <<>>]

MCContexts == {TwoTables, OnlyOne, ZeroAndTwo, NumberTooLarge}

MCOptionSets == {{}, {"u"}, {"a"}, {"u", "a"}, {"u", "s"}, {"s", "c"}, {"p"}}

MCArgLists ==
    {<<"good">>, <<"good", "bad">>, <<"bad", "good">>, <<"missing">>, <<"good", "missing">>,
     <<"good", "missing", "bad">>, <<"good", "bad", "missing">>}
=============================================================================
