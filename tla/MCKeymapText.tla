---------------------------- MODULE MCKeymapText ----------------------------
(***************************************************************************)
(* Instances of KeymapText: a file that includes itself, a chain, a file   *)
(* with two includes, one with an error, one with a missing include, and   *)
(* keysyms of every kind.  The charsets are parts of iso-8859-1, of one    *)
(* that shares a letter with it, of one that has it at another byte, and   *)
(* of one (as mazovia) that has it twice; mu is two characters.            *)
(***************************************************************************)
EXTENDS KeymapText, TLC

MCsyms == (0 :> (97 :> "a" @@ 181 :> "mu" @@ 232 :> "egrave" @@ 233 :> "eacute" @@ 235 :> "ediaeresis"))
          @@ (2 :> (0 :> "VoidSymbol" @@ 1 :> "Return")) @@ (4 :> (0 :> "dead_grave"))

Char(uni, name) == [uni |-> uni, name |-> name]
MCcharsets ==
    <<181 :> Char(181, "mu") @@ 232 :> Char(232, "egrave") @@ 233 :> Char(233, "eacute") @@ 235 :> Char(235, "ediaeresis"),
      232 :> Char(269, "ccaron") @@ 233 :> Char(233, "eacute") @@ 234 :> Char(281, "eogonek"),
      181 :> Char(901, "tonos") @@ 231 :> Char(233, "eacute") @@ 232 :> Char(1072, "cyrillic_a")
      @@ 233 :> Char(1073, "cyrillic_be") @@ 236 :> Char(956, "mu"),
      231 :> Char(233, "eacute") @@ 233 :> Char(233, "eacute") @@ 234 :> Char(1074, "cyrillic_ve")>>
MCtry == <<1, 2>>
MCsynonyms == [Enter |-> "Return", egr |-> "egrave"]

(* Lines.                                                                  *)
Key(r) == [kind |-> "key", rvalue |-> r]
Charset(c) == [kind |-> "charset", charset |-> c]
MCText ==
    [iso1 |-> Charset(1), iso2 |-> Charset(2), koi |-> Charset(3),
     eacute |-> Key(Literal(FALSE, "", "eacute")), Eacute |-> Key(Literal(TRUE, "", "eacute")),
     cyr |-> Key(Literal(FALSE, "", "cyrillic_a")), Cyr |-> Key(Literal(TRUE, "", "cyrillic_a")),
     eogonek |-> Key(Literal(FALSE, "", "eogonek")), u281 |-> Key(Unumber(FALSE, 281)),
     U233 |-> Key(Unumber(TRUE, 233)), xEB |-> Key(Number(FALSE, 235)), xEA |-> Key(Number(FALSE, 234)),
     xE7 |-> Key(Number(FALSE, 231)), xF12 |-> Key(Number(FALSE, 3858)), u3bc |-> Key(Unumber(FALSE, 956)),
     XE8 |-> Key(Number(TRUE, 232)), XB61 |-> Key(Number(TRUE, K(KT_LETTER, 97))),
     meta_a |-> Key(Literal(FALSE, "Meta_", "a")), meta_eacute |-> Key(Literal(FALSE, "Meta_", "eacute")),
     meta_Return |-> Key(Literal(FALSE, "Meta_", "Return")), dead2_a |-> Key(Literal(FALSE, "dead2_", "a")),
     dead2_eacute |-> Key(Literal(FALSE, "dead2_", "eacute")), Enter |-> Key(Literal(FALSE, "", "Enter")),
     egr |-> Key(Literal(FALSE, "", "egr"))]
MCLines == DOMAIN MCText

MCContent ==
    [self  |-> <<"eacute", "self", "koi">>,
     leaf  |-> <<"iso2">>,
     chain |-> <<"two", "eacute", "Eacute">>,
     two   |-> <<"leaf", "eogonek", "koi", "leaf", "u281">>,
     bad   |-> <<"leaf", "error", "eacute">>,
     lost  |-> <<"bad", "nowhere">>,
     latin |-> <<"cyr", "iso1", "egr", "U233", "Cyr">>,
     bytes |-> <<"xEB", "xEA", "xE7", "XE8", "XB61", "xF12", "u3bc">>,
     meta  |-> <<"meta_a", "meta_eacute", "dead2_a", "dead2_eacute", "Enter", "meta_Return">>]
MCFile == DOMAIN MCContent

(* What an include means: the lines of the file in its place, up to the    *)
(* depth of the stack.                                                     *)
RECURSIVE Expand(_, _, _)
Expand(f, i, depth) ==
    IF i > Len(Content[f]) THEN <<>>
    ELSE LET item == Content[f][i]
             here == IF item \in Lines THEN <<item>>
                     ELSE IF depth > 1 THEN Expand(item, 1, depth - 1)
                     ELSE <<>>
         IN here \o Expand(f, i + 1, depth)

(* What a line means for a context.                                        *)
Meaning(ctx, l) ==
    IF Text[l].kind = "charset" THEN <<Text[l].charset, ctx[2] /\ Text[l].charset # Iso8859_1, ctx[3]>>
    ELSE <<ctx[1], ctx[2], Append(ctx[3], rvalue(ctx[1], ctx[2], Text[l].rvalue))>>

(* A call that succeeded has read the lines of the file with those of the  *)
(* included files in place of the include, each once and in order: a       *)
(* charset line in an include counts for what comes after it.              *)
LinesInPlace ==
    pc = "returned" /\ ret = 0 =>
        /\ read = Expand(files[Mine].file, 1, MaxDepth)
        /\ context = FoldLeft(Meaning, before, Expand(files[Mine].file, 1, MaxDepth))
=============================================================================
