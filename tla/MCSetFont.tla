----------------------------- MODULE MCSetFont ------------------------------
(***************************************************************************)
(* Instances of SetFont: a plain font of 256 glyphs without a table, the   *)
(* two halves of one with tables, a tall font of 200 glyphs, a combine     *)
(* file, a bare bitmap, a file that is no font and one that is missing.    *)
(***************************************************************************)
EXTENDS SetFont

MCFonts == {"default", "half", "rest", "tall", "combine", "raw", "bad", "gone"}

MCKind ==
    [f \in MCFonts |->
        CASE f = "combine" -> "combine" [] f = "raw" -> "raw" [] f = "bad" -> "bad" [] f = "gone" -> "missing" [] OTHER -> "psf"]

MCParts == [f \in MCFonts |-> IF f = "combine" THEN <<"half", "rest">> ELSE <<>>]

MCCount == [f \in MCFonts |-> IF f \in {"half", "rest"} THEN 128 ELSE IF f = "tall" THEN 200 ELSE 256]

Files == {<<>>, <<"default">>, <<"half">>, <<"half", "rest">>, <<"half", "tall">>, <<"tall">>, <<"raw">>,
          <<"combine">>, <<"bad">>, <<"gone">>, <<"half", "combine">>}

OptionSets == {{}, {"O"}, {"o", "ou"}, {"om", "m"}, {"R"}, {"u none"}, {"u", "ou"}, {"u", "f"}}

(* main adds the empty name when nothing else is asked for.                *)
MCCommands ==
    {c \in [options : OptionSets, files : Files, ufile : {"good", "empty", "bad", "missing"}] :
        /\ c.files = <<>> => c.options \notin {{}, {"u none"}}
        /\ "u" \notin c.options => c.ufile = "good"}

MCOtherMaps == {{}, {"other"}, {"boot", "other"}}
=============================================================================
