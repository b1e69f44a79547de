---------------------------- MODULE MCFontTables ----------------------------
(***************************************************************************)
(* Instances of FontTables.  psf1 fonts have 2 or 3 glyphs.  Characters    *)
(* are at the borders of the encodings: 0x7f, 0x80, 0x7ff, 0x800, 0xfffd,  *)
(* the marks of psf1 0xfffe and 0xffff, and 0x10000.                       *)
(***************************************************************************)
EXTENDS FontTables

Psf1 == kfont_write_psffont([NoFile EXCEPT !.psf = 1, !.mode = PSF1_MODE512, !.charsize = 16], FALSE, <<>>)
Psf2(heads) == kfont_write_psffont([NoFile EXCEPT !.psf = 2, !.len = 3, !.width = 9, !.charsize = 32], TRUE, heads)

(* A psf1 font without a table, and a psf2 font with characters that a     *)
(* text table cannot hold, two of which are the same in 16 bits; the       *)
(* console starts with a font of two glyphs.                               *)
Fonts == {Psf1, Psf2([i \in 0 .. 2 |-> CASE i = 0 -> <<<<2047>>>>
                                         [] i = 1 -> <<<<65536>>, <<65, 65536>>>>
                                         [] i = 2 -> <<<<65536 + 2047>>>>])}

(* Lines: characters, sequences, a character after a sequence, ranges.     *)
Texts ==
    {<<Line(0, 0, "list", <<<<127>>, <<128>>, <<65, 769>>>>), Line(1, 0, "list", <<<<2048>>, <<127>>>>)>>,
     <<Line(0, 0, "list", <<<<65, 769>>, <<66>>>>)>>,
     <<Line(0, 0, "list", <<<<65533>>>>), Line(1, 0, "list", <<<<65534>>, <<65535, 65>>>>)>>,
     <<Line(0, 1, "range", <<<<65>>, <<66>>>>), Line(0, 1, "idem", <<>>), Line(1, 0, "list", <<<<65>>, <<67>>>>)>>,
     <<Line(0, 1, "list", <<<<65>>>>), Line(0, 2, "idem", <<>>), Line(1, 0, "range", <<<<66>>, <<67>>>>)>>}

MCInitFonts == {[n \in FontNames |-> IF n = "a" THEN f ELSE None] : f \in Fonts}
MCInitTexts == {[n \in TextNames |-> IF n = "t" THEN [lines |-> t, cut |-> FALSE] ELSE None] : t \in Texts}
=============================================================================
