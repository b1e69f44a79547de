----------------------------- MODULE FontTables -----------------------------
(***************************************************************************)
(* The Unicode table of a font on its way through the tools: from a text   *)
(* file into a font (psfaddtable), out of it (psfgettable), away           *)
(* (psfstriptable), into the console and back (setfont, setfont -O), and   *)
(* between the console and a map file (loadunimap, loadunimap -o).         *)
(* Sources: src/src/psfxtable.c, src/src/loadunimap.c,                     *)
(* src/src/libkfont/loadunimap.c and do_loadtable and kfont_save_font of   *)
(* src/src/libkfont/setfont.c; the formats are in PsfFont.                 *)
(*                                                                         *)
(* Each action is one run of a program.  A write may be cut short by a     *)
(* full disk: the programs report that, or, when stdio finds it out only   *)
(* at fclose, do not; what they leave behind is the same.                  *)
(***************************************************************************)
EXTENDS PsfFont, FiniteSets, FiniteSetsExt

CONSTANTS
    FontNames, TextNames,   \* files
    InitFonts,              \* font files and text files the user has,
    InitTexts,              \* in all the ways they may be given to the names
    CountMod,               \* unsigned short: 65536
    Chunk,                  \* add_unipair allocates that many pairs: 4096
    MaxRuns,                \* bound: programs run
    MaxFaults               \* bound: writes cut short

ASSUME FontTablesAssumption == CountMod \in Nat \ {0} /\ Chunk \in Nat \ {0} /\ CountMod % Chunk = 0

VARIABLES
    fonts,          \* font files, and `None'
    texts,          \* text files, and `None'
    kfont,          \* kernel: size of the console's font
    umap,           \* kernel: the Unicode map, character -> glyph
    meant,          \* history: the table (or the map) a file was meant to hold; `Cut'
                    \* when its writing was cut, `Lost' when that is not known
    runs, faults    \* bounds

vars == <<fonts, texts, kfont, umap, meant, runs, faults>>

None == [none |-> TRUE]
Lost == [kind |-> "lost", is |-> <<>>]
Cut == [kind |-> "cut", is |-> <<>>]
Table(heads) == [kind |-> "table", is |-> heads]
TheMap(m) == [kind |-> "map", is |-> m]
-----------------------------------------------------------------------------
(* What a file can hold                                                    *)

Chars(heads) == UNION {UNION {Range(heads[i][k]) : k \in DOMAIN heads[i]} : i \in DOMAIN heads}

(* The format of a psf entry: characters of their own, then sequences.     *)
InOrder(heads) ==
    \A i \in DOMAIN heads : \A j, k \in DOMAIN heads[i] :
        j < k /\ Len(heads[i][k]) = 1 => Len(heads[i][j]) = 1

(* A psf1 file has two bytes per character, two of them are its marks; a   *)
(* text file has four digits.                                              *)
FitsFont(f, heads) == InOrder(heads) /\ (f.psf = 1 => \A u \in Chars(heads) : u < PSF1_STARTSEQ)
FitsText(heads) == \A u \in Chars(heads) : getunicode(u)

(* All a cut may leave of a font: part of the header, of the bitmaps, of   *)
(* the table.                                                              *)
FontCuts(f) ==
    {NoFile} \union {[f EXCEPT !.bits = @ - 1, !.tab = <<>>]}
    \union {[f EXCEPT !.tab = SubSeq(@, 1, n)] : n \in 0 .. Len(f.tab) - 1}

(* ... and of a text: whole lines, and the start of one more.              *)
TextCuts(t) ==
    UNION {{[lines |-> SubSeq(t.lines, 1, n), cut |-> FALSE]}
           \union {[lines |-> Append(SubSeq(t.lines, 1, n), [t.lines[n + 1] EXCEPT !.defs = SubSeq(@, 1, k)]),
                    cut |-> TRUE] : k \in 0 .. Len(t.lines[n + 1].defs)}
           : n \in 0 .. Len(t.lines) - 1}

Init ==
    /\ fonts \in InitFonts
    /\ texts \in InitTexts
    /\ kfont = [width |-> 8, height |-> 16, len |-> Len256]
    /\ umap = <<>>
    /\ meant = [n \in FontNames \union TextNames |-> Lost]
    /\ runs = 0 /\ faults = 0

Run == runs < MaxRuns /\ runs' = runs + 1

(* A file is written to its end, or cut.                                   *)
WriteFont(o, f, heads) ==
    \/ /\ fonts' = [fonts EXCEPT ![o] = f]
       /\ meant' = [meant EXCEPT ![o] = IF FitsFont(f, heads) THEN Table(heads) ELSE Lost]
       /\ UNCHANGED faults
    \/ /\ faults < MaxFaults /\ faults' = faults + 1
       /\ \E c \in FontCuts(f) : fonts' = [fonts EXCEPT ![o] = c]
       /\ meant' = [meant EXCEPT ![o] = IF FitsFont(f, heads) THEN Cut ELSE Lost]

WriteText(o, t, holds) ==
    \/ /\ texts' = [texts EXCEPT ![o] = t]
       /\ meant' = [meant EXCEPT ![o] = holds]
       /\ UNCHANGED faults
    \/ /\ faults < MaxFaults /\ faults' = faults + 1
       /\ \E c \in TextCuts(t) : texts' = [texts EXCEPT ![o] = c]
       /\ meant' = [meant EXCEPT ![o] = Lost]
-----------------------------------------------------------------------------
(* psfxtable.c                                                             *)

(* The output is opened, and so emptied, before the font is read; a        *)
(* program that fails leaves it so.                                        *)
FontFails(o) ==
    /\ fonts' = [fonts EXCEPT ![o] = NoFile]
    /\ meant' = [meant EXCEPT ![o] = Lost]
    /\ UNCHANGED faults

TextFails(o) ==
    /\ texts' = [texts EXCEPT ![o] = EmptyText]
    /\ meant' = [meant EXCEPT ![o] = Lost]
    /\ UNCHANGED faults

InputFont(f, o) == IF f = o THEN NoFile ELSE fonts[f]

(* The table in file n: as it was meant, or else as it is read.  (For more *)
(* glyphs than it was meant for the others have no characters.)            *)
TableOf(n, heads) ==
    IF meant[n].kind # "table" THEN heads
    ELSE [i \in DOMAIN heads |-> IF i \in DOMAIN meant[n].is THEN meant[n].is[i] ELSE <<>>]

(* psfaddtable infont intable outfont: with a table given the font's own   *)
(* is not read.                                                            *)
psfaddtable(f, t, o) ==
    /\ Run /\ fonts[f] # None /\ texts[t] # None
    /\ \E in \in {InputFont(f, o)} : \E table \in {kfont_read_unicodetable(texts[t], FontLen(in))} :
         IF GoodFont(in) /\ table.ok
         THEN WriteFont(o, kfont_write_psffont(in, TRUE, table.heads), TableOf(t, table.heads))
         ELSE FontFails(o)
    /\ UNCHANGED <<texts, kfont, umap>>

(* psfgettable infont outtable: every psf font that is read has a list of  *)
(* heads, so one without a table gives lines without characters.           *)
psfgettable(f, t) ==
    /\ Run /\ fonts[f] # None
    /\ \E table \in {kfont_read_psffont(fonts[f])} :
         IF table.ok
         THEN \E heads \in {TableOf(f, table.heads)} :
                WriteText(t, kfont_write_unicodetable(table.heads, FontLen(fonts[f])),
                          IF FitsText(heads) THEN Table(heads) ELSE Lost)
         ELSE TextFails(t)
    /\ UNCHANGED <<fonts, kfont, umap>>

(* psfstriptable infont outfont (-nt); with psfxtable -i -o the font is    *)
(* copied with its table.                                                  *)
psfcopy(f, o, notable) ==
    /\ Run /\ fonts[f] # None
    /\ \E in \in {InputFont(f, o)} : \E table \in {kfont_read_psffont(in)} :
         IF table.ok
         THEN WriteFont(o, kfont_write_psffont(in, ~notable, table.heads),
                        IF notable THEN NoTable(FontLen(in)) ELSE TableOf(f, table.heads))
         ELSE FontFails(o)
    /\ UNCHANGED <<texts, kfont, umap>>

(* psfxtable -it intable -ot outtable: hastable was set before the table   *)
(* was read, so the font "does not have an index"; the output is empty.    *)
psfxtable_it_ot(f, t, o) ==
    /\ Run /\ fonts[f] # None /\ texts[t] # None
    /\ TextFails(o)
    /\ UNCHANGED <<fonts, kfont, umap>>
-----------------------------------------------------------------------------
(* The console                                                             *)

(* The kernel's map: of several pairs with one character the last counts.  *)
MapOf(pairs) ==
    [u \in {pairs[k].unicode : k \in DOMAIN pairs} |->
        pairs[Max({k \in DOMAIN pairs : pairs[k].unicode = u})].fontpos]

Pair(pos, u) == [fontpos |-> pos, unicode |-> u]

(* Mutant: sequences are not left out.                                     *)
TablePairsAll(heads, fontlen) ==
    FlattenSeq([k \in 1 .. fontlen |->
        [j \in DOMAIN heads[k - 1] |-> Pair(k - 1, heads[k - 1][j][1] % 65536)]])

(* do_loadtable: the characters of their own, cut to 16 bits.              *)
TablePairs(heads, fontlen) ==
    FlattenSeq([k \in 1 .. fontlen |->
        LET own == SelectSeq(heads[k - 1], LAMBDA seq : Len(seq) = 1)
        IN [j \in DOMAIN own |-> Pair(k - 1, own[j][1] % 65536)]])

(* setfont: the font, then its table; too many pairs are an error.         *)
setfont(f) ==
    /\ Run /\ fonts[f] # None
    /\ UNCHANGED <<fonts, texts, meant, faults>>
    /\ \E table \in {kfont_read_psffont(fonts[f])} :
          /\ table.ok
          /\ kfont' = [width |-> FontWidth(fonts[f]), height |-> FontHeight(fonts[f]), len |-> FontLen(fonts[f])]
          /\ \E pairs \in {TablePairs(table.heads, FontLen(fonts[f]))} :
                umap' = IF Len(pairs) < CountMod THEN MapOf(pairs) ELSE umap

(* The characters of a glyph as GIO_UNIMAP lists them.                     *)
CharsOf(i) == SetToSortSeq({u \in DOMAIN umap : umap[u] = i}, LAMBDA a, b : a < b)

MapTable(fontlen) == [i \in 0 .. fontlen - 1 |-> [k \in DOMAIN CharsOf(i) |-> <<CharsOf(i)[k]>>]]

(* setfont -O: save_font writes header and bitmaps, appendunicodemap the   *)
(* characters of each glyph of the font.                                   *)
save_font(o) ==
    /\ Run
    /\ \E h \in {writepsffontheader(kfont.width, kfont.height, kfont.len, 1, TRUE, FALSE)} :
       \E heads \in {MapTable(kfont.len)} :
          WriteFont(o, [h EXCEPT !.bits = kfont.len * ByteWidth(kfont.width) * kfont.height,
                                 !.tab = TableBytes(heads, kfont.len, h.psf = 2)], heads)
    /\ UNCHANGED <<texts, kfont, umap>>

(* Mutant: the list grows one pair too late.                               *)
GrowsLate(st) == st.ct > st.sz

Grows(st) == st.ct = st.sz

(* add_unipair: list, listsz and listct, which is an unsigned short; a     *)
(* pair written outside the list is lost at best.                          *)
add_unipair(st, pair) ==
    LET sz == IF Grows(st) THEN st.sz + Chunk ELSE st.sz
    IN [list |-> IF st.ct < sz THEN [k \in DOMAIN st.list \union {st.ct} |-> IF k = st.ct THEN pair ELSE st.list[k]]
                 ELSE st.list,
        sz   |-> sz,
        ct   |-> (st.ct + 1) % CountMod]

(* parseline: the pairs of a line, or an error.  A comma ends the line.    *)
LineUnis(defs) ==
    LET d == TakenDefs(defs)
        n == CHOOSE n \in 0 .. Len(d) : /\ \A k \in 1 .. n : Len(defs[k]) = 1
                                        /\ n < Len(d) => Len(defs[n + 1]) > 1
    IN [k \in 1 .. (IF n < Len(d) THEN n + 1 ELSE n) |-> d[k][1]]

BadLine(l) ==
    \/ l.fp0 >= Len512
    \/ l.fp1 # 0 /\ (l.fp1 < l.fp0 \/ l.fp1 >= Len512)
    \/ l.fp1 # 0 /\ l.form # "idem" /\ LineUnis(Listed(l)) = <<>>
    \/ l.fp1 # 0 /\ l.form = "range" /\ (~getunicode(l.defs[2][1]) \/ l.defs[2][1] - l.defs[1][1] # l.fp1 - l.fp0)

LinePairs(l) ==
    IF l.fp1 = 0 THEN LET u == LineUnis(Listed(l)) IN [k \in DOMAIN u |-> Pair(l.fp0, u[k])]
    ELSE [k \in 1 .. l.fp1 - l.fp0 + 1 |->
            Pair(l.fp0 + k - 1, CASE l.form = "idem" -> l.fp0 + k - 1
                                  [] l.form = "range" -> l.defs[1][1] + k - 1
                                  [] OTHER -> LineUnis(l.defs)[1])]

TextPairs(t) == FlattenSeq([k \in DOMAIN t.lines |-> LinePairs(t.lines[k])])

(* kfont_load_unicodemap: nothing is loaded after a bad line, or when the  *)
(* count is 0 (no error).  A line without newline is only warned about.    *)
kfont_load_unicodemap(t) ==
    /\ Run /\ texts[t] # None
    /\ UNCHANGED <<fonts, texts, kfont, meant, faults>>
    /\ \A k \in DOMAIN texts[t].lines : ~BadLine(texts[t].lines[k])
    /\ \E st \in {FoldLeft(add_unipair, [list |-> <<>>, sz |-> 0, ct |-> 0], TextPairs(texts[t]))} :
          umap' = IF st.ct = 0 THEN umap
                  ELSE MapOf([k \in {k \in 1 .. st.ct : k - 1 \in DOMAIN st.list} |-> st.list[k - 1]])

(* kfont_save_unicodemap: a line for each character of the map, in order.  *)
MapLines ==
    LET us == SetToSortSeq(DOMAIN umap, LAMBDA a, b : a < b)
    IN [k \in DOMAIN us |-> Line(umap[us[k]], 0, "list", <<<<us[k]>>>>)]

kfont_save_unicodemap(o) ==
    /\ Run
    /\ WriteText(o, [lines |-> MapLines, cut |-> FALSE], TheMap(umap))
    /\ UNCHANGED <<fonts, kfont, umap>>

Next ==
    \/ \E f, o \in FontNames : \E t \in TextNames : psfaddtable(f, t, o)
    \/ \E f \in FontNames, t \in TextNames : psfgettable(f, t)
    \/ \E f, o \in FontNames, notable \in BOOLEAN : psfcopy(f, o, notable)
    \/ \E f \in FontNames : \E t, o \in TextNames : psfxtable_it_ot(f, t, o)
    \/ \E f \in FontNames : setfont(f)
    \/ \E o \in FontNames : save_font(o)
    \/ \E t \in TextNames : kfont_load_unicodemap(t)
    \/ \E o \in TextNames : kfont_save_unicodemap(o)

Spec == Init /\ [][Next]_vars
-----------------------------------------------------------------------------
(* Properties                                                              *)

(* The shape of the state.                                                 *)
TypeOK ==
    /\ DOMAIN fonts = FontNames /\ DOMAIN texts = TextNames
    /\ \A u \in DOMAIN umap : u < 65536
    /\ runs \in 0 .. MaxRuns /\ faults \in 0 .. MaxFaults

(* Whatever programs a table went through since it was written down, each  *)
(* file that came of it and whose format can hold it reads back as that    *)
(* table: every sequence, in its order, for every glyph.                   *)
TablesKept ==
    /\ \A f \in FontNames : meant[f].kind = "table" =>
          kfont_read_psffont(fonts[f]) = [ok |-> TRUE, heads |-> meant[f].is]
    /\ \A t \in TextNames : meant[t].kind = "table" =>
          LET fontlen == Cardinality(DOMAIN meant[t].is)
          IN kfont_read_unicodetable(texts[t], fontlen) = [ok |-> TRUE, heads |-> meant[t].is]

(* A font whose writing was cut short, wherever that was, is never read as *)
(* a psf font: the header, the bitmaps and the end of the table are all    *)
(* missed when they are missing.                                           *)
NoPartialFont == \A f \in FontNames : meant[f] = Cut => ~kfont_read_psffont(fonts[f]).ok

(* setfont of a font made from a table: the console's map has, for each    *)
(* character of that table, its low 16 bits, and nothing else, with the    *)
(* last glyph that has such a character.  So U+0041 is shown with its own  *)
(* glyph unless a later one has U+10041: the cut is not checked.           *)
(* Sequences are not for the kernel, and a table of more pairs than an     *)
(* unsigned short counts is refused.                                       *)
ConsoleShowsTable ==
    [][\A f \in FontNames :
         LET heads == meant[f].is
             Own(i) == {u \in Chars(heads) : \E k \in DOMAIN heads[i] : heads[i][k] = <<u>>}
             Codes(i) == {u % 65536 : u \in Own(i)}
         IN meant[f].kind = "table" /\ setfont(f) =>
              \/ Len(TablePairs(heads, FontLen(fonts[f]))) >= CountMod /\ UNCHANGED umap
              \/ umap' = [v \in UNION {Codes(i) : i \in DOMAIN heads} |->
                            Max({i \in DOMAIN heads : v \in Codes(i)})]]_vars

(* A map file of fewer pairs than the counter counts is loaded whole: the  *)
(* last pair of each character counts, and a saved map comes back as it    *)
(* was.                                                                    *)
UnimapReloads ==
    [][\A t \in TextNames :
         LET pairs == TextPairs(texts[t])
         IN kfont_load_unicodemap(t) /\ Len(pairs) \in 1 .. CountMod - 1 =>
              /\ DOMAIN umap' = {pairs[k].unicode : k \in DOMAIN pairs}
              /\ \A k \in DOMAIN pairs : umap'[pairs[k].unicode] = pairs[k].fontpos
                    \/ \E j \in DOMAIN pairs : j > k /\ pairs[j].unicode = pairs[k].unicode
              /\ meant[t].kind = "map" => umap' = meant[t].is]_vars

=============================================================================
