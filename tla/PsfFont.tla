------------------------------ MODULE PsfFont -------------------------------
(***************************************************************************)
(* psf font files and their Unicode tables: the table as bytes after the   *)
(* bitmaps (src/src/libkfont/psffontop.c, unicode.c, utf8.c) and as the    *)
(* lines of a text file (libkfont/psfxtable.c).                            *)
(*                                                                         *)
(* A table (struct unicode_list[]) gives each glyph a list of character    *)
(* sequences; one of length 1 is a character of its own.  A font file is   *)
(* its header, the number of bitmap bytes after it and the table's bytes;  *)
(* the bitmaps themselves are opaque.  A text file is a sequence of lines; *)
(* `cut' tells that the last one has no newline.                           *)
(***************************************************************************)
EXTENDS Integers, Sequences, SequencesExt

CONSTANTS
    Len256,         \* the lengths a psf1 header can tell: 256 ...
    Len512          \* ... and 512

ASSUME PsfFontAssumption == Len256 \in Nat \ {0} /\ Len512 \in Nat \ {0, Len256}

PSF1_MODE512 == 1
PSF1_MODEHASTAB == 2
PSF1_MODEHASSEQ == 4
PSF1_MAXMODE == 5
PSF1_SEPARATOR == 65535
PSF1_STARTSEQ == 65534
PSF2_SEPARATOR == 255
PSF2_STARTSEQ == 254

(* addpair, addseq: a new sequence at the end of a glyph's list, another   *)
(* character at the end of its last sequence.                              *)
addpair(up, uc) == Append(up, <<uc>>)
addseq(up, uc) == [up EXCEPT ![Len(up)] = Append(@, uc)]

NoTable(fontlen) == [i \in 0 .. fontlen - 1 |-> <<>>]
-----------------------------------------------------------------------------
(* Bytes                                                                   *)

(* appendunicode: how many bytes follow the lead byte of a character from  *)
(* 0x80; after n of them the lead byte holds 6 - n bits.                   *)
ContBytes(u) == CHOOSE n \in 1 .. 5 : /\ u \div 64^n < 2^(6 - n)
                                      /\ \A m \in 1 .. n - 1 : u \div 64^m >= 2^(6 - m)

MultiByte(u, n) ==
    <<(256 - 2^(7 - n)) + u \div 64^n>> \o [k \in 1 .. n |-> 128 + ((u \div 64^(n - k)) % 64)]

appendunicode(u, utf8) ==
    IF ~utf8 THEN <<u % 256, (u \div 256) % 256>>
    ELSE IF u < 128 THEN <<u>> ELSE MultiByte(u, ContBytes(u))

appendseparator(seq, utf8) ==
    IF utf8 THEN <<IF seq THEN PSF2_STARTSEQ ELSE PSF2_SEPARATOR>>
    ELSE appendunicode(IF seq THEN PSF1_STARTSEQ ELSE PSF1_SEPARATOR, FALSE)

(* from_utf8: the leading one bits tell the bytes needed; a byte that only *)
(* continues is bad, and so is anything else where one must follow.        *)
Need(c) == CHOOSE n \in 0 .. 8 : c >= 256 - 2^(8 - n) /\ (n < 8 => c < 256 - 2^(7 - n))

UcOf(lead, cont) == FoldLeft(LAMBDA v, c : v * 64 + (c % 64), lead, cont)

Decoded(b, p, need, cont) ==
    [ok   |-> Len(b) - p + 1 >= need /\ need # 1 /\ \A k \in DOMAIN cont : cont[k] \in 128 .. 191,
     kind |-> "uc",
     uc   |-> IF need = 0 THEN b[p] ELSE UcOf(b[p] % 2^(7 - need), cont),
     next |-> p + (IF need = 0 THEN 1 ELSE need)]

from_utf8(b, p) == Decoded(b, p, Need(b[p]), SubSeq(b, p + 1, Min({Len(b), p + Need(b[p]) - 1})))

(* One item of the table at position p: a separator, the start of a        *)
(* sequence or a character (assemble_ucs2, assemble_utf8).                 *)
Mark(isSep, next) == [ok |-> TRUE, kind |-> IF isSep THEN "sep" ELSE "seq", uc |-> 0, next |-> next]

Ucs2(u, next) ==
    IF u \in {PSF1_SEPARATOR, PSF1_STARTSEQ} THEN Mark(u = PSF1_SEPARATOR, next)
    ELSE [ok |-> TRUE, kind |-> "uc", uc |-> u, next |-> next]

Short == [ok |-> FALSE, kind |-> "end", uc |-> 0, next |-> 0]

Item(b, p, utf8) ==
    IF p > Len(b) \/ (~utf8 /\ p = Len(b)) THEN Short
    ELSE IF ~utf8 THEN Ucs2(b[p] + 256 * b[p + 1], p + 2)
    ELSE IF b[p] \in {PSF2_SEPARATOR, PSF2_STARTSEQ} THEN Mark(b[p] = PSF2_SEPARATOR, p + 1)
    ELSE from_utf8(b, p)

(* Mutant: the end of the file ends an entry too.                          *)
EndsEntryOrFile(it) == it.kind \in {"sep", "end"}

EndsEntry(it) == it.kind = "sep"

(* get_uni_entry: the items from p to the separator; a table that ends     *)
(* before it is short.                                                     *)
UniItems(b, p, utf8) ==
    LET Entry(it, rest) ==
          IF EndsEntry(it) THEN [ok |-> TRUE, items |-> <<>>, next |-> IF it.ok THEN it.next ELSE Len(b) + 1]
          ELSE IF ~it.ok THEN [ok |-> FALSE, items |-> <<>>, next |-> 0]
          ELSE [rest EXCEPT !.items = <<it>> \o @]
        Read[q \in Nat] == Entry(Item(b, q, utf8), Read[Item(b, q, utf8).next])
    IN Read[p]

(* get_uni_entry: the first character after a start is a sequence, every   *)
(* later one joins the last sequence, up to the next start.                *)
AddItem(st, it) ==
    IF it.kind = "seq" THEN [st EXCEPT !.inseq = 1]
    ELSE [up    |-> IF st.inseq < 2 THEN addpair(st.up, it.uc) ELSE addseq(st.up, it.uc),
          inseq |-> IF st.inseq = 0 THEN 0 ELSE 2]

EntryOf(items) == FoldLeft(AddItem, [up |-> <<>>, inseq |-> 0], items).up

(* The table in the bytes b: one entry per glyph and nothing after them.   *)
AddEntry(st, entry) ==
    IF ~st.ok \/ ~entry.ok THEN [st EXCEPT !.ok = FALSE]
    ELSE [ok |-> TRUE, heads |-> Append(st.heads, EntryOf(entry.items)), next |-> entry.next]

FromList(list) == [i \in 0 .. Len(list) - 1 |-> list[i + 1]]

TableRead(st, b) == [ok |-> st.ok /\ st.next = Len(b) + 1, heads |-> FromList(st.heads)]

ReadTable(b, fontlen, utf8) ==
    LET Read[i \in 0 .. fontlen] ==
          IF i = 0 THEN [ok |-> TRUE, heads |-> <<>>, next |-> 1]
          ELSE AddEntry(Read[i - 1], UniItems(b, Read[i - 1].next, utf8))
    IN TableRead(Read[fontlen], b)
-----------------------------------------------------------------------------
(* Font files                                                              *)

NoFile == [psf |-> 0, mode |-> 0, len |-> 0, charsize |-> 0, width |-> 0, height |-> 0, bits |-> 0, tab |-> <<>>]

ByteWidth(width) == (width + 7) \div 8

HasBit(mode, bit) == (mode \div bit) % 2 = 1

(* What a header says: the length, and whether a table follows.            *)
FontLen(f) == IF f.psf = 1 THEN (IF HasBit(f.mode, PSF1_MODE512) THEN Len512 ELSE Len256) ELSE f.len
HasTable(f) ==
    IF f.psf = 1 THEN HasBit(f.mode, PSF1_MODEHASTAB) \/ HasBit(f.mode, PSF1_MODEHASSEQ) ELSE HasBit(f.mode, 1)
FontWidth(f) == IF f.psf = 1 THEN 8 ELSE f.width
FontHeight(f) == f.charsize \div ByteWidth(FontWidth(f))

(* kfont_read_psffont: the header and the bitmaps.                         *)
GoodFont(f) ==
    /\ f.psf # 0
    /\ f.psf = 1 => f.mode <= PSF1_MAXMODE
    /\ FontLen(f) # 0 /\ f.charsize # 0
    /\ f.bits >= FontLen(f) * f.charsize
    /\ ByteWidth(FontWidth(f)) # 0 /\ f.charsize % ByteWidth(FontWidth(f)) = 0
    /\ f.psf = 2 /\ f.height # 0 => f.height = FontHeight(f)
    /\ ~HasTable(f) => f.bits = FontLen(f) * f.charsize /\ f.tab = <<>>

(* kfont_read_psffont with uclistheadsp: the table too, or an empty one.   *)
kfont_read_psffont(f) ==
    IF GoodFont(f) /\ HasTable(f) THEN ReadTable(f.tab, FontLen(f), f.psf = 2)
    ELSE [ok |-> GoodFont(f), heads |-> NoTable(FontLen(f))]

has_sequences(heads) == \E i \in DOMAIN heads : \E k \in DOMAIN heads[i] : Len(heads[i][k]) > 1

(* Mutant: a table with sequences has both bits of the mode.               *)
Psf1ModeBoth(fontlen, tab, seq) ==
    (IF fontlen = Len512 THEN PSF1_MODE512 ELSE 0)
    + (IF seq THEN PSF1_MODEHASSEQ ELSE 0) + (IF tab THEN PSF1_MODEHASTAB ELSE 0)

Psf1Mode(fontlen, tab, seq) ==
    (IF fontlen = Len512 THEN PSF1_MODE512 ELSE 0)
    + (IF seq THEN PSF1_MODEHASSEQ ELSE IF tab THEN PSF1_MODEHASTAB ELSE 0)

(* writepsffontheader: psf1 only for the sizes it can tell.                *)
writepsffontheader(width, height, fontlen, psftype, tab, seq) ==
    LET charsize == ByteWidth(width) * height
    IN IF psftype = 2 \/ fontlen \notin {Len256, Len512} \/ width # 8 \/ height > 32
       THEN [NoFile EXCEPT !.psf = 2, !.mode = IF tab THEN 1 ELSE 0, !.len = fontlen, !.charsize = charsize,
                           !.width = width, !.height = height]
       ELSE [NoFile EXCEPT !.psf = 1, !.mode = Psf1Mode(fontlen, tab, seq),
                           !.charsize = IF charsize <= 255 THEN charsize ELSE 255]

EntryBytes(entry, utf8) ==
    FlattenSeq([k \in DOMAIN entry |->
        (IF Len(entry[k]) > 1 THEN appendseparator(TRUE, utf8) ELSE <<>>)
        \o FlattenSeq([j \in DOMAIN entry[k] |-> appendunicode(entry[k][j], utf8)])])
    \o appendseparator(FALSE, utf8)

(* Table bytes, glyph after glyph.                                         *)
TableBytes(heads, fontlen, utf8) == FlattenSeq([k \in 1 .. fontlen |-> EntryBytes(heads[k - 1], utf8)])

(* kfont_write_psffont of the glyphs of font f; no table when tab is FALSE.*)
kfont_write_psffont(f, tab, heads) ==
    LET len == FontLen(f)
        h == writepsffontheader(FontWidth(f), FontHeight(f), len, f.psf, tab, tab /\ has_sequences(heads))
    IN [h EXCEPT !.bits = len * ByteWidth(FontWidth(f)) * FontHeight(f),
                 !.tab = IF tab THEN TableBytes(heads, len, h.psf = 2) ELSE <<>>]
-----------------------------------------------------------------------------
(* Text tables                                                             *)

(* A line: <fp0> or <fp0>-<fp1>, then character sequences, "idem" or a     *)
(* range of characters.  fp1 = 0 is no range.                              *)
Line(fp0, fp1, form, defs) == [fp0 |-> fp0, fp1 |-> fp1, form |-> form, defs |-> defs]
EmptyText == [lines |-> <<>>, cut |-> FALSE]

(* getunicode takes U+ and exactly four hexadecimal digits.                *)
getunicode(uc) == uc < 65536

(* The characters of a sequence up to the first that is not taken; what is *)
(* before it stays.                                                        *)
Taken(def) == SubSeq(def, 1, CHOOSE n \in 0 .. Len(def) :
                                /\ \A j \in 1 .. n : getunicode(def[j])
                                /\ n < Len(def) => ~getunicode(def[n + 1]))

(* parse_itab_line, no range: the line ends at the first character that is *)
(* not taken; the rest is junk and ignored.                                *)
TakenDefs(defs) ==
    LET whole == CHOOSE n \in 0 .. Len(defs) :
                    /\ \A k \in 1 .. n : Taken(defs[k]) = defs[k]
                    /\ n < Len(defs) => Taken(defs[n + 1]) # defs[n + 1]
        part == IF whole = Len(defs) THEN <<>> ELSE Taken(defs[whole + 1])
    IN SubSeq(defs, 1, whole) \o (IF part = <<>> THEN <<>> ELSE <<part>>)

(* What a line without a range lists: of a range of characters the first,  *)
(* of the word "idem" nothing.                                             *)
Listed(l) == CASE l.form = "list" -> l.defs [] l.form = "range" -> SubSeq(l.defs, 1, 1) [] OTHER -> <<>>

parse_itab_line(heads, l, fontlen) ==
    LET range == l.form = "range"
        bad == \/ l.fp0 >= fontlen
               \/ l.fp1 # 0 /\ (l.fp1 < l.fp0 \/ l.fp1 >= fontlen)
               \/ l.fp1 # 0 /\ l.form # "idem" /\ (~range \/ \E k \in 1 .. 2 : ~getunicode(l.defs[k][1]))
               \/ l.fp1 # 0 /\ range /\ l.defs[2][1] - l.defs[1][1] # l.fp1 - l.fp0
        new == [i \in DOMAIN heads |->
                  IF l.fp1 = 0
                  THEN IF i # l.fp0 THEN <<>> ELSE TakenDefs(Listed(l))
                  ELSE IF i \notin l.fp0 .. l.fp1 THEN <<>>
                  ELSE <<<<IF l.form = "idem" THEN i ELSE l.defs[1][1] + (i - l.fp0)>>>>]
    IN IF bad THEN [ok |-> FALSE, heads |-> heads]
       ELSE [ok |-> TRUE, heads |-> [i \in DOMAIN heads |-> heads[i] \o new[i]]]

(* kfont_read_unicodetable: the lines in turn, up to the first bad one; a  *)
(* line without its newline is bad.                                        *)
kfont_read_unicodetable(text, fontlen) ==
    LET all == FoldLeft(LAMBDA st, l : IF st.ok THEN parse_itab_line(st.heads, l, fontlen) ELSE st,
                        [ok |-> TRUE, heads |-> NoTable(fontlen)], text.lines)
    IN [all EXCEPT !.ok = @ /\ ~text.cut]

(* kfont_write_unicodetable: a line for each glyph.                        *)
kfont_write_unicodetable(heads, fontlen) ==
    [lines |-> [k \in 1 .. fontlen |-> Line(k - 1, 0, "list", heads[k - 1])], cut |-> FALSE]
=============================================================================
