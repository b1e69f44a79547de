----------------------------- MODULE KeymapDump -----------------------------
(***************************************************************************)
(* dumpkeys and back: dumpkeys reads the kernel's key tables (kernel.c)    *)
(* and writes them as a keymap file in one of four shapes (dump.c); the    *)
(* file is then read by loadkeys, whose tables are those of module Keymap. *)
(* With -i dumpkeys probes the kernel's action codes instead (summary.c).  *)
(*                                                                         *)
(* The name printed for an action code is taken to be read back as that    *)
(* code, with the "+" of a letter; what is modelled is which lines are     *)
(* written for which rows.                                                 *)
(***************************************************************************)
EXTENDS Integers, Sequences, FiniteSets, SequencesExt

CONSTANTS
    Table, Key, Entry, MaxColumns, NoKey, BadCode,      \* of Keymap
    Kernels,        \* the kernel's key tables: tables, and every key of each
    Shapes,         \* subset of {"default", "full", "separate", "until_hole"}
    Types           \* action code types the kernel may know

VARIABLES
    kernel,         \* the kernel's tables: maps and keys
    was,            \* history: the kernel's tables at the start
    shape,          \* the table argument of lk_dump_keys
    info,           \* -i
    known,          \* the types this kernel accepts
    unread,         \* tables lk_kernel_keys has not read
    got,            \* the tables of dumpkeys' context
    typ,            \* lk_dump_summary: the type being probed
    file,           \* the lines written and not yet loaded
    step,           \* what the programs do next
    maps, keys, constant, keywords, pc, line, todo, col, rest, explicit

loader == <<maps, keys, constant, keywords, pc, line, todo, col, rest, explicit>>
dumper == <<was, shape, info, known>>
vars == <<kernel, dumper, unread, got, typ, file, step, loader>>

Load == INSTANCE Keymap

(* An action code, as in Keymap.                                           *)
K(type, value) == [typ |-> type, val |-> value]
K_HOLE == K("SPEC", 0)

-----------------------------------------------------------------------------
(* dump.c: the tables m with cells c                                       *)

(* ctx->keymap->total.                                                     *)
Total(m) == IF m = {} THEN 0 ELSE Max(m) + 1

(* lk_dump_keymaps, its loop over the tables: n and m are one more than    *)
(* the ends of the open range, and zero when there is none.                *)
Scanned(m) ==
    FoldLeft(LAMBDA s, i :
               IF i \in m THEN [s EXCEPT !.n = IF @ = 0 THEN i + 1 ELSE @, !.m = i + 1]
               ELSE IF s.m = 0 THEN s
               ELSE [n |-> 0, m |-> 0, out |-> Append(s.out, <<s.n - 1, s.m - 1>>)],
             [n |-> 0, m |-> 0, out |-> <<>>], [i \in 1 .. Total(m) |-> i - 1])

(* Mutant: the end of the last range is one too high.                      *)
RangesPastEnd(m) ==
    LET s == Scanned(m) IN IF s.m > 0 THEN Append(s.out, <<s.n - 1, s.m>>) ELSE s.out

(* The ranges of the keymaps line.                                         *)
Ranges(m) ==
    LET s == Scanned(m) IN IF s.m > 0 THEN Append(s.out, <<s.n - 1, s.m - 1>>) ELSE s.out

KeymapsLines(m) ==
    IF Ranges(m) = <<>> THEN <<>>
    ELSE << [kind |-> "keymaps", tables |-> UNION {r[1] .. r[2] : r \in ToSet(Ranges(m))}] >>

Printable(c) == c.typ \in {"LATIN", "LETTER"} /\ c.val < 128

(* lk_dump_keys, first pass: every printable key has its Meta form in the  *)
(* Alt table, wherever both tables exist.                                  *)
AltIsMeta(m, c) ==
    \A t \in m : (Load!WithAlt(t) # t /\ Load!WithAlt(t) \in m) =>
        \A k \in Key \ {0} : Printable(c[t][k]) => c[Load!WithAlt(t)][k] = K("META", c[t][k].val)

(* buf: a table that does not exist reads as VoidSymbol.                   *)
Row(m, c, k) == [j \in 0 .. (Total(m) - 1) |-> IF j \in m THEN c[j][k] ELSE K_HOLE]

(* Mutant: Meta bindings are wiped out whether or not alt_is_meta is said. *)
ZappedAlways(m, row, meta) ==
    {Load!WithAlt(j) : j \in {j \in DOMAIN row :
        Load!WithAlt(j) # j /\ Load!WithAlt(j) \in m /\ Printable(row[j])}}

(* The tables that get their Meta form from alt_is_meta.                   *)
Zapped(m, row, meta) ==
    IF ~meta THEN {}
    ELSE {Load!WithAlt(j) : j \in {j \in DOMAIN row :
            Load!WithAlt(j) # j /\ Load!WithAlt(j) \in m /\ Printable(row[j])}}

(* A letter with the other columns a single entry stands for.              *)
IsAsExpected(m, row) ==
    /\ Load!IsLetter(row[0])
    /\ \A j \in m : IF j >= 16 THEN row[j] = K_HOLE ELSE row[j] = Load!Defs(row[0].val, j)

KeyLine(k, entries) == << [kind |-> "keycode", key |-> k, entries |-> entries] >>

Binds(k, row, S) ==
    LET q == SetToSortSeq(S, <) IN
    [i \in DOMAIN q |-> [kind |-> "modifier", table |-> q[i], key |-> k, entry |-> row[q[i]]]]

(* A line with the plain entry followed by exceptions, or a long line      *)
(* followed by exceptions.                                                 *)
ShortForm(m, k, row, zapped) ==
    LET buf == [j \in DOMAIN row |-> IF j \in zapped THEN K_HOLE ELSE row[j]]
        others == {j \in DOMAIN row : j > 0 /\ j \notin zapped}
        bad == Cardinality({j \in others : buf[j] # buf[0]})
        count == Cardinality({j \in others : buf[j] # K_HOLE})
        filled == CHOOSE n \in 0 .. Total(m) :
                    /\ n = Total(m) \/ buf[n] = K_HOLE
                    /\ \A j \in 0 .. (n - 1) : buf[j] # K_HOLE
    IN IF bad <= count /\ bad < Total(m) - 1
       THEN KeyLine(k, IF buf[0] # K_HOLE THEN <<buf[0]>> ELSE <<>>)
              \o Binds(k, buf, {j \in others \intersect m : buf[j] # buf[0]})
       ELSE KeyLine(k, [i \in 1 .. filled |-> buf[i - 1]])
              \o Binds(k, buf, {j \in filled .. (Total(m) - 1) : buf[j] # K_HOLE})

(* Mutant: VoidSymbol is not written.                                      *)
ColumnsFilled(m, row) ==
    LET q == SetToSortSeq({j \in m : row[j] # K_HOLE}, <) IN [i \in DOMAIN q |-> row[q[i]]]

(* The full table's row: a column for each table.                          *)
Columns(m, row) == LET q == SetToSortSeq(m, <) IN [i \in DOMAIN q |-> row[q[i]]]

(* The lines for one key.                                                  *)
KeyLines(m, c, sh, meta, k) ==
    LET row == Row(m, c, k) IN
    IF sh = "full" THEN KeyLine(k, Columns(m, row))
    ELSE IF \A j \in DOMAIN row : row[j] = K_HOLE THEN <<>>
    ELSE IF sh = "separate" THEN Binds(k, row, m)
    ELSE IF IsAsExpected(m, row) THEN KeyLine(k, <<K("LATIN", row[0].val)>>)
    ELSE ShortForm(m, k, row, Zapped(m, row, meta))

Shorthands(sh) == sh \notin {"full", "separate"}

(* lk_dump_keys: keycode 0 is not written.                                 *)
lk_dump_keys(m, c, sh) ==
    LET meta == Shorthands(sh) /\ AltIsMeta(m, c) IN
    IF m = {} THEN <<>>
    ELSE (IF meta THEN << [kind |-> "alt_is_meta"] >> ELSE <<>>)
           \o FlattenSeq([i \in DOMAIN SetToSortSeq(Key \ {0}, <) |->
                           KeyLines(m, c, sh, meta, SetToSortSeq(Key \ {0}, <)[i])])

lk_dump_keymap(m, c, sh) == KeymapsLines(m) \o lk_dump_keys(m, c, sh)

-----------------------------------------------------------------------------
Init ==
    /\ kernel \in Kernels
    /\ was = kernel
    /\ shape \in Shapes
    /\ \/ info = FALSE /\ known = {}
       \/ info = TRUE /\ shape = "default" /\ \E n \in Types : known = {t \in Types : t <= n}
    /\ unread = Table
    /\ got = [maps |-> {}, keys |-> [t \in Table |-> [k \in Key |-> K_HOLE]]]
    /\ typ = 0
    /\ file = <<>>
    /\ step = "read"
    /\ Load!Init

(* lk_kernel_keys: one table, KDGKBENT key by key; K_NOSUCHMAP for its     *)
(* first key says that there is none.                                      *)
ReadTable ==
    /\ step = "read"
    /\ unread # {}
    /\ LET t == Min(unread)
       IN \/ /\ got' = IF t \in kernel.maps
                       THEN [maps |-> got.maps \union {t}, keys |-> [got.keys EXCEPT ![t] = kernel.keys[t]]]
                       ELSE got
             /\ unread' = unread \ {t}
             /\ UNCHANGED step
          \/ step' = "failed" /\ UNCHANGED <<got, unread>>
    /\ UNCHANGED <<kernel, dumper, typ, file, loader>>

EndRead ==
    /\ step = "read"
    /\ unread = {}
    /\ step' = IF info THEN "summary" ELSE "dump"
    /\ UNCHANGED <<kernel, dumper, unread, got, typ, file, loader>>

(* valid_type, and then maximum_val: both write key 0 of the plain table,  *)
(* and maximum_val puts back what it finds there.                          *)
ValidType ==
    /\ step = "summary"
    /\ \/ /\ typ \in known
          /\ kernel' = [kernel EXCEPT !.keys = [@ EXCEPT ![0] = [@ EXCEPT ![0] = <<typ, 0>>]]]
          /\ step' = "maximum"
       \/ step' = "exit" /\ UNCHANGED kernel
    /\ UNCHANGED <<dumper, unread, got, typ, file, loader>>

MaximumVal ==
    /\ step = "maximum"
    /\ typ' = typ + 1
    /\ step' = IF typ + 1 \in Types THEN "summary" ELSE "exit"
    /\ UNCHANGED <<kernel, dumper, unread, got, file, loader>>

(* lk_dump_keymap2; the context has no constants.                          *)
Dump ==
    /\ step = "dump"
    /\ file' = lk_dump_keymap(got.maps, got.keys, shape)
    /\ step' = "load"
    /\ UNCHANGED <<kernel, dumper, unread, got, typ, loader>>

(* loadkeys reads the lines one by one.                                    *)
LoadLine ==
    /\ step = "load"
    /\ file # <<>>
    /\ file' = Tail(file)
    /\ LET l == Head(file)
       IN \/ l.kind = "keymaps" /\ Load!KeymapsLine(l.tables)
          \/ l.kind = "alt_is_meta" /\ Load!AltIsMetaLine
          \/ l.kind = "keycode" /\ Load!KeycodeLine(l.key, l.entries)
          \/ l.kind = "modifier" /\ Load!ModifierLine(l.table, l.key, l.entry)
    /\ UNCHANGED <<kernel, dumper, unread, got, typ, step>>

LoadStep ==
    /\ step = "load"
    /\ \/ Load!StoreColumn \/ Load!EndLine
       \/ file = <<>> /\ Load!EndOfInput
       \/ Load!NextConstant \/ Load!FillColumn \/ Load!EndConstant \/ Load!EndConstants
    /\ UNCHANGED <<kernel, dumper, unread, got, typ, file, step>>

Finished ==
    /\ step \in {"failed", "exit"} \/ pc \in {"done", "failed"}
    /\ UNCHANGED vars

Next ==
    \/ ReadTable \/ EndRead \/ ValidType \/ MaximumVal \/ Dump
    \/ LoadLine \/ LoadStep \/ Finished

Spec == Init /\ [][Next]_vars

-----------------------------------------------------------------------------
(* Properties                                                              *)

Cells == (Table \intersect was.maps) \X (Key \ {0})

(* The shape of the state.                                                 *)
TypeOK ==
    /\ got.maps \subseteq Table /\ unread \subseteq Table
    /\ typ \in Nat
    /\ step \in {"read", "summary", "maximum", "dump", "load", "failed", "exit"}
    /\ Load!TypeOK

(* "dump loadable keymap" (tests): whatever the kernel's tables, what      *)
(* dumpkeys writes is read by loadkeys without an error, in every shape,   *)
(* and gives the same tables: the keymaps line names them all.             *)
DumpLoads ==
    /\ pc \notin {"failed", "impossible"}
    /\ pc = "done" => maps = was.maps

(* The shapes without short-hands give every key back in every table (but  *)
(* for a kernel with one table, where a row has the one entry of a         *)
(* short-hand).                                                            *)
CanonicalRoundTrip ==
    (pc = "done" /\ (shape = "separate" \/ (shape = "full" /\ Cardinality(was.maps) > 1))) =>
        \A c \in Cells : Load!lk_get_key(c[1], c[2]) = was.keys[c[1]][c[2]]

(* With the short-hands a key differs afterwards only if its line had a    *)
(* single entry, and then only where it was VoidSymbol, or where its plain *)
(* entry is a letter and the row is not the usual one: a row a, a comes    *)
(* back as a, A.                                                           *)
ShorthandKeepsKeys ==
    (pc = "done" /\ Shorthands(shape)) =>
        \A c \in Cells :
            LET row == Row(was.maps, was.keys, c[2]) IN
            \/ Load!lk_get_key(c[1], c[2]) = row[c[1]]
            \/ /\ c[2] \in constant
               /\ row[c[1]] = K_HOLE \/ (Load!IsLetter(row[0]) /\ ~IsAsExpected(was.maps, row))
=============================================================================
