------------------------------- MODULE Keymap -------------------------------
(***************************************************************************)
(* Building a key table from a keymap file: the line actions of            *)
(* libkeymap's grammar (src/src/libkeymap/parser.y), the store they write  *)
(* through (kmap.c: lk_add_map, lk_add_key, lk_del_key), and the           *)
(* completion of one-entry lines at the end of the input                   *)
(* (lk_add_constants, do_constant_key).                                    *)
(*                                                                         *)
(* A line runs one loop over the tables and each turn of it is one         *)
(* lk_add_key, so each turn is one step here; the loops visit the tables   *)
(* in ascending order.                                                     *)
(***************************************************************************)
EXTENDS Integers, Sequences, FiniteSets

CONSTANTS
    Table,          \* modifier combinations, a subset of 0 .. MAX_NR_KEYMAPS - 1
    Key,            \* keycodes, a subset of 0 .. NR_KEYS - 1
    Entry,          \* keysyms the lines of the file hold
    MaxColumns,     \* bound: entries on one line
    NoKey,          \* a cell that holds no keysym (the zero int of the array)
    BadCode         \* CODE_FOR_UNKNOWN_KSYM: a keysym convert_code rejects

(* A keysym: KTYP and KVAL of the action code.                             *)
KeyType == {"LATIN", "LETTER", "META", "SPEC", "FN"}
Code == [typ : KeyType, val : 0 .. 255]
K(t, v) == [typ |-> t, val |-> v]
K_HOLE == K("SPEC", 0)

M_ALT == 8

ASSUME KeymapAssumption ==
    /\ Table \subseteq Nat /\ 0 \in Table
    /\ MaxColumns \in Nat /\ 0 .. (MaxColumns - 1) \subseteq Table
    /\ Key \subseteq Nat
    /\ NoKey \notin Code /\ BadCode \notin Code
    /\ Entry \subseteq Code \union {BadCode}

VARIABLES
    maps,           \* tables lk_map_exists reports (ctx->keymap)
    keys,           \* the cells of the tables
    constant,       \* ctx->key_constant: keys defined by a one-entry line
    keywords,       \* ctx->keywords
    pc,             \* what the program does next
    line,           \* the key and the entries of the line being stored
    todo,           \* tables the running loop has not visited
    col,            \* the loop's count of tables visited (i in singleline)
    rest,           \* constants lk_add_constants has not reached
    explicit        \* history: what the last line gave each cell

vars == <<maps, keys, constant, keywords, pc, line, todo, col, rest, explicit>>

NoLine == [key |-> NoKey, entries |-> <<>>]

First(S) == CHOOSE x \in S : \A y \in S : x <= y

-----------------------------------------------------------------------------
(* kmap.c                                                                  *)

WithAlt(t) == IF (t \div M_ALT) % 2 = 1 THEN t ELSE t + M_ALT

Put(cells, t, k, c) == [cells EXCEPT ![t] = [cells[t] EXCEPT ![k] = c]]

(* lk_add_key's two ways to fail: a bad keysym, and a new table after an   *)
(* explicit keymaps line.                                                  *)
AddKeyFails(t, c) == c = BadCode \/ (t \notin maps /\ "keymaps" \in keywords)

(* With alt_is_meta a VoidSymbol does not replace a key that is there.     *)
Kept(t, k, c) == "altismeta" \in keywords /\ c = K_HOLE /\ keys[t][k] # NoKey

(* Mutant: what the Alt table has for the key is replaced.                 *)
GivesMetaAlways(t, k, c) ==
    /\ "altismeta" \in keywords
    /\ WithAlt(t) # t /\ WithAlt(t) \in maps
    /\ c.typ \in {"LATIN", "LETTER"} /\ c.val < 128

(* With alt_is_meta a printable key also gets its Meta form in the Alt     *)
(* table, when that table exists and has nothing for the key.              *)
GivesMeta(t, k, c) ==
    /\ "altismeta" \in keywords
    /\ WithAlt(t) # t /\ WithAlt(t) \in maps
    /\ keys[WithAlt(t)][k] = NoKey
    /\ c.typ \in {"LATIN", "LETTER"} /\ c.val < 128

(* The cells after a successful lk_add_key.                                *)
AddKey(t, k, c) ==
    IF Kept(t, k, c) THEN keys
    ELSE IF GivesMeta(t, k, c) THEN Put(Put(keys, t, k, c), WithAlt(t), k, K("META", c.val))
    ELSE Put(keys, t, k, c)

(* lk_get_key in an existing table: nothing there reads as VoidSymbol.     *)
lk_get_key(t, k) == IF keys[t][k] = NoKey THEN K_HOLE ELSE keys[t][k]

(* Mutant: the loop over the tables ends one table early.                  *)
DelKeyShort(k) ==
    [t \in Table |-> IF t \in maps /\ (\E u \in maps : u > t) THEN [keys[t] EXCEPT ![k] = NoKey] ELSE keys[t]]

(* lk_del_key in every existing table.                                     *)
DelKey(k) == [t \in Table |-> IF t \in maps THEN [keys[t] EXCEPT ![k] = NoKey] ELSE keys[t]]

-----------------------------------------------------------------------------
(* do_constant_key                                                         *)

IsLetter(c) == c.typ \in {"LATIN", "LETTER"} /\ (c.val \in 97 .. 122 \/ c.val \in 65 .. 90)

OtherCase(v) == IF v >= 97 THEN v - 32 ELSE v + 32      \* val ^ 32
Control(v) == v % 32                                    \* val & ~96, val < 128

(* defs[j % 16] for a letter: Shift swaps the case, Control gives the      *)
(* control character, Alt makes it Meta, AltGr changes nothing.            *)
Defs(v, j) ==
    LET unalted == IF (j \div 4) % 2 = 1 THEN K("LATIN", Control(v))
                   ELSE IF j % 2 = 1 THEN K("LETTER", OtherCase(v))
                   ELSE K("LETTER", v)
    IN IF (j \div M_ALT) % 2 = 1 THEN K("META", unalted.val) ELSE unalted

(* Mutant: the loop over the tables ends one table early.                  *)
ConstantTablesShort(c) == {t \in maps : t > 0 /\ \E u \in maps : u > t}

(* What a one-entry line means for table t, and which tables the loop      *)
(* visits: a letter also rewrites the plain table.                         *)
ConstantFor(c, t) == IF IsLetter(c) THEN Defs(c.val, t) ELSE c

ConstantTables(c) == IF IsLetter(c) THEN maps ELSE maps \ {0}

(* Mutant: the plain table, keymaps line or not.                           *)
r0AlwaysPlain == 0

(* lk_add_constants: the table a constant is read from.                    *)
r0 == IF "keymaps" \in keywords /\ maps # {} THEN First(maps) ELSE 0
-----------------------------------------------------------------------------
Init ==
    /\ maps = {}
    /\ keys = [t \in Table |-> [k \in Key |-> NoKey]]
    /\ constant = {}
    /\ keywords = {}
    /\ pc = "line"
    /\ line = NoLine
    /\ todo = {}
    /\ col = 0
    /\ rest = {}
    /\ explicit = keys

(* keymapline: the tables of all its ranges, then the keyword.             *)
KeymapsLine(R) ==
    /\ pc = "line"
    /\ maps' = maps \union R
    /\ keywords' = keywords \union {"keymaps"}
    /\ UNCHANGED <<keys, constant, pc, line, todo, col, rest, explicit>>

(* keymapline with a range out of bounds: the ranges before it stay.       *)
KeymapsLineFails(R) ==
    /\ pc = "line"
    /\ maps' = maps \union R
    /\ pc' = "failed"
    /\ UNCHANGED <<keys, constant, keywords, line, todo, col, rest, explicit>>

(* altismetaline.                                                          *)
AltIsMetaLine ==
    /\ pc = "line"
    /\ keywords' = keywords \union {"altismeta"}
    /\ UNCHANGED <<maps, keys, constant, pc, line, todo, col, rest, explicit>>

(* singleline, "keycode N = ...": a single entry marks the key and kills   *)
(* its old definitions; the loop visits the existing tables after a        *)
(* keymaps line, and the first tables without one.                         *)
KeycodeLine(k, entries) ==
    /\ pc = "line"
    /\ IF Len(entries) = 1
       THEN /\ constant' = constant \union {k}
            /\ keys' = DelKey(k)
            /\ explicit' = [t \in Table |-> [explicit[t] EXCEPT ![k] = NoKey]]
       ELSE UNCHANGED <<constant, keys, explicit>>
    /\ pc' = "columns"
    /\ line' = [key |-> k, entries |-> entries]
    /\ todo' = IF "keymaps" \in keywords THEN maps ELSE 0 .. (Len(entries) - 1)
    /\ col' = 0
    /\ UNCHANGED <<maps, keywords, rest>>

(* One turn of its loop.  After a keymaps line the tables beyond the last  *)
(* entry get VoidSymbol, unless the line had exactly one entry.            *)
StoreColumn ==
    LET t == First(todo)
        k == line.key
        given == Len(line.entries) # 1 \/ col = 0
        c == IF col < Len(line.entries) THEN line.entries[col + 1] ELSE K_HOLE
    IN /\ pc = "columns" /\ todo # {}
       /\ IF given /\ AddKeyFails(t, c)
          THEN /\ pc' = "failed"
               /\ UNCHANGED <<maps, keys, todo, col, explicit>>
          ELSE /\ keys' = IF given THEN AddKey(t, k, c) ELSE keys
               /\ explicit' = IF given /\ ~Kept(t, k, c) THEN Put(explicit, t, k, c) ELSE explicit
               /\ maps' = maps \union {t}
               /\ todo' = todo \ {t}
               /\ col' = col + 1
               /\ UNCHANGED pc
       /\ UNCHANGED <<constant, keywords, line, rest>>

(* The loop is over; entries left without a table are an error.            *)
EndLine ==
    /\ pc = "columns" /\ todo = {}
    /\ pc' = IF col < Len(line.entries) THEN "failed" ELSE "line"
    /\ line' = NoLine
    /\ col' = 0
    /\ UNCHANGED <<maps, keys, constant, keywords, todo, rest, explicit>>

(* singleline with modifiers or "plain": one column.                       *)
ModifierLine(t, k, c) ==
    /\ pc = "line"
    /\ IF AddKeyFails(t, c)
       THEN /\ pc' = "failed"
            /\ UNCHANGED <<maps, keys, explicit>>
       ELSE /\ keys' = AddKey(t, k, c)
            /\ explicit' = IF Kept(t, k, c) THEN explicit ELSE Put(explicit, t, k, c)
            /\ maps' = maps \union {t}
            /\ UNCHANGED pc
    /\ UNCHANGED <<constant, keywords, line, todo, col, rest>>

(* End of the last file: lk_load_keymap calls lk_add_constants.            *)
EndOfInput ==
    /\ pc = "line"
    /\ pc' = "constants"
    /\ rest' = constant
    /\ UNCHANGED <<maps, keys, constant, keywords, line, todo, col, explicit>>

(* lk_add_constants takes the next marked key.                             *)
NextConstant ==
    LET k == First(rest)
        c == lk_get_key(r0, k)
    IN /\ pc = "constants" /\ rest # {}
       /\ IF r0 \in maps
          THEN /\ pc' = "fill"
               /\ line' = [key |-> k, entries |-> <<c>>]
               /\ todo' = ConstantTables(c)
          ELSE /\ pc' = "impossible"
               /\ UNCHANGED <<line, todo>>
       /\ UNCHANGED <<maps, keys, constant, keywords, col, rest, explicit>>

(* One turn of do_constant_key's loop: a table that has the key keeps it,  *)
(* except that a letter rewrites the plain table.                          *)
FillColumn ==
    LET t == First(todo)
        k == line.key
    IN /\ pc = "fill" /\ todo # {}
       /\ keys' = IF t > 0 /\ keys[t][k] # NoKey THEN keys
                  ELSE AddKey(t, k, ConstantFor(line.entries[1], t))
       /\ todo' = todo \ {t}
       /\ UNCHANGED <<maps, constant, keywords, pc, line, col, rest, explicit>>

EndConstant ==
    /\ pc = "fill" /\ todo = {}
    /\ pc' = "constants"
    /\ rest' = rest \ {line.key}
    /\ line' = NoLine
    /\ UNCHANGED <<maps, keys, constant, keywords, todo, col, explicit>>

EndConstants ==
    /\ pc = "constants" /\ rest = {}
    /\ pc' = "done"
    /\ UNCHANGED <<maps, keys, constant, keywords, line, todo, col, rest, explicit>>

(* loadkeys stops at the first error, and after lk_add_constants.          *)
Finished ==
    /\ pc \in {"done", "failed"}
    /\ UNCHANGED vars

Lines == UNION {[1 .. n -> Entry] : n \in 0 .. MaxColumns}

Next ==
    \/ \E R \in SUBSET Table : R # {} /\ KeymapsLine(R)
    \/ \E R \in SUBSET Table : KeymapsLineFails(R)
    \/ AltIsMetaLine
    \/ \E k \in Key, entries \in Lines : KeycodeLine(k, entries)
    \/ StoreColumn
    \/ EndLine
    \/ \E t \in Table, k \in Key, c \in Entry : ModifierLine(t, k, c)
    \/ EndOfInput
    \/ NextConstant
    \/ FillColumn
    \/ EndConstant
    \/ EndConstants
    \/ Finished

Spec == Init /\ [][Next]_vars
-----------------------------------------------------------------------------
(* Properties                                                              *)

(* The shape of the state; a table that does not exist holds nothing.      *)
TypeOK ==
    /\ maps \subseteq Table
    /\ keys \in [Table -> [Key -> Code \union {NoKey}]]
    /\ constant \subseteq Key
    /\ keywords \subseteq {"keymaps", "altismeta"}
    /\ pc \in {"line", "columns", "constants", "fill", "done", "failed"}
    /\ todo \subseteq Table
    /\ rest \subseteq Key
    /\ \A t \in Table \ maps : \A k \in Key : keys[t][k] = NoKey

(* lk_add_constants reports "impossible error" when a marked key has no    *)
(* table to be read from.  Whatever lines come in whatever order, an input *)
(* that parsed never gets there.                                           *)
NoImpossibleError == pc # "impossible"

(* "do this also for keys like Escape, as promised in the man page": after *)
(* lk_add_constants a key given by a one-entry line is defined in every    *)
(* table that exists, the plain one aside.                                 *)
ConstantsFilled ==
    pc = "done" => \A k \in constant, t \in maps \ {0} : keys[t][k] # NoKey

(* The last line that gave a cell an entry wins, over the copies made for  *)
(* one-entry lines and over alt_is_meta; the plain entry of a letter may   *)
(* become its CapsLock form.  (A VoidSymbol that alt_is_meta keeps off a   *)
(* key that is there gives nothing.)                                       *)
LastLineWins ==
    pc = "done" =>
        \A t \in Table, k \in Key : explicit[t][k] # NoKey =>
            \/ keys[t][k] = explicit[t][k]
            \/ /\ t = 0 /\ k \in constant /\ IsLetter(explicit[t][k])
               /\ keys[t][k] = K("LETTER", explicit[t][k].val)

(* What alt_is_meta may have put beside a key.  It is not renewed when the *)
(* key is defined again.                                                   *)
MetaCopy(t, k) == "altismeta" \in keywords /\ WithAlt(t) = t /\ keys[t][k].typ = "META"

(* "So, kill old defs" (parser.y, singleline): a cell no line gave an entry, *)
(* or whose entry a later one-entry line of the key took back, holds what  *)
(* the key's one-entry line means for its table, or a copy alt_is_meta     *)
(* made, or nothing.  No definition from before survives it, in whichever  *)
(* table and through whatever other lines, copies and completions.         *)
NothingLeftOver ==
    pc = "done" =>
        \A t \in Table, k \in Key : (explicit[t][k] = NoKey /\ keys[t][k] # NoKey) =>
            \/ k \in constant /\ keys[t][k] = ConstantFor(lk_get_key(r0, k), t)
            \/ MetaCopy(t, k)
=============================================================================
