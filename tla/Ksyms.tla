------------------------------- MODULE Ksyms --------------------------------
(***************************************************************************)
(* Names and codes of keysyms: src/src/libkeymap/ksyms.c, print_keysym of  *)
(* dump.c, and the rvalue rules of parser.y.                               *)
(*                                                                         *)
(* A code is the number the C code has: K(type, value) below 0x1000, and a *)
(* character xor 0xf000.  A name is an atom; the prefixes Meta_ and dead2_ *)
(* that dumpkeys puts before a name are a field of their own.              *)
(***************************************************************************)
EXTENDS Integers, Sequences, FiniteSets

CONSTANTS
    syms,           \* for each type the names of its values
    charsets,       \* sequence of charsets, the first is iso-8859-1: functions
                    \* from the bytes that have a name to [uni, name]
    try_charset,    \* the charsets of 8-bit names, in their order
    synonyms        \* a function from names to official names

NoName == ""

KT_LATIN == 0
KT_META == 8
KT_LETTER == 11
KT_DEAD2 == 13
syms_size == 15
Unknown == -1       \* CODE_FOR_UNKNOWN_KSYM

K(t, v) == t * 256 + v
KTYP(code) == code \div 256
KVAL(code) == code % 256

(* xor 0xf000, both ways.                                                  *)
U(x) == (15 - x \div 4096) * 4096 + (x % 4096)
IsUnicode(code) == code >= 4096

(* The first of some places in a table; None when there are none.          *)
None == -1
First(places) == IF places = {} THEN None ELSE CHOOSE i \in places : \A j \in places : i <= j
-----------------------------------------------------------------------------
(* Codes to names                                                          *)

get_sym(t, v) == IF t \in DOMAIN syms /\ v \in DOMAIN syms[t] THEN syms[t][v] ELSE NoName

(* The name that a charset has for a byte.                                 *)
CharsetName(cs, v) == IF v \in DOMAIN charsets[cs] THEN charsets[cs][v].name ELSE NoName

(* The first charset that has a name for a character, and its first one.   *)
BytesOf(cs, uni) == {v \in DOMAIN charsets[cs] : charsets[cs][v].uni = uni}

NameAt(i, uni) == IF i = None THEN NoName ELSE charsets[i][First(BytesOf(i, uni))].name
UnicodeName(uni) == NameAt(First({i \in DOMAIN charsets : BytesOf(i, uni) # {}}), uni)

codetoksym(cs, code) ==
    IF IsUnicode(code) THEN IF U(code) < 128 THEN get_sym(KT_LATIN, U(code)) ELSE UnicodeName(U(code))
    ELSE IF KTYP(code) \in {KT_LATIN, KT_LETTER} /\ code >= 128 THEN CharsetName(cs, KVAL(code))
    ELSE get_sym(KTYP(code), KVAL(code))

(* The tables of the library (syms.*.h, those made from data/consoletrans  *)
(* too): their shapes, KT_META, KT_LETTER and KT_DEAD2 without a table;    *)
(* official names of synonyms.                                             *)
ASSUME KsymsAssumption ==
    /\ 1 \in DOMAIN charsets /\ DOMAIN charsets \subseteq Nat \ {0}
    /\ \A i \in DOMAIN charsets : \A b \in DOMAIN charsets[i] :
          /\ b \in Nat /\ 128 <= b /\ b < 4096
          /\ charsets[i][b].uni \in Nat /\ 128 <= charsets[i][b].uni /\ charsets[i][b].uni < 61440
          /\ charsets[i][b].name # NoName
    /\ DOMAIN try_charset \subseteq Nat /\ \A i \in DOMAIN try_charset : try_charset[i] \in DOMAIN charsets
    /\ KT_LATIN \in DOMAIN syms /\ DOMAIN syms \subseteq (0 .. syms_size - 1) \ {KT_META, KT_LETTER, KT_DEAD2}
    /\ \A t \in DOMAIN syms : DOMAIN syms[t] \subseteq 0 .. 255
    /\ \A s \in DOMAIN synonyms : synonyms[s] \notin DOMAIN synonyms

(* The names in them.  No two values of the types have one name; the upper *)
(* half of KT_LATIN is iso-8859-1, whose bytes are the characters; of the  *)
(* types' names the charsets have only those; no character goes by a       *)
(* synonym.                                                                *)
ASSUME NamesAssumption ==
    /\ \A t, u \in DOMAIN syms : \A v \in DOMAIN syms[t], w \in DOMAIN syms[u] :
          syms[t][v] = syms[u][w] => syms[t][v] = NoName \/ (t = u /\ v = w)
    /\ \A b \in DOMAIN charsets[1] : b <= 255 /\ charsets[1][b].uni = b
    /\ \A v \in 128 .. 255 : get_sym(KT_LATIN, v) = CharsetName(1, v)
    /\ \A i \in DOMAIN charsets : \A b \in DOMAIN charsets[i] :
          /\ \A t \in DOMAIN syms : \A v \in DOMAIN syms[t] :
                syms[t][v] = charsets[i][b].name => t = KT_LATIN /\ v >= 128
          /\ UnicodeName(charsets[i][b].uni) \notin DOMAIN synonyms

(* What a line has for a keysym.                                           *)
Literal(plus, pre, name) == [kind |-> "literal", plus |-> plus, pre |-> pre, name |-> name, num |-> 0]
Number(plus, n) == [kind |-> "number", plus |-> plus, pre |-> "", name |-> NoName, num |-> n]
Unumber(plus, n) == [kind |-> "unumber", plus |-> plus, pre |-> "", name |-> NoName, num |-> n]

(* print_keysym, not numeric.  ksym is what codetoksym tells, own the name *)
(* in the table of type t, latin the name of the value in iso-8859-1.      *)
Printed(code, plus, t, ksym, own, latin) ==
    IF t >= syms_size THEN IF ksym # NoName THEN Literal(FALSE, "", ksym) ELSE Unumber(FALSE, U(code))
    ELSE IF t = KT_LATIN /\ ksym # NoName THEN Literal(plus, "", ksym)
    ELSE IF own # NoName THEN Literal(plus, "", own)
    ELSE IF t = KT_META /\ KVAL(code) < 128 /\ latin # NoName THEN Literal(FALSE, "Meta_", latin)
    ELSE IF t = KT_DEAD2 /\ latin # NoName THEN Literal(FALSE, "dead2_", latin)
    ELSE Number(plus, code)

LatinType(t) == IF t = KT_LETTER THEN KT_LATIN ELSE t

print_keysym(cs, code) ==
    Printed(code, KTYP(code) = KT_LETTER, LatinType(KTYP(code)), codetoksym(cs, code),
            get_sym(LatinType(KTYP(code)), KVAL(code)), get_sym(KT_LATIN, KVAL(code)))
-----------------------------------------------------------------------------
(* Names to codes                                                          *)

OrElse(code, other) == IF code # Unknown THEN code ELSE other

(* Where a type or a charset has a name.                                   *)
ValueIn(t, s) == First({v \in DOMAIN syms[t] : syms[t][v] = s})
ByteIn(cs, s) == First({v \in DOMAIN charsets[cs] : charsets[cs][v].name = s})

(* The code K(KT_LATIN, v) is v.                                           *)
LatinBelow(max, v) == IF v < max THEN v ELSE Unknown

(* Mutant: the names of iso-8859-1 come before those of the charset.       *)
kt_latin_First(cs, uni, s) ==
    OrElse(LatinBelow(IF uni THEN 128 ELSE 256, ValueIn(KT_LATIN, s)), IF uni THEN Unknown ELSE ByteIn(cs, s))

(* In Unicode mode only ASCII; else the charset's own names come first.    *)
kt_latin(cs, uni, s) ==
    OrElse(IF uni THEN Unknown ELSE ByteIn(cs, s), LatinBelow(IF uni THEN 128 ELSE 256, ValueIn(KT_LATIN, s)))

(* The other types, from the first.                                        *)
KtypAt(t, s) == IF t = None THEN Unknown ELSE K(t, ValueIn(t, s))
KtypCode(s) == KtypAt(First({t \in DOMAIN syms \ {KT_LATIN} : \E v \in DOMAIN syms[t] : syms[t][v] = s}), s)

NamesOf(cs) == {charsets[cs][v].name : v \in DOMAIN charsets[cs]}

(* get_charset_uni of the current charset, or of the first that answers.   *)
CharsetWith(cs, s) == IF s \in NamesOf(cs) THEN cs ELSE First({i \in DOMAIN charsets : s \in NamesOf(i)})
UnicodeIn(cs, s) == IF cs = None THEN Unknown ELSE U(charsets[cs][ByteIn(cs, s)].uni)

(* "assuming iso-8859-1": a byte of one of the charsets of western Europe. *)
ByteOfTry(i, s) == IF i = None THEN Unknown ELSE ByteIn(try_charset[i], s)
AssumedByte(s) == ByteOfTry(First({i \in DOMAIN try_charset : s \in NamesOf(try_charset[i])}), s)

InTypes(cs, uni, s) == OrElse(kt_latin(cs, uni, s), KtypCode(s))
InCharsets(cs, uni, s) == IF uni THEN UnicodeIn(CharsetWith(cs, s), s) ELSE AssumedByte(s)
OfficialCode(cs, uni, s) == OrElse(InTypes(cs, uni, s), InCharsets(cs, uni, s))

(* ksymtocode of a name; the official name of a synonym has no other.      *)
NameToCode(cs, uni, s) ==
    OrElse(InTypes(cs, uni, s),
           IF s \in DOMAIN synonyms THEN OfficialCode(cs, uni, synonyms[s]) ELSE InCharsets(cs, uni, s))

Prefixed(pre, uni, code) ==
    IF pre = "" THEN code
    ELSE IF KTYP(code) = KT_LATIN THEN K(IF pre = "Meta_" THEN KT_META ELSE KT_DEAD2, KVAL(code))
    ELSE IF pre = "Meta_" /\ uni THEN 0 ELSE Unknown

(* ksymtocode, with uni for TO_UNICODE.  What follows a prefix is an 8-bit *)
(* name; Meta_ with another one is silently 0 in Unicode mode.             *)
ksymtocode(cs, uni, pre, s) == Prefixed(pre, uni, NameToCode(cs, uni /\ pre = "", s))

(* convert_code, TO_AUTO.                                                  *)
AsLetter(uni, code, result) ==
    IF uni /\ KTYP(code) = KT_LETTER /\ U(result) < 256 THEN K(KT_LETTER, U(result)) ELSE result

ByName(cs, uni, code, ksym) ==
    AsLetter(uni, code, IF ksym = NoName THEN code ELSE ksymtocode(cs, uni, "", ksym))

convert_code(cs, uni, code) ==
    IF KTYP(code) = KT_META \/ code < 128 THEN code
    ELSE IF IsUnicode(code) /\ U(code) < 128 THEN U(code)
    ELSE IF IsUnicode(code) = uni THEN code
    ELSE ByName(cs, uni, code, codetoksym(cs, code))

add_capslock(cs, uni, code) ==
    IF KTYP(code) = KT_LATIN /\ (~uni \/ code < 128) THEN K(KT_LETTER, KVAL(code))
    ELSE IF U(code) < 256 THEN K(KT_LETTER, U(code))
    ELSE convert_code(cs, uni, code)

(* The rvalue rules; an unknown name is an error before PLUS is seen, and  *)
(* so is U+f000 or more.                                                   *)
RvalueOf(cs, uni, r, code) ==
    IF code = Unknown THEN Unknown
    ELSE IF r.plus THEN add_capslock(cs, uni, code)
    ELSE IF r.kind = "literal" THEN code
    ELSE convert_code(cs, uni, code)

rvalue(cs, uni, r) ==
    RvalueOf(cs, uni, r, CASE r.kind = "literal" -> ksymtocode(cs, uni, r.pre, r.name)
                           [] r.kind = "number" -> r.num
                           [] r.kind = "unumber" -> IF r.num < 61440 THEN U(r.num) ELSE Unknown)
=============================================================================
