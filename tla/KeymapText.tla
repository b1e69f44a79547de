----------------------------- MODULE KeymapText -----------------------------
(***************************************************************************)
(* Keymap files as text: the scanner with its includes (IncludeStack), the *)
(* charset lines (parser.y) and the keysyms of key lines (Ksyms).  The     *)
(* charset, the preference for Unicode and the keys belong to the context: *)
(* they outlive the file, the include and the call that set them.          *)
(***************************************************************************)
EXTENDS IncludeStack, Ksyms

CONSTANTS
    Text,           \* for each line the charset it names, or the keysym it binds
    Modes           \* prefer Unicode or not, when the program starts

(* What the scanner hands on; a number has the 16 bits that the kernel has *)
(* for it.                                                                 *)
ASSUME TextAssumption ==
    /\ Modes \subseteq BOOLEAN
    /\ \A l \in Lines :
          \/ Text[l].kind = "charset" /\ Text[l].charset \in DOMAIN charsets
          \/ /\ Text[l].kind = "key"
             /\ Text[l].rvalue.kind \in {"literal", "number", "unumber"}
             /\ Text[l].rvalue.num \in Nat /\ Text[l].rvalue.num < 65536

VARIABLES
    charset,        \* ctx->charset
    unicode,        \* LK_FLAG_PREFER_UNICODE
    codes,          \* the codes bound so far, in their order
    before          \* history: the three above before this call

context == <<charset, unicode, codes>>
textvars == <<vars, context, before>>

Iso8859_1 == 1

TextInit ==
    /\ Init
    /\ charset = Iso8859_1
    /\ unicode \in Modes
    /\ codes = <<>>
    /\ before = context

(* The line that the scanner is at.                                        *)
Current == Text[Item]
AtLine(kind) == pc = "yyparse" /\ ~AtEof /\ Item \in Lines /\ Current.kind = kind

TextParse(f) == lk_parse_keymap(f) /\ before' = context /\ UNCHANGED context

(* charsetline: with iso-8859-1 Unicode is not preferred any more.  A      *)
(* charset that is not known is an "error" of the file.                    *)
PrefersUnicode(cs, uni) == uni /\ cs # Iso8859_1

lk_set_charset(cs) == charset' = cs

CharsetLine ==
    /\ AtLine("charset")
    /\ Line
    /\ lk_set_charset(Current.charset)
    /\ unicode' = PrefersUnicode(Current.charset, unicode)
    /\ UNCHANGED <<codes, before>>

(* A key line: its keysym in the charset of this place.  An unknown one is *)
(* an ERROR of the scanner, or refused by lk_add_key.                      *)
Bind(code) ==
    /\ Line
    /\ codes' = Append(codes, code)
    /\ UNCHANGED <<charset, unicode, before>>

UnknownKsym ==
    /\ ret' = 1 /\ pc' = "pop"
    /\ UNCHANGED <<stack, buffers, files, read, context, before>>

KeyLine ==
    /\ AtLine("key")
    /\ \E code \in {rvalue(charset, unicode, Current.rvalue)} :
          \/ code # Unknown /\ Bind(code)
          \/ code = Unknown /\ UnknownKsym

TextLibrary ==
    \/ CharsetLine \/ KeyLine
    \/ (SyntaxError \/ Include \/ Eof \/ Return) /\ UNCHANGED <<context, before>>

TextNext ==
    \/ \E f \in File : TextParse(f)
    \/ TextLibrary
    \/ (CallerFrees \/ Done) /\ UNCHANGED <<context, before>>

TextSpec == TextInit /\ [][TextNext]_textvars

(* The scanner goes on where IncludeStack has a step for it: an unknown    *)
(* keysym is met where IncludeStack has a line.                            *)
TextFairSpec == TextSpec /\ WF_vars(Library)
-----------------------------------------------------------------------------
(* Properties                                                              *)

(* dumpkeys, with the charset of -c or 0: what loadkeys makes of the name  *)
(* it prints for a code.  With -c the output starts with a charset line.   *)
Reloaded(c, uni, code) ==
    LET cs == IF c = 0 THEN Iso8859_1 ELSE c
    IN rvalue(cs, IF c = 0 THEN uni ELSE PrefersUnicode(c, uni), print_keysym(cs, code))

(* The charsets in which each name is at one place, and is not the name of *)
(* another byte that iso-8859-1 lends its name to.                         *)
Consistent ==
    {cs \in DOMAIN charsets : \A b \in DOMAIN charsets[cs] : \A v \in (128 .. 255) \ {b} :
        LET s == charsets[cs][b].name
        IN s # CharsetName(cs, v) /\ (CharsetName(cs, v) = NoName => s # get_sym(KT_LATIN, v))}

HighByte(code) == KTYP(code) \in {KT_LATIN, KT_LETTER} /\ KVAL(code) >= 128
DeadHigh(code) == KTYP(code) = KT_DEAD2 /\ KVAL(code) >= 128

(* What a console in Unicode mode types for a code, and whether Caps Lock  *)
(* changes it.                                                             *)
Typed(code) ==
    <<KTYP(code) = KT_LETTER,
      IF IsUnicode(code) THEN U(code) ELSE IF HighByte(code) THEN KVAL(code) ELSE code>>

(* The library and the kernel know the type of the code, or it is Unicode. *)
(* Of type 15 dumpkeys prints a character that the scanner refuses.        *)
Known(code) == KTYP(code) < syms_size \/ IsUnicode(code)

(* Charsets have the name of this character for another one: "mu" is the   *)
(* micro sign in iso-8859-1 and a letter in iso-8859-7.                    *)
Ambiguous(uni) ==
    \E i \in DOMAIN charsets : \E b \in DOMAIN charsets[i] :
        charsets[i][b].name = UnicodeName(uni) /\ charsets[i][b].uni # uni

(* Codes that files bound under any charsets come back from dumpkeys and   *)
(* loadkeys.  On an 8-bit console every code but a Unicode one does, under *)
(* every charset dumpkeys is told (a dead2 byte is printed with its name   *)
(* in iso-8859-1).  On a Unicode console every key types the same          *)
(* character again, but for one whose name is another's too; told a        *)
(* charset, dumpkeys takes bytes as of that charset, and told iso-8859-1   *)
(* it makes loadkeys leave Unicode.                                        *)
NamesRoundTrip ==
    pc = "caller" => \A i \in DOMAIN codes : \A c \in {0} \union Consistent :
        LET code == codes[i] IN
        Known(code) =>
        /\ ~IsUnicode(code) /\ (DeadHigh(code) => c <= Iso8859_1) => Reloaded(c, FALSE, code) = code
        /\ /\ c # Iso8859_1 /\ (c > 0 => ~HighByte(code) /\ ~DeadHigh(code))
           /\ ~(IsUnicode(code) /\ Ambiguous(U(code)))
           => Typed(Reloaded(c, TRUE, code)) = Typed(code)
=============================================================================
