----------------------------- MODULE XkbProofs ------------------------------
(***************************************************************************)
(* The keymap that loadkeys makes of an xkb keymap, for every keymap that  *)
(* libxkbcommon may hand over, and the console that works with it, for     *)
(* every order in which keys are pressed and released.  What is held is    *)
(* counted per key: a modifier that is down belongs to a key that is, or   *)
(* to one that has it in one table and another action in another.          *)
(***************************************************************************)
EXTENDS Xkb, FiniteSetTheorems, TLAPS

(* The codes of the names that mean something to the kernel.               *)
LEMMA SemanticOK ==
    \A x \in DOMAIN SemanticCode :
        /\ SemanticCode[x].typ = "shift" => SemanticCode[x].val \in {0, 1, 2, 3, 4, 7}
        /\ SemanticCode[x].typ = "lock" => SemanticCode[x].val = 1
        /\ SemanticCode[x] = C("shift", 7) => x = "Mode_switch"
        /\ SemanticCode[x] = C(SemanticCode[x].typ, SemanticCode[x].val)
        /\ SemanticCode[x] # NoCode
  BY DEF SemanticCode, C, NoCode, KG_SHIFT, KG_CTRL, KG_ALT, KG_ALTGR, KG_SHIFTL, KG_CTRLR

LEMMA XorOK == \A a, b \in 0 .. 3 : Xor(a, b) \in 0 .. 3
  BY DEF Xor

LEMMA LayoutOK == \A n \in 1 .. 4, g \in 0 .. 3 : LayoutOf(n, g) \in 0 .. 3
  BY DEF LayoutOf

(* The least of some groups.                                               *)
LEMMA MinOK ==
    ASSUME NEW S \in SUBSET (0 .. 3), S # {}
    PROVE  Min(S) \in S /\ \A y \in S : Min(S) <= y
<1>1. \E x \in S : \A y \in S : x <= y
  <2>1. CASE 0 \in S
    BY <2>1
  <2>2. CASE 0 \notin S /\ 1 \in S
    BY <2>2
  <2>3. CASE 0 \notin S /\ 1 \notin S /\ 2 \in S
    BY <2>3
  <2>4. CASE 0 \notin S /\ 1 \notin S /\ 2 \notin S
    <3>1. \A x \in S : x = 3
      BY <2>4
    <3>2. PICK x \in S : TRUE
      OBVIOUS
    <3> QED
      BY <3>1, <3>2
  <2> QED
    BY <2>1, <2>2, <2>3, <2>4
<1> QED
  BY <1>1 DEF Min

(* With one or two layouts the locks of ShiftL and ShiftR reach every      *)
(* group, so CtrlL is not used.                                            *)
LEMMA OneFlip ==
    ASSUME NEW n \in {1, 2}, NEW g \in 0 .. 3, NEW t \in 0 .. n - 1
    PROVE  \E m \in 0 .. 1 : LayoutOf(n, Xor(g, m)) = t
<1>1. CASE n = 1
  BY <1>1, XorOK DEF LayoutOf
<1>2. CASE n = 2 /\ g = 0
  BY <1>2 DEF LayoutOf, Xor
<1>3. CASE n = 2 /\ g = 1
  BY <1>3 DEF LayoutOf, Xor
<1>4. CASE n = 2 /\ g = 2
  BY <1>4 DEF LayoutOf, Xor
<1>5. CASE n = 2 /\ g = 3
  BY <1>5 DEF LayoutOf, Xor
<1> QED
  BY <1>1, <1>2, <1>3, <1>4, <1>5

LEMMA SelectOK ==
    ASSUME NEW n \in 1 .. 4, NEW g \in 0 .. 3, NEW t
    PROVE  /\ SelectGroup(n, g, t) \in {K_HOLE, C("lock", 4), C("lock", 5), C("lock", 6)}
           /\ n <= 2 /\ t \in 0 .. n - 1 => SelectGroup(n, g, t) # C("lock", 6)
<1> DEFINE good == {m \in 0 .. 3 : LayoutOf(n, Xor(g, m)) = t}
           actions == << K_HOLE, C("lock", KG_SHIFTL), C("lock", KG_SHIFTR), C("lock", KG_CTRLL) >>
<1>1. SelectGroup(n, g, t) = IF good = {} THEN K_HOLE ELSE actions[Min(good) + 1]
  BY DEF SelectGroup
<1>2. good # {} => Min(good) \in good /\ \A y \in good : Min(good) <= y
  BY MinOK
<1>3. n <= 2 /\ t \in 0 .. n - 1 => \E m \in 0 .. 1 : m \in good
  BY OneFlip
<1>4. good \subseteq 0 .. 3
  OBVIOUS
<1> HIDE DEF good
<1>5. good # {} => Min(good) \in 0 .. 3 /\ (n <= 2 /\ t \in 0 .. n - 1 => Min(good) \in 0 .. 1)
  <2>1. good # {} => Min(good) \in 0 .. 3
    BY <1>2, <1>4
  <2>2. ASSUME good # {}, n <= 2, t \in 0 .. n - 1 PROVE Min(good) \in 0 .. 1
    <3>1. PICK m \in 0 .. 1 : m \in good
      BY <1>3, <2>2
    <3>2. Min(good) <= m
      BY <1>2, <2>2, <3>1
    <3> QED
      BY <2>1, <2>2, <3>2
  <2> QED
    BY <2>1, <2>2
<1>6. \A i \in 0 .. 3 : actions[i + 1] \in {K_HOLE, C("lock", 4), C("lock", 5), C("lock", 6)}
                        /\ (i \in 0 .. 1 => actions[i + 1] # C("lock", 6))
  BY DEF K_HOLE, C, KG_SHIFTL, KG_SHIFTR, KG_CTRLL
<1>7. K_HOLE # C("lock", 6)
  BY DEF K_HOLE, C
<1> HIDE DEF actions
<1> QED
  BY <1>1, <1>5, <1>6, <1>7

-----------------------------------------------------------------------------
(* Codes                                                                   *)

Character == {"uni", "latin", "letter", "meta"}

(* The modifiers among the codes of symbols.                               *)
LEMMA GetCodeOK ==
    ASSUME NEW s, NEW c, c = GetCode(s)
    PROVE  /\ c.typ = "shift" => c.val \in {0, 1, 2, 3, 4, 7} /\ c = C("shift", c.val)
           /\ c.typ = "lock" => c = C("lock", 1)
           /\ c = C("shift", 7) => s.name = "Mode_switch"
           /\ c # NoCode => c.typ # "none"
<1>1. NoCode.typ = "none" /\ NoCode # C("shift", 7)
  BY DEF NoCode, C
<1>2. CASE s.utf >= 61440
  BY <1>1, <1>2 DEF GetCode
<1>3. CASE ~(s.utf >= 61440) /\ s.name \in DOMAIN SemanticCode
  <2>1. c = SemanticCode[s.name]
    BY <1>3 DEF GetCode
  <2>2. \A x \in DOMAIN SemanticCode :
          SemanticCode[x].typ # "none" /\ (SemanticCode[x].typ = "lock" => SemanticCode[x] = C("lock", 1))
    BY DEF SemanticCode, C, KG_ALTGR
  <2>3. c.typ = "shift" => c.val \in {0, 1, 2, 3, 4, 7} /\ c = C("shift", c.val)
    BY <1>3, <2>1, SemanticOK
  <2> QED
    BY <1>3, <2>1, <2>2, <2>3, SemanticOK
<1>4. CASE ~(s.utf >= 61440) /\ s.name \notin DOMAIN SemanticCode
  <2>1. \A x \in DOMAIN NamedCode : NamedCode[x].typ \in {"spec", "dead"}
    BY DEF NamedCode, C
  <2>2. \A v : C("uni", v).typ = "uni" /\ C("latin", v).typ = "latin"
    BY DEF C
  <2>3. CodeFromName(s).typ \in {"spec", "dead", "uni", "latin", "none"}
    BY <1>1, <2>1, <2>2 DEF CodeFromName
  <2>4. CodeFromName(s) # NoCode => CodeFromName(s).typ # "none"
    BY <2>1, <2>2 DEF CodeFromName
  <2>5. c \in {CodeFromName(s), C("uni", s.utf), NoCode}
    BY <1>4 DEF GetCode
  <2>6. c.typ \in {"spec", "dead", "uni", "latin", "none"} /\ (c # NoCode => c.typ # "none")
    BY <1>1, <2>2, <2>3, <2>4, <2>5
  <2>7. C("shift", 7).typ = "shift"
    BY DEF C
  <2> QED
    BY <2>6, <2>7
<1> QED
  BY <1>2, <1>3, <1>4

LEMMA UnreservedOK ==
    ASSUME NEW s, NEW c, c = Unreserved(GetCode(s))
    PROVE  /\ c.typ = "shift" => c.val \in {0, 1, 2, 3, 7} /\ c = C("shift", c.val)
           /\ c.typ = "lock" => c = C("lock", 1)
           /\ c = C("shift", 7) => s.name = "Mode_switch"
           /\ GetCode(s) # NoCode => c # NoCode /\ c.typ # "none"
<1> DEFINE d == GetCode(s)
<1>1. /\ d.typ = "shift" => d.val \in {0, 1, 2, 3, 4, 7} /\ d = C("shift", d.val)
      /\ d.typ = "lock" => d = C("lock", 1)
      /\ d = C("shift", 7) => s.name = "Mode_switch"
      /\ d # NoCode => d.typ # "none"
  BY GetCodeOK
<1> HIDE DEF d
<1>2. c = IF d.typ \in {"shift", "lock"} /\ d.val \in {4, 5} THEN C(d.typ, 0) ELSE d
  BY DEF d, Unreserved, KG_SHIFTL, KG_SHIFTR, KG_SHIFT
<1>3. \A t, v : C(t, v).typ = t /\ C(t, v).val = v
  BY DEF C
<1>4. NoCode.typ = "none"
  BY DEF NoCode, C
<1>5. CASE d.typ \in {"shift", "lock"} /\ d.val \in {4, 5}
  <2>1. d.typ = "shift" /\ c = C("shift", 0)
    BY <1>1, <1>2, <1>3, <1>5
  <2> QED
    BY <1>3, <1>4, <2>1
<1>6. CASE ~(d.typ \in {"shift", "lock"} /\ d.val \in {4, 5})
  <2>1. c = d
    BY <1>2, <1>6
  <2> QED
    BY <1>1, <1>4, <1>6, <2>1 DEF d
<1> QED
  BY <1>5, <1>6

(* What Control, Meta and CapsLock change are characters.                  *)
LEMMA ApplyOK ==
    ASSUME NEW k, NEW g, NEW mods, NEW s, NEW code,
           NEW tagged, tagged = IF IsCapslockable(s, code) THEN AddCapslock(code) ELSE code
    PROVE  \/ ApplyModifiers(k, g, mods, s, tagged) = code
           \/ ApplyModifiers(k, g, mods, s, tagged).typ \in Character
<1>1. \A t, v : C(t, v).typ = t
  BY DEF C
<1>2. tagged = code \/ tagged.typ \in Character
  BY <1>1 DEF AddCapslock, Character
<1>3. \/ ApplyModifiers(k, g, mods, s, tagged) = tagged
      \/ ApplyModifiers(k, g, mods, s, tagged).typ \in Character
  BY <1>1 DEF ApplyModifiers, Character
<1> QED
  BY <1>2, <1>3

-----------------------------------------------------------------------------
(* The walk                                                                *)

(* A keymap that convert_xkb_keymap has accepted.                          *)
KeymapOK ==
    /\ keymap.n \in 1 .. 4
    /\ \A k \in Key : keymap.layouts[k] \in Seq(ToSet(keymap.layouts[k]))
    /\ \E k \in Key :
          /\ keymap.layouts[k] # <<>>
          /\ \A s \in Symbols(keymap, k) : s.name # "NoSymbol" /\ GetCode(s) # NoCode

LEMMA GroupOK ==
    ASSUME NEW T, NEW n \in 1 .. 4
    PROVE  GroupOf(T) \in 0 .. 3 /\ Selected(n, T) \in 0 .. n - 1
<1>1. GroupOf(T) \in 0 .. 3
  BY XorOK DEF GroupOf
<1>2. LayoutOf(n, GroupOf(T)) \in 0 .. 3
  BY <1>1, LayoutOK
<1>3. \A x \in Nat : x % n \in 0 .. n - 1
  OBVIOUS
<1> QED
  BY <1>1, <1>2, <1>3 DEF Selected

(* A symbol the walk meets is one of the key's.                            *)
LEMMA WalkSymOK ==
    ASSUME KeymapOK, NEW T, NEW k \in Key
    PROVE  /\ keymap.layouts[k] = <<>> => WalkSym(T, k) = NoSymbol
           /\ keymap.layouts[k] # <<>> => WalkSym(T, k) \in Symbols(keymap, k)
<1> DEFINE ls == keymap.layouts[k]
           g == Selected(keymap.n, T)
           i == (g % Len(ls)) + 1
           l == ls[i]
<1>1. ls = <<>> => WalkSym(T, k) = NoSymbol
  BY DEF WalkSym, XkbSym
<1>2. ASSUME ls # <<>> PROVE WalkSym(T, k) \in Symbols(keymap, k)
  <2>1. ls \in Seq(ToSet(ls)) /\ g \in Nat
    BY GroupOK DEF KeymapOK
  <2>2. Len(ls) \in Nat \ {0} /\ DOMAIN ls = 1 .. Len(ls)
    BY <1>2, <2>1
  <2>3. i \in DOMAIN ls
    <3>1. \A x \in Nat : \A y \in Nat \ {0} : (x % y) + 1 \in 1 .. y
      OBVIOUS
    <3> QED
      BY <2>1, <2>2, <3>1
  <2>4. l \in ToSet(ls)
    BY <2>3 DEF ToSet
  <2>5. WalkSym(T, k) = l.sym[RealMods(T) \intersect l.uses]
    BY <1>2 DEF WalkSym, XkbSym, XkbLayout
  <2> HIDE DEF l
  <2>6. RealMods(T) \intersect l.uses \in SUBSET l.uses
    OBVIOUS
  <2> QED
    BY <2>4, <2>5, <2>6 DEF Symbols
<1> QED
  BY <1>1, <1>2

(* Whichever name a symbol on the walk has, the key has it.                *)
LEMMA WalkName ==
    ASSUME KeymapOK, NEW T, NEW k \in Key, NEW names, WalkSym(T, k).name \in names,
           "NoSymbol" \notin names
    PROVE  HasName(keymap, k, names)
<1>1. WalkSym(T, k) # NoSymbol
  BY DEF NoSymbol
<1>2. WalkSym(T, k) \in KeySyms(keymap, k)
  BY <1>1, WalkSymOK DEF KeySyms
<1> QED
  BY <1>2 DEF HasName

(* The codes a key may have in a table: the modifiers that exist, the held *)
(* switch for keys that have it and then only that, and locks of the bits  *)
(* whose tables the walk goes through.                                     *)
ShiftCode(k, c) ==
    /\ c.typ = "shift" => c.val \in {0, 1, 2, 3, 7} /\ c = C("shift", c.val)
    /\ c = C("shift", 7) => GroupSwitch(keymap, k)

LockCode(c) ==
    c.typ = "lock" => c.val \in {1, 4, 5} \/ (c.val = 6 /\ keymap.n > 2 /\ GroupSelect(keymap))

KeptSwitch(T, k, c) == 7 \in T /\ GroupSwitch(keymap, k) => c = C("shift", 7)

GoodCode(T, k, c) == ShiftCode(k, c) /\ LockCode(c) /\ KeptSwitch(T, k, c)

(* xkeymap_select_group, for a key that has one of its symbols.            *)
LEMMA SelectCodeOK ==
    ASSUME KeymapOK, NEW k \in Key, NEW g \in 0 .. 3, NEW t \in 0 .. keymap.n - 1,
           HasName(keymap, k, {"ISO_First_Group", "ISO_Last_Group", "ISO_Prev_Group"}),
           NEW c, c = SelectGroup(keymap.n, g, t)
    PROVE  ShiftCode(k, c) /\ LockCode(c) /\ c # NoCode
<1>1. c \in {K_HOLE, C("lock", 4), C("lock", 5), C("lock", 6)} /\ (keymap.n <= 2 => c # C("lock", 6))
  BY SelectOK DEF KeymapOK
<1>2. GroupSelect(keymap)
  BY DEF GroupSelect
<1>3. \A t1, v : C(t1, v).typ = t1 /\ C(t1, v).val = v
  BY DEF C
<1>4. K_HOLE.typ = "spec" /\ NoCode.typ = "none"
  BY DEF K_HOLE, NoCode, C
<1>5. keymap.n \in 1 .. 4
  BY DEF KeymapOK
<1>6. CASE c = K_HOLE
  BY <1>3, <1>4, <1>6 DEF ShiftCode, LockCode
<1>7. CASE c = C("lock", 4) \/ c = C("lock", 5)
  BY <1>3, <1>4, <1>7 DEF ShiftCode, LockCode
<1>8. CASE c = C("lock", 6)
  <2>1. keymap.n > 2
    BY <1>1, <1>5, <1>8
  <2> QED
    BY <1>2, <1>3, <1>4, <1>8, <2>1 DEF ShiftCode, LockCode
<1> QED
  BY <1>1, <1>6, <1>7, <1>8

LEMMA SymCodeOK ==
    ASSUME KeymapOK, NEW T, NEW k \in Key, NEW c, c = SymCode(T, k)
    PROVE  /\ ShiftCode(k, c) /\ LockCode(c)
           /\ (WalkSym(T, k).name # "NoSymbol" /\ GetCode(WalkSym(T, k)) # NoCode) => c # NoCode
<1> DEFINE n == keymap.n
           g == GroupOf(T)
           s == WalkSym(T, k)
           code == Unreserved(GetCode(s))
           tagged == IF IsCapslockable(s, code) THEN AddCapslock(code) ELSE code
<1>0. /\ n \in 1 .. 4 /\ g \in 0 .. 3 /\ LayoutOf(n, g) \in 0 .. 3
      /\ \A t, v : C(t, v).typ = t /\ C(t, v).val = v
      /\ NoCode.typ = "none"
  BY GroupOK, LayoutOK DEF KeymapOK, NoCode, C
<1>1. CASE s.name = "NoSymbol"
  <2>1. c = NoCode
    BY <1>1 DEF SymCode
  <2> QED
    BY <1>0, <1>1, <2>1 DEF ShiftCode, LockCode
<1>2. CASE s.name = "ISO_Next_Group"
  <2>1. c = C("lock", 4) \/ c = C("lock", 5)
    BY <1>2 DEF SymCode, KG_SHIFTL, KG_SHIFTR
  <2> QED
    BY <1>0, <2>1 DEF ShiftCode, LockCode
<1>3. CASE s.name \in {"ISO_First_Group", "ISO_Last_Group", "ISO_Prev_Group"}
  <2>1. HasName(keymap, k, {"ISO_First_Group", "ISO_Last_Group", "ISO_Prev_Group"})
    BY <1>3, WalkName
  <2>2. PICK t \in 0 .. n - 1 : c = SelectGroup(n, g, t)
    <3>1. \A x \in Nat : x % n \in 0 .. n - 1
      BY <1>0
    <3>2. (LayoutOf(n, g) + n - 1) % n \in 0 .. n - 1 /\ 1 % n \in 0 .. n - 1 /\ 0 \in 0 .. n - 1
      BY <1>0, <3>1
    <3>3. \/ c = SelectGroup(n, g, (LayoutOf(n, g) + n - 1) % n)
          \/ c = SelectGroup(n, g, 0)
          \/ c = SelectGroup(n, g, 1 % n)
      BY <1>3 DEF SymCode
    <3> QED
      BY <3>2, <3>3
  <2> QED
    BY <1>0, <2>1, <2>2, SelectCodeOK
<1>4. CASE s.name \notin GroupAction \union {"NoSymbol"}
  <2>1. c = IF code = NoCode THEN NoCode ELSE ApplyModifiers(k, Selected(n, T), ModsOf(T), s, tagged)
    BY <1>4 DEF SymCode, GroupAction
  <2>2. /\ code.typ = "shift" => code.val \in {0, 1, 2, 3, 7} /\ code = C("shift", code.val)
        /\ code.typ = "lock" => code = C("lock", 1)
        /\ code = C("shift", 7) => s.name = "Mode_switch"
        /\ GetCode(s) # NoCode => code # NoCode /\ code.typ # "none"
    BY UnreservedOK
  <2>3. s.name = "Mode_switch" => GroupSwitch(keymap, k)
    BY WalkName DEF GroupSwitch
  <2>4. (code = NoCode => c = NoCode) /\ (code # NoCode => c = code \/ c.typ \in Character)
    BY <2>1, ApplyOK
  <2> HIDE DEF code, s
  <2>5. code # NoCode => c # NoCode
    BY <1>0, <2>4 DEF Character
  <2>6. CASE c = code
    BY <1>0, <2>2, <2>3, <2>6 DEF ShiftCode, LockCode, s
  <2>7. CASE c = NoCode \/ c.typ \in Character
    BY <1>0, <2>2, <2>5, <2>7 DEF ShiftCode, LockCode, Character, s
  <2> QED
    BY <2>4, <2>6, <2>7
<1> QED
  BY <1>1, <1>2, <1>3, <1>4 DEF GroupAction

LEMMA WalkCodeOK ==
    ASSUME KeymapOK, NEW T, NEW k \in Key
    PROVE  /\ GoodCode(T, k, WalkCode(T, k))
           /\ (WalkSym(T, k).name # "NoSymbol" /\ GetCode(WalkSym(T, k)) # NoCode) => WalkCode(T, k) # NoCode
<1> DEFINE c == SymCode(T, k)
<1>1. /\ ShiftCode(k, c) /\ LockCode(c)
      /\ (WalkSym(T, k).name # "NoSymbol" /\ GetCode(WalkSym(T, k)) # NoCode) => c # NoCode
  BY SymCodeOK
<1>2. C("shift", 7) # NoCode /\ C("shift", 7).typ = "shift" /\ C("shift", 7).val = 7
  BY DEF C, NoCode
<1>3. CASE KeepsSwitch(T, k)
  <2>1. WalkCode(T, k) = C("shift", 7) /\ GroupSwitch(keymap, k)
    BY <1>3 DEF WalkCode, KeepsSwitch, KG_CTRLR
  <2> QED
    BY <1>2, <2>1 DEF GoodCode, ShiftCode, LockCode, KeptSwitch
<1>4. CASE ~KeepsSwitch(T, k)
  <2>1. WalkCode(T, k) = c
    BY <1>4 DEF WalkCode
  <2>2. ~(7 \in T /\ GroupSwitch(keymap, k))
    BY <1>4 DEF KeepsSwitch, KG_CTRLR
  <2> HIDE DEF c
  <2> QED
    BY <1>1, <2>1, <2>2 DEF GoodCode, KeptSwitch
<1> QED
  BY <1>3, <1>4

-----------------------------------------------------------------------------
(* The invariant                                                           *)

(* The tables: the ones of the walk, with good codes.                      *)
TablesOK(ts) ==
    /\ DOMAIN ts = WalkTables(keymap)
    /\ \A T \in DOMAIN ts : \A k \in Key : GoodCode(T, k, ts[T][k])

(* A key that is nothing but a modifier is it in every table.              *)
Complete(ts) ==
    \A k \in Key : \A b \in 0 .. 7 :
        ActionsOf(ts, k) = {C("shift", b)} => \A T \in DOMAIN ts : ts[T][k] = C("shift", b)

(* How far the conversion is.                                              *)
Converted ==
    /\ \E p \in Inputs : keymap = p[1]
    /\ pc \in {"walk", "compose", "fill", "done"} => KeymapOK
    /\ pc \in {"compose", "fill", "done"} => TablesOK(tables)
    /\ pc = "done" => Complete(tables)

Untouched ==
    pc # "done" => down = [b \in 0 .. 7 |-> 0] /\ lock = {} /\ DOMAIN action = {} /\ locked = 0

(* The bits that can be held and locked.                                   *)
BitsOK ==
    /\ down \in [0 .. 7 -> Nat] /\ \A b \in {4, 5, 6} : down[b] = 0
    /\ lock \subseteq {1, 4, 5, 6} /\ (6 \in lock => keymap.n > 2 /\ GroupSelect(keymap))
    /\ DOMAIN action \subseteq Key

(* The keys whose press counts for a modifier: of the held switch all that *)
(* have it on some level, of another modifier those that are it.           *)
Holds(k, b) == IF b = 7 THEN GroupSwitch(keymap, k) ELSE C("shift", b) \in ActionsOf(tables, k)
Holders(b) == {k \in DOMAIN action : Holds(k, b)}

Unmixed(b) == b = 7 \/ ~\E k \in Key : Mixed(k, b)

(* A modifier is counted at most once for each such key that is down.      *)
Counted == pc = "done" => \A b \in 0 .. 7 : Unmixed(b) => down[b] <= Cardinality(Holders(b))

IInv == TypeOK /\ Converted /\ Untouched /\ BitsOK /\ Counted

-----------------------------------------------------------------------------
(* The conversion                                                          *)

LEMMA InitOK == Init => IInv
<1> SUFFICES ASSUME Init PROVE IInv
  OBVIOUS
<1>1. down = [b \in 0 .. 7 |-> 0] /\ lock = {} /\ locked = 0 /\ DOMAIN action = {} /\ pc = "check"
  BY DEF Init, KG_SHIFT, KG_CTRLR
<1>2. PICK p \in Inputs : keymap = p[1]
  BY DEF Init
<1>3. keymap.n \in Nat
  BY <1>2, XkbAssumption
<1>4. TypeOK
  BY <1>1, <1>3 DEF TypeOK, KG_SHIFT, KG_CTRLR
<1>5. Converted /\ Untouched /\ Counted
  BY <1>1, <1>2 DEF Converted, Untouched, Counted
<1>6. BitsOK
  BY <1>1 DEF BitsOK
<1> QED
  BY <1>4, <1>5, <1>6 DEF IInv

(* Nothing of the console and of XKB changes while the tables are made.    *)
LEMMA ConvertingOK ==
    ASSUME IInv, pc # "done", UNCHANGED <<keymap, console>>,
           pc' \in {"check", "walk", "compose", "fill", "done", "failed"}, Converted'
    PROVE  IInv'
<1>1. down' = [b \in 0 .. 7 |-> 0] /\ lock' = {} /\ locked' = 0 /\ DOMAIN action' = {} /\ keymap' = keymap
  BY DEF IInv, Untouched, console
<1>2. TypeOK' /\ Untouched'
  BY <1>1 DEF IInv, TypeOK, Untouched, KG_SHIFT, KG_CTRLR
<1>3. BitsOK'
  BY <1>1 DEF BitsOK
<1>4. Counted'
  <2>1. \A b : Holders(b)' = {}
    BY <1>1 DEF Holders
  <2>2. \A b : Cardinality(Holders(b))' = 0
    BY <2>1, FS_EmptySet
  <2> QED
    BY <1>1, <2>2 DEF Counted
<1> QED
  BY <1>2, <1>3, <1>4 DEF IInv

LEMMA CheckOK == IInv /\ Check => IInv'
<1> SUFFICES ASSUME IInv, Check PROVE IInv'
  OBVIOUS
<1>1. PICK p \in Inputs : keymap = p[1]
  BY DEF IInv, Converted
<1>2. Accepts(keymap) => KeymapOK
  BY <1>1, XkbAssumption DEF KeymapOK, Accepts, NR_LAYOUTS
<1>3. UNCHANGED <<keymap, console>> /\ pc = "check"
  BY DEF Check, input
<1>4. pc' = IF Accepts(keymap) THEN "walk" ELSE "failed"
  BY DEF Check
<1>5. KeymapOK => KeymapOK'
  BY <1>3 DEF KeymapOK
<1>6. Converted'
  BY <1>1, <1>2, <1>3, <1>4, <1>5 DEF Converted
<1> QED
  BY <1>3, <1>4, <1>6, ConvertingOK

(* The codes and the tables a keymap may have depend on it alone.          *)
LEMMA CodeSame ==
    ASSUME keymap' = keymap
    PROVE  /\ WalkTables(keymap)' = WalkTables(keymap)
           /\ \A T, k, c : GoodCode(T, k, c)' <=> GoodCode(T, k, c)
           /\ KeymapOK' <=> KeymapOK
  BY DEF WalkTables, KeymapOK, GoodCode, ShiftCode, LockCode, KeptSwitch

(* Every table the walk goes through is made, for there is a key that has  *)
(* a code on every level.                                                  *)
LEMMA WalkOK == IInv /\ Walk => IInv'
<1> SUFFICES ASSUME IInv, Walk PROVE IInv'
  OBVIOUS
<1> DEFINE all == [T \in WalkTables(keymap) |-> [k \in Key |-> WalkCode(T, k)]]
           some == {T \in DOMAIN all : \E k \in Key : all[T][k] # NoCode}
<1>1. UNCHANGED <<keymap, console>> /\ pc = "walk" /\ pc' = "compose"
  BY DEF Walk, input
<1>2. KeymapOK /\ \E p \in Inputs : keymap = p[1]
  BY <1>1 DEF IInv, Converted
<1>3. tables' = [T \in some |-> all[T]]
  BY DEF Walk
<1>4. \A T \in WalkTables(keymap) : \A k \in Key : all[T][k] = WalkCode(T, k)
  OBVIOUS
<1>5. DOMAIN all = WalkTables(keymap)
  OBVIOUS
<1>6. some = WalkTables(keymap)
  <2>1. PICK k \in Key :
          /\ keymap.layouts[k] # <<>>
          /\ \A s \in Symbols(keymap, k) : s.name # "NoSymbol" /\ GetCode(s) # NoCode
    BY <1>2 DEF KeymapOK
  <2>2. \A T : WalkSym(T, k) \in Symbols(keymap, k)
    BY <1>2, <2>1, WalkSymOK
  <2>3. \A T : WalkCode(T, k) # NoCode
    BY <1>2, <2>1, <2>2, WalkCodeOK
  <2> HIDE DEF all
  <2> QED
    BY <1>4, <1>5, <2>3
<1> HIDE DEF all, some
<1>7. DOMAIN tables' = WalkTables(keymap)
      /\ \A T \in WalkTables(keymap) : \A k \in Key : tables'[T][k] = WalkCode(T, k)
  BY <1>3, <1>4, <1>6
<1>8. \A T \in DOMAIN tables' : \A k \in Key : GoodCode(T, k, tables'[T][k])
  BY <1>2, <1>7, WalkCodeOK
<1>9. TablesOK(tables)'
  BY <1>1, <1>7, <1>8, CodeSame DEF TablesOK
<1>10. Converted'
  BY <1>1, <1>2, <1>9, CodeSame DEF Converted
<1> QED
  BY <1>1, <1>10, ConvertingOK

LEMMA ComposeOK == IInv /\ Compose => IInv'
<1> SUFFICES ASSUME IInv, Compose PROVE IInv'
  OBVIOUS
<1>1. UNCHANGED <<keymap, tables, console>> /\ pc = "compose" /\ pc' = "fill"
  BY DEF Compose, input
<1>2. KeymapOK /\ TablesOK(tables) /\ \E p \in Inputs : keymap = p[1]
  BY <1>1 DEF IInv, Converted
<1>3. TablesOK(tables)'
  BY <1>1, <1>2, CodeSame DEF TablesOK
<1>4. Converted'
  BY <1>1, <1>2, <1>3, CodeSame DEF Converted
<1> QED
  BY <1>1, <1>4, ConvertingOK

(* What xkeymap_fill_modifier_release_bindings may write for a key.        *)
Fillable(ts, k) == Cardinality(CodesOf(ts, k)) = 1 /\ (\A c \in CodesOf(ts, k) : c.typ = "shift")

LEMMA FilledOK ==
    ASSUME NEW ts, NEW T \in DOMAIN ts, NEW k \in Key
    PROVE  IF ts[T][k] = NoCode /\ Fillable(ts, k)
           THEN Filled(ts)[T][k] \in CodesOf(ts, k)
           ELSE Filled(ts)[T][k] = ts[T][k]
<1>1. Filled(ts)[T][k] = IF ts[T][k] = NoCode /\ Fillable(ts, k)
                         THEN CHOOSE c \in CodesOf(ts, k) : TRUE ELSE ts[T][k]
  BY DEF Filled, Fillable
<1>2. ASSUME Fillable(ts, k) PROVE CodesOf(ts, k) # {}
  <2>1. Cardinality({}) = 0
    BY FS_EmptySet
  <2> QED
    BY <1>2, <2>1 DEF Fillable
<1> QED
  BY <1>1, <1>2

LEMMA FilledGood ==
    ASSUME NEW ts, TablesOK(ts)
    PROVE  TablesOK(Filled(ts))
<1>1. DOMAIN Filled(ts) = DOMAIN ts
  BY DEF Filled
<1>2. ASSUME NEW T \in DOMAIN ts, NEW k \in Key
      PROVE  GoodCode(T, k, Filled(ts)[T][k])
  <2>1. GoodCode(T, k, ts[T][k])
    BY DEF TablesOK
  <2>2. CASE ts[T][k] = NoCode /\ Fillable(ts, k)
    <3>1. Filled(ts)[T][k] \in CodesOf(ts, k)
      BY <2>2, FilledOK
    <3>2. PICK U \in DOMAIN ts : Filled(ts)[T][k] = ts[U][k]
      BY <3>1 DEF CodesOf
    <3>3. GoodCode(U, k, ts[U][k])
      BY DEF TablesOK
    <3>4. ~(7 \in T /\ GroupSwitch(keymap, k))
      <4>1. C("shift", 7) # NoCode
        BY DEF C, NoCode
      <4> QED
        BY <2>1, <2>2, <4>1 DEF GoodCode, KeptSwitch
    <3> QED
      BY <3>2, <3>3, <3>4 DEF GoodCode, KeptSwitch
  <2>3. CASE ~(ts[T][k] = NoCode /\ Fillable(ts, k))
    BY <2>1, <2>3, FilledOK
  <2> QED
    BY <2>2, <2>3
<1> QED
  BY <1>1, <1>2 DEF TablesOK

LEMMA FilledComplete ==
    ASSUME NEW ts
    PROVE  Complete(Filled(ts))
<1> DEFINE fs == Filled(ts)
<1>1. DOMAIN fs = DOMAIN ts
  BY DEF Filled
<1>2. ASSUME NEW k \in Key, NEW b \in 0 .. 7, ActionsOf(fs, k) = {C("shift", b)},
             NEW T \in DOMAIN fs, fs[T][k] # C("shift", b)
      PROVE  FALSE
  <2>1. C("shift", b) # NoCode /\ C("shift", b) # K_HOLE /\ C("shift", b).typ = "shift"
    BY DEF C, NoCode, K_HOLE
  <2>2. fs[T][k] = NoCode
    BY <1>2 DEF ActionsOf
  <2>3. NoCode \notin CodesOf(ts, k)
    BY DEF CodesOf
  <2>4. ~Fillable(ts, k)
    <3>1. SUFFICES ASSUME Fillable(ts, k) PROVE FALSE
      OBVIOUS
    <3>2. ts[T][k] # NoCode \/ fs[T][k] \in CodesOf(ts, k)
      BY <1>1, <3>1, FilledOK
    <3>3. ts[T][k] = NoCode
      BY <1>1, <2>2, <2>3, FilledOK
    <3> QED
      BY <2>2, <2>3, <3>2, <3>3
  <2>5. \A U \in DOMAIN ts : fs[U][k] = ts[U][k]
    BY <2>4, FilledOK
  <2> HIDE DEF fs
  <2>6. CodesOf(ts, k) = {C("shift", b)}
    <3>1. {ts[U][k] : U \in DOMAIN ts} = {fs[U][k] : U \in DOMAIN fs}
      BY <1>1, <2>5
    <3>2. CodesOf(ts, k) = ActionsOf(fs, k) \ {K_HOLE}
      BY <3>1 DEF CodesOf, ActionsOf
    <3> QED
      BY <1>2, <2>1, <3>2
  <2>7. Cardinality(CodesOf(ts, k)) = 1
    BY <2>6, FS_Singleton
  <2> QED
    BY <2>1, <2>4, <2>6, <2>7 DEF Fillable
<1> HIDE DEF fs
<1>3. Complete(fs)
  BY <1>2 DEF Complete
<1> QED
  BY <1>3 DEF fs

LEMMA FillOK == IInv /\ Fill => IInv'
<1> SUFFICES ASSUME IInv, Fill PROVE IInv'
  OBVIOUS
<1>1. UNCHANGED <<keymap, console>> /\ pc = "fill" /\ pc' = "done" /\ tables' = Filled(tables)
  BY DEF Fill, input
<1>2. KeymapOK /\ TablesOK(tables) /\ \E p \in Inputs : keymap = p[1]
  BY <1>1 DEF IInv, Converted
<1>3. TablesOK(tables)'
  <2>1. TablesOK(Filled(tables))
    BY <1>2, FilledGood
  <2> QED
    BY <1>1, <2>1, CodeSame DEF TablesOK
<1>4. Complete(tables)'
  <2> DEFINE fs == Filled(tables)
  <2>1. Complete(fs) /\ tables' = fs
    BY <1>1, FilledComplete
  <2> HIDE DEF fs
  <2>2. Complete(tables')
    BY <2>1
  <2> QED
    BY <2>2 DEF Complete, ActionsOf
<1>5. Converted'
  BY <1>1, <1>2, <1>3, <1>4, CodeSame DEF Converted
<1> QED
  BY <1>1, <1>5, ConvertingOK

-----------------------------------------------------------------------------
(* The keys                                                                *)

LEMMA HoldersFinite ==
    ASSUME IInv, NEW b
    PROVE  IsFiniteSet(Holders(b)) /\ Cardinality(Holders(b)) \in Nat
<1>1. Holders(b) \subseteq Key
  BY DEF Holders, IInv, BitsOK
<1>2. IsFiniteSet(Holders(b))
  BY <1>1, XkbAssumption, FS_Subset
<1> QED
  BY <1>2, FS_CardinalityType

(* Whatever is held and locked, the console is in a table that was made.   *)
LEMMA TableIn ==
    ASSUME IInv, pc = "done"
    PROVE  Table \in DOMAIN tables
<1>1. /\ down \in [0 .. 7 -> Nat]
      /\ lock \subseteq {1, 4, 5, 6} /\ (6 \in lock => keymap.n > 2 /\ GroupSelect(keymap))
      /\ DOMAIN action \subseteq Key
      /\ down[6] = 0
  BY DEF IInv, BitsOK
<1>2. ShiftState \subseteq 0 .. 7 /\ 6 \notin ShiftState /\ (7 \in ShiftState => down[7] > 0)
  BY <1>1 DEF ShiftState
<1>3. Table \subseteq 0 .. 7
  BY <1>1, <1>2 DEF Table
<1>4. 6 \in Table => keymap.n > 2 /\ GroupSelect(keymap)
  BY <1>1, <1>2 DEF Table
<1>5. ASSUME 7 \in Table PROVE \E k \in Key : GroupSwitch(keymap, k)
  <2>1. down[7] > 0
    BY <1>1, <1>2, <1>5 DEF Table
  <2>2. Unmixed(7)
    BY DEF Unmixed
  <2>3. down[7] <= Cardinality(Holders(7))
    BY <2>2 DEF IInv, Counted
  <2>4. Cardinality(Holders(7)) # 0
    BY <1>1, <2>1, <2>3, HoldersFinite
  <2>5. Holders(7) # {}
    BY <2>4, FS_EmptySet
  <2>6. PICK k \in DOMAIN action : Holds(k, 7)
    BY <2>5 DEF Holders
  <2> QED
    BY <1>1, <2>6 DEF Holds
<1>6. Table \in WalkTables(keymap)
  BY <1>3, <1>4, <1>5 DEF WalkTables, KG_SHIFT, KG_CTRLL, KG_CTRLR
<1> QED
  BY <1>6 DEF IInv, Converted, TablesOK

(* What the console does with a key.                                       *)
LEMMA ConsoleOK ==
    ASSUME IInv, pc = "done", NEW k \in Key, NEW c, c = ConsoleCode(k)
    PROVE  /\ c.typ = "shift" => c.val \in {0, 1, 2, 3, 7} /\ c = C("shift", c.val) /\ Holds(k, c.val)
           /\ c.typ = "lock" => c.val \in {1, 4, 5} \/ (c.val = 6 /\ keymap.n > 2 /\ GroupSelect(keymap))
<1> DEFINE d == tables[Table][k]
<1>1. Table \in DOMAIN tables
  BY TableIn
<1>2. GoodCode(Table, k, d)
  BY <1>1 DEF IInv, Converted, TablesOK
<1>3. c = IF d # NoCode THEN d ELSE K_HOLE
  BY <1>1 DEF ConsoleCode
<1>4. K_HOLE.typ = "spec"
  BY DEF K_HOLE, C
<1>5. d # NoCode => d \in ActionsOf(tables, k)
  BY <1>1 DEF ActionsOf
<1> HIDE DEF d
<1>6. CASE d = NoCode
  BY <1>3, <1>4, <1>6
<1>7. CASE d # NoCode
  <2>1. c = d /\ ShiftCode(k, c) /\ LockCode(c)
    BY <1>2, <1>3, <1>7 DEF GoodCode
  <2>2. ASSUME c.typ = "shift"
        PROVE  c.val \in {0, 1, 2, 3, 7} /\ c = C("shift", c.val) /\ Holds(k, c.val)
    <3>1. c.val \in {0, 1, 2, 3, 7} /\ c = C("shift", c.val)
      BY <2>1, <2>2 DEF ShiftCode
    <3>2. CASE c.val = 7
      BY <2>1, <3>1, <3>2 DEF ShiftCode, Holds
    <3>3. CASE c.val # 7
      BY <1>5, <1>7, <2>1, <3>1, <3>3 DEF Holds
    <3> QED
      BY <3>1, <3>2, <3>3
  <2> QED
    BY <2>1, <2>2 DEF LockCode
<1> QED
  BY <1>6, <1>7

(* The console finds the modifier again when its key goes up.              *)
LEMMA ReleaseFound ==
    ASSUME IInv, pc = "done", NEW k \in Key, NEW b \in 0 .. 7, Unmixed(b), Holds(k, b), down[b] > 0
    PROVE  ConsoleCode(k) = C("shift", b)
<1>1. Table \in DOMAIN tables
  BY TableIn
<1>2. C("shift", b) # NoCode
  BY DEF C, NoCode
<1>3. tables[Table][k] = C("shift", b)
  <2>1. CASE b = 7
    <3>1. 7 \in Table
      BY <2>1 DEF IInv, BitsOK, ShiftState, Table
    <3>2. GroupSwitch(keymap, k)
      BY <2>1 DEF Holds
    <3>3. GoodCode(Table, k, tables[Table][k])
      BY <1>1 DEF IInv, Converted, TablesOK
    <3> QED
      BY <2>1, <3>1, <3>2, <3>3 DEF GoodCode, KeptSwitch
  <2>2. CASE b # 7
    <3>1. C("shift", b) \in ActionsOf(tables, k)
      BY <2>2 DEF Holds
    <3>2. ~Mixed(k, b)
      BY <2>2 DEF Unmixed
    <3>3. ActionsOf(tables, k) = {C("shift", b)}
      BY <3>1, <3>2 DEF Mixed
    <3>4. Complete(tables)
      BY DEF IInv, Converted
    <3> QED
      BY <1>1, <3>3, <3>4 DEF Complete
  <2> QED
    BY <2>1, <2>2
<1> QED
  BY <1>1, <1>2, <1>3 DEF ConsoleCode

(* What a key leaves alone.                                                *)
LEMMA KeyStep ==
    ASSUME IInv, pc = "done", UNCHANGED <<keymap, tables, pc>>
    PROVE  /\ Converted' /\ Untouched'
           /\ \A k, b : Holds(k, b)' <=> Holds(k, b)
           /\ \A b : Unmixed(b)' <=> Unmixed(b)
<1>1. Converted'
  <2>1. KeymapOK /\ TablesOK(tables) /\ Complete(tables) /\ \E p \in Inputs : keymap = p[1]
    BY DEF IInv, Converted
  <2>2. TablesOK(tables)' /\ KeymapOK'
    BY <2>1, CodeSame DEF TablesOK
  <2>3. Complete(tables)'
    <3>1. tables' = tables
      OBVIOUS
    <3>2. Complete(tables')
      BY <2>1, <3>1
    <3> QED
      BY <3>2 DEF Complete, ActionsOf
  <2> QED
    BY <2>1, <2>2, <2>3 DEF Converted
<1>2. Untouched'
  BY DEF Untouched
<1>3. \A k, b : Holds(k, b)' <=> Holds(k, b)
  BY DEF Holds, ActionsOf
<1>4. \A b : Unmixed(b)' <=> Unmixed(b)
  BY DEF Unmixed, Mixed, ActionsOf
<1> QED
  BY <1>1, <1>2, <1>3, <1>4

LEMMA PressOK == ASSUME IInv, NEW k \in Key, Press(k) PROVE IInv'
<1> DEFINE c == ConsoleCode(k)
<1>1. UNCHANGED <<keymap, tables, pc>> /\ pc = "done" /\ k \notin DOMAIN action
  BY DEF Press, input, made
<1>2. /\ down' = IF c.typ = "shift" THEN [down EXCEPT ![c.val] = @ + 1] ELSE down
      /\ lock' = IF c.typ # "lock" THEN lock
                 ELSE IF c.val \in lock THEN lock \ {c.val} ELSE lock \union {c.val}
      /\ DOMAIN action' = DOMAIN action \union {k}
  BY DEF Press
<1>3. /\ c.typ = "shift" => c.val \in {0, 1, 2, 3, 7} /\ c = C("shift", c.val) /\ Holds(k, c.val)
      /\ c.typ = "lock" => c.val \in {1, 4, 5} \/ (c.val = 6 /\ keymap.n > 2 /\ GroupSelect(keymap))
  BY <1>1, ConsoleOK
<1>4. /\ Converted' /\ Untouched'
      /\ \A j, b : Holds(j, b)' <=> Holds(j, b)
      /\ \A b : Unmixed(b)' <=> Unmixed(b)
  BY <1>1, KeyStep
<1>5. /\ down \in [0 .. 7 -> Nat] /\ \A b \in {4, 5, 6} : down[b] = 0
      /\ lock \subseteq {1, 4, 5, 6} /\ (6 \in lock => keymap.n > 2 /\ GroupSelect(keymap))
      /\ DOMAIN action \subseteq Key
  BY DEF IInv, BitsOK
<1> HIDE DEF c
<1>6. down' \in [0 .. 7 -> Nat] /\ \A b \in {4, 5, 6} : down'[b] = 0
  BY <1>2, <1>3, <1>5
<1>7. lock' \subseteq {1, 4, 5, 6} /\ (6 \in lock' => keymap.n > 2 /\ GroupSelect(keymap))
  <2>1. CASE c.typ # "lock"
    BY <1>2, <1>5, <2>1
  <2>2. CASE c.typ = "lock"
    <3>1. lock' = lock \ {c.val} \/ lock' = lock \union {c.val}
      BY <1>2, <2>2
    <3>2. c.val \in {1, 4, 5, 6} /\ (c.val = 6 => keymap.n > 2 /\ GroupSelect(keymap))
      BY <1>3, <2>2
    <3> QED
      BY <1>5, <3>1, <3>2
  <2> QED
    BY <2>1, <2>2
<1>8. BitsOK'
  BY <1>1, <1>2, <1>5, <1>6, <1>7 DEF BitsOK
<1>9. TypeOK'
  <2>1. keymap.n \in 1 .. 4 /\ locked \in 0 .. keymap.n - 1
    BY <1>1 DEF IInv, Converted, KeymapOK, TypeOK
  <2>2. \A x \in Nat : x % keymap.n \in 0 .. keymap.n - 1
    BY <2>1
  <2>3. /\ (locked + 1) % keymap.n \in 0 .. keymap.n - 1
        /\ (locked + keymap.n - 1) % keymap.n \in 0 .. keymap.n - 1
        /\ 1 % keymap.n \in 0 .. keymap.n - 1
        /\ 0 \in 0 .. keymap.n - 1
    BY <2>1, <2>2
  <2>4. locked' \in {(locked + 1) % keymap.n, (locked + keymap.n - 1) % keymap.n, 0, 1 % keymap.n, locked}
    BY DEF Press
  <2>5. locked' \in 0 .. keymap.n - 1
    BY <2>1, <2>3, <2>4
  <2> QED
    BY <1>1, <1>2, <1>5, <1>6, <1>7, <2>5 DEF TypeOK, KG_SHIFT, KG_CTRLR
<1>10. ASSUME NEW b \in 0 .. 7, Unmixed(b)' PROVE (down[b] <= Cardinality(Holders(b)))'
  <2>1. down[b] <= Cardinality(Holders(b))
    BY <1>1, <1>4, <1>10 DEF IInv, Counted
  <2>2. IsFiniteSet(Holders(b)) /\ Cardinality(Holders(b)) \in Nat /\ k \notin Holders(b)
    BY <1>1, HoldersFinite DEF Holders
  <2>3. CASE Holds(k, b)
    <3>1. Holders(b)' = Holders(b) \union {k}
      BY <1>2, <1>4, <2>3 DEF Holders
    <3>2. Cardinality(Holders(b))' = Cardinality(Holders(b)) + 1
      BY <2>2, <3>1, FS_AddElement
    <3>3. down'[b] \in {down[b], down[b] + 1}
      BY <1>2, <1>3, <1>5
    <3> QED
      BY <1>5, <2>1, <2>2, <3>2, <3>3
  <2>4. CASE ~Holds(k, b)
    <3>1. Holders(b)' = Holders(b)
      BY <1>2, <1>4, <2>4 DEF Holders
    <3>2. down'[b] = down[b]
      BY <1>2, <1>3, <1>5, <2>4
    <3> QED
      BY <2>1, <3>1, <3>2
  <2> QED
    BY <2>3, <2>4
<1>11. Counted'
  BY <1>10 DEF Counted
<1> QED
  BY <1>4, <1>8, <1>9, <1>11 DEF IInv

LEMMA ReleaseOK == ASSUME IInv, NEW k \in Key, Release(k) PROVE IInv'
<1> DEFINE c == ConsoleCode(k)
<1>1. UNCHANGED <<keymap, tables, pc, lock, locked>> /\ pc = "done" /\ k \in DOMAIN action
  BY DEF Release, input, made
<1>2. /\ down' = IF c.typ = "shift" /\ down[c.val] > 0 THEN [down EXCEPT ![c.val] = @ - 1] ELSE down
      /\ DOMAIN action' = DOMAIN action \ {k}
  BY DEF Release
<1>3. c.typ = "shift" => c.val \in {0, 1, 2, 3, 7}
  BY <1>1, ConsoleOK
<1>4. /\ Converted' /\ Untouched'
      /\ \A j, b : Holds(j, b)' <=> Holds(j, b)
      /\ \A b : Unmixed(b)' <=> Unmixed(b)
  BY <1>1, KeyStep
<1>5. /\ down \in [0 .. 7 -> Nat] /\ \A b \in {4, 5, 6} : down[b] = 0
      /\ lock \subseteq {1, 4, 5, 6} /\ (6 \in lock => keymap.n > 2 /\ GroupSelect(keymap))
      /\ DOMAIN action \subseteq Key
  BY DEF IInv, BitsOK
<1>6. \A b \in 0 .. 7 : Unmixed(b) /\ Holds(k, b) /\ down[b] > 0 => c = C("shift", b)
  BY <1>1, ReleaseFound
<1>7. \A b : C("shift", b).typ = "shift" /\ C("shift", b).val = b
  BY DEF C
<1> HIDE DEF c
<1>8. down' \in [0 .. 7 -> Nat] /\ \A b \in {4, 5, 6} : down'[b] = 0
  BY <1>2, <1>3, <1>5
<1>9. BitsOK'
  BY <1>1, <1>2, <1>5, <1>8 DEF BitsOK
<1>10. TypeOK'
  BY <1>1, <1>2, <1>5, <1>8 DEF IInv, TypeOK, KG_SHIFT, KG_CTRLR
<1>11. ASSUME NEW b \in 0 .. 7, Unmixed(b)' PROVE (down[b] <= Cardinality(Holders(b)))'
  <2>1. down[b] <= Cardinality(Holders(b))
    BY <1>1, <1>4, <1>11 DEF IInv, Counted
  <2>2. IsFiniteSet(Holders(b)) /\ Cardinality(Holders(b)) \in Nat
    BY HoldersFinite
  <2>3. down'[b] \in Nat /\ down'[b] <= down[b]
    BY <1>2, <1>3, <1>5, <1>8
  <2>4. CASE Holds(k, b)
    <3>1. Holders(b)' = Holders(b) \ {k} /\ k \in Holders(b)
      BY <1>1, <1>2, <1>4, <2>4 DEF Holders
    <3>2. Cardinality(Holders(b))' = Cardinality(Holders(b)) - 1
      BY <2>2, <3>1, FS_RemoveElement
    <3>3. Cardinality(Holders(b))' \in Nat
      <4>1. IsFiniteSet(Holders(b)')
        BY <2>2, <3>1, FS_RemoveElement
      <4> QED
        BY <4>1, FS_CardinalityType
    <3>4. CASE down[b] > 0
      <4>1. c = C("shift", b)
        BY <1>4, <1>6, <1>11, <2>4, <3>4
      <4>2. down'[b] = down[b] - 1
        BY <1>2, <1>5, <1>7, <3>4, <4>1
      <4> QED
        BY <1>5, <2>1, <2>2, <3>2, <4>2
    <3>5. CASE ~(down[b] > 0)
      BY <1>5, <2>3, <3>3, <3>5
    <3> QED
      BY <3>4, <3>5
  <2>5. CASE ~Holds(k, b)
    <3>1. Holders(b)' = Holders(b)
      BY <1>2, <1>4, <2>5 DEF Holders
    <3> QED
      BY <1>5, <2>1, <2>2, <2>3, <3>1
  <2> QED
    BY <2>4, <2>5
<1>12. Counted'
  BY <1>11 DEF Counted
<1> QED
  BY <1>4, <1>9, <1>10, <1>12 DEF IInv

LEMMA SameOK == IInv /\ UNCHANGED vars => IInv'
<1> SUFFICES ASSUME IInv, UNCHANGED vars PROVE IInv'
  OBVIOUS
<1>1. UNCHANGED <<keymap, tables, pc, down, lock, action, locked>>
  BY DEF vars, input, made, console
<1>2. TypeOK' /\ Untouched' /\ BitsOK'
  BY <1>1 DEF IInv, TypeOK, Untouched, BitsOK
<1>3. Converted'
  <2>1. TablesOK(tables)' <=> TablesOK(tables)
    BY <1>1, CodeSame DEF TablesOK
  <2>2. Complete(tables)' <=> Complete(tables)
    BY <1>1 DEF Complete, ActionsOf
  <2> QED
    BY <1>1, <2>1, <2>2, CodeSame DEF IInv, Converted
<1>4. Counted'
  <2>1. \A b : Holders(b)' = Holders(b)
    BY <1>1 DEF Holders, Holds, ActionsOf
  <2>2. \A b : Unmixed(b)' <=> Unmixed(b)
    BY <1>1 DEF Unmixed, Mixed, ActionsOf
  <2> QED
    BY <1>1, <2>1, <2>2 DEF IInv, Counted
<1> QED
  BY <1>2, <1>3, <1>4 DEF IInv

LEMMA Inductive == IInv /\ [Next]_vars => IInv'
  BY CheckOK, WalkOK, ComposeOK, FillOK, PressOK, ReleaseOK, SameOK DEF Next, Refused

LEMMA Invariant == Spec => []IInv
  BY InitOK, Inductive, PTL DEF Spec

-----------------------------------------------------------------------------
(* The theorems                                                            *)

(* The state keeps its shape: XKB's locked group is one of the keymap's    *)
(* layouts and the console's counters and locks are of its eight bits.     *)
THEOREM TypeCorrect == Spec => []TypeOK
<1>1. IInv => TypeOK
  BY DEF IInv
<1> QED
  BY Invariant, <1>1, PTL

(* When all keys are up the console holds no modifier, unless a key of the *)
(* keymap has it in one table and something else in another, and never the *)
(* held switch of groups: for every keymap libxkbcommon compiles, however  *)
(* many keys it has, and every order of presses and releases, what         *)
(* xkeymap_walk and xkeymap_fill_modifier_release_bindings store lets the  *)
(* release of a modifier find it again.                                    *)
THEOREM NoModifierStuck == Spec => []NoStuckModifier
<1>1. IInv => NoStuckModifier
  <2> SUFFICES ASSUME IInv, pc = "done", DOMAIN action = {}, NEW b \in ShiftState
               PROVE  b # KG_CTRLR /\ \E k \in Key : Mixed(k, b)
    BY DEF NoStuckModifier
  <2>1. b \in 0 .. 7 /\ down[b] \in Nat /\ down[b] > 0
    BY DEF IInv, BitsOK, ShiftState
  <2>2. Holders(b) = {}
    BY DEF Holders
  <2>3. Cardinality(Holders(b)) = 0
    BY <2>2, FS_EmptySet
  <2>4. ~Unmixed(b)
    BY <2>1, <2>3 DEF IInv, Counted
  <2> QED
    BY <2>4 DEF Unmixed, KG_CTRLR
<1> QED
  BY Invariant, <1>1, PTL

(* Whatever the keys down and the locks are, the console is in a table     *)
(* that the conversion made, so that no key is lost for want of a table.   *)
THEOREM TableExists == Spec => [](pc = "done" => Table \in DOMAIN tables)
<1>1. IInv => (pc = "done" => Table \in DOMAIN tables)
  BY TableIn
<1> QED
  BY Invariant, <1>1, PTL

=============================================================================
