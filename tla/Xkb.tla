-------------------------------- MODULE Xkb --------------------------------
(***************************************************************************)
(* loadkeys --xkb-layout: an XKB keymap turned into console key tables     *)
(* (src/src/xkbsupport.c), and what the console then does with the keys.   *)
(*                                                                         *)
(* convert_xkb_keymap walks over the keys, console groups and modifiers,   *)
(* asks libxkbcommon for the symbol and stores a code for it; it picks the *)
(* compose rules that fit in the kernel's table; and it completes the      *)
(* tables for pure modifier keys.  The XKB groups become locks of ShiftL,  *)
(* ShiftR and CtrlL, and a held Mode_switch becomes CtrlR.                 *)
(*                                                                         *)
(* After that a user presses and releases keys.  The same events go to the *)
(* console with its tables and to the XKB keymap itself, as in the tests   *)
(* of the conversion (tests/libkeymap/libkeymap-test54.c).  The console    *)
(* looks up a release in the table of that moment; XKB undoes what the     *)
(* press did.                                                              *)
(***************************************************************************)
EXTENDS Integers, Sequences, FiniteSets, SequencesExt, FiniteSetsExt, TLC

CONSTANTS
    Key,            \* the keycodes of the keymap
    Inputs,         \* XKB keymaps as libxkbcommon compiles them, each with a
                    \* compose table: a set of entries
    Byte,           \* the named characters: the byte of the 8-bit name, or NoByte
    MaxDiacr,       \* MAX_DIACR
    MaxDown         \* bound: keys held at once, and a modifier counted

(* The bits of a console table number.                                     *)
KG_SHIFT == 0
KG_ALTGR == 1
KG_CTRL == 2
KG_ALT == 3
KG_SHIFTL == 4
KG_SHIFTR == 5
KG_CTRLL == 6
KG_CTRLR == 7

NoByte == -1

(* Codes of the kernel: a type and a value.  "uni" is a Unicode character, *)
(* "none" is no code at all.                                               *)
C(t, v) == [typ |-> t, val |-> v]
K_HOLE == C("spec", 0)
NoCode == C("none", 0)

(* An XKB symbol: its name, its number and its character, or 0.            *)
NoSymbol == [name |-> "NoSymbol", sym |-> 0, utf |-> 0]

VARIABLES
    keymap,         \* the XKB keymap
    compose,        \* the compose table of the locale
    prefer,         \* LK_FLAG_PREFER_UNICODE
    pc,             \* what convert_xkb_keymap does next
    masks,          \* modifier_masks: for each console modifier, real modifiers
    tables,         \* the console tables made, with a code or NoCode for each key
    reachable,      \* reachable_syms
    rules,          \* the compose rules appended, and the score they had
    down, lock,     \* the console: count for each bit, locked bits
    action,         \* XKB: the symbol each held key was pressed as
    locked          \* XKB: the locked group

input == <<keymap, compose, prefer>>
made == <<masks, tables, reachable, rules>>
console == <<down, lock, action, locked>>
vars == <<input, pc, made, console>>

-----------------------------------------------------------------------------
(* libxkbcommon                                                            *)

(* A keymap has n layouts.  A key has layouts of its own, each with the    *)
(* real modifiers its type looks at and a symbol for each subset of them.  *)
(* A group the key does not have wraps.  real gives the real modifiers a   *)
(* modifier key sets.                                                      *)
XkbLayout(km, k, g) == km.layouts[k][(g % Len(km.layouts[k])) + 1]

XkbSym(km, k, g, mods) ==
    IF km.layouts[k] = <<>> THEN NoSymbol
    ELSE LET l == XkbLayout(km, k, g) IN l.sym[mods \intersect l.uses]

Consumed(km, k, g) == XkbLayout(km, k, g).uses

(* xkb_state_key_get_utf32: Control makes a control character of a letter. *)
XkbControl(u) == IF u \in 64 .. 126 THEN u % 32 ELSE u

ModifierName == {"Shift_L", "Shift_R", "Control_L", "Control_R", "Alt_L", "Alt_R", "ISO_Level3_Shift"}

Symbols(km, k) == UNION {{l.sym[m] : m \in SUBSET l.uses} : l \in ToSet(km.layouts[k])}
KeySyms(km, k) == Symbols(km, k) \ {NoSymbol}

-----------------------------------------------------------------------------
(* Modifiers                                                               *)

(* The number of a mask of real modifiers, which are powers of two.        *)
MaskValue(m) == MapThenSumSet(LAMBDA b : b, m)

(* xkeymap_find_modifier_mask_for_keysym: the lightest mask that a key     *)
(* with this symbol on the first level of some layout sets, {} for none.   *)
FindMask(km, name) ==
    LET found == {km.real[k] : k \in {k \in Key :
                    \E l \in ToSet(km.layouts[k]) : l.sym[{}].name = name}} \ {{}}
    IN IF found = {} THEN {}
       ELSE CHOOSE m \in found : \A o \in found :
              \/ Cardinality(m) < Cardinality(o)
              \/ Cardinality(m) = Cardinality(o) /\ MaskValue(m) <= MaskValue(o)

(* xkeymap_init_modifier_masks: Shift and Control are real modifiers.      *)
InitMasks(km) ==
    [b \in KG_SHIFT .. KG_ALT |->
        CASE b = KG_SHIFT -> {1}
          [] b = KG_CTRL  -> {4}
          [] b = KG_ALT   -> IF FindMask(km, "Alt_L") # {} THEN FindMask(km, "Alt_L")
                             ELSE FindMask(km, "Alt_R")
          [] b = KG_ALTGR -> FindMask(km, "ISO_Level3_Shift")]

-----------------------------------------------------------------------------
(* Codes                                                                   *)

(* xkeymap_get_code_from_semantic_keysym, for the symbols used here.       *)
SemanticCode ==
    [Shift_L |-> C("shift", KG_SHIFT), Shift_R |-> C("shift", KG_SHIFT),
     Control_L |-> C("shift", KG_CTRL), Control_R |-> C("shift", KG_CTRL),
     Alt_L |-> C("shift", KG_ALT), Alt_R |-> C("shift", KG_ALT),
     ISO_Level3_Shift |-> C("shift", KG_ALTGR), ISO_Level3_Lock |-> C("lock", KG_ALTGR),
     Mode_switch |-> C("shift", KG_CTRLR), Multi_key |-> C("spec", 14),
     ISO_Group_Latch |-> C("shift", KG_SHIFTL), dead_ogonek |-> C("dead", 12)]

(* Actions that have the same name in libkeymap.                           *)
NamedCode == [Caps_Lock |-> C("spec", 7), dead_acute |-> C("dead", 1), dead_tilde |-> C("dead", 3)]

(* xkeymap_get_code_from_name: the byte of a name may be from another      *)
(* charset than Latin-1, and then the character is taken.                  *)
CodeFromName(s) ==
    IF s.name \in DOMAIN NamedCode THEN NamedCode[s.name]
    ELSE IF s.utf \notin DOMAIN Byte \/ Byte[s.utf] = NoByte THEN NoCode
    ELSE IF Byte[s.utf] >= 128 /\ Byte[s.utf] # s.utf THEN C("uni", s.utf)
    ELSE C("latin", Byte[s.utf])

(* xkeymap_get_code: U+F000 and above would read as actions.               *)
GetCode(s) ==
    IF s.utf >= 61440 THEN NoCode
    ELSE IF s.name \in DOMAIN SemanticCode THEN SemanticCode[s.name]
    ELSE IF CodeFromName(s) # NoCode THEN CodeFromName(s)
    ELSE IF s.utf >= 32 /\ s.utf # 127 THEN C("uni", s.utf)
    ELSE NoCode

(* ShiftL and ShiftR are for the layouts.                                  *)
Unreserved(c) ==
    IF c.typ \in {"shift", "lock"} /\ c.val \in {KG_SHIFTL, KG_SHIFTR} THEN C(c.typ, KG_SHIFT) ELSE c

(* xkeymap_is_capslockable; letters of this model are those with a case.   *)
HasCase(u) == u \in 65 .. 90 \/ u \in 97 .. 122 \/ u \in 192 .. 255 \/ u \in 1024 .. 1279

IsCapslockable(s, c) == HasCase(s.utf) /\ c.typ \in {"latin", "uni"} /\ c.val < 256

(* lk_add_capslock.                                                        *)
AddCapslock(c) ==
    IF c.typ = "latin" /\ prefer /\ c.val >= 128 THEN C("uni", c.val) ELSE C("letter", c.val)

(* xkeymap_apply_modifiers: the modifiers XKB left over.                   *)
ApplyModifiers(k, g, mods, s, code) ==
    LET left(b) == b \in mods /\ masks[b] \intersect Consumed(keymap, k, g) = {}
        c == IF left(KG_CTRL) /\ s.utf # 0 /\ code.typ \in {"uni", "latin", "letter"} /\ XkbControl(s.utf) < 128
             THEN C("latin", XkbControl(s.utf)) ELSE code
    IN IF left(KG_ALT) /\ c.typ \in {"uni", "latin", "letter"} /\ c.val < 128
       THEN C("meta", c.val) ELSE c

-----------------------------------------------------------------------------
(* Groups                                                                  *)

NR_LAYOUTS == 4

(* layouts[num_layouts - 1][group].                                        *)
LayoutOf(n, group) == << <<0, 0, 0, 0>>, <<0, 1, 1, 0>>, <<0, 1, 2, 0>>, <<0, 1, 3, 2>> >>[n][group + 1]

Xor(a, b) == << <<0, 1, 2, 3>>, <<1, 0, 3, 2>>, <<2, 3, 0, 1>>, <<3, 2, 1, 0>> >>[a + 1][b + 1]

(* Mutant: CtrlL is taken for one more bit and not for both inverted.      *)
GroupWithoutCtrlL(T) == (IF KG_SHIFTL \in T THEN 1 ELSE 0) + (IF KG_SHIFTR \in T THEN 2 ELSE 0)

(* The group of a table: two bits, both inverted by CtrlL.                 *)
GroupOf(T) ==
    Xor((IF KG_SHIFTL \in T THEN 1 ELSE 0) + (IF KG_SHIFTR \in T THEN 2 ELSE 0),
        IF KG_CTRLL \in T THEN 3 ELSE 0)

(* The layout a table shows: Mode_switch adds one while it is held.        *)
Selected(n, T) == (LayoutOf(n, GroupOf(T)) + (IF KG_CTRLR \in T THEN 1 ELSE 0)) % n

(* xkeymap_select_group: one lock that leads to the target, or nothing.    *)
SelectGroup(n, group, target) ==
    LET actions == << K_HOLE, C("lock", KG_SHIFTL), C("lock", KG_SHIFTR), C("lock", KG_CTRLL) >>
        good == {m \in 0 .. 3 : LayoutOf(n, Xor(group, m)) = target}
    IN IF good = {} THEN K_HOLE ELSE actions[Min(good) + 1]

(* xkeymap_group_features.                                                 *)
HasName(km, k, names) == \E s \in KeySyms(km, k) : s.name \in names
GroupSwitch(km, k) == HasName(km, k, {"Mode_switch"})
GroupAction == {"ISO_Next_Group", "ISO_Prev_Group", "ISO_First_Group", "ISO_Last_Group"}

GroupSelect(km) ==
    \E k \in Key : HasName(km, k, {"ISO_First_Group", "ISO_Last_Group", "ISO_Prev_Group"})

(* The tables xkeymap_walk goes through.                                   *)
WalkTables(km) ==
    {T \in SUBSET (KG_SHIFT .. KG_CTRLR) :
        /\ KG_CTRLL \in T => km.n > 2 /\ GroupSelect(km)
        /\ KG_CTRLR \in T => \E k \in Key : GroupSwitch(km, k)}

ModsOf(T) == T \intersect (KG_SHIFT .. KG_ALT)

RealMods(T) == UNION {masks[b] : b \in ModsOf(T)}

(* The symbol XKB has for a key in the state a table stands for.           *)
WalkSym(T, k) == XkbSym(keymap, k, Selected(keymap.n, T), RealMods(T))

(* The code for the symbol a key has in table T, NoCode for none.          *)
SymCode(T, k) ==
    LET n == keymap.n
        group == GroupOf(T)
        s == WalkSym(T, k)
        code == Unreserved(GetCode(s))
        tagged == IF IsCapslockable(s, code) THEN AddCapslock(code) ELSE code
    IN CASE s.name = "NoSymbol" -> NoCode
         [] s.name = "ISO_Next_Group" -> C("lock", IF group \in {0, 3} THEN KG_SHIFTL ELSE KG_SHIFTR)
         [] s.name = "ISO_Prev_Group" -> SelectGroup(n, group, (LayoutOf(n, group) + n - 1) % n)
         [] s.name = "ISO_First_Group" -> SelectGroup(n, group, 0)
         [] s.name = "ISO_Last_Group" -> SelectGroup(n, group, 1 % n)
         [] OTHER -> IF code = NoCode THEN NoCode
                     ELSE ApplyModifiers(k, Selected(n, T), ModsOf(T), s, tagged)

(* A switch key keeps its action while it is held, whatever else it has.   *)
KeepsSwitch(T, k) == KG_CTRLR \in T /\ GroupSwitch(keymap, k)

WalkCode(T, k) == IF KeepsSwitch(T, k) THEN C("shift", KG_CTRLR) ELSE SymCode(T, k)

(* xkeymap_fill_modifier_release_bindings: a key that has one code in all  *)
(* the tables it is in, a modifier, gets it in the others too.             *)
CodesOf(ts, k) == {ts[T][k] : T \in DOMAIN ts} \ {NoCode, K_HOLE}

(* Mutant: nothing is filled in.                                           *)
FilledNothing(ts) == ts

Filled(ts) ==
    [T \in DOMAIN ts |->
        [k \in Key |->
            IF ts[T][k] = NoCode /\ Cardinality(CodesOf(ts, k)) = 1 /\ (\A c \in CodesOf(ts, k) : c.typ = "shift")
            THEN CHOOSE c \in CodesOf(ts, k) : TRUE
            ELSE ts[T][k]]]

-----------------------------------------------------------------------------
(* Compose                                                                 *)

IsDead(s) == s.name \in {"dead_acute", "dead_tilde", "dead_ogonek"}

(* xkeymap_compose_input_code: what k_dead gives to the kernel's lookup.   *)
DeadChar == (1 :> 39) @@ (3 :> 126) @@ (12 :> 107)

InputCode(c) == IF c.typ # "dead" THEN c ELSE C("latin", DeadChar[c.val])

ReachedCode(s) == Unreserved(GetCode(s))
ResultCode(s) == IF s \in reachable THEN ReachedCode(s) ELSE GetCode(s)

(* xkeymap_compose_code_to_unicode.                                        *)
ToUnicode(c) == IF c.typ \in {"uni", "latin", "letter"} THEN c.val ELSE 0

Lower == 97 .. 122
Upper == 65 .. 90
Digit == 48 .. 57

(* xkeymap_is_preferred_console_dead_rule: for each dead key the letters   *)
(* of the usual console keymaps, here without the distinction of case.     *)
Preferred ==
    [dead_acute |-> {97, 99, 101, 105, 108, 110, 111, 114, 115, 117, 121, 122},
     dead_tilde |-> {97, 105, 110, 111, 117},
     dead_ogonek |-> {97, 101}]

IsPreferred(e, base) ==
    /\ ~IsDead(e.seq[2])
    /\ IsDead(e.seq[1])
    /\ base \in Preferred[e.seq[1].name] \/ (base \in Upper /\ base + 32 \in Preferred[e.seq[1].name])

(* xkeymap_score_compose_candidate.                                        *)
Score(e, result, reached) ==
    LET base == ToUnicode(InputCode(ReachedCode(e.seq[2])))
        letter == IF IsDead(e.seq[2]) THEN 0 ELSE base
        u == ToUnicode(result)
    IN (IF IsDead(e.seq[1]) THEN 1000 ELSE 0)
         + (IF IsPreferred(e, base) THEN 300 ELSE 0)
         + (CASE letter \in Lower -> 250 [] letter \in Upper -> 200
              [] letter \in Digit \union {32} -> -200 [] letter = 0 -> 0 [] OTHER -> -50)
         + (CASE u = 0 -> 0 [] u \in 1 .. 255 -> 200 [] u \in 256 .. 383 -> 100 [] OTHER -> 25)
         + (IF reached THEN -100 ELSE 0)

(* xkeymap_compose_candidate_from_entry: entries of two reachable symbols  *)
(* whose result has a code.                                                *)
Candidates ==
    {[seq |-> <<e.seq[1].sym, e.seq[2].sym>>, result_sym |-> e.result.sym,
      diacr |-> InputCode(ReachedCode(e.seq[1])), base |-> InputCode(ReachedCode(e.seq[2])),
      result |-> ResultCode(e.result),
      score |-> Score(e, ResultCode(e.result), e.result \in reachable)] :
        e \in {e \in compose :
                /\ e.result # NoSymbol /\ Len(e.seq) = 2
                /\ e.seq[1] \in reachable /\ e.seq[2] \in reachable
                /\ e.result \in reachable \/ GetCode(e.result) # NoCode}}

SeqBefore(a, b) == a[1] < b[1] \/ (a[1] = b[1] /\ a[2] < b[2])

(* compare_compose_candidates_by_sequence, for equal sequences, and        *)
(* compare_compose_candidates.                                             *)
BetterResult(a, b) == a.score > b.score \/ (a.score = b.score /\ a.result_sym < b.result_sym)

ScoreBefore(a, b) == a.score > b.score \/ (a.score = b.score /\ SeqBefore(a.seq, b.seq))

(* xkeymap_select_compose_candidates: the best result of each sequence,    *)
(* the best sequences first.                                               *)
SelectedCandidates(cs) ==
    SetToSortSeq({c \in cs : \A d \in cs : (d # c /\ d.seq = c.seq) => BetterResult(c, d)}, ScoreBefore)

(* lk_convert_code for the kernel's compose table: characters, or bytes    *)
(* with the name's byte from whichever charset has one.                    *)
Convert(c) ==
    IF c.typ \notin {"uni", "latin"} THEN c
    ELSE IF c.val < 128 THEN C("latin", c.val)
    ELSE IF prefer THEN C("uni", c.val)
    ELSE IF c.typ = "latin" \/ c.val \notin DOMAIN Byte THEN c
    ELSE IF Byte[c.val] = NoByte THEN NoCode
    ELSE C("latin", Byte[c.val])

Rule(c) ==
    [diacr |-> Convert(c.diacr), base |-> Convert(c.base), result |-> Convert(c.result), score |-> c.score]

(* Mutant: pairs of inputs are compared before lk_append_compose converts  *)
(* them.                                                                   *)
AppendedUnconverted(q) ==
    LET kept == FoldLeft(LAMBDA cs, c :
                           IF \E d \in ToSet(cs) : d.diacr = c.diacr /\ d.base = c.base THEN cs ELSE Append(cs, c),
                         <<>>, q)
    IN [i \in DOMAIN kept |-> Rule(kept[i])]

(* xkeymap_append_compose_candidates: one rule for each pair of inputs as  *)
(* the kernel sees them, as many as there is room for.                     *)
Appended(q) ==
    FoldLeft(LAMBDA rs, c :
               IF \E r \in ToSet(rs) : r.diacr = Convert(c.diacr) /\ r.base = Convert(c.base) THEN rs
               ELSE Append(rs, Rule(c)),
             <<>>, q)

FirstRules(rs) == SubSeq(rs, 1, IF Len(rs) < MaxDiacr THEN Len(rs) ELSE MaxDiacr)

-----------------------------------------------------------------------------
(* What libxkbcommon gives: finitely many keys, and on every level of some *)
(* key (Return, a Shift) a symbol with a code.                             *)
ASSUME XkbAssumption ==
    /\ IsFiniteSet(Key)
    /\ \A p \in Inputs :
          /\ p[1].n \in Nat
          /\ \A k \in Key : p[1].layouts[k] \in Seq(ToSet(p[1].layouts[k]))
          /\ \E k \in Key :
                /\ p[1].layouts[k] # <<>>
                /\ \A s \in Symbols(p[1], k) : s.name # "NoSymbol" /\ GetCode(s) # NoCode

Init ==
    /\ \E p \in Inputs : keymap = p[1] /\ compose = p[2]
    /\ prefer \in BOOLEAN
    /\ pc = "check"
    /\ masks = [b \in KG_SHIFT .. KG_ALT |-> {}]
    /\ tables = <<>>
    /\ reachable = {}
    /\ rules = <<>>
    /\ down = [b \in KG_SHIFT .. KG_CTRLR |-> 0]
    /\ lock = {}
    /\ action = <<>>
    /\ locked = 0

(* What convert_xkb_keymap refuses: an option that would leave Shift stuck *)
(* (xkeymap_has_shifts_toggle), names the registry lacks                   *)
(* (xkeymap_rmlvo_check) or that do not compile (known says that there are *)
(* no such names), more layouts than the groups stand for.                 *)
Accepts(km) ==
    /\ "grp:shifts_toggle" \notin km.options
    /\ km.known
    /\ km.n \in 1 .. NR_LAYOUTS

Check ==
    /\ pc = "check"
    /\ IF Accepts(keymap)
       THEN pc' = "walk" /\ masks' = InitMasks(keymap)
       ELSE pc' = "failed" /\ UNCHANGED masks
    /\ UNCHANGED <<input, tables, reachable, rules, console>>

(* xkeymap_walk.  alt_is_meta is off meanwhile, so lk_add_key stores the   *)
(* code and nothing else, in a table that it makes at the first code.      *)
Walk ==
    /\ pc = "walk"
    /\ LET all == [T \in WalkTables(keymap) |-> [k \in Key |-> WalkCode(T, k)]]
           some == {T \in DOMAIN all : \E k \in Key : all[T][k] # NoCode}
       IN tables' = [T \in some |-> all[T]]
    /\ reachable' = {s \in {WalkSym(c[1], c[2]) : c \in {c \in WalkTables(keymap) \X Key :
                                                        ~KeepsSwitch(c[1], c[2])}} :
                        GetCode(s) # NoCode /\ s.name \notin GroupAction}
    /\ pc' = "compose"
    /\ UNCHANGED <<input, masks, rules, console>>

(* xkeymap_compose.                                                        *)
Compose ==
    /\ pc = "compose"
    /\ rules' = FirstRules(Appended(SelectedCandidates(Candidates)))
    /\ pc' = "fill"
    /\ UNCHANGED <<input, masks, tables, reachable, console>>

Fill ==
    /\ pc = "fill"
    /\ tables' = Filled(tables)
    /\ pc' = "done"
    /\ UNCHANGED <<input, masks, reachable, rules, console>>

-----------------------------------------------------------------------------
(* The console and XKB under the same keys                                 *)

(* The console: the bits of held modifiers, changed by locks.  The table   *)
(* is looked up when a key goes down and again when it goes up.            *)
ShiftState == {b \in DOMAIN down : down[b] > 0}
Table == (ShiftState \ lock) \union (lock \ ShiftState)

ConsoleCode(k) ==
    IF Table \in DOMAIN tables /\ tables[Table][k] # NoCode THEN tables[Table][k] ELSE K_HOLE

(* XKB: a held key sets its modifiers, or moves the group on, if it was    *)
(* pressed as a symbol that does so.                                       *)
XkbMods == UNION {keymap.real[k] : k \in {k \in DOMAIN action : action[k].name \in ModifierName}}
XkbGroup == (locked + Cardinality({k \in DOMAIN action : action[k].name = "Mode_switch"})) % keymap.n
XkbNow(k) == XkbSym(keymap, k, XkbGroup, XkbMods)

Press(k) ==
    /\ pc = "done"
    /\ k \notin DOMAIN action
    /\ Cardinality(DOMAIN action) < MaxDown
    /\ LET c == ConsoleCode(k)
           s == XkbNow(k)
       IN /\ c.typ = "shift" => down[c.val] < MaxDown
          /\ down' = IF c.typ = "shift" THEN [down EXCEPT ![c.val] = @ + 1] ELSE down
          /\ lock' = IF c.typ # "lock" THEN lock
                     ELSE IF c.val \in lock THEN lock \ {c.val} ELSE lock \union {c.val}
          /\ action' = [j \in DOMAIN action \union {k} |-> IF j = k THEN s ELSE action[j]]
          /\ locked' = CASE s.name = "ISO_Next_Group" -> (locked + 1) % keymap.n
                         [] s.name = "ISO_Prev_Group" -> (locked + keymap.n - 1) % keymap.n
                         [] s.name = "ISO_First_Group" -> 0
                         [] s.name = "ISO_Last_Group" -> 1 % keymap.n
                         [] OTHER -> locked
    /\ UNCHANGED <<input, pc, made>>

Release(k) ==
    /\ pc = "done"
    /\ k \in DOMAIN action
    /\ LET c == ConsoleCode(k)
       IN down' = IF c.typ = "shift" /\ down[c.val] > 0 THEN [down EXCEPT ![c.val] = @ - 1] ELSE down
    /\ action' = [j \in DOMAIN action \ {k} |-> action[j]]
    /\ UNCHANGED <<input, pc, made, lock, locked>>

Refused == pc = "failed" /\ UNCHANGED vars

Next ==
    \/ Check \/ Walk \/ Compose \/ Fill \/ Refused
    \/ \E k \in Key : Press(k) \/ Release(k)

Spec == Init /\ [][Next]_vars

-----------------------------------------------------------------------------
(* Properties                                                              *)

(* The shape of the state.                                                 *)
TypeOK ==
    /\ pc \in {"check", "walk", "compose", "fill", "done", "failed"}
    /\ down \in [KG_SHIFT .. KG_CTRLR -> Nat] /\ lock \subseteq KG_SHIFT .. KG_CTRLR
    /\ DOMAIN action \subseteq Key
    /\ keymap.n > 0 => locked \in 0 .. (keymap.n - 1)

(* What a key does in the tables it is in; a hole, which a group action    *)
(* leaves that leads nowhere, is a binding that does nothing.              *)
ActionsOf(ts, k) == {ts[T][k] : T \in DOMAIN ts} \ {NoCode}

(* A key has a modifier in one table and another action in another.        *)
Mixed(k, b) ==
    C("shift", b) \in ActionsOf(tables, k) /\ \E c \in ActionsOf(tables, k) : c # C("shift", b)

(* "Modifier remains held" (the tests): when no key is down no modifier is *)
(* either, but for one that some key has in one table while it has another *)
(* action in another, which is what hides the release.  Mode_switch, whose *)
(* key keeps it while it is held, is never left behind.                    *)
NoStuckModifier ==
    (pc = "done" /\ DOMAIN action = {}) =>
        \A b \in ShiftState : b # KG_CTRLR /\ \E k \in Key : Mixed(k, b)

(* The keymap has no key whose release can be hidden, and does not go on   *)
(* to the next of three groups (the console's three are not a cycle).      *)
Convertible ==
    /\ \A k \in Key, b \in KG_SHIFT .. KG_ALT : ~Mixed(k, b)
    /\ keymap.n = 3 => ~\E k \in Key : HasName(keymap, k, {"ISO_Next_Group"})

(* The character a code stands for.                                        *)
Typed(c) == IF c.typ \in {"uni", "latin", "letter", "meta"} THEN c.val ELSE 0

(* Whatever was pressed and released before, in whichever order, a key     *)
(* types on the console the character it types under XKB, group and level  *)
(* included, or nothing if the console cannot have the character.          *)
TypesTheSame ==
    (pc = "done" /\ Convertible) =>
        \A k \in Key :
            LET s == XkbNow(k)
                u == IF {4} \subseteq XkbMods /\ 4 \notin Consumed(keymap, k, XkbGroup) THEN XkbControl(s.utf) ELSE s.utf
            IN (s # NoSymbol /\ s.utf # 0) => Typed(ConsoleCode(k)) = IF GetCode(s) = NoCode THEN 0 ELSE u

(* The kernel's compose table: one rule for a pair of inputs, the best one *)
(* that XKB has for it, and a rule is left out for lack of room only if no *)
(* rule that is in was worse.                                              *)
ComposeKeepsBest ==
    pc \in {"fill", "done"} =>
        /\ \A i, j \in DOMAIN rules :
              (rules[i].diacr = rules[j].diacr /\ rules[i].base = rules[j].base) => i = j
        /\ \A c \in Candidates :
              \/ \E r \in ToSet(rules) :
                    r.diacr = Convert(c.diacr) /\ r.base = Convert(c.base) /\ r.score >= c.score
              \/ Len(rules) = MaxDiacr /\ \A r \in ToSet(rules) : r.score >= c.score
=============================================================================
