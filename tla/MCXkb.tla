------------------------------- MODULE MCXkb -------------------------------
(***************************************************************************)
(* A small instance of Xkb: keymaps in the manner of xkeyboard-config's    *)
(* group options, and compose tables over the symbols of one of them.      *)
(***************************************************************************)
EXTENDS Xkb

S(name, number, u) == [name |-> name, sym |-> number, utf |-> u]
Action(name) == S(name, 60000, 0)

MCKey == {"shift", "rshift", "mod", "group", "q"}

(* A layout of a key: one symbol, or a second one with a real modifier.    *)
One(s) == [uses |-> {}, sym |-> ({} :> s)]
Two(m, s, t) == [uses |-> {m}, sym |-> ({} :> s) @@ ({m} :> t)]
Shift == 1
Control == 4
Mod1 == 8
Mod5 == 128

(* q in four layouts: ASCII, a letter of another charset, one with no      *)
(* byte, and a character the console cannot have.                          *)
Letters == << Two(Shift, S("q", 113, 113), S("Q", 81, 81)),
              Two(Shift, S("aogonek", 433, 261), S("Aogonek", 417, 260)),
              Two(Shift, S("Cyrillic_shorti", 1738, 1081), S("plusminus", 177, 177)),
              Two(Shift, S("eacute", 233, 233), S("UFB01", 16841473, 64257)) >>

MCByte == (113 :> 113) @@ (81 :> 81) @@ (261 :> 177) @@ (260 :> 161) @@ (177 :> 177)
            @@ (233 :> 233) @@ (1081 :> NoByte) @@ (97 :> 97) @@ (39 :> 39) @@ (225 :> 225)

Keymap(n, opts, mod, group, shift) ==
    [n |-> n, options |-> opts, known |-> TRUE,
     layouts |-> [k \in MCKey |->
        CASE k = "shift" -> <<shift>>
          [] k = "rshift" -> <<One(Action("Shift_R"))>>
          [] k = "mod" -> mod
          [] k = "group" -> <<group>>
          [] k = "q" -> SubSeq(Letters, 1, n)],
     real |-> [k \in MCKey |->
        CASE k \in {"shift", "rshift"} -> {Shift}
          [] k = "mod" -> IF mod[1].sym[{}].name = "ISO_Level3_Shift" THEN {Mod5}
                          ELSE IF mod[1].sym[{}].name = "Control_L" THEN {Control} ELSE {Mod1}
          [] OTHER -> {}]]

Plain == One(Action("Shift_L"))
Alt == <<One(Action("Alt_L"))>>

MCKeymaps ==
    LET toggle == Two(Shift, Action("ISO_Next_Group"), Action("Caps_Lock"))
        switch == Two(Shift, Action("Mode_switch"), Action("Multi_key"))
        select == Two(Shift, Action("ISO_First_Group"), Action("ISO_Last_Group"))
        next == <<One(Action("ISO_Next_Group"))>>
    IN {Keymap(n, {}, mod, g, Plain) : n \in 1 .. 4, mod \in {Alt, <<One(Action("ISO_Level3_Shift"))>>}, g \in {toggle, switch}}
       \union {Keymap(n, {}, mod, g, Plain) : n \in {2, 3, 4}, mod \in {<<One(Action("Control_L"))>>, <<switch>>}, 
                                              g \in {select, One(Action("ISO_Prev_Group"))}}
       \union {Keymap(n, {}, next, switch, Plain) : n \in {2, 4}}
       \* a third level
       \union {[Keymap(2, {}, <<One(Action("ISO_Level3_Shift"))>>, toggle, Plain) EXCEPT !.layouts["q"] =
                    <<Two(Mod5, S("q", 113, 113), S("plusminus", 177, 177)),
                      Two(Mod5, S("aogonek", 433, 261), S("eacute", 233, 233))>>]}
       \* a modifier without a symbol on a level; grp:lalt_lshift_toggle
       \union {Keymap(2, {}, <<Two(Shift, Action("Alt_L"), NoSymbol)>>, toggle, Plain),
               Keymap(2, {}, <<Two(Shift, Action("Alt_L"), Action("ISO_Next_Group"))>>, One(Action("Caps_Lock")),
                      Two(Mod1, Action("Shift_L"), Action("ISO_Next_Group")))}
       \* a modifier with a group action that leads nowhere on another level, or with Mode_switch
       \union {Keymap(n, {}, <<Two(Shift, Action("Alt_L"), Action("ISO_Prev_Group"))>>, One(Action("Caps_Lock")), Plain) : n \in {1, 2}}
       \union {Keymap(2, {}, <<Two(Shift, Action("Mode_switch"), Action("Alt_L"))>>, toggle, Plain)}
       \* refused
       \union {Keymap(2, {"grp:shifts_toggle"}, Alt, toggle, Two(Shift, Action("Shift_L"), Action("ISO_Prev_Group"))),
               [Keymap(1, {}, Alt, toggle, Plain) EXCEPT !.known = FALSE],
               [Keymap(4, {}, Alt, toggle, Plain) EXCEPT !.n = 5]}

(* A keymap for compose: dead_acute and the apostrophe give the kernel the *)
(* same input, aogonek and plusminus the same byte.                        *)
dead_acute == S("dead_acute", 65105, 0)
apostrophe == S("apostrophe", 39, 39)
a == S("a", 97, 97)
aogonek == S("aogonek", 433, 261)
plusminus == S("plusminus", 177, 177)

ComposeKeymap ==
    [Keymap(1, {}, <<Two(Shift, aogonek, plusminus)>>, Two(Shift, dead_acute, apostrophe), Plain)
        EXCEPT !.layouts["q"] = <<Two(Shift, a, S("eacute", 233, 233))>>]

Results == {NoSymbol, S("aacute", 225, 225), S("eacute", 233, 233), S("UFB01", 16841473, 64257)}

Pairs == {<<dead_acute, a>>, <<apostrophe, a>>, <<dead_acute, aogonek>>, <<dead_acute, plusminus>>}

Compositions ==
    {{[seq |-> p, result |-> r[p]] : p \in Pairs} \union {[seq |-> <<dead_acute, a, a>>, result |-> a]} : r \in [Pairs -> Results]}

MCInputs == (MCKeymaps \X {{}}) \union ({ComposeKeymap} \X Compositions)
=============================================================================
