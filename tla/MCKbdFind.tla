----------------------------- MODULE MCKbdFind -----------------------------
(***************************************************************************)
(* A small instance of KbdFind: a tree of keymaps with a directory that    *)
(* leads back to the top, and the searches of loadkeys and of an include.  *)
(***************************************************************************)
EXTENDS KbdFind

Sub(name, d) == [name |-> name, dir |-> d]

MCSubdirs ==
    [d \in Dir |->
        CASE d = "keymaps" -> <<Sub("i386", "i386"), Sub("include", "include")>>
          [] d = "i386" -> <<Sub("link", "keymaps"), Sub("qwerty", "qwerty")>>
          [] d = "cwd" -> <<Sub("qwerty", "mine")>>
          [] OTHER -> <<>>]

MCExts == << <<".gz">> >>

us == <<"us">>
map == <<".map">>
inc == <<".inc">>
gz == <<".gz">>

Keymaps ==
    {Place("keymaps", us \o map \o gz), Place("i386", us), Place("qwerty", us),
     Place("qwerty", us \o map), Place("qwerty", us \o map \o gz), Place("mine", us \o map)}
Includes == {Place("include", us), Place("qwerty", us \o inc), Place("keymaps", us), Place("cwd", us \o gz)}

KindOf(f, bad) == IF f = bad THEN "unreadable"
                  ELSE IF Len(f.name) > 1 /\ f.dir # "mine" THEN "packed" ELSE "plain"

MCFileSets ==
    {[f \in S |-> KindOf(f, bad)] :
        S \in SUBSET Keymaps \union SUBSET Includes, bad \in {Place("qwerty", us), None}}

Keymap(abs, dirs, name) ==
    [abs |-> abs, dirs |-> dirs, name |-> name, suffixes |-> << <<>>, map>>,
     calls |-> << <<Flat("cwd"), [dir |-> "keymaps", depth |-> 2]>> >>]

Include(abs, env) ==
    [abs |-> abs, dirs |-> IF abs THEN <<"i386">> ELSE <<>>, name |-> us, suffixes |-> << <<>>, inc>>,
     calls |-> IncludeCalls(abs, [env |-> env, cwdup |-> <<NoDir, NoDir>>, from |-> "qwerty",
                                  up |-> <<NoDir, "include">>, target |-> "keymaps",
                                  targetup |-> <<"include", NoDir>>, system |-> <<"include", NoDir, NoDir>>])]

MCRequests ==
    {Keymap(FALSE, <<>>, us), Keymap(FALSE, <<"qwerty">>, us), Keymap(FALSE, <<"i386", "qwerty">>, us),
     Keymap(TRUE, <<"i386", "qwerty">>, us), Keymap(FALSE, <<>>, us \o map),
     Include(FALSE, <<>>), Include(FALSE, <<Flat("i386"), Flat("")>>), Include(TRUE, <<>>)}
=============================================================================
