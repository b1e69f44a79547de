----------------------------- MODULE KeymapLoad -----------------------------
(***************************************************************************)
(* loadkeys: from the command line to the kernel's keyboard driver.        *)
(* src/src/loadkeys.c (main) reads the keyboard mode, decides on the       *)
(* flags, parses the files and calls lk_load_keymap of                     *)
(* src/src/libkeymap/loadkeys.c, which switches the keyboard to Unicode    *)
(* mode while it defines the keys, restores the mode, and then defines     *)
(* the strings and the accents.                                            *)
(*                                                                         *)
(* Each ioctl is one step, so several loadkeys processes interleave at     *)
(* their ioctls, and the console may be hung up between any two of them.   *)
(* The key tables that a process loads are the result of parsing (module   *)
(* Keymap); here they are given.                                           *)
(***************************************************************************)
EXTENDS Integers, Sequences, FiniteSets

CONSTANTS
    Proc,           \* the loadkeys processes
    Table, Key, Func,
    Contexts,       \* key tables the files of a command line may hold
    OptionSets,     \* the options given: subsets of {"u", "a", "s", "c", "p"}
    ArgLists,       \* the files given: sequences of "good", "bad", "missing"
    Code,           \* the action codes of the kernel
    Unicode,        \* those only a keyboard in Unicode mode takes
    TooLarge,       \* a number for a keysym that has more than 16 bits
    K_HOLE, NoMap,  \* VoidSymbol; a table the kernel does not have
    Empty,          \* the empty string
    KernelMaps,     \* what the kernel's tables may be at the start
    KernelStrings,  \* the kernel's strings at the start
    OldTables,      \* 16: tables of the kernels that cannot deallocate one
    MaxDiacr        \* MAX_DIACR

Modes == {"XLATE", "UNICODE"}

ASSUME LoadAssumption ==
    /\ Table \subseteq Nat /\ Key \subseteq Nat /\ Func \subseteq Nat
    /\ Key # {}
    /\ MaxDiacr \in Nat \ {0} /\ OldTables \in Nat
    /\ \A c \in Contexts : c.maps \subseteq Table /\ DOMAIN c.keys = c.maps
    /\ \A c \in Contexts : \A t \in c.maps :
           /\ DOMAIN c.keys[t] \subseteq Key
           /\ \A k \in DOMAIN c.keys[t] : c.keys[t][k] \in Code \union {TooLarge}
    /\ TooLarge \notin Code
    /\ K_HOLE \in Code /\ NoMap \notin [Key -> Code]
    /\ KernelMaps \subseteq [Table -> [Key -> Code] \union {NoMap}]
    /\ DOMAIN KernelStrings = Func
    /\ ArgLists \subseteq Seq({"good", "bad", "missing"})

VARIABLES
    mode,           \* kernel: the console's keyboard mode
    kmap,           \* kernel: the key tables
    strings,        \* kernel: the function strings
    accents,        \* kernel: the accent table
    old,            \* kernel: it has no K_NOSUCHMAP
    hung,           \* the console is hung up
    root,           \* processes with CAP_SYS_TTY_CONFIG
    pc, opt, args, ctx, flags,
    kbd_mode,       \* the mode main read
    tables,         \* tables set_keymap has not finished
    left,           \* keys, or strings, the running loop has not reached
    rc,             \* main's rc
    refused,        \* history: cells, strings whose ioctl failed
    was             \* history: the kernel's mode, tables, strings, accents at the start

kernel == <<mode, kmap, strings, accents>>
fixed == <<old, root, opt, args, ctx, was>>
vars == <<mode, kmap, strings, accents, old, hung, root, pc, opt, args, ctx, flags,
          kbd_mode, tables, left, rc, refused, was>>

First(S) == CHOOSE x \in S : \A y \in S : x <= y

-----------------------------------------------------------------------------
(* The kernel's side of the ioctls (drivers/tty/vt), as far as loadkeys    *)
(* depends on it: the error each call may give.                            *)

KDSKBMODE == IF hung THEN {"EIO"} ELSE {"ok"}

(* KDSKBENT of action code v: Unicode codes need Unicode mode, a new table *)
(* needs memory, an old kernel knows OldTables tables.                     *)
KDSKBENT(p, t, v) ==
    IF hung THEN {"EIO"}
    ELSE IF p \notin root THEN {"EPERM"}
    ELSE IF v \in Unicode /\ mode # "UNICODE" THEN {"EINVAL"}
    ELSE IF old /\ t >= OldTables THEN {"EINVAL"}
    ELSE IF kmap[t] = NoMap THEN {"ok", "ENOMEM"}
    ELSE {"ok"}

(* KDSKBENT of K_NOSUCHMAP at index 0: deallocate the table.               *)
KDSKBENT_NOSUCHMAP(p, t) ==
    IF hung THEN {"EIO"} ELSE IF p \notin root THEN {"EPERM"} ELSE IF old THEN {"EINVAL"} ELSE {"ok"}

KDSKBSENT(p) == IF hung THEN {"EIO"} ELSE IF p \notin root THEN {"EPERM"} ELSE {"ok", "ENOSPC"}

KDSKBDIACR(p) == IF hung THEN {"EIO"} ELSE IF p \notin root THEN {"EPERM"} ELSE {"ok"}

Deallocated(t) == IF t = 0 THEN kmap ELSE [kmap EXCEPT ![t] = NoMap]

Bound(t, k, v) ==
    LET now == IF kmap[t] = NoMap THEN [x \in Key |-> K_HOLE] ELSE kmap[t]
    IN [kmap EXCEPT ![t] = [now EXCEPT ![k] = v]]

-----------------------------------------------------------------------------
Init ==
    /\ mode \in Modes
    /\ old \in BOOLEAN
    /\ kmap \in {m \in KernelMaps : old => \A t \in Table : t >= OldTables => m[t] = NoMap}
    /\ strings = KernelStrings
    /\ accents = <<"narrow">>
    /\ hung = FALSE
    /\ root \in SUBSET Proc
    /\ pc = [p \in Proc |-> "start"]
    /\ opt \in [Proc -> OptionSets]
    /\ args \in [Proc -> ArgLists]
    /\ ctx \in [Proc -> Contexts]
    /\ flags = [p \in Proc |-> {}]
    /\ kbd_mode = [p \in Proc |-> "XLATE"]
    /\ tables = [p \in Proc |-> {}]
    /\ left = [p \in Proc |-> {}]
    /\ rc = [p \in Proc |-> -1]
    /\ refused = [p \in Proc |-> {}]
    /\ was = kernel

Goto(p, where) == pc' = [pc EXCEPT ![p] = where]

(* Mutant: -u only asks for the conversion.                                *)
OptionFlagsNoSwitch(o) ==
    {"clear_strings" : x \in o \intersect {"s"}} \union {"clear_compose" : x \in o \intersect {"c"}}
    \union {"prefer_unicode" : x \in o \intersect {"u"}}

(* The flags of the options, and what main makes of them on a console in   *)
(* Unicode mode.                                                           *)
OptionFlags(o) ==
    {"clear_strings" : x \in o \intersect {"s"}} \union {"clear_compose" : x \in o \intersect {"c"}}
    \union UNION {{"unicode_mode", "prefer_unicode"} : x \in o \intersect {"u"}}

Toggle(S, x) == IF x \in S THEN S \ {x} ELSE S \union {x}

FlagsFor(o, m) ==
    IF m = "UNICODE"
    THEN Toggle(OptionFlags(o) \union (IF "a" \in o THEN {} ELSE {"prefer_unicode"}), "unicode_mode")
    ELSE OptionFlags(o)

(* main: -u with -a is an error; the mode is read once.                    *)
Start(p) ==
    /\ pc[p] = "start"
    /\ IF {"u", "a"} \subseteq opt[p] \/ hung
       THEN /\ Goto(p, "exit")
            /\ UNCHANGED <<flags, kbd_mode>>
       ELSE /\ Goto(p, "files")
            /\ kbd_mode' = [kbd_mode EXCEPT ![p] = mode]
            /\ flags' = [flags EXCEPT ![p] = FlagsFor(opt[p], mode)]
    /\ left' = [left EXCEPT ![p] = DOMAIN args[p]]
    /\ UNCHANGED <<kernel, hung, tables, rc, refused, fixed>>

(* if (rc == -1) goto fail.                                                *)
AfterParse(f) == IF f = "bad" THEN "exit" ELSE "files"

(* main: the next file.  A file that is not found is a goto fail with rc   *)
(* as the files before it left it.                                         *)
ParseFile(p) ==
    /\ pc[p] = "files" /\ left[p] # {}
    /\ LET f == args[p][First(left[p])]
       IN IF f = "missing"
          THEN Goto(p, "exit") /\ UNCHANGED <<rc, left>>
          ELSE /\ rc' = [rc EXCEPT ![p] = IF f = "bad" THEN -1 ELSE 0]
               /\ Goto(p, AfterParse(f))
               /\ left' = [left EXCEPT ![p] = @ \ {First(@)}]
    /\ UNCHANGED <<kernel, hung, flags, kbd_mode, tables, refused, fixed>>

(* main: all files are parsed; with -p that was all.                       *)
EndOfFiles(p) ==
    /\ pc[p] = "files" /\ left[p] = {}
    /\ Goto(p, IF "p" \in opt[p] THEN "exit" ELSE "set_keymap")
    /\ UNCHANGED <<kernel, hung, flags, kbd_mode, tables, left, rc, refused, fixed>>

(* set_keymap: temporarily switch to K_UNICODE.                            *)
SwitchMode(p) ==
    /\ pc[p] = "set_keymap"
    /\ IF "unicode_mode" \notin flags[p]
       THEN Goto(p, "table") /\ UNCHANGED <<mode, rc>>
       ELSE \E e \in KDSKBMODE :
              IF e = "ok" THEN mode' = "UNICODE" /\ Goto(p, "table") /\ UNCHANGED rc
              ELSE rc' = [rc EXCEPT ![p] = -1] /\ Goto(p, "exit") /\ UNCHANGED mode
    /\ tables' = [tables EXCEPT ![p] = Table]
    /\ UNCHANGED <<kmap, strings, accents, hung, flags, kbd_mode, left, refused, fixed>>

(* set_keymap's loop takes the next table: set it, clear it, or leave it.  *)
NextTable(p) ==
    /\ pc[p] = "table" /\ tables[p] # {}
    /\ LET t == First(tables[p])
       IN IF t \in ctx[p].maps
          THEN /\ Goto(p, "keys")
               /\ left' = [left EXCEPT ![p] = DOMAIN ctx[p].keys[t]]
               /\ UNCHANGED tables
          ELSE IF ctx[p].keymaps
          THEN /\ Goto(p, "deallocate")
               /\ UNCHANGED <<tables, left>>
          ELSE /\ tables' = [tables EXCEPT ![p] = @ \ {t}]
               /\ UNCHANGED <<pc, left>>
    /\ UNCHANGED <<kernel, hung, flags, kbd_mode, rc, refused, fixed>>

EndTables(p) ==
    /\ pc[p] = "table" /\ tables[p] = {}
    /\ Goto(p, "restore")
    /\ UNCHANGED <<kernel, hung, flags, kbd_mode, tables, left, rc, refused, fixed>>

(* Mutant: a permission error returns from set_keymap at once.             *)
GiveUpAtOnce(p) == rc' = [rc EXCEPT ![p] = -1] /\ Goto(p, "exit")

(* The loop breaks with count = -1; the mode is still restored.            *)
GiveUp(p) == rc' = [rc EXCEPT ![p] = -1] /\ Goto(p, "restore")

(* set_keymap_table, one key: a value that is too large is skipped with a  *)
(* warning; permission and hangup end the load, any other error is         *)
(* reported and the next key is tried.                                     *)
SetKey(p) ==
    /\ pc[p] = "keys" /\ left[p] # {}
    /\ LET t == First(tables[p])
           k == First(left[p])
           v == ctx[p].keys[t][k]
       IN \/ /\ v = TooLarge
             /\ left' = [left EXCEPT ![p] = @ \ {k}]
             /\ UNCHANGED <<kmap, pc, rc, refused>>
          \/ /\ v # TooLarge
             /\ \E e \in KDSKBENT(p, t, v) :
                  /\ kmap' = IF e = "ok" THEN Bound(t, k, v) ELSE kmap
                  /\ IF e \in {"EPERM", "EIO"}
                     THEN GiveUp(p) /\ UNCHANGED <<left, refused>>
                     ELSE /\ left' = [left EXCEPT ![p] = @ \ {k}]
                          /\ refused' = IF e = "ok" THEN refused
                                        ELSE [refused EXCEPT ![p] = @ \union {<<"key", t, k>>}]
                          /\ UNCHANGED <<pc, rc>>
    /\ UNCHANGED <<mode, strings, accents, hung, flags, kbd_mode, tables, fixed>>

(* The table is done.                                                      *)
EndTable(p) ==
    /\ pc[p] \in {"keys", "by_hand"} /\ left[p] = {}
    /\ Goto(p, "table")
    /\ tables' = [tables EXCEPT ![p] = @ \ {First(@)}]
    /\ UNCHANGED <<kernel, hung, flags, kbd_mode, left, rc, refused, fixed>>

(* clear_keymap_table: deallocate; EINVAL means a kernel that cannot, and  *)
(* the table is cleared by hand.                                           *)
ClearTable(p) ==
    /\ pc[p] = "deallocate"
    /\ LET t == First(tables[p])
       IN \E e \in KDSKBENT_NOSUCHMAP(p, t) :
            /\ kmap' = IF e = "ok" THEN Deallocated(t) ELSE kmap
            /\ CASE e = "ok" ->
                      /\ Goto(p, "table")
                      /\ tables' = [tables EXCEPT ![p] = @ \ {t}]
                      /\ UNCHANGED <<left, rc>>
                 [] e = "EINVAL" ->
                      /\ Goto(p, "by_hand")
                      /\ left' = [left EXCEPT ![p] = Key]
                      /\ UNCHANGED <<tables, rc>>
                 [] OTHER -> GiveUp(p) /\ UNCHANGED <<tables, left>>
    /\ UNCHANGED <<mode, strings, accents, hung, flags, kbd_mode, refused, fixed>>

(* clear_keymap_table by hand, one key.                                    *)
ClearKey(p) ==
    /\ pc[p] = "by_hand" /\ left[p] # {}
    /\ LET t == First(tables[p])
           k == First(left[p])
       IN \E e \in KDSKBENT(p, t, K_HOLE) :
            /\ kmap' = IF e = "ok" THEN Bound(t, k, K_HOLE) ELSE kmap
            /\ CASE e = "ok" -> left' = [left EXCEPT ![p] = @ \ {k}] /\ UNCHANGED <<pc, rc>>
                 [] e = "EINVAL" /\ t >= OldTables -> left' = [left EXCEPT ![p] = {}] /\ UNCHANGED <<pc, rc>>
                 [] OTHER -> GiveUp(p) /\ UNCHANGED left
    /\ UNCHANGED <<mode, strings, accents, hung, flags, kbd_mode, tables, refused, fixed>>

(* set_keymap: back to the mode main read, whatever became of the keys.    *)
RestoreMode(p) ==
    /\ pc[p] = "restore"
    /\ \E e \in KDSKBMODE :
         LET switched == "unicode_mode" \in flags[p]
             failed == rc[p] < 0 \/ (switched /\ e # "ok")
         IN /\ mode' = IF switched /\ e = "ok" THEN kbd_mode[p] ELSE mode
            /\ rc' = IF failed THEN [rc EXCEPT ![p] = -1] ELSE rc
            /\ Goto(p, IF failed THEN "exit" ELSE "strings")
    /\ left' = [left EXCEPT ![p] = Func]
    /\ UNCHANGED <<kmap, strings, accents, hung, flags, kbd_mode, tables, refused, fixed>>

(* Mutant: -s does not reach the strings the files do not define.          *)
DefinesGivenOnly(p, f) == f \in DOMAIN ctx[p].funcs

(* The strings deffuncs makes an ioctl for.                                *)
Defines(p, f) == f \in DOMAIN ctx[p].funcs \/ "clear_strings" \in flags[p]

(* deffuncs, one string: define it, or clear it with -s; an error is       *)
(* reported and the next one is tried.                                     *)
DefFunc(p) ==
    /\ pc[p] = "strings" /\ left[p] # {}
    /\ LET f == First(left[p])
           given == f \in DOMAIN ctx[p].funcs
       IN /\ IF Defines(p, f)
             THEN \E e \in KDSKBSENT(p) :
                    /\ strings' = IF e = "ok"
                                  THEN [strings EXCEPT ![f] = IF given THEN ctx[p].funcs[f] ELSE Empty]
                                  ELSE strings
                    /\ refused' = IF e = "ok" THEN refused
                                  ELSE [refused EXCEPT ![p] = @ \union {<<"string", f>>}]
             ELSE UNCHANGED <<strings, refused>>
          /\ left' = [left EXCEPT ![p] = @ \ {f}]
    /\ UNCHANGED <<mode, kmap, accents, hung, pc, flags, kbd_mode, tables, rc, fixed>>

EndFuncs(p) ==
    /\ pc[p] = "strings" /\ left[p] = {}
    /\ Goto(p, "accents")
    /\ UNCHANGED <<kernel, hung, flags, kbd_mode, tables, left, rc, refused, fixed>>

(* defdiacs: MAX_DIACR definitions or more are cut to MAX_DIACR - 1.       *)
Loadable(a) == IF Len(a) >= MaxDiacr THEN SubSeq(a, 1, MaxDiacr - 1) ELSE a

(* lk_load_keymap: the accent table is replaced when the files define      *)
(* accents or with -c; outside Unicode a wide accent is an error.          *)
DefDiacs(p) ==
    LET a == Loadable(ctx[p].accents)
        wanted == ctx[p].accents # <<>> \/ "clear_compose" \in flags[p]
        narrow == "prefer_unicode" \in flags[p] \/ \A i \in DOMAIN a : a[i] # "wide"
    IN /\ pc[p] = "accents"
       /\ \E e \in KDSKBDIACR(p) :
            /\ accents' = IF wanted /\ narrow /\ e = "ok" THEN a ELSE accents
            /\ rc' = [rc EXCEPT ![p] = IF wanted /\ ~(narrow /\ e = "ok") THEN -1 ELSE 0]
       /\ Goto(p, "exit")
       /\ UNCHANGED <<mode, kmap, strings, hung, flags, kbd_mode, tables, left, refused, fixed>>

(* The terminal goes away.                                                 *)
HangUp ==
    /\ ~hung
    /\ \E p \in Proc : pc[p] # "exit"
    /\ hung' = TRUE
    /\ UNCHANGED <<kernel, pc, flags, kbd_mode, tables, left, rc, refused, fixed>>

Finished ==
    /\ \A p \in Proc : pc[p] = "exit"
    /\ UNCHANGED vars

Step(p) ==
    \/ Start(p) \/ ParseFile(p) \/ EndOfFiles(p)
    \/ SwitchMode(p) \/ NextTable(p) \/ EndTables(p)
    \/ SetKey(p) \/ EndTable(p) \/ ClearTable(p) \/ ClearKey(p) \/ RestoreMode(p)
    \/ DefFunc(p) \/ EndFuncs(p) \/ DefDiacs(p)

Next == (\E p \in Proc : Step(p)) \/ HangUp \/ Finished

Spec == Init /\ [][Next]_vars

-----------------------------------------------------------------------------
(* Properties                                                              *)

(* The shape of the state; in particular rc is set before it is used.      *)
TypeOK ==
    /\ mode \in Modes
    /\ \A t \in Table : kmap[t] = NoMap \/ DOMAIN kmap[t] = Key
    /\ DOMAIN strings = Func
    /\ \A p \in Proc : /\ rc[p] \in {-1, 0}
                       /\ tables[p] \subseteq Table
                       /\ pc[p] \in {"set_keymap", "table", "strings", "accents"} => rc[p] = 0

(* set_keymap switches the keyboard "temporarily": whatever fails in       *)
(* between, the program leaves the mode it found, unless the console is    *)
(* gone.                                                                   *)
ModeRestored ==
    (\A p \in Proc : pc[p] = "exit") /\ ~hung => mode = was[1]

(* A key table converted to Unicode is loaded in Unicode mode: no key of   *)
(* it is refused for the keyboard's mode, with -u and without.             *)
UnicodeTaken ==
    [][\A p \in Proc :
         (pc[p] = "keys" /\ left[p] # {} /\ "prefer_unicode" \in flags[p]) => mode = "UNICODE"]_vars

(* A key that the files do not bind is as it was; in a table that the     *)
(* load has made it is void.                                               *)
Kept(t, k) ==
    IF kmap[t] = NoMap THEN was[2][t] = NoMap
    ELSE kmap[t][k] = IF was[2][t] = NoMap THEN K_HOLE ELSE was[2][t][k]

(* The keys of the files are in the kernel, but for those whose value has  *)
(* no 16 bits, which are kept; the tables that a keymaps line leaves out   *)
(* are gone or void, and other tables are untouched.                       *)
KeysLoaded(p) ==
    \A t \in Table :
        IF t \in ctx[p].maps
        THEN \A k \in Key :
                IF k \in DOMAIN ctx[p].keys[t] /\ ctx[p].keys[t][k] # TooLarge
                THEN kmap[t] # NoMap /\ kmap[t][k] = ctx[p].keys[t][k]
                ELSE Kept(t, k)
        ELSE IF ~ctx[p].keymaps \/ (t = 0 /\ ~old) THEN kmap[t] = was[2][t]
        ELSE IF old /\ t < OldTables THEN kmap[t] = [k \in Key |-> K_HOLE]
        ELSE kmap[t] = NoMap

StringsLoaded(p) ==
    \A f \in Func : strings[f] = IF f \in DOMAIN ctx[p].funcs THEN ctx[p].funcs[f]
                                 ELSE IF "s" \in opt[p] THEN Empty
                                 ELSE was[3][f]

AccentsLoaded(p) ==
    accents = IF ctx[p].accents # <<>> \/ "c" \in opt[p] THEN Loadable(ctx[p].accents) ELSE was[4]

(* After good files comes one that is not found: goto fail with the rc of  *)
(* the file before.                                                        *)
Unfound(p) ==
    \E i \in DOMAIN args[p] : args[p][i] = "missing" /\ i > 1 /\ \A j \in 1 .. (i - 1) : args[p][j] = "good"

(* An exit with success after a load in which no ioctl was refused: the    *)
(* kernel has the keys, strings and accents of the files and the rest is   *)
(* untouched, or a file after good ones was not found.  A command line     *)
(* with a file that is not found or does not parse changes nothing.        *)
LoadedOnSuccess ==
    \A p \in Proc :
        /\ (pc[p] = "exit" /\ rc[p] = 0 /\ refused[p] = {} /\ "p" \notin opt[p]) =>
            (KeysLoaded(p) /\ StringsLoaded(p) /\ AccentsLoaded(p)) \/ Unfound(p)
        /\ (\E i \in DOMAIN args[p] : args[p][i] # "good") => kernel = was
=============================================================================
