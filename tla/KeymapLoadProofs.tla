-------------------------- MODULE KeymapLoadProofs --------------------------
(***************************************************************************)
(* What a loadkeys that has the console to itself does to the kernel, for  *)
(* any tables, keys, strings, files and options, on kernels old and new,   *)
(* whichever ioctls fail and whenever the console goes away.               *)
(***************************************************************************)
EXTENDS KeymapLoad, WellFoundedInduction, TLAPS

(* No other loadkeys runs on the console: the keyboard mode is shared, and *)
(* two processes that switch and restore it in turns may leave it switched.*)
Alone == \E p : Proc = {p}

(* The steps of set_keymap between its two KDSKBMODE.                      *)
InSetKeymap == {"table", "keys", "deallocate", "by_hand", "restore"}

Labels == {"start", "files", "set_keymap", "strings", "accents", "exit"} \union InSetKeymap

Row == [Key -> Code] \union {NoMap}

Types ==
    /\ pc \in [Proc -> Labels]
    /\ tables \in [Proc -> SUBSET Table]
    /\ left \in [Proc -> SUBSET Nat]
    /\ rc \in [Proc -> {-1, 0}]
    /\ DOMAIN kbd_mode = Proc /\ DOMAIN flags = Proc /\ DOMAIN refused = Proc
    /\ args \in [Proc -> ArgLists] /\ ctx \in [Proc -> Contexts]
    /\ old \in BOOLEAN
    /\ kmap \in [Table -> Row]
    /\ DOMAIN strings = Func

(* The keyboard is in the mode found outside set_keymap, and inside it     *)
(* when there was no switch.                                               *)
ModeOK(p) ==
    /\ pc[p] \in {"start", "files", "set_keymap", "strings", "accents"} => mode = was[1]
    /\ (pc[p] = "exit" /\ ~hung) => mode = was[1]
    /\ pc[p] \in InSetKeymap => mode = IF "unicode_mode" \in flags[p] THEN "UNICODE" ELSE was[1]
    /\ pc[p] \notin {"start", "exit"} =>
           /\ kbd_mode[p] = was[1]
           /\ "prefer_unicode" \in flags[p] => "unicode_mode" \in flags[p] \/ was[1] = "UNICODE"
-----------------------------------------------------------------------------
(* The loops find the next table, key, string and file.                    *)
LEMMA FirstIn ==
    ASSUME NEW S, S \subseteq Nat, S # {}
    PROVE  First(S) \in S /\ \A y \in S : First(S) <= y
<1>1. PICK x \in S : \A y \in S : ~ (<<y, x>> \in OpToRel(<, Nat))
  BY NatLessThanWellFounded, WFMin
<1>2. ASSUME NEW y \in S, y < x PROVE FALSE
  <2>1. <<y, x>> \in Nat \X Nat /\ <<y, x>>[1] = y /\ <<y, x>>[2] = x
    OBVIOUS
  <2>2. <<y, x>> \in OpToRel(<, Nat)
    BY <1>2, <2>1, Zenon DEF OpToRel
  <2> QED
    BY <1>1, <2>2
<1>3. \A y \in S : x <= y
  BY <1>2
<1> QED
  BY <1>3 DEF First

(* What the kernel stores is a row of the key table.                       *)
LEMMA BoundOK ==
    ASSUME kmap \in [Table -> Row], NEW t \in Table, NEW k \in Key, NEW v \in Code
    PROVE  /\ Bound(t, k, v) \in [Table -> Row]
           /\ Bound(t, k, v)[t] \in [Key -> Code] /\ Bound(t, k, v)[t] # NoMap
           /\ Bound(t, k, v)[t][k] = v
           /\ \A j \in Key : (j # k /\ kmap[t] # NoMap) => Bound(t, k, v)[t][j] = kmap[t][j]
           /\ \A j \in Key : (j # k /\ kmap[t] = NoMap) => Bound(t, k, v)[t][j] = K_HOLE
           /\ \A u \in Table : u # t => Bound(t, k, v)[u] = kmap[u]
<1> DEFINE now == IF kmap[t] = NoMap THEN [x \in Key |-> K_HOLE] ELSE kmap[t]
           new == [now EXCEPT ![k] = v]
<1>1. /\ now \in [Key -> Code] /\ (kmap[t] # NoMap => now = kmap[t])
      /\ kmap[t] = NoMap => \A j \in Key : now[j] = K_HOLE
  BY LoadAssumption DEF Row
<1> HIDE DEF now
<1>2. new \in [Key -> Code] /\ new[k] = v /\ \A j \in Key : j # k => new[j] = now[j]
  BY <1>1
<1>3. new # NoMap
  BY <1>2, LoadAssumption
<1> HIDE DEF new
<1>4. Bound(t, k, v) = [kmap EXCEPT ![t] = new]
  BY DEF Bound, new, now
<1> QED
  BY <1>1, <1>2, <1>3, <1>4 DEF Row

LEMMA DeallocatedOK ==
    ASSUME kmap \in [Table -> Row], NEW t \in Table
    PROVE  /\ Deallocated(t) \in [Table -> Row]
           /\ Deallocated(t)[t] = IF t = 0 THEN kmap[t] ELSE NoMap
           /\ \A u \in Table : u # t => Deallocated(t)[u] = kmap[u]
BY DEF Deallocated, Row

(* What the options mean: a conversion to Unicode comes with a switch of   *)
(* the mode, or on a console in Unicode mode.                              *)
LEMMA FlagsForOK ==
    ASSUME NEW o, NEW m
    PROVE  /\ "prefer_unicode" \in FlagsFor(o, m) => "unicode_mode" \in FlagsFor(o, m) \/ m = "UNICODE"
           /\ "clear_strings" \in FlagsFor(o, m) <=> "s" \in o
           /\ "clear_compose" \in FlagsFor(o, m) <=> "c" \in o
<1>1. /\ "prefer_unicode" \in OptionFlags(o) => "unicode_mode" \in OptionFlags(o)
      /\ "clear_strings" \in OptionFlags(o) <=> "s" \in o
      /\ "clear_compose" \in OptionFlags(o) <=> "c" \in o
  BY DEF OptionFlags
<1> QED
  BY <1>1 DEF FlagsFor, Toggle
-----------------------------------------------------------------------------
(* The keys of a table and the codes they get.                             *)
LEMMA ContextOK ==
    ASSUME Types, NEW p \in Proc
    PROVE  /\ ctx[p].maps \subseteq Table
           /\ \A t \in ctx[p].maps : /\ DOMAIN ctx[p].keys[t] \subseteq Key
                                     /\ \A k \in DOMAIN ctx[p].keys[t] :
                                           ctx[p].keys[t][k] # TooLarge => ctx[p].keys[t][k] \in Code
BY LoadAssumption DEF Types

(* The file being parsed, the table and the key an ioctl is about.         *)
Working(p) ==
    /\ pc[p] = "files" => left[p] \subseteq DOMAIN args[p]
    /\ pc[p] \in {"keys", "deallocate", "by_hand"} => tables[p] # {}
    /\ pc[p] = "keys" => /\ First(tables[p]) \in ctx[p].maps
                         /\ left[p] \subseteq DOMAIN ctx[p].keys[First(tables[p])]
    /\ pc[p] \in {"deallocate", "by_hand"} => First(tables[p]) \notin ctx[p].maps /\ ctx[p].keymaps
    /\ pc[p] = "by_hand" => old /\ left[p] \subseteq Key
    /\ pc[p] = "strings" => left[p] \subseteq Func

LEMMA FirstTable ==
    ASSUME Types, NEW p \in Proc, tables[p] # {}
    PROVE  First(tables[p]) \in tables[p] /\ First(tables[p]) \in Table
<1>1. tables[p] \subseteq Table /\ tables[p] \subseteq Nat
  BY LoadAssumption DEF Types
<1> QED
  BY <1>1, FirstIn

LEMMA FirstLeft ==
    ASSUME Types, NEW p \in Proc, left[p] # {}
    PROVE  First(left[p]) \in left[p] /\ \A y \in left[p] : First(left[p]) <= y
<1>1. left[p] \subseteq Nat
  BY DEF Types
<1> QED
  BY <1>1, FirstIn

LEMMA TypesStep ==
    ASSUME Types, NEW p \in Proc, Working(p), Step(p)
    PROVE  Types'
<1> USE DEF fixed, kernel, Goto, Labels, InSetKeymap
<1>0. Key \subseteq Nat /\ Func \subseteq Nat /\ DOMAIN args[p] \subseteq Nat /\ K_HOLE \in Code
  BY LoadAssumption DEF Types
<1>1. CASE Start(p)
  BY <1>0, <1>1 DEF Types, Start
<1>2. CASE ParseFile(p)
  BY <1>0, <1>2 DEF Types, ParseFile, AfterParse
<1>3. CASE EndOfFiles(p)
  BY <1>0, <1>3 DEF Types, EndOfFiles
<1>4. CASE SwitchMode(p)
  BY <1>0, <1>4 DEF Types, SwitchMode
<1>5. CASE NextTable(p)
  <2>1. First(tables[p]) \in ctx[p].maps => DOMAIN ctx[p].keys[First(tables[p])] \subseteq Nat
    BY <1>0, ContextOK
  <2> QED
    BY <1>0, <1>5, <2>1 DEF Types, NextTable
<1>6. CASE EndTables(p)
  BY <1>0, <1>6 DEF Types, EndTables
<1>7. CASE SetKey(p)
  <2> DEFINE t == First(tables[p])
             k == First(left[p])
             v == ctx[p].keys[t][k]
  <2>1. t \in Table
    BY <1>7, FirstTable DEF SetKey, Working
  <2>2. k \in left[p]
    BY <1>7, FirstLeft DEF SetKey
  <2>3. k \in Key /\ (v # TooLarge => v \in Code)
    BY <1>0, <1>7, <2>2, ContextOK DEF SetKey, Working
  <2> HIDE DEF t, k, v
  <2>4. v # TooLarge => Bound(t, k, v) \in [Table -> Row]
    BY <2>1, <2>3, BoundOK DEF Types
  <2>5. kmap' = kmap \/ (v # TooLarge /\ kmap' = Bound(t, k, v))
    BY <1>7 DEF SetKey, t, k, v
  <2>6. kmap' \in [Table -> Row]
    BY <2>4, <2>5 DEF Types
  <2> QED
    BY <1>7, <2>6 DEF Types, SetKey, GiveUp
<1>8. CASE EndTable(p)
  BY <1>0, <1>8 DEF Types, EndTable
<1>9. CASE ClearTable(p)
  <2>1. First(tables[p]) \in Table
    BY <1>9, FirstTable DEF ClearTable, Working
  <2>2. kmap' = kmap \/ kmap' = Deallocated(First(tables[p]))
    BY <1>9 DEF ClearTable
  <2>3. kmap' \in [Table -> Row]
    BY <2>1, <2>2, DeallocatedOK DEF Types
  <2> QED
    BY <1>0, <1>9, <2>3 DEF Types, ClearTable, GiveUp
<1>10. CASE ClearKey(p)
  <2> DEFINE t == First(tables[p])
             k == First(left[p])
             v == K_HOLE
  <2>1. t \in Table
    BY <1>10, FirstTable DEF ClearKey, Working
  <2>2. k \in left[p]
    BY <1>10, FirstLeft DEF ClearKey
  <2>3. k \in Key /\ v \in Code
    BY <1>0, <1>10, <2>2, ContextOK DEF ClearKey, Working
  <2> HIDE DEF t, k, v
  <2>4. Bound(t, k, v) \in [Table -> Row]
    BY <2>1, <2>3, BoundOK DEF Types
  <2>5. kmap' = kmap \/ kmap' = Bound(t, k, v)
    BY <1>10 DEF ClearKey, t, k, v
  <2>6. kmap' \in [Table -> Row]
    BY <2>4, <2>5 DEF Types
  <2> QED
    BY <1>10, <2>6 DEF Types, ClearKey, GiveUp
<1>11. CASE RestoreMode(p)
  BY <1>0, <1>11 DEF Types, RestoreMode
<1>12. CASE DefFunc(p)
  BY <1>0, <1>12 DEF Types, DefFunc
<1>13. CASE EndFuncs(p)
  BY <1>0, <1>13 DEF Types, EndFuncs
<1>14. CASE DefDiacs(p)
  BY <1>0, <1>14 DEF Types, DefDiacs
<1> QED
  BY <1>1, <1>2, <1>3, <1>4, <1>5, <1>6, <1>7, <1>8, <1>9, <1>10, <1>11, <1>12, <1>13, <1>14 DEF Step

LEMMA WorkingStep ==
    ASSUME Types, NEW p \in Proc, Working(p), Step(p)
    PROVE  Working(p)'
<1> USE DEF fixed, kernel, Goto, Labels, InSetKeymap, Types
<1>1. CASE Start(p)
  BY <1>1 DEF Working, Start
<1>2. CASE ParseFile(p)
  BY <1>2 DEF Working, ParseFile, AfterParse
<1>3. CASE EndOfFiles(p)
  BY <1>3 DEF Working, EndOfFiles
<1>4. CASE SwitchMode(p)
  BY <1>4 DEF Working, SwitchMode
<1>5. CASE NextTable(p)
  BY <1>5 DEF Working, NextTable
<1>6. CASE EndTables(p)
  BY <1>6 DEF Working, EndTables
<1>7. CASE SetKey(p)
  BY <1>7 DEF Working, SetKey, GiveUp
<1>8. CASE EndTable(p)
  BY <1>8 DEF Working, EndTable
<1>9. CASE ClearTable(p)
  BY <1>9 DEF Working, ClearTable, GiveUp, KDSKBENT_NOSUCHMAP
<1>10. CASE ClearKey(p)
  BY <1>10 DEF Working, ClearKey, GiveUp
<1>11. CASE RestoreMode(p)
  BY <1>11 DEF Working, RestoreMode
<1>12. CASE DefFunc(p)
  BY <1>12 DEF Working, DefFunc
<1>13. CASE EndFuncs(p)
  BY <1>13 DEF Working, EndFuncs
<1>14. CASE DefDiacs(p)
  BY <1>14 DEF Working, DefDiacs
<1> QED
  BY <1>1, <1>2, <1>3, <1>4, <1>5, <1>6, <1>7, <1>8, <1>9, <1>10, <1>11, <1>12, <1>13, <1>14 DEF Step

(* One process alone: the mode it set is the mode it finds.                *)
LEMMA ModeStep ==
    ASSUME Types, NEW p \in Proc, ModeOK(p), Step(p)
    PROVE  ModeOK(p)'
<1> USE DEF fixed, kernel, Goto, Labels, InSetKeymap, Types
<1>1. CASE Start(p)
  <2>1. CASE pc'[p] = "exit"
    BY <1>1, <2>1 DEF ModeOK, Start
  <2>2. CASE pc'[p] # "exit"
    <3>1. pc'[p] = "files" /\ kbd_mode'[p] = mode /\ flags'[p] = FlagsFor(opt[p], mode) /\ pc[p] = "start"
      BY <1>1, <2>2 DEF Start
    <3>2. "prefer_unicode" \in FlagsFor(opt[p], mode) =>
             "unicode_mode" \in FlagsFor(opt[p], mode) \/ mode = "UNICODE"
      BY FlagsForOK
    <3> QED
      BY <1>1, <3>1, <3>2 DEF ModeOK, Start
  <2> QED
    BY <2>1, <2>2
<1>2. CASE ParseFile(p)
  BY <1>2 DEF ModeOK, ParseFile, AfterParse
<1>3. CASE EndOfFiles(p)
  BY <1>3 DEF ModeOK, EndOfFiles
<1>4. CASE SwitchMode(p)
  BY <1>4 DEF ModeOK, SwitchMode, KDSKBMODE
<1>5. CASE NextTable(p)
  BY <1>5 DEF ModeOK, NextTable
<1>6. CASE EndTables(p)
  BY <1>6 DEF ModeOK, EndTables
<1>7. CASE SetKey(p)
  BY <1>7 DEF ModeOK, SetKey, GiveUp
<1>8. CASE EndTable(p)
  BY <1>8 DEF ModeOK, EndTable
<1>9. CASE ClearTable(p)
  BY <1>9 DEF ModeOK, ClearTable, GiveUp, KDSKBENT_NOSUCHMAP
<1>10. CASE ClearKey(p)
  BY <1>10 DEF ModeOK, ClearKey, GiveUp
<1>11. CASE RestoreMode(p)
  BY <1>11 DEF ModeOK, RestoreMode, KDSKBMODE
<1>12. CASE DefFunc(p)
  BY <1>12 DEF ModeOK, DefFunc
<1>13. CASE EndFuncs(p)
  BY <1>13 DEF ModeOK, EndFuncs
<1>14. CASE DefDiacs(p)
  BY <1>14 DEF ModeOK, DefDiacs
<1> QED
  BY <1>1, <1>2, <1>3, <1>4, <1>5, <1>6, <1>7, <1>8, <1>9, <1>10, <1>11, <1>12, <1>13, <1>14 DEF Step

ModeInv == Types /\ \A p \in Proc : Working(p) /\ ModeOK(p)

LEMMA InitMode == Init => ModeInv
<1> SUFFICES ASSUME Init PROVE ModeInv
  OBVIOUS
<1>1. Types
  BY LoadAssumption DEF Init, Types, Row, Labels
<1>2. ASSUME NEW p \in Proc PROVE Working(p) /\ ModeOK(p)
  <2>1. pc[p] = "start" /\ mode = was[1]
    BY DEF Init, kernel
  <2> QED
    BY <2>1 DEF Working, ModeOK, InSetKeymap
<1> QED
  BY <1>1, <1>2 DEF ModeInv

LEMMA NextMode == Alone /\ ModeInv /\ [Next]_vars => ModeInv'
<1> SUFFICES ASSUME Alone, ModeInv, [Next]_vars PROVE ModeInv'
  OBVIOUS
<1>1. ASSUME NEW p \in Proc, Step(p) PROVE ModeInv'
  <2>1. Types /\ Working(p) /\ ModeOK(p)
    BY DEF ModeInv
  <2>2. Types'
    BY <1>1, <2>1, TypesStep
  <2>3. Working(p)' /\ ModeOK(p)'
    BY <1>1, <2>1, WorkingStep, ModeStep
  <2>4. Proc = {p}
    BY DEF Alone
  <2> QED
    BY <2>2, <2>3, <2>4 DEF ModeInv
<1>2. CASE HangUp
  BY <1>2 DEF ModeInv, Types, Working, ModeOK, HangUp, fixed, kernel
<1>3. CASE UNCHANGED vars
  BY <1>3 DEF ModeInv, Types, Working, ModeOK, vars
<1> QED
  BY <1>1, <1>2, <1>3 DEF Next, Finished

(* set_keymap switches the keyboard "temporarily" (ModeRestored): whatever *)
(* ioctl fails, a loadkeys alone on the console leaves the mode it found   *)
(* unless the console is gone.                                             *)
THEOREM ModeIsRestored == Alone => (Spec => []ModeRestored)
<1> SUFFICES ASSUME Alone PROVE Spec => []ModeRestored
  OBVIOUS
<1>1. ModeInv /\ [Next]_vars => ModeInv'
  BY NextMode
<1>2. ModeInv => ModeRestored
  BY DEF ModeInv, ModeOK, ModeRestored, Alone
<1> QED
  BY InitMode, <1>1, <1>2, PTL DEF Spec

(* No key of a table converted to Unicode is offered to a keyboard that is *)
(* not in Unicode mode (UnicodeTaken), whatever flags main has toggled.    *)
THEOREM UnicodeIsTaken == Alone => (Spec => UnicodeTaken)
<1> SUFFICES ASSUME Alone PROVE Spec => UnicodeTaken
  OBVIOUS
<1> DEFINE Taken == \A p \in Proc :
             (pc[p] = "keys" /\ left[p] # {} /\ "prefer_unicode" \in flags[p]) => mode = "UNICODE"
<1>1. ModeInv /\ [Next]_vars => ModeInv'
  BY NextMode
<1>2. ModeInv => Taken
  BY DEF ModeInv, ModeOK, InSetKeymap
<1> HIDE DEF Taken
<1>3. ModeInv /\ [Next]_vars => [Taken]_vars
  BY <1>2
<1>4. Spec => [][Taken]_vars
  BY InitMode, <1>1, <1>3, PTL DEF Spec
<1> QED
  BY <1>4 DEF UnicodeTaken, Taken
-----------------------------------------------------------------------------
(* What the files, the options and the tables of one process promise.      *)

AllGood(p) == \A i \in DOMAIN args[p] : args[p][i] = "good"

(* One key and one table of KeysLoaded, one string of StringsLoaded.       *)
CellLoaded(p, t, k) ==
    IF k \in DOMAIN ctx[p].keys[t] /\ ctx[p].keys[t][k] # TooLarge
    THEN kmap[t] # NoMap /\ kmap[t][k] = ctx[p].keys[t][k]
    ELSE Kept(t, k)

TableLoaded(p, t) ==
    IF t \in ctx[p].maps
    THEN \A k \in Key : CellLoaded(p, t, k)
    ELSE IF ~ctx[p].keymaps \/ (t = 0 /\ ~old) THEN kmap[t] = was[2][t]
    ELSE IF old /\ t < OldTables THEN kmap[t] = [k \in Key |-> K_HOLE]
    ELSE kmap[t] = NoMap

StringLoaded(p, f) ==
    strings[f] = IF f \in DOMAIN ctx[p].funcs THEN ctx[p].funcs[f]
                 ELSE IF "s" \in opt[p] THEN Empty
                 ELSE was[3][f]

(* Nothing is written before every file has parsed.                        *)
FilesOK(p) ==
    /\ pc[p] \in {"start", "files", "set_keymap"} => kernel = was
    /\ pc[p] = "start" => rc[p] = -1
    /\ pc[p] = "files" => /\ \A i \in DOMAIN args[p] \ left[p] : args[p][i] = "good"
                          /\ rc[p] = 0 => 1 \notin left[p]
    /\ pc[p] \notin {"start", "files", "exit"} => AllGood(p)
    /\ pc[p] = "exit" => kernel = was \/ AllGood(p)
    /\ pc[p] \notin {"start", "exit"} =>
           /\ "clear_strings" \in flags[p] <=> "s" \in opt[p]
           /\ "clear_compose" \in flags[p] <=> "c" \in opt[p]

(* The loop over the tables: done, being written, not reached.             *)
TablesOK(p) ==
    /\ pc[p] \in {"table", "keys", "deallocate", "by_hand"} =>
           /\ refused[p] = {} => \A t \in Table \ tables[p] : TableLoaded(p, t)
           /\ \A t \in tables[p] :
                 (pc[p] \in {"table", "deallocate"} \/ t # First(tables[p])) => kmap[t] = was[2][t]
    /\ (pc[p] = "keys" /\ refused[p] = {}) =>
           LET t == First(tables[p])
           IN \A k \in Key : IF k \in left[p] THEN Kept(t, k) ELSE CellLoaded(p, t, k)
    /\ pc[p] = "by_hand" =>
           LET t == First(tables[p])
           IN t < OldTables => \/ left[p] = Key
                               \/ kmap[t] # NoMap /\ \A k \in Key \ left[p] : kmap[t][k] = K_HOLE
    /\ (pc[p] = "restore" /\ rc[p] = 0 /\ refused[p] = {}) => KeysLoaded(p)
    /\ (pc[p] \in {"strings", "accents"} /\ refused[p] = {}) => KeysLoaded(p)

(* A kernel that knows OldTables tables has no other.                      *)
OldKernel == old => \A t \in Table : t >= OldTables => kmap[t] = NoMap

(* The strings and the accents, in their turn.                             *)
StringsOK(p) ==
    /\ pc[p] \in InSetKeymap => strings = was[3]
    /\ pc[p] = "strings" =>
           /\ \A f \in left[p] : strings[f] = was[3][f]
           /\ refused[p] = {} => \A f \in Func \ left[p] : StringLoaded(p, f)
    /\ (pc[p] = "accents" /\ refused[p] = {}) => StringsLoaded(p)
    /\ pc[p] \in InSetKeymap \union {"strings", "accents"} => accents = was[4]

(* What an exit with success has done.                                     *)
Success(p) ==
    (pc[p] = "exit" /\ rc[p] = 0 /\ refused[p] = {} /\ "p" \notin opt[p]) =>
        (KeysLoaded(p) /\ StringsLoaded(p) /\ AccentsLoaded(p)) \/ Unfound(p)

LoadOK(p) == Types /\ Working(p) /\ OldKernel /\ FilesOK(p) /\ TablesOK(p) /\ StringsOK(p) /\ Success(p)

LoadInv == \A p \in Proc : LoadOK(p)

LEMMA OldKernelStep ==
    ASSUME NEW p \in Proc, Types, Working(p), OldKernel, Step(p)
    PROVE  OldKernel'
<1> USE DEF fixed, kernel, Goto, Labels, InSetKeymap, Types
<1>1. CASE Start(p)
  BY <1>1 DEF OldKernel, Start
<1>2. CASE ParseFile(p)
  BY <1>2 DEF OldKernel, ParseFile, AfterParse
<1>3. CASE EndOfFiles(p)
  BY <1>3 DEF OldKernel, EndOfFiles
<1>4. CASE SwitchMode(p)
  BY <1>4 DEF OldKernel, SwitchMode, KDSKBMODE
<1>5. CASE NextTable(p)
  BY <1>5 DEF OldKernel, NextTable
<1>6. CASE EndTables(p)
  BY <1>6 DEF OldKernel, EndTables
<1>7. CASE SetKey(p)
  <2> DEFINE t == First(tables[p])
             k == First(left[p])
             v == ctx[p].keys[t][k]
  <2>1. t \in Table /\ k \in Key /\ (v # TooLarge => v \in Code)
    BY <1>7, FirstTable, FirstLeft, ContextOK DEF SetKey, Working
  <2> HIDE DEF t, k, v
  <2>2. kmap' = kmap \/ (v # TooLarge /\ kmap' = Bound(t, k, v) /\ ~(old /\ t >= OldTables))
    BY <1>7 DEF SetKey, KDSKBENT, t, k, v
  <2>3. v # TooLarge => \A u \in Table : u # t => Bound(t, k, v)[u] = kmap[u]
    BY <2>1, BoundOK
  <2> QED
    BY <1>7, <2>1, <2>2, <2>3 DEF OldKernel, SetKey
<1>8. CASE EndTable(p)
  BY <1>8 DEF OldKernel, EndTable
<1>9. CASE ClearTable(p)
  <2>1. kmap' = kmap \/ ~old
    BY <1>9 DEF ClearTable, KDSKBENT_NOSUCHMAP
  <2> QED
    BY <1>9, <2>1 DEF OldKernel, ClearTable
<1>10. CASE ClearKey(p)
  <2> DEFINE t == First(tables[p])
             k == First(left[p])
  <2>1. t \in Table /\ k \in Key /\ K_HOLE \in Code
    BY <1>10, FirstTable, FirstLeft, LoadAssumption DEF ClearKey, Working
  <2> HIDE DEF t, k
  <2>2. kmap' = kmap \/ (kmap' = Bound(t, k, K_HOLE) /\ ~(old /\ t >= OldTables))
    BY <1>10 DEF ClearKey, KDSKBENT, t, k
  <2>3. \A u \in Table : u # t => Bound(t, k, K_HOLE)[u] = kmap[u]
    BY <2>1, BoundOK
  <2> QED
    BY <1>10, <2>1, <2>2, <2>3 DEF OldKernel, ClearKey
<1>11. CASE RestoreMode(p)
  BY <1>11 DEF OldKernel, RestoreMode, KDSKBMODE
<1>12. CASE DefFunc(p)
  BY <1>12 DEF OldKernel, DefFunc
<1>13. CASE EndFuncs(p)
  BY <1>13 DEF OldKernel, EndFuncs
<1>14. CASE DefDiacs(p)
  BY <1>14 DEF OldKernel, DefDiacs
<1> QED
  BY <1>1, <1>2, <1>3, <1>4, <1>5, <1>6, <1>7, <1>8, <1>9, <1>10, <1>11, <1>12, <1>13, <1>14 DEF Step

(* A command line with a file that does not parse writes nothing.          *)
LEMMA FilesStep ==
    ASSUME NEW p \in Proc, Types, Working(p), FilesOK(p), Step(p)
    PROVE  FilesOK(p)'
<1> USE DEF fixed, kernel, Goto, Labels, InSetKeymap, Types
<1>1. CASE Start(p)
  <2>1. /\ "clear_strings" \in FlagsFor(opt[p], mode) <=> "s" \in opt[p]
        /\ "clear_compose" \in FlagsFor(opt[p], mode) <=> "c" \in opt[p]
    BY FlagsForOK
  <2> QED
    BY <1>1, <2>1 DEF FilesOK, AllGood, Start
<1>2. CASE ParseFile(p)
  <2>1. First(left[p]) \in left[p] /\ \A y \in left[p] : First(left[p]) <= y
    BY <1>2, FirstLeft DEF ParseFile
  <2> DEFINE f == args[p][First(left[p])]
  <2>2. args[p] \in Seq({"good", "bad", "missing"})
    BY LoadAssumption
  <2>3. f \in {"good", "bad", "missing"}
    BY <1>2, <2>1, <2>2 DEF Working, ParseFile
  <2> HIDE DEF f
  <2>4. CASE f = "missing"
    BY <1>2, <2>4 DEF FilesOK, ParseFile, f
  <2>5. CASE f = "bad"
    BY <1>2, <2>5 DEF FilesOK, ParseFile, AfterParse, f
  <2>6. CASE f = "good"
    <3>1. DOMAIN args[p] = 1 .. Len(args[p]) /\ Len(args[p]) \in Nat
      BY <2>2
    <3>2. First(left[p]) \in 1 .. Len(args[p])
      BY <1>2, <2>1, <3>1 DEF Working, ParseFile
    <3>3. 1 \in left[p] => First(left[p]) = 1
      BY <2>1, <3>1, <3>2
    <3>4. 1 \notin left'[p]
      BY <1>2, <2>6, <3>3 DEF ParseFile, f
    <3> QED
      BY <1>2, <2>1, <2>6, <3>4 DEF FilesOK, AllGood, ParseFile, AfterParse, f
  <2> QED
    BY <2>3, <2>4, <2>5, <2>6
<1>3. CASE EndOfFiles(p)
  BY <1>3 DEF FilesOK, AllGood, EndOfFiles
<1>4. CASE SwitchMode(p)
  BY <1>4 DEF FilesOK, AllGood, SwitchMode, KDSKBMODE
<1>5. CASE NextTable(p)
  BY <1>5 DEF FilesOK, AllGood, NextTable
<1>6. CASE EndTables(p)
  BY <1>6 DEF FilesOK, AllGood, EndTables
<1>7. CASE SetKey(p)
  BY <1>7 DEF FilesOK, AllGood, SetKey, GiveUp
<1>8. CASE EndTable(p)
  BY <1>8 DEF FilesOK, AllGood, EndTable
<1>9. CASE ClearTable(p)
  BY <1>9 DEF FilesOK, AllGood, ClearTable, GiveUp
<1>10. CASE ClearKey(p)
  BY <1>10 DEF FilesOK, AllGood, ClearKey, GiveUp
<1>11. CASE RestoreMode(p)
  BY <1>11 DEF FilesOK, AllGood, RestoreMode, KDSKBMODE
<1>12. CASE DefFunc(p)
  BY <1>12 DEF FilesOK, AllGood, DefFunc
<1>13. CASE EndFuncs(p)
  BY <1>13 DEF FilesOK, AllGood, EndFuncs
<1>14. CASE DefDiacs(p)
  BY <1>14 DEF FilesOK, AllGood, DefDiacs
<1> QED
  BY <1>1, <1>2, <1>3, <1>4, <1>5, <1>6, <1>7, <1>8, <1>9, <1>10, <1>11, <1>12, <1>13, <1>14 DEF Step

LEMMA KeysAreTables ==
    ASSUME NEW p
    PROVE  KeysLoaded(p) <=> \A t \in Table : TableLoaded(p, t)
BY DEF KeysLoaded, TableLoaded, CellLoaded

LEMMA TableFrame ==
    ASSUME NEW p, NEW t, TableLoaded(p, t), kmap'[t] = kmap[t], UNCHANGED <<ctx, old, was>>
    PROVE  TableLoaded(p, t)'
BY DEF TableLoaded, CellLoaded, Kept

LEMMA KeysFrame ==
    ASSUME NEW p, KeysLoaded(p), UNCHANGED <<kmap, ctx, old, was>>
    PROVE  KeysLoaded(p)'
BY DEF KeysLoaded, Kept

(* The table set_keymap starts with, the end of its loop, and a table that *)
(* no line names.                                                          *)
LEMMA SwitchModeTables ==
    ASSUME Types, NEW p \in Proc, FilesOK(p), SwitchMode(p)
    PROVE  TablesOK(p)'
<1> USE DEF fixed, kernel, Goto, Labels, InSetKeymap, Types
<1>1. kmap = was[2] /\ kmap' = kmap /\ was' = was /\ pc'[p] \in {"table", "exit"} /\ tables'[p] = Table
  BY DEF SwitchMode, FilesOK, KDSKBMODE
<1> QED
  BY <1>1 DEF TablesOK

LEMMA NextTableTables ==
    ASSUME Types, NEW p \in Proc, TablesOK(p), NextTable(p)
    PROVE  TablesOK(p)'
<1> USE DEF fixed, kernel, Goto, Labels, InSetKeymap, Types
<1> DEFINE t == First(tables[p])
<1>1. t \in tables[p] /\ t \in Table
  BY FirstTable DEF NextTable
<1>2. pc[p] = "table" /\ UNCHANGED <<kmap, refused, ctx, old, was>>
  BY DEF NextTable
<1>3. \A u \in tables[p] : kmap[u] = was[2][u]
  BY <1>2 DEF TablesOK
<1>4. refused[p] = {} => \A u \in Table \ tables[p] : TableLoaded(p, u) /\ TableLoaded(p, u)'
  <2>1. refused[p] = {} => \A u \in Table \ tables[p] : TableLoaded(p, u)
    BY <1>2 DEF TablesOK
  <2> QED
    BY <1>2, <2>1, TableFrame
<1> HIDE DEF t
<1>5. CASE t \in ctx[p].maps
  <2>1. pc'[p] = "keys" /\ left'[p] = DOMAIN ctx[p].keys[t] /\ tables' = tables
    BY <1>5 DEF NextTable, t
  <2>2. PICK u : u = t
    OBVIOUS
  <2>3. \A k \in Key : Kept(u, k)'
    BY <1>1, <1>2, <1>3, <2>2 DEF Kept
  <2>4. \A k \in Key : IF k \in left'[p] THEN Kept(u, k)' ELSE CellLoaded(p, u, k)'
    BY <1>2, <2>1, <2>2, <2>3 DEF CellLoaded
  <2>5. First(tables'[p]) = u
    BY <2>1, <2>2 DEF t
  <2> QED
    BY <1>2, <1>3, <1>4, <2>1, <2>4, <2>5 DEF TablesOK, t
<1>6. CASE t \notin ctx[p].maps /\ ctx[p].keymaps
  <2>1. pc'[p] = "deallocate" /\ tables' = tables
    BY <1>6 DEF NextTable, t
  <2> QED
    BY <1>2, <1>3, <1>4, <2>1 DEF TablesOK
<1>7. CASE t \notin ctx[p].maps /\ ~ctx[p].keymaps
  <2>1. pc'[p] = "table" /\ tables'[p] = tables[p] \ {t}
    BY <1>2, <1>7 DEF NextTable, t
  <2>2. ASSUME NEW u \in Table, u = t PROVE TableLoaded(p, u)'
    BY <1>1, <1>2, <1>3, <1>7, <2>2 DEF TableLoaded
  <2>3. refused'[p] = {} => \A u \in Table \ tables'[p] : TableLoaded(p, u)'
    BY <1>1, <1>2, <1>4, <2>1, <2>2
  <2>4. \A u \in tables'[p] : kmap'[u] = was'[2][u]
    BY <1>2, <1>3, <2>1
  <2> QED
    BY <2>1, <2>3, <2>4 DEF TablesOK
<1> QED
  BY <1>5, <1>6, <1>7

LEMMA EndTablesTables ==
    ASSUME Types, NEW p \in Proc, TablesOK(p), EndTables(p)
    PROVE  TablesOK(p)'
<1> USE DEF fixed, kernel, Goto, Labels, InSetKeymap, Types
<1>1. /\ pc[p] = "table" /\ tables[p] = {} /\ pc'[p] = "restore"
      /\ UNCHANGED <<kmap, refused, ctx, old, was>>
  BY DEF EndTables
<1>2. refused[p] = {} => \A t \in Table : TableLoaded(p, t)
  BY <1>1 DEF TablesOK
<1>3. refused[p] = {} => KeysLoaded(p)'
  BY <1>1, <1>2, KeysAreTables, KeysFrame
<1> QED
  BY <1>1, <1>3 DEF TablesOK

(* One key of a table: bound as the files say, skipped, or refused.        *)
LEMMA SetKeyTables ==
    ASSUME Types, NEW p \in Proc, Working(p), TablesOK(p), SetKey(p)
    PROVE  TablesOK(p)'
<1> USE DEF fixed, kernel, Goto, Labels, InSetKeymap, Types
<1>t. PICK t : t = First(tables[p])
  OBVIOUS
<1>k. PICK k : k = First(left[p])
  OBVIOUS
<1>v. PICK v : v = ctx[p].keys[t][k]
  OBVIOUS
<1> USE <1>t, <1>k, <1>v
<1>1. t \in Table /\ t \in ctx[p].maps /\ k \in left[p] /\ k \in DOMAIN ctx[p].keys[t]
  BY FirstTable, FirstLeft DEF SetKey, Working
<1>2. k \in Key /\ (v # TooLarge => v \in Code) /\ DOMAIN ctx[p].keys[t] \subseteq Key
  BY <1>1, ContextOK
<1>3. pc[p] = "keys" /\ UNCHANGED <<ctx, old, was, tables>>
  BY DEF SetKey
<1>4. refused[p] = {} => \A j \in Key : IF j \in left[p] THEN Kept(t, j) ELSE CellLoaded(p, t, j)
  BY <1>3 DEF TablesOK
<1>5. \A u \in tables[p] : u # t => kmap[u] = was[2][u]
  BY <1>3 DEF TablesOK
<1>6. ASSUME refused[p] = {}, NEW u \in Table \ tables[p] PROVE u # t /\ TableLoaded(p, u)
  BY <1>3, <1>6, FirstTable DEF TablesOK, Working
<1>7. CASE v = TooLarge
  <2>1. pc'[p] = "keys" /\ left'[p] = left[p] \ {k} /\ UNCHANGED <<kmap, refused>>
    BY <1>3, <1>7 DEF SetKey
  <2>2. ASSUME NEW j \in Key, Kept(t, j) PROVE Kept(t, j)'
    BY <1>3, <2>1, <2>2 DEF Kept
  <2>3. ASSUME NEW j \in Key, CellLoaded(p, t, j) PROVE CellLoaded(p, t, j)'
    BY <1>3, <2>1, <2>3 DEF Kept, CellLoaded
  <2>4. ASSUME refused'[p] = {}, NEW j \in Key
        PROVE  IF j \in left'[p] THEN Kept(t, j)' ELSE CellLoaded(p, t, j)'
    <3>1. CASE j = k
      <4>1. CellLoaded(p, t, j)
        BY <1>1, <1>4, <1>7, <2>1, <2>4, <3>1 DEF CellLoaded
      <4> QED
        BY <2>1, <2>3, <3>1, <4>1
    <3>2. CASE j # k /\ j \in left[p]
      BY <1>4, <2>1, <2>2, <2>4, <3>2
    <3>3. CASE j # k /\ j \notin left[p]
      BY <1>4, <2>1, <2>3, <2>4, <3>3
    <3> QED
      BY <3>1, <3>2, <3>3
  <2>5. ASSUME refused'[p] = {}, NEW u \in Table \ tables'[p] PROVE TableLoaded(p, u)'
    BY <1>3, <1>6, <2>1, <2>5, TableFrame
  <2>6. First(tables'[p]) = t
    BY <1>3
  <2> QED
    BY <1>3, <1>5, <2>1, <2>4, <2>5, <2>6 DEF TablesOK
<1>8. CASE v # TooLarge
  <2>1. PICK e \in KDSKBENT(p, t, v) :
          /\ kmap' = IF e = "ok" THEN Bound(t, k, v) ELSE kmap
          /\ IF e \in {"EPERM", "EIO"}
             THEN GiveUp(p) /\ UNCHANGED <<left, refused>>
             ELSE /\ left' = [left EXCEPT ![p] = @ \ {k}]
                  /\ refused' = IF e = "ok" THEN refused
                                ELSE [refused EXCEPT ![p] = @ \union {<<"key", t, k>>}]
                  /\ UNCHANGED <<pc, rc>>
    BY <1>8 DEF SetKey
  <2>2. /\ Bound(t, k, v)[t] # NoMap /\ Bound(t, k, v)[t][k] = v
        /\ \A j \in Key : (j # k /\ kmap[t] # NoMap) => Bound(t, k, v)[t][j] = kmap[t][j]
        /\ \A j \in Key : (j # k /\ kmap[t] = NoMap) => Bound(t, k, v)[t][j] = K_HOLE
        /\ \A u \in Table : u # t => Bound(t, k, v)[u] = kmap[u]
    BY <1>1, <1>2, <1>8, BoundOK
  <2>3. CASE e \in {"EPERM", "EIO"}
    <3>1. pc'[p] = "restore" /\ rc'[p] = -1
      BY <2>1, <2>3 DEF GiveUp
    <3> QED
      BY <3>1 DEF TablesOK
  <2>4. CASE e \notin {"EPERM", "EIO"}
    <3>1. pc'[p] = "keys" /\ left'[p] = left[p] \ {k}
      BY <1>3, <2>1, <2>4
    <3>2. \A u \in Table : u # t => kmap'[u] = kmap[u]
      BY <2>1, <2>2
    <3>3. First(tables'[p]) = t /\ \A u \in tables'[p] : u # t => kmap'[u] = was'[2][u]
      BY <1>3, <1>5, <3>2
    <3>4. ASSUME refused'[p] = {} PROVE e = "ok" /\ refused[p] = {} /\ kmap' = Bound(t, k, v)
      <4>1. e # "ok" => refused'[p] = refused[p] \union {<<"key", t, k>>}
        BY <2>1, <2>4
      <4> QED
        BY <2>1, <2>4, <3>4, <4>1
    <3>5. ASSUME refused'[p] = {}, NEW u \in Table \ tables'[p] PROVE TableLoaded(p, u)'
      BY <1>3, <1>6, <3>2, <3>4, <3>5, TableFrame
    <3>6. ASSUME refused'[p] = {}, NEW j \in Key
          PROVE  IF j \in left'[p] THEN Kept(t, j)' ELSE CellLoaded(p, t, j)'
      <4>1. CASE j = k
        <5>1. CellLoaded(p, t, j)'
          BY <1>1, <1>3, <1>8, <2>2, <3>4, <3>6, <4>1 DEF CellLoaded
        <5> QED
          BY <3>1, <4>1, <5>1
      <4>2. CASE j # k
        <5>1. Kept(t, j) => Kept(t, j)'
          BY <1>3, <2>2, <3>4, <3>6, <4>2 DEF Kept
        <5>2. CellLoaded(p, t, j) => CellLoaded(p, t, j)'
          BY <1>3, <2>2, <3>4, <3>6, <4>2, <5>1 DEF CellLoaded
        <5> QED
          BY <1>4, <3>1, <3>4, <3>6, <4>2, <5>1, <5>2
      <4> QED
        BY <4>1, <4>2
    <3> QED
      BY <3>1, <3>3, <3>5, <3>6 DEF TablesOK
  <2> QED
    BY <2>3, <2>4
<1> QED
  BY <1>7, <1>8

(* The end of a table: all its keys are bound, or all of it is cleared.    *)
LEMMA EndTableTables ==
    ASSUME Types, NEW p \in Proc, Working(p), OldKernel, TablesOK(p), EndTable(p)
    PROVE  TablesOK(p)'
<1> USE DEF fixed, kernel, Goto, Labels, InSetKeymap, Types
<1> DEFINE t == First(tables[p])
<1>1. t \in tables[p] /\ t \in Table /\ t \in Nat /\ OldTables \in Nat
  BY FirstTable, LoadAssumption DEF EndTable, Working
<1>2. /\ pc[p] \in {"keys", "by_hand"} /\ left[p] = {} /\ pc'[p] = "table" /\ tables'[p] = tables[p] \ {t}
      /\ UNCHANGED <<kmap, refused, ctx, old, was>>
  BY DEF EndTable
<1> HIDE DEF t
<1>3. ASSUME refused[p] = {} PROVE TableLoaded(p, t)
  <2>1. CASE pc[p] = "keys"
    <3>1. t \in ctx[p].maps
      BY <2>1 DEF Working, t
    <3>2. \A k \in Key : CellLoaded(p, t, k)
      BY <1>2, <1>3, <2>1 DEF TablesOK, t
    <3> QED
      BY <3>1, <3>2 DEF TableLoaded
  <2>2. CASE pc[p] = "by_hand"
    <3>1. t \notin ctx[p].maps /\ ctx[p].keymaps /\ old
      BY <2>2 DEF Working, t
    <3>2. CASE t < OldTables
      <4>1. kmap[t] # NoMap /\ \A k \in Key : kmap[t][k] = K_HOLE
        BY <1>2, <2>2, <3>2, LoadAssumption DEF TablesOK, t
      <4>2. kmap[t] \in [Key -> Code]
        BY <1>1, <4>1 DEF Row
      <4>3. kmap[t] = [k \in Key |-> K_HOLE]
        BY <4>1, <4>2
      <4> QED
        BY <3>1, <3>2, <4>3 DEF TableLoaded
    <3>3. CASE ~(t < OldTables)
      <4>1. t >= OldTables
        BY <1>1, <3>3
      <4>2. kmap[t] = NoMap
        BY <1>1, <3>1, <4>1 DEF OldKernel
      <4> QED
        BY <3>1, <3>3, <4>2 DEF TableLoaded
    <3> QED
      BY <3>2, <3>3
  <2> QED
    BY <1>2, <2>1, <2>2
<1>4. ASSUME NEW u \in Table \ tables'[p], refused'[p] = {} PROVE TableLoaded(p, u)'
  <2>1. CASE u = t
    BY <1>2, <1>3, <1>4, <2>1, TableFrame
  <2>2. CASE u # t
    <3>1. TableLoaded(p, u)
      BY <1>2, <1>4, <2>2 DEF TablesOK
    <3> QED
      BY <1>2, <3>1, TableFrame
  <2> QED
    BY <2>1, <2>2
<1>5. \A u \in tables'[p] : kmap'[u] = was'[2][u]
  BY <1>2 DEF TablesOK, t
<1> QED
  BY <1>2, <1>4, <1>5 DEF TablesOK

(* A table no line names after a keymaps line: deallocated, or a kernel    *)
(* that cannot do that makes the program clear it by hand.                 *)
LEMMA ClearTableTables ==
    ASSUME Types, NEW p \in Proc, Working(p), TablesOK(p), ClearTable(p)
    PROVE  TablesOK(p)'
<1> USE DEF fixed, kernel, Goto, Labels, InSetKeymap, Types
<1> DEFINE t == First(tables[p])
<1>1. t \in tables[p] /\ t \in Table
  BY FirstTable DEF ClearTable, Working
<1>2. pc[p] = "deallocate" /\ t \notin ctx[p].maps /\ ctx[p].keymaps /\ UNCHANGED <<refused, ctx, old, was>>
  BY DEF ClearTable, Working
<1>3. /\ \A u \in tables[p] : kmap[u] = was[2][u]
      /\ refused[p] = {} => \A u \in Table \ tables[p] : TableLoaded(p, u)
  BY <1>2 DEF TablesOK
<1>4. PICK e \in KDSKBENT_NOSUCHMAP(p, t) :
        /\ kmap' = IF e = "ok" THEN Deallocated(t) ELSE kmap
        /\ CASE e = "ok" ->
                  /\ Goto(p, "table")
                  /\ tables' = [tables EXCEPT ![p] = @ \ {t}]
                  /\ UNCHANGED <<left, rc>>
             [] e = "EINVAL" ->
                  /\ Goto(p, "by_hand")
                  /\ left' = [left EXCEPT ![p] = Key]
                  /\ UNCHANGED <<tables, rc>>
             [] OTHER -> GiveUp(p) /\ UNCHANGED <<tables, left>>
  BY DEF ClearTable
<1>5. /\ Deallocated(t)[t] = IF t = 0 THEN kmap[t] ELSE NoMap
      /\ \A u \in Table : u # t => Deallocated(t)[u] = kmap[u]
  BY <1>1, DeallocatedOK
<1> HIDE DEF t
<1>6. CASE e = "ok"
  <2>1. /\ pc'[p] = "table" /\ tables'[p] = tables[p] \ {t} /\ kmap' = Deallocated(t)
    BY <1>4, <1>6
  <2>2. ~old
    BY <1>4, <1>6 DEF KDSKBENT_NOSUCHMAP
  <2>3. ASSUME NEW u \in Table \ tables'[p], refused'[p] = {} PROVE TableLoaded(p, u)'
    <3>1. CASE u = t
      <4>1. kmap'[u] = IF u = 0 THEN was'[2][u] ELSE NoMap
        BY <1>1, <1>2, <1>3, <1>5, <2>1, <3>1
      <4> QED
        BY <1>2, <2>2, <3>1, <4>1 DEF TableLoaded
    <3>2. CASE u # t
      <4>1. TableLoaded(p, u) /\ kmap'[u] = kmap[u]
        BY <1>2, <1>3, <1>5, <2>1, <2>3, <3>2
      <4> QED
        BY <1>2, <4>1, TableFrame
    <3> QED
      BY <3>1, <3>2
  <2>4. \A u \in tables'[p] : kmap'[u] = was'[2][u]
    BY <1>2, <1>3, <1>5, <2>1
  <2> QED
    BY <2>1, <2>3, <2>4 DEF TablesOK
<1>7. CASE e = "EINVAL"
  <2>1. pc'[p] = "by_hand" /\ left'[p] = Key /\ tables' = tables /\ kmap' = kmap
    BY <1>4, <1>7
  <2>2. refused'[p] = {} => \A u \in Table \ tables'[p] : TableLoaded(p, u)'
    BY <1>2, <1>3, <2>1, TableFrame
  <2> QED
    BY <1>2, <1>3, <2>1, <2>2 DEF TablesOK
<1>8. CASE e \notin {"ok", "EINVAL"}
  <2>1. pc'[p] = "restore" /\ rc'[p] = -1
    BY <1>4, <1>8 DEF GiveUp
  <2> QED
    BY <2>1 DEF TablesOK
<1> QED
  BY <1>6, <1>7, <1>8

LEMMA ClearKeyTables ==
    ASSUME Types, NEW p \in Proc, Working(p), TablesOK(p), ClearKey(p)
    PROVE  TablesOK(p)'
<1> USE DEF fixed, kernel, Goto, Labels, InSetKeymap, Types
<1> DEFINE t == First(tables[p])
           k == First(left[p])
<1>1. t \in tables[p] /\ t \in Table /\ t \in Nat /\ OldTables \in Nat
  BY FirstTable, LoadAssumption DEF ClearKey, Working
<1>2. k \in left[p] /\ k \in Key /\ K_HOLE \in Code
  BY FirstLeft, LoadAssumption DEF ClearKey, Working
<1>3. pc[p] = "by_hand" /\ UNCHANGED <<refused, ctx, old, was, tables>>
  BY DEF ClearKey
<1>4. PICK e \in KDSKBENT(p, t, K_HOLE) :
        /\ kmap' = IF e = "ok" THEN Bound(t, k, K_HOLE) ELSE kmap
        /\ CASE e = "ok" -> left' = [left EXCEPT ![p] = @ \ {k}] /\ UNCHANGED <<pc, rc>>
             [] e = "EINVAL" /\ t >= OldTables -> left' = [left EXCEPT ![p] = {}] /\ UNCHANGED <<pc, rc>>
             [] OTHER -> GiveUp(p) /\ UNCHANGED left
  BY DEF ClearKey
<1>5. /\ Bound(t, k, K_HOLE)[t] # NoMap /\ Bound(t, k, K_HOLE)[t][k] = K_HOLE
      /\ \A j \in Key : (j # k /\ kmap[t] # NoMap) => Bound(t, k, K_HOLE)[t][j] = kmap[t][j]
      /\ \A u \in Table : u # t => Bound(t, k, K_HOLE)[u] = kmap[u]
  BY <1>1, <1>2, BoundOK
<1>6. t < OldTables => \/ left[p] = Key
                       \/ kmap[t] # NoMap /\ \A j \in Key \ left[p] : kmap[t][j] = K_HOLE
  BY <1>3 DEF TablesOK
<1> HIDE DEF t, k
<1>7. \A u \in Table : u # t => kmap'[u] = kmap[u]
  BY <1>4, <1>5
<1>8. ASSUME NEW u \in Table \ tables'[p], refused'[p] = {} PROVE TableLoaded(p, u)'
  <2>1. u # t /\ TableLoaded(p, u)
    BY <1>1, <1>3, <1>8 DEF TablesOK
  <2> QED
    BY <1>3, <1>7, <2>1, TableFrame
<1>9. \A u \in tables'[p] : u # First(tables'[p]) => kmap'[u] = was'[2][u]
  BY <1>3, <1>7 DEF TablesOK, t
<1>10. First(tables'[p]) = t
  BY <1>3 DEF t
<1>11. CASE e = "ok"
  <2>1. pc'[p] = "by_hand" /\ left'[p] = left[p] \ {k} /\ kmap' = Bound(t, k, K_HOLE)
    BY <1>3, <1>4, <1>11
  <2>2. t < OldTables => kmap'[t] # NoMap /\ \A j \in Key \ left'[p] : kmap'[t][j] = K_HOLE
    BY <1>2, <1>5, <1>6, <2>1
  <2> QED
    BY <1>8, <1>9, <1>10, <2>1, <2>2 DEF TablesOK
<1>12. CASE e = "EINVAL" /\ t >= OldTables
  <2>1. pc'[p] = "by_hand"
    BY <1>3, <1>4, <1>12
  <2>2. ~(First(tables'[p]) < OldTables)
    BY <1>1, <1>10, <1>12
  <2> QED
    BY <1>8, <1>9, <2>1, <2>2 DEF TablesOK
<1>13. CASE e # "ok" /\ ~(e = "EINVAL" /\ t >= OldTables)
  <2>1. pc'[p] = "restore" /\ rc'[p] = -1
    BY <1>4, <1>13 DEF GiveUp
  <2> QED
    BY <2>1 DEF TablesOK
<1> QED
  BY <1>11, <1>12, <1>13

LEMMA TablesStep ==
    ASSUME NEW p \in Proc, Types, Working(p), OldKernel, FilesOK(p), TablesOK(p), Step(p)
    PROVE  TablesOK(p)'
<1> USE DEF fixed, kernel, Goto, Labels, InSetKeymap, Types
<1>1. CASE Start(p)
  BY <1>1 DEF TablesOK, Start
<1>2. CASE ParseFile(p)
  BY <1>2 DEF TablesOK, ParseFile, AfterParse
<1>3. CASE EndOfFiles(p)
  BY <1>3 DEF TablesOK, EndOfFiles
<1>4. CASE SwitchMode(p)
  BY <1>4, SwitchModeTables
<1>5. CASE NextTable(p)
  BY <1>5, NextTableTables
<1>6. CASE EndTables(p)
  BY <1>6, EndTablesTables
<1>7. CASE SetKey(p)
  BY <1>7, SetKeyTables
<1>8. CASE EndTable(p)
  BY <1>8, EndTableTables
<1>9. CASE ClearTable(p)
  BY <1>9, ClearTableTables
<1>10. CASE ClearKey(p)
  BY <1>10, ClearKeyTables
<1>11. CASE RestoreMode(p)
  <2>1. KeysLoaded(p) => KeysLoaded(p)'
    BY <1>11, KeysFrame DEF RestoreMode
  <2> QED
    BY <1>11, <2>1 DEF TablesOK, RestoreMode
<1>12. CASE DefFunc(p)
  <2>1. KeysLoaded(p) => KeysLoaded(p)'
    BY <1>12, KeysFrame DEF DefFunc
  <2> QED
    BY <1>12, <2>1 DEF TablesOK, DefFunc
<1>13. CASE EndFuncs(p)
  <2>1. KeysLoaded(p) => KeysLoaded(p)'
    BY <1>13, KeysFrame DEF EndFuncs
  <2> QED
    BY <1>13, <2>1 DEF TablesOK, EndFuncs
<1>14. CASE DefDiacs(p)
  <2>1. KeysLoaded(p) => KeysLoaded(p)'
    BY <1>14, KeysFrame DEF DefDiacs
  <2> QED
    BY <1>14, <2>1 DEF TablesOK, DefDiacs
<1> QED
  BY <1>1, <1>2, <1>3, <1>4, <1>5, <1>6, <1>7, <1>8, <1>9, <1>10, <1>11, <1>12, <1>13, <1>14 DEF Step

(* One string of deffuncs: defined, cleared with -s, left, or refused.     *)
LEMMA DefFuncStrings ==
    ASSUME Types, NEW p \in Proc, Working(p), FilesOK(p), StringsOK(p), DefFunc(p)
    PROVE  StringsOK(p)'
<1> USE DEF fixed, kernel, Goto, Labels, InSetKeymap, Types
<1> DEFINE f == First(left[p])
           given == f \in DOMAIN ctx[p].funcs
<1>1. f \in left[p] /\ f \in Func
  BY FirstLeft DEF DefFunc, Working
<1>2. /\ pc[p] = "strings" /\ pc' = pc /\ left'[p] = left[p] \ {f}
      /\ UNCHANGED <<ctx, opt, flags, was, accents>>
  BY DEF DefFunc
<1>3. Defines(p, f) <=> given \/ "s" \in opt[p]
  BY <1>2 DEF Defines, FilesOK
<1>4. \/ /\ Defines(p, f)
         /\ strings' = [strings EXCEPT ![f] = IF given THEN ctx[p].funcs[f] ELSE Empty]
         /\ refused' = refused
      \/ Defines(p, f) /\ strings' = strings /\ refused'[p] = refused[p] \union {<<"string", f>>}
      \/ ~Defines(p, f) /\ strings' = strings /\ refused' = refused
  BY DEF DefFunc
<1> HIDE DEF f, given
<1>5. \A g \in Func : g # f => strings'[g] = strings[g]
  BY <1>4
<1>6. strings[f] = was[3][f]
  BY <1>1, <1>2 DEF StringsOK
<1>7. ASSUME NEW g \in Func \ left'[p], refused'[p] = {} PROVE StringLoaded(p, g)'
  <2>1. refused' = refused
    BY <1>4, <1>7
  <2>2. CASE g = f
    <3>1. CASE Defines(p, f)
      <4>1. strings' = [strings EXCEPT ![f] = IF given THEN ctx[p].funcs[f] ELSE Empty]
        BY <1>4, <1>7, <3>1
      <4>2. strings'[f] = IF given THEN ctx[p].funcs[f] ELSE Empty
        BY <1>1, <4>1
      <4> QED
        BY <1>2, <1>3, <2>2, <3>1, <4>2 DEF StringLoaded, given
    <3>2. CASE ~Defines(p, f)
      BY <1>2, <1>3, <1>4, <1>6, <2>2, <3>2 DEF StringLoaded, given
    <3> QED
      BY <3>1, <3>2
  <2>3. CASE g # f
    <3>1. StringLoaded(p, g)
      BY <1>2, <1>7, <2>1, <2>3 DEF StringsOK
    <3> QED
      BY <1>2, <1>5, <2>3, <3>1 DEF StringLoaded
  <2> QED
    BY <2>2, <2>3
<1>8. \A g \in left'[p] : strings'[g] = was'[3][g]
  BY <1>2, <1>5 DEF StringsOK, Working
<1> QED
  BY <1>2, <1>7, <1>8 DEF StringsOK

LEMMA StringsStep ==
    ASSUME NEW p \in Proc, Types, Working(p), FilesOK(p), StringsOK(p), Step(p)
    PROVE  StringsOK(p)'
<1> USE DEF fixed, kernel, Goto, Labels, InSetKeymap, Types
<1>1. CASE Start(p)
  BY <1>1 DEF StringsOK, Start
<1>2. CASE ParseFile(p)
  BY <1>2 DEF StringsOK, ParseFile, AfterParse
<1>3. CASE EndOfFiles(p)
  BY <1>3 DEF StringsOK, EndOfFiles
<1>4. CASE SwitchMode(p)
  BY <1>4 DEF StringsOK, FilesOK, SwitchMode, KDSKBMODE
<1>5. CASE NextTable(p)
  BY <1>5 DEF StringsOK, NextTable
<1>6. CASE EndTables(p)
  BY <1>6 DEF StringsOK, EndTables
<1>7. CASE SetKey(p)
  BY <1>7 DEF StringsOK, SetKey, GiveUp
<1>8. CASE EndTable(p)
  BY <1>8 DEF StringsOK, EndTable
<1>9. CASE ClearTable(p)
  BY <1>9 DEF StringsOK, ClearTable, GiveUp
<1>10. CASE ClearKey(p)
  BY <1>10 DEF StringsOK, ClearKey, GiveUp
<1>11. CASE RestoreMode(p)
  BY <1>11 DEF StringsOK, RestoreMode, KDSKBMODE
<1>12. CASE DefFunc(p)
  BY <1>12, DefFuncStrings
<1>13. CASE EndFuncs(p)
  <2>1. /\ pc[p] = "strings" /\ left[p] = {} /\ pc'[p] = "accents"
        /\ UNCHANGED <<strings, refused, ctx, opt, was, accents>>
    BY <1>13 DEF EndFuncs
  <2>2. refused[p] = {} => \A f \in Func : StringLoaded(p, f)
    BY <2>1 DEF StringsOK
  <2>3. refused[p] = {} => StringsLoaded(p)'
    BY <2>1, <2>2 DEF StringLoaded, StringsLoaded
  <2> QED
    BY <2>1, <2>3 DEF StringsOK
<1>14. CASE DefDiacs(p)
  BY <1>14 DEF StringsOK, DefDiacs
<1> QED
  BY <1>1, <1>2, <1>3, <1>4, <1>5, <1>6, <1>7, <1>8, <1>9, <1>10, <1>11, <1>12, <1>13, <1>14 DEF Step

(* The exits: one that says success has done it all.                       *)
LEMMA SuccessStep ==
    ASSUME NEW p \in Proc, Types, Working(p), FilesOK(p), TablesOK(p), StringsOK(p), Success(p), Step(p)
    PROVE  Success(p)'
<1> USE DEF fixed, kernel, Goto, Labels, InSetKeymap, Types
<1>1. CASE Start(p)
  BY <1>1 DEF Success, FilesOK, Start
<1>2. CASE ParseFile(p)
  <2> DEFINE i == First(left[p])
  <2>1. i \in left[p] /\ i \in DOMAIN args[p] /\ \A y \in left[p] : i <= y
    BY <1>2, FirstLeft DEF ParseFile, Working
  <2>2. DOMAIN args[p] = 1 .. Len(args[p]) /\ Len(args[p]) \in Nat
    BY LoadAssumption
  <2> HIDE DEF i
  <2>3. CASE args[p][i] = "missing" /\ rc[p] = 0
    <3>1. i > 1
      BY <1>2, <2>1, <2>2, <2>3 DEF FilesOK, ParseFile
    <3>2. ASSUME NEW j \in 1 .. (i - 1) PROVE args[p][j] = "good"
      BY <1>2, <2>1, <2>2 DEF FilesOK, ParseFile
    <3>3. Unfound(p)'
      BY <1>2, <2>1, <2>3, <3>1, <3>2 DEF Unfound, ParseFile
    <3> QED
      BY <3>3 DEF Success
  <2>4. CASE args[p][i] # "missing" \/ rc[p] # 0
    BY <1>2, <2>4 DEF Success, ParseFile, AfterParse, i
  <2> QED
    BY <2>3, <2>4
<1>3. CASE EndOfFiles(p)
  BY <1>3 DEF Success, EndOfFiles
<1>4. CASE SwitchMode(p)
  BY <1>4 DEF Success, SwitchMode, KDSKBMODE
<1>5. CASE NextTable(p)
  BY <1>5 DEF Success, NextTable
<1>6. CASE EndTables(p)
  BY <1>6 DEF Success, EndTables
<1>7. CASE SetKey(p)
  BY <1>7 DEF Success, SetKey, GiveUp
<1>8. CASE EndTable(p)
  BY <1>8 DEF Success, EndTable
<1>9. CASE ClearTable(p)
  BY <1>9 DEF Success, ClearTable, GiveUp
<1>10. CASE ClearKey(p)
  BY <1>10 DEF Success, ClearKey, GiveUp
<1>11. CASE RestoreMode(p)
  BY <1>11 DEF Success, RestoreMode, KDSKBMODE
<1>12. CASE DefFunc(p)
  BY <1>12 DEF Success, DefFunc
<1>13. CASE EndFuncs(p)
  BY <1>13 DEF Success, EndFuncs
<1>14. CASE DefDiacs(p)
  <2>1. KeysLoaded(p) => KeysLoaded(p)'
    BY <1>14, KeysFrame DEF DefDiacs
  <2>2. StringsLoaded(p) => StringsLoaded(p)'
    BY <1>14 DEF StringsLoaded, DefDiacs
  <2>3. pc[p] = "accents" /\ accents = was[4] /\ UNCHANGED <<refused, ctx, opt, was>>
    BY <1>14 DEF DefDiacs, StringsOK
  <2>4. refused[p] = {} => KeysLoaded(p) /\ StringsLoaded(p)
    BY <2>3 DEF TablesOK, StringsOK
  <2>5. rc'[p] = 0 => AccentsLoaded(p)'
    BY <1>14, <2>3 DEF AccentsLoaded, DefDiacs, FilesOK
  <2> QED
    BY <2>1, <2>2, <2>3, <2>4, <2>5 DEF Success
<1> QED
  BY <1>1, <1>2, <1>3, <1>4, <1>5, <1>6, <1>7, <1>8, <1>9, <1>10, <1>11, <1>12, <1>13, <1>14 DEF Step

LEMMA InitLoad == Init => LoadInv
<1> SUFFICES ASSUME Init, NEW p \in Proc PROVE LoadOK(p)
  BY DEF LoadInv
<1>1. Types /\ Working(p)
  BY InitMode DEF ModeInv
<1>2. pc[p] = "start" /\ rc[p] = -1 /\ kernel = was
  BY DEF Init
<1>3. OldKernel
  BY DEF Init, OldKernel
<1> QED
  BY <1>1, <1>2, <1>3 DEF LoadOK, FilesOK, TablesOK, StringsOK, Success, InSetKeymap

LEMMA NextLoad == Alone /\ LoadInv /\ [Next]_vars => LoadInv'
<1> SUFFICES ASSUME Alone, LoadInv, [Next]_vars PROVE LoadInv'
  OBVIOUS
<1>1. ASSUME NEW p \in Proc, Step(p) PROVE LoadInv'
  <2>1. LoadOK(p)
    BY DEF LoadInv
  <2>2. Types' /\ Working(p)'
    BY <1>1, <2>1, TypesStep, WorkingStep DEF LoadOK
  <2>3. OldKernel' /\ FilesOK(p)'
    BY <1>1, <2>1, OldKernelStep, FilesStep DEF LoadOK
  <2>4. TablesOK(p)' /\ StringsOK(p)'
    BY <1>1, <2>1, TablesStep, StringsStep DEF LoadOK
  <2>5. Success(p)'
    BY <1>1, <2>1, SuccessStep DEF LoadOK
  <2>6. Proc = {p}
    BY DEF Alone
  <2> QED
    BY <2>2, <2>3, <2>4, <2>5, <2>6 DEF LoadInv, LoadOK
<1>2. CASE UNCHANGED <<kernel, pc, flags, kbd_mode, tables, left, rc, refused, fixed>>
  <2> SUFFICES ASSUME NEW p \in Proc PROVE LoadOK(p)'
    BY DEF LoadInv
  <2> USE <1>2 DEF kernel, fixed
  <2>1. LoadOK(p)
    BY DEF LoadInv
  <2>2. Types' /\ Working(p)' /\ OldKernel'
    BY <2>1 DEF LoadOK, Types, Working, OldKernel
  <2>3. FilesOK(p)'
    BY <2>1 DEF LoadOK, FilesOK, AllGood
  <2>4. TablesOK(p)'
    BY <2>1 DEF LoadOK, TablesOK, TableLoaded, CellLoaded, Kept, KeysLoaded
  <2>5. StringsOK(p)'
    BY <2>1 DEF LoadOK, StringsOK, StringLoaded, StringsLoaded
  <2>6. Success(p)'
    BY <2>1 DEF LoadOK, Success, KeysLoaded, Kept, StringsLoaded, AccentsLoaded, Unfound
  <2> QED
    BY <2>2, <2>3, <2>4, <2>5, <2>6 DEF LoadOK
<1> QED
  BY <1>1, <1>2 DEF Next, HangUp, Finished, vars, kernel, fixed

(* A loadkeys alone on the console that reports success, with no ioctl     *)
(* refused and no file missing, has loaded the keys (those with 16-bit     *)
(* values), strings and accents of the files, has cleared or deallocated   *)
(* what a keymaps line leaves out, and has touched nothing else, down to   *)
(* the keys of its tables that no file names; a file that is not found or  *)
(* does not parse keeps the kernel as it was (LoadedOnSuccess).            *)
THEOREM LoadIsComplete == Alone => (Spec => []LoadedOnSuccess)
<1> SUFFICES ASSUME Alone PROVE Spec => []LoadedOnSuccess
  OBVIOUS
<1>1. LoadInv /\ [Next]_vars => LoadInv'
  BY NextLoad
<1>2. LoadInv => LoadedOnSuccess
  <2> SUFFICES ASSUME LoadInv, NEW p \in Proc
               PROVE  /\ Success(p)
                      /\ (\E i \in DOMAIN args[p] : args[p][i] # "good") => kernel = was
    BY DEF LoadedOnSuccess, Success
  <2>1. LoadOK(p)
    BY DEF LoadInv
  <2> QED
    BY <2>1 DEF LoadOK, FilesOK, AllGood, Types, Labels, InSetKeymap
<1> QED
  BY InitLoad, <1>1, <1>2, PTL DEF Spec

=============================================================================
