---------------------------- MODULE SetFontProofs ---------------------------
(***************************************************************************)
(* Proofs about setfont: for any font files, command lines, number of      *)
(* retries and maps of other programs.                                     *)
(***************************************************************************)
EXTENDS SetFont, TLAPS

(* The shape of the state, and what the retries and the errors keep to.    *)
Types ==
    /\ text \in BOOLEAN /\ other \in BOOLEAN /\ ret \in {0, 1}
    /\ cmd \in Commands /\ tasks \subseteq Tasks(cmd)
    /\ level \in 0 .. MaxLevel /\ table \subseteq Fonts \union {"umap"}
    /\ unimap \subseteq Fonts \union {"umap"} \union BootMap \union UNION OtherMaps
    /\ pc \in {"start", "task", "get_map", "get_map_entries", "read", "put_font",
               "put_font_again", "clear_map", "put_map", "exit"}
    /\ pc = "put_font" => Readable(files) /\ files # <<>>

(* Where main is: which task is running, and how it ends.                  *)
Running ==
    /\ pc \in {"get_map", "get_map_entries"} => First \in {"O", "ou"}
    /\ pc \in {"read", "put_font", "put_font_again"} => First = "fonts" /\ "fonts" \in tasks
    /\ ret = 1 => pc = "exit"
    /\ pc = "start" => tasks = Tasks(cmd) /\ unimap \intersect Fonts = {}
    /\ pc # "start" /\ ret = 0 => cmd.files = <<>> \/ "R" \notin tasks
    /\ pc = "exit" /\ ret = 0 /\ text => tasks = {}
    /\ cmd.files = <<>> => files = <<>>

FontPairs == RangeOf(files) \intersect HasTable
UserPairs == IF cmd.ufile = "empty" THEN {} ELSE {"umap"}

(* The pairs that are loaded, or about to be, are those of the font that   *)
(* is loaded, or those of the file of -u.                                  *)
Pairs ==
    /\ pc \in {"put_font", "put_font_again"} => table = IF no_u THEN {} ELSE FontPairs
    /\ pc \in {"clear_map", "put_map"} =>
          \/ HasHeads /\ "fonts" \notin tasks /\ cmd.files # <<>> /\ table = FontPairs
          \/ "u" \in cmd.options /\ "u" \notin tasks /\ table = UserPairs
    /\ unimap \intersect Fonts # {} => cmd.files # <<>> /\ "fonts" \notin tasks

(* A task that is done has been done, and nothing has undone it.           *)
FontDone ==
    cmd.files # <<>> /\ "fonts" \notin tasks =>
        /\ font.files = files /\ font.count \in {256, 512}
        /\ font.whole \/ files[1] \in Tall

Quiet == ret = 0 /\ ~other /\ pc \notin {"clear_map", "put_map"}

MapDone ==
    /\ pc = "put_map" /\ ~other => unimap = {}
    /\ Quiet /\ HasHeads /\ "fonts" \notin tasks /\ cmd.files # <<>> => unimap = FontPairs
    /\ Quiet /\ "u" \in cmd.options /\ "u" \notin tasks /\ cmd.ufile = "good" => unimap = {"umap"}

ScreenDone == "m" \in cmd.options /\ "m" \notin tasks => scrnmap = "loaded"

IInv == Types /\ Running /\ Pairs /\ FontDone /\ MapDone /\ ScreenDone /\ MapFollowsFont
-----------------------------------------------------------------------------
(* What the operators of the model keep.                                   *)

LEMMA SameFirst == ASSUME tasks' = tasks PROVE First' = First
BY DEF First

LEMMA SameHeads == ASSUME files' = files, cmd' = cmd PROVE HasHeads' = HasHeads /\ no_u' = no_u
BY DEF HasHeads, no_u

LEMMA SamePairs ==
    ASSUME files' = files, cmd' = cmd
    PROVE  FontPairs' = FontPairs /\ UserPairs' = UserPairs
BY DEF FontPairs, UserPairs, RangeOf

(* Options that main has no task for, and fonts without a file.            *)
LEMMA TaskFacts ==
    ASSUME SetFontAssumption, Types
    PROVE  /\ "fonts" \in tasks => cmd.files # <<>>
           /\ \A o \in {"u", "m", "R"} : o \in tasks => o \in cmd.options
           /\ FontPairs \subseteq Fonts /\ FontPairs \subseteq RangeOf(files)
           /\ UserPairs \subseteq {"umap"} /\ UserPairs \intersect Fonts = {}
<1>1. cmd.options \subseteq Options /\ "fonts" \notin Options
  BY DEF SetFontAssumption, Types, Options
<1>2. "fonts" \in tasks => cmd.files # <<>>
  BY <1>1 DEF Types, Tasks
<1>3. \A o \in {"u", "m", "R"} : o \in tasks => o \in cmd.options
  BY DEF Types, Tasks
<1> QED
  BY <1>2, <1>3 DEF FontPairs, UserPairs, SetFontAssumption

(* The task that ends is off the list, and nothing else is.                *)
LEMMA TaskEnds ==
    ASSUME NEW t, EndTask, First = t
    PROVE  tasks' = tasks \ {t}
BY DEF EndTask

(* A step of a task that is not about fonts or -u: it changes none of      *)
(* them.                                                                   *)
OtherStep(t) ==
    /\ ret = 0 /\ pc \notin {"start", "clear_map", "put_map", "exit"}
    /\ UNCHANGED <<text, font, unimap, cmd, files, table, level, other>>
    /\ tasks' = tasks \ {t} \/ tasks' = tasks
    /\ scrnmap' = "loaded" \/ (scrnmap' = scrnmap /\ t # "m")
    /\ \/ ret' = 1 /\ pc' = "exit"
       \/ ret' = 0 /\ pc' = "task"
       \/ /\ ret' = 0 /\ tasks' = tasks
          /\ pc' \in {"get_map", "get_map_entries"} /\ First \in {"O", "ou"}

LEMMA OtherTask ==
    ASSUME SetFontAssumption, IInv, NEW t, t \notin {"fonts", "u"}, OtherStep(t)
    PROVE  IInv'
<1>1. HasHeads' = HasHeads /\ no_u' = no_u /\ FontPairs' = FontPairs /\ UserPairs' = UserPairs
  BY SameHeads, SamePairs DEF OtherStep
<1>2. tasks' = tasks => First' = First
  BY SameFirst
<1>3. /\ tasks' \subseteq tasks
      /\ ("fonts" \in tasks' <=> "fonts" \in tasks) /\ ("u" \in tasks' <=> "u" \in tasks)
  BY DEF OtherStep
<1>4. Types'
  BY <1>3 DEF IInv, Types, OtherStep
<1>5. Running'
  BY <1>2, <1>3 DEF IInv, Running, Types, OtherStep
<1>6. Pairs'
  BY <1>1, <1>3 DEF IInv, Pairs, OtherStep
<1>7. FontDone'
  BY <1>3 DEF IInv, FontDone, OtherStep
<1>8. MapDone'
  BY <1>1, <1>3 DEF IInv, MapDone, Quiet, OtherStep
<1>9. ScreenDone'
  BY <1>3 DEF IInv, ScreenDone, OtherStep
<1>10. MapFollowsFont'
  BY DEF IInv, MapFollowsFont, RangeOf, OtherStep
<1> QED
  BY <1>4, <1>5, <1>6, <1>7, <1>8, <1>9, <1>10 DEF IInv

-----------------------------------------------------------------------------
(* The invariant, action by action.                                        *)

LEMMA InitInv == ASSUME SetFontAssumption, Init PROVE IInv
<1>1. /\ cmd \in Commands /\ tasks = Tasks(cmd) /\ pc = "start" /\ ret = 0 /\ files = <<>>
      /\ table = {} /\ level = 0 /\ unimap = {"boot"} /\ text \in BOOLEAN /\ other = FALSE
  BY DEF Init, BootMap
<1>2. unimap \intersect Fonts = {}
  BY <1>1 DEF SetFontAssumption
<1>3. Types
  <2>1. level \in 0 .. MaxLevel
    BY <1>1 DEF SetFontAssumption
  <2>2. unimap \subseteq Fonts \union {"umap"} \union BootMap \union UNION OtherMaps
    BY <1>1 DEF BootMap
  <2> QED
    BY <1>1, <2>1, <2>2 DEF Types
<1>4. Running
  BY <1>1, <1>2 DEF Running
<1>5. Pairs
  BY <1>1, <1>2 DEF Pairs
<1>6. cmd.files # <<>> => "fonts" \in tasks
  BY <1>1 DEF Tasks
<1>7. "u" \in cmd.options => "u" \in tasks
  BY <1>1 DEF Tasks
<1>8. "m" \in cmd.options => "m" \in tasks
  BY <1>1 DEF Tasks
<1>9. FontDone /\ ScreenDone
  BY <1>6, <1>8 DEF FontDone, ScreenDone
<1>10. MapDone
  BY <1>1, <1>6, <1>7 DEF MapDone
<1>11. MapFollowsFont
  BY <1>2 DEF MapFollowsFont
<1> QED
  BY <1>3, <1>4, <1>5, <1>9, <1>10, <1>11 DEF IInv

LEMMA StartInv == ASSUME SetFontAssumption, IInv, Start PROVE IInv'
<1>1. /\ pc = "start" /\ UNCHANGED <<text, font, unimap, scrnmap, cmd, tasks, files, table, level, other>>
  BY DEF Start, kernel, local
<1>2. HasHeads' = HasHeads /\ no_u' = no_u /\ FontPairs' = FontPairs /\ UserPairs' = UserPairs
  BY <1>1, SameHeads, SamePairs
<1>3. ret = 0 /\ tasks = Tasks(cmd)
  BY <1>1 DEF IInv, Types, Running
<1>4. \/ ret' = 1 /\ pc' = "exit"
      \/ ret' = ret /\ pc' = (IF text THEN "task" ELSE "exit") /\ (cmd.files = <<>> \/ "R" \notin cmd.options)
  BY DEF Start, Fail
<1>5. Types'
  BY <1>1, <1>4 DEF IInv, Types
<1>6. Running'
  <2>1. "R" \in tasks => "R" \in cmd.options
    BY TaskFacts DEF IInv
  <2> QED
    BY <1>1, <1>3, <1>4, <1>5, <2>1 DEF IInv, Running, Types
<1>7. Pairs'
  BY <1>1, <1>2, <1>4, <1>5 DEF IInv, Pairs
<1>8. FontDone' /\ ScreenDone'
  BY <1>1 DEF IInv, FontDone, ScreenDone
<1>9. MapDone'
  BY <1>1, <1>2, <1>3, <1>4 DEF IInv, MapDone, Quiet
<1>10. MapFollowsFont'
  BY <1>1 DEF IInv, MapFollowsFont, RangeOf
<1> QED
  BY <1>5, <1>6, <1>7, <1>8, <1>9, <1>10 DEF IInv

LEMMA EndInv == ASSUME SetFontAssumption, IInv, EndOfTasks PROVE IInv'
<1>1. /\ pc = "task" /\ tasks = {} /\ pc' = "exit" /\ ret' = ret
      /\ UNCHANGED <<text, font, unimap, scrnmap, cmd, tasks, files, table, level, other>>
  BY DEF EndOfTasks, kernel, local
<1>2. HasHeads' = HasHeads /\ no_u' = no_u /\ FontPairs' = FontPairs /\ UserPairs' = UserPairs
  BY <1>1, SameHeads, SamePairs
<1>3. Types' /\ Running'
  BY <1>1 DEF IInv, Types, Running
<1>4. Pairs'
  BY <1>1, <1>2 DEF IInv, Pairs
<1>5. FontDone' /\ ScreenDone'
  BY <1>1 DEF IInv, FontDone, ScreenDone
<1>6. MapDone'
  BY <1>1, <1>2 DEF IInv, MapDone, Quiet
<1>7. MapFollowsFont'
  BY <1>1 DEF IInv, MapFollowsFont, RangeOf
<1> QED
  BY <1>3, <1>4, <1>5, <1>6, <1>7 DEF IInv

(* The tasks that save, and -m.                                            *)
LEMMA SavingInv ==
    ASSUME SetFontAssumption, IInv,
           SaveFont \/ SaveConsolemap \/ SaveUnicodemap \/ GetMapSize \/ GetMapEntries \/ LoadConsolemap
    PROVE  IInv'
<1>1. ret \in {0, 1} /\ (ret = 1 => pc = "exit")
  BY DEF IInv, Types, Running
<1>2. CASE SaveFont
  <2>1. \E t \in {"o", "O"} : Task(t) /\ (tasks' = tasks \/ tasks' = tasks \ {t})
    BY <1>2 DEF SaveFont, NextTask, EndTask, Task
  <2>2. PICK t \in {"o", "O"} : pc = "task" /\ t = First /\ (tasks' = tasks \/ tasks' = tasks \ {t})
    BY <2>1 DEF Task
  <2>3. \/ ret' = 1 /\ pc' = "exit"
        \/ ret' = ret /\ pc' = "task"
        \/ ret' = ret /\ pc' = "get_map" /\ tasks' = tasks /\ First \in {"O", "ou"}
    BY <1>2 DEF SaveFont, Fail, NextTask, Task
  <2>4. UNCHANGED <<text, font, unimap, scrnmap, cmd, files, table, level, other>>
    BY <1>2 DEF SaveFont, kernel, local
  <2>5. OtherStep(t)
    BY <1>1, <2>2, <2>3, <2>4 DEF OtherStep
  <2> QED
    BY <2>2, <2>5, OtherTask
<1>3. CASE SaveConsolemap
  <2>1. pc = "task" /\ First = "om" /\ (tasks' = tasks \/ tasks' = tasks \ {"om"})
    BY <1>3 DEF SaveConsolemap, Task, NextTask, EndTask
  <2>2. (ret' = 1 /\ pc' = "exit") \/ (ret' = ret /\ pc' = "task")
    BY <1>3 DEF SaveConsolemap, Fail, NextTask
  <2>3. UNCHANGED <<text, font, unimap, scrnmap, cmd, files, table, level, other>>
    BY <1>3 DEF SaveConsolemap, kernel, local
  <2>4. OtherStep("om")
    BY <1>1, <2>1, <2>2, <2>3 DEF OtherStep
  <2> QED
    BY <2>1, <2>4, OtherTask
<1>4. CASE SaveUnicodemap
  <2>1. pc = "task" /\ First = "ou" /\ tasks' = tasks
    BY <1>4 DEF SaveUnicodemap, Task
  <2>2. (ret' = 1 /\ pc' = "exit") \/ (ret' = ret /\ pc' = "get_map")
    BY <1>4 DEF SaveUnicodemap, Fail
  <2>3. UNCHANGED <<text, font, unimap, scrnmap, cmd, files, table, level, other>>
    BY <1>4 DEF SaveUnicodemap, kernel, local
  <2>4. OtherStep("ou")
    BY <1>1, <2>1, <2>2, <2>3 DEF OtherStep
  <2> QED
    BY <2>1, <2>4, OtherTask
<1>5. CASE GetMapSize
  <2>1. pc = "get_map" /\ First \in {"O", "ou"}
    BY <1>5 DEF GetMapSize, IInv, Running
  <2>2. \/ tasks' = tasks \ {First} /\ pc' = "task" /\ ret' = ret
        \/ tasks' = tasks /\ pc' = "get_map_entries" /\ ret' = ret
        \/ tasks' = tasks /\ pc' = "exit" /\ ret' = 1
    BY <1>5 DEF GetMapSize, NextTask, EndTask, Fail
  <2>3. UNCHANGED <<text, font, unimap, scrnmap, cmd, files, table, level, other>>
    BY <1>5 DEF GetMapSize, kernel
  <2>4. OtherStep(First)
    BY <1>1, <2>1, <2>2, <2>3 DEF OtherStep
  <2> QED
    BY <2>1, <2>4, OtherTask
<1>6. CASE GetMapEntries
  <2>1. pc = "get_map_entries" /\ First \in {"O", "ou"}
    BY <1>6 DEF GetMapEntries, IInv, Running
  <2>2. \/ tasks' = tasks \ {First} /\ pc' = "task" /\ ret' = ret
        \/ tasks' = tasks /\ pc' = "exit" /\ ret' = 1
    BY <1>6 DEF GetMapEntries, NextTask, EndTask, Fail
  <2>3. UNCHANGED <<text, font, unimap, scrnmap, cmd, files, table, level, other>>
    BY <1>6 DEF GetMapEntries, kernel
  <2>4. OtherStep(First)
    BY <1>1, <2>1, <2>2, <2>3 DEF OtherStep
  <2> QED
    BY <2>1, <2>4, OtherTask
<1>7. CASE LoadConsolemap
  <2>1. pc = "task" /\ First = "m"
    BY <1>7 DEF LoadConsolemap, Task
  <2>2. \/ tasks' = tasks \ {"m"} /\ pc' = "task" /\ ret' = ret /\ scrnmap' = "loaded"
        \/ tasks' = tasks /\ pc' = "exit" /\ ret' = 1 /\ scrnmap' = scrnmap
    BY <1>7, <2>1 DEF LoadConsolemap, NextTask, EndTask, Fail
  <2>3. UNCHANGED <<text, font, unimap, cmd, files, table, level, other>>
    BY <1>7 DEF LoadConsolemap, local
  <2>4. OtherStep("m") \/ OtherStep("o")
    BY <1>1, <2>1, <2>2, <2>3 DEF OtherStep
  <2> QED
    BY <2>4, OtherTask
<1> QED
  BY <1>2, <1>3, <1>4, <1>5, <1>6, <1>7
LEMMA RestoreInv == ASSUME SetFontAssumption, IInv, RestoreFont PROVE IInv'
<1>1. /\ pc = "task" /\ "R" \in tasks /\ tasks' = tasks \ {"R"} /\ pc' = "task" /\ ret' = ret
      /\ UNCHANGED <<text, unimap, scrnmap, cmd, files, table, level, other>>
  BY DEF RestoreFont, Task, NextTask, EndTask, local
<1>2. HasHeads' = HasHeads /\ no_u' = no_u /\ FontPairs' = FontPairs /\ UserPairs' = UserPairs
  BY <1>1, SameHeads, SamePairs
<1>3. ret = 0
  BY <1>1 DEF IInv, Types, Running
<1>4. cmd.files = <<>>
  BY <1>1, <1>3 DEF IInv, Running
<1>5. unimap \intersect Fonts = {}
  BY <1>4 DEF IInv, Pairs
<1>6. /\ tasks' \subseteq tasks /\ ("fonts" \in tasks' <=> "fonts" \in tasks)
      /\ ("u" \in tasks' <=> "u" \in tasks) /\ ("m" \in tasks' <=> "m" \in tasks)
  BY <1>1
<1>7. Types'
  BY <1>1, <1>6 DEF IInv, Types
<1>8. Running'
  BY <1>1, <1>3, <1>4 DEF IInv, Running
<1>9. Pairs'
  BY <1>1, <1>2, <1>5 DEF IInv, Pairs
<1>10. FontDone' /\ ScreenDone'
  BY <1>1, <1>4, <1>6 DEF IInv, FontDone, ScreenDone
<1>11. MapDone'
  BY <1>1, <1>2, <1>4, <1>6 DEF IInv, MapDone, Quiet
<1>12. MapFollowsFont'
  BY <1>1, <1>5 DEF MapFollowsFont
<1> QED
  BY <1>7, <1>8, <1>9, <1>10, <1>11, <1>12 DEF IInv

(* kfont_load_fonts, before the kernel has the font.                       *)
LEMMA ReadingInv ==
    ASSUME SetFontAssumption, IInv, LoadFonts \/ FollowCombine \/ ReadFonts
    PROVE  IInv'
<1>1. /\ UNCHANGED <<text, font, unimap, scrnmap, cmd, tasks, level, other>>
      /\ "fonts" \in tasks /\ First = "fonts" /\ ret = 0 /\ pc \in {"task", "read"}
  <2>1. CASE LoadFonts
    BY <2>1 DEF LoadFonts, Task, kernel, IInv, Types, Running
  <2>2. CASE FollowCombine
    BY <2>2 DEF FollowCombine, kernel, IInv, Types, Running
  <2>3. CASE ReadFonts
    BY <2>3 DEF ReadFonts, kernel, IInv, Types, Running
  <2> QED
    BY <2>1, <2>2, <2>3
<1>2. First' = First /\ cmd.files # <<>> /\ FontPairs \subseteq Fonts
  BY <1>1, SameFirst, TaskFacts DEF IInv
<1>3. \/ pc' = "read" /\ ret' = 0 /\ table' = table
      \/ pc' = "exit" /\ ret' = 1 /\ table' = table
      \/ /\ pc' = "put_font" /\ ret' = 0 /\ files' = files /\ Readable(files)
         /\ table' = IF no_u THEN {} ELSE FontPairs
  <2>1. CASE LoadFonts
    BY <1>1, <2>1 DEF LoadFonts
  <2>2. CASE FollowCombine
    BY <1>1, <2>2 DEF FollowCombine
  <2>3. CASE ReadFonts
    BY <1>1, <2>3 DEF ReadFonts, Fail, FontPairs
  <2> QED
    BY <2>1, <2>2, <2>3
<1>4. Readable(files) => files # <<>>
  BY DEF Readable
<1>5. files' = files => no_u' = no_u /\ FontPairs' = FontPairs /\ (Readable(files)' <=> Readable(files))
  BY <1>1, SameHeads, SamePairs DEF Readable, Mergeable, RangeOf
<1>6. Types'
  BY <1>1, <1>2, <1>3, <1>4, <1>5 DEF IInv, Types
<1>7. Running'
  BY <1>1, <1>2, <1>3 DEF IInv, Running
<1>8. Pairs'
  BY <1>1, <1>3, <1>5 DEF IInv, Pairs
<1>9. FontDone' /\ ScreenDone'
  BY <1>1 DEF IInv, FontDone, ScreenDone
<1>10. MapDone'
  BY <1>1, <1>3 DEF IInv, MapDone, Quiet
<1>11. MapFollowsFont'
  BY <1>1 DEF IInv, MapFollowsFont, RangeOf
<1> QED
  BY <1>6, <1>7, <1>8, <1>9, <1>10, <1>11 DEF IInv
(* The kernel takes the font, or does not, at the first or second try.     *)
LEMMA PuttingInv ==
    ASSUME SetFontAssumption, IInv, PutFont \/ PutFontAgain
    PROVE  IInv'
<1>1. /\ UNCHANGED <<text, unimap, scrnmap, cmd, files, table, other>>
      /\ level' = 0 \/ level' = level
      /\ pc \in {"put_font", "put_font_again"}
  BY DEF PutFont, PutFontAgain, local
<1>2. /\ First = "fonts" /\ "fonts" \in tasks /\ ret = 0 /\ unimap \intersect Fonts = {}
      /\ table = IF no_u THEN {} ELSE FontPairs
  BY <1>1 DEF IInv, Types, Running, Pairs
<1>3. cmd.files # <<>> /\ (no_u <=> "u none" \in cmd.options \/ "u" \in cmd.options)
  BY <1>2, TaskFacts DEF IInv, no_u
<1>4. HasHeads' = HasHeads /\ no_u' = no_u /\ FontPairs' = FontPairs /\ UserPairs' = UserPairs
  BY <1>1, SameHeads, SamePairs
<1>5. level' \in 0 .. MaxLevel
  BY <1>1 DEF SetFontAssumption, IInv, Types
<1>6. HasHeads => ~no_u
  BY DEF HasHeads
<1>7. \/ /\ tasks' = tasks \ {"fonts"} /\ ret' = 0 /\ pc' = AfterFont
         /\ font'.files = files /\ font'.count \in {256, 512}
         /\ font'.whole \/ files[1] \in Tall
      \/ tasks' = tasks /\ font' = font /\ ret' = 0 /\ pc' = "put_font_again"
      \/ tasks' = tasks /\ font' = font /\ ret' = 1 /\ pc' = "exit"
  <2>1. CASE PutFont
    <3>1. CASE /\ Sum(files) \in {256, 512}
               /\ font' = [files |-> files, count |-> Sum(files), whole |-> TRUE]
               /\ EndTask /\ pc' = AfterFont /\ ret' = ret
      <4>1. tasks' = tasks \ {"fonts"}
        BY <1>2, <3>1, TaskEnds
      <4>2. font'.files = files /\ font'.count = Sum(files) /\ font'.whole
        BY <3>1
      <4> QED
        BY <1>2, <3>1, <4>1, <4>2
    <3>2. CASE pc' = "put_font_again" /\ UNCHANGED <<font, tasks, ret>>
      BY <1>2, <3>2
    <3>3. CASE Fail /\ UNCHANGED <<font, tasks>>
      BY <3>3 DEF Fail
    <3> QED
      BY <2>1, <3>1, <3>2, <3>3 DEF PutFont
  <2>2. CASE PutFontAgain
    <3>1. CASE /\ font' = [files |-> files, count |-> IF Sum(files) > 256 THEN 512 ELSE 256,
                            whole |-> files[1] \notin Tall]
               /\ EndTask /\ pc' = AfterFont /\ ret' = ret
      <4>1. tasks' = tasks \ {"fonts"}
        BY <1>2, <3>1, TaskEnds
      <4>2. font'.files = files /\ font'.count \in {256, 512} /\ (font'.whole <=> files[1] \notin Tall)
        BY <3>1
      <4> QED
        BY <1>2, <3>1, <4>1, <4>2
    <3>2. CASE Fail /\ UNCHANGED <<font, tasks>>
      BY <3>2 DEF Fail
    <3> QED
      BY <2>2, <3>1, <3>2 DEF PutFontAgain
  <2> QED
    BY <2>1, <2>2
<1>8. CASE /\ tasks' = tasks \ {"fonts"} /\ ret' = 0 /\ pc' = AfterFont
           /\ font'.files = files /\ font'.count \in {256, 512}
           /\ font'.whole \/ files[1] \in Tall
  <2>1. pc' = IF HasHeads THEN "clear_map" ELSE "task"
    BY <1>8 DEF AfterFont
  <2>2. /\ tasks' \subseteq tasks /\ "fonts" \notin tasks'
        /\ ("u" \in tasks' <=> "u" \in tasks) /\ ("m" \in tasks' <=> "m" \in tasks)
    BY <1>8
  <2>3. Types'
    BY <1>1, <1>5, <1>8, <2>1, <2>2 DEF IInv, Types
  <2>4. Running'
    <3>1. pc' \in {"clear_map", "task"}
      BY <2>1
    <3>2. "R" \notin tasks'
      BY <1>1, <1>2, <1>3, <2>2 DEF IInv, Running
    <3> QED
      <4>1. ret' = 0 /\ cmd'.files # <<>>
        BY <1>1, <1>3, <1>8
      <4> QED
        BY <3>1, <3>2, <4>1 DEF Running
  <2>5. Pairs'
    BY <1>1, <1>2, <1>3, <1>4, <1>6, <2>1, <2>2 DEF Pairs
  <2>6. FontDone' /\ ScreenDone'
    BY <1>1, <1>8, <2>2 DEF IInv, FontDone, ScreenDone
  <2>7. MapDone'
    BY <1>1, <1>2, <1>4, <1>8, <2>1, <2>2 DEF IInv, MapDone, Quiet
  <2>8. MapFollowsFont'
    BY <1>1, <1>2 DEF MapFollowsFont
  <2> QED
    BY <2>3, <2>4, <2>5, <2>6, <2>7, <2>8 DEF IInv
<1>9. CASE /\ tasks' = tasks /\ font' = font
           /\ (ret' = 0 /\ pc' = "put_font_again") \/ (ret' = 1 /\ pc' = "exit")
  <2>1. First' = First
    BY <1>9, SameFirst
  <2>2. Types'
    BY <1>1, <1>5, <1>9 DEF IInv, Types
  <2>3. Running'
    BY <1>1, <1>2, <1>9, <2>1 DEF IInv, Running
  <2>4. Pairs'
    BY <1>1, <1>2, <1>4, <1>9 DEF Pairs
  <2>5. FontDone' /\ ScreenDone'
    BY <1>1, <1>9 DEF IInv, FontDone, ScreenDone
  <2>6. MapDone'
    BY <1>1, <1>2, <1>4, <1>9 DEF IInv, MapDone, Quiet
  <2>7. MapFollowsFont'
    BY <1>1, <1>2 DEF MapFollowsFont
  <2> QED
    BY <2>2, <2>3, <2>4, <2>5, <2>6, <2>7 DEF IInv
<1> QED
  BY <1>7, <1>8, <1>9

LEMMA UserMapInv == ASSUME SetFontAssumption, IInv, LoadUnicodemap PROVE IInv'
<1>1. /\ pc = "task" /\ "u" \in tasks /\ tasks' = tasks \ {"u"}
      /\ UNCHANGED <<text, font, unimap, scrnmap, cmd, files, other>>
  BY TaskEnds DEF LoadUnicodemap, Task, EndTask, kernel
<1>2. ret = 0 /\ "u" \in cmd.options /\ UserPairs \subseteq {"umap"}
  BY <1>1, TaskFacts DEF IInv, Types, Running
<1>3. HasHeads' = HasHeads /\ no_u' = no_u /\ FontPairs' = FontPairs /\ UserPairs' = UserPairs
  BY <1>1, SameHeads, SamePairs
<1>4. ~HasHeads
  BY <1>2 DEF HasHeads, no_u
<1>5. \/ ret' = 1 /\ pc' = "exit" /\ table' = table /\ level' = level
      \/ ret' = 0 /\ pc' = "task" /\ table' = table /\ level' = level /\ cmd.ufile = "empty"
      \/ ret' = 0 /\ pc' = "clear_map" /\ table' = UserPairs /\ level' = 0
  BY <1>2 DEF LoadUnicodemap, Fail, UserPairs
<1>6. 0 \in 0 .. MaxLevel
  BY DEF SetFontAssumption
<1>7. /\ tasks' \subseteq tasks /\ ("fonts" \in tasks' <=> "fonts" \in tasks)
      /\ "u" \notin tasks' /\ ("m" \in tasks' <=> "m" \in tasks)
  BY <1>1
<1>8. Types'
  BY <1>1, <1>2, <1>5, <1>6, <1>7 DEF IInv, Types
<1>9. Running'
  BY <1>1, <1>2, <1>5, <1>7 DEF IInv, Running
<1>10. Pairs'
  BY <1>1, <1>2, <1>3, <1>5, <1>7 DEF IInv, Pairs
<1>11. FontDone' /\ ScreenDone'
  BY <1>1, <1>7 DEF IInv, FontDone, ScreenDone
<1>12. MapDone'
  BY <1>1, <1>3, <1>4, <1>5, <1>7 DEF MapDone, Quiet
<1>13. MapFollowsFont'
  BY <1>1 DEF IInv, MapFollowsFont, RangeOf
<1> QED
  BY <1>8, <1>9, <1>10, <1>11, <1>12, <1>13 DEF IInv

LEMMA ClearInv == ASSUME SetFontAssumption, IInv, ClearMap PROVE IInv'
<1>1. /\ pc = "clear_map" /\ UNCHANGED <<text, font, scrnmap, cmd, tasks, files, table, level, other>>
  BY DEF ClearMap, local
<1>2. \/ unimap' = {} /\ pc' = "put_map" /\ ret' = ret
      \/ unimap' = unimap /\ pc' = "exit" /\ ret' = 1
  BY DEF ClearMap, Fail
<1>3. HasHeads' = HasHeads /\ no_u' = no_u /\ FontPairs' = FontPairs /\ UserPairs' = UserPairs
  BY <1>1, SameHeads, SamePairs
<1>4. ret = 0
  BY <1>1 DEF IInv, Types, Running
<1>5. Types'
  BY <1>1, <1>2 DEF IInv, Types
<1>6. Running'
  BY <1>1, <1>2, <1>4 DEF IInv, Running
<1>7. Pairs'
  BY <1>1, <1>2, <1>3 DEF IInv, Pairs
<1>8. FontDone' /\ ScreenDone'
  BY <1>1 DEF IInv, FontDone, ScreenDone
<1>9. MapDone'
  BY <1>2, <1>4 DEF MapDone, Quiet
<1>10. MapFollowsFont'
  BY <1>1, <1>2 DEF IInv, MapFollowsFont, RangeOf
<1> QED
  BY <1>5, <1>6, <1>7, <1>8, <1>9, <1>10 DEF IInv

LEMMA PutMapInv == ASSUME SetFontAssumption, IInv, PutMap PROVE IInv'
<1>1. /\ pc = "put_map" /\ UNCHANGED <<text, font, scrnmap, cmd, tasks, files, table, other>>
  BY DEF PutMap
<1>2. ret = 0
  BY <1>1 DEF IInv, Types, Running
<1>3. PICK S \in SUBSET table : unimap' = unimap \union S
  <2>1. CASE unimap' = unimap
    <3>1. {} \in SUBSET table /\ unimap = unimap \union {}
      OBVIOUS
    <3> QED
      BY <2>1, <3>1
  <2>2. CASE unimap' = unimap \union table
    BY <2>2
  <2>3. CASE unimap' \in {unimap \union S : S \in SUBSET table}
    BY <2>3
  <2> QED
    BY <2>1, <2>2, <2>3 DEF PutMap
<1>4. \/ unimap' = unimap \union table /\ pc' = "task" /\ level' = level /\ ret' = 0
      \/ pc' = "clear_map" /\ level < MaxLevel /\ level' = level + 1 /\ ret' = 0
      \/ pc' = "exit" /\ ret' = 1 /\ level' = level
  BY <1>2 DEF PutMap, Fail, Raised
<1>5. HasHeads' = HasHeads /\ no_u' = no_u /\ FontPairs' = FontPairs /\ UserPairs' = UserPairs
  BY <1>1, SameHeads, SamePairs
<1>6. /\ FontPairs \subseteq Fonts /\ FontPairs \subseteq RangeOf(files)
      /\ UserPairs \intersect Fonts = {} /\ ("u" \in cmd.options => ~HasHeads)
  BY TaskFacts DEF IInv, HasHeads, no_u
<1>7. \/ HasHeads /\ "fonts" \notin tasks /\ cmd.files # <<>> /\ table = FontPairs
      \/ "u" \in cmd.options /\ "u" \notin tasks /\ table = UserPairs
  BY <1>1 DEF IInv, Pairs
<1>8. level' \in 0 .. MaxLevel
  BY <1>4 DEF IInv, Types, SetFontAssumption
<1>9. Types'
  BY <1>1, <1>3, <1>4, <1>8 DEF IInv, Types
<1>10. Running'
  BY <1>1, <1>2, <1>4 DEF IInv, Running
<1>11. table \intersect Fonts # {} =>
         cmd.files # <<>> /\ "fonts" \notin tasks /\ table \subseteq RangeOf(font.files)
  BY <1>6, <1>7 DEF IInv, FontDone
<1>12. Pairs'
  BY <1>1, <1>3, <1>4, <1>5, <1>7, <1>11 DEF IInv, Pairs
<1>13. FontDone' /\ ScreenDone'
  BY <1>1 DEF IInv, FontDone, ScreenDone
<1>14. MapDone'
  <2>1. ~other /\ pc' = "task" => unimap' = table
    BY <1>1, <1>4 DEF IInv, MapDone
  <2>2. cmd.ufile = "good" => UserPairs = {"umap"}
    BY DEF UserPairs
  <2> QED
    BY <1>1, <1>4, <1>5, <1>6, <1>7, <2>1, <2>2 DEF MapDone, Quiet
<1>15. MapFollowsFont'
  BY <1>1, <1>3, <1>11 DEF IInv, MapFollowsFont, RangeOf
<1> QED
  BY <1>9, <1>10, <1>12, <1>13, <1>14, <1>15 DEF IInv

LEMMA OtherInv == ASSUME SetFontAssumption, IInv, OtherProgram PROVE IInv'
<1>1. /\ unimap' \in OtherMaps /\ other' = TRUE
      /\ UNCHANGED <<text, font, scrnmap, cmd, tasks, pc, files, table, level, ret>>
  BY DEF OtherProgram, local
<1>2. HasHeads' = HasHeads /\ no_u' = no_u /\ FontPairs' = FontPairs /\ UserPairs' = UserPairs
  BY <1>1, SameHeads, SamePairs
<1>3. First' = First /\ unimap' \intersect Fonts = {} /\ (Readable(files)' <=> Readable(files))
  BY <1>1, SameFirst DEF SetFontAssumption, Readable, Mergeable, RangeOf
<1>4. Types'
  BY <1>1, <1>3 DEF IInv, Types
<1>5. Running'
  BY <1>1, <1>3 DEF IInv, Running
<1>6. Pairs'
  BY <1>1, <1>2, <1>3 DEF IInv, Pairs
<1>7. FontDone' /\ ScreenDone'
  BY <1>1 DEF IInv, FontDone, ScreenDone
<1>8. MapDone'
  BY <1>1 DEF MapDone, Quiet
<1>9. MapFollowsFont'
  BY <1>3 DEF MapFollowsFont
<1> QED
  BY <1>4, <1>5, <1>6, <1>7, <1>8, <1>9 DEF IInv

LEMMA StutterInv == ASSUME IInv, UNCHANGED vars PROVE IInv'
<1>1. UNCHANGED <<text, font, unimap, scrnmap, cmd, tasks, pc, files, table, level, ret, other>>
  BY DEF vars
<1>2. HasHeads' = HasHeads /\ no_u' = no_u /\ FontPairs' = FontPairs /\ UserPairs' = UserPairs
  BY <1>1, SameHeads, SamePairs
<1>3. First' = First /\ (Readable(files)' <=> Readable(files))
  BY <1>1, SameFirst DEF Readable, Mergeable, RangeOf
<1>4. Types' /\ Running'
  BY <1>1, <1>3 DEF IInv, Types, Running
<1>5. Pairs' /\ MapDone'
  BY <1>1, <1>2 DEF IInv, Pairs, MapDone, Quiet
<1>6. FontDone' /\ ScreenDone' /\ MapFollowsFont'
  BY <1>1 DEF IInv, FontDone, ScreenDone, MapFollowsFont, RangeOf
<1> QED
  BY <1>4, <1>5, <1>6 DEF IInv

LEMMA NextInv == ASSUME SetFontAssumption, IInv, [Next]_vars PROVE IInv'
<1>1. CASE Start
  BY <1>1, StartInv
<1>2. CASE EndOfTasks
  BY <1>2, EndInv
<1>3. CASE SaveFont \/ SaveConsolemap \/ SaveUnicodemap \/ GetMapSize \/ GetMapEntries \/ LoadConsolemap
  BY <1>3, SavingInv
<1>4. CASE RestoreFont
  BY <1>4, RestoreInv
<1>5. CASE LoadFonts \/ FollowCombine \/ ReadFonts
  BY <1>5, ReadingInv
<1>6. CASE PutFont \/ PutFontAgain
  BY <1>6, PuttingInv
<1>7. CASE LoadUnicodemap
  BY <1>7, UserMapInv
<1>8. CASE ClearMap
  BY <1>8, ClearInv
<1>9. CASE PutMap
  BY <1>9, PutMapInv
<1>10. CASE OtherProgram
  BY <1>10, OtherInv
<1>11. CASE Finished \/ UNCHANGED vars
  BY <1>11, StutterInv DEF Finished
<1> QED
  BY <1>1, <1>2, <1>3, <1>4, <1>5, <1>6, <1>7, <1>8, <1>9, <1>10, <1>11 DEF Next, Step

-----------------------------------------------------------------------------
(* The inductive invariant.                                                *)
LEMMA Inductive == Spec => []IInv
<1>1. Init => IInv
  BY SetFontAssumption, InitInv
<1>2. IInv /\ [Next]_vars => IInv'
  BY SetFontAssumption, NextInv
<1> QED
  BY <1>1, <1>2, PTL DEF Spec

(* Whatever fails, is retried or is changed by another program, setfont    *)
(* puts the pairs of a font file into the Unicode map only when that file  *)
(* is in the console's font.                                               *)
THEOREM TheMapFollowsFont == Spec => []MapFollowsFont
<1>1. IInv => MapFollowsFont
  BY DEF IInv
<1> QED
  BY <1>1, Inductive, PTL

(* When setfont ends with success on a text console, and no other program  *)
(* was there, font, Unicode map and screen map are what was asked for.     *)
THEOREM SuccessIsComplete == Spec => []LoadedOnSuccess
<1>1. ASSUME IInv PROVE LoadedOnSuccess
  <2> SUFFICES ASSUME pc = "exit", ret = 0, text, ~other PROVE LoadedOnSuccess
    BY DEF LoadedOnSuccess
  <2>1. tasks = {}
    BY <1>1 DEF IInv, Running
  <2>2. HasHeads => cmd.files # <<>>
    BY <1>1 DEF IInv, Running, HasHeads
  <2>3. cmd.files # <<>> => font.files = files /\ font.count \in {256, 512}
                            /\ (font.whole \/ files[1] \in Tall)
    BY <1>1, <2>1 DEF IInv, FontDone
  <2>4. HasHeads => unimap = RangeOf(files) \intersect HasTable
    BY <1>1, <2>1, <2>2 DEF IInv, MapDone, Quiet, FontPairs
  <2>5. "u" \in cmd.options /\ cmd.ufile = "good" => unimap = {"umap"}
    BY <1>1, <2>1 DEF IInv, MapDone, Quiet
  <2>6. "m" \in cmd.options => scrnmap = "loaded"
    BY <1>1, <2>1 DEF IInv, ScreenDone
  <2> QED
    BY <2>3, <2>4, <2>5, <2>6 DEF LoadedOnSuccess
<1> QED
  BY <1>1, Inductive, PTL

(* The state keeps its shape: the advised hash level keeps to its bound,   *)
(* and only fonts that were read are given to the kernel.                  *)
THEOREM TypeCorrect == Spec => []TypeOK
<1>1. IInv => TypeOK
  BY DEF IInv, Types, TypeOK
<1> QED
  BY <1>1, Inductive, PTL
=============================================================================
