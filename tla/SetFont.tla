------------------------------ MODULE SetFont -------------------------------
(***************************************************************************)
(* setfont: src/src/setfont.c (main) and the parts of libkfont it drives:  *)
(* loading a font, or several merged into one, with its Unicode table      *)
(* (libkfont/setfont.c), the ioctls for fonts (kdfontop.c) and for the     *)
(* Unicode map (kdmapop.c), and the map files (loadunimap.c, mapscrn.c).   *)
(*                                                                         *)
(* Each ioctl is a step.  Another program may change the console's Unicode *)
(* map between any two of them.  A font is told by the files it was made   *)
(* from, a Unicode map by the set of the tables whose pairs it holds.      *)
(***************************************************************************)
EXTENDS Naturals, Sequences, FiniteSets

CONSTANTS
    Fonts,          \* font files, and what is in them:
    Kind,           \* Fonts -> "psf", "raw", "combine", "bad" or "missing"
    Parts,          \* Fonts -> the files a combine file names
    HasTable,       \* psf files with a Unicode table
    Tall,           \* files whose glyphs have more than 32 rows
    Count,          \* Fonts -> number of glyphs
    Commands,       \* command lines: options, font files, the file of -u
    MaxLevel,       \* bound of the advised hash level: 100
    OtherMaps       \* what other programs make of the Unicode map: pairs of their own

(* -O, -o, -om, -ou, -m, -R, -u, -u none and -f.                           *)
Options == {"O", "o", "om", "ou", "m", "R", "u", "u none", "f"}

ASSUME SetFontAssumption ==
    /\ Kind \in [Fonts -> {"psf", "raw", "combine", "bad", "missing"}]
    /\ Count \in [Fonts -> Nat] /\ HasTable \subseteq Fonts /\ Tall \subseteq Fonts
    /\ \A f \in Fonts : Parts[f] \in Seq(Fonts)
    /\ MaxLevel \in Nat
    /\ \A c \in Commands : c.files \in Seq(Fonts) /\ c.options \subseteq Options
    /\ Fonts \intersect {"boot", "umap"} = {}
    /\ \A m \in OtherMaps : m \intersect Fonts = {}

VARIABLES
    text,           \* kernel: the console is in text mode, not graphics
    font,           \* kernel: the font: files, glyphs, and whether each is whole
    unimap,         \* kernel: the Unicode map
    scrnmap,        \* kernel: the screen map
    cmd,            \* the command line
    tasks,          \* what main has still to do
    pc,
    files,          \* the font files of the running kfont_load_fonts
    table,          \* the pairs to load
    level,          \* advice.advised_hashlevel
    room,           \* entries the buffer of kfont_get_unicodemap holds
    saved,          \* entries written to the output file
    ret,            \* 0 or an error
    other           \* history: another program changed the map

vars == <<text, font, unimap, scrnmap, cmd, tasks, pc, files, table, level, room, saved, ret, other>>
kernel == <<text, font, unimap, scrnmap>>
local == <<files, table, level, room, saved>>

BootFont == [files |-> <<>>, count |-> 256, whole |-> TRUE]
BootMap == {"boot"}

RangeOf(s) == {s[i] : i \in DOMAIN s}
Sum(s) == LET Up[n \in 0 .. Len(s)] == IF n = 0 THEN 0 ELSE Up[n - 1] + Count[s[n]] IN Up[Len(s)]

(* main: the order of the options' effects, whatever their order on the    *)
(* command line.                                                           *)
AllTasks == <<"O", "o", "om", "ou", "m", "R", "fonts", "u">>

Tasks(c) == (c.options \ {"u none", "f"}) \union (IF c.files # <<>> THEN {"fonts"} ELSE {})

First == AllTasks[CHOOSE i \in DOMAIN AllTasks :
                    AllTasks[i] \in tasks /\ \A j \in 1 .. i - 1 : AllTasks[j] \notin tasks]

no_u == "u none" \in cmd.options \/ "u" \in cmd.options

Init ==
    /\ text \in BOOLEAN
    /\ font = BootFont
    /\ unimap = BootMap
    /\ scrnmap = "boot"
    /\ cmd \in Commands
    /\ tasks = Tasks(cmd)
    /\ pc = "start"
    /\ files = <<>> /\ table = {} /\ level = 0 /\ room = 0 /\ saved = {}
    /\ ret = 0
    /\ other = FALSE

Fail == ret' = 1 /\ pc' = "exit"
EndTask == tasks' = tasks \ {First}
NextTask == EndTask /\ pc' = "task"

(* main: files and -R exclude each other; nothing on a graphics console.   *)
Start ==
    /\ pc = "start"
    /\ IF cmd.files # <<>> /\ "R" \in cmd.options THEN Fail
       ELSE pc' = (IF text THEN "task" ELSE "exit") /\ UNCHANGED ret
    /\ UNCHANGED <<kernel, cmd, tasks, local, other>>

EndOfTasks ==
    /\ pc = "task" /\ tasks = {}
    /\ pc' = "exit"
    /\ UNCHANGED <<kernel, cmd, tasks, local, ret, other>>

Task(t) == pc = "task" /\ t \in tasks /\ t = First

(* save_font: KDFONTOP for the size and again for the glyphs (the second   *)
(* may fail on what another program loaded meanwhile).                     *)
SaveFont ==
    /\ Task("o") \/ Task("O")
    /\ \/ Fail /\ UNCHANGED tasks
       \/ Task("o") /\ NextTask /\ UNCHANGED ret
       \/ Task("O") /\ pc' = "get_map" /\ UNCHANGED <<tasks, ret>>
    /\ UNCHANGED <<kernel, cmd, local, other>>

(* kfont_save_consolemap.                                                  *)
SaveConsolemap ==
    /\ Task("om")
    /\ \/ Fail /\ UNCHANGED tasks
       \/ NextTask /\ UNCHANGED ret
    /\ UNCHANGED <<kernel, cmd, local, other>>

(* kfont_save_unicodemap opens its file.                                   *)
SaveUnicodemap ==
    /\ Task("ou")
    /\ \/ Fail
       \/ pc' = "get_map" /\ UNCHANGED ret
    /\ UNCHANGED <<kernel, cmd, tasks, local, other>>

(* kfont_get_unicodemap: GIO_UNIMAP without room tells how many entries    *)
(* there are; none is no error, any other answer is.                       *)
GetMapSize ==
    /\ pc = "get_map"
    /\ \/ Fail /\ UNCHANGED <<room, saved, tasks>>
       \/ /\ room' = Cardinality(unimap)
          /\ IF unimap = {} THEN saved' = {} /\ NextTask
             ELSE pc' = "get_map_entries" /\ UNCHANGED <<saved, tasks>>
          /\ UNCHANGED ret
    /\ UNCHANGED <<kernel, cmd, files, table, level, other>>

(* ... and again with that much room: more entries by now are an error,    *)
(* fewer are not.                                                          *)
GetMapEntries ==
    /\ pc = "get_map_entries"
    /\ \/ Fail /\ UNCHANGED <<saved, tasks>>
       \/ Cardinality(unimap) <= room /\ saved' = unimap /\ NextTask /\ UNCHANGED ret
    /\ UNCHANGED <<kernel, cmd, files, table, level, room, other>>

(* kfont_load_consolemap and kfont_activatemap.                            *)
LoadConsolemap ==
    /\ Task("m")
    /\ \/ Fail /\ UNCHANGED <<scrnmap, tasks>>
       \/ scrnmap' = "loaded" /\ NextTask /\ UNCHANGED ret
    /\ UNCHANGED <<text, font, unimap, cmd, local, other>>

(* kfont_restore_font; main does not look at its result.                   *)
RestoreFont ==
    /\ Task("R")
    /\ font' \in {BootFont, font}
    /\ NextTask
    /\ UNCHANGED <<text, unimap, scrnmap, cmd, local, ret, other>>

(* main calls kfont_load_fonts.                                            *)
LoadFonts ==
    /\ Task("fonts")
    /\ files' = cmd.files
    /\ pc' = "read"
    /\ UNCHANGED <<kernel, cmd, tasks, table, level, room, saved, ret, other>>

(* kfont_load_font finds a combine file: kfont_load_fonts again.           *)
FollowCombine ==
    /\ pc = "read" /\ Len(files) = 1 /\ Kind[files[1]] = "combine"
    /\ files' = Parts[files[1]]
    /\ UNCHANGED <<kernel, cmd, tasks, pc, table, level, room, saved, ret, other>>

(* kfont_load_fonts merges psf files of the same size only.                *)
Mergeable(s) ==
    \A f \in RangeOf(s) : Kind[f] = "psf" /\ (f \in Tall <=> s[1] \in Tall)

Readable(s) == IF Len(s) = 1 THEN Kind[s[1]] \in {"psf", "raw"} ELSE s # <<>> /\ Mergeable(s)

(* The file, or all the files, are read; the Unicode tables make one.      *)
ReadFonts ==
    /\ pc = "read"
    /\ Len(files) = 1 => Kind[files[1]] # "combine"
    /\ IF Readable(files)
       THEN /\ pc' = "put_font"
            /\ table' = IF no_u THEN {} ELSE RangeOf(files) \intersect HasTable
            /\ UNCHANGED ret
       ELSE Fail /\ UNCHANGED table
    /\ UNCHANGED <<kernel, cmd, tasks, files, level, room, saved, other>>

(* uclistheads is allocated by every psf file that is read without -u, one *)
(* without a table too: do_loadtable then loads a table of no pairs, and   *)
(* the branch that would load def.uni for a default font is never taken.   *)
HasHeads == ~no_u /\ files # <<>> /\ \A f \in RangeOf(files) : Kind[f] = "psf"

AfterFont == IF HasHeads THEN "clear_map" ELSE "task"

(* Mutant: the table is loaded whether the font was or not.                *)
PutFontOrNot ==
    /\ pc = "put_font"
    /\ font' \in {font, [files |-> files, count |-> Sum(files), whole |-> TRUE]}
    /\ EndTask /\ pc' = AfterFont
    /\ level' = 0
    /\ UNCHANGED <<text, unimap, scrnmap, cmd, files, table, room, saved, ret, other>>

(* put_font_kdfontop: the kernel wants 256 or 512 glyphs; with fewer than  *)
(* 512 there is a second try, any other error is final.                    *)
PutFont ==
    /\ pc = "put_font"
    /\ \/ /\ Sum(files) \in {256, 512}
          /\ font' = [files |-> files, count |-> Sum(files), whole |-> TRUE]
          /\ EndTask /\ pc' = AfterFont
          /\ UNCHANGED ret
       \/ /\ Sum(files) \notin {256, 512} /\ Sum(files) < 512
          /\ pc' = "put_font_again"
          /\ UNCHANGED <<font, tasks, ret>>
       \/ Fail /\ UNCHANGED <<font, tasks>>
    /\ level' = 0
    /\ UNCHANGED <<text, unimap, scrnmap, cmd, files, table, room, saved, other>>

(* The second try: the count is rounded up, and 32 rows of each glyph are  *)
(* copied to the new buffer.                                               *)
PutFontAgain ==
    /\ pc = "put_font_again"
    /\ \/ /\ font' = [files |-> files, count |-> IF Sum(files) > 256 THEN 512 ELSE 256,
                      whole |-> files[1] \notin Tall]
          /\ EndTask /\ pc' = AfterFont
          /\ UNCHANGED ret
       \/ Fail /\ UNCHANGED <<font, tasks>>
    /\ UNCHANGED <<text, unimap, scrnmap, cmd, local, other>>

(* kfont_load_unicodemap: an empty map is not loaded without -f.           *)
LoadUnicodemap ==
    /\ Task("u") /\ EndTask
    /\ \/ /\ cmd.ufile \in {"missing", "bad"}
          /\ Fail /\ UNCHANGED <<table, level>>
       \/ /\ cmd.ufile = "empty" /\ "f" \notin cmd.options
          /\ pc' = "task" /\ UNCHANGED <<table, level, ret>>
       \/ /\ cmd.ufile = "good" \/ (cmd.ufile = "empty" /\ "f" \in cmd.options)
          /\ table' = IF cmd.ufile = "empty" THEN {} ELSE {"umap"}
          /\ level' = 0
          /\ pc' = "clear_map"
          /\ UNCHANGED ret
    /\ UNCHANGED <<kernel, cmd, files, room, saved, other>>

(* Mutant: the old map is not cleared.                                     *)
ClearMapNot ==
    /\ pc = "clear_map"
    /\ pc' = "put_map"
    /\ UNCHANGED <<kernel, cmd, tasks, local, ret, other>>

(* kfont_put_unicodemap: PIO_UNIMAPCLR.                                    *)
ClearMap ==
    /\ pc = "clear_map"
    /\ \/ unimap' = {} /\ pc' = "put_map" /\ UNCHANGED ret
       \/ Fail /\ UNCHANGED unimap
    /\ UNCHANGED <<text, font, scrnmap, cmd, tasks, local, other>>

(* Mutant: the advice is never raised.                                     *)
RaisedNever == level

Raised == level + 1

(* kfont_put_unicodemap: PIO_UNIMAP adds the pairs; out of memory it may   *)
(* have added some, and all starts again with a higher hash level.         *)
PutMap ==
    /\ pc = "put_map"
    /\ \/ unimap' = unimap \union table /\ pc' = "task" /\ UNCHANGED <<level, ret>>
       \/ /\ unimap' \in {unimap \union S : S \in SUBSET table}
          /\ IF level < MaxLevel THEN level' = Raised /\ pc' = "clear_map" /\ UNCHANGED ret
             ELSE Fail /\ UNCHANGED level
       \/ Fail /\ UNCHANGED <<unimap, level>>
    /\ UNCHANGED <<text, font, scrnmap, cmd, tasks, files, table, room, saved, other>>

(* Another program loads a Unicode map.                                    *)
OtherProgram ==
    /\ pc # "exit" /\ ~other
    /\ unimap' \in OtherMaps
    /\ other' = TRUE
    /\ UNCHANGED <<text, font, scrnmap, cmd, tasks, pc, local, ret>>

Finished == pc = "exit" /\ UNCHANGED vars

Step ==
    \/ Start \/ EndOfTasks
    \/ SaveFont \/ SaveConsolemap \/ SaveUnicodemap \/ GetMapSize \/ GetMapEntries
    \/ LoadConsolemap \/ RestoreFont
    \/ LoadFonts \/ FollowCombine \/ ReadFonts \/ PutFont \/ PutFontAgain
    \/ LoadUnicodemap \/ ClearMap \/ PutMap

Next == Step \/ OtherProgram \/ Finished

Spec == Init /\ [][Next]_vars

(* The program runs.                                                       *)
FairSpec == Spec /\ WF_vars(Step)
-----------------------------------------------------------------------------
(* Properties                                                              *)

(* The shape of the state.                                                 *)
TypeOK ==
    /\ text \in BOOLEAN /\ other \in BOOLEAN /\ ret \in {0, 1}
    /\ unimap \subseteq Fonts \union {"umap"} \union BootMap \union UNION OtherMaps
    /\ level \in 0 .. MaxLevel
    /\ pc = "put_font" => files # <<>> /\ Readable(files)

(* The pairs of a font file are in the map only while that file is in the  *)
(* font: the table follows the font, never the other way round, and a font *)
(* that could not be loaded leaves the map as it was.                      *)
MapFollowsFont == unimap \intersect Fonts \subseteq RangeOf(font.files)

(* An exit with success, undisturbed, on a text console: every font file   *)
(* of the command line is loaded, and the map holds exactly the pairs of   *)
(* the tables of the psf files, or of the file of -u, none of it lost or   *)
(* left over by the retries: nothing at all after psf files without one.   *)
(* (Glyphs of more than 32 rows are not whole after a second try.)         *)
LoadedOnSuccess ==
    (pc = "exit" /\ ret = 0 /\ text /\ ~other) =>
        /\ cmd.files # <<>> => font.files = files /\ font.count \in {256, 512}
                              /\ (font.whole \/ files[1] \in Tall)
        /\ HasHeads => unimap = RangeOf(files) \intersect HasTable
        /\ "u" \in cmd.options /\ cmd.ufile = "good" => unimap = {"umap"}
        /\ "m" \in cmd.options => scrnmap = "loaded"

(* The retries of kfont_put_unicodemap end, and so does the program (with  *)
(* no combine file that leads back to itself).                             *)
Terminates == <>(pc = "exit")
=============================================================================
