# kbd: models, checks and proofs

This directory models the parts of kbd that keep state, talk to the kernel in several steps, or
run next to other processes and signals. Source paths are relative to the repository; the C code
is under `src/`. `PROJECT.json` lists the components, the runs with their properties and mutants,
the source lines behind every definition, the hazards and the theorems.

## 1. The system

kbd is a set of small programs for the Linux console and three libraries.

| part | state it keeps | operations | talks to |
|---|---|---|---|
| libkeymap arrays (`libkeymap/array.c`) | memory, `total`, `count` | set, unset, append, empty | every table of `lk_ctx` |
| key tables (`kmap.c`, `parser.y`) | tables, keysyms, one-entry keys, keywords | keymaps, alt_is_meta and keycode lines, `lk_add_constants` | arrays, parser |
| scanner and includes (`analyze.l`) | `ctx->stack`, flex buffers | push, pop, include, end of file | libkbdfile, parser |
| libkbdfile (`kbdfile.c`) | `fd`, flags, pathname | find, open, close | file system, decompressors |
| loadkeys (`loadkeys.c`, `libkeymap/loadkeys.c`) | flags, exit code; the kernel's keyboard mode and tables | parse files, switch mode, load, restore | keyboard ioctls |
| dumpkeys (`dumpkeys.c`, `dump.c`, `kernel.c`, `summary.c`) | a context read from the kernel | read tables, choose a shape, write lines | keyboard ioctls, loadkeys |
| showkey (`showkey.c`) | keyboard mode, terminal attributes, alarm | main, two signal handlers | keyboard ioctls, signals |
| vlock (`vlock/*.c`) | VT mode, handlers, screen, PAM handle | set up, authenticate, restore | VT ioctls, signals, PAM |
| openvt, chvt, deallocvt | the consoles, a child, a timer | find, open, claim, switch, wait, deallocate | VT ioctls, other programs |
| setfont (`setfont.c`, `libkfont/*.c`) | font, Unicode map, screen map of the console | save, load, combine, retry | font and map ioctls |
| xkb conversion (`xkbsupport.c`) | modifier masks, reachable symbols, the tables and compose rules it makes | check names, walk, compose, fill | libxkbcommon, key tables |
| keysyms (`ksyms.c`, `print_keysym` of `dump.c`) | `charset`, the preference for Unicode | code to name, name to code, charset lines | scanner, parser, dumpkeys |
| psf fonts and tables (`psffontop.c`, `unicode.c`, `utf8.c`, `libkfont/psfxtable.c`, `psfxtable.c`) | font files, text tables | read, write, add, get and strip a table | setfont, files |
| map files (`libkfont/loadunimap.c`, `loadunimap.c`) | a growing list of pairs | parse, load, save | map ioctls, files |
| the one-ioctl programs | - | conversions | - |

What is hard here is not in any single function: signal handlers that run clean-up code at any
point, ioctls that fail after half of the work, kernel state (keyboard mode, consoles, maps)
shared with other programs, results that are old when they are used, retries, bounded arrays and
counters, and conventions between two programs (dumpkeys writes what loadkeys completes) or with
the kernel (which table a release is looked up in).

What makes each part correct: an array never loses or invents an item; a keymap file means the
same whatever the order of its lines' side effects; what dumpkeys writes loads back; the file
found is the documented one and is closed as it was opened; whatever fails, the keyboard mode, the
terminal and the console come back; a console belongs to one command; a font and its Unicode map
go together; a table of a font survives every tool that reads and writes it; the name dumpkeys
prints for a code is read as that code; converted keys type what XKB types, and no modifier stays
held.

## 2. Modules

| module | models | actions |
|---|---|---|
| `LkArray`, `LkList` | `lk_array`; the list a parser line expects | the array calls, by three kinds of owner (who only sets and unsets, only appends and empties, mixes) |
| `Keymap` | `kmap.c` and the rules of `parser.y` | one action per line kind, one per column stored, one per table filled by `lk_add_constants` |
| `IncludeStack` | `stack_push`, `stack_pop`, the include and `<<EOF>>` rules, `lk_parse_keymap` and its caller | one per rule and call |
| `Ksyms` | `codetoksym`, `ksymtocode`, `convert_code`, `add_capslock`, `print_keysym`, the rvalue rules, over any tables of names | operators only |
| `KeymapText` | `IncludeStack` and `Ksyms` together: files with charset lines and keysyms, parsed into one context | those of `IncludeStack`; a charset line, a key line |
| `KbdFind` | `kbdfile_find`, the recursion of `findfile_in_dir`, `maybe_pipe_open`, `open_pathname`, `kbdfile_close`; the calls `find_incl_file` makes | one per scanned entry, opened path and returned frame; another program removes a file |
| `KeymapLoad` | `loadkeys` and `lk_load_keymap` | one per ioctl or group that nothing can come between; terminal hang-up |
| `KeymapDump` | `lk_kernel_keys`, `lk_dump_keymaps`, `lk_dump_keys`, the probes of `lk_dump_summary` | reading, writing, then the actions of `Keymap` (INSTANCE) over the lines written |
| `ShowKey` | `showkey` | one per system call of main and of `clean_up`; signals and the clock |
| `VLock` | `vlock` | one per system and PAM call; `release_vt`, `acquire_vt`; other users of the consoles |
| `OpenVt` | `openvt`, `chvt`, `deallocvt` | one per system call of main and of the child; keyboard, logout, the driver's switch |
| `SetFont` | `setfont` and its part of libkfont | one per task of main, font file, ioctl; another program changes the map |
| `PsfFont` | psf1 and psf2 files: header, number of bitmap bytes, the table as bytes in two encodings; the text form of a table | operators only |
| `FontTables` | psfaddtable, psfgettable, psfstriptable, psfxtable; setfont, `setfont -O`, loadunimap, `loadunimap -o` as users of the same files | one per run of a program, with a write that may be cut short |
| `Xkb` | `convert_xkb_keymap`; the console and XKB afterwards | check, walk, compose, fill; press and release of a key |
| `KeymapProofs` (with `LkArray`), `KeymapTextProofs` (with `IncludeStack` and `Ksyms`), `KeymapLoadProofs`, `ConsoleProofs` (`ShowKey` and `VLock`), `OpenVtProofs`, `SetFontProofs`, `KbdFindProofs`, `XkbProofs` | | inductive invariants and theorems |

Each `MCx` module gives the constants of `x` small values, and `MCx.cfg` is its run.

Conventions. Names follow the source (`lk_array_append`, `release_vt`, `okdir`). A program's
position is `pc` (`at` in `VLock`), a label close to the call that comes next. The specification of
`LkArray` is `ArraySpec` and that of `VLock` is `FairLockSpec`, so that a module of proofs can extend
two components; elsewhere it is `Spec`. Definitions commented `Mutant:` are
deliberate errors: replacing the definition after them breaks the property that `PROJECT.json`
names, so no property holds just by the shape of its model.

How state corresponds to the code, where it is not plain from the names:

* `Keymap.keys` is the `keymap` array of arrays; `NoKey` is an item that `lk_array_exists` does
  not find, `K_HOLE` is VoidSymbol. `constant` is `key_constant`, `keywords` the two `LK_KEYWORD`
  bits. A code is its type and value; the code that the parser rejects is `BadCode`. `explicit` is
  a history variable: what the last line that named a cell put there.
* `KeymapLoad.kmap` are the kernel's tables, `NoMap` one that is not allocated; `ctx` is what the
  parser made of the files. `KDSKBENT` and the other operators named after ioctls are the sets of
  results the kernel may give for a user, a key and a table. `was` is the mode before the start.
  `TooLarge` stands for any number of a key line that does not fit 16 bits: `set_keymap_table` warns
  and leaves that key as it is.
* `KbdFind.stack` is the C stack of `findfile_in_dir`: directory, place in `scandir`'s list,
  remaining depth and pass. `streams` records how each stream was opened and closed.
* `ShowKey.clock` counts the seconds to the alarm. `saved` tells which of `oldkbmode` and `old`
  are set; `start` is what the console had when the program started. `readable` tells whether `getfd`
  got a console that can be read, `hungup` that the terminal is gone: either makes every read fail.
* `VLock.switching` is the kernel's side of VT_PROCESS: a release that waits for an answer.
  `setup` tells how far `init_vt` got, `passed` the PAM calls that succeeded in this try. `hold` is a
  history variable: "front" once the console is in front and no SIGUSR2 is to come any more, "given"
  when `acquire_vt` completed a release that waited (`VT_RELDISP` with anything but 0 does).
* `OpenVt.vtno` and `cvt` are two copies of one C variable: fork gives the child its own.
  `session` is the kernel's controlling session of a console, `opens` who has it open.
* `Xkb.keymap` is a keymap as libxkbcommon compiles it: for each key its layouts, each with the
  real modifiers that choose a level. `tables` is indexed by sets of console bits, `NoCode` is a
  key that `lk_key_exists` does not find. `down` and `lock` are the kernel's `shift_down` and lock
  state; `action` and `locked` are the same key presses under XKB, the reference, as in
  `tests/libkeymap/libkeymap-test54.c`. The step functions of libxkbcommon and of the kernel are
  external: taken from how `xkbsupport.c` and that test use them.
* `Ksyms`: a code is the number of the C code (`K(type, value)` below 0x1000, a character xor 0xf000
  above); a name is an atom, and the prefixes `Meta_` and `dead2_` are a field of their own.
  `KeymapText.charset` and `unicode` are `ctx->charset` and `LK_FLAG_PREFER_UNICODE`; `codes` are the
  codes bound so far; `before` remembers the context at the start of a call.
* `FontTables.fonts` and `texts` are files; `umap` is the kernel's map. `meant` is a history variable:
  the table (or map) that a file was meant to hold, or that its writing was cut. Whether a program
  notices the cut does not matter to what it leaves: the results of `fclose` are not looked at.
* `SetFont.unimap` is a set of tables rather than of pairs: the properties only tell which tables
  are in the map, and whether one is there in part. `tasks` is the set of what main has still to do,
  and `First` the one whose turn it is in the order of main.

## 3. Runs

| run | shows | distinct states |
|---|---|---|
| `MCLkArray` | `count` is never below the number of present items, so `count--` cannot wrap; the array of an owner that appends and empties implements `LkList`, so nothing is overwritten and nothing old comes back | 1 thousand |
| `MCKeymap` | every sequence of lines: one-entry lines reach every table, nothing a line said is overridden by completion or by alt_is_meta, "impossible error" is impossible, no definition from before a one-entry line survives it in any table | 29 thousand |
| `MCKeymapText` | scanner and `ctx->stack` agree within the array's size, files are closed once and by their owner, the context is that of textual inclusion (a charset line in an include counts for what follows), parsing ends; the names dumpkeys prints for the codes bound load as the same codes, or type the same character | 7 thousand |
| `MCKbdFind` | the file opened is the first of the documented order, every stream is closed once and as it was opened, the search ends | 156 thousand |
| `MCKeymapLoad` | the mode comes back after any failure but a hang-up, exit 0 means that all was loaded, except keys with a number above 16 bits, which stay as they were, and except that nothing at all is loaded when a file is missing after a good one; no key is loaded before the last file parsed; Unicode keysyms are loaded in Unicode mode | 27 thousand |
| `MCKeymapDump` | what dumpkeys writes loads without error and gives the same tables; shapes without short-hands give every key back; short-hands only replace VoidSymbol or a letter's columns | 136 thousand |
| `MCShowKey` | the console is restored at every exit after the modes were read, unless its terminal is hung up, the alarm is a whole timeout after the last key, the program ends without keys as long as reads do not fail | 42 thousand |
| `MCVLock` | the locked console stays in front (one exception, section 5), the console is given back at every exit, no signal finds vlock without a handler, only a complete PAM sequence (or the loss of the terminal) unlocks, requests of the kernel are answered | 10 thousand |
| `MCOpenVt` | commands do not share consoles, a switch is not waited for in vain | 300 thousand |
| `MCXkb` | after any presses and releases no modifier stays held, a key types what XKB types in every group and level; the compose rules are the best ones, one for each pair of inputs | 71 thousand |
| `MCSetFont` | a Unicode map is never left behind by a font that failed to load, exit 0 means the font and map asked for, setfont ends | 14 thousand |
| `MCFontTables` | a table that a font or text file can hold is read back from every file that came of it, after any four programs; a font cut anywhere is refused; setfont shows the single characters of the table, each cut to 16 bits; a map file below the counter's limit is loaded whole | 102 thousand |

Bounds, and why they are enough:

* Three key tables where one is plain, one has Shift and one Alt: completion, the capital letters
  and alt_is_meta each need one kind. One key is enough for `Keymap`, where keys do not interact;
  `KeymapDump` has three, so that the ranges of separate lines begin, continue and end.
* `MaxDepth = 4` includes with files that include themselves and each other reach the limit.
* Directory trees of two levels with a link back to the top, two extensions and two suffixes: each
  of the four orders of the search (pass, directory, suffix, path) has two candidates somewhere.
* `MaxTotal = 4` array items: growth by one and by more, gaps, and a list that empties twice.
* `Timeout = 3` seconds: before, at and after the alarm. Three consoles for vlock: the locked one,
  one that is wanted, one that was in front.
* Two programs and four consoles for `OpenVt`: the race for the first free console, one console
  to fall back to, and one (`Limit`) that v_state has no bit for. One switch at the keyboard.
* `MCKeymapText`: four charsets, of which one shares a letter with iso-8859-1, one has it at another
  byte, one (as mazovia) has it at two, and one (as iso-8859-7) has mu for another character than
  iso-8859-1; each kind of keysym (name, number, `U+`, with and without
  `+`, `Meta_`, `dead2_`, synonym, unknown) in a file, three files one after another.
* `MCFontTables`: characters at 0x7f, 0x80, 0x7ff, 0x800, 0xfffd, the marks 0xfffe and 0xffff and
  0x10000; fonts of two and three glyphs in place of 256 and 512; `CountMod = 6` and `Chunk = 2` in
  place of 65536 and 4096, so that the list grows twice and the counter wraps. Four programs and one
  cut: text to font, font to font, to the console, and back.
* `MaxLevel = 3` hash levels for PIO_UNIMAP: retries from the first, in the middle and at the end.

* `MCXkb`: five keys, of which at most three are held, are two Shifts, a modifier, a group key and
  a letter: a release hidden by another key needs two held, an inner group change a third. One to
  four layouts cover each row of `layouts`. `MaxDiacr = 2` with four candidates overflows.

`NoStuckModifier` leaves out a modifier that some key has in one table while it has another action
in another (see 5), for that modifier only; Mode_switch has no exception. `TypesTheSame` leaves out
keymaps with such a key, and the next-group key of three layouts, which the console's two toggles
cannot make a cycle. The exclusions are needed: without either TLC finds a counterexample.

`NamesRoundTrip` states which codes come back: on an 8-bit console every code but a Unicode one,
under every charset whose names are at one place each; on a Unicode console what the key types,
unless dumpkeys is told a charset and the code is a byte, or the character has a name that another
charset has for another character (`Ambiguous`). Codes of a type that neither the library nor the
kernel knows (`Known`) have no name to read back. Section 5 says what happens otherwise.
`TablesKept` leaves out tables that a format has no form for: a single character after a sequence
(psf), U+FFFE and above (psf1), above U+FFFF (text).

Fairness. All liveness properties use weak fairness of the steps of one process: the scheduler
runs it, and system calls return. `VLock` adds that the user's answer to PAM is not assumed;
`ShowKey` that the clock goes on; `OpenVt` that the console driver carries out a request it has.
Nothing is assumed of other programs, users, or failures. `OpenVt!SwitchEnds` is limited to a
program that is alone in asking for switches: two that want different consoles depend on timing.

## 4. Proofs

TLAPS proves, for all values of the constants that satisfy the named assumptions:

* `KeymapProofs`, arrays. The invariant is typing and "at most `count` items are present"
  (`CountNeverWraps`); for owners that set and unset it is an equality (`SparseCount`); for
  owners that append and empty, "items below `count` are there, items from `count` on are zero"
  (`AppendNeverOverwrites`), from which each step is shown to be a step of `LkList` under the
  mapping `AsList` (`KeyLineIsList`). The lemmas are about the set of present items when one is
  stored, removed or the array grows. `CountIsPresent` and `AppendSlotFree` are proved and not
  repeated in a run.
* `KeymapProofs`, key tables. `TypeCorrect`, `ImpossibleErrorNever`, `ConstantsReachAllMaps`,
  `TheLastLineWins`, `OldDefinitionsKilled`. The invariant adds to typing: cells of tables that do
  not exist are empty; a one-entry key has a keysym in the table `lk_add_constants` reads (the plain
  one, or the first of the keymaps line); during completion the tables already passed are filled.
  The middle part is why "impossible error" cannot happen and is not visible in any single function.
  For `TheLastLineWins` it is joined by `LineWins`: while lines are read every cell that a line named
  holds that line's entry (so alt_is_meta gives only to cells without one), and completion keeps
  it, the CapsLock form of a plain letter aside, because the plain table comes first in its loop.
  `OldDefinitionsKilled` (`NothingLeftOver`) rests on `Origin`: before completion an entry that no line
  gave is a copy of alt_is_meta; during it such an entry is also what the one-entry line means for the
  table, and the table the entry is read from keeps that meaning while the loop writes (it is the
  lowest there is, so no Alt copy falls into it).
* `KeymapTextProofs`, includes. `ScannerFollowsStack` and `FilesClosedByOwner`, of the specification with text,
  for callers that stop at the first error (`~GoesOn`, as loadkeys does; section 5 says what happens
  otherwise). The invariant: the stack holds open files, each once, the caller's at the bottom and
  nowhere else - so `stack_pop`, which closes all but the bottom, closes included files only; an
  included file is on the stack, was closed once, or found no place; the scanner's buffers are those
  of the stack; between calls the stack is empty. The steps of `KeymapText` are shown to move the
  stack as those of `IncludeStack`.
* `KeymapTextProofs`, names. `NamesComeBack` (`NamesRoundTrip`), for any tables of names with the shape
  of the library's, any files and any caller. The invariant is small (`ContextInv`: the charset is one
  of the library's, each bound code has 16 bits); the work is in lemmas about `ksymtocode` and
  `codetoksym`: where the first table with a name is, that a name of a type is found in that type
  and not in a charset, that a character's name is found at that character unless it is ambiguous,
  that `convert_code` and `add_capslock` undo what `print_keysym` did to a letter. They are put
  together per type of code and per kind of console.
* `KeymapLoadProofs`. `ModeIsRestored`, `UnicodeIsTaken`, `LoadIsComplete`, each for a loadkeys that
  has the console to itself (`Alone`: one process). That is needed: the mode is shared, and two
  processes can leave it switched (section 5). The invariant `ModeInv` relates the position in
  `set_keymap` with the mode, the mode saved and the flags; `LoadInv` tells, for each table, key,
  string and accent, whether it is still to come or is in the kernel, under the condition that
  nothing was refused; a key with a number above 16 bits is shown to stay as it was.
* `ConsoleProofs`, showkey. `GivesConsoleBack`, `AlarmEndsWait`, `TypeCorrect`. The invariant tells
  what `clean_up` finds at each place where a signal may start it, and what it has undone when a
  second signal comes inside it, as long as the terminal is not hung up.
* `ConsoleProofs`, vlock. `ConsoleStaysLocked`, `GivesVtBack`, `SetUpIsSafe`, `LockEndsByPassword`. The
  invariant relates the position in `init_vt` with the kernel's mode, the handlers, the screen buffer
  and PAM. For `ConsoleStaysLocked` the part `Front` is needed: no signal is pending before VT_SETMODE,
  while SIGUSR2 is pending the console is in front, and once `hold` is "front" no SIGUSR2 comes again,
  so that nothing is left that could complete a release. `LockEndsByPassword` is an action property: the invariant `Tried`, that the position in
  `get_password` tells which PAM calls of this try have succeeded, makes the step to `restore_vt` the
  last of a complete sequence, whatever the user and the terminal did in earlier tries.
* `OpenVtProofs`. `CommandOwnsConsole` and `TypeCorrect`, for any set of programs and consoles. The
  invariant: there is no child before the fork, the child's console is one there is, a console that
  someone has open is allocated (the kernel refuses to deallocate it), and `OwnConsole` itself, which
  is inductive with these.
* `SetFontProofs`. `TheMapFollowsFont`, `SuccessIsComplete`, `TypeCorrect`. The invariant: a task off
  the list is done and nothing later undoes it; the pairs about to be loaded are those of the font
  that is in the kernel by then, or those of `-u`, never both; the map is empty between
  PIO_UNIMAPCLR and PIO_UNIMAP unless another program was there.
* `KbdFindProofs`. `NoStreamLost` (`StreamsOwned`) and `TypeCorrect`, for any tree of directories, with
  loops of links too, any depth, and files that vanish meanwhile. The invariant: `fp` has a stream
  exactly while the status is success, so the loops that go on after a failure, and the recursion,
  which descends only while the status is not success, never assign `fp->fd` over an open stream; a
  frame below the top waits for the call it made; the flag that `kbdfile_close` looks at is the way
  the stream was opened.
* `XkbProofs`. `TypeCorrect`, `NoModifierStuck` (`NoStuckModifier`) and `TableExists`, for any keymap
  and set of keys and any order of presses and releases. `TableExists`: the modifiers and locks that
  the console can be in always choose a table that was made, so no press or release is looked up in a
  table that is missing. That needs the conversion and the kernel together: `Fill` puts a key that
  has a modifier in some table without another action into every table, the group locks stay in the
  range of the layouts, and each combination of modifiers a held key can give was walked. The
  invariant for the modifiers counts per key: a modifier is counted at most once for each key
  that has it and is held, unless it is one of a mixed key.

The invariants were checked by TLC before they were proved. Two properties were wrong at first in
cases that no run had. `NoStuckModifier` did not count a hole as another action, and a group action
that leads nowhere leaves a hole, which hides the release as well; the proof also showed that
Mode_switch needs no exception. `NamesRoundTrip` claimed codes that do not come back (ambiguous names,
type 15). They now say what holds, and the run of `KeymapText` has the ambiguous name.

Assumptions on constants, evaluated by the runs: the types of the constants, and
`LoadAssumption` that the kernel's tables and strings are total and the void code is a code;
`OpenVtAssumption` that `-c` is given a console number other than 0 (openvt.c:328 refuses it);
`SetFontAssumption` that the pairs of other programs' maps and of the file of `-u` are told apart from
those of font files (they are named by where they come from); `IncludeAssumption` that the stack has
at least one place; `FindAssumption` that directories hold directories and every search starts in one;
`XkbAssumption` that there are finitely many keys and that some key has a symbol with a code at every
level (every layout has the letters), so that the walk meets every combination of modifiers;
`KsymsAssumption` and `NamesAssumption` that bytes of the charsets are at least 128, that names of types
differ, that iso-8859-1 is the upper half of KT_LATIN, that other types have no name of a charset, and
that a charset's name is no synonym of another (compared with the tables in `syms.*.h`);
`TextAssumption` that a charset line has a charset of the library (parser.y refuses others) and that
numbers have 16 bits.

Only model-checked, and why:

* all liveness properties (they need fairness);
* `DumpLoads`, `CanonicalRoundTrip` and `ShorthandKeepsKeys` of `KeymapDump`: the lines of a dump are
  built by folds and sorted sequences over all keys and tables, so what they say needs induction over
  data;
* `LinesInPlace` and `FirstInOrder`: their references, textual inclusion and the documented order, are
  recursive;
* `TypesTheSame` and `ComposeKeepsBest` of `Xkb`: the one depends on the steps of libxkbcommon for the
  layouts of the run, the other on a fold over sorted rules;
* the properties of `FontTables`, which are about bytes decoded by RECURSIVE operators.

## 5. Where the code and its texts disagree

Met while modelling, and visible in the models:

* `openvt -w` exits with 0 whatever the command returned: `wait(NULL)` (openvt.c:510) takes the
  child's status, and the `waitpid` after it fails. The comment at 521 promises the exit code of the
  command.
* showkey.c:63: a signal between the installation of the handlers and `get_mode` makes `clean_up`
  set keyboard mode 0, which is K_RAW, against the comment at 204.
* xkbsupport.c:1548 refuses `grp:shifts_toggle` because Shift could stay held. Any other option
  that puts a group action on a level of a modifier key, such as `grp:lalt_lshift_toggle`, is
  accepted and can leave that modifier held.
* xkbsupport.c:760: with three layouts ISO_Next_Group does not go round all of them (the test at
  libkeymap-test54.c:317 knows). Two Mode_switch keys held at once count once on the console.
* In an 8-bit load, named characters without a byte all convert to the same failure code, so their
  compose rules count as one (xkbsupport.c:1310).
* vt.c:65 says of the VT_ACKACQ in `acquire_vt` that "it won't hurt". It is not 0, so the kernel takes
  it for the consent to a release that waits. `vlock -a` on a console that has to be brought to the
  front, with another switch asked for before SIGUSR2 is delivered (its handlers do not mask each
  other), hands the screen to that switch. `LockHolds` leaves out just this (`hold = "given"`): without
  it TLC finds the trace. It cannot happen when the console was in front already at VT_SETMODE.
* showkey.c:254 and 266 do not look at a `read` that fails: each turn sets the alarm again, so after a
  hang-up without SIGHUP, or on a console opened for writing only, showkey spins and never ends.
* libkeymap/loadkeys.c:30-34: a key whose value does not fit 16 bits is skipped with a warning and the
  exit status is 0.
* alt_is_meta does not renew the Meta form it gave when the key is defined again (kmap.c:156-160: the
  Alt cell is no longer empty).
* loadkeys.c:342 leaves with the result of the file before: a missing file after a good one loads
  nothing and exits with 0.
* dump.c:591-603 writes a row such as `X, VoidSymbol` as a one-entry line, which loadkeys
  completes to X everywhere; analyze.l:94 recommends this round trip. `ShorthandKeepsKeys` states
  exactly what may change.
* keymaps(5) lines 232 and 299 say that a line with fewer entries than tables is replicated or
  defines all columns; parser.y stores the entries it has and leaves older ones in the others.
* Two `loadkeys -u` at once can leave the keyboard in Unicode mode: the second reads the mode that
  the first has set for the time of its load (libkeymap/loadkeys.c:118).
* loadkeys.c:269-270 toggles `LK_FLAG_UNICODE_MODE`: `-u` on a Unicode console switches it off.
* analyze.l:62: the library closes the caller's file if a caller goes on with the same context
  after an error inside an include (`GoesOn = TRUE` in `IncludeStack`). loadkeys does not go on.
* An include beyond MAX_INCLUDE_DEPTH is dropped and parsing succeeds (the result of `stack_push`
  at analyze.l:411 is not used).
* kdfontop.c:248-258: the second try copies 32 bytes to a glyph whatever the font's height.
* openvt.c:517 deallocates the console that main asked for, not the one the child fell back to;
  openvt.c:265 takes timer id 0 for no timer and leaves the alarm set with its default action.
* `dumpkeys -i` leaves key 0 of the plain table overwritten: `maximum_val` restores what
  `valid_type` has already changed. `dumpkeys --funcs-only` prints nothing.
* parser.y:210: `dumpkeys -c iso-8859-1` on a Unicode console writes a charset line that makes
  loadkeys leave Unicode, and the other characters are lost. With another `-c`, letters that are
  bytes are printed with that charset's names and load as other characters; a dead2 byte from 0x80
  on is printed with its iso-8859-1 name and read in the charset.
* "mu" is U+00B5 in iso-8859-1 and U+03BC in iso-8859-7. On a Unicode console dumpkeys prints both as
  mu, and loadkeys takes the first: a Greek mu comes back as the micro sign.
* dump.c prints a code of type 15, which the kernel does not know, as `U+f...`, which the scanner
  refuses (analyze.l:452-462).
* syms of mazovia: oacute, Oacute, guillemotleft and guillemotright are there twice: byte 0xd3 is
  dumped as Oacute and loads as 0xa3.
* dump.c:411: `dead2_` names go to stdout, whatever file the keymap is written to.
* psffontop.c:112: a single character after a sequence is read as part of the sequence, so
  psfaddtable and psfgettable change such a table. Characters above U+FFFF are printed by
  psfgettable with more digits than psfaddtable takes, and cut to 16 bits by setfont (setfont.c:232),
  where U+10041 takes the place of U+0041; `ConsoleShowsTable` states that cut, and its run has two such
  characters. psf1 has no form for U+FFFE and U+FFFF.
* libkfont/psfxtable.c and psfxtable.c: `-it` with `-ot` always fails; the output is emptied before
  the input is read; a full disk found at `fclose` leaves a cut font and exit 0.
* setfont.c:515: a psf font that is refused is tried as a font without header: cut at a multiple of
  256 bytes it is loaded with its header as a glyph.
* libkfont/loadunimap.c:118: with 65536 pairs or more the count wraps and pairs are lost silently.
* setfont.c:472: the `def.uni` branch is never taken, as every psf font read has a list of heads.
* array.h calls `count` the number of elements; for `accent_table`, which appends and sets, it may
  be larger.

## 6. Not modelled

The output formats of loadkeys (`-b`, `-m`, `-t`) and dumpkeys' strings and accents; the spelling of
tokens, and the 13 tables of names themselves (the runs have parts of four); glyph bitmaps, and the
font formats that are told by the length of the file; XKB symbols without a name (`0x...`), and the
full lists of `xkbsupport.c` (one symbol of each kind is modelled); programs that make one ioctl
(kbdrate, setleds, kbd_mode, setvtrgb and others: no state of their own); resizecons, which programs
VGA registers; messages, locales and running out of memory.

The map that GIO_UNIMAP reads may change between the call that tells its size and the one that reads
it (kdmapop.c:166): the kernel refuses more entries than there is room for, and `SetFont` has that
refusal, any other error of the two calls and their error path, but no property depends on it.
`SetFont` starts from the boot font and map: the pairs an earlier setfont left are not told apart.

Limits of the file formats that are larger than any instance: the line buffer of 64 KiB of text tables
and map files (libkfont/psfxtable.c:97 and 215, so a table line of more than about 9300 characters that
psfgettable wrote is refused by psfaddtable), MAXFONTSIZE (psffontop.c:180), and psf2 headers of another
version or size than the tools write (psffontop.c:255 and 263). `restore_screen`'s lseek and write are
taken to succeed (vlock/screen.c:97-106).

## 7. Plan

Left, in order:

1. Strings and accents in `KeymapDump`; packing of strings (`func.c`) with the limits of
   `struct kbsentry`.
2. `spawn_command` and the programs that read, change and write one kernel setting (setleds,
   setmetamode), as other users of the console in `ShowKey` and `OpenVt`.
