------------------------------ MODULE KbdFind ------------------------------
(***************************************************************************)
(* libkbdfile's search for a file (src/src/libkbdfile/kbdfile.c) and the   *)
(* include search of libkeymap's scanner that calls it several times on    *)
(* one struct kbdfile (find_incl_file in src/src/libkeymap/analyze.l).     *)
(*                                                                         *)
(* The calls of findfile_in_dir are frames on a stack; scandir with the    *)
(* look at the regular files, and every attempt to open one, are steps, so *)
(* that another program can change the files in between.  A file name is   *)
(* the sequence of its parts: <<"us", ".map", ".gz">>.                     *)
(***************************************************************************)
EXTENDS Integers, Sequences, FiniteSets, SequencesExt

CONSTANTS
    Dir,            \* directories
    NoDir,          \* a path that is not a directory
    Name,           \* names of directories, and the one before a leading slash
    Subdirs,        \* the directories in each, in the order of alphasort
    Root, Cwd,      \* where names with and without a leading slash start
    FileSets,       \* file systems: functions from places to a file's kind
    Requests,       \* searches: the name, the suffixes, and the directories
    Exts,           \* .gz, .bz2, ...
    IgnoreUtils     \* KBDFILE_IGNORE_DECOMP_UTILS is set

ASSUME FindAssumption ==
    /\ NoDir \notin Dir /\ Root \in Dir /\ Cwd \in Dir /\ "" \in Name
    /\ Subdirs \in [Dir -> Seq([name : Name, dir : Dir])]
    /\ \A files \in FileSets : \A f \in DOMAIN files : f.dir \in Dir
    /\ \A r \in Requests :
          /\ r.abs \in BOOLEAN /\ r.dirs \in Seq(Name) /\ r.suffixes \in Seq(Seq(STRING))
          /\ r.calls \in Seq(Seq([dir : Dir \union {NoDir}, depth : Nat]))
    /\ IgnoreUtils \in BOOLEAN

VARIABLES
    fs,             \* the regular files: "plain", "packed" or "unreadable"
    req,            \* the search
    calls,          \* the calls of kbdfile_find that are left
    dirpath,        \* the directories left in this call
    k,              \* findfile_by_fullname: the suffix
    stack,          \* findfile_in_dir
    tries,          \* maybe_pipe_open: the places left to try
    fp,             \* the struct kbdfile: fd and flags
    streams,        \* streams that are open
    rc,
    pc,
    quiet,          \* history: no other program changed a file
    failed          \* history: a file that is there could not be opened

vars == <<fs, req, calls, dirpath, k, stack, tries, fp, streams, rc, pc, quiet, failed>>
search == <<req, calls>>
history == <<quiet, failed>>

None == [dir |-> NoDir, name |-> <<>>, pipe |-> FALSE]

-----------------------------------------------------------------------------
(* Paths                                                                   *)

(* Where a path leads, component by component.                             *)
Down(d, name) ==
    IF d \in Dir /\ \E i \in DOMAIN Subdirs[d] : Subdirs[d][i].name = name
    THEN LET i == CHOOSE i \in DOMAIN Subdirs[d] : Subdirs[d][i].name = name
         IN Subdirs[d][i].dir
    ELSE NoDir

Walk(d, names) == FoldLeft(Down, d, names)

Place(d, name) == [dir |-> d, name |-> name]

(* The name as given, from the current directory or from the root.         *)
Given == Walk(IF req.abs THEN Root ELSE Cwd, req.dirs)

(* maybe_pipe_open: the path, then the path with every extension.          *)
Places(d, name) ==
    <<Place(d, name)>> \o [i \in DOMAIN Exts |-> Place(d, name \o Exts[i])]

(* filecmp: the file is the name with a suffix and perhaps an extension.   *)
Matches(f, d, s) ==
    f \in ToSet(Places(d, req.name \o req.suffixes[s]))

(* The suffixes with which some regular file of a directory matches.       *)
Found(d) == {s \in DOMAIN req.suffixes : \E f \in DOMAIN fs : Matches(f, d, s)}

(* Mutant: the last suffix rather than the first.                          *)
IndexLast(d) == CHOOSE s \in Found(d) : \A t \in Found(d) : t <= s

(* findfile_in_dir: "we need to find the lowest index".                    *)
Index(d) == CHOOSE s \in Found(d) : \A t \in Found(d) : s <= t

-----------------------------------------------------------------------------
(* The include search                                                      *)

Flat(d) == [dir |-> d, depth |-> 0]

(* find_incl_file_near_fn: the directory of a file, and its includes.      *)
Near(d, up) == IF d = NoDir THEN <<>> ELSE << <<Flat(d), Flat(up[1]), Flat(up[2])>> >>

(* find_standard_incl_file: near the current directory, near the file that *)
(* includes, near its target if it is a link, then the system's includes.  *)
Standard(s) ==
    << <<Flat(s.cwdup[1]), Flat(s.cwdup[2])>> >> \o Near(s.from, s.up)
      \o Near(s.target, s.targetup) \o << [i \in DOMAIN s.system |-> Flat(s.system[i])] >>

(* find_incl_file: a name from the root needs no path; LOADKEYS_INCLUDE_   *)
(* PATH replaces the standard places, which its empty elements stand for.  *)
IncludeCalls(abs, s) ==
    IF abs THEN << <<Flat(Cwd)>> >>
    ELSE IF s.env = <<>> THEN Standard(s)
    ELSE FoldLeft(LAMBDA done, d : done \o (IF d.dir = "" THEN Standard(s) ELSE << <<d>> >>),
                  <<>>, s.env)

-----------------------------------------------------------------------------
Init ==
    /\ fs \in FileSets
    /\ req \in Requests
    /\ calls = req.calls
    /\ dirpath = <<>> /\ k = 0 /\ stack = <<>> /\ tries = <<>>
    /\ fp = [fd |-> None, flags |-> {}]
    /\ streams = 0 /\ rc = 1 /\ pc = "call"
    /\ quiet = TRUE /\ failed = FALSE

(* kbdfile_find: the name as given is tried first.                         *)
kbdfile_find ==
    /\ pc = "call"
    /\ calls # <<>>
    /\ IF fp.fd # None
       THEN rc' = -1 /\ pc' = "exit" /\ UNCHANGED <<calls, dirpath, k, tries, fp>>
       ELSE /\ fp' = [fp EXCEPT !.flags = {}]
            /\ tries' = Places(Given, req.name)
            /\ dirpath' = Head(calls) /\ calls' = Tail(calls)
            /\ k' = 0 /\ rc' = 1 /\ pc' = "open"
    /\ UNCHANGED <<fs, req, stack, streams, history>>

(* The caller: another call after one that found nothing.                  *)
CallerEnds ==
    /\ pc = "call"
    /\ calls = <<>>
    /\ pc' = "exit"
    /\ UNCHANGED <<fs, search, dirpath, k, stack, tries, fp, streams, rc, history>>

(* pipe_open sets the flags whether or not popen succeeds.                 *)
Piped == {"pipe", "compressed"}

Opened(f, pipe, flags) ==
    /\ fp' = [fd |-> [dir |-> f.dir, name |-> f.name, pipe |-> pipe], flags |-> flags]
    /\ streams' = streams + 1
    /\ tries' = <<>> /\ rc' = 0
    /\ UNCHANGED failed

NotOpened(flags) ==
    /\ fp' = [fp EXCEPT !.flags = flags]
    /\ tries' = Tail(tries)
    /\ failed' = (failed \/ Head(tries) \in DOMAIN fs)
    /\ UNCHANGED <<streams, rc>>

(* open_pathname clears the flags once fopen has succeeded.                *)
Cleared == fp.flags \ Piped

(* open_pathname: not a regular file, or fopen fails; a plain file; a file *)
(* with an archive's magic goes to the library, or to a command.           *)
open_pathname ==
    /\ pc = "open"
    /\ tries # <<>>
    /\ LET f == Head(tries)
           kind == IF f \in DOMAIN fs THEN fs[f] ELSE "missing"
       IN \/ kind \in {"missing", "unreadable"} /\ NotOpened(fp.flags)
          \/ kind = "plain" /\ Opened(f, FALSE, Cleared)
          \/ kind \in {"plain", "packed"} /\ NotOpened(Cleared)
          \/ kind = "packed" /\ Opened(f, FALSE, Cleared \union {"compressed"})
          \/ kind = "packed" /\ ~IgnoreUtils /\ Opened(f, TRUE, Cleared \union Piped)
          \/ kind = "packed" /\ ~IgnoreUtils /\ NotOpened(Cleared \union Piped)
    /\ UNCHANGED <<fs, search, dirpath, k, stack, pc, quiet>>

(* maybe_pipe_open returns to the frame, or to kbdfile_find.               *)
EndTries ==
    /\ pc = "open"
    /\ tries = <<>>
    /\ pc' = IF stack # <<>> THEN "return" ELSE IF rc = 0 THEN "exit" ELSE "fullname"
    /\ rc' = IF rc = 0 THEN 0 ELSE -1
    /\ UNCHANGED <<fs, search, dirpath, k, stack, tries, fp, streams, history>>

(* findfile_by_fullname, for a name from the root: with each suffix.       *)
findfile_by_fullname ==
    /\ pc = "fullname"
    /\ req.abs /\ k < Len(req.suffixes)
    /\ fp' = IF k = 0 THEN [fp EXCEPT !.flags = {}] ELSE fp
    /\ k' = k + 1
    /\ tries' = Places(Given, req.name \o req.suffixes[k + 1])
    /\ pc' = "open"
    /\ UNCHANGED <<fs, search, dirpath, stack, streams, rc, history>>

EndFullname ==
    /\ pc = "fullname"
    /\ ~req.abs \/ k = Len(req.suffixes)
    /\ pc' = "dirs"
    /\ UNCHANGED <<fs, search, dirpath, k, stack, tries, fp, streams, rc, history>>

-----------------------------------------------------------------------------
(* findfile_in_dir                                                         *)

(* Entering it: no file is open and the flags are clear.                   *)
Frame(d, names, depth) ==
    [dir |-> d, names |-> names, depth |-> depth, pass |-> 1, n |-> 1, at |-> "scan"]

Enter(frames, d, names, depth) ==
    /\ stack' = Append(frames, Frame(d, names, depth))
    /\ fp' = [fd |-> None, flags |-> {}]
    /\ rc' = 1 /\ pc' = "search"

(* The next directory of the path; a name from the root is one whose first *)
(* directory has no name.                                                  *)
NextDir ==
    /\ pc = "dirs"
    /\ dirpath # <<>>
    /\ dirpath' = Tail(dirpath)
    /\ Enter(<<>>, Head(dirpath).dir, (IF req.abs THEN <<"">> ELSE <<>>) \o req.dirs,
             Head(dirpath).depth)
    /\ UNCHANGED <<fs, search, k, tries, streams, history>>

EndDirs ==
    /\ pc = "dirs"
    /\ dirpath = <<>>
    /\ pc' = "call" /\ rc' = 1
    /\ UNCHANGED <<fs, search, dirpath, k, stack, tries, fp, streams, history>>

Current == Last(stack)
At(n, pass, at) == Front(stack) \o <<[Current EXCEPT !.n = n, !.pass = pass, !.at = at]>>
Entry == Subdirs[Current.dir][Current.n]

(* scandir, and the first pass over the regular files: a match is opened   *)
(* and its outcome is that of the call.                                    *)
Scan ==
    /\ pc = "search" /\ Current.at = "scan"
    /\ LET d == Current.dir
       IN \/ d = NoDir /\ pc' = "return" /\ rc' = -1 /\ UNCHANGED <<stack, tries>>
          \/ /\ d # NoDir /\ Current.names = <<>> /\ Found(d) # {}
             /\ tries' = Places(d, req.name \o req.suffixes[Index(d)])
             /\ pc' = "open" /\ UNCHANGED <<stack, rc>>
          \/ /\ d # NoDir /\ (Current.names # <<>> \/ Found(d) = {})
             /\ stack' = At(1, IF Current.names = <<>> THEN 2 ELSE 1, "entry")
             /\ UNCHANGED <<pc, rc, tries>>
    /\ UNCHANGED <<fs, search, dirpath, k, fp, streams, history>>

(* A directory of the name's first component is searched for the rest of   *)
(* the name, without going deeper.                                         *)
okdir == Current.names # <<>> /\ Entry.name = Head(Current.names)

Visit ==
    /\ pc = "search" /\ Current.at = "entry"
    /\ Current.n <= Len(Subdirs[Current.dir])
    /\ IF okdir
       THEN Enter(At(Current.n, Current.pass, "deeper"), Entry.dir, Tail(Current.names), 0)
       ELSE /\ stack' = IF Current.pass = 2 /\ Current.depth > 0
                        THEN At(Current.n, Current.pass, "deeper")
                        ELSE At(Current.n + 1, Current.pass, "entry")
            /\ UNCHANGED <<fp, rc, pc>>
    /\ UNCHANGED <<fs, search, dirpath, k, tries, streams, history>>

(* Mutant: the subdirectories are searched although a file is found.       *)
DeeperAnyway ==
    /\ pc = "search" /\ Current.at = "deeper"
    /\ IF Current.depth > 0
       THEN Enter(At(Current.n, Current.pass, "next"), Entry.dir, Current.names, Current.depth - 1)
       ELSE /\ stack' = At(Current.n, Current.pass, "next")
            /\ UNCHANGED <<fp, rc, pc>>
    /\ UNCHANGED <<fs, search, dirpath, k, tries, streams, history>>

(* Every directory is searched for the whole name, down to the depth.      *)
Deeper ==
    /\ pc = "search" /\ Current.at = "deeper"
    /\ IF rc # 0 /\ Current.depth > 0
       THEN Enter(At(Current.n, Current.pass, "next"), Entry.dir, Current.names, Current.depth - 1)
       ELSE /\ stack' = At(Current.n, Current.pass, "next")
            /\ UNCHANGED <<fp, rc, pc>>
    /\ UNCHANGED <<fs, search, dirpath, k, tries, streams, history>>

NextEntry ==
    /\ pc = "search" /\ Current.at = "next"
    /\ IF rc = 0 THEN pc' = "return" /\ UNCHANGED stack
       ELSE stack' = At(Current.n + 1, Current.pass, "entry") /\ UNCHANGED pc
    /\ UNCHANGED <<fs, search, dirpath, k, tries, fp, streams, rc, history>>

(* Mutant: the scan starts again without secondpass being set.             *)
EndOfPassAgain ==
    /\ pc = "search" /\ Current.at = "entry"
    /\ Current.n > Len(Subdirs[Current.dir])
    /\ IF Current.pass = 1 /\ Current.depth > 0
       THEN stack' = At(1, 1, "entry") /\ UNCHANGED pc
       ELSE pc' = "return" /\ UNCHANGED stack
    /\ UNCHANGED <<fs, search, dirpath, k, tries, fp, streams, rc, history>>

(* After the first pass comes the second, over the subdirectories.         *)
EndOfPass ==
    /\ pc = "search" /\ Current.at = "entry"
    /\ Current.n > Len(Subdirs[Current.dir])
    /\ IF Current.pass = 1 /\ Current.depth > 0
       THEN stack' = At(1, 2, "entry") /\ UNCHANGED pc
       ELSE pc' = "return" /\ UNCHANGED stack
    /\ UNCHANGED <<fs, search, dirpath, k, tries, fp, streams, rc, history>>

Return ==
    /\ pc = "return"
    /\ stack' = Front(stack)
    /\ pc' = IF Len(stack) > 1 THEN "search" ELSE IF rc = 0 THEN "exit" ELSE "dirs"
    /\ UNCHANGED <<fs, search, dirpath, k, tries, fp, streams, rc, history>>

(* kbdfile_close, by the caller when it is done with the file.             *)
kbdfile_close ==
    /\ pc = "exit"
    /\ fp.fd # None
    /\ fp' = [fp EXCEPT !.fd = None]
    /\ streams' = streams - 1
    /\ pc' = "closed"
    /\ UNCHANGED <<fs, search, dirpath, k, stack, tries, rc, history>>

Finished ==
    /\ pc = "closed" \/ (pc = "exit" /\ fp.fd = None)
    /\ UNCHANGED vars

(* Another program removes a file, once.                                   *)
OtherProgram ==
    /\ quiet
    /\ pc \notin {"exit", "closed"}
    /\ \E f \in DOMAIN fs : fs' = [g \in DOMAIN fs \ {f} |-> fs[g]]
    /\ quiet' = FALSE
    /\ UNCHANGED <<search, dirpath, k, stack, tries, fp, streams, rc, pc, failed>>

Library ==
    \/ kbdfile_find \/ CallerEnds \/ open_pathname \/ EndTries
    \/ findfile_by_fullname \/ EndFullname \/ NextDir \/ EndDirs
    \/ Scan \/ Visit \/ Deeper \/ NextEntry \/ EndOfPass \/ Return

Next == Library \/ kbdfile_close \/ OtherProgram \/ Finished

Spec == Init /\ [][Next]_vars
FairSpec == Spec /\ WF_vars(Library)

-----------------------------------------------------------------------------
(* Properties                                                              *)

(* The shape of the state.                                                 *)
TypeOK ==
    /\ rc \in {-1, 0, 1} /\ streams \in Nat /\ k \in 0 .. Len(req.suffixes)
    /\ fp.flags \subseteq Piped
    /\ \A i \in DOMAIN stack : stack[i].depth \in Nat /\ stack[i].dir \in Dir \union {NoDir}
    /\ pc \in {"call", "open", "fullname", "dirs", "search", "return", "exit", "closed"}

(* The ways down from a directory, as the places of the directories taken  *)
(* in each, and where they end.                                            *)
Ways(depth) ==
    UNION {[1 .. n -> 1 .. Max({Len(Subdirs[d]) : d \in Dir})] : n \in 0 .. depth}

WayEnd(d, way) ==
    FoldLeft(LAMBDA e, i : IF e \in Dir /\ i \in DOMAIN Subdirs[e] THEN Subdirs[e][i].dir ELSE NoDir,
             d, way)

(* What a search promises to look at: call by call, each directory of the  *)
(* path, the ways down from it and the suffixes.                           *)
Candidate ==
    UNION {UNION {[call : {i}, path : {j}, way : Ways(req.calls[i][j].depth),
                   suffix : DOMAIN req.suffixes] : j \in DOMAIN req.calls[i]} : i \in DOMAIN req.calls}

CandidatePlaces(c) ==
    Places(Walk(WayEnd(req.calls[c.call][c.path].dir, c.way), req.dirs),
           req.name \o req.suffixes[c.suffix])

Exists(places) == ToSet(places) \intersect DOMAIN fs # {}

(* The order it promises: a directory itself before those below it.        *)
WayBefore(v, w) ==
    \/ IsStrictPrefix(v, w)
    \/ \E n \in DOMAIN v \intersect DOMAIN w :
          v[n] < w[n] /\ \A m \in 1 .. n - 1 : v[m] = w[m]

Before(b, c) ==
    \/ b.call < c.call
    \/ b.call = c.call /\ b.path < c.path
    \/ b.call = c.call /\ b.path = c.path /\ WayBefore(b.way, c.way)
    \/ b.call = c.call /\ b.path = c.path /\ b.way = c.way /\ b.suffix < c.suffix

(* The first of some places that exists is the one that is open.           *)
OpenedFirstOf(places) ==
    \E n \in DOMAIN places :
        /\ fp.fd.dir = places[n].dir /\ fp.fd.name = places[n].name
        /\ \A m \in 1 .. n - 1 : places[m] \notin DOMAIN fs

GivenPlaces ==
    <<Places(Given, req.name)>>
      \o (IF req.abs THEN [s \in DOMAIN req.suffixes |-> Places(Given, req.name \o req.suffixes[s])]
          ELSE <<>>)

(* findfile_in_dir: "so that we do never search a subdirectory when the    *)
(* directory itself already contains the file we are looking for", and     *)
(* "the suffixes are specified in order of priority".  When no file comes  *)
(* or goes and each can be opened, a search for a plain name ends with the *)
(* first file in that order, over all calls of the caller, and one for a   *)
(* name with directories with a file of that name if there is one.         *)
FirstInOrder ==
    (pc = "exit" /\ quiet /\ ~failed) =>
        IF \E n \in DOMAIN GivenPlaces : Exists(GivenPlaces[n])
        THEN \E n \in DOMAIN GivenPlaces :
                OpenedFirstOf(GivenPlaces[n]) /\ \A m \in 1 .. n - 1 : ~Exists(GivenPlaces[m])
        ELSE IF ~req.abs /\ \E c \in Candidate : Exists(CandidatePlaces(c))
        THEN \E c \in Candidate :
                /\ OpenedFirstOf(CandidatePlaces(c))
                /\ req.dirs = <<>> =>
                     \A b \in Candidate : Before(b, c) => ~Exists(CandidatePlaces(b))
        ELSE fp.fd = None /\ rc = 1

(* findfile_in_dir forgets fp->fd at every entry: no stream is lost, and   *)
(* the exit status tells whether the caller has one to close.              *)
(* kbdfile_close chooses pclose or fclose by a flag that failed attempts   *)
(* have set and cleared: it is set exactly for the stream of a command.    *)
StreamsOwned ==
    /\ fp.fd # None => (fp.fd.pipe <=> "pipe" \in fp.flags)
    /\ streams = IF fp.fd # None THEN 1 ELSE 0
    /\ pc = "exit" => (rc = 0 <=> fp.fd # None)

(* Directories that lead back to themselves do not keep the search going.  *)
SearchEnds == <>(pc = "exit")
=============================================================================
