--------------------------- MODULE KbdFindProofs ----------------------------
(***************************************************************************)
(* The search for a file loses no stream, for every tree of directories    *)
(* (with loops or without), every path, list of suffixes and depth, and    *)
(* whatever another program removes meanwhile.                             *)
(***************************************************************************)
EXTENDS KbdFind, SequenceTheorems, TLAPS

FrameRec ==
    [dir : Dir \union {NoDir}, names : Seq(Name), depth : Nat, pass : {1, 2},
     n : Nat \ {0}, at : {"scan", "entry", "deeper", "next"}]

(* A frame past its scandir has a directory, and one that visits an entry  *)
(* has that entry.                                                         *)
FrameOK(f) ==
    /\ f.at # "scan" => f.dir \in Dir
    /\ f.at \in {"deeper", "next"} => f.n <= Len(Subdirs[f.dir])

Paths == Seq([dir : Dir \union {NoDir}, depth : Nat])

(* What the search works on.                                               *)
SearchOK ==
    /\ req \in Requests
    /\ calls \in Seq(Paths) /\ dirpath \in Paths
    /\ \A f \in DOMAIN fs : f.dir \in Dir

(* The frames: those below the top wait for the call they made.            *)
GoodStack(s) ==
    /\ s \in Seq(FrameRec)
    /\ \A i \in 1 .. Len(s) : FrameOK(s[i]) /\ (i < Len(s) => s[i].at \in {"deeper", "next"})

StackOK == GoodStack(stack)

(* Where the search is.                                                    *)
PcOK ==
    /\ pc \in {"search", "return"} => stack # <<>>
    /\ pc \in {"call", "fullname", "dirs", "exit", "closed"} => stack = <<>>
    /\ pc = "open" /\ stack # <<>> => Current.at = "scan"

(* The struct kbdfile has a stream exactly while the status is success; no *)
(* step that forgets fp->fd or opens a file is taken then.                 *)
FdOK ==
    /\ fp = [fd |-> fp.fd, flags |-> fp.flags]
    /\ fp.fd # None => fp.fd.dir \in Dir
    /\ fp.fd # None => tries = <<>>
    /\ pc # "closed" => (rc = 0 <=> fp.fd # None)
    /\ pc \in {"call", "fullname", "dirs"} => fp.fd = None
    /\ pc = "search" /\ Current.at \in {"scan", "entry"} => fp.fd = None

IInv == TypeOK /\ SearchOK /\ StackOK /\ PcOK /\ FdOK /\ StreamsOwned

-----------------------------------------------------------------------------
(* The stack                                                               *)

LEMMA PopOK ==
    ASSUME NEW s, GoodStack(s), s # <<>>
    PROVE  /\ GoodStack(Front(s))
           /\ Len(Front(s)) = Len(s) - 1
           /\ \A i \in 1 .. Len(s) - 1 : Front(s)[i].at \in {"deeper", "next"}
           /\ Front(s) # <<>> <=> Len(s) > 1
           /\ Last(s) \in FrameRec /\ FrameOK(Last(s))
<1>1. Len(s) \in Nat \ {0} /\ \A i \in 1 .. Len(s) : s[i] \in FrameRec
  BY DEF GoodStack
<1>2. Front(s) \in Seq(FrameRec) /\ Len(Front(s)) = Len(s) - 1
        /\ \A i \in 1 .. Len(s) - 1 : Front(s)[i] = s[i]
  <2>1. SubSeq(s, 1, Len(s) - 1) = [i \in 1 .. Len(s) - 1 |-> s[i]]
    BY <1>1, SMT DEF GoodStack
  <2>2. [i \in 1 .. Len(s) - 1 |-> s[i]] \in Seq(FrameRec)
    BY <1>1
  <2>3. Front(s) = [i \in 1 .. Len(s) - 1 |-> s[i]]
    BY <2>1 DEF Front
  <2>4. Len(Front(s)) = Len(s) - 1
    BY <1>1, <2>3
  <2> QED
    BY <1>1, <2>2, <2>3, <2>4
<1>3. Last(s) \in FrameRec /\ FrameOK(Last(s))
  BY <1>1 DEF GoodStack, Last
<1> QED
  BY <1>1, <1>2, <1>3 DEF GoodStack

LEMMA StackTypes ==
    ASSUME NEW s, GoodStack(s)
    PROVE  \A i \in DOMAIN s : s[i].depth \in Nat /\ s[i].dir \in Dir \union {NoDir}
<1>1. \A i \in DOMAIN s : s[i] \in FrameRec
  BY ElementOfSeq, LenProperties DEF GoodStack
<1> QED
  BY <1>1 DEF FrameRec

LEMMA PushOK ==
    ASSUME NEW s, GoodStack(s), s # <<>> => Last(s).at \in {"deeper", "next"},
           NEW f \in FrameRec, FrameOK(f)
    PROVE  GoodStack(Append(s, f)) /\ Append(s, f) # <<>> /\ Last(Append(s, f)) = f
<1>1. Append(s, f) \in Seq(FrameRec) /\ Len(Append(s, f)) = Len(s) + 1 /\ Len(s) \in Nat
  BY DEF GoodStack
<1>2. \A i \in 1 .. Len(s) + 1 : Append(s, f)[i] = IF i = Len(s) + 1 THEN f ELSE s[i]
  BY DEF GoodStack
<1>3. \A i \in 1 .. Len(s) : s[i].at \in {"deeper", "next"}
  BY <1>1 DEF GoodStack, Last
<1>4. GoodStack(Append(s, f))
  BY <1>1, <1>2, <1>3 DEF GoodStack
<1>5. Last(Append(s, f)) = f
  BY <1>1, <1>2 DEF Last
<1>6. Append(s, f) # <<>>
  BY AppendProperties DEF GoodStack
<1> QED
  BY <1>4, <1>5, <1>6

(* The frame at the top moves on.                                          *)
LEMMA AtOK ==
    ASSUME GoodStack(stack), stack # <<>>,
           NEW n \in Nat \ {0}, NEW pass \in {1, 2}, NEW at \in {"scan", "entry", "deeper", "next"},
           at # "scan" => Current.dir \in Dir,
           at \in {"deeper", "next"} => n <= Len(Subdirs[Current.dir])
    PROVE  /\ GoodStack(At(n, pass, at)) /\ At(n, pass, at) # <<>>
           /\ Last(At(n, pass, at)).at = at
           /\ Last(At(n, pass, at)).dir = Current.dir
<1> DEFINE f == [Current EXCEPT !.n = n, !.pass = pass, !.at = at]
<1>1. /\ GoodStack(Front(stack)) /\ Current \in FrameRec
      /\ Len(Front(stack)) = Len(stack) - 1
      /\ \A i \in 1 .. Len(stack) - 1 : Front(stack)[i].at \in {"deeper", "next"}
  BY PopOK DEF Current
<1>2. f \in FrameRec /\ f.at = at /\ f.dir = Current.dir /\ f.n = n
  BY <1>1 DEF FrameRec
<1>3. FrameOK(f)
  BY <1>2 DEF FrameOK
<1>4. Front(stack) # <<>> => Last(Front(stack)).at \in {"deeper", "next"}
  <2>1. Front(stack) # <<>> => Len(Front(stack)) \in 1 .. Len(stack) - 1
    <3>1. Front(stack) \in Seq(FrameRec)
      BY <1>1 DEF GoodStack
    <3>2. Len(Front(stack)) \in Nat /\ (Front(stack) # <<>> => Len(Front(stack)) # 0)
      BY <3>1, EmptySeq, LenProperties
    <3>3. Len(stack) \in Nat
      BY LenProperties DEF GoodStack
    <3> QED
      BY <1>1, <3>2, <3>3
  <2> QED
    BY <1>1, <2>1 DEF Last
<1>5. At(n, pass, at) = Append(Front(stack), f)
  <2>1. Front(stack) \in Seq(FrameRec) /\ At(n, pass, at) = Front(stack) \o <<f>>
    BY <1>1 DEF At, GoodStack
  <2> HIDE DEF f
  <2> QED
    BY <1>2, <2>1, AppendIsConcat
<1> HIDE DEF f
<1> QED
  BY <1>1, <1>2, <1>3, <1>4, <1>5, PushOK

-----------------------------------------------------------------------------
(* The steps                                                               *)

(* What the assumption says of the search.                                 *)
LEMMA RequestOK ==
    ASSUME req \in Requests
    PROVE  /\ req.abs \in BOOLEAN /\ req.dirs \in Seq(Name) /\ req.calls \in Seq(Paths)
           /\ req.suffixes \in Seq(Seq(STRING)) /\ Len(req.suffixes) \in Nat
  BY FindAssumption, LenProperties DEF Paths

LEMMA InitOK == Init => IInv
<1> SUFFICES ASSUME Init PROVE IInv
  OBVIOUS
<1>1. SearchOK
  <2>1. \A f \in DOMAIN fs : f.dir \in Dir
    BY FindAssumption DEF Init
  <2>2. calls \in Seq(Paths) /\ dirpath \in Paths
    BY RequestOK DEF Init, Paths
  <2> QED
    BY <2>1, <2>2 DEF Init, SearchOK
<1>2. StackOK
  BY DEF Init, StackOK, GoodStack
<1>3. TypeOK
  BY RequestOK DEF Init, TypeOK, Piped
<1>4. PcOK /\ FdOK /\ StreamsOwned
  BY DEF Init, PcOK, FdOK, StreamsOwned, None
<1> QED
  BY <1>1, <1>2, <1>3, <1>4 DEF IInv

(* The steps that leave the stack alone.                                   *)
LEMMA kbdfile_findOK == IInv /\ kbdfile_find => IInv'
<1> SUFFICES ASSUME IInv, kbdfile_find PROVE IInv'
  OBVIOUS
<1> USE DEF IInv, search, history, kbdfile_find
<1>1. TypeOK'
  <2>1. fp'.flags \subseteq Piped
    BY DEF TypeOK, FdOK
  <2> QED
    BY <2>1, RequestOK DEF TypeOK, SearchOK
<1>2. SearchOK'
  <2>1. Head(calls) \in Paths /\ Tail(calls) \in Seq(Paths)
    BY HeadTailProperties DEF SearchOK
  <2> QED
    BY <2>1 DEF SearchOK
<1>3. StackOK'
  BY DEF StackOK, GoodStack
<1>4. PcOK'
  BY DEF PcOK, Current, TypeOK
<1>5. FdOK'
  BY DEF FdOK, Current, PcOK, TypeOK
<1>6. StreamsOwned'
  BY DEF StreamsOwned, FdOK, TypeOK
<1> QED
  BY <1>1, <1>2, <1>3, <1>4, <1>5, <1>6

LEMMA CallerEndsOK == IInv /\ CallerEnds => IInv'
<1> SUFFICES ASSUME IInv, CallerEnds PROVE IInv'
  OBVIOUS
<1> USE DEF IInv, search, history, CallerEnds
<1>1. TypeOK'
  BY RequestOK DEF TypeOK, SearchOK
<1>2. SearchOK'
  BY DEF SearchOK, Paths
<1>3. StackOK'
  BY DEF StackOK, GoodStack
<1>4. PcOK'
  BY DEF PcOK, Current, TypeOK
<1>5. FdOK'
  BY DEF FdOK, Current, PcOK, TypeOK
<1>6. StreamsOwned'
  BY DEF StreamsOwned, FdOK, TypeOK
<1> QED
  BY <1>1, <1>2, <1>3, <1>4, <1>5, <1>6

LEMMA EndTriesOK == IInv /\ EndTries => IInv'
<1> SUFFICES ASSUME IInv, EndTries PROVE IInv'
  OBVIOUS
<1> USE DEF IInv, search, history, EndTries
<1>1. TypeOK'
  BY RequestOK DEF TypeOK, SearchOK
<1>2. SearchOK'
  BY DEF SearchOK, Paths
<1>3. StackOK'
  BY DEF StackOK, GoodStack
<1>4. PcOK'
  BY DEF PcOK, Current, TypeOK
<1>5. FdOK'
  BY DEF FdOK, Current, PcOK, TypeOK
<1>6. StreamsOwned'
  BY DEF StreamsOwned, FdOK, TypeOK
<1> QED
  BY <1>1, <1>2, <1>3, <1>4, <1>5, <1>6

LEMMA findfile_by_fullnameOK == IInv /\ findfile_by_fullname => IInv'
<1> SUFFICES ASSUME IInv, findfile_by_fullname PROVE IInv'
  OBVIOUS
<1> USE DEF IInv, search, history, findfile_by_fullname
<1>1. TypeOK'
  BY RequestOK DEF TypeOK, SearchOK
<1>2. SearchOK'
  BY DEF SearchOK, Paths
<1>3. StackOK'
  BY DEF StackOK, GoodStack
<1>4. PcOK'
  BY DEF PcOK, Current, TypeOK
<1>5. FdOK'
  BY DEF FdOK, Current, PcOK, TypeOK
<1>6. StreamsOwned'
  BY DEF StreamsOwned, FdOK, TypeOK
<1> QED
  BY <1>1, <1>2, <1>3, <1>4, <1>5, <1>6

LEMMA EndFullnameOK == IInv /\ EndFullname => IInv'
<1> SUFFICES ASSUME IInv, EndFullname PROVE IInv'
  OBVIOUS
<1> USE DEF IInv, search, history, EndFullname
<1>1. TypeOK'
  BY RequestOK DEF TypeOK, SearchOK
<1>2. SearchOK'
  BY DEF SearchOK, Paths
<1>3. StackOK'
  BY DEF StackOK, GoodStack
<1>4. PcOK'
  BY DEF PcOK, Current, TypeOK
<1>5. FdOK'
  BY DEF FdOK, Current, PcOK, TypeOK
<1>6. StreamsOwned'
  BY DEF StreamsOwned, FdOK, TypeOK
<1> QED
  BY <1>1, <1>2, <1>3, <1>4, <1>5, <1>6

LEMMA EndDirsOK == IInv /\ EndDirs => IInv'
<1> SUFFICES ASSUME IInv, EndDirs PROVE IInv'
  OBVIOUS
<1> USE DEF IInv, search, history, EndDirs
<1>1. TypeOK'
  BY RequestOK DEF TypeOK, SearchOK
<1>2. SearchOK'
  BY DEF SearchOK, Paths
<1>3. StackOK'
  BY DEF StackOK, GoodStack
<1>4. PcOK'
  BY DEF PcOK, Current, TypeOK
<1>5. FdOK'
  BY DEF FdOK, Current, PcOK, TypeOK
<1>6. StreamsOwned'
  BY DEF StreamsOwned, FdOK, TypeOK
<1> QED
  BY <1>1, <1>2, <1>3, <1>4, <1>5, <1>6

LEMMA kbdfile_closeOK == IInv /\ kbdfile_close => IInv'
<1> SUFFICES ASSUME IInv, kbdfile_close PROVE IInv'
  OBVIOUS
<1> USE DEF IInv, search, history, kbdfile_close
<1>1. TypeOK'
  BY RequestOK DEF TypeOK, SearchOK, StreamsOwned, FdOK
<1>2. SearchOK'
  BY DEF SearchOK, Paths
<1>3. StackOK'
  BY DEF StackOK, GoodStack
<1>4. PcOK'
  BY DEF PcOK, Current, TypeOK
<1>5. FdOK'
  BY DEF FdOK, Current, PcOK, TypeOK
<1>6. StreamsOwned'
  BY DEF StreamsOwned, FdOK, TypeOK
<1> QED
  BY <1>1, <1>2, <1>3, <1>4, <1>5, <1>6

(* Another attempt to open a file: none is open, so the stream it may give *)
(* is the only one.                                                        *)
LEMMA open_pathnameOK == IInv /\ open_pathname => IInv'
<1> SUFFICES ASSUME IInv, open_pathname PROVE IInv'
  OBVIOUS
<1> DEFINE f == Head(tries)
<1>1. fp.fd = None /\ streams = 0 /\ rc # 0 /\ fp.flags \subseteq Piped
  BY DEF IInv, FdOK, StreamsOwned, open_pathname, TypeOK
<1>2. UNCHANGED <<fs, search, dirpath, k, stack, pc, quiet>> /\ pc = "open"
  BY DEF open_pathname
<1>3. CASE \E flags \in SUBSET Piped : NotOpened(flags)
  <2>1. PICK flags \in SUBSET Piped : NotOpened(flags)
    BY <1>3
  <2>2. fp' = [fd |-> None, flags |-> flags] /\ streams' = 0 /\ rc' = rc
    BY <1>1, <2>1 DEF NotOpened, IInv, FdOK
  <2>3. TypeOK' /\ SearchOK' /\ StackOK' /\ PcOK'
    BY <1>2, <2>2 DEF IInv, TypeOK, SearchOK, StackOK, GoodStack, PcOK, Current, search
  <2>4. FdOK' /\ StreamsOwned'
    BY <1>1, <1>2, <2>2 DEF IInv, FdOK, StreamsOwned
  <2> QED
    BY <2>3, <2>4 DEF IInv
<1>4. CASE f \in DOMAIN fs /\ \E pipe \in BOOLEAN, flags \in SUBSET Piped :
             Opened(f, pipe, flags) /\ (pipe <=> "pipe" \in flags)
  <2>1. PICK pipe \in BOOLEAN, flags \in SUBSET Piped :
           Opened(f, pipe, flags) /\ (pipe <=> "pipe" \in flags)
    BY <1>4
  <2>2. fp'.fd = [dir |-> f.dir, name |-> f.name, pipe |-> pipe] /\ fp'.flags = flags
          /\ fp' = [fd |-> fp'.fd, flags |-> fp'.flags]
    BY <2>1 DEF Opened
  <2>3. streams' = 1 /\ rc' = 0 /\ tries' = <<>>
    BY <1>1, <2>1 DEF Opened
  <2>4. f.dir \in Dir
    BY <1>4 DEF IInv, SearchOK
  <2>5. fp'.fd # None /\ fp'.fd.dir \in Dir /\ fp'.fd.pipe = pipe
    <3>1. NoDir \notin Dir
      BY FindAssumption, Zenon
    <3> QED
      BY <2>2, <2>4, <3>1 DEF None
  <2>6. TypeOK' /\ SearchOK' /\ StackOK' /\ PcOK'
    BY <1>2, <2>2, <2>3 DEF IInv, TypeOK, SearchOK, StackOK, GoodStack, PcOK, Current, search
  <2>7. FdOK' /\ StreamsOwned'
    BY <1>2, <2>1, <2>2, <2>3, <2>5 DEF FdOK, StreamsOwned
  <2> QED
    BY <2>6, <2>7 DEF IInv
<1>5. Cleared \in SUBSET Piped /\ Cleared \union {"compressed"} \in SUBSET Piped
        /\ Cleared \union Piped \in SUBSET Piped /\ fp.flags \in SUBSET Piped
  BY <1>1 DEF Cleared, Piped
<1>6. "pipe" \notin Cleared /\ "pipe" \notin Cleared \union {"compressed"} /\ "pipe" \in Cleared \union Piped
  BY DEF Cleared, Piped
<1> QED
  BY <1>3, <1>4, <1>5, <1>6 DEF open_pathname

-----------------------------------------------------------------------------
(* findfile_in_dir                                                         *)

(* A frame is pushed where no file is open: what Enter forgets is nothing. *)
LEMMA EnterOK ==
    ASSUME IInv, fp.fd = None, SearchOK', tries' = tries, k' = k, streams' = streams,
           NEW frames, GoodStack(frames), frames # <<>> => Last(frames).at \in {"deeper", "next"},
           NEW d \in Dir \union {NoDir}, NEW names \in Seq(Name), NEW depth \in Nat,
           Enter(frames, d, names, depth), req' = req
    PROVE  IInv'
<1>1. Frame(d, names, depth) \in FrameRec /\ FrameOK(Frame(d, names, depth))
        /\ Frame(d, names, depth).at = "scan"
  BY DEF Frame, FrameRec, FrameOK
<1>2. GoodStack(stack') /\ stack' # <<>> /\ Last(stack').at = "scan"
  BY <1>1, PushOK DEF Enter
<1>3. fp' = [fd |-> None, flags |-> {}] /\ rc' = 1 /\ pc' = "search" /\ streams = 0
  BY DEF Enter, IInv, StreamsOwned
<1>4. \A i \in DOMAIN stack' : stack'[i].depth \in Nat /\ stack'[i].dir \in Dir \union {NoDir}
  BY <1>2, StackTypes
<1>5. TypeOK'
  BY <1>3, <1>4 DEF IInv, TypeOK
<1>6. PcOK' /\ StackOK'
  BY <1>2, <1>3 DEF PcOK, StackOK
<1>7. FdOK' /\ StreamsOwned'
  BY <1>3 DEF IInv, FdOK, StreamsOwned
<1> QED
  BY <1>5, <1>6, <1>7 DEF IInv

LEMMA NextDirOK == IInv /\ NextDir => IInv'
<1> SUFFICES ASSUME IInv, NextDir PROVE IInv'
  OBVIOUS
<1>1. Head(dirpath) \in [dir : Dir \union {NoDir}, depth : Nat] /\ Tail(dirpath) \in Paths
  BY HeadTailProperties DEF IInv, SearchOK, Paths, NextDir
<1>2. SearchOK' /\ req' = req
  BY <1>1 DEF IInv, SearchOK, NextDir, search, Enter
<1>3. (IF req.abs THEN <<"">> ELSE <<>>) \o req.dirs \in Seq(Name)
  <2>1. req.dirs \in Seq(Name)
    BY RequestOK DEF IInv, SearchOK
  <2>2. <<"">> \in Seq(Name) /\ <<>> \in Seq(Name)
    <3>1. \A S : \A e \in S : <<e>> \in Seq(S)
      OBVIOUS
    <3>2. "" \in Name
      BY FindAssumption, Zenon
    <3>3. <<"">> \in Seq(Name)
      BY <3>1, <3>2, Zenon
    <3> QED
      BY <3>3, EmptySeq
  <2> QED
    BY <2>1, <2>2, ConcatProperties
<1>4. GoodStack(<<>>)
  BY EmptySeq DEF GoodStack
<1>8. fp.fd = None
  BY DEF IInv, FdOK, NextDir
<1>5. tries' = tries /\ k' = k /\ streams' = streams
  BY DEF NextDir
<1>6. Head(dirpath).dir \in Dir \union {NoDir} /\ Head(dirpath).depth \in Nat
  BY <1>1
<1> DEFINE names == (IF req.abs THEN <<"">> ELSE <<>>) \o req.dirs
<1>7. Enter(<<>>, Head(dirpath).dir, names, Head(dirpath).depth)
  BY DEF NextDir
<1> HIDE DEF names
<1> QED
  BY <1>2, <1>3, <1>4, <1>5, <1>6, <1>7, <1>8, EnterOK DEF names

(* The frame at the top, while findfile_in_dir runs.                       *)
LEMMA TopOK ==
    ASSUME IInv, stack # <<>>
    PROVE  /\ GoodStack(stack) /\ Current \in FrameRec /\ FrameOK(Current)
           /\ Current.at \in {"entry", "deeper", "next"} => Current.dir \in Dir
           /\ Current.at \in {"deeper", "next"} => Current.n \in DOMAIN Subdirs[Current.dir]
<1>1. GoodStack(stack) /\ Current \in FrameRec /\ FrameOK(Current)
  BY PopOK DEF IInv, StackOK, Current
<1>2. Current.dir \in Dir => Subdirs[Current.dir] \in Seq([name : Name, dir : Dir])
  BY FindAssumption
<1> QED
  BY <1>1, <1>2, LenProperties DEF FrameOK, FrameRec

(* An entry of a directory is a directory.                                 *)
LEMMA EntryOK ==
    ASSUME IInv, stack # <<>>, Current.dir \in Dir, Current.n <= Len(Subdirs[Current.dir])
    PROVE  Current.n \in DOMAIN Subdirs[Current.dir] /\ Entry.dir \in Dir
<1>1. Current.n \in Nat \ {0}
  BY TopOK DEF FrameRec
<1>2. Subdirs[Current.dir] \in Seq([name : Name, dir : Dir])
  BY FindAssumption
<1>3. Current.n \in DOMAIN Subdirs[Current.dir]
  BY <1>1, <1>2, LenProperties
<1>4. Entry \in [name : Name, dir : Dir]
  BY <1>2, <1>3, ElementOfSeq, LenProperties DEF Entry
<1> QED
  BY <1>3, <1>4

(* A step that only moves the top frame on: to an entry it may only move   *)
(* when no file is open.                                                   *)
LEMMA MoveOK ==
    ASSUME IInv, pc = "search",
           NEW n \in Nat \ {0}, NEW pass \in {1, 2}, NEW at \in {"entry", "deeper", "next"},
           Current.dir \in Dir, at \in {"deeper", "next"} => n <= Len(Subdirs[Current.dir]),
           at = "entry" => fp.fd = None,
           stack' = At(n, pass, at),
           UNCHANGED <<fs, req, calls, dirpath, k, tries, fp, streams, rc, pc>>
    PROVE  IInv'
<1>1. stack # <<>>
  BY DEF IInv, PcOK
<1>2. GoodStack(stack') /\ stack' # <<>> /\ Last(stack').at = at
  BY <1>1, AtOK, TopOK
<1>3. \A i \in DOMAIN stack' : stack'[i].depth \in Nat /\ stack'[i].dir \in Dir \union {NoDir}
  BY <1>2, StackTypes
<1>4. TypeOK' /\ SearchOK'
  BY <1>3 DEF IInv, TypeOK, SearchOK
<1>5. PcOK' /\ StackOK'
  BY <1>2 DEF PcOK, StackOK
<1>6. FdOK' /\ StreamsOwned'
  BY <1>2 DEF IInv, FdOK, StreamsOwned, Current
<1> QED
  BY <1>4, <1>5, <1>6 DEF IInv

(* The frame at the top is done; its outcome is in rc.                     *)
LEMMA DoneOK ==
    ASSUME IInv, pc = "search", pc' = "return",
           rc' = rc \/ (rc' = -1 /\ fp.fd = None),
           UNCHANGED <<fs, req, calls, dirpath, k, stack, tries, fp, streams>>
    PROVE  IInv'
<1>1. TypeOK' /\ SearchOK'
  BY DEF IInv, TypeOK, SearchOK
<1>2. PcOK' /\ StackOK'
  BY DEF IInv, PcOK, StackOK, GoodStack
<1>3. FdOK' /\ StreamsOwned'
  BY DEF IInv, FdOK, StreamsOwned
<1> QED
  BY <1>1, <1>2, <1>3 DEF IInv

LEMMA ScanOK == IInv /\ Scan => IInv'
<1> SUFFICES ASSUME IInv, Scan PROVE IInv'
  OBVIOUS
<1> DEFINE d == Current.dir
<1>1. /\ pc = "search" /\ Current.at = "scan" /\ fp.fd = None /\ stack # <<>>
      /\ UNCHANGED <<fs, req, calls, dirpath, k, fp, streams>>
  BY DEF Scan, IInv, FdOK, PcOK, search
<1>2. Current \in FrameRec /\ d \in Dir \union {NoDir}
  BY <1>1, TopOK DEF FrameRec
<1>3. CASE d = NoDir /\ pc' = "return" /\ rc' = -1 /\ UNCHANGED <<stack, tries>>
  BY <1>1, <1>3, DoneOK
<1>4. CASE pc' = "open" /\ UNCHANGED <<stack, rc>>
  <2>1. TypeOK' /\ SearchOK'
    BY <1>1, <1>4 DEF IInv, TypeOK, SearchOK
  <2>2. PcOK' /\ StackOK'
    BY <1>1, <1>4 DEF IInv, PcOK, StackOK, GoodStack, Current
  <2>3. FdOK' /\ StreamsOwned'
    BY <1>1, <1>4 DEF IInv, FdOK, StreamsOwned
  <2> QED
    BY <2>1, <2>2, <2>3 DEF IInv
<1>5. CASE d # NoDir /\ (\E pass \in {1, 2} : stack' = At(1, pass, "entry")) /\ UNCHANGED <<pc, rc, tries>>
  <2>1. PICK pass \in {1, 2} : stack' = At(1, pass, "entry")
    BY <1>5
  <2>2. Current.dir \in Dir
    BY <1>2, <1>5
  <2> QED
    BY <1>1, <1>5, <2>1, <2>2, MoveOK
<1>6. CASE /\ d # NoDir /\ (Current.names # <<>> \/ Found(d) = {})
           /\ stack' = At(1, IF Current.names = <<>> THEN 2 ELSE 1, "entry")
           /\ UNCHANGED <<pc, rc, tries>>
  <2>1. \E pass \in {1, 2} : stack' = At(1, pass, "entry")
    BY <1>6
  <2> QED
    BY <1>5, <1>6, <2>1
<1> QED
  BY <1>3, <1>4, <1>6 DEF Scan

LEMMA VisitOK == IInv /\ Visit => IInv'
<1> SUFFICES ASSUME IInv, Visit PROVE IInv'
  OBVIOUS
<1>1. /\ pc = "search" /\ Current.at = "entry" /\ fp.fd = None /\ stack # <<>>
      /\ UNCHANGED <<fs, req, calls, dirpath, k, tries, streams>>
      /\ Current.n <= Len(Subdirs[Current.dir])
  BY DEF Visit, IInv, FdOK, PcOK, search
<1>2. GoodStack(stack) /\ Current \in FrameRec /\ Current.dir \in Dir
  BY <1>1, TopOK
<1>3. Current.n \in Nat \ {0} /\ Current.pass \in {1, 2} /\ Current.names \in Seq(Name)
  BY <1>2 DEF FrameRec
<1>4. CASE okdir
  <2> DEFINE frames == At(Current.n, Current.pass, "deeper")
  <2>1. Enter(frames, Entry.dir, Tail(Current.names), 0)
    BY <1>4 DEF Visit
  <2>2. GoodStack(frames) /\ Last(frames).at = "deeper"
    BY <1>1, <1>2, <1>3, AtOK
  <2>3. Entry.dir \in Dir
    BY <1>1, <1>2, EntryOK
  <2>4. Tail(Current.names) \in Seq(Name)
    BY <1>3, <1>4, HeadTailProperties DEF okdir
  <2>5. SearchOK'
    BY <1>1 DEF IInv, SearchOK
  <2> HIDE DEF frames
  <2> QED
    BY <1>1, <2>1, <2>2, <2>3, <2>4, <2>5, EnterOK
<1>5. CASE ~okdir
  <2>1. UNCHANGED <<fp, rc, pc>>
    BY <1>5 DEF Visit
  <2>2. CASE stack' = At(Current.n, Current.pass, "deeper")
    BY <1>1, <1>2, <1>3, <2>1, <2>2, MoveOK
  <2>3. CASE stack' = At(Current.n + 1, Current.pass, "entry")
    BY <1>1, <1>2, <1>3, <2>1, <2>3, MoveOK
  <2> QED
    BY <1>5, <2>2, <2>3 DEF Visit
<1> QED
  BY <1>4, <1>5

(* Deeper enters a subdirectory only after a failure, so nothing is open.  *)
LEMMA DeeperOK == IInv /\ Deeper => IInv'
<1> SUFFICES ASSUME IInv, Deeper PROVE IInv'
  OBVIOUS
<1>1. /\ pc = "search" /\ Current.at = "deeper" /\ stack # <<>>
      /\ UNCHANGED <<fs, req, calls, dirpath, k, tries, streams>>
  BY DEF Deeper, IInv, PcOK, search
<1>2. /\ GoodStack(stack) /\ Current \in FrameRec /\ Current.dir \in Dir
      /\ Current.n <= Len(Subdirs[Current.dir])
  BY <1>1, TopOK DEF FrameOK
<1>3. Current.n \in Nat \ {0} /\ Current.pass \in {1, 2} /\ Current.names \in Seq(Name)
        /\ Current.depth \in Nat
  BY <1>2 DEF FrameRec
<1>4. CASE rc # 0 /\ Current.depth > 0
  <2> DEFINE frames == At(Current.n, Current.pass, "next")
  <2>1. Enter(frames, Entry.dir, Current.names, Current.depth - 1)
    BY <1>4 DEF Deeper
  <2>2. GoodStack(frames) /\ Last(frames).at = "next"
    BY <1>1, <1>2, <1>3, AtOK
  <2>3. Entry.dir \in Dir
    BY <1>1, <1>2, EntryOK
  <2>4. fp.fd = None /\ Current.depth - 1 \in Nat
    BY <1>1, <1>3, <1>4 DEF IInv, FdOK
  <2>5. SearchOK'
    BY <1>1 DEF IInv, SearchOK
  <2> HIDE DEF frames
  <2> QED
    BY <1>1, <1>3, <2>1, <2>2, <2>3, <2>4, <2>5, EnterOK
<1>5. CASE ~(rc # 0 /\ Current.depth > 0)
  <2>1. stack' = At(Current.n, Current.pass, "next") /\ UNCHANGED <<fp, rc, pc>>
    BY <1>5 DEF Deeper
  <2> QED
    BY <1>1, <1>2, <1>3, <2>1, MoveOK
<1> QED
  BY <1>4, <1>5

LEMMA NextEntryOK == IInv /\ NextEntry => IInv'
<1> SUFFICES ASSUME IInv, NextEntry PROVE IInv'
  OBVIOUS
<1>1. /\ pc = "search" /\ Current.at = "next" /\ stack # <<>>
      /\ UNCHANGED <<fs, req, calls, dirpath, k, tries, fp, streams, rc>>
  BY DEF NextEntry, IInv, PcOK, search
<1>2. Current \in FrameRec /\ Current.dir \in Dir
  BY <1>1, TopOK
<1>3. Current.n + 1 \in Nat \ {0} /\ Current.pass \in {1, 2}
  BY <1>2 DEF FrameRec
<1>4. CASE rc = 0
  <2>1. pc' = "return" /\ stack' = stack
    BY <1>4 DEF NextEntry
  <2> QED
    BY <1>1, <2>1, DoneOK
<1>5. CASE rc # 0
  <2>1. stack' = At(Current.n + 1, Current.pass, "entry") /\ pc' = pc /\ fp.fd = None
    BY <1>1, <1>5 DEF NextEntry, IInv, FdOK
  <2> QED
    BY <1>1, <1>2, <1>3, <2>1, MoveOK
<1> QED
  BY <1>4, <1>5

LEMMA EndOfPassOK == IInv /\ EndOfPass => IInv'
<1> SUFFICES ASSUME IInv, EndOfPass PROVE IInv'
  OBVIOUS
<1>1. /\ pc = "search" /\ Current.at = "entry" /\ stack # <<>> /\ fp.fd = None
      /\ UNCHANGED <<fs, req, calls, dirpath, k, tries, fp, streams, rc>>
  BY DEF EndOfPass, IInv, PcOK, FdOK, search
<1>2. Current.dir \in Dir
  BY <1>1, TopOK
<1>3. CASE stack' = At(1, 2, "entry") /\ UNCHANGED pc
  BY <1>1, <1>2, <1>3, MoveOK
<1>4. CASE pc' = "return" /\ UNCHANGED stack
  BY <1>1, <1>4, DoneOK
<1> QED
  BY <1>3, <1>4 DEF EndOfPass

(* The caller's frame waits at "deeper" or "next", where a stream is kept. *)
LEMMA ReturnOK == IInv /\ Return => IInv'
<1> SUFFICES ASSUME IInv, Return PROVE IInv'
  OBVIOUS
<1>1. /\ stack # <<>> /\ pc = "return"
      /\ UNCHANGED <<fs, req, calls, dirpath, k, tries, fp, streams, rc>>
  BY DEF Return, IInv, PcOK, search
<1>2. /\ GoodStack(stack') /\ Len(stack') = Len(stack) - 1
      /\ stack' # <<>> <=> Len(stack) > 1
      /\ \A i \in 1 .. Len(stack) - 1 : stack'[i].at \in {"deeper", "next"}
  BY <1>1, PopOK DEF Return, IInv, StackOK
<1>3. stack' # <<>> => Last(stack').at \in {"deeper", "next"}
  <2>1. Len(stack) \in Nat
    BY LenProperties DEF IInv, StackOK, GoodStack
  <2> QED
    BY <1>2, <2>1 DEF Last
<1>4. pc' = IF stack' # <<>> THEN "search" ELSE IF rc = 0 THEN "exit" ELSE "dirs"
  BY <1>2 DEF Return
<1>5. \A i \in DOMAIN stack' : stack'[i].depth \in Nat /\ stack'[i].dir \in Dir \union {NoDir}
  BY <1>2, StackTypes
<1>6. TypeOK' /\ SearchOK'
  BY <1>1, <1>4, <1>5 DEF IInv, TypeOK, SearchOK
<1>7. PcOK' /\ StackOK'
  BY <1>2, <1>4 DEF PcOK, StackOK
<1>8. FdOK' /\ StreamsOwned'
  BY <1>1, <1>3, <1>4 DEF IInv, FdOK, StreamsOwned, Current
<1> QED
  BY <1>6, <1>7, <1>8 DEF IInv

LEMMA OtherProgramOK == IInv /\ OtherProgram => IInv'
<1> SUFFICES ASSUME IInv, OtherProgram PROVE IInv'
  OBVIOUS
<1>1. UNCHANGED <<req, calls, dirpath, k, stack, tries, fp, streams, rc, pc>>
  BY DEF OtherProgram, search
<1>2. DOMAIN fs' \subseteq DOMAIN fs
  BY DEF OtherProgram
<1>3. SearchOK'
  BY <1>1, <1>2 DEF IInv, SearchOK
<1> QED
  BY <1>1, <1>3 DEF IInv, TypeOK, StackOK, GoodStack, PcOK, FdOK, StreamsOwned, Current

LEMMA StepOK == IInv /\ [Next]_vars => IInv'
<1> SUFFICES ASSUME IInv, [Next]_vars PROVE IInv'
  OBVIOUS
<1>1. CASE UNCHANGED vars
  <2>1. TypeOK' /\ SearchOK' /\ StackOK'
    BY <1>1 DEF vars, IInv, TypeOK, SearchOK, StackOK, GoodStack
  <2> QED
    BY <1>1, <2>1 DEF vars, IInv, PcOK, FdOK, StreamsOwned, Current
<1> QED
  BY <1>1, kbdfile_findOK, CallerEndsOK, open_pathnameOK, EndTriesOK, findfile_by_fullnameOK, EndFullnameOK,
     NextDirOK, EndDirsOK, ScanOK, VisitOK, DeeperOK, NextEntryOK, EndOfPassOK, ReturnOK, kbdfile_closeOK,
     OtherProgramOK DEF Next, Library, Finished

(* No stream is lost (StreamsOwned): findfile_in_dir forgets fp->fd at     *)
(* every entry, kbdfile_find opens one file after the other into the same  *)
(* struct, and the flag that decides between pclose and fclose is set and  *)
(* cleared on the way; yet for any tree and any calls the stream is the    *)
(* one the status tells of, and is closed as it was opened.                *)
THEOREM NoStreamLost == Spec => []StreamsOwned
<1>1. IInv => StreamsOwned
  BY DEF IInv
<1> QED
  BY <1>1, InitOK, StepOK, PTL DEF Spec

(* The shape of the state, and of the frames.                              *)
THEOREM TypeCorrect == Spec => [](TypeOK /\ StackOK)
<1>1. IInv => TypeOK /\ StackOK
  BY DEF IInv
<1> QED
  BY <1>1, InitOK, StepOK, PTL DEF Spec

=============================================================================
