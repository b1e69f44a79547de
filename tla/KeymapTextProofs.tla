-------------------------- MODULE KeymapTextProofs --------------------------
(***************************************************************************)
(* Proofs about the include stack of libkeymap's scanner, alone            *)
(* (IncludeStack) and with the lines of the keymap files (KeymapText): for *)
(* any files, any depth of the stack and any number of calls of            *)
(* lk_parse_keymap, by a caller that stops at the first error.  And about  *)
(* the names of keysyms (Ksyms): for any tables with the shape of the      *)
(* library's, what dumpkeys prints for a bound code loadkeys reads back.   *)
(***************************************************************************)
EXTENDS KeymapText, SequenceTheorems, WellFoundedInduction, TLAPS

(* A struct kbdfile, and a buffer of the scanner.                          *)
KbdfileRec ==
    [file : File, by : {"caller", "include"}, pushed : BOOLEAN, lib : Nat, own : Nat]
BufferRec == [fp : Nat, pos : Nat]

OnStack(i) == \E j \in DOMAIN stack : stack[j] = i

(* What the caller opened is not closed by the library.                    *)
FilesOK ==
    /\ files \in Seq(KbdfileRec)
    /\ \A i \in DOMAIN files : files[i].by = "caller" => files[i].lib = 0

(* The stack holds open files, each once, the caller's at the bottom and   *)
(* nowhere else: stack_pop closes every file but the bottom one.           *)
StackOK ==
    /\ stack \in Seq(Nat)
    /\ Len(stack) <= MaxDepth
    /\ \A j \in DOMAIN stack : stack[j] \in DOMAIN files
    /\ \A j \in DOMAIN stack : files[stack[j]].lib = 0
    /\ \A j \in DOMAIN stack :
          files[stack[j]].by = IF j = 1 THEN "caller" ELSE "include"
    /\ \A j, k \in DOMAIN stack : stack[j] = stack[k] => j = k

(* Without an error, an included file is on the stack, or closed once, or  *)
(* found no place on it.                                                   *)
ClosedOnce ==
    ret = 0 => \A i \in DOMAIN files :
        files[i].by = "include" /\ files[i].pushed => files[i].lib = 1 \/ OnStack(i)

(* While it reads, the scanner has a buffer for every file on the stack.   *)
Reading ==
    /\ buffers \in Seq(BufferRec)
    /\ pc = "yyparse" =>
          /\ Len(buffers) = Len(stack)
          /\ Len(buffers) >= 1
          /\ \A j \in DOMAIN stack : stack[j] = buffers[j].fp
          /\ \A j \in DOMAIN stack : files[stack[j]].own = 0

(* Where a call that did not fail has left the stack empty.                *)
Control ==
    /\ pc \in {"caller", "yyparse", "pop", "returned", "exit"}
    /\ ret \in {0, 1}
    /\ pc \in {"caller", "yyparse"} => ret = 0
    /\ pc \in {"caller", "pop", "returned"} /\ ret = 0 => stack = <<>>

IInv == FilesOK /\ StackOK /\ ClosedOnce /\ Reading /\ Control

-----------------------------------------------------------------------------
(* Sequences.                                                              *)

(* Front: all but the last.                                                *)
LEMMA FrontKeeps ==
    ASSUME NEW S, NEW s \in Seq(S), s # <<>>
    PROVE  /\ Front(s) \in Seq(S)
           /\ Len(s) \in Nat \ {0}
           /\ Len(Front(s)) = Len(s) - 1
           /\ DOMAIN Front(s) = 1 .. Len(s) - 1
           /\ \A i \in 1 .. Len(s) - 1 : Front(s)[i] = s[i]
<1>1. Len(s) \in Nat \ {0} /\ DOMAIN s = 1 .. Len(s)
  BY EmptySeq, LenProperties
<1>2. Front(s) = SubSeq(s, 1, Len(s) - 1)
  BY DEF Front
<1>3. \A i \in 1 .. Len(s) - 1 : s[i] \in S
  BY <1>1, ElementOfSeq
<1>4. SubSeq(s, 1, Len(s) - 1) = [i \in 1 .. Len(s) - 1 |-> s[i]]
  BY <1>1, SMT
<1>5. [i \in 1 .. Len(s) - 1 |-> s[i]] \in Seq(S)
  BY <1>1, <1>3
<1> QED
  BY <1>1, <1>2, <1>4, <1>5

(* Append: one more at the end.                                            *)
LEMMA AppendKeeps ==
    ASSUME NEW S, NEW s \in Seq(S), NEW e \in S
    PROVE  /\ Append(s, e) \in Seq(S)
           /\ Len(s) \in Nat
           /\ Len(Append(s, e)) = Len(s) + 1
           /\ DOMAIN s = 1 .. Len(s)
           /\ DOMAIN Append(s, e) = 1 .. Len(s) + 1
           /\ \A i \in 1 .. Len(s) : Append(s, e)[i] = s[i]
           /\ Append(s, e)[Len(s) + 1] = e
BY AppendProperties, LenProperties

(* Another struct of a sequence of them: the length stays.                 *)
LEMMA ExceptKeeps ==
    ASSUME NEW S, NEW s \in Seq(S), NEW i \in DOMAIN s, NEW e \in S
    PROVE  /\ [s EXCEPT ![i] = e] \in Seq(S)
           /\ Len([s EXCEPT ![i] = e]) = Len(s)
           /\ DOMAIN [s EXCEPT ![i] = e] = DOMAIN s
BY ExceptSeq, LenProperties

-----------------------------------------------------------------------------
(* Without the last entry the stack holds what it held.                    *)
LEMMA PopKeeps ==
    ASSUME MaxDepth \in Nat, FilesOK, StackOK, ClosedOnce, stack_pop, ret' = ret
    PROVE  FilesOK' /\ StackOK' /\ ClosedOnce'
<1> DEFINE n == Len(stack)
<1>1. CASE stack = <<>>
  <2>1. stack' = stack /\ files' = files
    BY <1>1 DEF stack_pop, PopCloses
  <2> QED
    BY <2>1 DEF FilesOK, StackOK, ClosedOnce, OnStack
<1>2. CASE stack # <<>>
  <2>1. /\ stack' \in Seq(Nat) /\ n \in Nat \ {0} /\ Len(stack') = n - 1
        /\ DOMAIN stack' = 1 .. n - 1 /\ \A i \in 1 .. n - 1 : stack'[i] = stack[i]
        /\ DOMAIN stack = 1 .. n
    <3>1. stack' = Front(stack)
      BY <1>2 DEF stack_pop
    <3> QED
      BY <1>2, <3>1, FrontKeeps, LenProperties DEF StackOK
  <2>2. CASE n = 1
    <3>1. files' = files /\ stack' = <<>>
      BY <2>1, <2>2, EmptySeq DEF stack_pop, PopCloses
    <3>2. DOMAIN stack' = {}
      BY <2>1, <2>2
    <3>3. FilesOK'
      BY <3>1 DEF FilesOK
    <3>4. StackOK'
      BY <2>1, <2>2, <3>1, <3>2 DEF StackOK
    <3>5. \A i : OnStack(i) => files[i].by = "caller"
      BY <2>1, <2>2 DEF StackOK, OnStack
    <3>6. ClosedOnce'
      BY <3>1, <3>5 DEF ClosedOnce
    <3> QED
      BY <3>3, <3>4, <3>6
  <2>3. CASE n > 1
    <3> DEFINE t == stack[n]
    <3>1. t \in DOMAIN files /\ files[t].lib = 0 /\ files[t].by = "include"
      BY <2>1, <2>3 DEF StackOK
    <3>2. files[t] \in KbdfileRec
      BY <3>1, ElementOfSeq, LenProperties DEF FilesOK
    <3>3. [files[t] EXCEPT !.lib = 1] \in KbdfileRec
      BY <3>2 DEF KbdfileRec
    <3>4. files' = [files EXCEPT ![t] = [files[t] EXCEPT !.lib = 1]]
      BY <1>2, <2>3, <3>1 DEF stack_pop, PopCloses, Last
    <3>5. files' \in Seq(KbdfileRec) /\ DOMAIN files' = DOMAIN files
      BY <3>1, <3>3, <3>4, ExceptKeeps DEF FilesOK
    <3>6. /\ files'[t].lib = 1
          /\ \A i \in DOMAIN files : i # t => files'[i] = files[i]
          /\ \A i \in DOMAIN files :
                files'[i].by = files[i].by /\ files'[i].pushed = files[i].pushed
      <4>1. \A i \in DOMAIN files : i # t => files'[i] = files[i]
        BY <3>4
      <4>2. files'[t] = [files[t] EXCEPT !.lib = 1]
        BY <3>1, <3>4
      <4>3. /\ files'[t].lib = 1 /\ files'[t].by = files[t].by
            /\ files'[t].pushed = files[t].pushed
        BY <3>2, <4>2 DEF KbdfileRec
      <4> QED
        BY <4>1, <4>3
    <3>7. FilesOK'
      BY <3>1, <3>5, <3>6 DEF FilesOK
    <3>8. \A j \in 1 .. n - 1 : stack[j] # t
      <4>1. \A j, l \in 1 .. n : stack[j] = stack[l] => j = l
        BY <2>1 DEF StackOK
      <4> QED
        BY <2>1, <2>3, <4>1
    <3>9. StackOK'
      <4>1. Len(stack') <= MaxDepth
        BY <2>1 DEF StackOK
      <4>2. \A j \in DOMAIN stack' :
              /\ j \in DOMAIN stack /\ stack'[j] = stack[j] /\ stack[j] # t
              /\ stack[j] \in DOMAIN files
        BY <2>1, <3>8 DEF StackOK
      <4> QED
        BY <2>1, <3>5, <3>6, <4>1, <4>2 DEF StackOK
    <3>10. \A i : OnStack(i) /\ i # t => OnStack(i)'
      BY <2>1, <2>3 DEF OnStack
    <3>11. ClosedOnce'
      BY <3>5, <3>6, <3>10 DEF ClosedOnce
    <3> QED
      BY <3>7, <3>9, <3>11
  <2> QED
    BY <2>1, <2>2, <2>3
<1> QED
  BY <1>1, <1>2
(* A new file on top of the stack: the caller's, or an included one.       *)
Pushed(f) ==
    /\ files' = Append(files, Kbdfile(f, IF stack = <<>> THEN "caller" ELSE "include"))
    /\ stack' = Append(stack, Len(files) + 1)
    /\ ret' = ret

LEMMA PushKeeps ==
    ASSUME FilesOK, StackOK, ClosedOnce, ~StackFull, MaxDepth \in Nat,
           NEW f \in File, Pushed(f)
    PROVE  /\ FilesOK' /\ StackOK' /\ ClosedOnce'
           /\ \A i \in DOMAIN files : files'[i] = files[i]
           /\ files'[Len(files) + 1].own = 0
           /\ Len(files) + 1 \in Nat
<1> DEFINE m == Len(files)
           n == Len(stack)
           k == Kbdfile(f, IF stack = <<>> THEN "caller" ELSE "include")
<1>1. k \in KbdfileRec /\ k.lib = 0 /\ k.own = 0
  <2>1. StackFull \in BOOLEAN
    BY DEF StackFull
  <2> QED
    BY <2>1 DEF Kbdfile, KbdfileRec
<1>2. k.by = IF stack = <<>> THEN "caller" ELSE "include"
  BY DEF Kbdfile
<1>3. /\ files' \in Seq(KbdfileRec) /\ m \in Nat /\ DOMAIN files = 1 .. m
      /\ DOMAIN files' = 1 .. m + 1 /\ files'[m + 1] = k
      /\ \A i \in 1 .. m : files'[i] = files[i]
  BY <1>1, AppendKeeps DEF FilesOK, Pushed
<1>4. /\ stack' \in Seq(Nat) /\ n \in Nat /\ DOMAIN stack = 1 .. n
      /\ DOMAIN stack' = 1 .. n + 1 /\ stack'[n + 1] = m + 1 /\ Len(stack') = n + 1
      /\ \A j \in 1 .. n : stack'[j] = stack[j]
  BY <1>3, AppendKeeps DEF StackOK, Pushed
<1>a. n <= MaxDepth /\ n # MaxDepth /\ ret' = ret
  BY DEF StackOK, StackFull, Pushed
<1>7. stack = <<>> <=> n = 0
  BY <1>4, EmptySeq DEF StackOK
<1> HIDE DEF m, n, k
<1>5. FilesOK'
  BY <1>1, <1>3 DEF FilesOK
<1>6. \A j \in 1 .. n : stack[j] \in 1 .. m
  BY <1>3, <1>4 DEF StackOK
<1>8. StackOK'
  <2>1. Len(stack') <= MaxDepth
    BY <1>4, <1>a
  <2>2. \A j \in DOMAIN stack' : stack'[j] \in DOMAIN files'
    BY <1>3, <1>4, <1>6
  <2>3. \A j \in DOMAIN stack' : files'[stack'[j]].lib = 0
    BY <1>1, <1>3, <1>4, <1>6 DEF StackOK
  <2>4. \A j \in DOMAIN stack' :
          files'[stack'[j]].by = IF j = 1 THEN "caller" ELSE "include"
    <3> SUFFICES ASSUME NEW j \in 1 .. n + 1
                 PROVE  files'[stack'[j]].by = IF j = 1 THEN "caller" ELSE "include"
      BY <1>4
    <3>1. CASE j \in 1 .. n
      <4>1. files[stack[j]].by = IF j = 1 THEN "caller" ELSE "include"
        BY <1>4, <3>1 DEF StackOK
      <4>2. stack'[j] = stack[j] /\ files'[stack[j]] = files[stack[j]]
        BY <1>3, <1>4, <1>6, <3>1
      <4> QED
        BY <4>1, <4>2
    <3>2. CASE j = n + 1
      BY <1>2, <1>3, <1>4, <1>7, <3>2
    <3> QED
      BY <1>4, <3>1, <3>2
  <2>5. \A j, l \in DOMAIN stack' : stack'[j] = stack'[l] => j = l
    BY <1>3, <1>4, <1>6 DEF StackOK
  <2> QED
    BY <1>4, <2>1, <2>2, <2>3, <2>4, <2>5 DEF StackOK
<1>9. ClosedOnce'
  <2>1. \A i : i = m + 1 \/ OnStack(i) => OnStack(i)'
    BY <1>4 DEF OnStack
  <2> SUFFICES ASSUME ret = 0, NEW i \in DOMAIN files', files'[i].by = "include",
                      files'[i].pushed
               PROVE  files'[i].lib = 1 \/ OnStack(i)'
    BY <1>a DEF ClosedOnce
  <2>2. CASE i = m + 1
    BY <2>1, <2>2
  <2>3. CASE i \in 1 .. m
    BY <1>3, <2>1, <2>3 DEF ClosedOnce
  <2> QED
    BY <1>3, <2>2, <2>3
<1> QED
  BY <1>1, <1>3, <1>5, <1>8, <1>9 DEF m

(* The scanner goes on in the file on top.                                 *)
LEMMA AdvancedKeeps ==
    ASSUME buffers \in Seq(BufferRec), Len(buffers) >= 1
    PROVE  /\ Advanced \in Seq(BufferRec)
           /\ Len(Advanced) = Len(buffers)
           /\ DOMAIN Advanced = DOMAIN buffers
           /\ DOMAIN buffers = 1 .. Len(buffers)
           /\ Len(buffers) \in Nat
           /\ \A j \in DOMAIN buffers : Advanced[j].fp = buffers[j].fp
<1> DEFINE n == Len(buffers)
           b == [buffers[n] EXCEPT !.pos = @ + 1]
<1>1. n \in Nat /\ DOMAIN buffers = 1 .. n /\ n \in DOMAIN buffers
  BY LenProperties
<1>2. \A j \in 1 .. n : buffers[j] \in BufferRec
  BY <1>1, ElementOfSeq
<1>3. b \in BufferRec /\ b.fp = buffers[n].fp
  <2>1. buffers[n] \in BufferRec
    BY <1>1, <1>2
  <2> QED
    BY <2>1 DEF BufferRec
<1>4. Advanced = [buffers EXCEPT ![n] = b]
  BY DEF Advanced
<1>5. /\ Advanced \in Seq(BufferRec) /\ Len(Advanced) = n
      /\ DOMAIN Advanced = DOMAIN buffers
  BY <1>1, <1>3, <1>4, ExceptKeeps
<1>6. \A j \in DOMAIN buffers : Advanced[j].fp = buffers[j].fp
  BY <1>1, <1>3, <1>4
<1> QED
  BY <1>1, <1>5, <1>6

-----------------------------------------------------------------------------
(* The invariant, action by action.                                        *)

LEMMA InitInv == ASSUME IncludeAssumption, Init PROVE IInv
<1>1. \A S : <<>> \in Seq(S)
  OBVIOUS
<1>2. DOMAIN <<>> = {} /\ Len(<<>>) = 0
  OBVIOUS
<1> QED
  BY <1>1, <1>2 DEF Init, IInv, FilesOK, StackOK, ClosedOnce, Reading, Control, IncludeAssumption

LEMMA ParseInv ==
    ASSUME IncludeAssumption, IInv, NEW f \in File, lk_parse_keymap(f)
    PROVE  IInv'
<1>1. pc = "caller" /\ ret = 0 /\ stack = <<>> /\ Len(stack) = 0 /\ DOMAIN stack = {}
  BY DEF lk_parse_keymap, IInv, Control
<1>2. ~StackFull /\ MaxDepth \in Nat
  BY <1>1 DEF IncludeAssumption, StackFull
<1>3. /\ files' = Append(files, Kbdfile(f, "caller"))
      /\ stack' = Append(stack, Len(files) + 1)
      /\ buffers' = <<[fp |-> Len(files) + 1, pos |-> 1]>>
      /\ ret' = 0 /\ pc' = "yyparse"
  BY <1>2 DEF lk_parse_keymap
<1>4. /\ FilesOK' /\ StackOK' /\ ClosedOnce'
      /\ files'[Len(files) + 1].own = 0 /\ Len(files) + 1 \in Nat
  <2>1. Pushed(f)
    BY <1>1, <1>3 DEF Pushed
  <2> QED
    BY <1>2, <2>1, PushKeeps DEF IInv
<1>5. Len(stack') = 1 /\ DOMAIN stack' = {1} /\ stack'[1] = Len(files) + 1
  BY <1>1, <1>3, <1>4
<1>6. /\ buffers' \in Seq(BufferRec) /\ Len(buffers') = 1
      /\ buffers'[1].fp = Len(files) + 1
  BY <1>3, <1>4 DEF BufferRec
<1>7. Reading'
  BY <1>4, <1>5, <1>6 DEF Reading
<1>8. Control'
  BY <1>3 DEF Control
<1> QED
  BY <1>4, <1>7, <1>8 DEF IInv

LEMMA LineInv == ASSUME IncludeAssumption, IInv, Line PROVE IInv'
<1>1. /\ pc = "yyparse" /\ buffers' = Advanced /\ stack' = stack /\ files' = files
      /\ pc' = pc /\ ret' = ret
  BY DEF Line
<1>2. Reading'
  <2>1. buffers \in Seq(BufferRec) /\ Len(buffers) >= 1 /\ Len(buffers) = Len(stack)
    BY <1>1 DEF IInv, Reading
  <2>2. DOMAIN stack = 1 .. Len(stack)
    BY LenProperties DEF IInv, StackOK
  <2>3. /\ Advanced \in Seq(BufferRec) /\ Len(Advanced) = Len(buffers)
        /\ DOMAIN buffers = 1 .. Len(buffers)
        /\ \A j \in DOMAIN buffers : Advanced[j].fp = buffers[j].fp
    BY <2>1, AdvancedKeeps
  <2> QED
    BY <1>1, <2>1, <2>2, <2>3 DEF IInv, Reading
<1> QED
  BY <1>1, <1>2 DEF IInv, FilesOK, StackOK, ClosedOnce, OnStack, Control

LEMMA ErrorInv ==
    ASSUME IInv, pc = "yyparse", ret' = 1, pc' = "pop", UNCHANGED <<stack, buffers, files>>
    PROVE  IInv'
BY DEF IInv, FilesOK, StackOK, ClosedOnce, OnStack, Reading, Control

LEMMA EofInv == ASSUME IncludeAssumption, IInv, Eof PROVE IInv'
<1>1. /\ pc = "yyparse" /\ ret' = ret /\ ret = 0 /\ stack_pop /\ buffers' = Front(buffers)
      /\ pc' = IF Len(buffers) = 1 THEN "pop" ELSE pc
  BY DEF Eof, IInv, Control
<1>2. FilesOK' /\ StackOK' /\ ClosedOnce'
  BY <1>1, PopKeeps DEF IInv, IncludeAssumption
<1>3. buffers \in Seq(BufferRec) /\ stack \in Seq(Nat) /\ Len(buffers) >= 1 /\ Len(buffers) = Len(stack)
  BY <1>1 DEF IInv, Reading, StackOK
<1>4. buffers # <<>> /\ stack # <<>>
  BY <1>3, EmptySeq
<1>5. /\ buffers' \in Seq(BufferRec) /\ Len(buffers') = Len(buffers) - 1
      /\ Len(buffers) \in Nat \ {0}
      /\ \A j \in 1 .. Len(buffers) - 1 : buffers'[j] = buffers[j]
  BY <1>1, <1>3, <1>4, FrontKeeps
<1>6. /\ stack' \in Seq(Nat) /\ Len(stack') = Len(stack) - 1
      /\ DOMAIN stack' = 1 .. Len(stack) - 1 /\ DOMAIN stack = 1 .. Len(stack)
      /\ \A j \in 1 .. Len(stack) - 1 : stack'[j] = stack[j]
  <2>1. stack' = Front(stack)
    BY <1>1, <1>4 DEF stack_pop
  <2> QED
    BY <1>3, <1>4, <2>1, FrontKeeps, LenProperties
<1>7. Control'
  <2>1. Len(buffers) = 1 => stack' = <<>>
    BY <1>3, <1>6, EmptySeq
  <2> QED
    BY <1>1, <2>1 DEF IInv, Control
<1>8. \A i \in DOMAIN files : files'[i].own = files[i].own
  BY <1>1 DEF stack_pop
<1>9. Reading'
  <2>1. CASE Len(buffers) = 1
    BY <1>1, <1>5, <2>1 DEF Reading
  <2>2. CASE Len(buffers) > 1
    <3>1. \A j \in 1 .. Len(stack) :
            /\ stack[j] = buffers[j].fp /\ files[stack[j]].own = 0
            /\ stack[j] \in DOMAIN files
      BY <1>1, <1>6 DEF IInv, Reading, StackOK
    <3>2. \A j \in DOMAIN stack' : j \in 1 .. Len(stack) /\ stack'[j] = stack[j]
      BY <1>3, <1>5, <1>6
    <3>3. \A j \in DOMAIN stack' : stack'[j] = buffers'[j].fp
      BY <1>3, <1>5, <1>6, <3>1, <3>2
    <3>4. \A j \in DOMAIN stack' : files'[stack'[j]].own = 0
      BY <1>8, <3>1, <3>2
    <3>5. Len(buffers') = Len(stack') /\ Len(buffers') >= 1
      BY <1>3, <1>5, <1>6, <2>2
    <3> QED
      BY <1>5, <3>3, <3>4, <3>5 DEF Reading
  <2> QED
    BY <1>5, <2>1, <2>2
<1> QED
  BY <1>2, <1>7, <1>9 DEF IInv
LEMMA IncludeInv == ASSUME IncludeAssumption, IInv, Include PROVE IInv'
<1>1. /\ pc = "yyparse" /\ pc' = pc /\ ret' = ret /\ ret = 0 /\ Item \in File
      /\ files' = Append(files, Kbdfile(Item, "include"))
  BY DEF Include, IInv, Control
<1>2. /\ buffers \in Seq(BufferRec) /\ stack \in Seq(Nat) /\ files \in Seq(KbdfileRec)
      /\ Len(buffers) >= 1 /\ Len(buffers) = Len(stack) /\ Len(stack) \in Nat
      /\ DOMAIN stack = 1 .. Len(stack)
      /\ \A j \in DOMAIN stack : stack[j] = buffers[j].fp
      /\ \A j \in DOMAIN stack : stack[j] \in DOMAIN files /\ files[stack[j]].own = 0
  BY <1>1, LenProperties DEF IInv, Reading, StackOK, FilesOK
<1>3. stack # <<>>
  BY <1>2, EmptySeq
<1>4. /\ Advanced \in Seq(BufferRec) /\ Len(Advanced) = Len(buffers)
      /\ \A j \in 1 .. Len(buffers) : Advanced[j].fp = buffers[j].fp
  BY <1>2, AdvancedKeeps
<1>5. Control'
  BY <1>1 DEF Control, IInv
<1>6. CASE StackFull
  <2>1. buffers' = Advanced /\ stack' = stack
    BY <1>6 DEF Include
  <2> DEFINE k == Kbdfile(Item, "include")
  <2>2. k \in KbdfileRec /\ k.by = "include" /\ k.pushed = FALSE
    BY <1>1, <1>6 DEF Kbdfile, KbdfileRec
  <2>3. /\ files' \in Seq(KbdfileRec) /\ Len(files) \in Nat /\ DOMAIN files = 1 .. Len(files)
        /\ DOMAIN files' = 1 .. Len(files) + 1 /\ files'[Len(files) + 1] = k
        /\ \A i \in 1 .. Len(files) : files'[i] = files[i]
    BY <1>1, <1>2, <2>2, AppendKeeps
  <2> HIDE DEF k
  <2>4. FilesOK'
    BY <2>2, <2>3 DEF FilesOK, IInv
  <2>5. \A j \in DOMAIN stack : files'[stack[j]] = files[stack[j]] /\ stack[j] \in DOMAIN files'
    BY <1>2, <2>3
  <2>6. StackOK'
    BY <2>1, <2>5 DEF StackOK, IInv
  <2>7. ClosedOnce'
    BY <1>1, <2>1, <2>2, <2>3 DEF ClosedOnce, IInv, OnStack
  <2>8. Reading'
    BY <1>2, <1>4, <2>1, <2>5 DEF Reading
  <2> QED
    BY <1>5, <2>4, <2>6, <2>7, <2>8 DEF IInv
<1>7. CASE ~StackFull
  <2>1. /\ stack' = Append(stack, Len(files) + 1)
        /\ buffers' = Append(Advanced, [fp |-> Len(files) + 1, pos |-> 1])
    BY <1>7 DEF Include
  <2>2. Pushed(Item)
    BY <1>1, <1>3, <2>1 DEF Pushed
  <2>3. /\ FilesOK' /\ StackOK' /\ ClosedOnce'
        /\ \A i \in DOMAIN files : files'[i] = files[i]
        /\ files'[Len(files) + 1].own = 0 /\ Len(files) + 1 \in Nat
    BY <1>1, <1>7, <2>2, PushKeeps DEF IInv, IncludeAssumption
  <2>4. /\ Len(stack') = Len(stack) + 1 /\ DOMAIN stack' = 1 .. Len(stack) + 1
        /\ \A j \in 1 .. Len(stack) : stack'[j] = stack[j]
        /\ stack'[Len(stack) + 1] = Len(files) + 1
    BY <1>2, <2>1, <2>3, AppendKeeps
  <2> DEFINE b == [fp |-> Len(files) + 1, pos |-> 1]
  <2>5. b \in BufferRec /\ b.fp = Len(files) + 1
    BY <2>3 DEF BufferRec
  <2>6. /\ buffers' \in Seq(BufferRec) /\ Len(buffers') = Len(buffers) + 1
        /\ \A j \in 1 .. Len(buffers) : buffers'[j] = Advanced[j]
        /\ buffers'[Len(buffers) + 1] = b
    BY <1>4, <2>1, <2>5, AppendKeeps
  <2> HIDE DEF b
  <2>7. \A j \in DOMAIN stack' : stack'[j] = buffers'[j].fp
    <3>1. \A j \in 1 .. Len(stack) : stack'[j] = buffers'[j].fp
      BY <1>2, <1>4, <2>4, <2>6
    <3>2. stack'[Len(stack) + 1] = buffers'[Len(stack) + 1].fp
      BY <1>2, <2>4, <2>5, <2>6
    <3> QED
      BY <1>2, <2>4, <3>1, <3>2
  <2>8. \A j \in DOMAIN stack' : files'[stack'[j]].own = 0
    <3>1. \A j \in 1 .. Len(stack) : files'[stack'[j]].own = 0
      BY <1>2, <2>3, <2>4
    <3>2. files'[stack'[Len(stack) + 1]].own = 0
      BY <2>3, <2>4
    <3> QED
      BY <1>2, <2>4, <3>1, <3>2
  <2>9. Reading'
    BY <1>2, <2>4, <2>6, <2>7, <2>8 DEF Reading
  <2> QED
    BY <1>5, <2>3, <2>9 DEF IInv
<1> QED
  BY <1>6, <1>7

LEMMA ReturnInv == ASSUME IncludeAssumption, IInv, Return PROVE IInv'
<1>1. /\ pc = "pop" /\ stack_pop /\ buffers' = <<>> /\ pc' = "returned" /\ ret' = ret
  BY DEF Return
<1>2. FilesOK' /\ StackOK' /\ ClosedOnce'
  BY <1>1, PopKeeps DEF IInv, IncludeAssumption
<1>3. ret = 0 => stack' = <<>>
  BY <1>1 DEF IInv, Control, stack_pop
<1>4. Reading'
  BY <1>1 DEF Reading
<1>5. Control'
  BY <1>1, <1>3 DEF IInv, Control
<1> QED
  BY <1>2, <1>4, <1>5 DEF IInv

(* A caller that stops at an error has an empty stack when it goes on.     *)
LEMMA FreesInv == ASSUME IncludeAssumption, ~GoesOn, IInv, CallerFrees PROVE IInv'
<1>1. /\ pc = "returned" /\ pc' = IF ret # 0 THEN "exit" ELSE "caller"
      /\ stack' = stack /\ buffers' = buffers /\ ret' = ret
      /\ files' = [files EXCEPT ![Mine].own = @ + 1]
  BY DEF CallerFrees
<1>2. files' \in Seq(KbdfileRec) /\ DOMAIN files' = DOMAIN files
  <2>1. CASE Mine \in DOMAIN files
    <3>1. files[Mine] \in KbdfileRec
      BY <2>1, ElementOfSeq, LenProperties DEF IInv, FilesOK
    <3>2. [files[Mine] EXCEPT !.own = @ + 1] \in KbdfileRec
      BY <3>1 DEF KbdfileRec
    <3>3. files' = [files EXCEPT ![Mine] = [files[Mine] EXCEPT !.own = @ + 1]]
      BY <1>1
    <3> QED
      BY <2>1, <3>2, <3>3, ExceptKeeps DEF IInv, FilesOK
  <2>2. CASE Mine \notin DOMAIN files
    <3>1. files' = files
      BY <1>1, <2>2 DEF IInv, FilesOK
    <3> QED
      BY <3>1 DEF IInv, FilesOK
  <2> QED
    BY <2>1, <2>2
<1>3. \A i \in DOMAIN files :
        /\ files'[i].by = files[i].by /\ files'[i].pushed = files[i].pushed
        /\ files'[i].lib = files[i].lib
  BY <1>1
<1>4. FilesOK'
  BY <1>2, <1>3 DEF IInv, FilesOK
<1>5. StackOK'
  BY <1>1, <1>2, <1>3 DEF IInv, StackOK
<1>6. ClosedOnce'
  BY <1>1, <1>2, <1>3 DEF IInv, ClosedOnce, OnStack
<1>7. Reading' /\ Control'
  BY <1>1 DEF IInv, Reading, Control
<1> QED
  BY <1>4, <1>5, <1>6, <1>7 DEF IInv

LEMMA StutterInv == ASSUME IInv, UNCHANGED vars PROVE IInv'
BY DEF IInv, FilesOK, StackOK, ClosedOnce, OnStack, Reading, Control, vars

LEMMA NextInv ==
    ASSUME IncludeAssumption, ~GoesOn, IInv, [Next]_vars
    PROVE  IInv'
<1>1. ASSUME NEW f \in File, lk_parse_keymap(f) PROVE IInv'
  BY <1>1, ParseInv
<1>2. CASE Line
  BY <1>2, LineInv
<1>3. CASE SyntaxError
  BY <1>3, ErrorInv DEF SyntaxError
<1>4. CASE Include
  BY <1>4, IncludeInv
<1>5. CASE Eof
  BY <1>5, EofInv
<1>6. CASE Return
  BY <1>6, ReturnInv
<1>7. CASE CallerFrees
  BY <1>7, FreesInv
<1>8. CASE Done
  BY <1>8, StutterInv DEF Done
<1>9. CASE UNCHANGED vars
  BY <1>9, StutterInv
<1> QED
  BY <1>1, <1>2, <1>3, <1>4, <1>5, <1>6, <1>7, <1>8, <1>9 DEF Next, Library

(* With the text of the files: what a key line or a charset line does to   *)
(* the include stack is a step of a line, or that of an error.             *)
LEMMA TextNextInv ==
    ASSUME IncludeAssumption, ~GoesOn, IInv, [TextNext]_textvars
    PROVE  IInv'
<1>1. ASSUME NEW f \in File, TextParse(f) PROVE IInv'
  BY <1>1, ParseInv DEF TextParse
<1>2. CASE CharsetLine
  BY <1>2, LineInv DEF CharsetLine
<1>3. CASE KeyLine
  <2> DEFINE code == rvalue(charset, unicode, Current.rvalue)
  <2>1. Bind(code) \/ UnknownKsym
    BY <1>3 DEF KeyLine
  <2>2. CASE Bind(code)
    BY <2>2, LineInv DEF Bind
  <2>3. CASE UnknownKsym
    BY <1>3, <2>3, ErrorInv DEF UnknownKsym, KeyLine, AtLine
  <2> QED
    BY <2>1, <2>2, <2>3
<1>4. CASE SyntaxError \/ Include \/ Eof \/ Return \/ CallerFrees \/ Done
  BY <1>4, NextInv DEF Next, Library
<1>5. CASE UNCHANGED textvars
  BY <1>5, StutterInv DEF textvars
<1> QED
  BY <1>1, <1>2, <1>3, <1>4, <1>5 DEF TextNext, TextLibrary

-----------------------------------------------------------------------------
(* What the invariant says of the properties.                              *)
LEMMA InvOnStack == ASSUME IInv PROVE ScannerOnStack
<1> SUFFICES ASSUME pc = "yyparse" PROVE ScannerOnStack
  BY DEF ScannerOnStack
<1>1. /\ stack \in Seq(Nat) /\ buffers \in Seq(BufferRec) /\ Len(buffers) = Len(stack)
      /\ \A j \in DOMAIN stack : stack[j] = buffers[j].fp
  BY DEF IInv, Reading, StackOK
<1>2. DOMAIN stack = DOMAIN buffers
  BY <1>1, LenProperties
<1>3. stack = [i \in DOMAIN buffers |-> buffers[i].fp]
  BY <1>1, <1>2, LenProperties
<1> QED
  BY <1>3 DEF ScannerOnStack, IInv, Reading, StackOK

LEMMA InvClosed == ASSUME IInv PROVE ClosedByOwner
<1>1. pc = "returned" /\ ret = 0 => stack = <<>>
  BY DEF IInv, Control
<1>2. stack = <<>> => \A i : ~OnStack(i)
  BY DEF OnStack
<1> QED
  BY <1>1, <1>2 DEF ClosedByOwner, IInv, FilesOK, ClosedOnce

(* While it reads a keymap file, with its includes, charset lines and      *)
(* keys, the scanner reads from the open files of ctx->stack in their      *)
(* order: stack_push, stack_pop and the scanner's own buffers agree.       *)
THEOREM ScannerFollowsStack == ~GoesOn => (TextSpec => []ScannerOnStack)
<1> SUFFICES ASSUME ~GoesOn PROVE TextSpec => []ScannerOnStack
  OBVIOUS
<1>1. TextInit => IInv
  BY IncludeAssumption, InitInv DEF TextInit
<1>2. IInv /\ [TextNext]_textvars => IInv'
  BY IncludeAssumption, TextNextInv
<1>3. IInv => ScannerOnStack
  BY InvOnStack
<1> QED
  BY <1>1, <1>2, <1>3, PTL DEF TextSpec

(* lk_parse_keymap leaves the caller's kbdfile to the caller, and after a  *)
(* success the stack is empty and every included file that got on it was   *)
(* closed once.                                                            *)
THEOREM FilesClosedByOwner == ~GoesOn => (TextSpec => []ClosedByOwner)
<1> SUFFICES ASSUME ~GoesOn PROVE TextSpec => []ClosedByOwner
  OBVIOUS
<1>1. TextInit => IInv
  BY IncludeAssumption, InitInv DEF TextInit
<1>2. IInv /\ [TextNext]_textvars => IInv'
  BY IncludeAssumption, TextNextInv
<1>3. IInv => ClosedByOwner
  BY InvClosed
<1> QED
  BY <1>1, <1>2, <1>3, PTL DEF TextSpec
-----------------------------------------------------------------------------
(* Names                                                                   *)

(* A code is a type and a value; xor 0xf000 undoes itself and keeps the    *)
(* characters below 0xf000 apart from the codes of types.                  *)
LEMMA CodeParts ==
    ASSUME NEW code \in Nat, code < 4096
    PROVE  KTYP(code) \in 0 .. 15 /\ KVAL(code) \in 0 .. 255 /\ code = K(KTYP(code), KVAL(code))
  BY DEF KTYP, KVAL, K

(* 16 bits, and the characters that the scanner takes.                     *)
Word(x) == x \in Nat /\ x < 65536
Scalar(x) == x \in Nat /\ x < 61440

LEMMA XorTwice ==
    ASSUME NEW x \in Nat, x < 65536
    PROVE  /\ U(x) \in Nat /\ U(x) < 65536 /\ U(U(x)) = x
           /\ x < 61440 <=> IsUnicode(U(x))
           /\ IsUnicode(x) <=> U(x) < 61440
           /\ IsUnicode(x) => KTYP(x) >= 16
           /\ KTYP(x) \in Nat /\ KTYP(x) < 256 /\ KVAL(x) \in 0 .. 255
<1> DEFINE q == x \div 4096
           r == x % 4096
<1>1. q \in Nat /\ q < 16 /\ r \in Nat /\ r < 4096 /\ x = q * 4096 + r
  OBVIOUS
<1>2. U(x) = (15 - q) * 4096 + r
  BY DEF U
<1>3. \A p, s \in Nat : s < 4096 => (p * 4096 + s) \div 4096 = p /\ (p * 4096 + s) % 4096 = s
  OBVIOUS
<1> HIDE DEF q, r
<1>4. U(x) \in Nat /\ U(x) < 65536
  BY <1>1, <1>2
<1>5. U(x) \div 4096 = 15 - q /\ U(x) % 4096 = r
  BY <1>1, <1>2, <1>3
<1>6. U(U(x)) = x
  BY <1>1, <1>5 DEF U
<1>7. (x < 61440 <=> IsUnicode(U(x))) /\ (IsUnicode(x) <=> U(x) < 61440)
  BY <1>1, <1>2 DEF IsUnicode
<1>8. (IsUnicode(x) => KTYP(x) >= 16) /\ KTYP(x) \in Nat /\ KTYP(x) < 256 /\ KVAL(x) \in 0 .. 255
  BY DEF IsUnicode, KTYP, KVAL
<1> QED
  BY <1>4, <1>6, <1>7, <1>8

LEMMA WordXor ==
    ASSUME NEW x, Word(x)
    PROVE  /\ x \in Nat /\ Word(U(x)) /\ U(x) \in Nat /\ U(U(x)) = x
           /\ Scalar(x) <=> IsUnicode(U(x))
           /\ IsUnicode(x) <=> Scalar(U(x))
           /\ IsUnicode(x) => KTYP(x) >= 16
           /\ KTYP(x) \in Nat /\ KVAL(x) \in 0 .. 255
           /\ ~IsUnicode(x) => ~(U(x) < 256)
<1>1. x \in Nat /\ x < 65536
  BY DEF Word
<1>2. /\ U(x) \in Nat /\ U(x) < 65536 /\ U(U(x)) = x
      /\ x < 61440 <=> IsUnicode(U(x))
      /\ IsUnicode(x) <=> U(x) < 61440
      /\ IsUnicode(x) => KTYP(x) >= 16
      /\ KTYP(x) \in Nat /\ KVAL(x) \in 0 .. 255
  BY <1>1, XorTwice
<1> QED
  BY <1>1, <1>2 DEF Word, Scalar

LEMMA PartsCode ==
    ASSUME NEW t \in 0 .. 15, NEW v \in 0 .. 255
    PROVE  /\ K(t, v) \in Nat /\ Word(K(t, v)) /\ ~IsUnicode(K(t, v))
           /\ KTYP(K(t, v)) = t /\ KVAL(K(t, v)) = v
  BY DEF KTYP, KVAL, K, IsUnicode, Word

(* The first of some places is one of them, and the only one is the first. *)
LEMMA FirstIn ==
    ASSUME NEW S \in SUBSET Nat
    PROVE  /\ S # {} => First(S) \in S /\ \A j \in S : First(S) <= j
           /\ S = {} => First(S) = None
           /\ First(S) # None <=> S # {}
<1>1. ASSUME S # {} PROVE \E i \in S : \A j \in S : i <= j
  <2>1. PICK i \in S : \A j \in S : <<j, i>> \notin OpToRel(<, Nat)
    BY <1>1, NatLessThanWellFounded, WFMin
  <2>2. \A j \in S : ~(j < i)
    BY <2>1 DEF OpToRel
  <2> QED
    BY <2>2
<1>2. S # {} => First(S) \in S /\ \A j \in S : First(S) <= j
  BY <1>1 DEF First
<1>3. S = {} => First(S) = None
  BY DEF First
<1>4. None \notin Nat
  BY DEF None
<1> QED
  BY <1>2, <1>3, <1>4

LEMMA FirstOnly ==
    ASSUME NEW S \in SUBSET Nat, NEW x \in S, \A y \in S : y = x
    PROVE  First(S) = x
  BY FirstIn

-----------------------------------------------------------------------------
(* The tables                                                              *)

(* The values of types, and no others, have names.                         *)
LEMMA SymIn ==
    ASSUME NEW t, NEW v, get_sym(t, v) # NoName
    PROVE  t \in DOMAIN syms /\ v \in DOMAIN syms[t] /\ syms[t][v] = get_sym(t, v) /\ v \in 0 .. 255
  BY KsymsAssumption DEF get_sym

LEMMA CharsetIn ==
    ASSUME NEW cs \in DOMAIN charsets, NEW v, CharsetName(cs, v) # NoName
    PROVE  v \in DOMAIN charsets[cs] /\ charsets[cs][v].name = CharsetName(cs, v)
  BY DEF CharsetName

(* iso-8859-1 is one of the charsets in which names can be told apart.     *)
LEMMA Latin1Consistent == 1 \in Consistent
<1>1. 1 \in DOMAIN charsets
  BY KsymsAssumption
<1>2. ASSUME NEW b \in DOMAIN charsets[1], NEW v \in (128 .. 255) \ {b}
      PROVE  LET s == charsets[1][b].name
             IN s # CharsetName(1, v) /\ (CharsetName(1, v) = NoName => s # get_sym(KT_LATIN, v))
  <2> DEFINE s == charsets[1][b].name
  <2>1. b \in 128 .. 255 /\ s # NoName
    BY <1>1, KsymsAssumption, NamesAssumption
  <2>2. s = CharsetName(1, b) /\ get_sym(KT_LATIN, b) = s /\ get_sym(KT_LATIN, v) = CharsetName(1, v)
    BY <2>1, NamesAssumption DEF CharsetName
  <2>3. get_sym(KT_LATIN, v) # s
    <3>1. SUFFICES ASSUME get_sym(KT_LATIN, v) = s PROVE FALSE
      OBVIOUS
    <3>2. /\ KT_LATIN \in DOMAIN syms
          /\ v \in DOMAIN syms[KT_LATIN] /\ syms[KT_LATIN][v] = s
          /\ b \in DOMAIN syms[KT_LATIN] /\ syms[KT_LATIN][b] = s
      BY <2>1, <2>2, <3>1, SymIn
    <3> QED
      BY <2>1, <3>2, NamesAssumption
  <2> QED
    BY <2>2, <2>3
<1> QED
  BY <1>1, <1>2 DEF Consistent

(* A charset that is consistent finds the byte of its own names, and       *)
(* leaves the names of iso-8859-1 for bytes it has no name for.            *)
LEMMA ByteFound ==
    ASSUME NEW cs \in Consistent, NEW v \in 128 .. 255, CharsetName(cs, v) # NoName
    PROVE  ByteIn(cs, CharsetName(cs, v)) = v
<1> DEFINE s == CharsetName(cs, v)
           S == {b \in DOMAIN charsets[cs] : charsets[cs][b].name = s}
<1>1. cs \in DOMAIN charsets
  BY DEF Consistent
<1>2. v \in S
  BY <1>1, CharsetIn
<1>3. \A b \in S : b = v
  BY DEF Consistent
<1>4. S \in SUBSET Nat
  BY <1>1, KsymsAssumption
<1> HIDE DEF S
<1>5. First(S) = v
  BY <1>2, <1>3, <1>4, FirstOnly
<1> QED
  BY <1>5 DEF ByteIn, S

LEMMA NoByteNamed ==
    ASSUME NEW cs \in DOMAIN charsets, NEW s, \A b \in DOMAIN charsets[cs] : charsets[cs][b].name # s
    PROVE  ByteIn(cs, s) = None /\ s \notin NamesOf(cs)
<1>1. {b \in DOMAIN charsets[cs] : charsets[cs][b].name = s} = {}
  OBVIOUS
<1> QED
  BY <1>1 DEF ByteIn, First, NamesOf

LEMMA LentName ==
    ASSUME NEW cs \in Consistent, NEW v \in 128 .. 255, CharsetName(cs, v) = NoName,
           get_sym(KT_LATIN, v) # NoName
    PROVE  ByteIn(cs, get_sym(KT_LATIN, v)) = None
<1>1. cs \in DOMAIN charsets
  BY DEF Consistent
<1>2. ASSUME NEW b \in DOMAIN charsets[cs], charsets[cs][b].name = get_sym(KT_LATIN, v) PROVE FALSE
  <2>1. CASE b = v
    BY <1>2, <2>1 DEF CharsetName
  <2>2. CASE b # v
    BY <1>2, <2>2 DEF Consistent
  <2> QED
    BY <2>1, <2>2
<1> QED
  BY <1>1, <1>2, NoByteNamed

(* The names of other types, and of ASCII, are not those of a charset.     *)
LEMMA NotOfCharset ==
    ASSUME NEW cs \in DOMAIN charsets, NEW t, NEW v, get_sym(t, v) # NoName, t # KT_LATIN \/ v < 128
    PROVE  ByteIn(cs, get_sym(t, v)) = None
<1>1. t \in DOMAIN syms /\ v \in DOMAIN syms[t] /\ syms[t][v] = get_sym(t, v) /\ v \in 0 .. 255
  BY SymIn
<1>2. ASSUME NEW b \in DOMAIN charsets[cs] PROVE charsets[cs][b].name # get_sym(t, v)
  BY <1>1, NamesAssumption
<1> QED
  BY <1>2, NoByteNamed

(* A type finds the value of its own names, and no other type has them.    *)
LEMMA ValueFound ==
    ASSUME NEW t, NEW v, get_sym(t, v) # NoName, NEW u \in DOMAIN syms
    PROVE  ValueIn(u, get_sym(t, v)) = IF u = t THEN v ELSE None
<1> DEFINE s == get_sym(t, v)
           S == {w \in DOMAIN syms[u] : syms[u][w] = s}
<1>1. t \in DOMAIN syms /\ v \in DOMAIN syms[t] /\ syms[t][v] = s /\ v \in 0 .. 255
  BY SymIn
<1>2. \A w \in S : u = t /\ w = v
  BY <1>1, NamesAssumption
<1>3. S \in SUBSET Nat
  BY KsymsAssumption
<1>4. ValueIn(u, s) = First(S)
  BY DEF ValueIn
<1>5. CASE u = t
  <2>1. v \in S
    BY <1>1, <1>5
  <2> HIDE DEF S
  <2> QED
    BY <1>2, <1>3, <1>4, <1>5, <2>1, FirstOnly
<1>6. CASE u # t
  <2>1. S = {}
    BY <1>2, <1>6
  <2> HIDE DEF S
  <2> QED
    BY <1>3, <1>4, <1>6, <2>1, FirstIn
<1> QED
  BY <1>5, <1>6

LEMMA TypeFound ==
    ASSUME NEW t, NEW v, get_sym(t, v) # NoName
    PROVE  KtypCode(get_sym(t, v)) = IF t = KT_LATIN THEN Unknown ELSE K(t, v)
<1> DEFINE s == get_sym(t, v)
           S == {u \in DOMAIN syms \ {KT_LATIN} : \E w \in DOMAIN syms[u] : syms[u][w] = s}
<1>1. t \in DOMAIN syms /\ v \in DOMAIN syms[t] /\ syms[t][v] = s /\ v \in 0 .. 255
  BY SymIn
<1>2. \A u \in S : u = t
  BY <1>1, NamesAssumption
<1>3. S \in SUBSET Nat
  BY KsymsAssumption DEF syms_size
<1>4. KtypCode(s) = KtypAt(First(S), s)
  BY DEF KtypCode
<1>5. CASE t = KT_LATIN
  <2>1. S = {}
    BY <1>2, <1>5
  <2> HIDE DEF S
  <2>2. First(S) = None
    BY <1>3, <2>1, FirstIn
  <2> QED
    BY <1>4, <1>5, <2>2 DEF KtypAt
<1>6. CASE t # KT_LATIN
  <2>1. t \in S
    BY <1>1, <1>6
  <2> HIDE DEF S
  <2>2. First(S) = t
    BY <1>2, <1>3, <2>1, FirstOnly
  <2>3. t # None /\ ValueIn(t, s) = v
    BY <1>1, ValueFound, KsymsAssumption DEF None, syms_size
  <2> QED
    BY <1>4, <1>6, <2>2, <2>3 DEF KtypAt
<1> QED
  BY <1>5, <1>6

-----------------------------------------------------------------------------
(* ksymtocode of the names that dumpkeys prints                            *)

LEMMA Found ==
    ASSUME NEW cs, NEW uni, NEW s, NEW c, c # Unknown, InTypes(cs, uni, s) = c
    PROVE  NameToCode(cs, uni, s) = c
  BY DEF NameToCode, OrElse

LEMMA AsciiName ==
    ASSUME NEW cs \in DOMAIN charsets, NEW uni \in BOOLEAN, NEW v \in 0 .. 127, get_sym(KT_LATIN, v) # NoName
    PROVE  NameToCode(cs, uni, get_sym(KT_LATIN, v)) = v
<1> DEFINE s == get_sym(KT_LATIN, v)
<1>1. ByteIn(cs, s) = Unknown
  BY NotOfCharset DEF None, Unknown
<1>2. ValueIn(KT_LATIN, s) = v
  BY ValueFound, KsymsAssumption
<1>3. v # Unknown /\ v < 128
  BY DEF Unknown
<1> HIDE DEF s
<1>4. kt_latin(cs, uni, s) = v
  BY <1>1, <1>2, <1>3 DEF kt_latin, OrElse, LatinBelow
<1>5. InTypes(cs, uni, s) = v
  BY <1>3, <1>4 DEF InTypes, OrElse
<1> QED
  BY <1>3, <1>5, Found DEF s

LEMMA TypeName ==
    ASSUME NEW cs \in DOMAIN charsets, NEW uni \in BOOLEAN, NEW t, NEW v, t # KT_LATIN, get_sym(t, v) # NoName
    PROVE  NameToCode(cs, uni, get_sym(t, v)) = K(t, v)
<1> DEFINE s == get_sym(t, v)
<1>1. t \in DOMAIN syms /\ v \in 0 .. 255
  BY SymIn
<1>2. K(t, v) # Unknown
  BY <1>1, KsymsAssumption DEF K, Unknown, syms_size
<1>3. ByteIn(cs, s) = Unknown
  BY NotOfCharset DEF None, Unknown
<1>4. ValueIn(KT_LATIN, s) = Unknown
  BY ValueFound, KsymsAssumption DEF None, Unknown
<1>5. KtypCode(s) = K(t, v)
  BY TypeFound
<1> HIDE DEF s
<1>6. kt_latin(cs, uni, s) = Unknown
  BY <1>3, <1>4 DEF kt_latin, OrElse, LatinBelow
<1>7. InTypes(cs, uni, s) = K(t, v)
  BY <1>5, <1>6 DEF InTypes, OrElse
<1> QED
  BY <1>2, <1>7, Found DEF s

(* The name that print_keysym has for a byte: the charset's, or else that  *)
(* of iso-8859-1.                                                          *)
ByteName(cs, v) == IF CharsetName(cs, v) # NoName THEN CharsetName(cs, v) ELSE get_sym(KT_LATIN, v)

LEMMA HighName ==
    ASSUME NEW cs \in Consistent, NEW v \in 128 .. 255, ByteName(cs, v) # NoName
    PROVE  NameToCode(cs, FALSE, ByteName(cs, v)) = v
<1> DEFINE s == ByteName(cs, v)
<1>1. v # Unknown /\ v < 256
  BY DEF Unknown
<1>2. kt_latin(cs, FALSE, s) = v
  <2>1. CASE CharsetName(cs, v) # NoName
    <3>1. ByteIn(cs, s) = v
      BY <2>1, ByteFound DEF ByteName
    <3> HIDE DEF s
    <3> QED
      BY <1>1, <3>1 DEF kt_latin, OrElse
  <2>2. CASE CharsetName(cs, v) = NoName
    <3>1. s = get_sym(KT_LATIN, v)
      BY <2>2 DEF ByteName
    <3>2. ByteIn(cs, s) = Unknown
      BY <2>2, <3>1, LentName DEF None, Unknown
    <3>3. ValueIn(KT_LATIN, s) = v
      BY <3>1, ValueFound, KsymsAssumption
    <3> HIDE DEF s
    <3> QED
      BY <1>1, <3>2, <3>3 DEF kt_latin, OrElse, LatinBelow
  <2> QED
    BY <2>1, <2>2
<1>3. InTypes(cs, FALSE, s) = v
  BY <1>1, <1>2 DEF InTypes, OrElse
<1> QED
  BY <1>1, <1>3, Found

(* On a Unicode console: the character that some charset has the name for, *)
(* this one if it has it.                                                  *)
HasCharacter(cs, j, s) ==
    \E d \in DOMAIN charsets[j] :
        /\ charsets[j][d].name = s
        /\ s \in NamesOf(cs) => j = cs
        /\ NameToCode(cs, TRUE, s) = U(charsets[j][d].uni)

LEMMA CharName ==
    ASSUME NEW cs \in DOMAIN charsets, NEW i \in DOMAIN charsets, NEW s \in NamesOf(i), s \notin DOMAIN synonyms
    PROVE  \E j \in DOMAIN charsets : HasCharacter(cs, j, s)
<1>0. PICK b \in DOMAIN charsets[i] : s = charsets[i][b].name
  BY DEF NamesOf
<1>1. /\ DOMAIN charsets \subseteq Nat /\ KT_LATIN \in DOMAIN syms
      /\ \A t \in DOMAIN syms : t \in Nat /\ DOMAIN syms[t] \subseteq 0 .. 255
  BY KsymsAssumption DEF syms_size
<1>2. \A t \in DOMAIN syms : \A v \in DOMAIN syms[t] : syms[t][v] = s => t = KT_LATIN /\ v >= 128
  BY <1>0, NamesAssumption
<1>3. kt_latin(cs, TRUE, s) = Unknown
  <2> DEFINE S == {v \in DOMAIN syms[KT_LATIN] : syms[KT_LATIN][v] = s}
  <2>1. S \in SUBSET Nat /\ (\A v \in S : v >= 128) /\ ValueIn(KT_LATIN, s) = First(S)
    BY <1>1, <1>2 DEF ValueIn
  <2> HIDE DEF S
  <2>2. First(S) = Unknown \/ (First(S) \in Nat /\ First(S) >= 128)
    BY <2>1, FirstIn DEF None, Unknown
  <2> QED
    BY <2>1, <2>2 DEF kt_latin, OrElse, LatinBelow, Unknown
<1>4. KtypCode(s) = Unknown
  <2> DEFINE S == {u \in DOMAIN syms \ {KT_LATIN} : \E w \in DOMAIN syms[u] : syms[u][w] = s}
  <2>1. S = {}
    BY <1>2
  <2>2. KtypCode(s) = KtypAt(First(S), s)
    BY DEF KtypCode
  <2> HIDE DEF S
  <2> QED
    BY <2>1, <2>2 DEF First, KtypAt
<1>5. NameToCode(cs, TRUE, s) = UnicodeIn(CharsetWith(cs, s), s)
  BY <1>3, <1>4 DEF NameToCode, InTypes, InCharsets, OrElse
<1>6. PICK j \in DOMAIN charsets : /\ CharsetWith(cs, s) = j /\ s \in NamesOf(j)
                                   /\ s \in NamesOf(cs) => j = cs
  <2> DEFINE S == {j \in DOMAIN charsets : s \in NamesOf(j)}
  <2>1. i \in S /\ S \in SUBSET Nat /\ S \subseteq DOMAIN charsets /\ \A j \in S : s \in NamesOf(j)
    BY <1>1
  <2>2. CharsetWith(cs, s) = IF s \in NamesOf(cs) THEN cs ELSE First(S)
    BY DEF CharsetWith
  <2> HIDE DEF S
  <2>3. First(S) \in S
    BY <2>1, FirstIn
  <2> QED
    BY <2>1, <2>2, <2>3
<1>7. ByteIn(j, s) \in DOMAIN charsets[j] /\ charsets[j][ByteIn(j, s)].name = s
  <2> DEFINE S == {d \in DOMAIN charsets[j] : charsets[j][d].name = s}
  <2>1. S # {} /\ S \in SUBSET Nat /\ ByteIn(j, s) = First(S)
    BY <1>6, KsymsAssumption DEF NamesOf, ByteIn
  <2>2. \A d \in S : d \in DOMAIN charsets[j] /\ charsets[j][d].name = s
    OBVIOUS
  <2> HIDE DEF S
  <2> QED
    BY <2>1, <2>2, FirstIn
<1>8. j # None
  BY <1>1 DEF None
<1>9. NameToCode(cs, TRUE, s) = U(charsets[j][ByteIn(j, s)].uni)
  BY <1>5, <1>6, <1>8 DEF UnicodeIn
<1> QED
  BY <1>6, <1>7, <1>9 DEF HasCharacter

-----------------------------------------------------------------------------
(* What dumpkeys prints                                                    *)

(* The name of a value of KT_LATIN, or of the letter.                      *)
LatinName(cs, v) == IF v < 128 THEN get_sym(KT_LATIN, v) ELSE ByteName(cs, v)

LEMMA PrintPlain ==
    ASSUME NEW cs, NEW code, NEW t, KTYP(code) = t, t # KT_LETTER
    PROVE  print_keysym(cs, code) = Printed(code, FALSE, LatinType(t), codetoksym(cs, code),
                                            get_sym(LatinType(t), KVAL(code)), get_sym(KT_LATIN, KVAL(code)))
<1>1. (KTYP(code) = KT_LETTER) = FALSE
  BY SMT
<1> QED
  BY <1>1, Zenon DEF print_keysym

LEMMA PrintPlus ==
    ASSUME NEW cs, NEW code, KTYP(code) = KT_LETTER
    PROVE  print_keysym(cs, code) = Printed(code, TRUE, KT_LATIN, codetoksym(cs, code),
                                            get_sym(KT_LATIN, KVAL(code)), get_sym(KT_LATIN, KVAL(code)))
<1>1. (KTYP(code) = KT_LETTER) = TRUE
  BY SMT
<1>2. LatinType(KTYP(code)) = KT_LATIN
  BY DEF LatinType
<1> QED
  BY <1>1, <1>2, Zenon DEF print_keysym

LEMMA PrintLatin ==
    ASSUME NEW cs \in DOMAIN charsets, NEW t \in {KT_LATIN, KT_LETTER}, NEW v \in 0 .. 255,
           NEW plus \in BOOLEAN, plus <=> t = KT_LETTER
    PROVE  /\ LatinName(cs, v) # NoName => print_keysym(cs, K(t, v)) = Literal(plus, "", LatinName(cs, v))
           /\ LatinName(cs, v) = NoName => /\ print_keysym(cs, K(t, v)) = Number(plus, K(t, v))
                                           /\ codetoksym(cs, K(t, v)) = NoName
<1> DEFINE s == LatinName(cs, v)
           code == K(t, v)
           ksym == codetoksym(cs, code)
           own == get_sym(KT_LATIN, v)
<1>1. t \in 0 .. 15
  BY DEF KT_LATIN, KT_LETTER
<1>2. KTYP(code) = t /\ KVAL(code) = v /\ ~IsUnicode(code)
  BY <1>1, PartsCode
<1>3. code \in Nat /\ code = (IF t = KT_LATIN THEN v ELSE 2816 + v)
  BY DEF KT_LATIN, KT_LETTER, K
<1>4. v < 128 => CharsetName(cs, v) = NoName
  BY KsymsAssumption DEF CharsetName
<1>5. code >= 128 => ksym = CharsetName(cs, v)
  BY <1>2, Zenon DEF codetoksym
<1>6. ~(code >= 128) => ksym = get_sym(t, v)
  BY <1>2, Zenon DEF codetoksym
<1> HIDE DEF code
<1>7. LatinType(t) = KT_LATIN
  BY DEF LatinType
<1>8. print_keysym(cs, code) = Printed(code, plus, KT_LATIN, ksym, own, own)
  <2>1. CASE t = KT_LETTER
    <3>0. KTYP(code) = KT_LETTER
      BY <1>2, <2>1
    <3>1. print_keysym(cs, code) = Printed(code, TRUE, KT_LATIN, ksym, own, own)
      BY <1>2, <3>0, PrintPlus, Zenon
    <3>2. plus = TRUE
      BY <2>1
    <3> QED
      BY <3>1, <3>2, Zenon
  <2>2. CASE t # KT_LETTER
    <3>1. print_keysym(cs, code) = Printed(code, FALSE, KT_LATIN, ksym, own, own)
      BY <1>2, <1>7, <2>2, PrintPlain, Zenon
    <3>2. plus = FALSE
      BY <2>2
    <3> QED
      BY <3>1, <3>2, Zenon
  <2> QED
    BY <2>1, <2>2
<1> HIDE DEF ksym, own
<1>9. KT_LATIN = 0 /\ syms_size = 15 /\ KT_META = 8 /\ KT_DEAD2 = 13
  BY DEF syms_size, KT_META, KT_DEAD2, KT_LATIN
<1>10. ~(KT_LATIN >= syms_size) /\ KT_LATIN # KT_META /\ KT_LATIN # KT_DEAD2
  BY <1>9
<1>11. print_keysym(cs, code) = IF ksym # NoName THEN Literal(plus, "", ksym)
                               ELSE IF own # NoName THEN Literal(plus, "", own) ELSE Number(plus, code)
  BY <1>8, <1>10, Zenon DEF Printed
<1>12. code < 128 => t = KT_LATIN /\ v < 128
  BY <1>3
<1>13. ksym = (IF code >= 128 THEN CharsetName(cs, v) ELSE own)
  BY <1>3, <1>5, <1>6, <1>12 DEF own
<1>14. s = IF ksym # NoName THEN ksym ELSE own
  BY <1>3, <1>4, <1>13 DEF LatinName, ByteName, own
<1> HIDE DEF s
<1>15. s # NoName => print_keysym(cs, code) = Literal(plus, "", s)
  BY <1>11, <1>14, Zenon
<1>16. s = NoName => print_keysym(cs, code) = Number(plus, code) /\ ksym = NoName
  BY <1>11, <1>14, Zenon
<1> QED
  BY <1>15, <1>16, Zenon DEF code, ksym, s

LEMMA PrintMeta ==
    ASSUME NEW cs, NEW v \in 0 .. 255
    PROVE  /\ print_keysym(cs, K(KT_META, v)) = IF v < 128 /\ get_sym(KT_LATIN, v) # NoName
                                                THEN Literal(FALSE, "Meta_", get_sym(KT_LATIN, v))
                                                ELSE Number(FALSE, K(KT_META, v))
<1> DEFINE code == K(KT_META, v)
           latin == get_sym(KT_LATIN, v)
<1>1. KT_META = 8 /\ KT_LATIN = 0 /\ syms_size = 15 /\ KT_DEAD2 = 13 /\ KT_LETTER = 11
  BY DEF KT_META, KT_LATIN, syms_size, KT_DEAD2, KT_LETTER
<1>2. /\ KT_META \in 0 .. 15 /\ KT_META # KT_LATIN /\ KT_META # KT_DEAD2 /\ KT_META # KT_LETTER
      /\ ~(KT_META >= syms_size)
  BY <1>1
<1>3. KTYP(code) = KT_META /\ KVAL(code) = v
  BY <1>2, PartsCode
<1>4. get_sym(KT_META, v) = NoName
  BY KsymsAssumption DEF get_sym
<1>5. LatinType(KT_META) = KT_META
  BY <1>2 DEF LatinType
<1> HIDE DEF code
<1>6. print_keysym(cs, code) = Printed(code, FALSE, KT_META, codetoksym(cs, code), NoName, latin)
  BY <1>2, <1>3, <1>4, <1>5, PrintPlain, Zenon
<1> HIDE DEF latin
<1>7. print_keysym(cs, code) = IF v < 128 /\ latin # NoName THEN Literal(FALSE, "Meta_", latin)
                               ELSE Number(FALSE, code)
  BY <1>2, <1>3, <1>6, Zenon DEF Printed
<1> QED
  BY <1>7, Zenon DEF code, latin

LEMMA PrintDead2 ==
    ASSUME NEW cs, NEW v \in 0 .. 255
    PROVE  /\ print_keysym(cs, K(KT_DEAD2, v)) = IF get_sym(KT_LATIN, v) # NoName
                                                 THEN Literal(FALSE, "dead2_", get_sym(KT_LATIN, v))
                                                 ELSE Number(FALSE, K(KT_DEAD2, v))
           /\ codetoksym(cs, K(KT_DEAD2, v)) = NoName
<1> DEFINE code == K(KT_DEAD2, v)
           latin == get_sym(KT_LATIN, v)
<1>1. KT_META = 8 /\ KT_LATIN = 0 /\ syms_size = 15 /\ KT_DEAD2 = 13 /\ KT_LETTER = 11
  BY DEF KT_META, KT_LATIN, syms_size, KT_DEAD2, KT_LETTER
<1>2. /\ KT_DEAD2 \in 0 .. 15 /\ KT_DEAD2 # KT_LATIN /\ KT_DEAD2 # KT_META /\ KT_DEAD2 # KT_LETTER
      /\ ~(KT_DEAD2 >= syms_size)
  BY <1>1
<1>3. KTYP(code) = KT_DEAD2 /\ KVAL(code) = v /\ ~IsUnicode(code)
  BY <1>2, PartsCode
<1>4. get_sym(KT_DEAD2, v) = NoName
  BY KsymsAssumption DEF get_sym
<1>5. LatinType(KT_DEAD2) = KT_DEAD2
  BY <1>2 DEF LatinType
<1> HIDE DEF code
<1>6. print_keysym(cs, code) = Printed(code, FALSE, KT_DEAD2, codetoksym(cs, code), NoName, latin)
  BY <1>2, <1>3, <1>4, <1>5, PrintPlain, Zenon
<1>7. codetoksym(cs, code) = NoName
  BY <1>2, <1>3, <1>4, Zenon DEF codetoksym
<1> HIDE DEF latin
<1>8. print_keysym(cs, code) = IF latin # NoName THEN Literal(FALSE, "dead2_", latin) ELSE Number(FALSE, code)
  BY <1>2, <1>3, <1>6, Zenon DEF Printed
<1> QED
  BY <1>7, <1>8, Zenon DEF code, latin

LEMMA PrintType ==
    ASSUME NEW cs, NEW t \in 0 .. 14, t \notin {KT_LATIN, KT_LETTER, KT_META, KT_DEAD2}, NEW v \in 0 .. 255
    PROVE  /\ print_keysym(cs, K(t, v)) = IF get_sym(t, v) # NoName
                                          THEN Literal(FALSE, "", get_sym(t, v))
                                          ELSE Number(FALSE, K(t, v))
           /\ codetoksym(cs, K(t, v)) = get_sym(t, v)
<1> DEFINE code == K(t, v)
           own == get_sym(t, v)
           latin == get_sym(KT_LATIN, v)
<1>1. t \in 0 .. 15 /\ ~(t >= syms_size)
  BY DEF syms_size
<1>2. KTYP(code) = t /\ KVAL(code) = v /\ ~IsUnicode(code)
  BY <1>1, PartsCode
<1>3. LatinType(t) = t
  BY DEF LatinType
<1> HIDE DEF code
<1>4. print_keysym(cs, code) = Printed(code, FALSE, t, codetoksym(cs, code), own, latin)
  BY <1>2, <1>3, PrintPlain, Zenon
<1>5. codetoksym(cs, code) = own
  BY <1>2, Zenon DEF codetoksym
<1> HIDE DEF own, latin
<1>6. print_keysym(cs, code) = IF own # NoName THEN Literal(FALSE, "", own) ELSE Number(FALSE, code)
  BY <1>1, <1>2, <1>4, Zenon DEF Printed
<1> QED
  BY <1>5, <1>6, Zenon DEF code, own

LEMMA PrintUnicode ==
    ASSUME NEW cs, NEW code, Word(code), IsUnicode(code)
    PROVE  /\ codetoksym(cs, code) # NoName => print_keysym(cs, code) = Literal(FALSE, "", codetoksym(cs, code))
           /\ codetoksym(cs, code) = NoName => print_keysym(cs, code) = Unumber(FALSE, U(code))
<1> DEFINE s == codetoksym(cs, code)
<1>1. PICK t : t = KTYP(code)
  OBVIOUS
<1>2. t >= 16 /\ t \in Nat
  BY <1>1, WordXor
<1>3. t # KT_LETTER /\ t >= syms_size
  BY <1>2 DEF KT_LETTER, syms_size
<1>4. LatinType(t) = t
  BY <1>3 DEF LatinType
<1>5. print_keysym(cs, code) = Printed(code, FALSE, t, s, get_sym(t, KVAL(code)), get_sym(KT_LATIN, KVAL(code)))
  BY <1>1, <1>3, <1>4, PrintPlain, Zenon
<1> HIDE DEF s
<1>6. /\ s # NoName => print_keysym(cs, code) = Literal(FALSE, "", s)
      /\ s = NoName => print_keysym(cs, code) = Unumber(FALSE, U(code))
  BY <1>3, <1>5, Zenon DEF Printed
<1> QED
  BY <1>6, Zenon DEF s

-----------------------------------------------------------------------------
(* What loadkeys makes of it                                               *)

LEMMA ReadLiteral ==
    ASSUME NEW cs, NEW uni, NEW pre, NEW s, ksymtocode(cs, uni, pre, s) # Unknown
    PROVE  /\ rvalue(cs, uni, Literal(FALSE, pre, s)) = ksymtocode(cs, uni, pre, s)
           /\ rvalue(cs, uni, Literal(TRUE, pre, s)) = add_capslock(cs, uni, ksymtocode(cs, uni, pre, s))
<1> DEFINE c == ksymtocode(cs, uni, pre, s)
<1>1. ASSUME NEW plus \in BOOLEAN
      PROVE  rvalue(cs, uni, Literal(plus, pre, s)) = IF plus THEN add_capslock(cs, uni, c) ELSE c
  <2> DEFINE r == Literal(plus, pre, s)
  <2>1. r.kind = "literal" /\ r.plus = plus /\ r.pre = pre /\ r.name = s
    BY DEF Literal
  <2> HIDE DEF r
  <2>2. rvalue(cs, uni, r) = RvalueOf(cs, uni, r, c)
    BY <2>1 DEF rvalue
  <2> HIDE DEF c
  <2>3. c # Unknown
    BY DEF c
  <2>4. rvalue(cs, uni, r) = IF plus THEN add_capslock(cs, uni, c) ELSE c
    BY <2>1, <2>2, <2>3 DEF RvalueOf
  <2> QED
    BY <2>4 DEF r
<1> HIDE DEF c
<1>2. rvalue(cs, uni, Literal(FALSE, pre, s)) = c
  BY <1>1
<1>3. rvalue(cs, uni, Literal(TRUE, pre, s)) = add_capslock(cs, uni, c)
  BY <1>1
<1> QED
  BY <1>2, <1>3 DEF c

LEMMA ReadNumber ==
    ASSUME NEW cs, NEW uni \in BOOLEAN, NEW plus \in BOOLEAN, NEW n \in Nat
    PROVE  rvalue(cs, uni, Number(plus, n)) = IF plus THEN add_capslock(cs, uni, n) ELSE convert_code(cs, uni, n)
<1> DEFINE r == Number(plus, n)
<1>1. r.kind = "number" /\ r.plus = plus /\ r.num = n
  BY DEF Number
<1>2. n # Unknown
  BY DEF Unknown
<1> HIDE DEF r
<1>3. rvalue(cs, uni, r) = RvalueOf(cs, uni, r, n)
  BY <1>1 DEF rvalue
<1>4. rvalue(cs, uni, r) = IF plus THEN add_capslock(cs, uni, n) ELSE convert_code(cs, uni, n)
  BY <1>1, <1>2, <1>3 DEF RvalueOf
<1> QED
  BY <1>4 DEF r

LEMMA ReadUnumber ==
    ASSUME NEW cs, NEW uni \in BOOLEAN, NEW n, Scalar(n)
    PROVE  rvalue(cs, uni, Unumber(FALSE, n)) = convert_code(cs, uni, U(n))
<1>1. PICK r : r = Unumber(FALSE, n)
  OBVIOUS
<1>2. r.kind = "unumber" /\ ~r.plus /\ r.num = n
  BY <1>1 DEF Unumber
<1>3. U(n) # Unknown
  BY WordXor DEF Unknown, Word, Scalar
<1>4. rvalue(cs, uni, r) = RvalueOf(cs, uni, r, U(n))
  BY <1>2 DEF rvalue, Scalar
<1>5. rvalue(cs, uni, r) = convert_code(cs, uni, U(n))
  BY <1>2, <1>3, <1>4 DEF RvalueOf
<1> QED
  BY <1>1, <1>5, Zenon

(* A number without a name stays as it is.                                 *)
LEMMA NumberKept ==
    ASSUME NEW cs, NEW uni \in BOOLEAN, NEW t \in 0 .. 14, NEW v \in 0 .. 255,
           ~uni \/ t = KT_META \/ codetoksym(cs, K(t, v)) = NoName
    PROVE  /\ t = KT_LETTER => rvalue(cs, uni, Number(TRUE, K(t, v))) = K(t, v)
           /\ t # KT_LETTER => rvalue(cs, uni, Number(FALSE, K(t, v))) = K(t, v)
<1>0. t \in 0 .. 15
  OBVIOUS
<1> DEFINE code == K(t, v)
<1>1. Word(code) /\ ~IsUnicode(code) /\ KTYP(code) = t /\ code \in Nat
  BY <1>0, PartsCode
<1>a. ~uni \/ t = KT_META \/ codetoksym(cs, code) = NoName
  OBVIOUS
<1> HIDE DEF code
<1>2. ~(U(code) < 256)
  BY <1>1, WordXor
<1>3. AsLetter(uni, code, code) = code
  BY <1>2, Zenon DEF AsLetter
<1>4. convert_code(cs, uni, code) = code
  <2>1. CASE t = KT_META \/ code < 128
    BY <1>1, <2>1, Zenon DEF convert_code
  <2>2. CASE ~(t = KT_META \/ code < 128) /\ uni = FALSE
    <3>1. IsUnicode(code) = uni
      BY <1>1, <2>2 DEF IsUnicode
    <3> QED
      BY <1>1, <2>2, <3>1, Zenon DEF convert_code
  <2>3. CASE ~(t = KT_META \/ code < 128) /\ uni = TRUE
    <3>1. ByName(cs, uni, code, codetoksym(cs, code)) = code
      BY <1>1, <1>3, <1>a, <2>3, Zenon DEF ByName
    <3> QED
      BY <1>1, <3>1, Zenon DEF convert_code
  <2> QED
    BY <2>1, <2>2, <2>3
<1>5. t = KT_LETTER => add_capslock(cs, uni, code) = code
  <2>1. t = KT_LETTER => KTYP(code) # KT_LATIN
    BY <1>1 DEF KT_LETTER, KT_LATIN
  <2> QED
    BY <1>2, <1>4, <2>1, Zenon DEF add_capslock
<1>6. /\ rvalue(cs, uni, Number(TRUE, code)) = add_capslock(cs, uni, code)
      /\ rvalue(cs, uni, Number(FALSE, code)) = convert_code(cs, uni, code)
  BY <1>1, ReadNumber
<1>7. t = KT_LETTER => rvalue(cs, uni, Number(TRUE, code)) = code
  BY <1>5, <1>6
<1>8. rvalue(cs, uni, Number(FALSE, code)) = code
  BY <1>4, <1>6
<1> QED
  BY <1>7, <1>8 DEF code

-----------------------------------------------------------------------------
(* A code from its name                                                    *)

(* What follows Meta_ or dead2_ is read as an 8-bit name.                  *)
LEMMA PrefixTrip ==
    ASSUME NEW cs, NEW uni \in BOOLEAN, NEW s, NameToCode(cs, FALSE, s) \in 0 .. 255
    PROVE  /\ rvalue(cs, uni, Literal(FALSE, "Meta_", s)) = K(KT_META, NameToCode(cs, FALSE, s))
           /\ rvalue(cs, uni, Literal(FALSE, "dead2_", s)) = K(KT_DEAD2, NameToCode(cs, FALSE, s))
<1> DEFINE v == NameToCode(cs, FALSE, s)
<1>1. v \in 0 .. 255
  OBVIOUS
<1>2. ASSUME NEW pre, pre # "", NEW t \in {KT_META, KT_DEAD2}, pre = "Meta_" <=> t = KT_META
      PROVE  rvalue(cs, uni, Literal(FALSE, pre, s)) = K(t, v)
  <2>1. (uni /\ pre = "") = FALSE
    BY <1>2
  <2>2. ksymtocode(cs, uni, pre, s) = Prefixed(pre, uni, v)
    BY <2>1, Zenon DEF ksymtocode
  <2> HIDE DEF v
  <2>3. KTYP(v) = KT_LATIN /\ KVAL(v) = v
    BY <1>1 DEF KTYP, KVAL, KT_LATIN
  <2>4. Prefixed(pre, uni, v) = K(t, v)
    BY <1>2, <2>3, Zenon DEF Prefixed
  <2>5. K(t, v) # Unknown
    BY <1>1 DEF K, Unknown, KT_META, KT_DEAD2
  <2>6. ksymtocode(cs, uni, pre, s) # Unknown
    BY <2>2, <2>4, <2>5
  <2>7. rvalue(cs, uni, Literal(FALSE, pre, s)) = ksymtocode(cs, uni, pre, s)
    BY <2>6, ReadLiteral
  <2> QED
    BY <2>2, <2>4, <2>7
<1> HIDE DEF v
<1>3. "Meta_" # "dead2_" /\ "Meta_" # "" /\ "dead2_" # "" /\ KT_META # KT_DEAD2
  BY DEF KT_META, KT_DEAD2
<1>4. rvalue(cs, uni, Literal(FALSE, "Meta_", s)) = K(KT_META, v)
  BY <1>2, <1>3, Zenon
<1>5. rvalue(cs, uni, Literal(FALSE, "dead2_", s)) = K(KT_DEAD2, v)
  BY <1>2, <1>3, Zenon
<1> QED
  BY <1>4, <1>5 DEF v

LEMMA PlainTrip ==
    ASSUME NEW cs, NEW uni \in BOOLEAN, NEW s, NameToCode(cs, uni, s) # Unknown
    PROVE  /\ rvalue(cs, uni, Literal(FALSE, "", s)) = NameToCode(cs, uni, s)
           /\ rvalue(cs, uni, Literal(TRUE, "", s)) = add_capslock(cs, uni, NameToCode(cs, uni, s))
<1>1. (uni /\ "" = "") = uni
  OBVIOUS
<1>2. ksymtocode(cs, uni, "", s) = NameToCode(cs, uni, s)
  BY <1>1, Zenon DEF ksymtocode, Prefixed
<1> QED
  BY <1>2, ReadLiteral, Zenon

(* Codes with Meta, of the other types, and of ASCII come back always.     *)
LEMMA MetaTrip ==
    ASSUME NEW cs \in DOMAIN charsets, NEW uni \in BOOLEAN, NEW v \in 0 .. 255
    PROVE  rvalue(cs, uni, print_keysym(cs, K(KT_META, v))) = K(KT_META, v)
<1>0. KT_META \in 0 .. 14 /\ KT_META # KT_LETTER
  BY DEF KT_META, KT_LETTER
<1>1. CASE v < 128 /\ get_sym(KT_LATIN, v) # NoName
  <2>1. print_keysym(cs, K(KT_META, v)) = Literal(FALSE, "Meta_", get_sym(KT_LATIN, v))
    BY <1>1, PrintMeta, Zenon
  <2>0. v \in 0 .. 127
    BY <1>1
  <2>2. NameToCode(cs, FALSE, get_sym(KT_LATIN, v)) = v
    BY <1>1, <2>0, AsciiName
  <2>3. rvalue(cs, uni, Literal(FALSE, "Meta_", get_sym(KT_LATIN, v))) = K(KT_META, v)
    BY <2>2, PrefixTrip, Zenon
  <2> QED
    BY <2>1, <2>3, Zenon
<1>2. CASE ~(v < 128 /\ get_sym(KT_LATIN, v) # NoName)
  <2>1. print_keysym(cs, K(KT_META, v)) = Number(FALSE, K(KT_META, v))
    BY <1>2, PrintMeta, Zenon
  <2>2. rvalue(cs, uni, Number(FALSE, K(KT_META, v))) = K(KT_META, v)
    BY <1>0, NumberKept, Zenon
  <2> QED
    BY <2>1, <2>2, Zenon
<1> QED
  BY <1>1, <1>2

LEMMA Dead2Trip ==
    ASSUME NEW cs \in DOMAIN charsets, NEW uni \in BOOLEAN, NEW v \in 0 .. 255, v >= 128 => cs = 1
    PROVE  rvalue(cs, uni, print_keysym(cs, K(KT_DEAD2, v))) = K(KT_DEAD2, v)
<1> DEFINE s == get_sym(KT_LATIN, v)
<1>0. KT_DEAD2 \in 0 .. 14 /\ KT_DEAD2 # KT_LETTER
  BY DEF KT_DEAD2, KT_LETTER
<1>1. CASE s # NoName
  <2>1. print_keysym(cs, K(KT_DEAD2, v)) = Literal(FALSE, "dead2_", s)
    BY <1>1, PrintDead2, Zenon
  <2>2. NameToCode(cs, FALSE, s) = v
    <3>1. CASE v < 128
      <4>1. v \in 0 .. 127
        BY <3>1
      <4> QED
        BY <1>1, <4>1, AsciiName
    <3>2. CASE ~(v < 128)
      <4>1. v \in 128 .. 255 /\ cs = 1
        BY <3>2
      <4>2. s = ByteName(1, v)
        BY <4>1, NamesAssumption DEF ByteName
      <4>3. NameToCode(1, FALSE, ByteName(1, v)) = v
        BY <1>1, <4>1, <4>2, HighName, Latin1Consistent
      <4> QED
        BY <4>1, <4>2, <4>3
    <3> QED
      BY <3>1, <3>2
  <2> HIDE DEF s
  <2>4. rvalue(cs, uni, Literal(FALSE, "dead2_", s)) = K(KT_DEAD2, v)
    BY <2>2, PrefixTrip, Zenon
  <2> QED
    BY <2>1, <2>4, Zenon
<1>2. CASE s = NoName
  <2>1. print_keysym(cs, K(KT_DEAD2, v)) = Number(FALSE, K(KT_DEAD2, v)) /\ codetoksym(cs, K(KT_DEAD2, v)) = NoName
    BY <1>2, PrintDead2, Zenon
  <2>2. rvalue(cs, uni, Number(FALSE, K(KT_DEAD2, v))) = K(KT_DEAD2, v)
    BY <1>0, <2>1, NumberKept, Zenon
  <2> QED
    BY <2>1, <2>2, Zenon
<1> QED
  BY <1>1, <1>2

LEMMA TypeTrip ==
    ASSUME NEW cs \in DOMAIN charsets, NEW uni \in BOOLEAN, NEW t \in 0 .. 14, NEW v \in 0 .. 255,
           t \notin {KT_LATIN, KT_LETTER, KT_META, KT_DEAD2}
    PROVE  rvalue(cs, uni, print_keysym(cs, K(t, v))) = K(t, v)
<1> DEFINE s == get_sym(t, v)
<1>0. t # KT_LETTER /\ t \in 0 .. 14
  OBVIOUS
<1>1. CASE s # NoName
  <2>1. print_keysym(cs, K(t, v)) = Literal(FALSE, "", s)
    BY <1>1, PrintType, Zenon
  <2>2. NameToCode(cs, uni, s) = K(t, v)
    BY <1>1, TypeName
  <2>3. K(t, v) # Unknown
    BY DEF K, Unknown
  <2> HIDE DEF s
  <2>4. rvalue(cs, uni, Literal(FALSE, "", s)) = K(t, v)
    BY <2>2, <2>3, PlainTrip, Zenon
  <2> QED
    BY <2>1, <2>4, Zenon
<1>2. CASE s = NoName
  <2>1. print_keysym(cs, K(t, v)) = Number(FALSE, K(t, v)) /\ codetoksym(cs, K(t, v)) = NoName
    BY <1>2, PrintType, Zenon
  <2>2. rvalue(cs, uni, Number(FALSE, K(t, v))) = K(t, v)
    BY <1>0, <2>1, NumberKept, Zenon
  <2> QED
    BY <2>1, <2>2, Zenon
<1> QED
  BY <1>1, <1>2

(* So does a byte or a letter whose name tells its value.                  *)
LEMMA LatinTrip ==
    ASSUME NEW cs \in DOMAIN charsets, NEW uni \in BOOLEAN, NEW t \in {KT_LATIN, KT_LETTER}, NEW v \in 0 .. 255,
           LatinName(cs, v) # NoName => NameToCode(cs, uni, LatinName(cs, v)) = v /\ (~uni \/ v < 128)
    PROVE  rvalue(cs, uni, print_keysym(cs, K(t, v))) = K(t, v)
<1> DEFINE s == LatinName(cs, v)
<1>0. t \in 0 .. 14 /\ (t # KT_LETTER => K(t, v) = v) /\ v # Unknown
  BY DEF KT_LATIN, KT_LETTER, K, Unknown
<1>2. KTYP(v) = KT_LATIN /\ KVAL(v) = v
  BY DEF KTYP, KVAL, KT_LATIN
<1>a. ASSUME NEW plus \in BOOLEAN, plus <=> t = KT_LETTER
      PROVE  /\ s # NoName => print_keysym(cs, K(t, v)) = Literal(plus, "", s)
             /\ s = NoName => print_keysym(cs, K(t, v)) = Number(plus, K(t, v)) /\ codetoksym(cs, K(t, v)) = NoName
  BY <1>a, PrintLatin
<1>3. CASE s # NoName
  <2>1. NameToCode(cs, uni, s) = v /\ (~uni \/ v < 128)
    BY <1>3
  <2> HIDE DEF s
  <2>2. rvalue(cs, uni, Literal(FALSE, "", s)) = v /\ rvalue(cs, uni, Literal(TRUE, "", s)) = add_capslock(cs, uni, v)
    BY <1>0, <2>1, PlainTrip, Zenon
  <2>3. add_capslock(cs, uni, v) = K(KT_LETTER, v)
    BY <1>2, <2>1, Zenon DEF add_capslock
  <2>4. CASE t = KT_LETTER
    <3>1. print_keysym(cs, K(t, v)) = Literal(TRUE, "", s)
      BY <1>3, <1>a, <2>4, Zenon
    <3> QED
      BY <2>2, <2>3, <2>4, <3>1, Zenon
  <2>5. CASE t # KT_LETTER
    <3>1. print_keysym(cs, K(t, v)) = Literal(FALSE, "", s)
      BY <1>3, <1>a, <2>5, Zenon
    <3> QED
      BY <1>0, <2>2, <2>5, <3>1, Zenon
  <2> QED
    BY <2>4, <2>5
<1>4. CASE s = NoName
  <2> HIDE DEF s
  <2>1. CASE t = KT_LETTER
    <3>1. print_keysym(cs, K(t, v)) = Number(TRUE, K(t, v)) /\ codetoksym(cs, K(t, v)) = NoName
      BY <1>4, <1>a, <2>1, Zenon
    <3>2. rvalue(cs, uni, Number(TRUE, K(t, v))) = K(t, v)
      BY <1>0, <2>1, <3>1, NumberKept, Zenon
    <3> QED
      BY <3>1, <3>2, Zenon
  <2>2. CASE t # KT_LETTER
    <3>1. print_keysym(cs, K(t, v)) = Number(FALSE, K(t, v)) /\ codetoksym(cs, K(t, v)) = NoName
      BY <1>4, <1>a, <2>2, Zenon
    <3>2. rvalue(cs, uni, Number(FALSE, K(t, v))) = K(t, v)
      BY <1>0, <2>2, <3>1, NumberKept, Zenon
    <3> QED
      BY <3>1, <3>2, Zenon
  <2> QED
    BY <2>1, <2>2
<1> QED
  BY <1>3, <1>4

(* On an 8-bit console, in a charset that tells its names apart, every     *)
(* code of a type comes back.                                              *)
LEMMA ByteTrip ==
    ASSUME NEW cs \in Consistent, NEW t \in 0 .. 14, NEW v \in 0 .. 255, t = KT_DEAD2 /\ v >= 128 => cs = 1
    PROVE  rvalue(cs, FALSE, print_keysym(cs, K(t, v))) = K(t, v)
<1>0. cs \in DOMAIN charsets
  BY DEF Consistent
<1>1. CASE t = KT_META
  BY <1>0, <1>1, MetaTrip
<1>2. CASE t = KT_DEAD2
  BY <1>0, <1>2, Dead2Trip
<1>3. CASE t \in {KT_LATIN, KT_LETTER}
  <2>1. ASSUME LatinName(cs, v) # NoName PROVE NameToCode(cs, FALSE, LatinName(cs, v)) = v
    <3>1. CASE v < 128
      <4>1. v \in 0 .. 127 /\ LatinName(cs, v) = get_sym(KT_LATIN, v)
        BY <3>1 DEF LatinName
      <4> QED
        BY <1>0, <2>1, <4>1, AsciiName
    <3>2. CASE ~(v < 128)
      <4>1. v \in 128 .. 255 /\ LatinName(cs, v) = ByteName(cs, v)
        BY <3>2 DEF LatinName
      <4> QED
        BY <2>1, <4>1, HighName
    <3> QED
      BY <3>1, <3>2
  <2> QED
    BY <1>0, <1>3, <2>1, LatinTrip
<1>4. CASE t \notin {KT_LATIN, KT_LETTER, KT_META, KT_DEAD2}
  BY <1>0, <1>4, TypeTrip
<1> QED
  BY <1>1, <1>2, <1>3, <1>4

(* The name of a byte of iso-8859-1 is the one of the character, and       *)
(* stands for no other character of the charset.                           *)
LEMMA Latin1Char ==
    ASSUME NEW v \in 128 .. 255, CharsetName(1, v) # NoName
    PROVE  NameToCode(1, TRUE, CharsetName(1, v)) = U(v)
<1> DEFINE s == CharsetName(1, v)
<1>0. 1 \in DOMAIN charsets /\ DOMAIN charsets \subseteq Nat /\ \A i \in DOMAIN charsets : i >= 1
  BY KsymsAssumption
<1>1. v \in DOMAIN charsets[1] /\ charsets[1][v].name = s /\ charsets[1][v].uni = v
  BY <1>0, CharsetIn, NamesAssumption
<1>2. UnicodeName(v) = s
  <2> DEFINE S == {i \in DOMAIN charsets : BytesOf(i, v) # {}}
             B == BytesOf(1, v)
  <2>1. B \in SUBSET Nat /\ v \in B /\ \A b \in B : b = v
    BY <1>0, <1>1, KsymsAssumption, NamesAssumption DEF BytesOf
  <2>2. S \in SUBSET Nat /\ 1 \in S /\ \A i \in S : i >= 1
    BY <1>0, <2>1
  <2>3. UnicodeName(v) = NameAt(First(S), v)
    BY DEF UnicodeName
  <2> HIDE DEF S, B
  <2>4. First(S) = 1
    <3>1. First(S) \in S /\ \A j \in S : First(S) <= j
      BY <2>2, FirstIn
    <3>2. First(S) \in Nat /\ First(S) <= 1 /\ First(S) >= 1
      BY <2>2, <3>1
    <3> QED
      BY <3>2
  <2>5. First(B) = v
    BY <2>1, FirstOnly
  <2> QED
    BY <1>1, <2>3, <2>4, <2>5 DEF NameAt, None, B
<1>3. s \notin DOMAIN synonyms
  BY <1>0, <1>1, <1>2, NamesAssumption
<1>4. s \in NamesOf(1)
  BY <1>1 DEF NamesOf
<1>5. PICK d \in DOMAIN charsets[1] :
             charsets[1][d].name = s /\ NameToCode(1, TRUE, s) = U(charsets[1][d].uni)
  <2> HIDE DEF s
  <2>1. \E j \in DOMAIN charsets : HasCharacter(1, j, s)
    BY <1>0, <1>3, <1>4, CharName, Zenon
  <2> QED
    BY <1>4, <2>1 DEF HasCharacter
<1>6. d = v
  BY <1>5, Latin1Consistent DEF Consistent
<1> QED
  BY <1>1, <1>5, <1>6

(* A character from its name, on a Unicode console.                        *)
LEMMA UnicodeNamed ==
    ASSUME NEW cs \in DOMAIN charsets, NEW u, UnicodeName(u) # NoName, ~Ambiguous(u)
    PROVE  NameToCode(cs, TRUE, UnicodeName(u)) = U(u)
<1> DEFINE s == UnicodeName(u)
           S == {i \in DOMAIN charsets : BytesOf(i, u) # {}}
<1>0. DOMAIN charsets \subseteq Nat
  BY KsymsAssumption
<1>1. s = NameAt(First(S), u) /\ S \in SUBSET Nat /\ \A i \in S : i \in DOMAIN charsets /\ BytesOf(i, u) # {}
  BY <1>0 DEF UnicodeName
<1> HIDE DEF S
<1>2. PICK i \in S : s = NameAt(i, u) /\ i # None
  BY <1>1, FirstIn DEF NameAt
<1>3. BytesOf(i, u) \in SUBSET Nat /\ BytesOf(i, u) # {} /\ i \in DOMAIN charsets
  BY <1>1, <1>2, KsymsAssumption DEF BytesOf
<1>4. First(BytesOf(i, u)) \in BytesOf(i, u)
  BY <1>3, FirstIn
<1>5. PICK b \in DOMAIN charsets[i] : charsets[i][b].uni = u /\ charsets[i][b].name = s
  BY <1>2, <1>4 DEF NameAt, BytesOf
<1>6. s \notin DOMAIN synonyms
  BY <1>3, <1>5, NamesAssumption
<1> HIDE DEF s
<1>7. s \in NamesOf(i)
  BY <1>5 DEF NamesOf
<1>8. \E j \in DOMAIN charsets : HasCharacter(cs, j, s)
  BY <1>3, <1>6, <1>7, CharName, Zenon
<1>9. PICK j \in DOMAIN charsets : \E d \in DOMAIN charsets[j] :
             charsets[j][d].name = s /\ NameToCode(cs, TRUE, s) = U(charsets[j][d].uni)
  BY <1>8 DEF HasCharacter
<1>10. PICK d \in DOMAIN charsets[j] : charsets[j][d].name = s /\ NameToCode(cs, TRUE, s) = U(charsets[j][d].uni)
  BY <1>9
<1>11. charsets[j][d].uni = u
  BY <1>10 DEF Ambiguous, s
<1> QED
  BY <1>10, <1>11 DEF s

(* What a Unicode console types for a character, and for a byte.           *)
LEMMA TypedUnicode ==
    ASSUME NEW code, Word(code), IsUnicode(code)
    PROVE  Typed(code) = <<FALSE, U(code)>>
<1>1. KTYP(code) >= 16 /\ KTYP(code) \in Nat
  BY WordXor
<1>2. KTYP(code) # KT_LETTER
  BY <1>1 DEF KT_LETTER
<1>3. (KTYP(code) = KT_LETTER) = FALSE
  BY <1>2, SMT
<1> QED
  BY <1>3, Zenon DEF Typed

LEMMA TypedLatin ==
    ASSUME NEW v \in 0 .. 255
    PROVE  Typed(v) = <<FALSE, v>>
<1>1. KTYP(v) = KT_LATIN /\ KVAL(v) = v /\ ~IsUnicode(v) /\ KT_LATIN # KT_LETTER
  BY DEF KTYP, KVAL, KT_LATIN, KT_LETTER, IsUnicode
<1>2. (KTYP(v) = KT_LETTER) = FALSE
  BY <1>1, SMT
<1>3. (IF HighByte(v) THEN KVAL(v) ELSE v) = v
  BY <1>1
<1> QED
  BY <1>1, <1>2, <1>3, Zenon DEF Typed

(* A byte of iso-8859-1 comes back as its character, with Caps Lock as     *)
(* the same letter.                                                        *)
LEMMA HighTrip ==
    ASSUME NEW t \in {KT_LATIN, KT_LETTER}, NEW v \in 128 .. 255
    PROVE  Typed(rvalue(1, TRUE, print_keysym(1, K(t, v)))) = Typed(K(t, v))
<1> DEFINE s == LatinName(1, v)
<1>0. 1 \in DOMAIN charsets /\ v \in 0 .. 255
  BY KsymsAssumption
<1>1. s = CharsetName(1, v)
  BY NamesAssumption DEF LatinName, ByteName
<1>2. CASE s = NoName
  BY <1>0, <1>2, LatinTrip
<1>3. CASE s # NoName
  <2>1. NameToCode(1, TRUE, s) = U(v)
    BY <1>1, <1>3, Latin1Char
  <2>2. Word(v) /\ Scalar(v)
    BY DEF Word, Scalar
  <2>3. Word(U(v)) /\ IsUnicode(U(v)) /\ U(U(v)) = v /\ KTYP(U(v)) >= 16 /\ KTYP(U(v)) \in Nat /\ U(v) \in Nat
    BY <2>2, WordXor
  <2>4. U(v) # Unknown /\ KTYP(U(v)) # KT_LATIN /\ v < 256
    BY <2>3 DEF Unknown, KT_LATIN
  <2> HIDE DEF s
  <2>5. /\ rvalue(1, TRUE, Literal(FALSE, "", s)) = U(v)
        /\ rvalue(1, TRUE, Literal(TRUE, "", s)) = add_capslock(1, TRUE, U(v))
    BY <2>1, <2>4, PlainTrip, Zenon
  <2>6. CASE t = KT_LETTER
    <3>1. print_keysym(1, K(t, v)) = Literal(TRUE, "", s)
      BY <1>0, <1>3, <2>6, PrintLatin, Zenon DEF s
    <3>2. add_capslock(1, TRUE, U(v)) = K(KT_LETTER, v)
      BY <2>3, <2>4, Zenon DEF add_capslock
    <3> QED
      BY <2>5, <2>6, <3>1, <3>2, Zenon
  <2>7. CASE t # KT_LETTER
    <3>1. print_keysym(1, K(t, v)) = Literal(FALSE, "", s)
      BY <1>0, <1>3, <2>7, PrintLatin, Zenon DEF s
    <3>2. K(t, v) = v
      BY <2>7 DEF K, KT_LATIN
    <3>3. Typed(v) = <<FALSE, v>>
      BY <1>0, TypedLatin
    <3>4. Typed(U(v)) = <<FALSE, v>>
      BY <2>3, TypedUnicode
    <3> QED
      BY <2>5, <3>1, <3>2, <3>3, <3>4, Zenon
  <2> QED
    BY <2>6, <2>7
<1> QED
  BY <1>2, <1>3

(* A character comes back, but for one whose name is another's too.        *)
LEMMA CharTrip ==
    ASSUME NEW cs \in DOMAIN charsets, NEW code, Word(code), IsUnicode(code), ~Ambiguous(U(code))
    PROVE  Typed(rvalue(cs, TRUE, print_keysym(cs, code))) = Typed(code)
<1> DEFINE u == U(code)
           s == codetoksym(cs, code)
<1>1. Word(code) /\ code \in Nat /\ u \in Nat /\ Scalar(u) /\ Word(u) /\ U(u) = code /\ KTYP(code) >= 16 /\ KTYP(code) \in Nat
  BY WordXor
<1>2. Typed(code) = <<FALSE, u>>
  BY TypedUnicode
<1>3. KTYP(code) # KT_META /\ ~(code < 128) /\ code # Unknown
  BY <1>1 DEF KT_META, Unknown, IsUnicode
<1>4. s = IF u < 128 THEN get_sym(KT_LATIN, u) ELSE UnicodeName(u)
  BY Zenon DEF codetoksym
<1>5. /\ s # NoName => print_keysym(cs, code) = Literal(FALSE, "", s)
      /\ s = NoName => print_keysym(cs, code) = Unumber(FALSE, u)
  BY PrintUnicode, Zenon
<1>6. u < 128 => Typed(u) = <<FALSE, u>> /\ u \in 0 .. 127
  <2>1. u < 128 => u \in 0 .. 255 /\ u \in 0 .. 127
    BY <1>1
  <2> QED
    BY <2>1, TypedLatin
<1> HIDE DEF u, s
<1>7. CASE s = NoName
  <2>1. rvalue(cs, TRUE, Unumber(FALSE, u)) = convert_code(cs, TRUE, code)
    BY <1>1, ReadUnumber
  <2>2. IsUnicode(code) = TRUE
    BY DEF IsUnicode
  <2>3. convert_code(cs, TRUE, code) = IF u < 128 THEN u ELSE code
    BY <1>3, <2>2, Zenon DEF convert_code, u
  <2> QED
    BY <1>2, <1>5, <1>6, <1>7, <2>1, <2>3, Zenon
<1>8. CASE s # NoName /\ u < 128
  <2>1. NameToCode(cs, TRUE, s) = u
    BY <1>4, <1>6, <1>8, AsciiName
  <2>2. u # Unknown
    BY <1>1 DEF Unknown
  <2>3. rvalue(cs, TRUE, Literal(FALSE, "", s)) = u
    BY <2>1, <2>2, PlainTrip, Zenon
  <2> QED
    BY <1>2, <1>5, <1>6, <1>8, <2>3, Zenon
<1>9. CASE s # NoName /\ ~(u < 128)
  <2>1. NameToCode(cs, TRUE, s) = code
    BY <1>1, <1>4, <1>9, UnicodeNamed DEF u
  <2>2. rvalue(cs, TRUE, Literal(FALSE, "", s)) = code
    BY <1>3, <2>1, PlainTrip, Zenon
  <2> QED
    BY <1>5, <1>9, <2>2, Zenon
<1> QED
  BY <1>7, <1>8, <1>9

(* Every other code comes back as it was.                                  *)
LEMMA TypeTripUnicode ==
    ASSUME NEW cs \in DOMAIN charsets, NEW t \in 0 .. 14, NEW v \in 0 .. 255,
           t \in {KT_LATIN, KT_LETTER} => v < 128, t = KT_DEAD2 /\ v >= 128 => cs = 1
    PROVE  rvalue(cs, TRUE, print_keysym(cs, K(t, v))) = K(t, v)
<1>1. CASE t = KT_META
  BY <1>1, MetaTrip
<1>2. CASE t = KT_DEAD2
  BY <1>2, Dead2Trip
<1>3. CASE t \in {KT_LATIN, KT_LETTER}
  <2>1. v \in 0 .. 127 /\ LatinName(cs, v) = get_sym(KT_LATIN, v)
    BY <1>3 DEF LatinName
  <2>2. LatinName(cs, v) # NoName => NameToCode(cs, TRUE, LatinName(cs, v)) = v
    BY <2>1, AsciiName
  <2> QED
    BY <1>3, <2>1, <2>2, LatinTrip
<1>4. CASE t \notin {KT_LATIN, KT_LETTER, KT_META, KT_DEAD2}
  BY <1>4, TypeTrip
<1> QED
  BY <1>1, <1>2, <1>3, <1>4

-----------------------------------------------------------------------------
(* The codes that key lines bind                                           *)

CodeOrNot(x) == x = Unknown \/ Word(x)

(* Where a name is in a table.                                             *)
LEMMA ByteRange ==
    ASSUME NEW cs \in DOMAIN charsets, NEW s
    PROVE  CodeOrNot(ByteIn(cs, s))
<1> DEFINE S == {b \in DOMAIN charsets[cs] : charsets[cs][b].name = s}
<1>1. S \in SUBSET Nat /\ \A b \in S : Word(b)
  BY KsymsAssumption DEF Word
<1>2. ByteIn(cs, s) = First(S)
  BY DEF ByteIn
<1> HIDE DEF S
<1>3. First(S) = None \/ First(S) \in S
  BY <1>1, FirstIn
<1> QED
  BY <1>1, <1>2, <1>3 DEF CodeOrNot, None, Unknown

LEMMA ValueRange ==
    ASSUME NEW t \in DOMAIN syms, NEW s
    PROVE  /\ ValueIn(t, s) = None \/ ValueIn(t, s) \in 0 .. 255
           /\ (\E v \in DOMAIN syms[t] : syms[t][v] = s) => ValueIn(t, s) \in 0 .. 255
<1> DEFINE S == {v \in DOMAIN syms[t] : syms[t][v] = s}
<1>1. S \in SUBSET Nat /\ S \subseteq 0 .. 255 /\ ((\E v \in DOMAIN syms[t] : syms[t][v] = s) => S # {})
  BY KsymsAssumption
<1>2. ValueIn(t, s) = First(S)
  BY DEF ValueIn
<1> HIDE DEF S
<1>3. (First(S) = None \/ First(S) \in S) /\ (S # {} => First(S) \in S)
  BY <1>1, FirstIn
<1> QED
  BY <1>1, <1>2, <1>3

LEMMA TypesRange ==
    ASSUME NEW cs \in DOMAIN charsets, NEW uni \in BOOLEAN, NEW s
    PROVE  CodeOrNot(InTypes(cs, uni, s))
<1>1. CodeOrNot(kt_latin(cs, uni, s))
  <2> DEFINE v == ValueIn(KT_LATIN, s)
             b == ByteIn(cs, s)
  <2>1. v = None \/ v \in 0 .. 255
    BY KsymsAssumption, ValueRange
  <2>2. CodeOrNot(b)
    BY ByteRange
  <2>3. kt_latin(cs, uni, s) \in {b, LatinBelow(128, v), LatinBelow(256, v)}
    BY DEF kt_latin, OrElse
  <2> HIDE DEF v, b
  <2>4. CodeOrNot(LatinBelow(128, v)) /\ CodeOrNot(LatinBelow(256, v))
    BY <2>1 DEF LatinBelow, CodeOrNot, Word, None, Unknown
  <2> QED
    BY <2>2, <2>3, <2>4
<1>2. CodeOrNot(KtypCode(s))
  <2> DEFINE S == {t \in DOMAIN syms \ {KT_LATIN} : \E v \in DOMAIN syms[t] : syms[t][v] = s}
  <2>1. S \in SUBSET Nat /\ \A t \in S : t \in DOMAIN syms /\ t \in 0 .. 14 /\ \E v \in DOMAIN syms[t] : syms[t][v] = s
    BY KsymsAssumption DEF syms_size
  <2>2. KtypCode(s) = KtypAt(First(S), s)
    BY DEF KtypCode
  <2> HIDE DEF S
  <2>3. First(S) = None \/ First(S) \in S
    BY <2>1, FirstIn
  <2>4. CASE First(S) = None
    BY <2>2, <2>4 DEF KtypAt, CodeOrNot
  <2>5. CASE First(S) \in S
    <3>1. PICK t : t = First(S) /\ t \in 0 .. 14 /\ ValueIn(t, s) \in 0 .. 255
      BY <2>1, <2>5, ValueRange
    <3>2. KtypCode(s) = K(t, ValueIn(t, s))
      BY <2>2, <3>1 DEF KtypAt, None
    <3>3. Word(K(t, ValueIn(t, s)))
      <4>1. t \in 0 .. 15
        BY <3>1
      <4> QED
        BY <3>1, <4>1, PartsCode
    <3> QED
      BY <3>2, <3>3 DEF CodeOrNot
  <2> QED
    BY <2>3, <2>4, <2>5
<1> QED
  BY <1>1, <1>2 DEF InTypes, OrElse

LEMMA CharsetsRange ==
    ASSUME NEW cs \in DOMAIN charsets, NEW uni \in BOOLEAN, NEW s
    PROVE  CodeOrNot(InCharsets(cs, uni, s))
<1>1. CodeOrNot(UnicodeIn(CharsetWith(cs, s), s))
  <2> DEFINE S == {i \in DOMAIN charsets : s \in NamesOf(i)}
  <2>1. S \in SUBSET Nat /\ \A i \in S : i \in DOMAIN charsets /\ s \in NamesOf(i)
    BY KsymsAssumption
  <2>2. CharsetWith(cs, s) = IF s \in NamesOf(cs) THEN cs ELSE First(S)
    BY DEF CharsetWith
  <2> HIDE DEF S
  <2>3. First(S) = None \/ First(S) \in S
    BY <2>1, FirstIn
  <2>4. PICK i : i = CharsetWith(cs, s) /\ (i = None \/ (i \in DOMAIN charsets /\ s \in NamesOf(i)))
    BY <2>1, <2>2, <2>3
  <2>5. CASE i = None
    BY <2>4, <2>5 DEF UnicodeIn, CodeOrNot
  <2>6. CASE i # None
    <3> DEFINE B == {d \in DOMAIN charsets[i] : charsets[i][d].name = s}
    <3>1. B # {} /\ B \in SUBSET Nat /\ ByteIn(i, s) = First(B) /\ \A d \in B : d \in DOMAIN charsets[i]
      BY <2>4, <2>6, KsymsAssumption DEF NamesOf, ByteIn
    <3> HIDE DEF B
    <3>2. PICK d \in DOMAIN charsets[i] : d = ByteIn(i, s)
      BY <3>1, FirstIn
    <3>3. Word(charsets[i][d].uni)
      BY <2>4, <2>6, KsymsAssumption DEF Word
    <3>4. UnicodeIn(i, s) = U(charsets[i][d].uni)
      BY <2>6, <3>2 DEF UnicodeIn
    <3>5. Word(U(charsets[i][d].uni))
      BY <3>3, WordXor
    <3> QED
      BY <2>4, <3>4, <3>5 DEF CodeOrNot
  <2> QED
    BY <2>5, <2>6
<1>2. CodeOrNot(AssumedByte(s))
  <2> DEFINE S == {i \in DOMAIN try_charset : s \in NamesOf(try_charset[i])}
  <2>1. S \in SUBSET Nat /\ \A i \in S : try_charset[i] \in DOMAIN charsets
    BY KsymsAssumption
  <2>2. AssumedByte(s) = ByteOfTry(First(S), s)
    BY DEF AssumedByte
  <2> HIDE DEF S
  <2>3. First(S) = None \/ First(S) \in S
    BY <2>1, FirstIn
  <2>4. First(S) = None => AssumedByte(s) = Unknown
    BY <2>2 DEF ByteOfTry
  <2>5. First(S) \in S /\ First(S) # None => AssumedByte(s) = ByteIn(try_charset[First(S)], s)
    BY <2>2 DEF ByteOfTry
  <2> QED
    BY <2>1, <2>3, <2>4, <2>5, ByteRange DEF CodeOrNot
<1> QED
  BY <1>1, <1>2 DEF InCharsets

LEMMA NameRange ==
    ASSUME NEW cs \in DOMAIN charsets, NEW uni \in BOOLEAN, NEW s
    PROVE  CodeOrNot(NameToCode(cs, uni, s))
<1>1. ASSUME NEW n PROVE CodeOrNot(InTypes(cs, uni, n)) /\ CodeOrNot(InCharsets(cs, uni, n))
  BY TypesRange, CharsetsRange
<1>2. ASSUME NEW n PROVE CodeOrNot(OfficialCode(cs, uni, n))
  BY <1>1 DEF OfficialCode, OrElse
<1> QED
  BY <1>1, <1>2 DEF NameToCode, OrElse

LEMMA KsymRange ==
    ASSUME NEW cs \in DOMAIN charsets, NEW uni \in BOOLEAN, NEW pre, NEW s
    PROVE  CodeOrNot(ksymtocode(cs, uni, pre, s))
<1>1. PICK b \in BOOLEAN : b = (uni /\ pre = "")
  OBVIOUS
<1>2. PICK c : c = NameToCode(cs, b, s) /\ CodeOrNot(c)
  BY NameRange
<1>3. ksymtocode(cs, uni, pre, s) = Prefixed(pre, uni, c)
  BY <1>1, <1>2, Zenon DEF ksymtocode
<1>4. c # Unknown => KVAL(c) \in 0 .. 255
  BY <1>2, WordXor DEF CodeOrNot
<1>5. KTYP(Unknown) # KT_LATIN
  <2>1. Unknown \in Int /\ Unknown < 0
    BY DEF Unknown
  <2> QED
    BY <2>1 DEF KTYP, KT_LATIN
<1>6. CodeOrNot(Unknown) /\ CodeOrNot(0)
  BY DEF CodeOrNot, Word
<1>7. c # Unknown => CodeOrNot(K(KT_META, KVAL(c))) /\ CodeOrNot(K(KT_DEAD2, KVAL(c)))
  BY <1>4 DEF CodeOrNot, Word, K, KT_META, KT_DEAD2
<1>8. \/ Prefixed(pre, uni, c) \in {c, 0, Unknown}
      \/ c # Unknown /\ Prefixed(pre, uni, c) \in {K(KT_META, KVAL(c)), K(KT_DEAD2, KVAL(c))}
  <2>1. CASE pre = ""
    BY <2>1, Zenon DEF Prefixed
  <2>2. CASE pre # "" /\ KTYP(c) # KT_LATIN
    BY <2>2, Zenon DEF Prefixed
  <2>3. CASE pre # "" /\ KTYP(c) = KT_LATIN /\ pre = "Meta_"
    BY <1>5, <2>3, Zenon DEF Prefixed
  <2>4. CASE pre # "" /\ KTYP(c) = KT_LATIN /\ pre # "Meta_"
    BY <1>5, <2>4, Zenon DEF Prefixed
  <2> QED
    BY <2>1, <2>2, <2>3, <2>4
<1> QED
  BY <1>2, <1>3, <1>6, <1>7, <1>8

LEMMA LetterRange ==
    ASSUME NEW uni, NEW code, NEW x, CodeOrNot(x)
    PROVE  CodeOrNot(AsLetter(uni, code, x))
<1>1. AsLetter(uni, code, x) = x \/ (U(x) < 256 /\ AsLetter(uni, code, x) = K(KT_LETTER, U(x)))
  BY Zenon DEF AsLetter
<1>2. x = Unknown => ~(U(x) < 256)
  BY DEF U, Unknown
<1>3. Word(x) /\ U(x) < 256 => CodeOrNot(K(KT_LETTER, U(x)))
  <2>1. Word(x) => U(x) \in Nat
    BY WordXor
  <2> QED
    BY <2>1 DEF CodeOrNot, Word, K, KT_LETTER
<1> QED
  BY <1>1, <1>2, <1>3 DEF CodeOrNot

LEMMA ConvertRange ==
    ASSUME NEW cs \in DOMAIN charsets, NEW uni \in BOOLEAN, NEW code, Word(code)
    PROVE  CodeOrNot(convert_code(cs, uni, code))
<1>1. CodeOrNot(code) /\ CodeOrNot(U(code))
  BY WordXor DEF CodeOrNot
<1>2. ASSUME NEW n PROVE CodeOrNot(ByName(cs, uni, code, n))
  <2>1. CodeOrNot(ksymtocode(cs, uni, "", n))
    BY KsymRange
  <2>2. CodeOrNot(IF n = NoName THEN code ELSE ksymtocode(cs, uni, "", n))
    BY <1>1, <2>1
  <2> QED
    BY <2>2, LetterRange, Zenon DEF ByName
<1>3. convert_code(cs, uni, code) \in {code, U(code), ByName(cs, uni, code, codetoksym(cs, code))}
  BY Zenon DEF convert_code
<1> QED
  BY <1>1, <1>2, <1>3

LEMMA CapsRange ==
    ASSUME NEW cs \in DOMAIN charsets, NEW uni \in BOOLEAN, NEW code, Word(code)
    PROVE  CodeOrNot(add_capslock(cs, uni, code))
<1>1. CodeOrNot(convert_code(cs, uni, code))
  BY ConvertRange
<1>2. KVAL(code) \in 0 .. 255 /\ U(code) \in Nat
  BY WordXor
<1>3. CodeOrNot(K(KT_LETTER, KVAL(code))) /\ (U(code) < 256 => CodeOrNot(K(KT_LETTER, U(code))))
  BY <1>2 DEF CodeOrNot, Word, K, KT_LETTER
<1>4. \/ add_capslock(cs, uni, code) \in {K(KT_LETTER, KVAL(code)), convert_code(cs, uni, code)}
      \/ U(code) < 256 /\ add_capslock(cs, uni, code) = K(KT_LETTER, U(code))
  BY Zenon DEF add_capslock
<1> QED
  BY <1>1, <1>3, <1>4

LEMMA RvalueRange ==
    ASSUME NEW cs \in DOMAIN charsets, NEW uni \in BOOLEAN, NEW r,
           r.kind \in {"literal", "number", "unumber"}, Word(r.num)
    PROVE  CodeOrNot(rvalue(cs, uni, r))
<1>1. ASSUME NEW c, CodeOrNot(c) PROVE CodeOrNot(RvalueOf(cs, uni, r, c))
  <2>1. CodeOrNot(c) /\ (c = Unknown \/ Word(c))
    BY <1>1 DEF CodeOrNot
  <2>2. Word(c) => CodeOrNot(add_capslock(cs, uni, c)) /\ CodeOrNot(convert_code(cs, uni, c))
    BY CapsRange, ConvertRange
  <2> QED
    BY <2>1, <2>2 DEF RvalueOf
<1>2. CodeOrNot(ksymtocode(cs, uni, r.pre, r.name)) /\ CodeOrNot(r.num) /\ CodeOrNot(U(r.num)) /\ CodeOrNot(Unknown)
  BY KsymRange, WordXor DEF CodeOrNot
<1>3. PICK c \in {ksymtocode(cs, uni, r.pre, r.name), r.num, U(r.num), Unknown} : rvalue(cs, uni, r) = RvalueOf(cs, uni, r, c)
  BY DEF rvalue
<1> QED
  BY <1>1, <1>2, <1>3

-----------------------------------------------------------------------------
(* The context: a charset of the library, and codes of 16 bits.            *)
ContextInv ==
    /\ charset \in DOMAIN charsets
    /\ unicode \in BOOLEAN
    /\ codes \in Seq(Nat)
    /\ \A i \in DOMAIN codes : Word(codes[i])

LEMMA ContextKept == ASSUME ContextInv, UNCHANGED context PROVE ContextInv'
  BY DEF ContextInv, context

LEMMA ContextNext ==
    ASSUME ContextInv, [TextNext]_textvars
    PROVE  ContextInv'
<1>1. CASE CharsetLine
  <2>1. Item \in Lines /\ Text[Item].kind = "charset" /\ charset' = Text[Item].charset
        /\ unicode' = PrefersUnicode(Text[Item].charset, unicode) /\ codes' = codes
    BY <1>1 DEF CharsetLine, AtLine, Current, lk_set_charset
  <2>2. charset' \in DOMAIN charsets
    BY <2>1, TextAssumption
  <2>3. unicode' \in BOOLEAN
    BY <2>1 DEF PrefersUnicode, ContextInv
  <2> QED
    BY <2>1, <2>2, <2>3 DEF ContextInv
<1>2. CASE KeyLine
  <2> DEFINE r == Text[Item].rvalue
             code == rvalue(charset, unicode, r)
  <2>1. Item \in Lines /\ Text[Item].kind = "key" /\ ((code # Unknown /\ Bind(code)) \/ UnknownKsym)
    BY <1>2 DEF KeyLine, AtLine, Current
  <2>2. r.kind \in {"literal", "number", "unumber"} /\ Word(r.num)
    BY <2>1, TextAssumption DEF Word
  <2>3. CodeOrNot(code)
    BY <2>2, RvalueRange DEF ContextInv
  <2> HIDE DEF code, r
  <2>4. CASE code # Unknown /\ Bind(code)
    <3>1. Word(code) /\ code \in Nat
      BY <2>3, <2>4 DEF CodeOrNot, Word
    <3>2. codes' = Append(codes, code) /\ charset' = charset /\ unicode' = unicode
      BY <2>4 DEF Bind
    <3>3. codes' \in Seq(Nat) /\ \A i \in DOMAIN codes' : codes'[i] = code \/ (i \in DOMAIN codes /\ codes'[i] = codes[i])
      BY <3>1, <3>2, AppendProperties, LenProperties DEF ContextInv
    <3> QED
      BY <3>1, <3>2, <3>3 DEF ContextInv
  <2>5. CASE UnknownKsym
    BY <2>5, ContextKept DEF UnknownKsym
  <2> QED
    BY <2>1, <2>4, <2>5
<1>3. CASE UNCHANGED context
  BY <1>3, ContextKept
<1> QED
  BY <1>1, <1>2, <1>3 DEF TextNext, TextLibrary, TextParse, textvars

(* What the lemmas on one code say of the property.                        *)
LEMMA ContextRoundTrip == ASSUME ContextInv PROVE NamesRoundTrip
<1> SUFFICES ASSUME NEW i \in DOMAIN codes, NEW c \in {0} \union Consistent, Known(codes[i])
             PROVE  /\ ~IsUnicode(codes[i]) /\ (DeadHigh(codes[i]) => c <= Iso8859_1) => Reloaded(c, FALSE, codes[i]) = codes[i]
                    /\ /\ c # Iso8859_1 /\ (c > 0 => ~HighByte(codes[i]) /\ ~DeadHigh(codes[i]))
                       /\ ~(IsUnicode(codes[i]) /\ Ambiguous(U(codes[i])))
                       => Typed(Reloaded(c, TRUE, codes[i])) = Typed(codes[i])
  BY DEF NamesRoundTrip
<1>1. PICK code : code = codes[i] /\ Word(code)
  BY DEF ContextInv
<1>2. PICK cs \in Consistent : cs = IF c = 0 THEN Iso8859_1 ELSE c
  BY Latin1Consistent DEF Iso8859_1
<1>3. cs \in DOMAIN charsets /\ (c # 0 => c \in Nat /\ c > 0)
  BY <1>2, KsymsAssumption DEF Consistent
<1>4. Reloaded(c, FALSE, code) = rvalue(cs, FALSE, print_keysym(cs, code))
  BY <1>2 DEF Reloaded, PrefersUnicode
<1>5. c # Iso8859_1 => Reloaded(c, TRUE, code) = rvalue(cs, TRUE, print_keysym(cs, code))
  BY <1>2 DEF Reloaded, PrefersUnicode
<1>6. ~IsUnicode(code) => \E t \in 0 .. 14, v \in 0 .. 255 : code = K(t, v) /\ KTYP(code) = t /\ KVAL(code) = v
  <2> SUFFICES ASSUME ~IsUnicode(code)
               PROVE  \E t \in 0 .. 14, v \in 0 .. 255 : code = K(t, v) /\ KTYP(code) = t /\ KVAL(code) = v
    OBVIOUS
  <2>1. code \in Nat /\ code < 4096 /\ KTYP(code) < 15
    BY <1>1 DEF Word, IsUnicode, Known, syms_size
  <2>2. KTYP(code) \in 0 .. 14 /\ KVAL(code) \in 0 .. 255 /\ code = K(KTYP(code), KVAL(code))
    BY <2>1, CodeParts
  <2> QED
    BY <2>2
<1>7. ASSUME ~IsUnicode(code), DeadHigh(code) => c <= Iso8859_1
      PROVE  rvalue(cs, FALSE, print_keysym(cs, code)) = code
  <2>1. PICK t \in 0 .. 14, v \in 0 .. 255 : code = K(t, v) /\ KTYP(code) = t /\ KVAL(code) = v
    BY <1>6, <1>7
  <2>2. t = KT_DEAD2 /\ v >= 128 => cs = 1
    BY <1>2, <1>3, <1>7, <2>1 DEF DeadHigh, Iso8859_1
  <2> QED
    BY <2>1, <2>2, ByteTrip
<1>8. ASSUME c # Iso8859_1, c > 0 => ~HighByte(code) /\ ~DeadHigh(code), ~(IsUnicode(code) /\ Ambiguous(U(code)))
      PROVE  Typed(rvalue(cs, TRUE, print_keysym(cs, code))) = Typed(code)
  <2>1. CASE IsUnicode(code)
    BY <1>1, <1>3, <1>8, <2>1, CharTrip
  <2>2. CASE ~IsUnicode(code)
    <3>1. PICK t \in 0 .. 14, v \in 0 .. 255 : code = K(t, v) /\ KTYP(code) = t /\ KVAL(code) = v
      BY <1>6, <2>2
    <3>2. CASE t \in {KT_LATIN, KT_LETTER} /\ ~(v < 128)
      <4>1. v \in 128 .. 255 /\ cs = 1
        BY <1>2, <1>3, <1>8, <3>1, <3>2 DEF HighByte, Iso8859_1
      <4> QED
        BY <3>1, <3>2, <4>1, HighTrip
    <3>3. CASE ~(t \in {KT_LATIN, KT_LETTER} /\ ~(v < 128))
      <4>1. t = KT_DEAD2 /\ v >= 128 => cs = 1
        BY <1>2, <1>3, <1>8, <3>1 DEF DeadHigh, Iso8859_1
      <4>2. rvalue(cs, TRUE, print_keysym(cs, K(t, v))) = K(t, v)
        BY <1>3, <3>3, <4>1, TypeTripUnicode
      <4> QED
        BY <3>1, <4>2
    <3> QED
      BY <3>2, <3>3
  <2> QED
    BY <2>1, <2>2
<1> QED
  BY <1>1, <1>4, <1>5, <1>7, <1>8

(* What dumpkeys prints for a code that any keymap files bound, under any  *)
(* charset lines, loadkeys reads as that code again (on a Unicode console: *)
(* as one that types the same), for all tables of names as the library's.  *)
THEOREM NamesComeBack == TextSpec => []NamesRoundTrip
<1>1. TextInit => ContextInv
  BY KsymsAssumption, TextAssumption DEF TextInit, ContextInv, Iso8859_1
<1>2. ContextInv /\ [TextNext]_textvars => ContextInv'
  BY ContextNext
<1>3. ContextInv => NamesRoundTrip
  BY ContextRoundTrip
<1> QED
  BY <1>1, <1>2, <1>3, PTL DEF TextSpec
=============================================================================
