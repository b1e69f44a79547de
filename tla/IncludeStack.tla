---------------------------- MODULE IncludeStack ----------------------------
(***************************************************************************)
(* The include stack of libkeymap's scanner: ctx->stack with stack_push    *)
(* and stack_pop (src/src/libkeymap/analyze.l), the scanner's own stack of *)
(* buffers, the rules for include and the end of a file, and               *)
(* lk_parse_keymap (parser.y), called for one file after another on the    *)
(* same context.                                                           *)
(*                                                                         *)
(* ctx->stack is an array of pointers whose first NULL is its end, so it   *)
(* is a sequence.  A struct kbdfile is a number, given out in order.       *)
(***************************************************************************)
EXTENDS Naturals, Sequences, SequencesExt

CONSTANTS
    File,           \* names of keymap files
    Content,        \* what is in them: Lines, "error", files to include
    Lines,          \* lines without an include
    Missing,        \* a name that no include finds
    MaxDepth,       \* MAX_INCLUDE_DEPTH
    MaxParses,      \* bound: calls of lk_parse_keymap
    GoesOn          \* the caller uses the context again after an error

ASSUME IncludeAssumption ==
    /\ MaxDepth \in Nat \ {0} /\ MaxParses \in Nat /\ GoesOn \in BOOLEAN
    /\ Content \in [File -> Seq(Lines \union {"error", Missing} \union File)]
    /\ "error" \notin Lines \union File /\ Missing \notin Lines \union File
    /\ Lines \intersect File = {}

VARIABLES
    stack,          \* ctx->stack
    buffers,        \* the scanner's buffers: a kbdfile and the place in it
    files,          \* the kbdfiles made so far: the file, and who closed it how often
    pc,
    ret,            \* of lk_parse_keymap
    read            \* history: the lines read by this call

vars == <<stack, buffers, files, pc, ret, read>>

-----------------------------------------------------------------------------
(* stack_push: no free entry.                                              *)
StackFull == Len(stack) = MaxDepth

(* Mutant: the bottom of the stack is closed too.                          *)
PopClosesAll == stack # <<>>

(* stack_pop: all but the bottom of the stack are closed.                  *)
PopCloses == Len(stack) > 1

stack_pop ==
    /\ stack' = IF stack = <<>> THEN stack ELSE Front(stack)
    /\ files' = IF PopCloses THEN [files EXCEPT ![Last(stack)].lib = @ + 1] ELSE files

Kbdfile(f, who) == [file |-> f, by |-> who, pushed |-> ~StackFull, lib |-> 0, own |-> 0]

Here == Last(buffers)
Item == Content[files[Here.fp].file][Here.pos]
AtEof == Here.pos > Len(Content[files[Here.fp].file])
Advanced == [buffers EXCEPT ![Len(buffers)].pos = @ + 1]
-----------------------------------------------------------------------------
Init ==
    /\ stack = <<>>
    /\ buffers = <<>>
    /\ files = <<>>
    /\ pc = "caller"
    /\ ret = 0
    /\ read = <<>>

Calls == Len(SelectSeq(files, LAMBDA x : x.by = "caller"))

(* lk_parse_keymap up to yyparse: a new scanner, the file on both stacks.  *)
lk_parse_keymap(f) ==
    /\ pc = "caller"
    /\ Calls < MaxParses
    /\ files' = Append(files, Kbdfile(f, "caller"))
    /\ IF StackFull
       THEN /\ ret' = 1 /\ pc' = "pop"
            /\ UNCHANGED <<stack, buffers>>
       ELSE /\ stack' = Append(stack, Len(files) + 1)
            /\ buffers' = <<[fp |-> Len(files) + 1, pos |-> 1]>>
            /\ ret' = 0 /\ pc' = "yyparse"
    /\ read' = <<>>

(* A line.                                                                 *)
Line ==
    /\ pc = "yyparse" /\ ~AtEof /\ Item \in Lines
    /\ buffers' = Advanced
    /\ read' = Append(read, Item)
    /\ UNCHANGED <<stack, files, pc, ret>>

(* A line that the scanner or the grammar rejects, and an include that     *)
(* open_include does not find (its kbdfile is dropped).                    *)
SyntaxError ==
    /\ pc = "yyparse" /\ ~AtEof /\ Item \in {"error", Missing}
    /\ ret' = 1
    /\ pc' = "pop"
    /\ UNCHANGED <<stack, buffers, files, read>>

(* The include rule: open_include, then stack_push, whose result is not    *)
(* looked at.                                                              *)
Include ==
    /\ pc = "yyparse" /\ ~AtEof /\ Item \in File
    /\ files' = Append(files, Kbdfile(Item, "include"))
    /\ IF StackFull
       THEN /\ buffers' = Advanced
            /\ UNCHANGED stack
       ELSE /\ stack' = Append(stack, Len(files) + 1)
            /\ buffers' = Append(Advanced, [fp |-> Len(files) + 1, pos |-> 1])
    /\ UNCHANGED <<pc, ret, read>>

(* Mutant: the end of an included file ends the input.                     *)
EofEndsAll ==
    /\ pc = "yyparse" /\ AtEof
    /\ stack_pop
    /\ buffers' = Front(buffers)
    /\ pc' = "pop"
    /\ UNCHANGED <<ret, read>>

(* Mutant: ctx->stack keeps the file.                                      *)
EofKeepsStack ==
    /\ pc = "yyparse" /\ AtEof
    /\ buffers' = Front(buffers)
    /\ pc' = IF Len(buffers) = 1 THEN "pop" ELSE pc
    /\ UNCHANGED <<stack, files, ret, read>>

(* Mutant: the rule is for included files only.                            *)
EofOfIncludes ==
    /\ pc = "yyparse" /\ AtEof /\ Len(buffers) > 1
    /\ stack_pop
    /\ buffers' = Front(buffers)
    /\ UNCHANGED <<pc, ret, read>>

(* The <<EOF>> rule: stack_pop, and the end of the input with the last     *)
(* buffer.                                                                 *)
Eof ==
    /\ pc = "yyparse" /\ AtEof
    /\ stack_pop
    /\ buffers' = Front(buffers)
    /\ pc' = IF Len(buffers) = 1 THEN "pop" ELSE pc
    /\ UNCHANGED <<ret, read>>

(* The end of lk_parse_keymap: one more stack_pop, the scanner is gone.    *)
Return ==
    /\ pc = "pop"
    /\ stack_pop
    /\ buffers' = <<>>
    /\ pc' = "returned"
    /\ UNCHANGED <<ret, read>>

(* The number of the file the last call was given.                         *)
Mine == CHOOSE i \in DOMAIN files :
          files[i].by = "caller" /\ \A j \in DOMAIN files : files[j].by = "caller" => j <= i

(* loadkeys, after each call: kbdfile_free, and an end on an error.        *)
CallerFrees ==
    /\ pc = "returned"
    /\ files' = [files EXCEPT ![Mine].own = @ + 1]
    /\ pc' = IF ret # 0 /\ ~GoesOn THEN "exit" ELSE "caller"
    /\ UNCHANGED <<stack, buffers, ret, read>>

Done ==
    /\ pc = "exit" \/ (pc = "caller" /\ Calls = MaxParses)
    /\ UNCHANGED vars

Library == Line \/ SyntaxError \/ Include \/ Eof \/ Return

Next == (\E f \in File : lk_parse_keymap(f)) \/ Library \/ CallerFrees \/ Done

Spec == Init /\ [][Next]_vars
FairSpec == Spec /\ WF_vars(Library)

-----------------------------------------------------------------------------
(* Properties                                                              *)

(* The shape of the state; the stack fits its array.                       *)
TypeOK ==
    /\ Len(stack) <= MaxDepth
    /\ \A i \in DOMAIN stack : stack[i] \in DOMAIN files
    /\ \A i \in DOMAIN buffers : buffers[i].fp \in DOMAIN files
    /\ pc \in {"caller", "yyparse", "pop", "returned", "exit"}

(* The scanner reads from the files on ctx->stack, in their order, within  *)
(* the array, and from no file that is closed: find_standard_incl_file,    *)
(* which looks near the file on top of ctx->stack, looks near the file     *)
(* being read.                                                             *)
ScannerOnStack ==
    pc = "yyparse" =>
        /\ Len(stack) <= MaxDepth
        /\ stack = [i \in DOMAIN buffers |-> buffers[i].fp]
        /\ \A i \in DOMAIN stack : files[stack[i]].lib = 0 /\ files[stack[i]].own = 0

(* "The top of stack is input file for library. No need to close it": what *)
(* the caller opened is closed by the caller alone (here one that stops at *)
(* the first error, as loadkeys does), and after a call that succeeded the *)
(* stack is empty and every included file that got on it was closed once.  *)
ClosedByOwner ==
    /\ \A i \in DOMAIN files : files[i].by = "caller" => files[i].lib = 0
    /\ pc = "returned" /\ ret = 0 =>
          /\ stack = <<>>
          /\ \A i \in DOMAIN files :
               files[i].by = "include" /\ files[i].pushed => files[i].lib = 1

(* A file that includes itself does not keep the parser busy for ever.     *)
ParseEnds == (pc = "yyparse") ~> (pc = "returned")
=============================================================================
