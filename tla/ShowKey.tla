------------------------------ MODULE ShowKey -------------------------------
(***************************************************************************)
(* showkey (src/src/showkey.c): put the keyboard in a raw mode, print what *)
(* comes, and give the terminal back when nothing has come for a while or  *)
(* when a signal arrives.                                                  *)
(*                                                                         *)
(* The handlers run between any two system calls of main, and a second     *)
(* signal may interrupt the handler of a first.  Time passes by ticks.     *)
(***************************************************************************)
EXTENDS Naturals

CONSTANTS
    Timeout,        \* seconds without a key before the program ends
    Signals         \* the signals whose handler is die

ASSUME TimeoutAssumption == Timeout \in Nat \ {0}

KbMode == {"RAW", "MEDIUMRAW", "XLATE", "UNICODE"}

VARIABLES
    kbmode,         \* kernel: the keyboard mode of the console
    termios,        \* kernel: the terminal attributes
    allowed,        \* kernel: the process may change the keyboard mode
    readable,       \* kernel: fd is open for reading (getfd also takes a console it can only write to)
    hungup,         \* kernel: the terminal is hung up, every call on fd fails
    pc,
    show_keycodes,  \* -k (the default) or -s
    oldkbmode,      \* static, so K_RAW until get_mode
    old,            \* static, so all zero until tcgetattr
    alarm,          \* seconds left on the alarm, 0 when none is set
    closed,         \* clean_up has closed fd
    idle,           \* history: seconds since the last key
    late,           \* history: the alarm has interrupted the wait for a key
    blocked,        \* signals whose handler has begun; it never returns
    start           \* history: the mode at the start

vars == <<kbmode, termios, allowed, readable, hungup, pc, show_keycodes, oldkbmode, old, alarm, closed,
          idle, late, blocked, start>>
device == <<allowed, readable, hungup>>
kernel == <<kbmode, termios, device>>
saved == <<show_keycodes, oldkbmode, old>>
clock == <<alarm, idle, late>>

Init ==
    /\ kbmode \in KbMode
    /\ termios = "found"
    /\ allowed \in BOOLEAN
    /\ readable \in BOOLEAN
    /\ hungup = FALSE
    /\ pc \in {"get_mode", "ascii"}     \* "ascii" with -a
    /\ show_keycodes \in BOOLEAN
    /\ oldkbmode = "RAW"
    /\ old = "zero"
    /\ alarm = 0
    /\ closed = FALSE
    /\ idle = 0
    /\ late = FALSE
    /\ blocked = {}
    /\ start = kbmode

(* The terminal goes away, as by vhangup (external).  SIGHUP comes only to *)
(* a process whose controlling terminal it was: it is one of Signals.      *)
HangUp ==
    /\ pc \notin {"exit", "killed"}
    /\ ~hungup /\ hungup' = TRUE
    /\ UNCHANGED <<kbmode, termios, allowed, readable, pc, saved, clock, closed, blocked, start>>

(* What a call on the terminal gives when it succeeds.                     *)
Works(x) == IF hungup THEN {} ELSE {x}

(* KDSKBMODE succeeds.                                                     *)
MaySet == allowed /\ ~hungup

(* get_mode; it gives up when the mode cannot be read.                     *)
get_mode ==
    /\ pc = "get_mode"
    /\ \/ ~hungup /\ oldkbmode' = kbmode /\ pc' = "tcgetattr"
       \/ UNCHANGED oldkbmode /\ pc' = "exit"
    /\ UNCHANGED <<kernel, show_keycodes, old, clock, closed, blocked, start>>

(* main: tcgetattr; a failure is only a warning.                           *)
SaveTermios ==
    /\ pc = "tcgetattr"
    /\ old' \in {old} \union Works(termios)
    /\ pc' = "tcsetattr"
    /\ UNCHANGED <<kernel, show_keycodes, oldkbmode, clock, closed, blocked, start>>

(* main: the terminal without line editing, echo and signals.              *)
SetTermios ==
    /\ pc = "tcsetattr"
    /\ termios' \in {termios} \union Works("raw")
    /\ pc' = "set_mode"
    /\ UNCHANGED <<kbmode, device, saved, clock, closed, blocked, start>>

(* main: the keyboard mode; a failure ends the program on the spot.        *)
SetMode ==
    /\ pc = "set_mode"
    /\ kbmode' = IF MaySet THEN IF show_keycodes THEN "MEDIUMRAW" ELSE "RAW" ELSE kbmode
    /\ pc' = IF MaySet THEN "arm" ELSE "exit"
    /\ UNCHANGED <<termios, device, saved, clock, closed, blocked, start>>

(* Mutant: the alarm is set once, before the loop.                         *)
ArmOnce ==
    /\ pc = "arm"
    /\ alarm' = IF alarm = 0 THEN Timeout ELSE alarm
    /\ pc' = "read"
    /\ UNCHANGED <<kernel, saved, idle, late, closed, blocked, start>>

(* Mutant: no alarm.                                                       *)
ArmNever ==
    /\ pc = "arm"
    /\ pc' = "read"
    /\ UNCHANGED <<kernel, saved, clock, closed, blocked, start>>

(* Both loops: alarm(timeout) before each read.                            *)
Arm ==
    /\ pc = "arm"
    /\ alarm' = Timeout
    /\ pc' = "read"
    /\ UNCHANGED <<kernel, saved, idle, late, closed, blocked, start>>

(* Both loops: the read gives some bytes, and they are printed.            *)
Keypress ==
    /\ pc = "read"
    /\ readable /\ ~hungup
    /\ idle' = 0
    /\ pc' = "arm"
    /\ UNCHANGED <<kernel, saved, alarm, late, closed, blocked, start>>

(* Both loops: read gives 0 or -1, which is not looked at; the loop goes   *)
(* on to the next alarm().                                                 *)
ReadFails ==
    /\ pc = "read"
    /\ ~readable \/ hungup
    /\ pc' = "arm"
    /\ UNCHANGED <<kernel, saved, clock, closed, blocked, start>>

(* A second passes.  Bound: idle counts to Timeout.                        *)
Tick ==
    /\ pc # "exit"
    /\ alarm > 1
    /\ alarm' = alarm - 1
    /\ idle' = IF idle < Timeout THEN idle + 1 ELSE idle
    /\ UNCHANGED <<kernel, saved, late, pc, closed, blocked, start>>

(* The alarm's second: watch_dog runs, in main or in the handler die.      *)
watch_dog ==
    /\ pc # "exit"
    /\ alarm = 1
    /\ alarm' = 0
    /\ idle' = IF idle < Timeout THEN idle + 1 ELSE idle
    /\ late' = (pc = "read")
    /\ pc' = "clean_up"
    /\ UNCHANGED <<kernel, saved, closed, blocked, start>>

(* A signal with the handler die, in main or in another handler.           *)
die(s) ==
    /\ pc \notin {"exit", "killed", "ascii", "ascii_read"} /\ s \notin blocked
    /\ blocked' = blocked \union {s}
    /\ pc' = "clean_up"
    /\ UNCHANGED <<kernel, saved, clock, closed, start>>

(* clean_up: the keyboard mode first; a failure, as after a close by an    *)
(* interrupted clean_up, ends the program.                                 *)
RestoreMode ==
    /\ pc = "clean_up"
    /\ IF MaySet /\ ~closed
       THEN kbmode' = oldkbmode /\ pc' = "clean_termios"
       ELSE UNCHANGED kbmode /\ pc' = "exit"
    /\ UNCHANGED <<termios, device, saved, clock, closed, blocked, start>>

(* Mutant: clean_up forgets the terminal.                                  *)
RestoreNoTermios ==
    /\ pc = "clean_termios"
    /\ pc' = "close"
    /\ UNCHANGED <<kernel, saved, clock, closed, blocked, start>>

(* clean_up: then the terminal attributes.                                 *)
RestoreTermios ==
    /\ pc = "clean_termios"
    /\ termios' = IF hungup THEN termios ELSE old
    /\ pc' = "close"
    /\ UNCHANGED <<kbmode, device, saved, clock, closed, blocked, start>>

(* clean_up: close(fd); the handler exits.                                 *)
Close ==
    /\ pc = "close"
    /\ closed' = TRUE
    /\ pc' = "leave"
    /\ UNCHANGED <<kernel, saved, clock, blocked, start>>

Leave ==
    /\ pc = "leave"
    /\ pc' = "exit"
    /\ UNCHANGED <<kernel, saved, clock, closed, blocked, start>>

(* main with -a: no keyboard mode, no handlers, no alarm.                  *)
AsciiStart ==
    /\ pc = "ascii"
    /\ old' \in {old} \union Works(termios)
    /\ termios' \in {termios} \union Works("raw")
    /\ pc' = "ascii_read"
    /\ UNCHANGED <<kbmode, device, show_keycodes, oldkbmode, clock, closed, blocked, start>>

(* Its loop reads on until Ctrl-D or the end of the input.                 *)
AsciiRead ==
    /\ pc = "ascii_read"
    /\ \/ UNCHANGED <<pc, termios>>
       \/ pc' = "exit" /\ termios' = IF hungup THEN termios ELSE old
    /\ UNCHANGED <<kbmode, device, saved, clock, closed, blocked, start>>

(* A signal without a handler.                                             *)
Killed ==
    /\ pc \in {"ascii", "ascii_read"}
    /\ pc' = "killed"
    /\ UNCHANGED <<kernel, saved, clock, closed, blocked, start>>

Finished == pc \in {"exit", "killed"} /\ UNCHANGED vars

Main == get_mode \/ SaveTermios \/ SetTermios \/ SetMode \/ Arm
Handler == RestoreMode \/ RestoreTermios \/ Close \/ Leave

Next == Main \/ Keypress \/ ReadFails \/ HangUp \/ Tick \/ watch_dog \/ (\E s \in Signals : die(s)) \/ Handler
        \/ AsciiStart \/ AsciiRead \/ Killed \/ Finished

Spec == Init /\ [][Next]_vars

(* The process runs and time passes; keys and signals need never come.     *)
FairSpec == Spec /\ WF_vars(Main \/ ReadFails \/ Handler) /\ WF_vars(Tick \/ watch_dog)

-----------------------------------------------------------------------------
(* Properties                                                              *)

(* The shape of the state; the modes main sets are raw modes.              *)
TypeOK ==
    /\ kbmode \in KbMode /\ oldkbmode \in KbMode
    /\ termios \in {"found", "raw", "zero"} /\ old \in {"found", "zero"}
    /\ alarm \in 0 .. Timeout
    /\ closed => pc \in {"leave", "clean_up", "exit"}
    /\ pc = "read" => kbmode = (IF show_keycodes THEN "MEDIUMRAW" ELSE "RAW")

(* Once the mode and the attributes were read, every end of a process that *)
(* can still set the mode (the terminal is not hung up) gives the console  *)
(* back as it was, wherever signals and the alarm fell, one of them inside *)
(* clean_up included.                                                      *)
ConsoleRestored ==
    (pc = "exit" /\ MaySet /\ old = "found") => kbmode = start /\ termios = "found"

(* "the program terminates when there is no input for 10 secs": an alarm   *)
(* that interrupts the wait for a key comes a whole timeout after the last *)
(* one.  (One that comes between a key and the next alarm() may not.)      *)
AlarmIsLate == late => idle >= Timeout

(* When keys stop coming, the program ends, as long as the terminal can be *)
(* read: a read that fails is followed by the next alarm() at once, so     *)
(* that the alarm never comes.                                             *)
EndsWithoutInput ==
    pc = "get_mode" /\ readable /\ <>[][~Keypress]_vars => <>(pc = "exit" \/ hungup)
=============================================================================
