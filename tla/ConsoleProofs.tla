--------------------------- MODULE ConsoleProofs ----------------------------
(***************************************************************************)
(* The programs that take the console over and have to give it back.       *)
(* showkey restores the keyboard and the terminal, and its alarm ends its  *)
(* wait, for every timeout.  vlock keeps its console in front, ends by the *)
(* password and gives switching back, for any set of consoles and any      *)
(* order of requests, signals and PAM answers.                             *)
(***************************************************************************)
EXTENDS ShowKey, VLock, TLAPS

-----------------------------------------------------------------------------
(* showkey                                                                 *)

Labels == {"get_mode", "tcgetattr", "tcsetattr", "set_mode", "arm", "read", "clean_up", "clean_termios",
           "close", "leave", "ascii", "ascii_read", "exit", "killed"}

(* The sets the variables are in: the program's own, the flags, the clock. *)
ModeTypes ==
    /\ kbmode \in KbMode /\ oldkbmode \in KbMode /\ start \in KbMode
    /\ termios \in {"found", "raw", "zero"} /\ old \in {"found", "zero"}
    /\ pc \in Labels
FlagTypes == allowed \in BOOLEAN /\ closed \in BOOLEAN /\ show_keycodes \in BOOLEAN /\ late \in BOOLEAN
             /\ readable \in BOOLEAN /\ hungup \in BOOLEAN
ClockTypes == alarm \in 0 .. Timeout /\ idle \in 0 .. Timeout
Types == ModeTypes /\ FlagTypes /\ ClockTypes

(* With -a nothing but the terminal is touched.                            *)
Ascii ==
    /\ pc \in {"ascii", "ascii_read", "killed"} => kbmode = start /\ alarm = 0 /\ ~closed /\ termios # "zero"
    /\ pc = "ascii" => old = "zero" /\ termios = "found"

(* Attributes that were read were so after the mode was.                   *)
Reads ==
    /\ pc = "get_mode" => old = "zero" /\ kbmode = start
    /\ pc = "tcgetattr" => old = "zero"
    /\ pc \in {"get_mode", "tcgetattr"} => termios = "found"
    /\ pc \in {"tcgetattr", "tcsetattr", "set_mode"} => kbmode = start /\ oldkbmode = start
    /\ pc \in {"arm", "read"} => oldkbmode = start

(* What clean_up finds, and what it has done when it gets on.              *)
CleanUp ==
    /\ ~allowed => kbmode = start
    /\ old = "found" => termios # "zero"
    /\ old = "found" /\ pc \notin {"ascii", "ascii_read", "exit", "killed"} => oldkbmode = start
    /\ old = "found" /\ pc \in {"clean_termios", "close", "leave"} => kbmode = start
    /\ pc \in {"close", "leave"} /\ ~hungup => termios = old
    /\ closed /\ ~hungup => termios = old
    /\ closed /\ old = "found" => kbmode = start
    /\ closed => pc \in {"leave", "clean_up", "exit"}

(* The raw mode while keys are read, and the clock.                        *)
Reading ==
    /\ pc \in {"arm", "read"} => kbmode = (IF show_keycodes THEN "MEDIUMRAW" ELSE "RAW")
    /\ pc = "read" => alarm + idle >= Timeout
    /\ late => idle >= Timeout /\ pc \in {"clean_up", "clean_termios", "close", "leave", "exit"}

IInv == Types /\ Ascii /\ Reads /\ CleanUp /\ Reading /\ ConsoleRestored
-----------------------------------------------------------------------------
LEMMA InitIInv == Init => IInv
<1> SUFFICES ASSUME Init PROVE IInv
  OBVIOUS
<1> USE TimeoutAssumption DEF Init, KbMode, Labels
<1>1. Types
  <2>1. ModeTypes
    BY DEF ModeTypes
  <2>2. FlagTypes
    BY DEF FlagTypes
  <2>3. ClockTypes
    BY DEF ClockTypes
  <2> QED
    BY <2>1, <2>2, <2>3 DEF Types
<1>2. Ascii /\ Reads
  BY DEF Ascii, Reads
<1>3. CleanUp /\ ConsoleRestored
  BY DEF CleanUp, ConsoleRestored
<1>4. Reading
  BY DEF Reading
<1> QED
  BY <1>1, <1>2, <1>3, <1>4 DEF IInv

LEMMA NextIInv == IInv /\ [Next]_vars => IInv'
<1> SUFFICES ASSUME IInv, [Next]_vars PROVE IInv'
  OBVIOUS
<1> USE TimeoutAssumption DEF IInv, Types, ModeTypes, FlagTypes, ClockTypes, Ascii, Reads, CleanUp,
                              Reading, ConsoleRestored, KbMode, Labels, MaySet, Works, kernel, device, saved, clock
<1>1. CASE get_mode
  BY <1>1 DEF get_mode
<1>2. CASE SaveTermios
  <2> USE <1>2 DEF SaveTermios
  <2>1. Types'
    <3>1. ModeTypes'
      OBVIOUS
    <3>2. FlagTypes'
      OBVIOUS
    <3>3. ClockTypes'
      OBVIOUS
    <3> QED
      BY <3>1, <3>2, <3>3
  <2>2. Ascii'
    OBVIOUS
  <2>3. Reads'
    OBVIOUS
  <2>4. CleanUp'
    OBVIOUS
  <2>5. Reading'
    OBVIOUS
  <2>6. ConsoleRestored'
    OBVIOUS
  <2> QED
    BY <2>1, <2>2, <2>3, <2>4, <2>5, <2>6
<1>3. CASE SetTermios
  BY <1>3 DEF SetTermios
<1>4. CASE SetMode
  BY <1>4 DEF SetMode
<1>5. CASE Arm
  <2> USE <1>5 DEF Arm
  <2>1. Types'
    <3>1. ModeTypes'
      OBVIOUS
    <3>2. FlagTypes'
      OBVIOUS
    <3>3. ClockTypes'
      OBVIOUS
    <3> QED
      BY <3>1, <3>2, <3>3
  <2>2. Ascii'
    OBVIOUS
  <2>3. Reads'
    OBVIOUS
  <2>4. CleanUp'
    OBVIOUS
  <2>5. Reading'
    OBVIOUS
  <2>6. ConsoleRestored'
    OBVIOUS
  <2> QED
    BY <2>1, <2>2, <2>3, <2>4, <2>5, <2>6
<1>6. CASE Keypress
  BY <1>6 DEF Keypress
<1>7. CASE Tick
  BY <1>7 DEF Tick
<1>8. CASE watch_dog
  <2> USE <1>8 DEF watch_dog
  <2>1. Types'
    <3>1. ModeTypes'
      OBVIOUS
    <3>2. FlagTypes'
      OBVIOUS
    <3>3. ClockTypes'
      OBVIOUS
    <3> QED
      BY <3>1, <3>2, <3>3
  <2>2. Ascii'
    OBVIOUS
  <2>3. Reads'
    OBVIOUS
  <2>4. CleanUp'
    OBVIOUS
  <2>5. Reading'
    OBVIOUS
  <2>6. ConsoleRestored'
    OBVIOUS
  <2> QED
    BY <2>1, <2>2, <2>3, <2>4, <2>5, <2>6
<1>9. CASE RestoreMode
  BY <1>9 DEF RestoreMode
<1>10. CASE RestoreTermios
  BY <1>10 DEF RestoreTermios
<1>11. CASE Close
  BY <1>11 DEF Close
<1>12. CASE Leave
  BY <1>12 DEF Leave
<1>13. CASE AsciiStart
  <2> USE <1>13 DEF AsciiStart
  <2>1. Types'
    <3>1. ModeTypes'
      OBVIOUS
    <3>2. FlagTypes'
      OBVIOUS
    <3>3. ClockTypes'
      OBVIOUS
    <3> QED
      BY <3>1, <3>2, <3>3
  <2>2. Ascii'
    OBVIOUS
  <2>3. Reads'
    OBVIOUS
  <2>4. CleanUp'
    OBVIOUS
  <2>5. Reading'
    OBVIOUS
  <2>6. ConsoleRestored'
    OBVIOUS
  <2> QED
    BY <2>1, <2>2, <2>3, <2>4, <2>5, <2>6
<1>14. CASE AsciiRead
  BY <1>14 DEF AsciiRead
<1>15. CASE Killed
  BY <1>15 DEF Killed
<1>16. ASSUME NEW s \in Signals, die(s) PROVE IInv'
  BY <1>16 DEF die
<1>17. CASE HangUp
  BY <1>17 DEF HangUp
<1>18. CASE ReadFails
  BY <1>18 DEF ReadFails
<1>19. CASE UNCHANGED vars
  BY <1>19 DEF vars
<1> QED
  BY <1>1, <1>2, <1>3, <1>4, <1>5, <1>6, <1>7, <1>8, <1>9, <1>10, <1>11,
     <1>12, <1>13, <1>14, <1>15, <1>16, <1>17, <1>18, <1>19 DEF Next, Main, Handler, Finished

(* Every end of showkey gives the console back (ConsoleRestored).          *)
THEOREM GivesConsoleBack == Spec => []ConsoleRestored
<1>1. Init => IInv
  BY InitIInv
<1>2. IInv /\ [Next]_vars => IInv'
  BY NextIInv
<1>3. IInv => ConsoleRestored
  BY DEF IInv
<1> QED
  BY <1>1, <1>2, <1>3, PTL DEF Spec

(* The alarm that ends a wait for a key comes a whole timeout after the    *)
(* last key (AlarmIsLate), since every read starts with a new alarm.       *)
THEOREM AlarmEndsWait == Spec => []AlarmIsLate
<1>1. Init => IInv
  BY InitIInv
<1>2. IInv /\ [Next]_vars => IInv'
  BY NextIInv
<1>3. IInv => AlarmIsLate
  BY DEF IInv, Reading, AlarmIsLate
<1> QED
  BY <1>1, <1>2, <1>3, PTL DEF Spec

(* The state keeps its shape, and keys are only read in the raw mode that  *)
(* the options ask for (TypeOK).                                           *)
THEOREM TypeCorrect == Spec => []TypeOK
<1>1. Init => IInv
  BY InitIInv
<1>2. IInv /\ [Next]_vars => IInv'
  BY NextIInv
<1>3. IInv => TypeOK
  BY DEF IInv, Types, ModeTypes, ClockTypes, CleanUp, Reading, TypeOK
<1> QED
  BY <1>1, <1>2, <1>3, PTL DEF Spec

-----------------------------------------------------------------------------
(* vlock                                                                   *)

(* Where main is, as far as the kernel's mode and the handlers depend on it. *)
Before == {"init_pam", "init_vt", "mask_signals"}
Controls == {"activate", "wait_active", "restore_mode"} \union Locked

(* The handlers are there from mask_signals on, VT switching is controlled *)
(* from VT_SETMODE to the VT_SETMODE that undoes it, and only vlock -a on  *)
(* a VT ever does so. The PAM handle is not open before it is made, nor    *)
(* once the lock is over.                                                  *)
Control ==
    /\ at \notin Before /\ ~Dead => handlers
    /\ vtmode = "PROCESS" => at \in Controls \union {"killed"} /\ handlers /\ o_lock_all
    /\ o_lock_all /\ at \in Controls => vtmode = "PROCESS" /\ is_vt
    /\ o_lock_all /\ at \in {"mask_signals", "set_mode"} => is_vt
    /\ at \in {"set_mode", "activate", "wait_active", "restore_mode"} => o_lock_all
    /\ releasing # 0 => vtmode = "PROCESS"
    /\ at \in {"restore_screen", "restore_mode", "init_pam"} => pamh # "open"

(* No signal comes before VT_SETMODE.  While one of an acquisition is      *)
(* pending this VT is in front, and once there is none to come, it stays:  *)
(* nothing but acquire_vt completes a release.                             *)
Front ==
    /\ ~Dead /\ vtmode = "AUTO" => signals = {}
    /\ "USR2" \in signals /\ ~Dead => active = Ours
    /\ hold # "none" /\ ~Dead => vtmode = "PROCESS"
    /\ hold = "front" /\ ~Dead => active = Ours /\ "USR2" \notin signals
    /\ at \in Before \union {"set_mode"} => hold = "none"

(* The saved screen, from init_screen on.                                  *)
Screen ==
    /\ at \in Before \union {"set_mode", "activate", "wait_active", "screen"} => ~screen_buf
    /\ screen_buf => is_vt
    /\ screen_buf /\ at \in {"restore_mode", "exit"} => screen = "session"

LockInv == LockTypeOK /\ Control /\ Front /\ Screen /\ LockHolds /\ SignalsHandled

LEMMA InitLockInv == LockInit => LockInv
  BY VTAssumption DEF LockInit, LockInv, LockTypeOK, Control, Front, Screen, LockHolds, SignalsHandled, Locked, Before, Controls, Dead

LEMMA NextLockInv == LockInv /\ [LockNext]_lockvars => LockInv'
<1> SUFFICES ASSUME LockInv, [LockNext]_lockvars PROVE LockInv'
  OBVIOUS
<1> USE VTAssumption DEF LockInv, LockTypeOK, Control, Front, Screen, LockHolds, SignalsHandled, Locked, Before, Controls,
                         Dead, switching, setup, lockvars, GiveUp, LoseHandle, Unlock, AccountCall, VT_SETMODE
<1>1. CASE InitPam
  <2>1. LockTypeOK'
    BY <1>1 DEF InitPam
  <2>2. Control'
    BY <1>1 DEF InitPam
  <2>3. Screen'
    BY <1>1 DEF InitPam
  <2>4. LockHolds'
    BY <1>1 DEF InitPam
  <2>5. SignalsHandled'
    BY <1>1 DEF InitPam
  <2>6. Front'
    BY <1>1 DEF InitPam
  <2> QED
    BY <2>1, <2>2, <2>3, <2>4, <2>5, <2>6
<1>2. CASE OpenVt
  <2>1. LockTypeOK'
    BY <1>2 DEF OpenVt
  <2>2. Control'
    BY <1>2 DEF OpenVt
  <2>3. Screen'
    BY <1>2 DEF OpenVt
  <2>4. LockHolds'
    BY <1>2 DEF OpenVt
  <2>5. SignalsHandled'
    BY <1>2 DEF OpenVt
  <2>6. Front'
    BY <1>2 DEF OpenVt
  <2> QED
    BY <2>1, <2>2, <2>3, <2>4, <2>5, <2>6
<1>3. CASE MaskSignals
  BY <1>3 DEF MaskSignals
<1>4. CASE SetVtMode
  BY <1>4 DEF SetVtMode
<1>5. CASE Activate
  BY <1>5 DEF Activate, ActivateFail
<1>6. CASE WaitActive
  BY <1>6 DEF WaitActive, ActivateFail
<1>7. CASE InitScreen
  BY <1>7 DEF InitScreen
<1>8. CASE NewHandle
  BY <1>8 DEF NewHandle
<1>9. CASE Authenticate
  BY <1>9 DEF Authenticate
<1>10. CASE AcctMgmt
  <2>1. LockTypeOK'
    BY <1>10 DEF AcctMgmt
  <2>2. Control'
    BY <1>10 DEF AcctMgmt
  <2>3. Screen'
    BY <1>10 DEF AcctMgmt
  <2>4. LockHolds'
    BY <1>10 DEF AcctMgmt
  <2>5. SignalsHandled'
    BY <1>10 DEF AcctMgmt
  <2>6. Front'
    BY <1>10 DEF AcctMgmt
  <2> QED
    BY <2>1, <2>2, <2>3, <2>4, <2>5, <2>6
<1>11. CASE Chauthtok
  <2>1. LockTypeOK'
    BY <1>11 DEF Chauthtok
  <2>2. Control'
    BY <1>11 DEF Chauthtok
  <2>3. Screen'
    BY <1>11 DEF Chauthtok
  <2>4. LockHolds'
    BY <1>11 DEF Chauthtok
  <2>5. SignalsHandled'
    BY <1>11 DEF Chauthtok
  <2>6. Front'
    BY <1>11 DEF Chauthtok
  <2> QED
    BY <2>1, <2>2, <2>3, <2>4, <2>5, <2>6
<1>12. CASE Setcred
  <2>1. LockTypeOK'
    BY <1>12 DEF Setcred
  <2>2. Control'
    BY <1>12 DEF Setcred
  <2>3. Screen'
    BY <1>12 DEF Setcred
  <2>4. LockHolds'
    BY <1>12 DEF Setcred
  <2>5. SignalsHandled'
    BY <1>12 DEF Setcred
  <2>6. Front'
    BY <1>12 DEF Setcred
  <2> QED
    BY <2>1, <2>2, <2>3, <2>4, <2>5, <2>6
<1>13. CASE RestoreScreen
  <2>1. LockTypeOK'
    BY <1>13 DEF RestoreScreen
  <2>2. Control'
    BY <1>13 DEF RestoreScreen
  <2>3. Screen'
    BY <1>13 DEF RestoreScreen
  <2>4. LockHolds'
    BY <1>13 DEF RestoreScreen
  <2>5. SignalsHandled'
    BY <1>13 DEF RestoreScreen
  <2>6. Front'
    BY <1>13 DEF RestoreScreen
  <2> QED
    BY <2>1, <2>2, <2>3, <2>4, <2>5, <2>6
<1>14. CASE RestoreVtMode
  <2>1. LockTypeOK'
    BY <1>14 DEF RestoreVtMode
  <2>2. Control'
    BY <1>14 DEF RestoreVtMode
  <2>3. Screen'
    BY <1>14 DEF RestoreVtMode
  <2>4. LockHolds'
    BY <1>14 DEF RestoreVtMode
  <2>5. SignalsHandled'
    BY <1>14 DEF RestoreVtMode
  <2>6. Front'
    BY <1>14 DEF RestoreVtMode
  <2> QED
    BY <2>1, <2>2, <2>3, <2>4, <2>5, <2>6
<1>15. CASE ChangeConsole
  <2>1. LockTypeOK'
    <3>1. active' \in VT /\ releasing' \in VT \union {0} /\ vtmode' \in {"AUTO", "PROCESS"}
      BY <1>15 DEF ChangeConsole
    <3>2. signals' \subseteq {"USR1", "USR2"} /\ wants' = 0
      BY <1>15 DEF ChangeConsole
    <3> QED
      BY <1>15, <3>1, <3>2 DEF ChangeConsole
  <2>2. Control'
    BY <1>15 DEF ChangeConsole
  <2>3. Screen'
    BY <1>15 DEF ChangeConsole
  <2>4. LockHolds'
    BY <1>15 DEF ChangeConsole
  <2>5. SignalsHandled'
    BY <1>15 DEF ChangeConsole
  <2>6. Front'
    <3>1. ~Dead' /\ vtmode' = "AUTO" => signals' = {}
      BY <1>15 DEF ChangeConsole
    <3>2. "USR2" \in signals' /\ ~Dead' => active' = Ours
      BY <1>15 DEF ChangeConsole
    <3>3. hold' = "front" /\ ~Dead' => active' = Ours /\ "USR2" \notin signals'
      BY <1>15 DEF ChangeConsole
    <3>4. at' \in Before \union {"set_mode"} => hold' = "none"
      BY <1>15 DEF ChangeConsole
    <3>5. hold' # "none" /\ ~Dead' => vtmode' = "PROCESS"
      BY <1>15 DEF ChangeConsole
    <3> QED
      BY <3>1, <3>2, <3>3, <3>4, <3>5
  <2> QED
    BY <2>1, <2>2, <2>3, <2>4, <2>5, <2>6
<1>16. CASE DeliverUSR1
  BY <1>16 DEF DeliverUSR1, release_vt, VT_RELDISP
<1>17. CASE DeliverUSR2
  BY <1>17 DEF DeliverUSR2, acquire_vt, VT_RELDISP, VT_ACKACQ
<1>18. ASSUME NEW v \in VT, SwitchRequest(v) PROVE LockInv'
  BY <1>18 DEF SwitchRequest
<1>19. CASE LoseTty
  <2>1. LockTypeOK'
    <3>1. tty' \in BOOLEAN
      BY <1>19 DEF LoseTty
    <3>2. UNCHANGED <<switching, vtmode, screen, at, setup, screen_buf, pamh, passed, hold>>
      BY <1>19 DEF LoseTty
    <3> QED
      BY <3>1, <3>2
  <2>2. Control'
    BY <1>19 DEF LoseTty
  <2>3. Screen'
    BY <1>19 DEF LoseTty
  <2>4. LockHolds'
    BY <1>19 DEF LoseTty
  <2>5. SignalsHandled'
    BY <1>19 DEF LoseTty
  <2>6. Front'
    BY <1>19 DEF LoseTty
  <2> QED
    BY <2>1, <2>2, <2>3, <2>4, <2>5, <2>6
<1>20. CASE Kill
  BY <1>20 DEF Kill
<1>21. CASE UNCHANGED lockvars
  BY <1>21
<1> QED
  BY <1>1, <1>2, <1>3, <1>4, <1>5, <1>6, <1>7, <1>8, <1>9, <1>10, <1>11, <1>12, <1>13, <1>14,
     <1>15, <1>16, <1>17, <1>18, <1>19, <1>20, <1>21 DEF LockNext, LockMain, Kernel

(* The inductive invariant.                                                *)
THEOREM LockInductive == LockSpec => []LockInv
  BY InitLockInv, NextLockInv, PTL DEF LockSpec

(* The console vlock -a locks stays in front: no interleaving of switch    *)
(* requests, signals and PAM answers shows another one until restore_vt,   *)
(* unless the console had to be brought to the front and acquire_vt        *)
(* acknowledged that while a release waited.                               *)
THEOREM ConsoleStaysLocked == LockSpec => []LockHolds
<1>1. LockInv => LockHolds
  BY DEF LockInv
<1> QED
  BY <1>1, LockInductive, PTL

(* However vlock ends by itself, switching, the kernel's wait and the      *)
(* screen are as before.                                                   *)
THEOREM GivesVtBack == LockSpec => []ConsoleBack
<1>1. LockInv => ConsoleBack
  BY DEF LockInv, LockTypeOK, Control, Screen, ConsoleBack, Controls, Locked
<1> QED
  BY <1>1, LockInductive, PTL

(* vlock is never killed by a signal of its own set-up, and keeps its PAM  *)
(* handle while it uses it.                                                *)
THEOREM SetUpIsSafe == LockSpec => [](LockTypeOK /\ SignalsHandled)
<1>1. LockInv => LockTypeOK /\ SignalsHandled
  BY DEF LockInv
<1> QED
  BY <1>1, LockInductive, PTL

(* What the PAM calls of a try have answered when the next one is made.    *)
Tried ==
    /\ at \in {"acct_mgmt", "chauthtok"} => passed = {"authenticate"}
    /\ at = "setcred" => passed = {"authenticate", "account"}

LEMMA NextTried == LockInv /\ Tried /\ [LockNext]_lockvars => Tried'
<1> SUFFICES ASSUME LockInv, Tried, [LockNext]_lockvars PROVE Tried'
  OBVIOUS
<1> USE DEF Tried, Dead, setup, switching, GiveUp, LoseHandle, Unlock, AccountCall
<1>1. CASE InitPam \/ OpenVt \/ MaskSignals \/ SetVtMode \/ InitScreen
  BY <1>1 DEF InitPam, OpenVt, MaskSignals, SetVtMode, InitScreen
<1>2. CASE Activate \/ WaitActive
  BY <1>2 DEF Activate, WaitActive, ActivateFail, VT_SETMODE
<1>3. CASE NewHandle
  BY <1>3 DEF NewHandle
<1>4. CASE Authenticate
  BY <1>4 DEF Authenticate
<1>5. CASE AcctMgmt
  BY <1>5 DEF AcctMgmt
<1>6. CASE Chauthtok
  BY <1>6 DEF Chauthtok
<1>7. CASE Setcred
  BY <1>7 DEF Setcred
<1>8. CASE RestoreScreen \/ RestoreVtMode
  BY <1>8 DEF RestoreScreen, RestoreVtMode
<1>9. CASE Kernel
  BY <1>9 DEF Kernel, ChangeConsole, DeliverUSR1, DeliverUSR2
<1>10. CASE (\E v \in VT : SwitchRequest(v)) \/ LoseTty \/ Kill
  BY <1>10 DEF SwitchRequest, LoseTty, Kill
<1>11. CASE UNCHANGED lockvars
  BY <1>11 DEF lockvars
<1> QED
  BY <1>1, <1>2, <1>3, <1>4, <1>5, <1>6, <1>7, <1>8, <1>9, <1>10, <1>11 DEF LockNext, LockMain

(* The lock ends by the password: a step to restore_vt is the pam_setcred  *)
(* of a try in which authentication and account succeeded before, or an    *)
(* answer that came when stdin was no terminal any more (EndsByPassword).  *)
THEOREM LockEndsByPassword == LockSpec => EndsByPassword
<1>1. LockInit => Tried
  BY DEF LockInit, Tried
<1>2. Tried /\ [LockNext]_lockvars =>
          [at' = "restore_screen" /\ at # at' =>
              passed' = {"authenticate", "account", "setcred"} \/ ~tty]_lockvars
  <2> SUFFICES ASSUME Tried, LockNext, at' = "restore_screen", at # at'
               PROVE  passed' = {"authenticate", "account", "setcred"} \/ ~tty
    OBVIOUS
  <2> USE DEF Dead, setup, switching, GiveUp, LoseHandle, Unlock, AccountCall
  <2>1. ~(InitPam \/ OpenVt \/ MaskSignals \/ SetVtMode \/ Activate \/ WaitActive \/ InitScreen)
    BY DEF InitPam, OpenVt, MaskSignals, SetVtMode, Activate, WaitActive, ActivateFail, InitScreen
  <2>2. ~(NewHandle \/ AcctMgmt \/ Chauthtok \/ RestoreScreen \/ RestoreVtMode)
    BY DEF NewHandle, AcctMgmt, Chauthtok, RestoreScreen, RestoreVtMode
  <2>3. ~Kernel /\ ~(\E v \in VT : SwitchRequest(v)) /\ ~LoseTty /\ ~Kill
    BY DEF Kernel, ChangeConsole, DeliverUSR1, DeliverUSR2, SwitchRequest, LoseTty, Kill
  <2>4. CASE Authenticate
    BY <2>4 DEF Authenticate
  <2>5. CASE Setcred
    BY <2>5 DEF Setcred, Tried
  <2> QED
    BY <2>1, <2>2, <2>3, <2>4, <2>5 DEF LockNext, LockMain
<1> QED
  BY <1>1, <1>2, InitLockInv, NextLockInv, NextTried, PTL DEF LockSpec, EndsByPassword

=============================================================================
