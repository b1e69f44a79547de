------------------------------- MODULE VLock --------------------------------
(***************************************************************************)
(* vlock (src/src/vlock): lock this virtual console, or with -a all of     *)
(* them by taking control of VT switching: main (vlock.c), init_vt and     *)
(* restore_vt with their signal handlers (vt.c), the screen (screen.c) and *)
(* the password loop (auth.c, pam.c).                                      *)
(*                                                                         *)
(* The kernel's part, VT switching, is modelled as far as vlock relies on  *)
(* it: a request to leave a VT in VT_PROCESS mode becomes a signal to the  *)
(* process, and waits for its VT_RELDISP.                                  *)
(***************************************************************************)
EXTENDS Naturals

CONSTANTS VT, Ours      \* the virtual consoles, and the one vlock runs on

ASSUME VTAssumption == VT \subseteq Nat \ {0} /\ Ours \in VT

VARIABLES
    active,         \* kernel: the VT on the screen
    vtmode,         \* kernel: "AUTO" or "PROCESS", of Ours
    wants,          \* kernel: the VT asked for, 0 when none
    releasing,      \* kernel: the VT that waits for VT_RELDISP, 0 when none
    signals,        \* pending signals
    screen,         \* what Ours shows
    tty,            \* stdin is a terminal
    at,             \* where main is
    handlers,       \* mask_signals has run
    o_lock_all, is_vt,
    screen_buf,     \* the screen is saved
    pamh,           \* "none", "open" or "ended"
    passed,         \* history: the PAM calls that succeeded in this try
    hold            \* history: how Ours came to be in front: "front" when there is nothing more
                    \* to acknowledge, "given" when acquire_vt gave it away, else "none"

lockvars == <<active, vtmode, wants, releasing, signals, screen, tty, at, handlers,
              o_lock_all, is_vt, screen_buf, pamh, passed, hold>>
switching == <<active, wants, releasing, signals>>
setup == <<handlers, o_lock_all, is_vt>>

Dead == at \in {"exit", "killed"}

LockInit ==
    /\ active \in VT
    /\ vtmode = "AUTO"
    /\ wants = 0 /\ releasing = 0 /\ signals = {}
    /\ screen = "session"
    /\ tty = TRUE
    /\ at = "init_pam"
    /\ handlers = FALSE
    /\ o_lock_all \in BOOLEAN
    /\ is_vt = FALSE
    /\ screen_buf = FALSE
    /\ pamh = "none"
    /\ passed = {}
    /\ hold = "none"

-----------------------------------------------------------------------------
(* The kernel and the user (external).                                     *)

(* Alt-Fn or chvt: another VT is asked for.                                *)
SwitchRequest(v) ==
    /\ v \notin {active, wants}
    /\ wants' = v
    /\ UNCHANGED <<active, vtmode, releasing, signals, screen, tty, at, setup, screen_buf, pamh, passed, hold>>

(* change_console: a VT in process mode is asked, any other VT is left.    *)
(* A dead process loses the control.                                       *)
ChangeConsole ==
    /\ wants # 0 /\ wants' = 0
    /\ IF wants = active THEN UNCHANGED <<active, vtmode, releasing, signals>>
       ELSE IF active = Ours /\ vtmode = "PROCESS" /\ ~Dead
       THEN /\ releasing' = wants
            /\ signals' = signals \union {"USR1"}
            /\ UNCHANGED <<active, vtmode>>
       ELSE /\ active' = wants
            /\ releasing' = 0
            /\ vtmode' = IF active = Ours /\ Dead THEN "AUTO" ELSE vtmode
            /\ signals' = IF wants = Ours /\ vtmode = "PROCESS" /\ ~Dead THEN signals \union {"USR2"} ELSE signals
    /\ UNCHANGED <<screen, tty, at, setup, screen_buf, pamh, passed, hold>>

(* VT_SETMODE of m on Ours; what waited for VT_RELDISP is forgotten.       *)
VT_SETMODE(m) == vtmode' = m /\ releasing' = 0

(* The terminal of stdin goes away.                                        *)
LoseTty ==
    /\ tty /\ tty' = FALSE
    /\ UNCHANGED <<switching, vtmode, screen, at, setup, screen_buf, pamh, passed, hold>>

(* SIGKILL from elsewhere, at any time.                                    *)
Kill ==
    /\ ~Dead
    /\ at' = "killed"
    /\ UNCHANGED <<switching, vtmode, screen, tty, setup, screen_buf, pamh, passed, hold>>

-----------------------------------------------------------------------------
(* The signal handlers.                                                    *)

(* VT_RELDISP (external): 0 refuses a release that waits, anything else    *)
(* completes it; when none waits there is nothing to do.                   *)
VT_RELDISP(answer) ==
    /\ active' = IF releasing # 0 /\ answer # 0 THEN releasing ELSE active
    /\ releasing' = 0

VT_ACKACQ == 2

(* Mutant: the handler leaves the kernel waiting.                          *)
release_vt_Silent == UNCHANGED <<active, releasing>>

(* The kernel is not allowed to switch.                                    *)
release_vt == VT_RELDISP(0)

(* The acquisition is acknowledged.  The two handlers do not mask each     *)
(* other, and a release may wait by now.                                   *)
acquire_vt == VT_RELDISP(VT_ACKACQ)

(* SIGUSR1; before mask_signals it ends the program.                       *)
DeliverUSR1 ==
    /\ "USR1" \in signals /\ ~Dead
    /\ signals' = signals \ {"USR1"}
    /\ IF handlers THEN release_vt /\ UNCHANGED at
       ELSE at' = "killed" /\ UNCHANGED <<active, releasing>>
    /\ UNCHANGED <<vtmode, wants, screen, tty, setup, screen_buf, pamh, passed, hold>>

(* SIGUSR2.                                                                *)
DeliverUSR2 ==
    /\ "USR2" \in signals /\ ~Dead
    /\ signals' = signals \ {"USR2"}
    /\ IF handlers THEN acquire_vt /\ UNCHANGED at
       ELSE at' = "killed" /\ UNCHANGED <<active, releasing>>
    /\ hold' = IF releasing = 0 THEN "front" ELSE "given"
    /\ UNCHANGED <<vtmode, wants, screen, tty, setup, screen_buf, pamh, passed>>

-----------------------------------------------------------------------------
(* main and init_vt.                                                       *)

(* init_pam.                                                               *)
InitPam ==
    /\ at = "init_pam"
    /\ \/ pamh' = "open" /\ at' = "init_vt"
       \/ at' = "exit" /\ UNCHANGED pamh
    /\ UNCHANGED <<switching, vtmode, screen, tty, setup, screen_buf, passed, hold>>

(* init_vt returned 0.                                                     *)
GiveUp == pamh' = "ended" /\ at' = "exit"

(* init_vt up to mask_signals: /dev/tty, and whether it is a VT.           *)
OpenVt ==
    /\ at = "init_vt"
    /\ \/ GiveUp /\ UNCHANGED <<is_vt, o_lock_all>>
       \/ o_lock_all /\ is_vt' = FALSE /\ o_lock_all' = FALSE /\ GiveUp
       \/ /\ is_vt' \in BOOLEAN /\ (o_lock_all => is_vt')
          /\ at' = "mask_signals"
          /\ UNCHANGED <<pamh, o_lock_all>>
    /\ UNCHANGED <<switching, vtmode, screen, tty, handlers, screen_buf, passed, hold>>

(* Mutant: the mode is set first.                                          *)
MaskSignalsLate ==
    /\ at = "mask_signals"
    /\ at' = IF o_lock_all THEN "set_mode" ELSE "screen"
    /\ UNCHANGED <<switching, vtmode, screen, tty, setup, screen_buf, pamh, passed, hold>>

MaskSignals ==
    /\ at = "mask_signals"
    /\ handlers' = TRUE
    /\ at' = IF o_lock_all THEN "set_mode" ELSE "screen"
    /\ UNCHANGED <<switching, vtmode, screen, tty, o_lock_all, is_vt, screen_buf, pamh, passed, hold>>

(* TIOCGDEV and VT_SETMODE: process controls switching.                    *)
SetVtMode ==
    /\ at = "set_mode"
    /\ \/ GiveUp /\ UNCHANGED <<vtmode, releasing, hold>>
       \/ /\ VT_SETMODE("PROCESS") /\ at' = "activate" /\ UNCHANGED pamh
          /\ hold' = IF active = Ours THEN "front" ELSE "none"
    /\ UNCHANGED <<active, wants, signals, screen, tty, setup, screen_buf, passed>>

(* Mutant: the mode stays.                                                 *)
ActivateFailKeeps == UNCHANGED <<vtmode, releasing>> /\ GiveUp

(* activate_fail: the old mode is put back.                                *)
ActivateFail == VT_SETMODE("AUTO") /\ GiveUp

(* VT_ACTIVATE of our VT.                                                  *)
Activate ==
    /\ at = "activate"
    /\ \/ ActivateFail /\ UNCHANGED wants
       \/ /\ wants' = Ours
          /\ at' = "wait_active"
          /\ UNCHANGED <<vtmode, releasing, pamh>>
    /\ UNCHANGED <<active, signals, screen, tty, setup, screen_buf, passed, hold>>

(* Mutant: the switch is not waited for.                                   *)
WaitActiveNot ==
    /\ at = "wait_active"
    /\ at' = "screen"
    /\ UNCHANGED <<switching, vtmode, screen, tty, setup, screen_buf, pamh, passed, hold>>

(* VT_WAITACTIVE, repeated after a signal.                                 *)
WaitActive ==
    /\ at = "wait_active"
    /\ \/ ActivateFail
       \/ active = Ours /\ at' = "screen" /\ UNCHANGED <<vtmode, releasing, pamh>>
    /\ UNCHANGED <<active, wants, signals, screen, tty, setup, screen_buf, passed, hold>>

(* init_screen: save the screen if /dev/vcsa lets it, and clear it.        *)
InitScreen ==
    /\ at = "screen"
    /\ IF is_vt THEN screen' = "cleared" /\ screen_buf' \in BOOLEAN
       ELSE UNCHANGED <<screen, screen_buf>>
    /\ at' = "locked"
    /\ UNCHANGED <<switching, vtmode, tty, setup, pamh, passed, hold>>

-----------------------------------------------------------------------------
(* get_password.                                                           *)

(* A handle for the next try; when there is none, the loop goes on.        *)
NewHandle ==
    /\ at = "locked" /\ pamh # "open"
    /\ pamh' = "open"
    /\ UNCHANGED <<switching, vtmode, screen, tty, at, setup, screen_buf, passed, hold>>

(* The try is over and the handle lost; the loop goes on.                  *)
LoseHandle == pamh' = "ended" /\ at' = "locked"

Unlock == pamh' = "ended" /\ at' = "restore_screen"

(* pam_authenticate: success, then the account; PAM_MAXTRIES or PAM_ABORT  *)
(* cost the handle; any other error is a new try, or the end when stdin    *)
(* is no terminal.                                                         *)
Authenticate ==
    /\ at = "locked" /\ pamh = "open"
    /\ \/ passed' = {"authenticate"} /\ at' = "acct_mgmt" /\ UNCHANGED pamh
       \/ LoseHandle /\ passed' = {}
       \/ tty /\ passed' = {} /\ UNCHANGED <<at, pamh>>
       \/ ~tty /\ Unlock /\ passed' = {}
    /\ UNCHANGED <<switching, vtmode, screen, tty, setup, screen_buf, hold>>

(* One call of do_account_password_management: it succeeds and the next    *)
(* one is made, or its error ends the try.                                 *)
AccountCall(call, next) ==
    \/ passed' = passed \union {call} /\ next
    \/ LoseHandle /\ UNCHANGED passed

(* pam_acct_mgmt, which may ask for a new password.                        *)
AcctMgmt ==
    /\ at = "acct_mgmt"
    /\ \/ AccountCall("account", at' = "setcred" /\ UNCHANGED pamh)
       \/ at' = "chauthtok" /\ UNCHANGED <<pamh, passed>>
    /\ UNCHANGED <<switching, vtmode, screen, tty, setup, screen_buf, hold>>

(* Mutant: the old password that should have been changed is good enough.  *)
ChauthtokAny ==
    /\ at = "chauthtok"
    /\ passed' \in {passed, passed \union {"account"}}
    /\ at' = "setcred"
    /\ UNCHANGED <<switching, vtmode, screen, tty, setup, screen_buf, pamh, hold>>

(* pam_chauthtok.                                                          *)
Chauthtok ==
    /\ at = "chauthtok"
    /\ AccountCall("account", at' = "setcred" /\ UNCHANGED pamh)
    /\ UNCHANGED <<switching, vtmode, screen, tty, setup, screen_buf, hold>>

(* pam_setcred.                                                            *)
Setcred ==
    /\ at = "setcred"
    /\ AccountCall("setcred", Unlock)
    /\ UNCHANGED <<switching, vtmode, screen, tty, setup, screen_buf, hold>>

(* restore_vt: the screen, if it was saved, and the mode.                  *)
RestoreScreen ==
    /\ at = "restore_screen"
    /\ screen' = IF is_vt /\ screen_buf THEN "session" ELSE screen
    /\ at' = IF is_vt /\ o_lock_all THEN "restore_mode" ELSE "exit"
    /\ UNCHANGED <<switching, vtmode, tty, setup, screen_buf, pamh, passed, hold>>

RestoreVtMode ==
    /\ at = "restore_mode"
    /\ VT_SETMODE("AUTO")
    /\ at' = "exit"
    /\ UNCHANGED <<active, wants, signals, screen, tty, setup, screen_buf, pamh, passed, hold>>

LockMain ==
    \/ InitPam \/ OpenVt \/ MaskSignals \/ SetVtMode \/ Activate \/ WaitActive \/ InitScreen
    \/ NewHandle \/ Authenticate \/ AcctMgmt \/ Chauthtok \/ Setcred
    \/ RestoreScreen \/ RestoreVtMode

Kernel == ChangeConsole \/ DeliverUSR1 \/ DeliverUSR2

LockNext == LockMain \/ Kernel \/ (\E v \in VT : SwitchRequest(v)) \/ LoseTty \/ Kill

LockSpec == LockInit /\ [][LockNext]_lockvars

(* The kernel acts on requests and delivers signals; the user and the PAM  *)
(* modules need do nothing.                                                *)
FairLockSpec == LockSpec /\ WF_lockvars(ChangeConsole) /\ WF_lockvars(DeliverUSR1) /\ WF_lockvars(DeliverUSR2)

-----------------------------------------------------------------------------
(* Properties                                                              *)

(* From init_screen to restore_screen.                                     *)
Locked == {"screen", "locked", "acct_mgmt", "chauthtok", "setcred", "restore_screen"}

(* The shape of the state. A PAM handle is open exactly while a PAM call   *)
(* may use it: no call on a handle that pam_end freed, none left open at   *)
(* the exit.                                                               *)
LockTypeOK ==
    /\ active \in VT /\ wants \in VT \union {0} /\ releasing \in VT \union {0}
    /\ vtmode \in {"AUTO", "PROCESS"}
    /\ signals \subseteq {"USR1", "USR2"}
    /\ screen \in {"session", "cleared"} /\ tty \in BOOLEAN
    /\ at \in {"init_pam", "init_vt", "mask_signals", "set_mode", "activate", "wait_active",
              "restore_mode", "exit", "killed"} \union Locked
    /\ handlers \in BOOLEAN /\ o_lock_all \in BOOLEAN /\ is_vt \in BOOLEAN
    /\ screen_buf \in BOOLEAN
    /\ passed \subseteq {"authenticate", "account", "setcred"}
    /\ hold \in {"none", "front", "given"}
    /\ pamh \in {"none", "open", "ended"}
    /\ at \in {"acct_mgmt", "chauthtok", "setcred"} => pamh = "open"
    /\ at = "exit" => pamh # "open"

(* vlock.1: "Lock all console sessions and disable VC switching.": from    *)
(* the moment init_vt has its VT in front to the moment restore_vt gives   *)
(* switching back, this VT is on the screen, whatever switches were asked  *)
(* for before and meanwhile, with one exception: it had to be brought to   *)
(* the front, and acquire_vt met a release that waited.  A VT that was in  *)
(* front at VT_SETMODE, or whose acquisition is acknowledged, stays.       *)
LockHolds == o_lock_all /\ at \in Locked /\ hold # "given" => active = Ours

(* The program ends by its own means only with VT switching given back,    *)
(* the kernel waiting for no answer of its, and with the session's screen, *)
(* if init_screen could save it.                                           *)
ConsoleBack ==
    at = "exit" => /\ vtmode = "AUTO" /\ releasing = 0
                   /\ screen_buf => screen = "session"

(* The kernel never signals a process that has no handler yet: SIGUSR1     *)
(* without one would kill the lock while it is set up.                     *)
SignalsHandled == signals # {} /\ ~Dead => handlers

(* get_password returns only when authentication, account and credentials  *)
(* all succeeded in one try, or when stdin is no terminal any more.        *)
EndsByPassword ==
    [][at' = "restore_screen" /\ at # at' =>
          passed' = {"authenticate", "account", "setcred"} \/ ~tty]_lockvars

(* While vlock lives, a release request the kernel sends it is answered,   *)
(* whatever vlock is doing: no VT_RELDISP is waited for for ever.          *)
RequestAnswered == (releasing # 0) ~> (releasing = 0 \/ Dead)
=============================================================================
