------------------------------- MODULE OpenVt -------------------------------
(***************************************************************************)
(* openvt, chvt and deallocvt over the kernel's consoles (openvt.c,        *)
(* chvt.c, deallocvt.c).                                                   *)
(*                                                                         *)
(* An openvt is a main process and, unless -e is given, a child that       *)
(* becomes the command.  Both switch consoles with the loop of change_vt,  *)
(* which is also the body of chvt.  Between any two system calls other     *)
(* processes, the user at the keyboard and the kernel's own switch run.    *)
(***************************************************************************)
EXTENDS Naturals, FiniteSets, FiniteSetsExt

CONSTANTS
    Proc,           \* the programs started
    Limit,          \* consoles below it have a bit in v_state (16 in the kernel)
    LastVt,         \* the consoles are 1 .. LastVt
    Commands,       \* command lines: functions from Proc to Command
    Owners,         \* who may own the console devices at first
    TimerId,        \* the id the kernel gives a process's first timer
    MaxSwitches     \* bound: switches asked for at the keyboard

VT == 1 .. LastVt
Option == {"console", "force", "exec", "switch", "wait", "user"}
User == {"root", "user"}
Command == [prog : {"openvt", "chvt", "deallocvt"}, opt : SUBSET Option, vt : 0 .. LastVt,
            caller : User,          \* the real user
            euid : User,            \* root for a setuid program
            leader : BOOLEAN]       \* may it take a controlling terminal (as init's children)
NoOne == "no one"
Login == "login"            \* the session that is logged in on VT 1

ASSUME OpenVtAssumption ==
    /\ Limit \in Nat /\ LastVt \in Nat \ {0} /\ TimerId \in Nat /\ MaxSwitches \in Nat
    /\ NoOne \notin Proc /\ Login \notin Proc /\ NoOne # Login
    /\ Commands \subseteq [Proc -> Command]
    /\ \A c \in Commands : \A p \in Proc : "console" \in c[p].opt => c[p].vt # 0   \* -c checks its argument
    /\ Owners \subseteq [VT -> User]

VARIABLES
    fg, want,       \* the console in front; the one a switch is asked for, or 0
    opens,          \* for each console, who has it open
    session,        \* for each console, the session it controls
    alloc,          \* the allocated consoles
    owner,          \* for each console, the owner of its device
    cmd,            \* the command lines
    euid,           \* effective users
    pc, cpc,        \* where main and the child (or -e's command) are
    vtstat,         \* what VT_GETSTATE answered
    vtno, cvt,      \* vtno of main and of the child
    name,           \* the user that authenticate_user returns
    status, ret,    \* the command's exit code; main's
    switches        \* switches at the keyboard so far

kernel == <<fg, want, opens, session, alloc, owner>>
local == <<euid, vtstat, vtno, cvt, name>>
ends == <<status, ret>>
vars == <<cmd, kernel, local, ends, pc, cpc, switches>>

Has(p, o) == o \in cmd[p].opt
Goto(p, where) == pc' = [pc EXCEPT ![p] = where]
ChildGoto(p, where) == cpc' = [cpc EXCEPT ![p] = where]
Exit(p, code) == Goto(p, "exit") /\ ret' = [ret EXCEPT ![p] = code]

-----------------------------------------------------------------------------
(* What the kernel does.                                                   *)

InUse == {v \in VT : opens[v] # {}}
Busy(v) == v \in InUse \/ v = fg
May(u, v) == u = "root" \/ owner[v] = u
Reached(S) == S \ {v \in S : Busy(v) \/ v = 1}

(* What main switches to: chvt's argument, or the console that was in      *)
(* front when openvt started.                                              *)
Target(p) == IF cmd[p].prog = "chvt" THEN cmd[p].vt ELSE vtstat[p].active

Init ==
    /\ fg = 1 /\ want = 0
    /\ opens = [v \in VT |-> IF v = 1 THEN {Login} ELSE {}]
    /\ session = [v \in VT |-> IF v = 1 THEN Login ELSE NoOne]
    /\ alloc = {1}
    /\ owner \in Owners
    /\ cmd \in Commands
    /\ euid = [p \in Proc |-> cmd[p].euid]
    /\ pc = [p \in Proc |-> "start"]
    /\ cpc = [p \in Proc |-> "none"]
    /\ vtstat = [p \in Proc |-> [active |-> 0, state |-> {}]]
    /\ vtno = [p \in Proc |-> 0] /\ cvt = [p \in Proc |-> 0]
    /\ name = [p \in Proc |-> NoOne]
    /\ status = [p \in Proc |-> 0] /\ ret = [p \in Proc |-> 0]
    /\ switches = 0

(* The console driver's own switch: who waits for this console is woken; a *)
(* request for a console that is gone is dropped.                          *)
Woken(at, targets) ==
    [p \in Proc |-> IF at[p] = "blocked" /\ targets[p] = want THEN "switched" ELSE at[p]]

Switch ==
    /\ want # 0
    /\ want' = 0
    /\ IF want \in alloc
       THEN /\ fg' = want
            /\ pc' = Woken(pc, [p \in Proc |-> Target(p)])
            /\ cpc' = Woken(cpc, cvt)
       ELSE UNCHANGED <<fg, pc, cpc>>
    /\ UNCHANGED <<opens, session, alloc, owner, cmd, local, ends, switches>>

(* The user switches at the keyboard, over a request not yet carried out.  *)
Keyboard(v) ==
    /\ switches < MaxSwitches /\ v \in alloc
    /\ want' = v
    /\ switches' = switches + 1
    /\ UNCHANGED <<fg, opens, session, alloc, owner, cmd, local, ends, pc, cpc>>

(* The user on VT 1 logs out.                                              *)
Logout ==
    /\ session[1] = Login
    /\ opens' = [opens EXCEPT ![1] = @ \ {Login}]
    /\ session' = [session EXCEPT ![1] = NoOne]
    /\ owner' = [owner EXCEPT ![1] = "root"]
    /\ UNCHANGED <<fg, want, alloc, cmd, local, ends, pc, cpc, switches>>

-----------------------------------------------------------------------------
(* openvt, main up to the fork                                             *)

(* Options, getfd and VT_GETSTATE; -c gives up a setuid bit, -u is root's. *)
GetState(p) ==
    /\ pc[p] = "start" /\ cmd[p].prog = "openvt"
    /\ IF Has(p, "user") /\ cmd[p].caller # "root"
       THEN Exit(p, 1) /\ UNCHANGED <<euid, vtstat>>
       ELSE /\ Goto(p, "pick")
            /\ vtstat' = [vtstat EXCEPT ![p] =
                            [active |-> fg, state |-> {v \in InUse : v < Limit}]]
            /\ euid' = [euid EXCEPT ![p] = IF Has(p, "console") THEN cmd[p].caller ELSE @]
            /\ UNCHANGED ret
    /\ UNCHANGED <<cmd, kernel, vtno, cvt, name, status, cpc, switches>>

(* A given console that is not known to be free is refused.                *)
Refused(p, v) == ~Has(p, "force") /\ (v >= Limit \/ v \in vtstat[p].state)

AfterPick(p) == Goto(p, IF Has(p, "user") THEN "authenticate" ELSE "fork")

(* VT_OPENQRY, or the test of the console given with -c.                   *)
Pick(p) ==
    /\ pc[p] = "pick"
    /\ \/ /\ ~Has(p, "console") /\ InUse # VT
          /\ vtno' = [vtno EXCEPT ![p] = Min(VT \ InUse)]
          /\ AfterPick(p) /\ UNCHANGED ret
       \/ ~Has(p, "console") /\ InUse = VT /\ Exit(p, 3) /\ UNCHANGED vtno
       \/ /\ Has(p, "console") /\ ~Refused(p, cmd[p].vt)
          /\ vtno' = [vtno EXCEPT ![p] = cmd[p].vt]
          /\ AfterPick(p) /\ UNCHANGED ret
       \/ Has(p, "console") /\ Refused(p, cmd[p].vt) /\ Exit(p, 7) /\ UNCHANGED vtno
    /\ UNCHANGED <<cmd, kernel, euid, vtstat, cvt, name, status, cpc, switches>>

(* authenticate_user refuses root.                                         *)
Acceptable(u) == u # "root"

(* authenticate_user: the owner of the console that was in front.          *)
StatTty(p) ==
    /\ pc[p] = "authenticate"
    /\ LET u == owner[vtstat[p].active] IN
       IF Acceptable(u)
       THEN Goto(p, "scan") /\ name' = [name EXCEPT ![p] = u] /\ UNCHANGED ret
       ELSE Exit(p, 1) /\ UNCHANGED name
    /\ UNCHANGED <<cmd, kernel, euid, vtstat, vtno, cvt, status, cpc, switches>>

(* ... who must have a process on it when /proc is read (those of the      *)
(* login belong to the owner of its terminal).                             *)
ScanProc(p) ==
    /\ pc[p] = "scan"
    /\ LET h == session[vtstat[p].active] IN
       IF (h = Login /\ name[p] = owner[1]) \/ (h \in Proc /\ euid[h] = name[p])
       THEN Goto(p, "fork") /\ UNCHANGED ret
       ELSE Exit(p, 1)
    /\ UNCHANGED <<cmd, kernel, local, status, cpc, switches>>

(* The child makes a session of its own; with -e main becomes the command. *)
Fork(p) ==
    /\ pc[p] = "fork"
    /\ \/ /\ Has(p, "exec")
          /\ Goto(p, "replaced") /\ UNCHANGED ret
          /\ ChildGoto(p, "open")
       \/ /\ ~Has(p, "exec")
          /\ ChildGoto(p, "open")
          /\ IF Has(p, "wait") THEN Goto(p, "wait") /\ UNCHANGED ret ELSE Exit(p, 0)
       \/ ~Has(p, "exec") /\ Exit(p, 6) /\ UNCHANGED cpc
    /\ cvt' = [cvt EXCEPT ![p] = vtno[p]]
    /\ UNCHANGED <<cmd, kernel, euid, vtstat, vtno, name, status, switches>>

-----------------------------------------------------------------------------
(* openvt, the child                                                       *)

(* The child has made a session of its own.                                *)
Leader(p) == ~Has(p, "exec") \/ cmd[p].leader

Closed(p) == [v \in VT |-> opens[v] \ {p}]
Released(p) == [v \in VT |-> IF session[v] = p THEN NoOne ELSE session[v]]

(* The end of the child or of the command: its terminal is released.       *)
ChildExit(p, code) ==
    /\ ChildGoto(p, "ended")
    /\ status' = [status EXCEPT ![p] = code]
    /\ opens' = Closed(p) /\ session' = Released(p)

(* The consoles the child may still try: free when VT_GETSTATE was asked.  *)
Others(p) == IF Has(p, "console") THEN {}
             ELSE {v \in VT : v > cvt[p] /\ v < Limit /\ v \notin vtstat[p].state}

(* open_vt failed: another console, or the end.                            *)
TryNext(p) ==
    IF Others(p) # {}
    THEN /\ cvt' = [cvt EXCEPT ![p] = Min(Others(p))]
         /\ ChildGoto(p, "open")
         /\ opens' = Closed(p) /\ UNCHANGED <<session, status>>
    ELSE ChildExit(p, 5) /\ UNCHANGED cvt

(* open_vt: open, by which a session leader takes a free terminal.         *)
Open(p) ==
    /\ cpc[p] = "open"
    /\ IF May(euid[p], cvt[p])
       THEN /\ opens' = [opens EXCEPT ![cvt[p]] = @ \union {p}]
            /\ alloc' = alloc \union {cvt[p]}
            /\ session' = IF session[cvt[p]] = NoOne /\ Leader(p)
                          THEN [session EXCEPT ![cvt[p]] = p] ELSE session
            /\ ChildGoto(p, "claim") /\ UNCHANGED <<cvt, status>>
       ELSE TryNext(p) /\ UNCHANGED alloc
    /\ UNCHANGED <<fg, want, owner, cmd, euid, vtstat, vtno, name, ret, pc, switches>>

(* Mutant: the console is used without being claimed.                      *)
ClaimNothing(p) ==
    /\ cpc[p] = "claim"
    /\ ChildGoto(p, "access")
    /\ UNCHANGED <<cmd, kernel, local, ends, pc, switches>>

(* open_vt: TIOCSCTTY, which takes a terminal from its session only for    *)
(* root with -f.                                                           *)
Claim(p) ==
    /\ cpc[p] = "claim"
    /\ LET h == session[cvt[p]] IN
       IF h = p \/ (Leader(p) /\ (h = NoOne \/ (Has(p, "force") /\ euid[p] = "root")))
       THEN /\ session' = [session EXCEPT ![cvt[p]] = p]
            /\ ChildGoto(p, "access") /\ UNCHANGED <<opens, cvt, status>>
       ELSE TryNext(p)
    /\ UNCHANGED <<fg, want, alloc, owner, cmd, euid, vtstat, vtno, name, ret, pc, switches>>

(* access: the real user must be able to use the terminal.                 *)
Access(p) ==
    /\ cpc[p] = "access"
    /\ IF May(cmd[p].caller, cvt[p])
       THEN ChildGoto(p, "give") /\ UNCHANGED <<opens, session, status>>
       ELSE ChildExit(p, 5)
    /\ UNCHANGED <<fg, want, alloc, owner, cmd, local, ret, pc, switches>>

AfterGive(p) == ChildGoto(p, IF Has(p, "switch") THEN "activate" ELSE "exec")

(* chown of the terminal and setuid, unless login is run.                  *)
Give(p) ==
    /\ cpc[p] = "give"
    /\ IF ~Has(p, "user") /\ euid[p] = "root"
       THEN /\ owner' = [owner EXCEPT ![cvt[p]] = cmd[p].caller]
            /\ euid' = [euid EXCEPT ![p] = cmd[p].caller]
       ELSE UNCHANGED <<owner, euid>>
    /\ AfterGive(p)
    /\ UNCHANGED <<fg, want, opens, session, alloc, cmd, vtstat, vtno, cvt, name,
                   ends, pc, switches>>

(* dup2 and exec of the command or of login.                               *)
Exec(p) ==
    /\ cpc[p] \in {"exec", "switched"}
    /\ \/ ChildGoto(p, "running") /\ UNCHANGED <<opens, session, status>>
       \/ ChildExit(p, 127)
    /\ UNCHANGED <<fg, want, alloc, owner, cmd, local, ret, pc, switches>>

(* The command ends; what it started may keep the terminal open.           *)
CommandEnds(p) ==
    /\ cpc[p] = "running"
    /\ \/ \E code \in {0, 1} : ChildExit(p, code)
       \/ /\ ChildGoto(p, "ended") /\ UNCHANGED <<opens, status>>
          /\ session' = Released(p)
    /\ UNCHANGED <<fg, want, alloc, owner, cmd, local, ret, pc, switches>>

-----------------------------------------------------------------------------
(* change_vt, for the child of openvt -s, for main of openvt -sw and as    *)
(* the body of chvt.  The timer interrupts the wait once in a second.      *)

Activate(v) == v \in VT /\ want' = v /\ alloc' = alloc \union {v}

ChildActivate(p) ==
    /\ cpc[p] = "activate"
    /\ \/ Activate(cvt[p]) /\ ChildGoto(p, "waitactive") /\ UNCHANGED <<opens, session, status>>
       \/ ChildExit(p, 1) /\ UNCHANGED <<want, alloc>>
    /\ UNCHANGED <<fg, owner, cmd, local, ret, pc, switches>>

(* VT_WAITACTIVE, and the alarm that interrupts its sleep.                 *)
ChildWaitActive(p) ==
    /\ \/ /\ cpc[p] = "waitactive"
          /\ ChildGoto(p, IF fg = cvt[p] THEN "switched" ELSE "blocked")
       \/ cpc[p] = "blocked" /\ ChildGoto(p, "activate")
    /\ UNCHANGED <<cmd, kernel, local, ends, pc, switches>>

MainActivate(p) ==
    /\ pc[p] = "activate"
    /\ \/ Activate(Target(p)) /\ Goto(p, "waitactive") /\ UNCHANGED ret
       \/ /\ Exit(p, IF cmd[p].prog = "chvt" THEN 1 ELSE 8)
          /\ UNCHANGED <<want, alloc>>
    /\ UNCHANGED <<fg, opens, session, owner, cmd, local, status, cpc, switches>>

(* Mutant: no timer, so that the wait is for the first request only.       *)
MainWaitActiveOnce(p) ==
    /\ pc[p] = "waitactive" /\ Goto(p, IF fg = Target(p) THEN "switched" ELSE "blocked")
    /\ UNCHANGED <<cmd, kernel, local, ends, cpc, switches>>

MainWaitActive(p) ==
    /\ \/ pc[p] = "waitactive" /\ Goto(p, IF fg = Target(p) THEN "switched" ELSE "blocked")
       \/ pc[p] = "blocked" /\ Goto(p, "activate")
    /\ UNCHANGED <<cmd, kernel, local, ends, cpc, switches>>

(* timerid 0 is taken for no timer: it is not deleted, and SIGALRM has its *)
(* default action again.                                                   *)
AlarmKillsChild(p) ==
    /\ TimerId = 0 /\ cpc[p] = "switched"
    /\ ChildExit(p, 142)
    /\ UNCHANGED <<fg, want, alloc, owner, cmd, local, ret, pc, switches>>

AlarmKillsMain(p) ==
    /\ TimerId = 0 /\ pc[p] = "switched" /\ cmd[p].prog = "openvt"
    /\ Exit(p, 142)
    /\ UNCHANGED <<cmd, kernel, local, status, cpc, switches>>

-----------------------------------------------------------------------------
(* The rest of main, chvt and deallocvt                                    *)

(* wait takes the child's status; the waitpid after it has nothing left to *)
(* report and leaves retval 0.                                             *)
Wait(p) ==
    /\ pc[p] = "wait" /\ cpc[p] = "ended"
    /\ IF Has(p, "switch") THEN Goto(p, "activate") /\ UNCHANGED ret ELSE Exit(p, 0)
    /\ UNCHANGED <<cmd, kernel, local, status, cpc, switches>>

(* VT_DISALLOCATE of main's vtno.                                          *)
Deallocate(p) ==
    /\ pc[p] = "switched" /\ cmd[p].prog = "openvt"
    /\ IF Busy(vtno[p]) THEN Exit(p, 8) /\ UNCHANGED alloc
       ELSE Exit(p, 0) /\ alloc' = alloc \ ({vtno[p]} \ {1})
    /\ UNCHANGED <<fg, want, opens, session, owner, cmd, local, status, cpc, switches>>

Chvt(p) ==
    /\ cmd[p].prog = "chvt"
    /\ \/ pc[p] = "start" /\ Goto(p, "activate") /\ UNCHANGED ret
       \/ pc[p] = "switched" /\ Exit(p, 0)
    /\ UNCHANGED <<cmd, kernel, local, status, cpc, switches>>

(* Without a number all consoles that are not busy; VT 1 never.            *)
Deallocvt(p) ==
    /\ pc[p] = "start" /\ cmd[p].prog = "deallocvt"
    /\ LET v == cmd[p].vt IN
       \/ v = 0 /\ alloc' = alloc \ Reached(alloc) /\ Exit(p, 0)
       \/ v > 1 /\ ~Busy(v) /\ alloc' = alloc \ {v} /\ Exit(p, 0)
       \/ v > 0 /\ (v = 1 \/ Busy(v)) /\ UNCHANGED alloc /\ Exit(p, 1)
    /\ UNCHANGED <<fg, want, opens, session, owner, cmd, local, status, cpc, switches>>

Main(p) ==
    \/ GetState(p) \/ Pick(p) \/ StatTty(p) \/ ScanProc(p) \/ Fork(p)
    \/ MainActivate(p) \/ MainWaitActive(p) \/ Wait(p) \/ Deallocate(p)
    \/ Chvt(p) \/ Deallocvt(p)

Child(p) ==
    \/ Open(p) \/ Claim(p) \/ Access(p) \/ Give(p) \/ Exec(p)
    \/ ChildActivate(p) \/ ChildWaitActive(p)

Finished ==
    /\ \A p \in Proc : pc[p] \in {"exit", "replaced"} /\ cpc[p] \in {"none", "running", "ended"}
    /\ UNCHANGED vars

Next ==
    \/ \E p \in Proc : Main(p) \/ Child(p) \/ CommandEnds(p)
                       \/ AlarmKillsChild(p) \/ AlarmKillsMain(p)
    \/ Switch \/ Logout \/ Finished
    \/ \E v \in VT : Keyboard(v)

Spec == Init /\ [][Next]_vars

(* Processes are scheduled, and the console driver carries out a request.  *)
FairSpec ==
    /\ Spec
    /\ \A p \in Proc : WF_vars(Main(p)) /\ WF_vars(Child(p))
    /\ WF_vars(Switch)

-----------------------------------------------------------------------------
(* Properties                                                              *)

Label == {"none", "start", "pick", "authenticate", "scan", "fork", "wait", "replaced", "open",
          "claim", "access", "give", "exec", "activate", "waitactive", "blocked", "switched",
          "running", "ended", "exit"}

(* The shape of the state; an open console is allocated.                   *)
TypeOK ==
    /\ fg \in VT /\ want \in VT \union {0}
    /\ InUse \subseteq alloc /\ alloc \subseteq VT
    /\ session \in [VT -> Proc \union {Login, NoOne}]
    /\ owner \in [VT -> User] /\ euid \in [Proc -> User]
    /\ pc \in [Proc -> Label] /\ cpc \in [Proc -> Label]
    /\ vtno \in [Proc -> VT \union {0}] /\ cvt \in [Proc -> VT \union {0}]

OnConsole(p) == cpc[p] \in {"access", "give", "activate", "waitactive", "blocked", "switched",
                            "exec", "running"}

(* "start a program on a new virtual terminal": although the free console  *)
(* is chosen by main, from VT_OPENQRY or from bits that may be old, and    *)
(* opened by the child, a command's console is the terminal of its own     *)
(* session, so no two commands and no login share one - unless another     *)
(* openvt is told -f.                                                      *)
OwnConsole ==
    \A p \in Proc : OnConsole(p) =>
        \/ session[cvt[p]] = p
        \/ \E q \in Proc \ {p} : Has(q, "force")

OnlySwitcher(p) == \A q \in Proc \ {p} : cmd[q].prog # "chvt" /\ ~Has(q, "switch")

(* A switch that was asked for is not waited for in vain, even if the user *)
(* overrides the request before it is carried out or deallocvt takes the   *)
(* console away: the alarm makes the loop ask again.  (Two programs that   *)
(* want different consoles in front have no such promise.)                 *)
SwitchEnds ==
    \A p \in Proc : OnlySwitcher(p) =>
        /\ (pc[p] \in {"waitactive", "blocked"}) ~> (pc[p] \in {"switched", "exit"})
        /\ (cpc[p] \in {"waitactive", "blocked"}) ~> (cpc[p] \in {"switched", "ended", "running"})
=============================================================================
