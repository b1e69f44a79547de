---------------------------- MODULE OpenVtProofs ----------------------------
(***************************************************************************)
(* Proofs about openvt, chvt and deallocvt, for any programs started       *)
(* together, any number of consoles and any switches at the keyboard.      *)
(***************************************************************************)
EXTENDS OpenVt, WellFoundedInduction, TLAPS

Types ==
    /\ cmd \in [Proc -> Command]
    /\ fg \in VT /\ want \in VT \union {0}
    /\ opens \in [VT -> SUBSET (Proc \union {Login})]
    /\ session \in [VT -> Proc \union {Login, NoOne}]
    /\ owner \in [VT -> User] /\ euid \in [Proc -> User]
    /\ pc \in [Proc -> Label] /\ cpc \in [Proc -> Label]
    /\ vtno \in [Proc -> VT \union {0}] /\ cvt \in [Proc -> VT \union {0}]
    /\ alloc \subseteq VT

(* There is no child before the fork, and its console is one of VT.        *)
BeforeFork == {"start", "pick", "authenticate", "scan", "fork"}

Started(p) ==
    /\ pc[p] \in BeforeFork => cpc[p] = "none"
    /\ pc[p] \in {"authenticate", "scan", "fork"} => vtno[p] \in VT
    /\ cpc[p] \notin {"none", "ended"} => cvt[p] \in VT
    /\ Has(p, "console") => cmd[p].vt \in VT

(* A console in use is allocated.                                          *)
Kept == \A v \in VT : opens[v] # {} => v \in alloc

(* A step of the program p.                                                *)
StepOf(p) == Main(p) \/ Child(p) \/ CommandEnds(p) \/ AlarmKillsChild(p) \/ AlarmKillsMain(p)

IInv == Types /\ (\A p \in Proc : Started(p)) /\ Kept /\ OwnConsole
-----------------------------------------------------------------------------
LEMMA VTOK == VT \subseteq Nat /\ 1 \in VT /\ 0 \notin VT
BY OpenVtAssumption DEF VT

(* VT_OPENQRY and the scan of the state bits find a console.               *)
LEMMA MinIn ==
    ASSUME NEW S, S \subseteq Nat, S # {}
    PROVE  Min(S) \in S
<1>1. PICK x \in S : \A y \in S : ~ (<<y, x>> \in OpToRel(<, Nat))
  BY NatLessThanWellFounded, WFMin
<1>2. ASSUME NEW y \in S, y < x PROVE FALSE
  <2>1. <<y, x>> \in Nat \X Nat /\ <<y, x>>[1] = y /\ <<y, x>>[2] = x
    OBVIOUS
  <2>2. <<y, x>> \in OpToRel(<, Nat)
    BY <1>2, <2>1, Zenon DEF OpToRel
  <2> QED
    BY <1>1, <2>2
<1>3. \A y \in S : x <= y
  BY <1>2
<1> QED
  BY <1>3 DEF Min

LEMMA PickOK == InUse # VT => Min(VT \ InUse) \in VT
<1> SUFFICES ASSUME InUse # VT PROVE Min(VT \ InUse) \in VT
  OBVIOUS
<1>1. VT \ InUse # {} /\ VT \ InUse \subseteq Nat
  BY VTOK DEF InUse
<1> QED
  BY <1>1, MinIn

LEMMA OthersOK == ASSUME NEW p PROVE Others(p) # {} => Min(Others(p)) \in VT
<1> SUFFICES ASSUME Others(p) # {} PROVE Min(Others(p)) \in VT
  OBVIOUS
<1>1. Others(p) \subseteq VT /\ Others(p) \subseteq Nat
  BY VTOK DEF Others
<1> QED
  BY <1>1, MinIn
-----------------------------------------------------------------------------
(* What the end of a child changes, and what a failed open_vt does.        *)
LEMMA ChildExitOK ==
    ASSUME Types, NEW p \in Proc, NEW code, ChildExit(p, code)
    PROVE  /\ opens' \in [VT -> SUBSET (Proc \union {Login})]
           /\ session' \in [VT -> Proc \union {Login, NoOne}]
           /\ cpc' \in [Proc -> Label] /\ cpc'[p] = "ended"
           /\ \A q \in Proc : q # p => cpc'[q] = cpc[q]
           /\ \A v \in VT : opens'[v] \subseteq opens[v] /\ (session[v] # p => session'[v] = session[v])
<1>1. cpc' \in [Proc -> Label] /\ cpc'[p] = "ended" /\ \A q \in Proc : q # p => cpc'[q] = cpc[q]
  BY DEF Types, ChildExit, ChildGoto, Label
<1>2. /\ opens' \in [VT -> SUBSET (Proc \union {Login})]
      /\ \A v \in VT : opens'[v] \subseteq opens[v]
  BY DEF Types, ChildExit, Closed
<1>3. /\ session' \in [VT -> Proc \union {Login, NoOne}]
      /\ \A v \in VT : session[v] # p => session'[v] = session[v]
  BY DEF Types, ChildExit, Released
<1> QED
  BY <1>1, <1>2, <1>3

LEMMA TryNextOK ==
    ASSUME Types, NEW p \in Proc, TryNext(p)
    PROVE  /\ opens' \in [VT -> SUBSET (Proc \union {Login})]
           /\ session' \in [VT -> Proc \union {Login, NoOne}]
           /\ cpc' \in [Proc -> Label] /\ cvt' \in [Proc -> VT \union {0}]
           /\ cpc'[p] = "ended" \/ (cpc'[p] = "open" /\ cvt'[p] \in VT)
           /\ \A q \in Proc : q # p => cpc'[q] = cpc[q] /\ cvt'[q] = cvt[q]
           /\ \A v \in VT : opens'[v] \subseteq opens[v] /\ (session[v] # p => session'[v] = session[v])
<1>1. CASE Others(p) # {}
  <2>1. Min(Others(p)) \in VT
    BY <1>1, OthersOK
  <2>2. /\ cvt' = [cvt EXCEPT ![p] = Min(Others(p))] /\ cpc' = [cpc EXCEPT ![p] = "open"]
        /\ opens' = Closed(p) /\ session' = session
    BY <1>1 DEF TryNext, ChildGoto
  <2>3. opens' \in [VT -> SUBSET (Proc \union {Login})] /\ \A v \in VT : opens'[v] \subseteq opens[v]
    BY <2>2 DEF Types, Closed
  <2> QED
    BY <2>1, <2>2, <2>3 DEF Types, Label
<1>2. CASE Others(p) = {}
  <2>1. ChildExit(p, 5) /\ cvt' = cvt
    BY <1>2 DEF TryNext
  <2> QED
    BY <2>1, ChildExitOK DEF Types
<1> QED
  BY <1>1, <1>2

LEMMA TypesStep ==
    ASSUME IInv, NEW p \in Proc, StepOf(p)
    PROVE  Types'
<1> USE VTOK DEF kernel, local, ends, Goto, Label
<1>1. CASE GetState(p)
  BY <1>1 DEF IInv, Types, Command, GetState, Exit
<1>2. CASE Pick(p)
  <2>1. vtno' \in [Proc -> VT \union {0}]
    <3>1. CASE vtno' = [vtno EXCEPT ![p] = Min(VT \ InUse)] /\ InUse # VT
      BY <3>1, PickOK DEF IInv, Types
    <3>2. CASE vtno' = [vtno EXCEPT ![p] = cmd[p].vt] /\ Has(p, "console")
      BY <3>2 DEF IInv, Types, Started
    <3>3. CASE vtno' = vtno
      BY <3>3 DEF IInv, Types
    <3> QED
      BY <1>2, <3>1, <3>2, <3>3 DEF Pick
  <2> QED
    BY <1>2, <2>1 DEF IInv, Types, Pick, Exit, AfterPick
<1>3. CASE StatTty(p)
  BY <1>3 DEF IInv, Types, Command, StatTty, Exit
<1>4. CASE ScanProc(p)
  BY <1>4 DEF IInv, Types, Command, ScanProc, Exit
<1>5. CASE Fork(p)
  BY <1>5 DEF IInv, Types, Command, Fork, Exit, ChildGoto
<1>6. CASE MainActivate(p)
  BY <1>6 DEF IInv, Types, Command, MainActivate, Exit, Activate
<1>7. CASE MainWaitActive(p)
  BY <1>7 DEF IInv, Types, Command, MainWaitActive
<1>8. CASE Wait(p)
  BY <1>8 DEF IInv, Types, Command, Wait, Exit
<1>9. CASE Deallocate(p)
  BY <1>9 DEF IInv, Types, Command, Deallocate, Exit, Busy
<1>10. CASE Chvt(p)
  BY <1>10 DEF IInv, Types, Command, Chvt, Exit
<1>11. CASE Deallocvt(p)
  BY <1>11 DEF IInv, Types, Command, Deallocvt, Exit, Busy, Reached
<1>12. CASE Open(p)
  <2>0. cvt[p] \in VT
    BY <1>12 DEF IInv, Started, Open
  <2>1. CASE May(euid[p], cvt[p])
    <3>0. alloc' \subseteq VT
      BY <1>12, <2>0, <2>1 DEF IInv, Types, Open
    <3>1. opens' \in [VT -> SUBSET (Proc \union {Login})]
      <4>1. opens[cvt[p]] \union {p} \in SUBSET (Proc \union {Login})
        BY <2>0 DEF IInv, Types
      <4>2. opens' = [opens EXCEPT ![cvt[p]] = opens[cvt[p]] \union {p}]
        BY <1>12, <2>1 DEF Open
      <4> QED
        BY <2>0, <4>1, <4>2 DEF IInv, Types
    <3>2. session' \in [VT -> Proc \union {Login, NoOne}]
      BY <1>12, <2>0, <2>1 DEF IInv, Types, Open
    <3>3. cpc' \in [Proc -> Label]
      BY <1>12, <2>0, <2>1 DEF IInv, Types, Open, ChildGoto
    <3>4. UNCHANGED <<cmd, fg, want, owner, euid, pc, vtno, cvt>>
      BY <1>12, <2>1 DEF Open
    <3> QED
      BY <3>0, <3>1, <3>2, <3>3, <3>4 DEF IInv, Types
  <2>2. CASE ~May(euid[p], cvt[p])
    <3>1. TryNext(p) /\ UNCHANGED <<alloc, fg, want, owner, cmd, euid, vtstat, vtno, name, ret, pc, switches>>
      BY <1>12, <2>2 DEF Open
    <3> QED
      BY <3>1, TryNextOK DEF IInv, Types, Command
  <2> QED
    BY <2>1, <2>2
<1>13. CASE Claim(p)
  <2>1. CASE TryNext(p)
    BY <1>13, <2>1, TryNextOK DEF IInv, Types, Claim
  <2>2. CASE ~TryNext(p)
    BY <1>13, <2>2 DEF IInv, Types, Claim, ChildGoto
  <2> QED
    BY <2>1, <2>2
<1>14. CASE Access(p)
  BY <1>14 DEF IInv, Types, Command, Access, ChildGoto, ChildExit, Closed, Released
<1>15. CASE Give(p)
  BY <1>15 DEF IInv, Types, Command, Give, ChildGoto, AfterGive
<1>16. CASE Exec(p)
  BY <1>16 DEF IInv, Types, Command, Exec, ChildGoto, ChildExit, Closed, Released
<1>17. CASE ChildActivate(p)
  <2>1. CASE ChildExit(p, 1) /\ UNCHANGED <<want, alloc>>
    BY <1>17, <2>1, ChildExitOK DEF IInv, Types, ChildActivate
  <2>2. CASE Activate(cvt[p]) /\ ChildGoto(p, "waitactive") /\ UNCHANGED <<opens, session, status>>
    BY <1>17, <2>2 DEF IInv, Types, ChildActivate, Activate, ChildGoto
  <2> QED
    BY <1>17, <2>1, <2>2 DEF ChildActivate
<1>18. CASE ChildWaitActive(p)
  BY <1>18 DEF IInv, Types, Command, ChildWaitActive, ChildGoto
<1>19. CASE CommandEnds(p)
  BY <1>19 DEF IInv, Types, Command, CommandEnds, ChildGoto, ChildExit, Closed, Released
<1>20. CASE AlarmKillsChild(p)
  BY <1>20 DEF IInv, Types, Command, AlarmKillsChild, ChildGoto, ChildExit, Closed, Released
<1>21. CASE AlarmKillsMain(p)
  BY <1>21 DEF IInv, Types, Command, AlarmKillsMain, Exit
<1> QED
  BY <1>1, <1>2, <1>3, <1>4, <1>5, <1>6, <1>7, <1>8, <1>9, <1>10, <1>11, <1>12,
     <1>13, <1>14, <1>15, <1>16, <1>17, <1>18, <1>19, <1>20, <1>21 DEF StepOf, Main, Child

LEMMA StartedStep ==
    ASSUME IInv, NEW p \in Proc, StepOf(p)
    PROVE  \A q \in Proc : Started(q)'
<1> USE VTOK DEF kernel, local, ends, Goto, Label
<1>1. CASE GetState(p)
  BY <1>1 DEF IInv, Started, Has, BeforeFork, Types, GetState, Exit
<1>2. CASE Pick(p)
  <2>1. vtno'[p] \in VT \/ pc'[p] = "exit"
    <3>1. CASE vtno' = [vtno EXCEPT ![p] = Min(VT \ InUse)] /\ InUse # VT
      BY <3>1, PickOK DEF IInv, Types
    <3>2. CASE vtno' = [vtno EXCEPT ![p] = cmd[p].vt] /\ Has(p, "console")
      BY <3>2 DEF IInv, Types, Started
    <3>3. CASE Exit(p, 3) \/ Exit(p, 7)
      BY <3>3 DEF IInv, Types, Exit
    <3> QED
      BY <1>2, <3>1, <3>2, <3>3 DEF Pick
  <2>2. /\ pc[p] = "pick" /\ UNCHANGED <<cmd, cpc, cvt>>
        /\ \A q \in Proc : q # p => pc'[q] = pc[q] /\ vtno'[q] = vtno[q]
        /\ pc'[p] \in {"exit", "authenticate", "fork"}
    BY <1>2 DEF IInv, Types, Pick, Exit, AfterPick
  <2> QED
    BY <2>1, <2>2 DEF IInv, Started, Has, BeforeFork
<1>3. CASE StatTty(p)
  BY <1>3 DEF IInv, Started, Has, BeforeFork, Types, StatTty, Exit
<1>4. CASE ScanProc(p)
  BY <1>4 DEF IInv, Started, Has, BeforeFork, Types, ScanProc, Exit
<1>5. CASE Fork(p)
  BY <1>5 DEF IInv, Started, Has, BeforeFork, Types, Fork, Exit, ChildGoto
<1>6. CASE MainActivate(p)
  BY <1>6 DEF IInv, Started, Has, BeforeFork, Types, MainActivate, Exit, Activate
<1>7. CASE MainWaitActive(p)
  BY <1>7 DEF IInv, Started, Has, BeforeFork, Types, MainWaitActive
<1>8. CASE Wait(p)
  BY <1>8 DEF IInv, Started, Has, BeforeFork, Types, Wait, Exit
<1>9. CASE Deallocate(p)
  BY <1>9 DEF IInv, Started, Has, BeforeFork, Types, Deallocate, Exit, Busy
<1>10. CASE Chvt(p)
  BY <1>10 DEF IInv, Started, Has, BeforeFork, Types, Chvt, Exit
<1>11. CASE Deallocvt(p)
  BY <1>11 DEF IInv, Started, Has, BeforeFork, Types, Deallocvt, Exit, Busy, Reached
<1>12. CASE Open(p)
  <2>1. CASE May(euid[p], cvt[p])
    BY <1>12, <2>1 DEF IInv, Started, Has, BeforeFork, Types, Open, ChildGoto
  <2>2. CASE ~May(euid[p], cvt[p])
    <3>1. TryNext(p) /\ cpc[p] = "open" /\ UNCHANGED <<cmd, vtno, pc>>
      BY <1>12, <2>2 DEF Open
    <3>2. Types
      BY DEF IInv
    <3>3. /\ cpc'[p] = "ended" \/ (cpc'[p] = "open" /\ cvt'[p] \in VT)
          /\ \A q \in Proc : q # p => cpc'[q] = cpc[q] /\ cvt'[q] = cvt[q]
      BY <3>1, <3>2, TryNextOK
    <3> QED
      BY <3>1, <3>3 DEF IInv, Started, Has, BeforeFork
  <2> QED
    BY <2>1, <2>2
<1>13. CASE Claim(p)
  <2>1. CASE TryNext(p)
    <3>1. cpc[p] = "claim" /\ UNCHANGED <<cmd, vtno, pc>>
      BY <1>13 DEF Claim
    <3>2. Types
      BY DEF IInv
    <3>3. /\ cpc'[p] = "ended" \/ (cpc'[p] = "open" /\ cvt'[p] \in VT)
          /\ \A q \in Proc : q # p => cpc'[q] = cpc[q] /\ cvt'[q] = cvt[q]
      BY <2>1, <3>2, TryNextOK
    <3> QED
      BY <3>1, <3>3 DEF IInv, Started, Has, BeforeFork
  <2>2. CASE ~TryNext(p)
    BY <1>13, <2>2 DEF IInv, Started, Has, BeforeFork, Types, Claim, ChildGoto
  <2> QED
    BY <2>1, <2>2
<1>14. CASE Access(p)
  BY <1>14 DEF IInv, Started, Has, BeforeFork, Types, Access, ChildGoto, ChildExit, Closed, Released
<1>15. CASE Give(p)
  BY <1>15 DEF IInv, Started, Has, BeforeFork, Types, Give, ChildGoto, AfterGive
<1>16. CASE Exec(p)
  BY <1>16 DEF IInv, Started, Has, BeforeFork, Types, Exec, ChildGoto, ChildExit, Closed, Released
<1>17. CASE ChildActivate(p)
  BY <1>17 DEF IInv, Started, Has, BeforeFork, Types, ChildActivate, ChildGoto,
                   Activate, ChildExit, Closed, Released
<1>18. CASE ChildWaitActive(p)
  BY <1>18 DEF IInv, Started, Has, BeforeFork, Types, ChildWaitActive, ChildGoto
<1>19. CASE CommandEnds(p)
  BY <1>19 DEF IInv, Started, Has, BeforeFork, Types, CommandEnds, ChildGoto, ChildExit, Closed, Released
<1>20. CASE AlarmKillsChild(p)
  BY <1>20 DEF IInv, Started, Has, BeforeFork, Types, AlarmKillsChild, ChildGoto, ChildExit, Closed, Released
<1>21. CASE AlarmKillsMain(p)
  BY <1>21 DEF IInv, Started, Has, BeforeFork, Types, AlarmKillsMain, Exit
<1> QED
  BY <1>1, <1>2, <1>3, <1>4, <1>5, <1>6, <1>7, <1>8, <1>9, <1>10, <1>11, <1>12,
     <1>13, <1>14, <1>15, <1>16, <1>17, <1>18, <1>19, <1>20, <1>21 DEF StepOf, Main, Child

LEMMA KeptStep ==
    ASSUME IInv, NEW p \in Proc, StepOf(p)
    PROVE  Kept'
<1> USE VTOK DEF kernel, local, ends, Goto, Label
<1>1. CASE GetState(p)
  BY <1>1 DEF IInv, Kept, InUse, GetState, Exit
<1>2. CASE Pick(p)
  BY <1>2 DEF IInv, Kept, InUse, Pick, Exit, AfterPick
<1>3. CASE StatTty(p)
  BY <1>3 DEF IInv, Kept, InUse, StatTty, Exit
<1>4. CASE ScanProc(p)
  BY <1>4 DEF IInv, Kept, InUse, ScanProc, Exit
<1>5. CASE Fork(p)
  BY <1>5 DEF IInv, Kept, InUse, Fork, Exit, ChildGoto
<1>6. CASE MainActivate(p)
  BY <1>6 DEF IInv, Kept, InUse, MainActivate, Exit, Activate
<1>7. CASE MainWaitActive(p)
  BY <1>7 DEF IInv, Kept, InUse, MainWaitActive
<1>8. CASE Wait(p)
  BY <1>8 DEF IInv, Kept, InUse, Wait, Exit
<1>9. CASE Deallocate(p)
  BY <1>9 DEF IInv, Kept, InUse, Deallocate, Exit, Busy
<1>10. CASE Chvt(p)
  BY <1>10 DEF IInv, Kept, InUse, Chvt, Exit
<1>11. CASE Deallocvt(p)
  BY <1>11 DEF IInv, Kept, InUse, Deallocvt, Exit, Busy, Reached
<1>12. CASE Open(p)
  <2>0. cvt[p] \in VT
    BY <1>12 DEF IInv, Started, Open
  <2>1. CASE May(euid[p], cvt[p])
    BY <1>12, <2>0, <2>1 DEF IInv, Types, Kept, Open
  <2>2. CASE ~May(euid[p], cvt[p])
    <3>1. TryNext(p) /\ Types /\ alloc' = alloc
      BY <1>12, <2>2 DEF Open, IInv
    <3>2. \A v \in VT : opens'[v] \subseteq opens[v]
      BY <3>1, TryNextOK
    <3> QED
      BY <3>1, <3>2 DEF IInv, Kept
  <2> QED
    BY <2>1, <2>2
<1>13. CASE Claim(p)
  <2>1. CASE TryNext(p)
    <3>1. Types /\ alloc' = alloc
      BY <1>13 DEF Claim, IInv
    <3>2. \A v \in VT : opens'[v] \subseteq opens[v]
      BY <2>1, <3>1, TryNextOK
    <3> QED
      BY <3>1, <3>2 DEF IInv, Kept
  <2>2. CASE ~TryNext(p)
    BY <1>13, <2>2 DEF IInv, Kept, Claim
  <2> QED
    BY <2>1, <2>2
<1>14. CASE Access(p)
  BY <1>14 DEF IInv, Kept, InUse, Access, ChildGoto, ChildExit, Closed, Released
<1>15. CASE Give(p)
  BY <1>15 DEF IInv, Kept, InUse, Give, ChildGoto, AfterGive
<1>16. CASE Exec(p)
  BY <1>16 DEF IInv, Kept, InUse, Exec, ChildGoto, ChildExit, Closed, Released
<1>17. CASE ChildActivate(p)
  BY <1>17 DEF IInv, Kept, InUse, ChildActivate, ChildGoto,
                   Activate, ChildExit, Closed, Released
<1>18. CASE ChildWaitActive(p)
  BY <1>18 DEF IInv, Kept, InUse, ChildWaitActive, ChildGoto
<1>19. CASE CommandEnds(p)
  BY <1>19 DEF IInv, Kept, InUse, CommandEnds, ChildGoto, ChildExit, Closed, Released
<1>20. CASE AlarmKillsChild(p)
  BY <1>20 DEF IInv, Kept, InUse, AlarmKillsChild, ChildGoto, ChildExit, Closed, Released
<1>21. CASE AlarmKillsMain(p)
  BY <1>21 DEF IInv, Kept, InUse, AlarmKillsMain, Exit
<1> QED
  BY <1>1, <1>2, <1>3, <1>4, <1>5, <1>6, <1>7, <1>8, <1>9, <1>10, <1>11, <1>12,
     <1>13, <1>14, <1>15, <1>16, <1>17, <1>18, <1>19, <1>20, <1>21 DEF StepOf, Main, Child

(* A step of p leaves the consoles of the others to them, unless p is told *)
(* -f; so only p's own console is in question.                             *)
LEMMA OwnFrame ==
    ASSUME IInv, NEW p \in Proc, cmd' = cmd,
           \A q \in Proc : q # p => cpc'[q] = cpc[q] /\ cvt'[q] = cvt[q],
           \A v \in VT : session[v] \in Proc \ {p} => session'[v] = session[v] \/ Has(p, "force"),
           OnConsole(p)' => \/ session'[cvt'[p]] = p
                            \/ \E r \in Proc \ {p} : Has(r, "force")
    PROVE  OwnConsole'
<1> SUFFICES ASSUME NEW q \in Proc, OnConsole(q)'
             PROVE  \/ session'[cvt'[q]] = q
                    \/ \E r \in Proc \ {q} : Has(r, "force")
  BY DEF OwnConsole, Has
<1>1. CASE q = p
  BY <1>1
<1>2. CASE q # p
  <2>1. OnConsole(q) /\ cvt[q] \in VT
    BY <1>2 DEF OnConsole, IInv, Started
  <2>2. session[cvt[q]] = q \/ \E r \in Proc \ {q} : Has(r, "force")
    BY <2>1 DEF IInv, OwnConsole
  <2> QED
    BY <1>2, <2>1, <2>2
<1> QED
  BY <1>1, <1>2

LEMMA OwnStep ==
    ASSUME IInv, NEW p \in Proc, StepOf(p)
    PROVE  OwnConsole'
<1> USE VTOK DEF kernel, local, ends, Goto, Label
<1>1. CASE GetState(p)
  BY <1>1 DEF IInv, OwnConsole, OnConsole, Has, GetState, Exit
<1>2. CASE Pick(p)
  BY <1>2 DEF IInv, OwnConsole, OnConsole, Has, Pick, Exit, AfterPick
<1>3. CASE StatTty(p)
  BY <1>3 DEF IInv, OwnConsole, OnConsole, Has, StatTty, Exit
<1>4. CASE ScanProc(p)
  BY <1>4 DEF IInv, OwnConsole, OnConsole, Has, ScanProc, Exit
<1>5. CASE Fork(p)
  <2>1. cmd' = cmd /\ \A q \in Proc : q # p => cpc'[q] = cpc[q] /\ cvt'[q] = cvt[q]
    BY <1>5 DEF IInv, Types, Fork, Exit, ChildGoto
  <2>2. \A v \in VT : session[v] \in Proc \ {p} => session'[v] = session[v]
    BY <1>5 DEF IInv, Types, Fork, Exit, ChildGoto
  <2>3. OnConsole(p)' => \/ session'[cvt'[p]] = p
                         \/ \E r \in Proc \ {p} : Has(r, "force")
    <3>1. cpc[p] = "none"
      BY <1>5 DEF IInv, Started, BeforeFork, Fork
    <3>2. cpc'[p] \in {"open", "none"}
      BY <1>5, <3>1 DEF IInv, Types, Fork, ChildGoto
    <3> QED
      BY <3>2 DEF OnConsole
  <2> QED
    BY <2>1, <2>2, <2>3, OwnFrame
<1>6. CASE MainActivate(p)
  BY <1>6 DEF IInv, OwnConsole, OnConsole, Has, MainActivate, Exit, Activate
<1>7. CASE MainWaitActive(p)
  BY <1>7 DEF IInv, OwnConsole, OnConsole, Has, MainWaitActive
<1>8. CASE Wait(p)
  BY <1>8 DEF IInv, OwnConsole, OnConsole, Has, Wait, Exit
<1>9. CASE Deallocate(p)
  BY <1>9 DEF IInv, OwnConsole, OnConsole, Has, Deallocate, Exit, Busy
<1>10. CASE Chvt(p)
  BY <1>10 DEF IInv, OwnConsole, OnConsole, Has, Chvt, Exit
<1>11. CASE Deallocvt(p)
  BY <1>11 DEF IInv, OwnConsole, OnConsole, Has, Deallocvt, Exit, Busy, Reached
<1>12. CASE Open(p)
  <2>0. Types /\ cvt[p] \in VT /\ cpc[p] = "open" /\ NoOne \notin Proc
    BY <1>12, OpenVtAssumption DEF IInv, Started, Open
  <2>1. CASE May(euid[p], cvt[p])
    <3>1. /\ UNCHANGED <<cmd, cvt>> /\ \A q \in Proc : q # p => cpc'[q] = cpc[q]
          /\ cpc'[p] = "claim"
      BY <1>12, <2>0, <2>1 DEF Types, Open, ChildGoto
    <3>2. \A v \in VT : session[v] \in Proc \ {p} => session'[v] = session[v]
      BY <1>12, <2>0, <2>1 DEF Types, Open
    <3> QED
      BY <3>1, <3>2, OwnFrame DEF OnConsole
  <2>2. CASE ~May(euid[p], cvt[p])
    <3>1. TryNext(p) /\ cmd' = cmd
      BY <1>12, <2>2 DEF Open
    <3>2. /\ cpc'[p] \in {"ended", "open"}
          /\ \A q \in Proc : q # p => cpc'[q] = cpc[q] /\ cvt'[q] = cvt[q]
          /\ \A v \in VT : session[v] # p => session'[v] = session[v]
      BY <2>0, <3>1, TryNextOK
    <3> QED
      BY <3>1, <3>2, OwnFrame DEF OnConsole
  <2> QED
    BY <2>1, <2>2
<1>13. CASE Claim(p)
  <2>0. Types /\ cvt[p] \in VT /\ cpc[p] = "claim" /\ NoOne \notin Proc /\ cmd' = cmd
    BY <1>13, OpenVtAssumption DEF IInv, Started, Claim
  <2>1. CASE TryNext(p)
    <3>1. /\ cpc'[p] \in {"ended", "open"}
          /\ \A q \in Proc : q # p => cpc'[q] = cpc[q] /\ cvt'[q] = cvt[q]
          /\ \A v \in VT : session[v] # p => session'[v] = session[v]
      BY <2>0, <2>1, TryNextOK
    <3> QED
      BY <2>0, <3>1, OwnFrame DEF OnConsole
  <2>2. CASE ~TryNext(p)
    <3>1. /\ session' = [session EXCEPT ![cvt[p]] = p] /\ cvt' = cvt
          /\ cpc' = [cpc EXCEPT ![p] = "access"]
          /\ session[cvt[p]] \in {p, NoOne} \/ Has(p, "force")
      BY <1>13, <2>2 DEF Claim, ChildGoto
    <3>2. session'[cvt'[p]] = p /\ \A q \in Proc : q # p => cpc'[q] = cpc[q]
      BY <2>0, <3>1 DEF Types
    <3>3. \A v \in VT : session[v] \in Proc \ {p} => session'[v] = session[v] \/ Has(p, "force")
      BY <2>0, <3>1 DEF Types
    <3> QED
      BY <2>0, <3>1, <3>2, <3>3, OwnFrame
  <2> QED
    BY <2>1, <2>2
<1>14. CASE Access(p)
  <2>1. cmd' = cmd /\ \A q \in Proc : q # p => cpc'[q] = cpc[q] /\ cvt'[q] = cvt[q]
    BY <1>14 DEF IInv, Types, Access, ChildGoto, ChildExit, Closed, Released
  <2>2. \A v \in VT : session[v] \in Proc \ {p} => session'[v] = session[v]
    BY <1>14 DEF IInv, Types, Access, ChildGoto, ChildExit, Closed, Released
  <2>3. OnConsole(p)' => \/ session'[cvt'[p]] = p
                         \/ \E r \in Proc \ {p} : Has(r, "force")
    BY <1>14 DEF IInv, Types, Started, OwnConsole, OnConsole, Access, ChildGoto, ChildExit, Closed, Released
  <2> QED
    BY <2>1, <2>2, <2>3, OwnFrame
<1>15. CASE Give(p)
  <2>1. cmd' = cmd /\ \A q \in Proc : q # p => cpc'[q] = cpc[q] /\ cvt'[q] = cvt[q]
    BY <1>15 DEF IInv, Types, Give, ChildGoto, AfterGive
  <2>2. \A v \in VT : session[v] \in Proc \ {p} => session'[v] = session[v]
    BY <1>15 DEF IInv, Types, Give, ChildGoto, AfterGive
  <2>3. OnConsole(p)' => \/ session'[cvt'[p]] = p
                         \/ \E r \in Proc \ {p} : Has(r, "force")
    BY <1>15 DEF IInv, Types, Started, OwnConsole, OnConsole, Give, ChildGoto, AfterGive
  <2> QED
    BY <2>1, <2>2, <2>3, OwnFrame
<1>16. CASE Exec(p)
  <2>1. cmd' = cmd /\ \A q \in Proc : q # p => cpc'[q] = cpc[q] /\ cvt'[q] = cvt[q]
    BY <1>16 DEF IInv, Types, Exec, ChildGoto, ChildExit, Closed, Released
  <2>2. \A v \in VT : session[v] \in Proc \ {p} => session'[v] = session[v]
    BY <1>16 DEF IInv, Types, Exec, ChildGoto, ChildExit, Closed, Released
  <2>3. OnConsole(p)' => \/ session'[cvt'[p]] = p
                         \/ \E r \in Proc \ {p} : Has(r, "force")
    BY <1>16 DEF IInv, Types, Started, OwnConsole, OnConsole, Exec, ChildGoto, ChildExit, Closed, Released
  <2> QED
    BY <2>1, <2>2, <2>3, OwnFrame
<1>17. CASE ChildActivate(p)
  <2>1. cmd' = cmd /\ \A q \in Proc : q # p => cpc'[q] = cpc[q] /\ cvt'[q] = cvt[q]
    BY <1>17 DEF IInv, Types, ChildActivate, ChildGoto,
                   Activate, ChildExit, Closed, Released
  <2>2. \A v \in VT : session[v] \in Proc \ {p} => session'[v] = session[v]
    BY <1>17 DEF IInv, Types, ChildActivate, ChildGoto,
                   Activate, ChildExit, Closed, Released
  <2>3. OnConsole(p)' => \/ session'[cvt'[p]] = p
                         \/ \E r \in Proc \ {p} : Has(r, "force")
    BY <1>17 DEF IInv, Types, Started, OwnConsole, OnConsole, ChildActivate, ChildGoto,
                   Activate, ChildExit, Closed, Released
  <2> QED
    BY <2>1, <2>2, <2>3, OwnFrame
<1>18. CASE ChildWaitActive(p)
  <2>1. cmd' = cmd /\ \A q \in Proc : q # p => cpc'[q] = cpc[q] /\ cvt'[q] = cvt[q]
    BY <1>18 DEF IInv, Types, ChildWaitActive, ChildGoto
  <2>2. \A v \in VT : session[v] \in Proc \ {p} => session'[v] = session[v]
    BY <1>18 DEF IInv, Types, ChildWaitActive, ChildGoto
  <2>3. OnConsole(p)' => \/ session'[cvt'[p]] = p
                         \/ \E r \in Proc \ {p} : Has(r, "force")
    BY <1>18 DEF IInv, Types, Started, OwnConsole, OnConsole, ChildWaitActive, ChildGoto
  <2> QED
    BY <2>1, <2>2, <2>3, OwnFrame
<1>19. CASE CommandEnds(p)
  <2>1. cmd' = cmd /\ \A q \in Proc : q # p => cpc'[q] = cpc[q] /\ cvt'[q] = cvt[q]
    BY <1>19 DEF IInv, Types, CommandEnds, ChildGoto, ChildExit, Closed, Released
  <2>2. \A v \in VT : session[v] \in Proc \ {p} => session'[v] = session[v]
    BY <1>19 DEF IInv, Types, CommandEnds, ChildGoto, ChildExit, Closed, Released
  <2>3. OnConsole(p)' => \/ session'[cvt'[p]] = p
                         \/ \E r \in Proc \ {p} : Has(r, "force")
    BY <1>19 DEF IInv, Types, Started, OwnConsole, OnConsole, CommandEnds,
                   ChildGoto, ChildExit, Closed, Released
  <2> QED
    BY <2>1, <2>2, <2>3, OwnFrame
<1>20. CASE AlarmKillsChild(p)
  <2>1. cmd' = cmd /\ \A q \in Proc : q # p => cpc'[q] = cpc[q] /\ cvt'[q] = cvt[q]
    BY <1>20 DEF IInv, Types, AlarmKillsChild, ChildGoto, ChildExit, Closed, Released
  <2>2. \A v \in VT : session[v] \in Proc \ {p} => session'[v] = session[v]
    BY <1>20 DEF IInv, Types, AlarmKillsChild, ChildGoto, ChildExit, Closed, Released
  <2>3. OnConsole(p)' => \/ session'[cvt'[p]] = p
                         \/ \E r \in Proc \ {p} : Has(r, "force")
    BY <1>20 DEF IInv, Types, Started, OwnConsole, OnConsole, AlarmKillsChild,
                   ChildGoto, ChildExit, Closed, Released
  <2> QED
    BY <2>1, <2>2, <2>3, OwnFrame
<1>21. CASE AlarmKillsMain(p)
  BY <1>21 DEF IInv, OwnConsole, OnConsole, Has, AlarmKillsMain, Exit
<1> QED
  BY <1>1, <1>2, <1>3, <1>4, <1>5, <1>6, <1>7, <1>8, <1>9, <1>10, <1>11, <1>12,
     <1>13, <1>14, <1>15, <1>16, <1>17, <1>18, <1>19, <1>20, <1>21 DEF StepOf, Main, Child

(* The kernel's switch, the user at the keyboard, the end of the login.    *)
LEMMA OthersStep ==
    ASSUME IInv, Switch \/ Logout \/ \E v \in VT : Keyboard(v)
    PROVE  IInv'
<1> USE VTOK DEF kernel, local, ends, Label
<1>1. CASE Switch
  <2>1. CASE want \in alloc
    <3>1. /\ want' = 0 /\ fg' = want
          /\ pc' = Woken(pc, [p \in Proc |-> Target(p)]) /\ cpc' = Woken(cpc, cvt)
          /\ UNCHANGED <<opens, session, alloc, owner, cmd, local>>
      BY <1>1, <2>1 DEF Switch
    <3>2. /\ pc' \in [Proc -> Label] /\ cpc' \in [Proc -> Label]
          /\ \A p \in Proc : pc'[p] = pc[p] \/ pc'[p] = "switched"
          /\ \A p \in Proc : cpc'[p] = cpc[p] \/ (cpc[p] = "blocked" /\ cpc'[p] = "switched")
      BY <3>1 DEF IInv, Types, Woken
    <3>3. Types'
      BY <2>1, <3>1, <3>2 DEF IInv, Types
    <3>4. ASSUME NEW p \in Proc PROVE Started(p)'
      BY <3>1, <3>2 DEF IInv, Started, Has, BeforeFork
    <3>5. Kept'
      BY <3>1 DEF IInv, Kept
    <3>6. OwnConsole'
      BY <3>1, <3>2 DEF IInv, OwnConsole, OnConsole, Has
    <3> QED
      BY <3>3, <3>4, <3>5, <3>6 DEF IInv
  <2>2. CASE want \notin alloc
    BY <1>1, <2>2 DEF IInv, Types, Started, Has, Kept, OwnConsole, OnConsole, Switch
  <2> QED
    BY <2>1, <2>2
<1>2. CASE Logout
  <2>1. /\ session[1] = Login /\ session' = [session EXCEPT ![1] = NoOne]
        /\ opens' = [opens EXCEPT ![1] = @ \ {Login}] /\ owner' = [owner EXCEPT ![1] = "root"]
        /\ UNCHANGED <<fg, want, alloc, cmd, local, pc, cpc>>
    BY <1>2 DEF Logout
  <2>2. Types'
    BY <2>1 DEF IInv, Types, User
  <2>3. Kept' /\ \A p \in Proc : Started(p)'
    BY <2>1 DEF IInv, Types, Kept, Started, Has
  <2>4. OwnConsole'
    BY <2>1, OpenVtAssumption DEF IInv, Types, Started, OwnConsole, OnConsole, Has
  <2> QED
    BY <2>2, <2>3, <2>4 DEF IInv
<1>3. ASSUME NEW v \in VT, Keyboard(v) PROVE IInv'
  BY <1>3 DEF IInv, Types, Started, Has, Kept, OwnConsole, OnConsole, Keyboard
<1> QED
  BY <1>1, <1>2, <1>3

LEMMA InitIInv == Init => IInv
<1> SUFFICES ASSUME Init PROVE IInv
  OBVIOUS
<1> USE VTOK
<1>1. Types
  BY OpenVtAssumption DEF Init, Types, Label, Command, User
<1>2. \A p \in Proc : Started(p)
  <2>1. \A p \in Proc : Has(p, "console") => cmd[p].vt \in VT
    BY OpenVtAssumption DEF Init, Has, Command, VT
  <2> QED
    BY <2>1 DEF Init, Started
<1>3. Kept /\ OwnConsole
  BY DEF Init, Kept, OwnConsole, OnConsole
<1> QED
  BY <1>1, <1>2, <1>3 DEF IInv

LEMMA NextIInv == IInv /\ [Next]_vars => IInv'
<1> SUFFICES ASSUME IInv, [Next]_vars PROVE IInv'
  OBVIOUS
<1>1. ASSUME NEW p \in Proc, StepOf(p) PROVE IInv'
  <2>1. Types' /\ \A q \in Proc : Started(q)'
    BY <1>1, TypesStep, StartedStep
  <2>2. Kept' /\ OwnConsole'
    BY <1>1, KeptStep, OwnStep
  <2> QED
    BY <2>1, <2>2 DEF IInv
<1>2. CASE Switch \/ Logout \/ \E v \in VT : Keyboard(v)
  BY <1>2, OthersStep
<1>3. CASE UNCHANGED vars
  BY <1>3 DEF IInv, Types, Started, Has, Kept, OwnConsole, OnConsole, vars, kernel, local
<1> QED
  BY <1>1, <1>2, <1>3 DEF Next, Finished, StepOf

(* A command is run on a console that is the terminal of its own session   *)
(* (OwnConsole), whichever programs open, claim and release consoles at    *)
(* the same time, as long as no other openvt is told -f.                   *)
THEOREM CommandOwnsConsole == Spec => []OwnConsole
<1>1. IInv => OwnConsole
  BY DEF IInv
<1> QED
  BY InitIInv, NextIInv, <1>1, PTL DEF Spec

(* The state keeps its shape; in particular no deallocvt and no openvt -w  *)
(* takes away a console that is open.                                      *)
THEOREM TypeCorrect == Spec => []TypeOK
<1>1. IInv => TypeOK
  BY DEF IInv, Types, Kept, TypeOK, InUse
<1> QED
  BY InitIInv, NextIInv, <1>1, PTL DEF Spec
=============================================================================
