------------------------ MODULE SerialManagerProofs ------------------------
(***************************************************************************)
(* Proofs about the serial communication manager of SerialManager.tla.     *)
(***************************************************************************)
EXTENDS SerialManager, TLAPS

Threads == {EL, MT}

(***************************************************************************)
(* close() of every device is a sequence of one to six steps.             *)
(***************************************************************************)
LEMMA CloseStepsLen ==
    ASSUME NEW d \in Dev
    PROVE  Len(closeSteps(d)) \in 1..6
<1>1. CASE d \in TTY
  BY <1>1, DevAssumption DEF closeSteps, closeStepsTTY, closeStepsCommand, closeStepsFile
<1>2. CASE d \in Cmd
  BY <1>2, DevAssumption DEF closeSteps, closeStepsTTY, closeStepsCommand, closeStepsFile
<1>3. CASE d \in File
  BY <1>3, DevAssumption DEF closeSteps, closeStepsTTY, closeStepsCommand, closeStepsFile
<1>. QED  BY <1>1, <1>2, <1>3 DEF Dev

(***************************************************************************)
(* Going on inside close(), or leaving it, keeps closing and cstep typed.  *)
(***************************************************************************)
LEMMA AdvanceType ==
    ASSUME NEW t \in Threads, NEW d \in Dev, NEW i \in Nat, i >= 1,
           closing \in [Threads -> Dev \cup {NoDev}],
           cstep \in [Threads -> 1..6],
           advance(t, d, i)
    PROVE  /\ closing' \in [Threads -> Dev \cup {NoDev}]
           /\ cstep' \in [Threads -> 1..6]
<1>. DEFINE n == Len(closeSteps(d))
<1>1. n \in 1..6  BY CloseStepsLen
<1>. HIDE DEF n
<1>2. CASE i >= n
  BY <1>2 DEF advance, n
<1>3. CASE ~(i >= n)
  <2>1. i + 1 \in 1..6  BY <1>1, <1>3
  <2>. QED  BY <1>3, <2>1 DEF advance, n
<1>. QED  BY <1>2, <1>3

(***************************************************************************)
(* Every step of close() keeps the state typed.                            *)
(***************************************************************************)
LEMMA CloseStepType ==
    ASSUME TypeOK, NEW t \in Threads, CloseStep(t)
    PROVE  TypeOK'
<1>. DEFINE d == closing[t]
<1>. USE DEF TypeOK, Threads
<1>1. CASE CloseCheck(t)
  <2>1. d \in Dev  BY <1>1 DEF CloseCheck
  <2>2. /\ closing' \in [Threads -> Dev \cup {NoDev}]
        /\ cstep' \in [Threads -> 1..6]
    BY <1>1, <2>1, AdvanceType DEF CloseCheck
  <2>. QED  BY <1>1, <2>2 DEF CloseStep, CloseCheck
<1>2. CASE CloseFd(t)
  <2>1. d \in Dev  BY <1>2 DEF CloseFd
  <2>2. /\ closing' \in [Threads -> Dev \cup {NoDev}]
        /\ cstep' \in [Threads -> 1..6]
    BY <1>2, <2>1, AdvanceType DEF CloseFd
  <2>. QED  BY <1>2, <2>1, <2>2 DEF CloseStep, CloseFd, FdState
<1>3. CASE ClosePid(t)
  <2>1. d \in Dev  BY <1>3 DEF ClosePid
  <2>3. /\ pid' \in [Dev -> BOOLEAN]
        /\ present' \in [Dev -> BOOLEAN]
    BY <1>3, <2>1 DEF ClosePid
  <2>2. /\ closing' \in [Threads -> Dev \cup {NoDev}]
        /\ cstep' \in [Threads -> 1..6]
    BY <1>3, <2>1, AdvanceType DEF ClosePid
  <2>. QED  BY <1>3, <2>2, <2>3 DEF CloseStep, ClosePid
<1>4. CASE CloseHook(t)
  <2>1. d \in Dev  BY <1>4 DEF CloseHook
  <2>2. /\ closing' \in [Threads -> Dev \cup {NoDev}]
        /\ cstep' \in [Threads -> 1..6]
    BY <1>4, <2>1, AdvanceType DEF CloseHook
  <2>. QED  BY <1>4, <2>1, <2>2 DEF CloseStep, CloseHook
<1>5. CASE CloseClear(t)
  <2>1. d \in Dev  BY <1>5 DEF CloseClear
  <2>2. /\ closing' \in [Threads -> Dev \cup {NoDev}]
        /\ cstep' \in [Threads -> 1..6]
    BY <1>5, <2>1, AdvanceType DEF CloseClear
  <2>. QED  BY <1>5, <2>1, <2>2 DEF CloseStep, CloseClear
<1>6. CASE CloseTickle(t)
  <2>1. d \in Dev  BY <1>6 DEF CloseTickle
  <2>2. /\ closing' \in [Threads -> Dev \cup {NoDev}]
        /\ cstep' \in [Threads -> 1..6]
    BY <1>6, <2>1, AdvanceType DEF CloseTickle
  <2>. QED  BY <1>6, <2>2 DEF CloseStep, CloseTickle
<1>. QED  BY <1>1, <1>2, <1>3, <1>4, <1>5, <1>6 DEF CloseStep

(***************************************************************************)
(* The state of the manager is always well typed: every fd_ is unopened,  *)
(* closed or open, every thread's program counter is one of its labels    *)
(* and a thread inside close() is at one of that close()'s steps.          *)
\* Every initial state is well typed.
LEMMA InitTypeOK == Init => TypeOK
<2> SUFFICES ASSUME Init PROVE TypeOK
  OBVIOUS
<2>1. pc \in [{EL, MT, TL} -> {"blocked", "top", "select", "notify", "sweep",
                              "sweepClose", "remove", "setup", "wait",
                              "closeAll", "join", "run", "done"}]
  BY DEF Init, EL, MT, TL
<2>2. /\ fd \in [Dev -> FdState]
      /\ present \in [Dev -> BOOLEAN]
      /\ pid \in [Dev -> BOOLEAN]
      /\ onDisappear \in [Dev -> BOOLEAN]
      /\ disappeared \in [Dev -> Nat]
      /\ openResult \in [Dev -> {"none", "ok", "fail"}]
      /\ serialDevices \in SUBSET Dev
  BY DEF Init, FdState
<2>3. /\ todo \in [{EL, MT} -> SUBSET Dev]
      /\ closing \in [{EL, MT} -> Dev \cup {NoDev}]
      /\ cstep \in [{EL, MT} -> 1..6]
  BY DEF Init
<2>4. /\ running \in BOOLEAN /\ expectDevicesToWork \in BOOLEAN
      /\ devLock \in BOOLEAN /\ nonWorking \in BOOLEAN
  BY DEF Init
<2>. QED  BY <2>1, <2>2, <2>3, <2>4 DEF TypeOK

\* Every step keeps the state well typed.
LEMMA NextTypeOK == TypeOK /\ [Next]_vars => TypeOK'
<2> SUFFICES ASSUME TypeOK, [Next]_vars PROVE TypeOK'
  OBVIOUS
<2>. USE DEF TypeOK
<2>1. CASE CloseStep(EL)  BY <2>1, CloseStepType DEF Threads
<2>2. CASE CloseStep(MT)  BY <2>2, CloseStepType DEF Threads
<2>3. ASSUME NEW d \in Dev, Open(d) PROVE TypeOK'
  <3>1. CASE d \in TTY
    BY <2>3, <3>1, DevAssumption DEF Open, OpenOutcome, openTTY, openCommand, openFile, FdState
  <3>2. CASE d \in Cmd
    BY <2>3, <3>2, DevAssumption DEF Open, OpenOutcome, openTTY, openCommand, openFile, FdState
  <3>3. CASE d \in File
    BY <2>3, <3>3, DevAssumption DEF Open, OpenOutcome, openTTY, openCommand, openFile, FdState
  <3>. QED  BY <3>1, <3>2, <3>3 DEF Dev
<2>4. CASE ExpectDevicesToWork  BY <2>4 DEF ExpectDevicesToWork
<2>5. CASE StartEventLoop  BY <2>5 DEF StartEventLoop
<2>6. CASE WaitForStopWakes  BY <2>6 DEF WaitForStopWakes
<2>7. CASE CloseAllNext  BY <2>7 DEF CloseAllNext, beginClose
<2>8. CASE CloseAllDone  BY <2>8 DEF CloseAllDone
<2>9. CASE Join  BY <2>9 DEF Join
<2>10. CASE TimerLoopEnds  BY <2>10 DEF TimerLoopEnds
<2>11. CASE ExitAfterSeconds  BY <2>11 DEF ExitAfterSeconds, stop
<2>12. CASE EventLoopEnds  BY <2>12 DEF EventLoopEnds, elVars
<2>13. CASE ListenSnapshot  BY <2>13 DEF ListenSnapshot, elVars, stop
<2>14. CASE SelectStopped  BY <2>14 DEF SelectStopped, elVars
<2>15. CASE SelectTimeout  BY <2>15 DEF SelectTimeout, elVars
<2>16. CASE SelectReady  BY <2>16 DEF SelectReady, elVars
<2>17. ASSUME NEW d \in Dev, OnData(d) PROVE TypeOK'
  BY <2>17 DEF OnData, elVars, beginClose
<2>18. CASE NotifyDone  BY <2>18 DEF NotifyDone, elVars
<2>19. CASE Sweep  BY <2>19 DEF Sweep, elVars
<2>20. CASE SweepCloseNext  BY <2>20 DEF SweepCloseNext, elVars, beginClose
<2>21. CASE SweepCloseDone  BY <2>21 DEF SweepCloseDone, elVars
<2>22. CASE RemoveNonWorking  BY <2>22 DEF RemoveNonWorking, elVars
<2>23. ASSUME NEW d \in Dev, Unplug(d) \/ ChildExits(d) PROVE TypeOK'
  BY <2>23 DEF Unplug, ChildExits
<2>24. CASE AllDone /\ UNCHANGED vars  BY <2>24 DEF vars
<2>25. CASE UNCHANGED vars  BY <2>25 DEF vars
<2>. QED
  BY <2>1, <2>2, <2>3, <2>4, <2>5, <2>6, <2>7, <2>8, <2>9, <2>10, <2>11,
     <2>12, <2>13, <2>14, <2>15, <2>16, <2>17, <2>18, <2>19, <2>20, <2>21,
     <2>22, <2>23, <2>24, <2>25
  DEF Next, EventLoop, MainThread, TimerLoop, Environment

(***************************************************************************)
THEOREM TypeCorrect == Spec => []TypeOK
BY InitTypeOK, NextTypeOK, PTL DEF Spec
====
