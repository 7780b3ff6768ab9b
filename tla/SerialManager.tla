--------------------------- MODULE SerialManager ---------------------------
(***************************************************************************)
(* The serial communication manager of wmbusmeters                         *)
(* (SerialCommunicationManagerImp and the SerialDevice classes, in         *)
(* src/src/meter_multical603.cc lines 311-1497) with its three threads:    *)
(*                                                                         *)
(*   EL  the event loop thread      (eventLoop, lines 1199-1319)           *)
(*   MT  the main thread            (setup, then waitForStop 1032-1061)    *)
(*   TL  the timer loop thread      (timerLoop, lines 1169-1197)           *)
(*                                                                         *)
(* and the environment: a tty that is unplugged, a sub-process that        *)
(* exits.  A device's close() is not atomic and takes no lock, so it is    *)
(* modelled one shared-memory access per step, and the event loop and the *)
(* main thread may be inside close() of the same device at once.           *)
(***************************************************************************)
EXTENDS Naturals, FiniteSets, Sequences

CONSTANTS
    TTY,        \* SerialDeviceTTY objects in the manager's list
    Cmd,        \* SerialDeviceCommand objects (stdout of a sub-process)
    File,       \* SerialDeviceFile objects (a file or stdin)
    NoDev,      \* "no device": a thread that is not inside close()
    ExitAfter   \* TRUE iff the manager was created with exit_after_seconds > 0

Dev == TTY \cup Cmd \cup File

ASSUME DevAssumption ==
    /\ TTY \cap Cmd = {} /\ TTY \cap File = {} /\ Cmd \cap File = {}
    /\ NoDev \notin Dev
    /\ ExitAfter \in BOOLEAN

\* The three threads of the manager.
EL == "eventLoop"
MT == "main"
TL == "timerLoop"

(***************************************************************************)
(* fd_ of a device: -2 "unopened", -1 "closed", >= 0 "open" (line 444).   *)
(***************************************************************************)
FdState == {"unopened", "closed", "open"}

VARIABLES
    fd,            \* fd_ of each device
    present,       \* tty: the character device exists; cmd: the child runs
    pid,           \* cmd: pid_ # 0
    onDisappear,   \* on_disappear_ is set (registered by onDisappear())
    disappeared,   \* number of times on_disappear_ has been invoked
    openResult,    \* what the setup's open() of the device returned
    serialDevices, \* the devices in serial_devices_
    running,       \* running_
    expectDevicesToWork, \* expect_devices_to_work_
    devLock,       \* the main thread holds serial_devices_mutex_
    pc,            \* program counter of each thread
    todo,          \* per thread: devices still to visit in the current loop
    nonWorking,    \* EL: the non_working vector of this round was non-empty
    closing,       \* per closing thread: the device whose close() it runs
    cstep          \* per closing thread: index of its step inside close()

vars == <<fd, present, pid, onDisappear, disappeared, openResult,
          serialDevices, running, expectDevicesToWork, devLock, pc, todo,
          nonWorking, closing, cstep>>

-----------------------------------------------------------------------------
(***************************************************************************)
(* Device predicates, SerialDeviceImp lines 404-408 and the working()      *)
(* overrides of the tty (663-675), the command (759-776) and the file      *)
(* (884-899).  resetting_ is never set in this model.                      *)
(***************************************************************************)
opened(d)   == fd[d] # "unopened"
isClosed(d) == fd[d] = "closed"

\* SerialDeviceTTY::working(): the fd is not -1 and the character device
\* still exists (an unopened tty with its device present counts as working).
workingTTY(d) == fd[d] # "closed" /\ present[d]

\* SerialDeviceCommand::working(): the fd is valid and the child still runs;
\* data still pending in the pipe is not modelled (the child has written
\* nothing the model tells apart).
workingCommand(d) == fd[d] = "open" /\ pid[d] /\ present[d]

\* SerialDeviceFile::working(): the fd is valid (FIONREAD succeeds).
workingFile(d) == fd[d] = "open"

\* The virtual working() of SerialDevice.
working(d) ==
    CASE d \in TTY  -> workingTTY(d)
      [] d \in Cmd  -> workingCommand(d)
      [] d \in File -> workingFile(d)

\* A device the event loop selects on and notifies (lines 1216-1218, 1270).
listenable(d) == opened(d) /\ working(d) /\ fd[d] = "open"

(***************************************************************************)
(* The steps of close() for each kind of device, in the code's order, each *)
(* a shared-memory access or a call another thread can interleave with.   *)
(***************************************************************************)
\* Mutant: the tty's close() forgets to call on_disappear_.
closeStepsTTY_NoHook == <<"chk", "fd", "tickle">>

\* SerialDeviceTTY::close().
closeStepsTTY == <<"chk", "fd", "hook", "clear", "tickle">>

\* SerialDeviceCommand::close().
closeStepsCommand == <<"chk", "pid", "hook", "clear", "fd", "tickle">>

\* SerialDeviceFile::close(): it never calls on_disappear_.
closeStepsFile == <<"chk", "fd", "tickle">>

\* The virtual close() of SerialDevice.
closeSteps(d) ==
    CASE d \in TTY  -> closeStepsTTY
      [] d \in Cmd  -> closeStepsCommand
      [] d \in File -> closeStepsFile

\* The early return at the top of close().
closeReturnsEarly(d) ==
    IF d \in Cmd THEN ~pid[d] /\ fd[d] = "closed" ELSE fd[d] = "closed"

\* stop(), lines 1007-1024: the signals it sends are left out.
stop == running' = FALSE

\* Mutant: close() is entered at an index one before its first step.
beginClose_FromZero(t, d) ==
    /\ closing' = [closing EXCEPT ![t] = d]
    /\ cstep' = [cstep EXCEPT ![t] = 0]

\* Thread t enters close() of device d.
beginClose(t, d) ==
    /\ closing' = [closing EXCEPT ![t] = d]
    /\ cstep' = [cstep EXCEPT ![t] = 1]

\* Thread t is not inside close().
free(t) == closing[t] = NoDev

-----------------------------------------------------------------------------
Init ==
    /\ fd = [d \in Dev |-> "unopened"]
    /\ present = [d \in Dev |-> d \notin Cmd]
    /\ pid = [d \in Dev |-> FALSE]
    /\ onDisappear = [d \in Dev |-> d \in TTY \cup Cmd]
    /\ disappeared = [d \in Dev |-> 0]
    /\ openResult = [d \in Dev |-> "none"]
    /\ serialDevices = Dev
    /\ running = TRUE
    /\ expectDevicesToWork = FALSE
    /\ devLock = FALSE
    /\ pc = [t \in {EL, MT, TL} |->
                CASE t = EL -> "blocked" [] t = MT -> "setup" [] t = TL -> "run"]
    /\ todo = [t \in {EL, MT} |-> {}]
    /\ nonWorking = FALSE
    /\ closing = [t \in {EL, MT} |-> NoDev]
    /\ cstep = [t \in {EL, MT} |-> 1]

-----------------------------------------------------------------------------
(***************************************************************************)
(* The steps inside close() of device closing[t] by thread t.              *)
(***************************************************************************)
\* Leave close(), or go on with step i + 1.
advance(t, d, i) ==
    IF i >= Len(closeSteps(d))
    THEN /\ closing' = [closing EXCEPT ![t] = NoDev]
         /\ UNCHANGED cstep
    ELSE /\ cstep' = [cstep EXCEPT ![t] = i + 1]
         /\ UNCHANGED closing

step(t) == closeSteps(closing[t])[cstep[t]]

\* "if (fd_ == -1) return;" and the command's "if (pid_ == 0 && fd_ == -1)".
CloseCheck(t) ==
    LET d == closing[t] IN
    /\ d # NoDev /\ step(t) = "chk"
    /\ IF closeReturnsEarly(d)
       THEN closing' = [closing EXCEPT ![t] = NoDev] /\ UNCHANGED cstep
       ELSE advance(t, d, cstep[t])
    /\ UNCHANGED <<fd, present, pid, onDisappear, disappeared>>

\* "::close(fd_); fd_ = -1;"
CloseFd(t) ==
    LET d == closing[t] IN
    /\ d # NoDev /\ step(t) = "fd"
    /\ fd' = [fd EXCEPT ![d] = "closed"]
    /\ advance(t, d, cstep[t])
    /\ UNCHANGED <<present, pid, onDisappear, disappeared>>

\* "if (pid_ && stillRunning(pid_)) { stopBackgroundShell(pid_); pid_ = 0; }"
ClosePid(t) ==
    LET d == closing[t] IN
    /\ d # NoDev /\ step(t) = "pid"
    /\ IF pid[d] /\ present[d]
       THEN /\ pid' = [pid EXCEPT ![d] = FALSE]
            /\ present' = [present EXCEPT ![d] = FALSE]
       ELSE UNCHANGED <<pid, present>>
    /\ advance(t, d, cstep[t])
    /\ UNCHANGED <<fd, onDisappear, disappeared>>

\* "if (on_disappear_ && !resetting_) on_disappear_();" -- when the hook is
\* not set the clearing step is skipped too.
CloseHook(t) ==
    LET d == closing[t] IN
    /\ d # NoDev /\ step(t) = "hook"
    /\ IF onDisappear[d]
       THEN /\ disappeared' = [disappeared EXCEPT ![d] = @ + 1]
            /\ advance(t, d, cstep[t])
       ELSE /\ UNCHANGED disappeared
            /\ advance(t, d, cstep[t] + 1)
    /\ UNCHANGED <<fd, present, pid, onDisappear>>

\* "on_disappear_ = NULL;"
CloseClear(t) ==
    LET d == closing[t] IN
    /\ d # NoDev /\ step(t) = "clear"
    /\ onDisappear' = [onDisappear EXCEPT ![d] = FALSE]
    /\ advance(t, d, cstep[t])
    /\ UNCHANGED <<fd, present, pid, disappeared>>

\* "manager_->tickleEventLoop();" takes serial_devices_mutex_ (1079-1088):
\* the event loop waits while the main thread holds it in
\* closeAllDoNotRemove(); the main thread holds it already (recursive mutex).
CloseTickle(t) ==
    LET d == closing[t] IN
    /\ d # NoDev /\ step(t) = "tickle"
    /\ t = MT \/ ~devLock
    /\ advance(t, d, cstep[t])
    /\ UNCHANGED <<fd, present, pid, onDisappear, disappeared>>

CloseStep(t) ==
    /\ \/ CloseCheck(t) \/ CloseFd(t) \/ ClosePid(t)
       \/ CloseHook(t) \/ CloseClear(t) \/ CloseTickle(t)
    /\ UNCHANGED <<openResult, serialDevices, running, expectDevicesToWork,
                   devLock, pc, todo, nonWorking>>

-----------------------------------------------------------------------------
(***************************************************************************)
(* Main thread, setup phase: open() of the devices it created with         *)
(* create...() (strict = false), expectDevicesToWork() and                 *)
(* startEventLoop(), which releases event_loop_mutex_ (lines 1026-1030).   *)
(***************************************************************************)
\* SerialDeviceTTY::open() with openSerialTTY(): no character device leaves
\* fd_ at -2; else open() fails (-1), flock() fails (-2) or it succeeds.
openTTY(d) ==
    IF present[d] THEN {"open", "closed", "unopened"} ELSE {"unopened"}

\* SerialDeviceCommand::open(): invokeBackgroundShell always yields a pipe.
openCommand == {"open"}

\* SerialDeviceFile::open(): stdin or an opened file, a failed ::open (-1),
\* or a missing file (fd_ stays -2).
openFile == {"open", "closed", "unopened"}

\* The virtual open() of SerialDevice: the fd_ it leaves.
OpenOutcome(d) ==
    CASE d \in TTY  -> openTTY(d)
      [] d \in Cmd  -> openCommand
      [] d \in File -> openFile

Open(d) ==
    /\ pc[MT] = "setup" /\ openResult[d] = "none"
    /\ \E r \in OpenOutcome(d) :
          /\ fd' = [fd EXCEPT ![d] = r]
          /\ openResult' = [openResult EXCEPT ![d] = IF r = "open" THEN "ok" ELSE "fail"]
    /\ pid' = IF d \in Cmd THEN [pid EXCEPT ![d] = TRUE] ELSE pid
    /\ present' = IF d \in Cmd THEN [present EXCEPT ![d] = TRUE] ELSE present
    /\ UNCHANGED <<onDisappear, disappeared, serialDevices, running,
                   expectDevicesToWork, devLock, pc, todo, nonWorking,
                   closing, cstep>>

\* expectDevicesToWork(), lines 1001-1005.
ExpectDevicesToWork ==
    /\ pc[MT] = "setup" /\ ~expectDevicesToWork
    /\ expectDevicesToWork' = TRUE
    /\ UNCHANGED <<fd, present, pid, onDisappear, disappeared, openResult,
                   serialDevices, running, devLock, pc, todo, nonWorking,
                   closing, cstep>>

\* startEventLoop() followed by the call of waitForStop().
StartEventLoop ==
    /\ pc[MT] = "setup"
    /\ pc' = [pc EXCEPT ![MT] = "wait", ![EL] = "top"]
    /\ UNCHANGED <<fd, present, pid, onDisappear, disappeared, openResult,
                   serialDevices, running, expectDevicesToWork, devLock,
                   todo, nonWorking, closing, cstep>>

(***************************************************************************)
(* Main thread, waitForStop() lines 1032-1061: it sleeps until running_    *)
(* is false or serial_devices_ is empty, then closeAllDoNotRemove()        *)
(* (1113-1125) closes every listed device while it holds                   *)
(* serial_devices_mutex_, then it joins the two loop threads.              *)
(***************************************************************************)
WaitForStopWakes ==
    /\ pc[MT] = "wait"
    /\ ~running \/ serialDevices = {}
    /\ pc' = [pc EXCEPT ![MT] = "closeAll"]
    /\ todo' = [todo EXCEPT ![MT] = serialDevices]
    /\ devLock' = (serialDevices # {})
    /\ UNCHANGED <<fd, present, pid, onDisappear, disappeared, openResult,
                   serialDevices, running, expectDevicesToWork, nonWorking,
                   closing, cstep>>

\* Mutant: the loop of closeAllDoNotRemove() never advances past a device.
CloseAllNext_NoErase ==
    /\ pc[MT] = "closeAll" /\ free(MT)
    /\ \E d \in todo[MT] :
          /\ UNCHANGED todo
          /\ beginClose(MT, d)
    /\ UNCHANGED <<fd, present, pid, onDisappear, disappeared, openResult,
                   serialDevices, running, expectDevicesToWork, devLock, pc,
                   nonWorking>>

CloseAllNext ==
    /\ pc[MT] = "closeAll" /\ free(MT)
    /\ \E d \in todo[MT] :
          /\ todo' = [todo EXCEPT ![MT] = @ \ {d}]
          /\ beginClose(MT, d)
    /\ UNCHANGED <<fd, present, pid, onDisappear, disappeared, openResult,
                   serialDevices, running, expectDevicesToWork, devLock, pc,
                   nonWorking>>

CloseAllDone ==
    /\ pc[MT] = "closeAll" /\ free(MT) /\ todo[MT] = {}
    /\ devLock' = FALSE
    /\ pc' = [pc EXCEPT ![MT] = "join"]
    /\ UNCHANGED <<fd, present, pid, onDisappear, disappeared, openResult,
                   serialDevices, running, expectDevicesToWork, todo,
                   nonWorking, closing, cstep>>

\* pthread_join of the event loop and of the timer loop.
Join ==
    /\ pc[MT] = "join" /\ pc[EL] = "done" /\ pc[TL] = "done"
    /\ pc' = [pc EXCEPT ![MT] = "done"]
    /\ UNCHANGED <<fd, present, pid, onDisappear, disappeared, openResult,
                   serialDevices, running, expectDevicesToWork, devLock, todo,
                   nonWorking, closing, cstep>>

(***************************************************************************)
(* Timer loop, lines 1169-1197: it leaves when running_ is false, and when *)
(* exit_after_seconds have passed it calls stop().  Time is not modelled:  *)
(* the deadline may pass at any moment.  executeTimerCallbacks is modelled *)
(* in the module Timers.                                                   *)
(***************************************************************************)
TimerLoopEnds ==
    /\ pc[TL] = "run" /\ ~running
    /\ pc' = [pc EXCEPT ![TL] = "done"]
    /\ UNCHANGED <<fd, present, pid, onDisappear, disappeared, openResult,
                   serialDevices, running, expectDevicesToWork, devLock, todo,
                   nonWorking, closing, cstep>>

ExitAfterSeconds ==
    /\ pc[TL] = "run" /\ running /\ ExitAfter
    /\ stop
    /\ pc' = [pc EXCEPT ![TL] = "done"]
    /\ UNCHANGED <<fd, present, pid, onDisappear, disappeared, openResult,
                   serialDevices, expectDevicesToWork, devLock, todo,
                   nonWorking, closing, cstep>>

(***************************************************************************)
(* Event loop, lines 1199-1319.  Each block the code runs under            *)
(* serial_devices_mutex_ is one step, enabled only while the main thread   *)
(* does not hold that mutex; close() runs outside it.                      *)
(***************************************************************************)
elVars == <<fd, present, pid, onDisappear, disappeared, openResult,
            expectDevicesToWork, devLock>>

\* "while (running_)" finds running_ false.
EventLoopEnds ==
    /\ pc[EL] = "top" /\ ~running
    /\ pc' = [pc EXCEPT ![EL] = "done"]
    /\ UNCHANGED <<elVars, serialDevices, running, todo, nonWorking,
                   closing, cstep>>

\* Some listed device is opened but not working (lines 1224, 1228-1233).
notAllWorking == \E d \in serialDevices : opened(d) /\ ~working(d)

\* The fd_set of the listenable devices is built; with a non-working
\* device and expect_devices_to_work_ the loop stops and breaks.
ListenSnapshot ==
    /\ pc[EL] = "top" /\ running /\ ~devLock
    /\ todo' = [todo EXCEPT ![EL] = {d \in serialDevices : listenable(d)}]
    /\ IF notAllWorking /\ expectDevicesToWork
       THEN stop /\ pc' = [pc EXCEPT ![EL] = "done"]
       ELSE UNCHANGED running /\ pc' = [pc EXCEPT ![EL] = "select"]
    /\ UNCHANGED <<elVars, serialDevices, nonWorking, closing, cstep>>

\* select() returns; "if (!running_) break;" (line 1255).
SelectStopped ==
    /\ pc[EL] = "select" /\ ~running
    /\ pc' = [pc EXCEPT ![EL] = "done"]
    /\ UNCHANGED <<elVars, serialDevices, running, todo, nonWorking,
                   closing, cstep>>

\* select() times out, is interrupted or fails: straight to the sweep.
SelectTimeout ==
    /\ pc[EL] = "select" /\ running
    /\ pc' = [pc EXCEPT ![EL] = "sweep"]
    /\ UNCHANGED <<elVars, serialDevices, running, todo, nonWorking,
                   closing, cstep>>

\* select() reports the set R of readable fds; to_be_notified is built
\* under the mutex from the devices that are still listenable (1264-1279).
SelectReady ==
    /\ pc[EL] = "select" /\ running /\ ~devLock
    /\ \E R \in SUBSET todo[EL] :
          /\ R # {}
          /\ todo' = [todo EXCEPT ![EL] = {d \in R \cap serialDevices : listenable(d)}]
    /\ pc' = [pc EXCEPT ![EL] = "notify"]
    /\ UNCHANGED <<elVars, serialDevices, running, nonWorking, closing, cstep>>

\* The byte stream of d has ended: a file at EOF, or a command whose child
\* has exited (read() returns 0 and getchar() returns EOF, lines 488-503).
endOfStream(d) == d \in File \/ (d \in Cmd /\ ~present[d])

\* on_data_() of d runs outside the mutex; it is the bus device's
\* processSerialData, which calls receive() (471-537).  receive() closes the
\* device on EOF, and on EBADF when the fd is no longer open.
OnData(d) ==
    /\ pc[EL] = "notify" /\ free(EL) /\ d \in todo[EL]
    /\ todo' = [todo EXCEPT ![EL] = @ \ {d}]
    /\ IF fd[d] # "open"
       THEN beginClose(EL, d)
       ELSE \/ UNCHANGED <<closing, cstep>>
            \/ endOfStream(d) /\ beginClose(EL, d)
    /\ UNCHANGED <<elVars, serialDevices, running, pc, nonWorking>>

NotifyDone ==
    /\ pc[EL] = "notify" /\ free(EL) /\ todo[EL] = {}
    /\ pc' = [pc EXCEPT ![EL] = "sweep"]
    /\ UNCHANGED <<elVars, serialDevices, running, todo, nonWorking,
                   closing, cstep>>

\* non_working: the opened, non-working, not closed devices (1291-1299).
Sweep ==
    /\ pc[EL] = "sweep" /\ ~devLock
    /\ LET S == {d \in serialDevices : opened(d) /\ ~working(d) /\ ~isClosed(d)}
       IN /\ todo' = [todo EXCEPT ![EL] = S]
          /\ nonWorking' = (S # {})
    /\ pc' = [pc EXCEPT ![EL] = "sweepClose"]
    /\ UNCHANGED <<elVars, serialDevices, running, closing, cstep>>

\* Each of them is closed outside the mutex (1301-1305).
SweepCloseNext ==
    /\ pc[EL] = "sweepClose" /\ free(EL)
    /\ \E d \in todo[EL] :
          /\ todo' = [todo EXCEPT ![EL] = @ \ {d}]
          /\ beginClose(EL, d)
    /\ UNCHANGED <<elVars, serialDevices, running, pc, nonWorking>>

SweepCloseDone ==
    /\ pc[EL] = "sweepClose" /\ free(EL) /\ todo[EL] = {}
    /\ pc' = [pc EXCEPT ![EL] = "remove"]
    /\ UNCHANGED <<elVars, serialDevices, running, todo, nonWorking,
                   closing, cstep>>

\* Mutant: removeNonWorkingSerialDevices() without the stop on an empty list.
RemoveNonWorking_NoEmptyStop ==
    /\ pc[EL] = "remove" /\ ~devLock
    /\ LET rest == {d \in serialDevices : ~(opened(d) /\ ~working(d))}
       IN /\ serialDevices' = rest
          /\ running' = IF expectDevicesToWork /\ nonWorking
                        THEN FALSE ELSE running
    /\ pc' = [pc EXCEPT ![EL] = IF expectDevicesToWork /\ nonWorking
                                THEN "done" ELSE "top"]
    /\ UNCHANGED <<elVars, todo, nonWorking, closing, cstep>>

\* removeNonWorkingSerialDevices() (1090-1111) erases every opened,
\* non-working device and stops on an empty list when devices are expected
\* to work; then the loop stops if non_working was not empty (1309-1314).
RemoveNonWorking ==
    /\ pc[EL] = "remove" /\ ~devLock
    /\ LET rest == {d \in serialDevices : ~(opened(d) /\ ~working(d))}
       IN /\ serialDevices' = rest
          /\ running' = IF expectDevicesToWork /\ (rest = {} \/ nonWorking)
                        THEN FALSE ELSE running
    /\ pc' = [pc EXCEPT ![EL] = IF expectDevicesToWork /\ nonWorking
                                THEN "done" ELSE "top"]
    /\ UNCHANGED <<elVars, todo, nonWorking, closing, cstep>>

(***************************************************************************)
(* The environment: a tty's character device disappears (hot unplug), a   *)
(* command's child process exits.                                          *)
(***************************************************************************)
Unplug(d) ==
    /\ d \in TTY /\ present[d]
    /\ present' = [present EXCEPT ![d] = FALSE]
    /\ UNCHANGED <<fd, pid, onDisappear, disappeared, openResult,
                   serialDevices, running, expectDevicesToWork, devLock, pc,
                   todo, nonWorking, closing, cstep>>

ChildExits(d) ==
    /\ d \in Cmd /\ present[d]
    /\ present' = [present EXCEPT ![d] = FALSE]
    /\ UNCHANGED <<fd, pid, onDisappear, disappeared, openResult,
                   serialDevices, running, expectDevicesToWork, devLock, pc,
                   todo, nonWorking, closing, cstep>>

-----------------------------------------------------------------------------
AllDone == \A t \in {EL, MT, TL} : pc[t] = "done"

EventLoop ==
    \/ EventLoopEnds \/ ListenSnapshot \/ SelectStopped \/ SelectTimeout
    \/ SelectReady \/ (\E d \in Dev : OnData(d)) \/ NotifyDone \/ Sweep
    \/ SweepCloseNext \/ SweepCloseDone \/ RemoveNonWorking
    \/ CloseStep(EL)

MainThread ==
    \/ (\E d \in Dev : Open(d)) \/ ExpectDevicesToWork \/ StartEventLoop
    \/ WaitForStopWakes \/ CloseAllNext \/ CloseAllDone \/ Join
    \/ CloseStep(MT)

TimerLoop == TimerLoopEnds \/ ExitAfterSeconds

Environment == \E d \in Dev : Unplug(d) \/ ChildExits(d)

Next ==
    \/ EventLoop \/ MainThread \/ TimerLoop \/ Environment
    \/ (AllDone /\ UNCHANGED vars)   \* the process has exited

(***************************************************************************)
(* Each thread is scheduled by the OS and never blocks for long: select()  *)
(* and the sleeps have one-second timeouts.  The environment is not fair.  *)
(***************************************************************************)
Spec ==
    /\ Init /\ [][Next]_vars
    /\ WF_vars(EventLoop) /\ WF_vars(MainThread) /\ WF_vars(TimerLoop)

-----------------------------------------------------------------------------
TypeOK ==
    /\ fd \in [Dev -> FdState]
    /\ present \in [Dev -> BOOLEAN]
    /\ pid \in [Dev -> BOOLEAN]
    /\ onDisappear \in [Dev -> BOOLEAN]
    /\ disappeared \in [Dev -> Nat]
    /\ openResult \in [Dev -> {"none", "ok", "fail"}]
    /\ serialDevices \in SUBSET Dev
    /\ running \in BOOLEAN
    /\ expectDevicesToWork \in BOOLEAN
    /\ devLock \in BOOLEAN
    /\ pc \in [{EL, MT, TL} -> {"blocked", "top", "select", "notify", "sweep",
                                "sweepClose", "remove", "setup", "wait",
                                "closeAll", "join", "run", "done"}]
    /\ todo \in [{EL, MT} -> SUBSET Dev]
    /\ nonWorking \in BOOLEAN
    /\ closing \in [{EL, MT} -> Dev \cup {NoDev}]
    /\ cstep \in [{EL, MT} -> 1..6]

\* Thread t is inside close() of d.
inClose(d) == \E t \in {EL, MT} : closing[t] = d

(***************************************************************************)
(* The on_disappear_ hook of a tty or command that was opened fires once:  *)
(* never twice, and once its fd is closed and no close() of it is under   *)
(* way it has fired (spec 3 "Lifecycle", 8.f "onDisappear fires once").    *)
(* It is about close() being called from the event loop's sweep, from      *)
(* receive() and from closeAllDoNotRemove() without a lock.                *)
(***************************************************************************)
DisappearExactlyOnce ==
    \A d \in TTY \cup Cmd :
        /\ disappeared[d] <= 1
        /\ (openResult[d] = "ok" /\ isClosed(d) /\ ~inClose(d))
              => disappeared[d] = 1

(***************************************************************************)
(* A device that was opened leaves serial_devices_ only after it has been *)
(* closed (spec 4.B: "any source that is opened and not working is closed; *)
(* any source that is closed is removed").  It is about the sweep's        *)
(* snapshot (1291-1299) and removeNonWorkingSerialDevices (1090-1111)      *)
(* being two critical sections.                                            *)
(***************************************************************************)
RemovedOnlyIfClosed ==
    \A d \in Dev : (openResult[d] = "ok" /\ d \notin serialDevices) => isClosed(d)

(***************************************************************************)
(* Once stop() has been called, the event loop and the timer loop end and  *)
(* waitForStop() returns (spec 8.5).  It is about the loops polling        *)
(* running_ and the main thread joining both.                              *)
(***************************************************************************)
Termination == ~running ~> AllDone

(***************************************************************************)
(* With expect_devices_to_work_ latched, once every listed device is       *)
(* opened and not working the manager stops (spec 4.B "Emergency stop").   *)
(* It is about the checks at the top of the event loop, after the sweep    *)
(* and in removeNonWorkingSerialDevices.                                   *)
(***************************************************************************)
EmergencyStop ==
    (/\ expectDevicesToWork /\ serialDevices # {}
     /\ \A d \in serialDevices : opened(d) /\ ~working(d)) ~> ~running
====
