--------------------------- MODULE WMBusSimulator ---------------------------
(***************************************************************************)
(* WMBusSimulator::simulate (wmbus_simulator.cc) replays a script of      *)
(* lines.  A line "telegram=HEX" is handed to handleTelegram at once; a   *)
(* line "telegram=HEX|+N" first waits until N seconds after the start of  *)
(* the replay, polling time(NULL) and sleeping one second per round, and  *)
(* leaves the wait early when the manager is no longer running.  Other    *)
(* lines are skipped.  At the end simulate calls manager_->stop().        *)
(*                                                                         *)
(* A script line is a record: tele says whether it starts with            *)
(* "telegram=", rel is the N after '+' or NoTime when there is none.  The *)
(* wall clock is a counter of whole seconds that the environment advances *)
(* (Tick); another thread may call stop() at any moment (StopElsewhere):  *)
(* the timer loop on exit_after_seconds, or a signal handler.             *)
(***************************************************************************)
EXTENDS Naturals, Sequences

CONSTANTS
    Lines,     \* the script: a sequence of [tele: BOOLEAN, rel: Nat \cup {NoTime}]
    NoTime,    \* rel of a line without "|+N"
    MaxTime    \* the last second the clock reaches

ASSUME SimAssumption ==
    /\ MaxTime \in Nat
    /\ NoTime \notin Nat
    /\ Lines \in Seq([tele: BOOLEAN, rel: Nat \cup {NoTime}])

VARIABLES
    clock,       \* time(NULL)
    start_time,  \* time(NULL) when simulate began
    running,     \* manager_->isRunning()
    pc,          \* where simulate is
    idx,         \* the current line of the for loop over lines_
    curr,        \* the local curr of the wait loop
    wake,        \* the second at which the current usleep(1000*1000) ends
    delivered,   \* the telegrams handed to handleTelegram: line, clock, stopped
    slept_after_stop  \* usleep calls begun after stop()

vars == <<clock, start_time, running, pc, idx, curr, wake, delivered, slept_after_stop>>

target == start_time + Lines[idx].rel

\* handleTelegram(about, payload) for the current line, then the next line.
deliver ==
    /\ delivered' = Append(delivered, [line |-> idx, at |-> clock, stopped |-> ~running])
    /\ idx' = idx + 1
    /\ pc' = "line"

Init ==
    /\ clock \in 0..1
    /\ start_time = clock
    /\ running = TRUE
    /\ pc = "line"
    /\ idx = 1
    /\ curr = 0
    /\ wake = 0
    /\ delivered = <<>>
    /\ slept_after_stop = 0

(***************************************************************************)
(* One round of the for loop up to the wait: a line that is no telegram   *)
(* is skipped, a telegram without a time or whose time has come is        *)
(* delivered, and a later one enters the wait loop.                       *)
(***************************************************************************)
NextLine ==
    /\ pc = "line"
    /\ idx <= Len(Lines)
    /\ \/ /\ ~Lines[idx].tele
          /\ idx' = idx + 1
          /\ UNCHANGED <<pc, delivered, curr>>
       \/ /\ Lines[idx].tele
          /\ Lines[idx].rel = NoTime
          /\ deliver
          /\ UNCHANGED curr
       \/ /\ Lines[idx].tele
          /\ Lines[idx].rel # NoTime
          /\ curr' = clock
          /\ \/ /\ ~(clock < target)
                /\ deliver
             \/ /\ clock < target
                /\ pc' = "wait"
                /\ UNCHANGED <<idx, delivered>>
    /\ UNCHANGED <<clock, start_time, running, wake, slept_after_stop>>

\* Mutant: the loop tests the curr read before it and never reads the clock.
WaitCheck_StaleCurr ==
    /\ pc = "wait"
    /\ \/ /\ curr > target
          /\ deliver
          /\ UNCHANGED <<wake, slept_after_stop>>
       \/ /\ ~(curr > target)
          /\ pc' = "sleep"
          /\ wake' = clock + 1
          /\ slept_after_stop' = IF running THEN slept_after_stop ELSE slept_after_stop + 1
          /\ UNCHANGED <<idx, delivered>>
    /\ UNCHANGED <<clock, start_time, running, curr>>

\* Mutant: each round sleeps two seconds.
WaitCheck_TwoSeconds ==
    /\ pc = "wait"
    /\ curr' = clock
    /\ \/ /\ clock > target
          /\ deliver
          /\ UNCHANGED <<wake, slept_after_stop>>
       \/ /\ ~(clock > target)
          /\ pc' = "sleep"
          /\ wake' = clock + 2
          /\ slept_after_stop' = IF running THEN slept_after_stop ELSE slept_after_stop + 1
          /\ UNCHANGED <<idx, delivered>>
    /\ UNCHANGED <<clock, start_time, running>>

\* The top of for(;;): curr = time(NULL); break once it is past the target,
\* else usleep(1000*1000).
WaitCheck ==
    /\ pc = "wait"
    /\ curr' = clock
    /\ \/ /\ clock > target
          /\ deliver
          /\ UNCHANGED <<wake, slept_after_stop>>
       \/ /\ ~(clock > target)
          /\ pc' = "sleep"
          /\ wake' = clock + 1
          /\ slept_after_stop' = IF running THEN slept_after_stop ELSE slept_after_stop + 1
          /\ UNCHANGED <<idx, delivered>>
    /\ UNCHANGED <<clock, start_time, running>>

\* Mutant: the isRunning test is inverted, so a running wait breaks at once.
WakeUp_Inverted ==
    /\ pc = "sleep"
    /\ clock >= wake
    /\ \/ /\ ~running
          /\ pc' = "wait"
          /\ UNCHANGED <<idx, delivered>>
       \/ /\ running
          /\ deliver
    /\ UNCHANGED <<clock, start_time, running, curr, wake, slept_after_stop>>

\* Mutant: leaving the wait early skips the telegram.
WakeUp_StopSkips ==
    /\ pc = "sleep"
    /\ clock >= wake
    /\ \/ /\ running
          /\ pc' = "wait"
          /\ UNCHANGED <<idx, delivered>>
       \/ /\ ~running
          /\ idx' = idx + 1
          /\ pc' = "line"
          /\ UNCHANGED delivered
    /\ UNCHANGED <<clock, start_time, running, curr, wake, slept_after_stop>>

\* usleep returns; if (!manager_->isRunning()) break, else loop again.  The
\* break falls through to handleTelegram.
WakeUp ==
    /\ pc = "sleep"
    /\ clock >= wake
    /\ \/ /\ running
          /\ pc' = "wait"
          /\ UNCHANGED <<idx, delivered>>
       \/ /\ ~running
          /\ deliver
    /\ UNCHANGED <<clock, start_time, running, curr, wake, slept_after_stop>>

\* After the last line: manager_->stop().
SimulateEnds ==
    /\ pc = "line"
    /\ idx > Len(Lines)
    /\ running' = FALSE
    /\ pc' = "done"
    /\ UNCHANGED <<clock, start_time, idx, curr, wake, delivered, slept_after_stop>>

Simulate == NextLine \/ WaitCheck \/ WakeUp \/ SimulateEnds

(***************************************************************************)
(* The environment: the clock advances, and stop() may come from another  *)
(* thread.                                                                 *)
(***************************************************************************)
Tick ==
    /\ clock < MaxTime
    /\ clock' = clock + 1
    /\ UNCHANGED <<start_time, running, pc, idx, curr, wake, delivered, slept_after_stop>>

StopElsewhere ==
    /\ running
    /\ running' = FALSE
    /\ UNCHANGED <<clock, start_time, pc, idx, curr, wake, delivered, slept_after_stop>>

\* The clock has reached the bound of the model and stands still.
TimeBound ==
    /\ clock = MaxTime
    /\ UNCHANGED vars

Next == Simulate \/ Tick \/ StopElsewhere \/ TimeBound

\* The simulating thread is scheduled and the wall clock advances; stop()
\* from elsewhere may never come.
Spec == Init /\ [][Next]_vars /\ WF_vars(Simulate) /\ WF_vars(Tick)

-----------------------------------------------------------------------------
Delivery == [line: Nat, at: Nat, stopped: BOOLEAN]

TypeOK ==
    /\ clock \in 0..MaxTime
    /\ start_time \in 0..1
    /\ running \in BOOLEAN
    /\ pc \in {"line", "wait", "sleep", "done"}
    /\ idx \in 1..(Len(Lines) + 1)
    /\ curr \in 0..MaxTime
    /\ wake \in 0..MaxTime       \* no sleep outlasts the clock bound
    /\ delivered \in Seq(Delivery)
    /\ slept_after_stop \in Nat


(***************************************************************************)
(* Spec 8 scenario d: a telegram line with "|+N" is not handed on before  *)
(* N seconds after simulate started, unless stop() cut the wait short.    *)
(***************************************************************************)
NotEarly ==
    \A i \in DOMAIN delivered :
        LET l == Lines[delivered[i].line] IN
        l.rel # NoTime => (delivered[i].at >= start_time + l.rel \/ delivered[i].stopped)

deliveredLines == [i \in DOMAIN delivered |-> delivered[i].line]

Replay == INSTANCE TimedReplay WITH sent <- deliveredLines, finished <- (pc = "done")

(***************************************************************************)
(* simulate implements the replay it promises (module TimedReplay): every *)
(* telegram line of the script reaches handleTelegram once, in script     *)
(* order and none skipped, also when stop() interrupts a wait (the early  *)
(* break of the wait loop falls through to handleTelegram); a timed line  *)
(* not before its time unless stopped; then manager_->stop().  The skipped *)
(* comment lines, the wait loop's polls and sleeps are stutter steps of   *)
(* the replay, and every due telegram is eventually handed on.            *)
(***************************************************************************)
ImplementsReplay == Replay!Spec

(***************************************************************************)
(* simulate returns and calls manager_->stop(), whether or not anybody    *)
(* else stops the manager: the wait loop re-reads the clock every round.  *)
(***************************************************************************)
Termination == <>(pc = "done")

(***************************************************************************)
(* Spec 5: cooperative sleeps in simulators return within one tick of     *)
(* stop().  Counted here as the usleep(1000*1000) calls simulate begins   *)
(* after stop(): at most one.                                              *)
(***************************************************************************)
OneTickAfterStop == slept_after_stop <= 1
=============================================================================
