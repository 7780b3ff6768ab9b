------------------------------- MODULE Timers -------------------------------
(***************************************************************************)
(* The regular callbacks of SerialCommunicationManagerImp                  *)
(* (meter_multical603.cc).  A client thread registers a callback with      *)
(* startRegularCallback, which appends a Timer to timers_ and returns its  *)
(* id, and later cancels it with stopRegularCallback(id).  The timer loop  *)
(* sleeps one second, then executeTimerCallbacks copies, under             *)
(* timers_mutex_, every timer that isTime(curr) while setting its          *)
(* last_call to curr, and invokes the copies after the lock is released.  *)
(*                                                                         *)
(* A callback is named by a model value of Names; a client registers each  *)
(* name at most once at a time and keeps the id it got back in handle.    *)
(* The field reg of a Timer is a history variable, the serial number of    *)
(* its registration, that the code does not have.                          *)
(***************************************************************************)
EXTENDS Integers, Sequences

CONSTANTS
    Names,      \* the callbacks clients register
    Periods,    \* the periods, in seconds, they register them with
    MaxTime,    \* the last second the clock reaches
    MaxStarts,  \* how many startRegularCallback calls the model makes
    NoId        \* handle of a name that is not registered

ASSUME TimersAssumption ==
    /\ Periods \subseteq Nat \ {0}
    /\ MaxTime \in Nat
    /\ MaxStarts \in Nat
    /\ NoId \notin Nat

VARIABLES
    timers,       \* timers_
    clock,        \* time(NULL)
    running,      \* running_
    tpc,          \* where timerLoop is: "top", "sleep", "call" or "done"
    wake,         \* when the usleep(1000*1000) of the timer loop ends
    to_be_called, \* the local copy of executeTimerCallbacks
    handle,       \* the id each client holds for its name, or NoId
    starts,       \* startRegularCallback calls so far
    last_fired    \* per registration: when it was made or last fired, or NoId

vars == <<timers, clock, running, tpc, wake, to_be_called, handle, starts, last_fired>>

isTime(t, now) == t.last_call + t.seconds <= now

\* Every index of timers_ holding a timer with the given id, in order.
indicesOf(id) == {i \in DOMAIN timers : timers[i].id = id}

\* timers_ without its i-th element: vector::erase.
eraseAt(s, i) == SubSeq(s, 1, i - 1) \o SubSeq(s, i + 1, Len(s))

Init ==
    /\ timers = <<>>
    /\ clock = 0
    /\ running = TRUE
    /\ tpc = "top"
    /\ wake = 0
    /\ to_be_called = <<>>
    /\ handle = [n \in Names |-> NoId]
    /\ starts = 0
    /\ last_fired = [r \in 1..MaxStarts |-> NoId]

(***************************************************************************)
(* The client thread.                                                      *)
(***************************************************************************)
\* Timer t = { (int)timers_.size(), seconds, time(NULL), callback, name };
startRegularCallback(n, s) ==
    /\ handle[n] = NoId
    /\ starts < MaxStarts
    /\ timers' = Append(timers, [id |-> Len(timers), seconds |-> s, last_call |-> clock,
                                 name |-> n, reg |-> starts + 1])
    /\ handle' = [handle EXCEPT ![n] = Len(timers)]
    /\ starts' = starts + 1
    /\ last_fired' = [last_fired EXCEPT ![starts + 1] = clock]
    /\ UNCHANGED <<clock, running, tpc, wake, to_be_called>>

\* Erase the first timer with the id, if any.
stopRegularCallback(n) ==
    /\ handle[n] # NoId
    /\ LET I == indicesOf(handle[n]) IN
       timers' = IF I = {} THEN timers
                 ELSE eraseAt(timers, CHOOSE i \in I : \A j \in I : i <= j)
    /\ handle' = [handle EXCEPT ![n] = NoId]
    /\ UNCHANGED <<clock, running, tpc, wake, to_be_called, starts, last_fired>>

Client ==
    \/ \E n \in Names, s \in Periods : startRegularCallback(n, s)
    \/ \E n \in Names : stopRegularCallback(n)

(***************************************************************************)
(* The timer loop.                                                         *)
(***************************************************************************)
\* Mutant: the loop sleeps two seconds a round.
LoopTop_TwoSeconds ==
    /\ tpc = "top"
    /\ \/ /\ running
          /\ tpc' = "sleep"
          /\ wake' = clock + 2
       \/ /\ ~running
          /\ tpc' = "done"
          /\ UNCHANGED wake
    /\ UNCHANGED <<timers, clock, running, to_be_called, handle, starts, last_fired>>

\* while (running_): the loop test.
LoopTop ==
    /\ tpc = "top"
    /\ \/ /\ running
          /\ tpc' = "sleep"
          /\ wake' = clock + 1
       \/ /\ ~running
          /\ tpc' = "done"
          /\ UNCHANGED wake
    /\ UNCHANGED <<timers, clock, running, to_be_called, handle, starts, last_fired>>

\* usleep(1000*1000) interrupted by a signal (SIGUSR1 from stop() or a
\* tickle): rc == -1 && errno == EINTR, continue.
Interrupted ==
    /\ tpc = "sleep"
    /\ tpc' = "top"
    /\ UNCHANGED <<timers, clock, running, wake, to_be_called, handle, starts, last_fired>>

\* Mutant: the due timers are copied without setting last_call.
executeTimerCallbacks_NoReset ==
    LET due == SelectSeq(timers, LAMBDA t : isTime(t, clock)) IN
    /\ to_be_called' = due
    /\ last_fired' = [r \in 1..MaxStarts |->
                        IF \E i \in DOMAIN timers : timers[i].reg = r /\ isTime(timers[i], clock)
                        THEN clock ELSE last_fired[r]]
    /\ UNCHANGED timers

\* Mutant: a timer is due only at the exact second last_call + seconds, so
\* one the loop reaches late is never copied.
executeTimerCallbacks_ExactTime ==
    LET exact(t) == t.last_call + t.seconds = clock
        due == SelectSeq(timers, exact) IN
    /\ to_be_called' = due
    /\ timers' = [i \in DOMAIN timers |->
                    IF exact(timers[i]) THEN [timers[i] EXCEPT !.last_call = clock]
                    ELSE timers[i]]
    /\ last_fired' = [r \in 1..MaxStarts |->
                        IF \E i \in DOMAIN timers : timers[i].reg = r /\ exact(timers[i])
                        THEN clock ELSE last_fired[r]]

\* The locked part of executeTimerCallbacks: curr = time(NULL); every timer
\* that isTime(curr) gets last_call = curr and is copied to to_be_called;
\* last_fired records curr for the registrations of the copied timers.
executeTimerCallbacks ==
    LET due == SelectSeq(timers, LAMBDA t : isTime(t, clock)) IN
    /\ to_be_called' = due
    /\ timers' = [i \in DOMAIN timers |->
                    IF isTime(timers[i], clock) THEN [timers[i] EXCEPT !.last_call = clock]
                    ELSE timers[i]]
    /\ last_fired' = [r \in 1..MaxStarts |->
                        IF \E i \in DOMAIN timers : timers[i].reg = r /\ isTime(timers[i], clock)
                        THEN clock ELSE last_fired[r]]

\* The usleep ends (at the bound of the clock at once), and the loop runs the
\* exit_after_seconds test (modelled in SerialManager) and
\* executeTimerCallbacks.
WakeUp ==
    /\ tpc = "sleep"
    /\ clock >= wake \/ clock = MaxTime
    /\ executeTimerCallbacks
    /\ tpc' = "call"
    /\ UNCHANGED <<clock, running, wake, handle, starts>>

\* t.callback() for the next copy, outside timers_mutex_; after the last one
\* executeTimerCallbacks returns.
InvokeCallback ==
    /\ tpc = "call"
    /\ \/ /\ to_be_called # <<>>
          /\ to_be_called' = Tail(to_be_called)
          /\ UNCHANGED tpc
       \/ /\ to_be_called = <<>>
          /\ tpc' = "top"
          /\ UNCHANGED to_be_called
    /\ UNCHANGED <<timers, clock, running, wake, handle, starts, last_fired>>

TimerLoop == LoopTop \/ WakeUp \/ InvokeCallback

(***************************************************************************)
(* The environment: the clock advances and the manager may be stopped.    *)
(***************************************************************************)
Tick ==
    /\ clock < MaxTime
    /\ clock' = clock + 1
    /\ UNCHANGED <<timers, running, tpc, wake, to_be_called, handle, starts, last_fired>>

Stop ==
    /\ running
    /\ running' = FALSE
    /\ UNCHANGED <<timers, clock, tpc, wake, to_be_called, handle, starts, last_fired>>

\* The timer loop has returned and nothing else is left to do.
Ended ==
    /\ tpc = "done"
    /\ UNCHANGED vars

Next == Client \/ TimerLoop \/ Interrupted \/ Tick \/ Stop \/ Ended

Spec == Init /\ [][Next]_vars /\ WF_vars(TimerLoop) /\ WF_vars(Tick)

-----------------------------------------------------------------------------
Timer == [id: Nat, seconds: Periods, last_call: 0..MaxTime, name: Names, reg: 1..MaxStarts]

TypeOK ==
    /\ timers \in Seq(Timer)
    /\ clock \in 0..MaxTime
    /\ running \in BOOLEAN
    /\ tpc \in {"top", "sleep", "call", "done"}
    /\ wake \in 0..(MaxTime + 1)
    /\ to_be_called \in Seq(Timer)
    /\ handle \in [Names -> Nat \cup {NoId}]
    /\ starts \in 0..MaxStarts
    /\ last_fired \in [1..MaxStarts -> 0..MaxTime \cup {NoId}]

(***************************************************************************)
(* executeTimerCallbacks fires a registration no sooner than its period   *)
(* after it was registered or last fired, however the timer loop's        *)
(* wake-ups, signals and the clock interleave: the last_call it sets when *)
(* it copies a due timer is what holds the next firing back.              *)
(***************************************************************************)
PeriodRespected ==
    [][\A i \in DOMAIN timers :
         LET r == timers[i].reg IN
         last_fired'[r] # last_fired[r] => last_fired'[r] >= last_fired[r] + timers[i].seconds
      ]_vars

(***************************************************************************)
(* serial.h: startRegularCallback "Returns an id for the timer", the id   *)
(* the client later passes to stopRegularCallback.  So a name the client  *)
(* has registered and not stopped still has its timer in timers_.         *)
(***************************************************************************)
HandlesValid ==
    \A n \in Names : handle[n] # NoId => \E i \in DOMAIN timers : timers[i].name = n

(***************************************************************************)
(* A timer that is due is fired: unless it is stopped or the manager is   *)
(* stopped, executeTimerCallbacks eventually copies it and moves its      *)
(* last_call on, so it stops being due.  It is about the timer loop's     *)
(* one-second usleep, which a signal may cut short (EINTR, continue), and *)
(* the test of isTime against the clock.  It assumes the signals end: a  *)
(* thread interrupted in every sleep never gets to the callbacks, and the *)
(* only pthread_kill aimed at the timer thread is the one in stop().      *)
(***************************************************************************)
dueReg(r) == \E i \in DOMAIN timers : timers[i].reg = r /\ isTime(timers[i], clock)

DueTimerFires ==
    <>[][~Interrupted]_vars =>
        \A r \in 1..MaxStarts : dueReg(r) ~> (~dueReg(r) \/ ~running)
=============================================================================
