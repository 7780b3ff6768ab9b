---------------------------- MODULE TimersProofs ----------------------------
(***************************************************************************)
(* Proofs about the regular callbacks of Timers.tla: executeTimerCallbacks *)
(* respects every registration's period (PeriodRespected), for every set  *)
(* of names and periods and every bound on the clock and on the starts.   *)
(***************************************************************************)
EXTENDS Timers, SequenceTheorems, WellFoundedInduction, TLAPS

(***************************************************************************)
(* The inductive invariant.  PeriodRespected compares last_fired before   *)
(* and after a step for the registration of each timer, so it needs to    *)
(* know what last_fired holds for a registration still in timers_: the    *)
(* last_call of its timer.  startRegularCallback writes last_fired at a   *)
(* fresh registration, above every registration in timers_, and           *)
(* executeTimerCallbacks updates a registration when some timer of it is  *)
(* due: every timer of that registration must then be due, which holds    *)
(* because timers of one registration are one and the same timer.         *)
(***************************************************************************)
TimerRecords == [id: Nat, seconds: Periods, last_call: 0..MaxTime, name: Names,
                 reg: 1..MaxStarts]

\* A registration still in timers_ has last_fired = its timer's last_call.
FiredIsLastCall ==
    \A i \in DOMAIN timers :
        /\ timers[i].reg <= starts
        /\ last_fired[timers[i].reg] = timers[i].last_call

\* Two timers of one registration are equal.
OneTimerPerReg ==
    \A i, j \in DOMAIN timers : timers[i].reg = timers[j].reg => timers[i] = timers[j]

IInv ==
    /\ timers \in Seq(TimerRecords)
    /\ clock \in 0..MaxTime
    /\ starts \in 0..MaxStarts
    /\ handle \in [Names -> Nat \cup {NoId}]
    /\ last_fired \in [1..MaxStarts -> 0..MaxTime \cup {NoId}]
    /\ FiredIsLastCall
    /\ OneTimerPerReg

-----------------------------------------------------------------------------
(***************************************************************************)
(* The helpers stopRegularCallback is built from.                          *)
(***************************************************************************)
\* A nonempty set of indices has a least element, by the well-foundedness
\* of < on Nat: the CHOOSE of stopRegularCallback picks an index of I.
LEMMA MinIndex ==
    ASSUME NEW I \in SUBSET Nat, I # {}
    PROVE  \E i \in I : \A j \in I : i <= j
<1> DEFINE LT == {ss \in Nat \X Nat : ss[1] < ss[2]}
<1>1. IsWellFoundedOn(LT, Nat)
  BY NatLessThanWellFounded, Zenon DEF OpToRel, LT
<1>2. PICK x \in I : \A y \in I : ~(<<y, x>> \in LT)
  BY <1>1, WFMin
<1>3. \A y \in I : ~(y < x)
  BY <1>2 DEF LT
<1>4. QED
  BY <1>3

\* vector::erase keeps a sequence of the same elements, one fewer.
LEMMA EraseAtProps ==
    ASSUME NEW S, NEW s \in Seq(S), NEW i \in 1..Len(s)
    PROVE  /\ eraseAt(s, i) \in Seq(S)
           /\ \A k \in DOMAIN eraseAt(s, i) : \E j \in DOMAIN s : eraseAt(s, i)[k] = s[j]
<1> DEFINE u == SubSeq(s, 1, i - 1)
           v == SubSeq(s, i + 1, Len(s))
<1>1. /\ u \in Seq(S) /\ Len(u) = i - 1
      /\ \A k \in 1..(i - 1) : u[k] = s[k]
  <2>1. \A k \in 1..(i - 1) : s[k] \in S
    BY ElementOfSeq
  <2>2. QED
    BY <2>1, SubSeqProperties
<1>2. /\ v \in Seq(S) /\ Len(v) = Len(s) - i
      /\ \A k \in 1..(Len(s) - i) : v[k] = s[i + k]
  <2>1. \A k \in (i + 1)..Len(s) : s[k] \in S
    BY ElementOfSeq
  <2>2. QED
    BY <2>1, SubSeqProperties
<1> HIDE DEF u, v
<1>3. /\ u \o v \in Seq(S)
      /\ Len(u \o v) = Len(u) + Len(v)
      /\ \A k \in 1..(Len(u) + Len(v)) : (u \o v)[k] = IF k <= Len(u) THEN u[k] ELSE v[k - Len(u)]
  BY <1>1, <1>2, ConcatProperties
<1>4. DOMAIN (u \o v) = 1..(Len(u) + Len(v))
  BY <1>3
<1>5. \A k \in DOMAIN (u \o v) : \E j \in DOMAIN s : (u \o v)[k] = s[j]
  <2>1. SUFFICES ASSUME NEW k \in DOMAIN (u \o v) PROVE \E j \in DOMAIN s : (u \o v)[k] = s[j]
    OBVIOUS
  <2>2. CASE k <= i - 1
    <3>1. (u \o v)[k] = s[k] /\ k \in DOMAIN s
      BY <1>1, <1>2, <1>3, <1>4, <2>2
    <3>2. QED
      BY <3>1
  <2>3. CASE ~(k <= i - 1)
    <3>0. Len(u) + Len(v) = Len(s) - 1 /\ Len(s) \in Nat
      BY <1>1, <1>2
    <3>1. k \in i..(Len(s) - 1) /\ k - (i - 1) \in 1..(Len(s) - i)
      <4>1. k \in 1..(Len(s) - 1)
        BY <1>4, <3>0
      <4>2. QED
        BY <4>1, <2>3
    <3>2. (u \o v)[k] = v[k - (i - 1)]
      BY <1>1, <1>3, <1>4, <2>3
    <3>3. v[k - (i - 1)] = s[k + 1]
      BY <1>2, <3>1
    <3>4. k + 1 \in DOMAIN s
      BY <3>1
    <3>5. QED
      BY <3>2, <3>3, <3>4
  <2>4. QED
    BY <2>2, <2>3
<1>6. QED
  BY <1>3, <1>5 DEF eraseAt, u, v

-----------------------------------------------------------------------------
(***************************************************************************)
(* The invariant holds initially and is kept by every step.                *)
(***************************************************************************)
LEMMA InitIInv == Init => IInv
BY TimersAssumption DEF Init, IInv, FiredIsLastCall, OneTimerPerReg

\* What the locked part of executeTimerCallbacks does to timers_ and
\* last_fired.
LEMMA ExecuteEffect ==
    ASSUME executeTimerCallbacks
    PROVE  /\ timers' = [i \in DOMAIN timers |->
                          IF isTime(timers[i], clock) THEN [timers[i] EXCEPT !.last_call = clock]
                          ELSE timers[i]]
           /\ last_fired' = [r \in 1..MaxStarts |->
                              IF \E i \in DOMAIN timers : timers[i].reg = r /\ isTime(timers[i], clock)
                              THEN clock ELSE last_fired[r]]
BY Zenon DEF executeTimerCallbacks

\* A timer of a registration some due timer has is due itself.
LEMMA DueOfReg ==
    ASSUME IInv, NEW i \in DOMAIN timers,
           \E j \in DOMAIN timers : timers[j].reg = timers[i].reg /\ isTime(timers[j], clock)
    PROVE  isTime(timers[i], clock)
BY DEF IInv, OneTimerPerReg

LEMMA WakeUpIInv ==
    ASSUME IInv, WakeUp
    PROVE  IInv'
<1> USE TimersAssumption
<1>1. /\ timers' = [i \in DOMAIN timers |->
                     IF isTime(timers[i], clock) THEN [timers[i] EXCEPT !.last_call = clock]
                     ELSE timers[i]]
      /\ last_fired' = [r \in 1..MaxStarts |->
                         IF \E i \in DOMAIN timers : timers[i].reg = r /\ isTime(timers[i], clock)
                         THEN clock ELSE last_fired[r]]
      /\ UNCHANGED <<clock, handle, starts>>
  BY ExecuteEffect DEF WakeUp
<1>2. /\ DOMAIN timers' = DOMAIN timers
      /\ \A i \in DOMAIN timers :
            /\ timers'[i].reg = timers[i].reg
            /\ timers'[i].seconds = timers[i].seconds
            /\ timers'[i].last_call = IF isTime(timers[i], clock) THEN clock ELSE timers[i].last_call
  BY <1>1 DEF IInv, TimerRecords
<1>0. \A i \in DOMAIN timers :
        timers'[i] = IF isTime(timers[i], clock) THEN [timers[i] EXCEPT !.last_call = clock]
                     ELSE timers[i]
  BY <1>1
<1>3. timers' \in Seq(TimerRecords)
  <2>1. DOMAIN timers = 1..Len(timers) /\ Len(timers) \in Nat
    BY DEF IInv
  <2>2. \A i \in DOMAIN timers : timers[i] \in TimerRecords
    BY <2>1, ElementOfSeq DEF IInv
  <2>3. \A i \in DOMAIN timers : timers'[i] \in TimerRecords
    BY <1>0, <2>2 DEF IInv, TimerRecords
  <2>4. timers' \in [1..Len(timers) -> TimerRecords]
    BY <1>1, <2>1, <2>3
  <2>5. QED
    BY <2>1, <2>4, SeqDef
<1>4. last_fired' \in [1..MaxStarts -> 0..MaxTime \cup {NoId}]
  BY <1>1 DEF IInv
<1>5. FiredIsLastCall'
  <2>1. SUFFICES ASSUME NEW i \in DOMAIN timers'
                 PROVE  /\ timers'[i].reg <= starts'
                        /\ last_fired'[timers'[i].reg] = timers'[i].last_call
    BY DEF FiredIsLastCall
  <2>2. i \in DOMAIN timers /\ timers[i].reg \in 1..MaxStarts
    <3>1. i \in DOMAIN timers
      BY <1>2
    <3>2. timers[i] \in TimerRecords
      BY <3>1, ElementOfSeq DEF IInv
    <3>3. QED
      BY <3>1, <3>2 DEF TimerRecords
  <2>3. CASE isTime(timers[i], clock)
    <3>1. \E j \in DOMAIN timers : timers[j].reg = timers[i].reg /\ isTime(timers[j], clock)
      BY <2>2, <2>3
    <3>2. last_fired'[timers[i].reg] = clock
      BY <1>1, <2>2, <3>1
    <3>3. timers'[i].last_call = clock /\ timers'[i].reg = timers[i].reg
      BY <1>2, <2>2, <2>3
    <3>4. timers[i].reg <= starts
      BY <2>2 DEF IInv, FiredIsLastCall
    <3>5. QED
      BY <1>1, <3>2, <3>3, <3>4
  <2>4. CASE ~isTime(timers[i], clock)
    <3>1. ~\E j \in DOMAIN timers : timers[j].reg = timers[i].reg /\ isTime(timers[j], clock)
      BY <2>2, <2>4, DueOfReg
    <3>2. QED
      BY <1>1, <1>2, <2>2, <3>1 DEF IInv, FiredIsLastCall
  <2>5. QED
    BY <2>3, <2>4
<1>6. OneTimerPerReg'
  <2>1. SUFFICES ASSUME NEW i \in DOMAIN timers', NEW j \in DOMAIN timers',
                        timers'[i].reg = timers'[j].reg
                 PROVE  timers'[i] = timers'[j]
    BY DEF OneTimerPerReg
  <2>2. i \in DOMAIN timers /\ j \in DOMAIN timers /\ timers[i].reg = timers[j].reg
    BY <1>2, <2>1
  <2>3. timers[i] = timers[j]
    BY <2>2 DEF IInv, OneTimerPerReg
  <2>4. QED
    BY <1>0, <2>2, <2>3
<1>7. QED
  BY <1>1, <1>3, <1>4, <1>5, <1>6 DEF IInv

\* Each element of timers_ is a timer record.
LEMMA TimerAt ==
    ASSUME IInv, NEW i \in DOMAIN timers
    PROVE  timers[i] \in TimerRecords
BY ElementOfSeq DEF IInv

LEMMA StartIInv ==
    ASSUME IInv, NEW n \in Names, NEW s \in Periods, startRegularCallback(n, s)
    PROVE  IInv'
<1> USE TimersAssumption
<1> DEFINE t == [id |-> Len(timers), seconds |-> s, last_call |-> clock,
                 name |-> n, reg |-> starts + 1]
<1>1. /\ timers' = Append(timers, t)
      /\ last_fired' = [last_fired EXCEPT ![starts + 1] = clock]
      /\ starts' = starts + 1 /\ starts + 1 \in 1..MaxStarts
      /\ handle' = [handle EXCEPT ![n] = Len(timers)]
      /\ UNCHANGED clock
  BY DEF startRegularCallback, IInv
<1>2. t \in TimerRecords
  <2>1. Len(timers) \in Nat /\ clock \in 0..MaxTime
    BY DEF IInv
  <2>2. QED
    BY <1>1, <2>1 DEF TimerRecords
<1>3. /\ timers' \in Seq(TimerRecords)
      /\ Len(timers') = Len(timers) + 1
      /\ timers'[Len(timers) + 1] = t
      /\ \A i \in 1..Len(timers) : timers'[i] = timers[i]
      /\ DOMAIN timers' = 1..(Len(timers) + 1) /\ DOMAIN timers = 1..Len(timers)
  BY <1>1, <1>2, AppendProperties DEF IInv
<1>4. \A i \in DOMAIN timers : timers[i].reg <= starts /\ timers[i].reg \in 1..MaxStarts
  BY TimerAt DEF IInv, FiredIsLastCall, TimerRecords
<1>5. FiredIsLastCall'
  <2>1. SUFFICES ASSUME NEW i \in DOMAIN timers'
                 PROVE  /\ timers'[i].reg <= starts'
                        /\ last_fired'[timers'[i].reg] = timers'[i].last_call
    BY DEF FiredIsLastCall
  <2>2. CASE i = Len(timers) + 1
    BY <1>1, <1>3, <2>2 DEF IInv
  <2>3. CASE i \in 1..Len(timers)
    <3>1. timers'[i] = timers[i] /\ timers[i].reg <= starts /\ timers[i].reg \in 1..MaxStarts
      BY <1>3, <1>4, <2>3
    <3>2. last_fired'[timers[i].reg] = last_fired[timers[i].reg]
      BY <1>1, <3>1 DEF IInv
    <3>3. QED
      BY <1>1, <1>3, <2>3, <3>1, <3>2 DEF IInv, FiredIsLastCall
  <2>4. QED
    BY <1>3, <2>2, <2>3
<1>6. OneTimerPerReg'
  <2>1. SUFFICES ASSUME NEW i \in DOMAIN timers', NEW j \in DOMAIN timers',
                        timers'[i].reg = timers'[j].reg
                 PROVE  timers'[i] = timers'[j]
    BY DEF OneTimerPerReg
  <2>2. \A k \in DOMAIN timers' :
          \/ k = Len(timers) + 1 /\ timers'[k] = t
          \/ k \in DOMAIN timers /\ timers'[k] = timers[k] /\ timers[k].reg <= starts
    BY <1>3, <1>4
  <2>3. QED
    BY <2>1, <2>2 DEF IInv, OneTimerPerReg
<1>7. QED
  BY <1>1, <1>3, <1>5, <1>6 DEF IInv

\* stopRegularCallback leaves a sequence of timers that were in timers_.
LEMMA StopTimers ==
    ASSUME IInv, NEW n \in Names, stopRegularCallback(n)
    PROVE  /\ timers' \in Seq(TimerRecords)
           /\ \A k \in DOMAIN timers' : \E j \in DOMAIN timers : timers'[k] = timers[j]
<1> DEFINE I == indicesOf(handle[n])
<1>1. timers' = IF I = {} THEN timers
                ELSE eraseAt(timers, CHOOSE i \in I : \A j \in I : i <= j)
  BY DEF stopRegularCallback
<1>2. CASE I = {}
  BY <1>1, <1>2 DEF IInv
<1>3. CASE I # {}
  <2>1. I \subseteq 1..Len(timers)
    BY DEF IInv, indicesOf
  <2>2. \E i \in I : \A j \in I : i <= j
    BY <1>3, <2>1, MinIndex
  <2> DEFINE c == CHOOSE i \in I : \A j \in I : i <= j
  <2>3. c \in 1..Len(timers)
    BY <2>1, <2>2
  <2> HIDE DEF c
  <2>4. timers' = eraseAt(timers, c)
    BY <1>1, <1>3 DEF c
  <2>5. timers \in Seq(TimerRecords)
    BY DEF IInv
  <2>6. QED
    BY <2>3, <2>4, <2>5, EraseAtProps
<1>4. QED
  BY <1>2, <1>3

LEMMA StopIInv ==
    ASSUME IInv, NEW n \in Names, stopRegularCallback(n)
    PROVE  IInv'
<1>1. /\ UNCHANGED <<clock, starts, last_fired>>
      /\ handle' = [handle EXCEPT ![n] = NoId]
  BY DEF stopRegularCallback
<1>2. /\ timers' \in Seq(TimerRecords)
      /\ \A k \in DOMAIN timers' : \E j \in DOMAIN timers : timers'[k] = timers[j]
  BY StopTimers
<1>3. FiredIsLastCall'
  BY <1>1, <1>2 DEF IInv, FiredIsLastCall
<1>4. OneTimerPerReg'
  BY <1>2 DEF IInv, OneTimerPerReg
<1>5. QED
  BY <1>1, <1>2, <1>3, <1>4 DEF IInv

\* The steps that leave timers_, the registrations and last_fired alone.
LEMMA OtherIInv ==
    ASSUME IInv,
           \/ LoopTop \/ InvokeCallback \/ Interrupted \/ Tick \/ Stop \/ Ended
           \/ UNCHANGED vars
    PROVE  IInv'
<1>1. UNCHANGED <<timers, handle, starts, last_fired>>
  BY DEF LoopTop, InvokeCallback, Interrupted, Tick, Stop, Ended, vars
<1>2. clock' \in 0..MaxTime
  BY TimersAssumption DEF LoopTop, InvokeCallback, Interrupted, Tick, Stop, Ended, vars, IInv
<1>3. QED
  BY <1>1, <1>2 DEF IInv, FiredIsLastCall, OneTimerPerReg

LEMMA NextIInv == IInv /\ [Next]_vars => IInv'
<1> SUFFICES ASSUME IInv, [Next]_vars PROVE IInv'
  OBVIOUS
<1>1. CASE \E n \in Names, s \in Periods : startRegularCallback(n, s)
  BY <1>1, StartIInv
<1>2. CASE \E n \in Names : stopRegularCallback(n)
  BY <1>2, StopIInv
<1>3. CASE WakeUp
  BY <1>3, WakeUpIInv
<1>4. QED
  BY <1>1, <1>2, <1>3, OtherIInv DEF Next, Client, TimerLoop

\* In every reachable state each registration in timers_ has one timer, and
\* last_fired holds that timer's last_call.
THEOREM TimersInvariant == Spec => []IInv
BY InitIInv, NextIInv, PTL DEF Spec

-----------------------------------------------------------------------------
(***************************************************************************)
(* PeriodRespected: only startRegularCallback, at a fresh registration,   *)
(* and executeTimerCallbacks write last_fired; the latter writes curr for *)
(* a registration of a due timer, whose last_fired is its last_call.      *)
(***************************************************************************)
PeriodStep ==
    \A i \in DOMAIN timers :
        LET r == timers[i].reg IN
        last_fired'[r] # last_fired[r] => last_fired'[r] >= last_fired[r] + timers[i].seconds

LEMMA NextPeriodStep == IInv /\ [Next]_vars => [PeriodStep]_vars
<1> SUFFICES ASSUME IInv, [Next]_vars PROVE [PeriodStep]_vars
  OBVIOUS
<1>1. CASE \E n \in Names, s \in Periods : startRegularCallback(n, s)
  <2>1. PICK n \in Names, s \in Periods : startRegularCallback(n, s)
    BY <1>1
  <2>2. last_fired' = [last_fired EXCEPT ![starts + 1] = clock]
    BY <2>1 DEF startRegularCallback
  <2>3. \A i \in DOMAIN timers : timers[i].reg \in 1..MaxStarts /\ timers[i].reg <= starts
    BY TimerAt DEF IInv, FiredIsLastCall, TimerRecords
  <2>4. \A i \in DOMAIN timers : last_fired'[timers[i].reg] = last_fired[timers[i].reg]
    BY <2>2, <2>3 DEF IInv
  <2>5. QED
    BY <2>4 DEF PeriodStep
<1>2. CASE WakeUp
  <2>1. last_fired' = [r \in 1..MaxStarts |->
                        IF \E i \in DOMAIN timers : timers[i].reg = r /\ isTime(timers[i], clock)
                        THEN clock ELSE last_fired[r]]
    BY <1>2, ExecuteEffect DEF WakeUp
  <2>2. SUFFICES ASSUME NEW i \in DOMAIN timers,
                        last_fired'[timers[i].reg] # last_fired[timers[i].reg]
                 PROVE  last_fired'[timers[i].reg] >= last_fired[timers[i].reg] + timers[i].seconds
    BY DEF PeriodStep
  <2>3. timers[i] \in TimerRecords
    BY TimerAt
  <2>4. \E j \in DOMAIN timers : timers[j].reg = timers[i].reg /\ isTime(timers[j], clock)
    BY <2>1, <2>2, <2>3 DEF TimerRecords
  <2>5. isTime(timers[i], clock)
    BY <2>4, DueOfReg
  <2>6. last_fired'[timers[i].reg] = clock
    BY <2>1, <2>3, <2>4 DEF TimerRecords
  <2>7. last_fired[timers[i].reg] = timers[i].last_call
    BY DEF IInv, FiredIsLastCall
  <2>8. QED
    BY <2>3, <2>5, <2>6, <2>7, TimersAssumption DEF isTime, TimerRecords
<1>3. CASE ~(\E n \in Names, s \in Periods : startRegularCallback(n, s)) /\ ~WakeUp
  <2>1. UNCHANGED last_fired
    BY <1>3 DEF Next, Client, TimerLoop, stopRegularCallback, LoopTop, InvokeCallback,
               Interrupted, Tick, Stop, Ended, vars
  <2>2. QED
    BY <2>1 DEF PeriodStep
<1>4. QED
  BY <1>1, <1>2, <1>3

\* Whatever the clients, the signals and the clock do, executeTimerCallbacks
\* fires a registration no sooner than its period after it was registered
\* or last fired.
THEOREM TimersPeriodRespected == Spec => PeriodRespected
<1>1. [][PeriodStep]_vars => PeriodRespected
  BY DEF PeriodStep, PeriodRespected
<1>2. QED
  BY TimersInvariant, NextPeriodStep, <1>1, PTL DEF Spec
=============================================================================
