------------------------ MODULE WMBusSimulatorProofs ------------------------
(***************************************************************************)
(* Proofs about WMBusSimulator for every script and every clock bound.    *)
(***************************************************************************)
EXTENDS WMBusSimulator, SequenceTheorems, TLAPS

(***************************************************************************)
(* The types of the variables, for any script and clock bound.  (TypeOK   *)
(* of the runs bounds wake by MaxTime, which holds only because the       *)
(* instance's clock runs one second past the script's last time.)         *)
(***************************************************************************)
TypeInv ==
    /\ clock \in Nat
    /\ start_time \in Nat
    /\ running \in BOOLEAN
    /\ pc \in {"line", "wait", "sleep", "done"}
    /\ idx \in 1..(Len(Lines) + 1)
    /\ curr \in Nat
    /\ wake \in Nat
    /\ delivered \in Seq(Delivery)
    /\ slept_after_stop \in Nat

\* While simulate waits, it waits on a line of the script.
WaitingOnLine == pc \in {"wait", "sleep"} => idx \in 1..Len(Lines)

\* The script line of the last telegram handed on, 0 before the first.
lastLine == IF delivered = <<>> THEN 0 ELSE delivered[Len(delivered)].line

(***************************************************************************)
(* The for loop has passed over no telegram line it has not handed on:    *)
(* the lines after the last one delivered and before idx are no           *)
(* telegrams, and the line waited on is a timed telegram.                 *)
(***************************************************************************)
ScanInv ==
    /\ lastLine < idx
    /\ \A j \in (lastLine + 1)..(idx - 1) : ~Lines[j].tele
    /\ pc \in {"wait", "sleep"} => Lines[idx].tele /\ Lines[idx].rel # NoTime

SimInv == TypeInv /\ WaitingOnLine /\ NotEarly /\ ScanInv

\* A timed line of the script has a natural time; any line's time is one.
LEMMA LineType ==
    ASSUME NEW i \in 1..Len(Lines)
    PROVE  /\ Lines[i].tele \in BOOLEAN
           /\ Lines[i].rel \in Nat \cup {NoTime}
           /\ Lines[i].rel # NoTime => Lines[i].rel \in Nat
<1>1. Lines[i] \in [tele: BOOLEAN, rel: Nat \cup {NoTime}]
  BY SimAssumption, ElementOfSeq
<1>. QED  BY <1>1

\* Appending one delivery keeps every earlier delivery and adds the new one.
LEMMA AppendDelivery ==
    ASSUME NEW s \in Seq(Delivery), NEW e \in Delivery
    PROVE  /\ Append(s, e) \in Seq(Delivery)
           /\ DOMAIN Append(s, e) = 1..(Len(s) + 1)
           /\ \A i \in 1..Len(s) : Append(s, e)[i] = s[i]
           /\ Append(s, e)[Len(s) + 1] = e
  BY AppendProperties

\* The last delivery names a line of the script by a natural number.
LEMMA LastLineNat ==
    ASSUME NEW s \in Seq(Delivery), s # <<>>
    PROVE  s[Len(s)].line \in Nat
<1>1. Len(s) \in 1..Len(s)  BY EmptySeq
<1>2. s[Len(s)] \in Delivery  BY <1>1, ElementOfSeq
<1>. QED  BY <1>2 DEF Delivery

LEMMA InitSimInv == Init => SimInv
  BY SimAssumption DEF Init, SimInv, TypeInv, WaitingOnLine, NotEarly, ScanInv, lastLine

(***************************************************************************)
(* deliver preserves the invariant when the delivered line is on time or  *)
(* the manager is stopped.                                                 *)
(***************************************************************************)
LEMMA DeliverSimInv ==
    ASSUME SimInv, deliver, idx \in 1..Len(Lines), Lines[idx].tele,
           Lines[idx].rel # NoTime => (clock >= target \/ ~running),
           UNCHANGED <<clock, start_time, running>>,
           curr' \in Nat, wake' \in Nat, slept_after_stop' \in Nat
    PROVE  SimInv'
<1>. DEFINE e == [line |-> idx, at |-> clock, stopped |-> ~running]
<1>1. e \in Delivery  BY DEF SimInv, TypeInv, Delivery
<1>2. delivered' = Append(delivered, e)  BY DEF deliver
<1>3. TypeInv'  BY <1>1, <1>2, AppendDelivery DEF SimInv, TypeInv, deliver
<1>4. WaitingOnLine'  BY DEF deliver, WaitingOnLine
<1>5. NotEarly'
  <2> SUFFICES ASSUME NEW i \in DOMAIN delivered',
                      Lines[delivered'[i].line].rel # NoTime
               PROVE  delivered'[i].at >= start_time' + Lines[delivered'[i].line].rel
                      \/ delivered'[i].stopped
    BY DEF NotEarly
  <2>1. CASE i \in 1..Len(delivered)
    BY <2>1, <1>1, <1>2, AppendDelivery DEF SimInv, TypeInv, NotEarly
  <2>2. CASE i = Len(delivered) + 1
    <3>1. delivered'[i] = e  BY <2>2, <1>1, <1>2, AppendDelivery DEF SimInv, TypeInv
    <3>2. Lines[idx].rel # NoTime  BY <3>1 DEF e
    <3>3. Lines[idx].rel \in Nat  BY <3>2, LineType
    <3>4. /\ delivered'[i].line = idx
          /\ delivered'[i].at = clock
          /\ delivered'[i].stopped = ~running
      BY <3>1 DEF e
    <3>5. CASE ~running  BY <3>4, <3>5
    <3>6. CASE running
      <4>1. clock >= start_time + Lines[idx].rel  BY <3>2, <3>6 DEF target
      <4>. QED  BY <4>1, <3>3, <3>4 DEF SimInv, TypeInv
    <3>. QED  BY <3>5, <3>6
  <2>. QED  BY <2>1, <2>2, <1>1, <1>2, AppendDelivery DEF SimInv, TypeInv
<1>6. ScanInv'
  <2>1. delivered' # <<>> /\ Len(delivered') = Len(delivered) + 1
    BY <1>1, <1>2, AppendDelivery DEF SimInv, TypeInv
  <2>2. lastLine' = idx
    BY <1>1, <1>2, <2>1, AppendDelivery DEF SimInv, TypeInv, lastLine, e
  <2>3. idx' = idx + 1 /\ pc' = "line"  BY DEF deliver
  <2>. QED  BY <2>2, <2>3 DEF ScanInv
<1>. QED  BY <1>3, <1>4, <1>5, <1>6 DEF SimInv

(***************************************************************************)
(* Every step of simulate and of its environment preserves the invariant. *)
(***************************************************************************)
LEMMA NextSimInv == SimInv /\ [Next]_vars => SimInv'
<1> SUFFICES ASSUME SimInv, [Next]_vars PROVE SimInv'
  OBVIOUS
<1>1. CASE NextLine
  <2>1. idx \in 1..Len(Lines)  BY <1>1 DEF NextLine, SimInv, TypeInv
  <2>2. CASE ~Lines[idx].tele /\ idx' = idx + 1 /\ UNCHANGED <<pc, delivered, curr>>
    <3>1. TypeInv' /\ WaitingOnLine' /\ NotEarly'
      BY <1>1, <2>1, <2>2 DEF NextLine, SimInv, TypeInv, WaitingOnLine, NotEarly
    <3>2. lastLine' = lastLine  BY <2>2 DEF lastLine
    <3>3. lastLine \in Nat  BY LastLineNat DEF SimInv, TypeInv, lastLine
    <3>4. lastLine < idx /\ \A j \in (lastLine + 1)..(idx - 1) : ~Lines[j].tele
      BY DEF SimInv, ScanInv
    <3>5. \A j \in (lastLine + 1)..idx : ~Lines[j].tele  BY <2>1, <2>2, <3>3, <3>4
    <3>6. pc' = "line"  BY <1>1, <2>2 DEF NextLine
    <3>7. ScanInv'  BY <2>1, <2>2, <3>2, <3>3, <3>4, <3>5, <3>6 DEF ScanInv
    <3>. QED  BY <3>1, <3>7 DEF SimInv
  <2>3. CASE Lines[idx].tele /\ Lines[idx].rel = NoTime /\ deliver /\ UNCHANGED curr
    BY <1>1, <2>1, <2>3, DeliverSimInv DEF NextLine, SimInv, TypeInv
  <2>4. CASE /\ Lines[idx].tele /\ Lines[idx].rel # NoTime /\ curr' = clock
             /\ ~(clock < target) /\ deliver
    <3>1. Lines[idx].rel \in Nat  BY <2>1, <2>4, LineType
    <3>2. clock >= target  BY <2>4, <3>1 DEF SimInv, TypeInv, target
    <3>. QED  BY <1>1, <2>1, <2>4, <3>2, DeliverSimInv DEF NextLine, SimInv, TypeInv
  <2>5. CASE /\ Lines[idx].tele /\ Lines[idx].rel # NoTime /\ curr' = clock
             /\ clock < target /\ pc' = "wait" /\ UNCHANGED <<idx, delivered>>
    BY <1>1, <2>1, <2>5 DEF NextLine, SimInv, TypeInv, WaitingOnLine, NotEarly, ScanInv, lastLine
  <2>. QED  BY <1>1, <2>2, <2>3, <2>4, <2>5 DEF NextLine
<1>2. CASE WaitCheck
  <2>1. idx \in 1..Len(Lines)  BY <1>2 DEF WaitCheck, SimInv, WaitingOnLine
  <2>2. CASE clock > target /\ deliver /\ UNCHANGED <<wake, slept_after_stop>>
    <3>1. Lines[idx].rel # NoTime => clock >= target
      BY <2>1, <2>2, LineType DEF SimInv, TypeInv, target
    <3>. QED  BY <1>2, <2>1, <2>2, <3>1, DeliverSimInv DEF WaitCheck, SimInv, TypeInv, ScanInv
  <2>3. CASE /\ ~(clock > target) /\ pc' = "sleep" /\ wake' = clock + 1
             /\ slept_after_stop' = IF running THEN slept_after_stop ELSE slept_after_stop + 1
             /\ UNCHANGED <<idx, delivered>>
    BY <1>2, <2>1, <2>3 DEF WaitCheck, SimInv, TypeInv, WaitingOnLine, NotEarly, ScanInv, lastLine
  <2>. QED  BY <1>2, <2>2, <2>3 DEF WaitCheck
<1>3. CASE WakeUp
  <2>1. idx \in 1..Len(Lines)  BY <1>3 DEF WakeUp, SimInv, WaitingOnLine
  <2>2. CASE running /\ pc' = "wait" /\ UNCHANGED <<idx, delivered>>
    BY <1>3, <2>1, <2>2 DEF WakeUp, SimInv, TypeInv, WaitingOnLine, NotEarly, ScanInv, lastLine
  <2>3. CASE ~running /\ deliver
    BY <1>3, <2>1, <2>3, DeliverSimInv DEF WakeUp, SimInv, TypeInv, ScanInv
  <2>. QED  BY <1>3, <2>2, <2>3 DEF WakeUp
<1>4. CASE SimulateEnds
  BY <1>4 DEF SimulateEnds, SimInv, TypeInv, WaitingOnLine, NotEarly, ScanInv, lastLine
<1>5. CASE Tick
  BY <1>5 DEF Tick, SimInv, TypeInv, WaitingOnLine, NotEarly, ScanInv, lastLine
<1>6. CASE StopElsewhere
  BY <1>6 DEF StopElsewhere, SimInv, TypeInv, WaitingOnLine, NotEarly, ScanInv, lastLine
<1>7. CASE TimeBound \/ UNCHANGED vars
  BY <1>7 DEF TimeBound, vars, SimInv, TypeInv, WaitingOnLine, NotEarly, ScanInv, lastLine
<1>. QED  BY <1>1, <1>2, <1>3, <1>4, <1>5, <1>6, <1>7 DEF Next, Simulate

(***************************************************************************)
(* Spec 8 scenario d, for every script and clock bound: simulate never    *)
(* hands a timed telegram line to handleTelegram before its time, unless  *)
(* stop() cut the wait short (WaitCheck's curr > start+rel test, and the  *)
(* isRunning break of the wait loop).                                     *)
(***************************************************************************)
THEOREM SimulatorNotEarly == Spec => []NotEarly
<1>1. Init => SimInv  BY InitSimInv
<1>2. SimInv /\ [Next]_vars => SimInv'  BY NextSimInv
<1>3. SimInv => NotEarly  BY DEF SimInv
<1>. QED  BY <1>1, <1>2, <1>3, PTL DEF Spec
(***************************************************************************)
(* For every script and clock bound, every reachable state satisfies the  *)
(* invariant the simulator run checks: the variables have their types,    *)
(* simulate waits only on a timed telegram line of the script, and the    *)
(* for loop has passed over no telegram line without handing it on       *)
(* (ScanInv), besides NotEarly.                                            *)
(***************************************************************************)
THEOREM SimulatorInvariant == Spec => []SimInv
  BY InitSimInv, NextSimInv, PTL DEF Spec

(***************************************************************************)
(* The bounds of TypeOK hold when the clock runs at least one second past *)
(* the last second a sleep of the wait loop can end at: start_time is 0   *)
(* or 1, the loop sleeps only while curr <= start + N, and each sleep     *)
(* lasts one second, so it ends by N + 2.                                  *)
(***************************************************************************)
ClockOutlastsScript ==
    /\ MaxTime >= 1
    /\ \A i \in 1..Len(Lines) : Lines[i].rel # NoTime => Lines[i].rel + 2 <= MaxTime

LEMMA InitTypeOK == ClockOutlastsScript /\ Init => TypeOK
  BY SimAssumption DEF ClockOutlastsScript, Init, TypeOK

LEMMA NextTypeOK ==
    ASSUME ClockOutlastsScript, SimInv, TypeOK, [Next]_vars
    PROVE  TypeOK'
<1>1. SimInv'  BY NextSimInv
<1>2. /\ running' \in BOOLEAN /\ pc' \in {"line", "wait", "sleep", "done"}
      /\ idx' \in 1..(Len(Lines) + 1) /\ delivered' \in Seq(Delivery)
      /\ slept_after_stop' \in Nat
  BY <1>1 DEF SimInv, TypeInv
<1>3. start_time' = start_time
  BY DEF Next, Simulate, NextLine, WaitCheck, WakeUp, SimulateEnds, Tick,
         StopElsewhere, TimeBound, vars
<1>4. clock' \in 0..MaxTime
  <2>1. CASE Tick  BY <2>1, SimAssumption DEF Tick, TypeOK
  <2>2. CASE ~Tick /\ [Next]_vars
    <3>1. clock' = clock
      BY <2>2 DEF Next, Simulate, NextLine, WaitCheck, WakeUp, SimulateEnds,
               StopElsewhere, TimeBound, vars
    <3>. QED  BY <3>1 DEF TypeOK
  <2>. QED  BY <2>1, <2>2
<1>5. curr' = clock \/ curr' = curr
  BY DEF Next, Simulate, NextLine, WaitCheck, WakeUp, SimulateEnds, Tick,
         StopElsewhere, TimeBound, vars
<1>6. wake' \in 0..MaxTime
  <2>1. CASE WaitCheck /\ ~(clock > target) /\ wake' = clock + 1
    <3>1. idx \in 1..Len(Lines) /\ Lines[idx].rel # NoTime
      BY <2>1 DEF WaitCheck, SimInv, WaitingOnLine, ScanInv
    <3>2. Lines[idx].rel \in Nat  BY <3>1, LineType
    <3>3. Lines[idx].rel + 2 <= MaxTime  BY <3>1 DEF ClockOutlastsScript
    <3>. QED  BY <2>1, <3>2, <3>3, SimAssumption DEF target, TypeOK
  <2>2. CASE ~(WaitCheck /\ ~(clock > target) /\ wake' = clock + 1)
    <3>1. wake' = wake
      BY <2>2 DEF Next, Simulate, NextLine, WaitCheck, WakeUp, SimulateEnds, Tick,
               StopElsewhere, TimeBound, vars
    <3>. QED  BY <3>1 DEF TypeOK
  <2>. QED  BY <2>1, <2>2
<1>. QED  BY <1>2, <1>3, <1>4, <1>5, <1>6 DEF TypeOK

(***************************************************************************)
(* The types and bounds the simulator run checks (TypeOK) hold in every   *)
(* reachable state of every script whose clock outlasts it: no            *)
(* usleep(1000*1000) of the wait loop ends after the last second, and     *)
(* curr, read from time(NULL), is a second the clock has reached.         *)
(***************************************************************************)
THEOREM SimulatorTypeCorrect == ClockOutlastsScript => (Spec => []TypeOK)
<1>. SUFFICES ASSUME ClockOutlastsScript PROVE Spec => []TypeOK
  OBVIOUS
<1>1. Init => SimInv /\ TypeOK  BY InitSimInv, InitTypeOK
<1>2. SimInv /\ TypeOK /\ [Next]_vars => (SimInv /\ TypeOK)'  BY NextSimInv, NextTypeOK
<1>. QED  BY <1>1, <1>2, PTL DEF Spec

-----------------------------------------------------------------------------
(***************************************************************************)
(* The refinement mapping of ImplementsReplay: sent is the sequence of    *)
(* the delivered lines, finished is pc = "done".                          *)
(***************************************************************************)
linesOf(s) == [i \in DOMAIN s |-> s[i].line]

LEMMA LinesOfType ==
    ASSUME NEW s \in Seq(Delivery)
    PROVE  /\ linesOf(s) \in Seq(Nat)
           /\ Len(linesOf(s)) = Len(s)
           /\ \A i \in 1..Len(s) : linesOf(s)[i] = s[i].line
<1>1. /\ Len(s) \in Nat
      /\ DOMAIN s = 1..Len(s)
      /\ \A i \in 1..Len(s) : s[i] \in Delivery
  BY LenProperties, ElementOfSeq
<1>2. linesOf(s) = [i \in 1..Len(s) |-> s[i].line]  BY <1>1 DEF linesOf
<1>3. linesOf(s) \in [1..Len(s) -> Nat]  BY <1>1, <1>2 DEF Delivery
<1>. QED  BY <1>1, <1>2, <1>3

\* The replay's last line handed on is the simulator's last delivered line.
LEMMA ReplayLastSent ==
    ASSUME TypeInv
    PROVE  Replay!lastSent = lastLine
<1>0. deliveredLines = linesOf(delivered)  BY DEF deliveredLines, linesOf
<1>1. CASE delivered = <<>>
  <2>1. Len(deliveredLines) = 0  BY <1>0, <1>1, LinesOfType, EmptySeq DEF TypeInv
  <2>2. deliveredLines = <<>>  BY <1>0, <2>1, LinesOfType, EmptySeq DEF TypeInv
  <2>. QED  BY <1>1, <2>2 DEF Replay!lastSent, lastLine
<1>2. CASE delivered # <<>>
  <2>1. Len(delivered) \in Nat \ {0}  BY <1>2, EmptySeq DEF TypeInv
  <2>2. deliveredLines # <<>>  BY <1>0, <2>1, LinesOfType, EmptySeq DEF TypeInv
  <2>. QED  BY <1>0, <1>2, <2>1, <2>2, LinesOfType DEF Replay!lastSent, lastLine, TypeInv
<1>. QED  BY <1>1, <1>2

\* A delivery appends the line to sent.
LEMMA ReplayAppend ==
    ASSUME TypeInv, deliver
    PROVE  deliveredLines' = Append(deliveredLines, idx)
<1>. DEFINE e == [line |-> idx, at |-> clock, stopped |-> ~running]
        s == delivered
        t == Append(delivered, e)
<1>1. e \in Delivery  BY DEF TypeInv, Delivery
<1>2. delivered' = t  BY DEF deliver, t, e
<1>3. s \in Seq(Delivery) /\ t \in Seq(Delivery) /\ Len(t) = Len(s) + 1
  BY <1>1, AppendDelivery DEF TypeInv, s, t
<1>4. deliveredLines' = linesOf(t)  BY <1>2 DEF deliveredLines, linesOf
<1>5. deliveredLines = linesOf(s)  BY DEF deliveredLines, linesOf, s
<1>6. idx \in Nat  BY DEF TypeInv
<1>7. /\ linesOf(t) \in Seq(Nat) /\ Len(linesOf(t)) = Len(s) + 1
      /\ \A i \in 1..Len(s) : linesOf(t)[i] = s[i].line
      /\ linesOf(t)[Len(s) + 1] = idx
  <2>1. /\ linesOf(t) \in Seq(Nat) /\ Len(linesOf(t)) = Len(t)
        /\ \A i \in 1..Len(t) : linesOf(t)[i] = t[i].line
    BY <1>3, LinesOfType
  <2>2. \A i \in 1..Len(s) : t[i] = s[i]  BY <1>1, AppendDelivery DEF TypeInv, s, t
  <2>3. t[Len(s) + 1] = e  BY <1>1, AppendDelivery DEF TypeInv, s, t
  <2>. QED  BY <1>3, <2>1, <2>2, <2>3 DEF e
<1>8. /\ Append(linesOf(s), idx) \in Seq(Nat)
      /\ Len(Append(linesOf(s), idx)) = Len(s) + 1
      /\ \A i \in 1..Len(s) : Append(linesOf(s), idx)[i] = s[i].line
      /\ Append(linesOf(s), idx)[Len(s) + 1] = idx
  BY <1>3, <1>6, LinesOfType, AppendProperties
<1>9. \A i \in 1..Len(linesOf(t)) : linesOf(t)[i] = Append(linesOf(s), idx)[i]
  BY <1>3, <1>7, <1>8
<1>. QED  BY <1>4, <1>5, <1>7, <1>8, <1>9, SeqEqual

\* A delivery of a due telegram line, outside the done state, is a Replay
\* step of that line.
LEMMA DeliverReplay ==
    ASSUME SimInv, deliver, pc # "done", idx \in 1..Len(Lines), Lines[idx].tele,
           Replay!due(idx), UNCHANGED <<clock, start_time, running>>
    PROVE  Replay!Replay(idx)
<1>1. Replay!lastSent = lastLine  BY ReplayLastSent DEF SimInv
<1>2. lastLine \in Nat  BY LastLineNat DEF SimInv, TypeInv, lastLine
<1>3. lastLine < idx /\ \A j \in (lastLine + 1)..(idx - 1) : ~Lines[j].tele
  BY DEF SimInv, ScanInv
<1>4. Replay!nextTelegram(idx)  BY <1>1, <1>2, <1>3 DEF Replay!nextTelegram
<1>5. deliveredLines' = Append(deliveredLines, idx)  BY ReplayAppend DEF SimInv
<1>6. pc' = "line"  BY DEF deliver
<1>. QED  BY <1>4, <1>5, <1>6 DEF Replay!Replay

(***************************************************************************)
(* For every script and clock bound, simulate implements the replay it    *)
(* promises (the safety part of ImplementsReplay): each step of the for   *)
(* loop either hands on the next telegram line of the script when it is   *)
(* due, ends the replay with manager_->stop() when no telegram line is    *)
(* left, or changes nothing the replay shows.  It rests on ScanInv: the   *)
(* loop never passes over a telegram line without handing it on.         *)
(***************************************************************************)
THEOREM SimulatorImplementsReplay == Spec => Replay!SafeSpec
<1>1. Init => Replay!Init
  BY DEF Init, Replay!Init, deliveredLines
<1>2. SimInv /\ [Next]_vars => [Replay!Next]_Replay!avars
  <2> SUFFICES ASSUME SimInv, [Next]_vars PROVE [Replay!Next]_Replay!avars
    OBVIOUS
  <2>1. CASE NextLine
    <3>1. idx \in 1..Len(Lines) /\ pc = "line"  BY <2>1 DEF NextLine, SimInv, TypeInv
    <3>2. CASE ~Lines[idx].tele /\ idx' = idx + 1 /\ UNCHANGED <<pc, delivered, curr>>
      BY <2>1, <3>2 DEF NextLine, Replay!avars, deliveredLines
    <3>3. CASE Lines[idx].tele /\ Lines[idx].rel = NoTime /\ deliver /\ UNCHANGED curr
      <4>1. Replay!Replay(idx)  BY <2>1, <3>1, <3>3, DeliverReplay DEF NextLine, Replay!due
      <4>. QED  BY <3>1, <4>1 DEF Replay!Next, Replay!Progress
    <3>4. CASE /\ Lines[idx].tele /\ Lines[idx].rel # NoTime /\ curr' = clock
               /\ ~(clock < target) /\ deliver
      <4>1. Lines[idx].rel \in Nat  BY <3>1, <3>4, LineType
      <4>2. clock >= start_time + Lines[idx].rel  BY <3>4, <4>1 DEF SimInv, TypeInv, target
      <4>3. Replay!Replay(idx)
        BY <2>1, <3>1, <3>4, <4>2, DeliverReplay DEF NextLine, Replay!due
      <4>. QED  BY <3>1, <4>3 DEF Replay!Next, Replay!Progress
    <3>5. CASE /\ Lines[idx].tele /\ Lines[idx].rel # NoTime /\ curr' = clock
               /\ clock < target /\ pc' = "wait" /\ UNCHANGED <<idx, delivered>>
      BY <2>1, <3>1, <3>5 DEF NextLine, Replay!avars, deliveredLines
    <3>. QED  BY <2>1, <3>2, <3>3, <3>4, <3>5 DEF NextLine
  <2>2. CASE WaitCheck
    <3>1. /\ idx \in 1..Len(Lines) /\ pc = "wait"
          /\ Lines[idx].tele /\ Lines[idx].rel # NoTime
      BY <2>2 DEF WaitCheck, SimInv, WaitingOnLine, ScanInv
    <3>2. CASE clock > target /\ deliver /\ UNCHANGED <<wake, slept_after_stop>>
      <4>1. Lines[idx].rel \in Nat  BY <3>1, LineType
      <4>2. clock >= start_time + Lines[idx].rel  BY <3>2, <4>1 DEF SimInv, TypeInv, target
      <4>3. Replay!Replay(idx)
        BY <2>2, <3>1, <3>2, <4>2, DeliverReplay DEF WaitCheck, Replay!due
      <4>. QED  BY <3>1, <4>3 DEF Replay!Next, Replay!Progress
    <3>3. CASE /\ ~(clock > target) /\ pc' = "sleep" /\ wake' = clock + 1
               /\ slept_after_stop' = IF running THEN slept_after_stop ELSE slept_after_stop + 1
               /\ UNCHANGED <<idx, delivered>>
      BY <2>2, <3>1, <3>3 DEF WaitCheck, Replay!avars, deliveredLines
    <3>. QED  BY <2>2, <3>2, <3>3 DEF WaitCheck
  <2>3. CASE WakeUp
    <3>1. /\ idx \in 1..Len(Lines) /\ pc = "sleep" /\ Lines[idx].tele
      BY <2>3 DEF WakeUp, SimInv, WaitingOnLine, ScanInv
    <3>2. CASE running /\ pc' = "wait" /\ UNCHANGED <<idx, delivered>>
      BY <2>3, <3>1, <3>2 DEF WakeUp, Replay!avars, deliveredLines
    <3>3. CASE ~running /\ deliver
      <4>1. Replay!Replay(idx)  BY <2>3, <3>1, <3>3, DeliverReplay DEF WakeUp, Replay!due
      <4>. QED  BY <3>1, <4>1 DEF Replay!Next, Replay!Progress
    <3>. QED  BY <2>3, <3>2, <3>3 DEF WakeUp
  <2>4. CASE SimulateEnds
    <3>1. Replay!lastSent = lastLine  BY ReplayLastSent DEF SimInv
    <3>2. idx = Len(Lines) + 1  BY <2>4 DEF SimulateEnds, SimInv, TypeInv
    <3>3. \A j \in (Replay!lastSent + 1)..Len(Lines) : ~Lines[j].tele
      BY <3>1, <3>2 DEF SimInv, ScanInv
    <3>4. Replay!Finish  BY <2>4, <3>3 DEF SimulateEnds, Replay!Finish, deliveredLines
    <3>. QED  BY <3>4 DEF Replay!Next, Replay!Progress
  <2>5. CASE Tick
    BY <2>5 DEF Tick, Replay!Next, Replay!Tick, deliveredLines
  <2>6. CASE StopElsewhere
    BY <2>6 DEF StopElsewhere, Replay!Next, Replay!Stop, deliveredLines
  <2>7. CASE TimeBound \/ UNCHANGED vars
    BY <2>7 DEF TimeBound, vars, Replay!avars, deliveredLines
  <2>. QED  BY <2>1, <2>2, <2>3, <2>4, <2>5, <2>6, <2>7 DEF Next, Simulate
<1>. QED  BY <1>1, <1>2, InitSimInv, NextSimInv, PTL DEF Spec, Replay!SafeSpec
=============================================================================
