---------------------------- MODULE TimedReplay ----------------------------
(***************************************************************************)
(* What WMBusSimulator::simulate promises its caller, without the wait    *)
(* loop that implements it: the telegram lines of the script are handed   *)
(* on one at a time, in script order, none skipped; a line with "|+N" is  *)
(* handed on no sooner than N seconds after the start, unless the manager *)
(* has been stopped; after the last telegram line the replay finishes and *)
(* stops the manager.  The wall clock and stop() from another thread are  *)
(* the environment, as in WMBusSimulator.                                 *)
(***************************************************************************)
EXTENDS Naturals, Sequences

CONSTANTS
    Lines,     \* the script: a sequence of [tele: BOOLEAN, rel: Nat \cup {NoTime}]
    NoTime,    \* rel of a line without "|+N"
    MaxTime    \* the last second the clock reaches

VARIABLES
    clock,       \* the wall clock
    start_time,  \* when the replay began
    running,     \* the manager is running
    sent,        \* the script lines handed on so far, in order
    finished     \* the replay is over

avars == <<clock, start_time, running, sent, finished>>

\* The last line handed on, 0 before the first.
lastSent == IF sent = <<>> THEN 0 ELSE sent[Len(sent)]

\* Line i is the first telegram line after the last one handed on.
nextTelegram(i) ==
    /\ i \in (lastSent + 1)..Len(Lines)
    /\ Lines[i].tele
    /\ \A j \in (lastSent + 1)..(i - 1) : ~Lines[j].tele

\* Line i may be handed on now: it has no time, its time has come, or the
\* manager was stopped.
due(i) ==
    \/ Lines[i].rel = NoTime
    \/ clock >= start_time + Lines[i].rel
    \/ ~running

Init ==
    /\ clock \in 0..1
    /\ start_time = clock
    /\ running = TRUE
    /\ sent = <<>>
    /\ finished = FALSE

Replay(i) ==
    /\ ~finished
    /\ nextTelegram(i)
    /\ due(i)
    /\ sent' = Append(sent, i)
    /\ UNCHANGED <<clock, start_time, running, finished>>

\* No telegram line is left: the replay ends and stops the manager.
Finish ==
    /\ ~finished
    /\ \A j \in (lastSent + 1)..Len(Lines) : ~Lines[j].tele
    /\ finished' = TRUE
    /\ running' = FALSE
    /\ UNCHANGED <<clock, start_time, sent>>

Tick ==
    /\ clock < MaxTime
    /\ clock' = clock + 1
    /\ UNCHANGED <<start_time, running, sent, finished>>

Stop ==
    /\ running
    /\ running' = FALSE
    /\ UNCHANGED <<clock, start_time, sent, finished>>

Progress == (\E i \in 1..Len(Lines) : Replay(i)) \/ Finish

Next == Progress \/ Tick \/ Stop

SafeSpec == Init /\ [][Next]_avars

\* A due telegram is eventually handed on, and the replay eventually ends.
Spec == SafeSpec /\ WF_avars(Progress)
=============================================================================
