------------------------------ MODULE MC_Timers ------------------------------
(* Three callbacks, periods of one and two seconds, three registrations:   *)
(* enough for a stop followed by a start, which makes ids collide.         *)
EXTENDS Timers, TLC

CONSTANTS a, b, c

MC_Names == {a, b, c}
MC_Periods == {1, 2}
MC_MaxTime == 3
MC_MaxStarts == 3

MC_Symmetry == Permutations(MC_Names)
=============================================================================
