------------------------- MODULE MC_WMBusSimulator -------------------------
(* A script like the one of spec 8 scenario d, "telegram=AA|+0" and        *)
(* "telegram=BB|+2", with a comment line between them, a third telegram    *)
(* timed "|+3" and a last one without a time.  The clock starts at 0 or 1  *)
(* and runs to MC_MaxTime, one second past the last sleep of the script.   *)
EXTENDS WMBusSimulatorProofs

CONSTANT NoTimeValue

MC_Lines ==
    << [tele |-> TRUE,  rel |-> 0],
       [tele |-> FALSE, rel |-> NoTimeValue],
       [tele |-> TRUE,  rel |-> 2],
       [tele |-> TRUE,  rel |-> 3],
       [tele |-> TRUE,  rel |-> NoTimeValue] >>

MC_MaxTime == 5

\* The instance satisfies the hypothesis of SimulatorTypeCorrect.
ASSUME ClockOutlastsScript
=============================================================================
