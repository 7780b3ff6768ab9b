\* The manager without exit_after_seconds: stop() comes only from the
\* event loop's emergency exits, whose liveness this run checks.
CONSTANTS
    t1 = t1
    c1 = c1
    f1 = f1
    NoDev = NoDev
    TTY <- MC_TTY
    Cmd <- MC_Cmd
    File <- MC_File
    ExitAfter = FALSE

SPECIFICATION Spec

INVARIANT TypeOK

 
PROPERTY EmergencyStop
