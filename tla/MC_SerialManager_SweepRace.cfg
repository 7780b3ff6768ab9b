\* The manager without exit_after_seconds; a device may fail during the sweep.
CONSTANTS
    t1 = t1
    c1 = c1
    f1 = f1
    NoDev = NoDev
    TTY <- MC_TTY
    Cmd <- MC_Cmd
    File <- MC_File
    ExitAfter = FALSE

SPECIFICATION Spec

INVARIANT RemovedOnlyIfClosed

