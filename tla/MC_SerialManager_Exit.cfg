\* The manager with exit_after_seconds: stop() from the timer loop ends every thread.
CONSTANTS
    t1 = t1
    c1 = c1
    f1 = f1
    NoDev = NoDev
    TTY <- MC_TTY
    Cmd <- MC_Cmd
    File <- MC_File
    ExitAfter = TRUE

SPECIFICATION Spec

PROPERTY Termination

