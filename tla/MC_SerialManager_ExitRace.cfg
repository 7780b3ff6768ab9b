\* The manager with exit_after_seconds: the timer loop may call stop() at any moment.
CONSTANTS
    t1 = t1
    c1 = c1
    f1 = f1
    NoDev = NoDev
    TTY <- MC_TTY
    Cmd <- MC_Cmd
    File <- MC_File
    ExitAfter = TRUE

SPECIFICATION Spec

INVARIANT DisappearExactlyOnce

