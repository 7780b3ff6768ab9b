-------------------------- MODULE MC_SerialManager --------------------------
(***************************************************************************)
(* One device of each kind: a tty, a sub-process and a file.               *)
(***************************************************************************)
EXTENDS SerialManager

CONSTANTS t1, c1, f1

MC_TTY  == {t1}
MC_Cmd  == {c1}
MC_File == {f1}
=============================================================================
