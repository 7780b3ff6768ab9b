----------------------- MODULE MC_SerialManagerProofs -----------------------
(***************************************************************************)
(* One tty, one command and one file: the instance of the serial_manager *)
(* run, which extends the proof module so that both are parsed together.  *)
(***************************************************************************)
EXTENDS SerialManagerProofs

CONSTANTS t1, c1, f1

MC_TTY  == {t1}
MC_Cmd  == {c1}
MC_File == {f1}
=============================================================================
