------------------------------- MODULE MCProgram -------------------------------
(* Small instances of Program for TLC.                                     *)
EXTENDS Program
=============================================================================
