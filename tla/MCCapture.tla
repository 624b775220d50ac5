------------------------------- MODULE MCCapture -------------------------------
(* Small instances of CapturePipe for TLC.                                 *)
EXTENDS CapturePipe
=============================================================================
