------------------------------- MODULE MCThreads -------------------------------
(* Small instances of NotifyThreads for TLC.                               *)
EXTENDS NotifyThreads
=============================================================================
