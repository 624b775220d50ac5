------------------------------- MODULE MCServer -------------------------------
(* Small instances of Server for TLC.                                      *)
EXTENDS Server, TLC

(* Phones are interchangeable, in safety checks.                           *)
PhoneSymmetry == Permutations(Address)
=============================================================================
