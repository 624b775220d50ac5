------------------------------- MODULE MCWindow -------------------------------
(* Small instances of Window for TLC.                                      *)
EXTENDS Window

(* Two playback devices of the same name and a microphone.                 *)
SomeEndpoints ==
    {[id |-> "d1", name |-> "Speakers", flow |-> "render"],
     [id |-> "d2", name |-> "Speakers", flow |-> "render"],
     [id |-> "d3", name |-> "Microphone", flow |-> "capture"]}
=============================================================================
