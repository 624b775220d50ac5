------------------------------- MODULE Settings -------------------------------
(***************************************************************************)
(* The settings: settings.ini, what the process holds of it, and how the   *)
(* two go together over starts, changes, and writes that fail or tear.     *)
(* Font, size and weight have no setter that the window calls and are read *)
(* like the password: they are left out.                                   *)
(***************************************************************************)
EXTENDS Naturals, Sequences, SequencesExt

CONSTANT Absent \* a key that is not there

Port == {"server_port", "client_port"}
Key == Port \cup {"check_updates", "capture_device", "password", "language"}

DefaultValue ==
    [server_port |-> "15711", client_port |-> "15712", check_updates |-> TRUE,
     capture_device |-> "default_playback", password |-> "testing123", language |-> "Auto"]

ASSUME SettingsAssumption ==
    Absent \notin BOOLEAN /\ \A k \in Key : DefaultValue[k] # Absent

VARIABLES
    file,      \* the file: its keys, and the ports without a section (version 0.5.2)
    ini,       \* ini_, NoFile when no process runs
    saveFailed \* the last SaveFile of the process failed

settingsVars == <<file, ini, saveFailed>>

NoLegacy == [p \in Port |-> Absent]

(* There is no file that can be loaded; a file that is empty has all keys, *)
(* absent ones.                                                            *)
NoFile == [keys |-> [k \in {} |-> Absent], legacy |-> NoLegacy]

-----------------------------------------------------------------------------
(* The file is written over from its beginning, section by section: a      *)
(* write that stops, on a full disk or because the process dies, loses     *)
(* what comes after.                                                       *)
Torn(content) ==
    {[content EXCEPT !.keys = [k \in Key |-> IF k \in lost THEN Absent ELSE @[k]]] :
        lost \in {Key, {"capture_device", "password", "language"}}}

(* SaveFile writes all of it; nobody looks at its result.  A bound: writes *)
(* do not fail twice in a row.                                             *)
SaveFile(content) ==
    \/ file' = content /\ saveFailed' = FALSE
    \/ ~saveFailed /\ file' \in {file} \cup Torn(content) /\ saveFailed' = TRUE

setDefaultValues == [keys |-> DefaultValue, legacy |-> NoLegacy]

(* Faulty variants, here and below, are named for their slip.              *)
MissingFromServerPort(content) ==
    [keys |-> [k \in Key |->
        IF content.keys[k] # Absent THEN content.keys[k]
        ELSE IF k \in Port /\ content.legacy["server_port"] # Absent
             THEN content.legacy["server_port"]
        ELSE DefaultValue[k]],
     legacy |-> NoLegacy]

OnlySomeMissing(content) ==
    [keys |-> [k \in Key |->
        IF content.keys[k] # Absent \/ k = "language" THEN content.keys[k]
        ELSE IF k \in Port /\ content.legacy[k] # Absent THEN content.legacy[k]
        ELSE DefaultValue[k]],
     legacy |-> NoLegacy]

(* What is missing is added, a port from where version 0.5.2 had it; keys  *)
(* without a section are then deleted.                                     *)
checkMissingSettings(content) ==
    [keys |-> [k \in Key |->
        IF content.keys[k] # Absent THEN content.keys[k]
        ELSE IF k \in Port /\ content.legacy[k] # Absent THEN content.legacy[k]
        ELSE DefaultValue[k]],
     legacy |-> NoLegacy]

(* The constructor.  A file that cannot be loaded, for whatever reason, is *)
(* replaced by the defaults.                                               *)
LoadFile ==
    /\ ini' = IF file = NoFile THEN setDefaultValues ELSE checkMissingSettings(file)
    /\ IF ini' = file THEN file' = file /\ saveFailed' = FALSE ELSE SaveFile(ini')

getValue(k) == ini.keys[k]

SetWithoutSave(k, v) ==
    /\ ini' = [ini EXCEPT !.keys[k] = v]
    /\ UNCHANGED <<file, saveFailed>>

(* The setters return early where the value is the same.                   *)
Set(k, v) ==
    IF getValue(k) = v THEN UNCHANGED settingsVars
    ELSE ini' = [ini EXCEPT !.keys[k] = v] /\ SaveFile(ini')

(* setLastUpdateCheck always writes; the time itself is in UpdateChecker.  *)
setLastUpdateCheck == SaveFile(ini) /\ UNCHANGED ini

-----------------------------------------------------------------------------
(* The port that a process started on this file would use.                 *)
EffectivePort(content, p) ==
    IF content = NoFile THEN DefaultValue[p]
    ELSE IF content.keys[p] # Absent THEN content.keys[p]
    ELSE IF content.legacy[p] # Absent THEN content.legacy[p] ELSE DefaultValue[p]

=============================================================================
