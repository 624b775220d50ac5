------------------------------ MODULE WindowProofs ------------------------------
(***************************************************************************)
(* Proofs about module Window, for any devices, any languages and any      *)
(* number of changes that wait.                                            *)
(***************************************************************************)
EXTENDS Window, SequenceTheorems, FunctionTheorems, FiniteSetTheorems, TLAPS

-----------------------------------------------------------------------------
(* The tray icon.  A process that has added the icon has it, as long as    *)
(* the shell has kept it: this is why hideToTray may look at trayIconAdded *)
(* only.                                                                   *)

TrayOK ==
    /\ trayIconAdded /\ shellOk => icon
    /\ phase # "off" /\ shellOk => visible \/ icon

LEMMA TrayInit == Init => TrayOK
BY DEF Init, TrayOK

LEMMA AddTrayIconKeeps ==
    ASSUME TrayOK, addTrayIcon
    PROVE  /\ trayIconAdded' /\ shellOk' => icon'
           /\ shellOk' => icon'
BY DEF TrayOK, addTrayIcon

LEMMA TrayNext == TrayOK /\ [Next]_vars => TrayOK'
<1> SUFFICES ASSUME TrayOK, [Next]_vars PROVE TrayOK'
  OBVIOUS
<1>1. CASE initInstance
  BY <1>1, AddTrayIconKeeps DEF initInstance, TrayOK
<1>2. CASE run
  BY <1>2 DEF run, TrayOK, trayVars
<1>3. CASE Exit
  BY <1>3 DEF Exit, Gone, removeTrayIcon, TrayOK
<1>4. CASE CloseOrMinimise
  BY <1>4, AddTrayIconKeeps DEF CloseOrMinimise, hideToTray, TrayOK
<1>5. CASE ClickTray
  BY <1>5 DEF ClickTray, showFromTray, TrayOK
<1>6. CASE ShellRestarts
  BY <1>6 DEF ShellRestarts, TrayOK
<1>7. CASE SelectItem
  BY <1>7 DEF SelectItem, TrayOK, trayVars
<1>8. ASSUME NEW l \in Language, switchLanguage(l)
      PROVE  TrayOK'
  BY <1>8 DEF switchLanguage, TrayOK, trayVars
<1>9. CASE toggleMenuItem
  BY <1>9 DEF toggleMenuItem, TrayOK, trayVars
<1>10. CASE onUpdateCheckFinish
  BY <1>10 DEF onUpdateCheckFinish, TrayOK, trayVars
<1>11. CASE changeCaptureDevice \/ AudioError \/ Plug
  BY <1>11 DEF changeCaptureDevice, AudioError, Plug, TrayOK, trayVars
<1>12. CASE UNCHANGED vars
  BY <1>12 DEF vars, trayVars, TrayOK
<1> QED
  BY <1>1, <1>2, <1>3, <1>4, <1>5, <1>6, <1>7, <1>8, <1>9, <1>10, <1>11, <1>12 DEF Next

(* A running process can be reached, through its window or its icon, for   *)
(* as long as the shell has kept the icon.                                 *)
THEOREM AlwaysReachable == Spec => []Reachable
<1>1. TrayOK => Reachable
  BY DEF TrayOK, Reachable, Running
<1> QED
  BY <1>1, TrayInit, TrayNext, PTL DEF Spec

-----------------------------------------------------------------------------
(* The file and what the process holds of it.                              *)

LEMMA SetKeeps ==
    ASSUME FileFollows, phase # "off", NEW k, NEW v, Set(k, v)
    PROVE  file' # ini' => saveFailed'
BY DEF FileFollows, Set, SaveFile, settingsVars

LEMMA SelectKeeps ==
    ASSUME FileFollows, phase # "off", NEW item, onDeviceSelect(item)
    PROVE  file' # ini' => saveFailed'
<1>1. CASE item = 0
  BY <1>1 DEF onDeviceSelect, settingsVars, FileFollows
<1>2. CASE item # 0
  <2>1. PICK id : rememberCaptureDevice(items[item], id)
    BY <1>2 DEF onDeviceSelect
  <2> QED
    BY <2>1, SetKeeps DEF rememberCaptureDevice
<1> QED
  BY <1>1, <1>2

LEMMA FileNext == FileFollows /\ [Next]_vars => FileFollows'
<1> SUFFICES ASSUME FileFollows, [Next]_vars PROVE FileFollows'
  OBVIOUS
<1>1. CASE initInstance
  BY <1>1 DEF initInstance, initSettings, LoadFile, SaveFile, FileFollows
<1>2. CASE run
  <2>1. phase # "off" /\ onDeviceSelect(selected')
    BY <1>2 DEF run
  <2> QED
    BY <2>1, SelectKeeps DEF FileFollows
<1>3. CASE Exit
  BY <1>3 DEF Exit, Gone, FileFollows
<1>4. CASE CloseOrMinimise \/ ClickTray \/ ShellRestarts
  BY <1>4 DEF CloseOrMinimise, ClickTray, ShellRestarts, settingsVars, FileFollows
<1>5. CASE SelectItem
  <2>1. phase # "off" /\ onDeviceSelect(selected')
    BY <1>5 DEF SelectItem
  <2> QED
    BY <2>1, SelectKeeps DEF FileFollows
<1>6. ASSUME NEW l \in Language, switchLanguage(l)
      PROVE  FileFollows'
  <2>1. phase # "off" /\ Set("language", l)
    BY <1>6 DEF switchLanguage
  <2> QED
    BY <2>1, SetKeeps DEF FileFollows
<1>7. CASE toggleMenuItem
  <2>1. phase # "off" /\ Set("check_updates", menu'.mark)
    BY <1>7 DEF toggleMenuItem
  <2> QED
    BY <2>1, SetKeeps DEF FileFollows
<1>8. CASE onUpdateCheckFinish
  BY <1>8 DEF onUpdateCheckFinish, setLastUpdateCheck, SaveFile, FileFollows
<1>9. CASE changeCaptureDevice \/ AudioError \/ Plug
  BY <1>9 DEF changeCaptureDevice, AudioError, Plug, settingsVars, FileFollows
<1>10. CASE UNCHANGED vars
  BY <1>10 DEF vars, settingsVars, FileFollows
<1> QED
  BY <1>1, <1>2, <1>3, <1>4, <1>5, <1>6, <1>7, <1>8, <1>9, <1>10 DEF Next

(* The file holds what the process holds, unless the last write failed.    *)
THEOREM FileAlwaysFollows == Spec => []FileFollows
<1>1. Init => FileFollows
  BY DEF Init, FileFollows
<1> QED
  BY <1>1, FileNext, PTL DEF Spec

-----------------------------------------------------------------------------
(* The menu.                                                               *)

(* What the process holds has every key.                                   *)
KeysThere == phase # "off" => DOMAIN ini.keys = Key

(* The menu shows it from the time it is made, before the process runs.    *)
MenuOK ==
    phase # "off" =>
        /\ menu.radio = ini.keys["language"]
        /\ menu.mark = ini.keys["check_updates"]
        /\ menu.submenus = 1
        /\ strings = resolveLanguage(ini.keys["language"])
        /\ strings = "Chinese" => menu.chinese
        /\ DOMAIN menu = {"chinese", "submenus", "radio", "mark"}

MenuInv == KeysThere /\ MenuOK

LEMMA KeysOfPorts == "language" \in Key /\ "check_updates" \in Key /\ "capture_device" \in Key
BY DEF Key

(* A setter changes the one value.                                         *)
LEMMA SetChanges ==
    ASSUME DOMAIN ini.keys = Key, NEW k \in Key, NEW v, Set(k, v)
    PROVE  /\ DOMAIN ini'.keys = Key
           /\ ini'.keys[k] = v
           /\ \A j \in Key \ {k} : ini'.keys[j] = ini.keys[j]
<1>1. CASE getValue(k) = v
  BY <1>1 DEF Set, getValue, settingsVars
<1>2. CASE getValue(k) # v
  <2>1. ini' = [ini EXCEPT !.keys[k] = v]
    BY <1>2 DEF Set
  <2>2. ini'.keys = [ini.keys EXCEPT ![k] = v]
    BY <2>1
  <2> QED
    BY <2>2
<1> QED
  BY <1>1, <1>2

LEMMA LoadFileKeys ==
    ASSUME LoadFile
    PROVE  DOMAIN ini'.keys = Key
<1>1. CASE file = NoFile
  <2>1. ini'.keys = DefaultValue
    BY <1>1 DEF LoadFile, setDefaultValues
  <2>2. DOMAIN DefaultValue = Key
    BY DEF DefaultValue, Key, Port
  <2> QED
    BY <2>1, <2>2
<1>2. CASE file # NoFile
  <2>1. ini' = checkMissingSettings(file)
    BY <1>2 DEF LoadFile
  <2>2. DOMAIN checkMissingSettings(file).keys = Key
    BY DEF checkMissingSettings
  <2> QED
    BY <2>1, <2>2
<1> QED
  BY <1>1, <1>2

LEMMA SelectChanges ==
    ASSUME DOMAIN ini.keys = Key, NEW item, onDeviceSelect(item)
    PROVE  /\ DOMAIN ini'.keys = Key
           /\ \A j \in Key \ {"capture_device"} : ini'.keys[j] = ini.keys[j]
<1>1. CASE item = 0
  BY <1>1 DEF onDeviceSelect, settingsVars
<1>2. CASE item # 0
  <2>1. PICK id : rememberCaptureDevice(items[item], id)
    BY <1>2 DEF onDeviceSelect
  <2> QED
    BY <2>1, SetChanges, KeysOfPorts DEF rememberCaptureDevice
<1> QED
  BY <1>1, <1>2

(* A step that selects a device, or none, leaves the menu as it is.        *)
LEMMA SameMenu ==
    ASSUME MenuInv, phase # "off", UNCHANGED <<menu, strings>>, DOMAIN ini'.keys = Key,
           \A j \in Key \ {"capture_device"} : ini'.keys[j] = ini.keys[j]
    PROVE  MenuInv'
<1>1. /\ ini'.keys["language"] = ini.keys["language"]
      /\ ini'.keys["check_updates"] = ini.keys["check_updates"]
  BY KeysOfPorts
<1> QED
  BY <1>1 DEF MenuInv, MenuOK, KeysThere, resolveLanguage

LEMMA MenuStarts ==
    ASSUME initInstance
    PROVE  MenuInv'
<1>1. DOMAIN ini'.keys = Key
  BY LoadFileKeys DEF initInstance, initSettings
<1>2. menu' = initMenu(MenuOfResource, ini') /\ strings' = initStrings(ini')
  BY DEF initInstance
<1>3. MenuOfResource.submenus = 0
  BY DEF MenuOfResource
<1> QED
  BY <1>1, <1>2, <1>3 DEF MenuInv, MenuOK, KeysThere, initMenu, initStrings

LEMMA MenuSwitches ==
    ASSUME MenuInv, NEW l \in Language, switchLanguage(l)
    PROVE  MenuInv'
<1>1. phase # "off" /\ DOMAIN ini.keys = Key /\ Set("language", l)
  BY DEF switchLanguage, MenuInv, KeysThere
<1>2. DOMAIN ini'.keys = Key
  BY <1>1, SetChanges, KeysOfPorts
<1>3. menu' = initMenu(menu, ini') /\ strings' = initStrings(ini') /\ menu.submenus = 1
  BY <1>1 DEF switchLanguage, MenuInv, MenuOK
<1> QED
  BY <1>2, <1>3 DEF MenuInv, MenuOK, KeysThere, initMenu, initStrings

LEMMA MenuToggles ==
    ASSUME MenuInv, toggleMenuItem
    PROVE  MenuInv'
<1>1. phase # "off" /\ DOMAIN ini.keys = Key /\ Set("check_updates", menu'.mark)
  BY DEF toggleMenuItem, MenuInv, KeysThere
<1>2. /\ DOMAIN ini'.keys = Key
      /\ ini'.keys["check_updates"] = menu'.mark
      /\ ini'.keys["language"] = ini.keys["language"]
  BY <1>1, SetChanges, KeysOfPorts
<1>3. (\E b : menu' = [menu EXCEPT !.mark = b]) /\ strings' = strings
  BY Zenon DEF toggleMenuItem
<1>4. MenuOK /\ phase # "off" /\ DOMAIN menu = {"chinese", "submenus", "radio", "mark"}
  BY <1>1 DEF MenuInv, MenuOK
<1>5. /\ menu'.radio = menu.radio /\ menu'.submenus = menu.submenus
      /\ menu'.chinese = menu.chinese /\ DOMAIN menu' = DOMAIN menu
  BY <1>3, <1>4
<1> QED
  BY <1>2, <1>3, <1>4, <1>5 DEF MenuInv, MenuOK, KeysThere, resolveLanguage

LEMMA MenuNext == MenuInv /\ [Next]_vars => MenuInv'
<1> SUFFICES ASSUME MenuInv, [Next]_vars PROVE MenuInv'
  OBVIOUS
<1>1. CASE run \/ SelectItem
  <2>1. phase # "off" /\ onDeviceSelect(selected') /\ UNCHANGED <<menu, strings>>
    BY <1>1 DEF run, SelectItem, textVars
  <2>2. DOMAIN ini.keys = Key
    BY <2>1 DEF MenuInv, KeysThere
  <2> QED
    BY <2>1, <2>2, SelectChanges, SameMenu
<1>2. CASE Exit
  BY <1>2 DEF Exit, Gone, MenuInv, MenuOK, KeysThere
<1>3. CASE CloseOrMinimise \/ ClickTray \/ ShellRestarts \/ onUpdateCheckFinish
  <2>1. phase # "off" /\ UNCHANGED <<menu, strings, ini>>
    BY <1>3 DEF CloseOrMinimise, ClickTray, ShellRestarts, onUpdateCheckFinish,
                setLastUpdateCheck, settingsVars, textVars
  <2>2. DOMAIN ini.keys = Key
    BY <2>1 DEF MenuInv, KeysThere
  <2> QED
    BY <2>1, <2>2, SameMenu
<1>4. CASE changeCaptureDevice \/ AudioError \/ Plug \/ UNCHANGED vars
  BY <1>4 DEF changeCaptureDevice, AudioError, Plug, vars, settingsVars, textVars,
              MenuInv, MenuOK, KeysThere, resolveLanguage
<1> QED
  BY <1>1, <1>2, <1>3, <1>4, MenuStarts, MenuSwitches, MenuToggles DEF Next

(* While the process runs, the marks in the menu and the texts show the    *)
(* settings it holds, and a menu beside Chinese texts is Chinese, whatever *)
(* the user switches.                                                      *)
THEOREM MarksAlwaysShowSettings == Spec => []MarksShowSettings
<1>1. Init => MenuInv
  BY DEF Init, MenuInv, MenuOK, KeysThere
<1>2. MenuInv => MarksShowSettings
  BY DEF MenuInv, MenuOK, MarksShowSettings, Running, getValue
<1> QED
  BY <1>1, <1>2, MenuNext, PTL DEF Spec

-----------------------------------------------------------------------------
(* The pipe and the device that was chosen.                                *)

(* The change that waits last is to the device that was chosen last; when  *)
(* none waits, the io thread has made that one.                            *)
Chosen ==
    chosen # None =>
        IF posted = <<>> THEN \/ pipe = chosen /\ current = chosen
                              \/ pipe = None /\ audioFailed /\ current \in {None, chosen}
        ELSE posted[Len(posted)] = chosen

(* The pipe, while there is one, is that of currentDeviceId_, so that      *)
(* nothing is to be done for the same device.                              *)
CurrentOK == pipe = current \/ (pipe = None /\ audioFailed)

PipeInv ==
    /\ \E S : posted \in Seq(S)
    /\ Chosen
    /\ CurrentOK

LEMMA SelectPosts ==
    ASSUME PipeInv, NEW item, onDeviceSelect(item), UNCHANGED pipeVars
    PROVE  PipeInv'
<1>1. CASE item = 0
  BY <1>1 DEF onDeviceSelect, PipeInv, Chosen, CurrentOK, pipeVars
<1>2. CASE item # 0
  <2>1. PICK id : chosen' = id /\ posted' = Append(posted, id)
    BY <1>2 DEF onDeviceSelect
  <2>2. PICK S : posted \in Seq(S)
    BY DEF PipeInv
  <2> DEFINE T == S \cup {id}
  <2>3. posted \in Seq(T) /\ id \in T
    BY <2>2
  <2>4. /\ posted' \in Seq(T) /\ posted' # <<>>
        /\ posted'[Len(posted')] = id
    BY <2>1, <2>3
  <2>5. CurrentOK'
    BY DEF PipeInv, CurrentOK, pipeVars
  <2> QED
    BY <2>1, <2>4, <2>5 DEF PipeInv, Chosen
<1> QED
  BY <1>1, <1>2

LEMMA ChangeFollows ==
    ASSUME PipeInv, changeCaptureDevice
    PROVE  PipeInv'
<1>1. PICK S : posted \in Seq(S)
  BY DEF PipeInv
<1>2. posted # <<>> /\ posted' = Tail(posted) /\ chosen' = chosen
  BY DEF changeCaptureDevice, listVars
<1>3. posted' \in Seq(S)
  BY <1>1, <1>2
<1>4. CurrentOK'
  BY DEF changeCaptureDevice, CurrentOK, PipeInv, pipeVars
<1>5. ASSUME chosen # None, posted' = <<>>
      PROVE  \/ pipe' = chosen /\ current' = chosen
             \/ pipe' = None /\ audioFailed' /\ current' \in {None, chosen}
  <2>1. Len(posted) = 1
    <3>1. Len(posted) \in Nat \ {0} /\ Len(Tail(posted)) = Len(posted) - 1
      BY <1>1, <1>2
    <3>2. Tail(posted) = <<>> /\ Len(<<>>) = 0
      BY <1>2, <1>5
    <3> QED
      BY <3>1, <3>2
  <2>2. Head(posted) = chosen
    BY <1>1, <1>2, <1>5, <2>1 DEF PipeInv, Chosen
  <2> QED
    BY <1>5, <2>2 DEF changeCaptureDevice, PipeInv, CurrentOK, pipeVars
<1>6. ASSUME chosen # None, posted' # <<>>
      PROVE  posted'[Len(posted')] = chosen
  <2>1. posted[Len(posted)] = chosen
    BY <1>2, <1>6 DEF PipeInv, Chosen
  <2>2. Len(posted) > 1
    BY <1>1, <1>2, <1>6
  <2> QED
    BY <1>1, <1>2, <2>1, <2>2
<1> QED
  BY <1>2, <1>3, <1>4, <1>5, <1>6 DEF PipeInv, Chosen

LEMMA PipeNext == PipeInv /\ [Next]_vars => PipeInv'
<1> SUFFICES ASSUME PipeInv, [Next]_vars PROVE PipeInv'
  OBVIOUS
<1>1. CASE initInstance
  BY <1>1 DEF initInstance, PipeInv, Chosen, CurrentOK, pipeVars
<1>2. CASE run \/ SelectItem
  BY <1>2, SelectPosts DEF run, SelectItem
<1>3. CASE Exit
  <2>1. posted' = <<>> /\ chosen' = None /\ current' = None /\ pipe' = None
    BY <1>3 DEF Exit, Gone
  <2>2. posted' \in Seq({})
    BY <2>1
  <2> QED
    BY <2>1, <2>2 DEF PipeInv, Chosen, CurrentOK
<1>4. CASE \/ CloseOrMinimise \/ ClickTray \/ ShellRestarts
           \/ (\E l \in Language : switchLanguage(l)) \/ toggleMenuItem \/ onUpdateCheckFinish
           \/ Plug \/ UNCHANGED vars
  <2>1. UNCHANGED <<posted, listVars, pipeVars>>
    BY <1>4 DEF CloseOrMinimise, ClickTray, ShellRestarts, switchLanguage, toggleMenuItem,
                onUpdateCheckFinish, Plug, vars
  <2> QED
    BY <2>1 DEF listVars, pipeVars, PipeInv, Chosen, CurrentOK
<1>5. CASE AudioError
  <2>1. UNCHANGED <<posted, chosen, current>> /\ pipe # None /\ pipe' = None /\ audioFailed'
    BY <1>5 DEF AudioError, listVars
  <2> QED
    BY <2>1 DEF PipeInv, Chosen, CurrentOK
<1> QED
  BY <1>1, <1>2, <1>3, <1>4, <1>5, ChangeFollows DEF Next

(* When no change waits, the pipe captures the device that was chosen      *)
(* last, or has failed.                                                    *)
THEOREM PipeAlwaysFollows == Spec => []PipeFollowsSelection
<1>1. Init => PipeInv
  <2> SUFFICES ASSUME Init PROVE PipeInv
    OBVIOUS
  <2>1. posted \in Seq({})
    BY DEF Init
  <2> QED
    BY <2>1 DEF Init, PipeInv, Chosen, CurrentOK
<1>2. PipeInv => PipeFollowsSelection
  BY DEF PipeInv, Chosen, PipeFollowsSelection, Running
<1> QED
  BY <1>1, <1>2, PipeNext, PTL DEF Spec

-----------------------------------------------------------------------------
(* The values that a process has for its settings.                         *)

(* A process has a value for each key, and the mark in the menu one that   *)
(* can be flipped.                                                         *)
ValuesThere ==
    phase # "off" => /\ DOMAIN ini = {"keys", "legacy"} /\ DOMAIN ini.keys = Key
                     /\ \A k \in Key : ini.keys[k] # Absent
                     /\ ini.keys["check_updates"] \in BOOLEAN

(* The file may have lost keys, but none of another type.                  *)
MarkInFile == file # NoFile => file.keys["check_updates"] \in BOOLEAN \cup {Absent}

LEMMA ContentIsFile ==
    ASSUME NEW content, DOMAIN content.keys = Key
    PROVE  content # NoFile
<1>1. NoFile.keys = [k \in {} |-> Absent]
  BY DEF NoFile
<1>2. DOMAIN NoFile.keys = {}
  BY <1>1
<1> QED
  BY <1>2, KeysOfPorts

LEMMA TornKeeps ==
    ASSUME NEW content, DOMAIN content = {"keys", "legacy"},
           content.keys["check_updates"] \in BOOLEAN, NEW rest \in Torn(content)
    PROVE  rest.keys["check_updates"] \in BOOLEAN \cup {Absent}
<1>1. PICK lost : rest = [content EXCEPT !.keys =
                             [k \in Key |-> IF k \in lost THEN Absent ELSE @[k]]]
  BY DEF Torn
<1>2. rest.keys = [k \in Key |-> IF k \in lost THEN Absent ELSE content.keys[k]]
  BY <1>1
<1> QED
  BY <1>2, KeysOfPorts

(* Whatever a write leaves can be loaded by the next process.              *)
LEMMA SaveKeepsMark ==
    ASSUME NEW content, DOMAIN content = {"keys", "legacy"},
           content.keys["check_updates"] \in BOOLEAN,
           MarkInFile, SaveFile(content)
    PROVE  MarkInFile'
<1>1. \/ file' = content
      \/ file' = file
      \/ file' \in Torn(content)
  BY DEF SaveFile
<1>2. CASE file' \in Torn(content)
  BY <1>2, TornKeeps DEF MarkInFile
<1> QED
  BY <1>1, <1>2 DEF MarkInFile, NoFile

(* The constructor of Settings: every key has a value, whatever was found. *)
LEMMA LoadGivesValues ==
    ASSUME MarkInFile, LoadFile
    PROVE  /\ DOMAIN ini' = {"keys", "legacy"} /\ DOMAIN ini'.keys = Key
           /\ \A k \in Key : ini'.keys[k] # Absent
           /\ ini'.keys["check_updates"] \in BOOLEAN
           /\ \A p \in Port : ini'.keys[p] = EffectivePort(file, p)
           /\ MarkInFile'
<1>1. \A p \in Port : p \in Key
  BY DEF Key
<1>2. DOMAIN DefaultValue = Key /\ DefaultValue["check_updates"] = TRUE
  BY DEF DefaultValue, Key, Port
<1>3. /\ DOMAIN ini' = {"keys", "legacy"} /\ DOMAIN ini'.keys = Key
      /\ \A k \in Key : ini'.keys[k] # Absent
      /\ ini'.keys["check_updates"] \in BOOLEAN
      /\ \A p \in Port : ini'.keys[p] = EffectivePort(file, p)
  <2>1. CASE file = NoFile
    <3>1. ini' = [keys |-> DefaultValue, legacy |-> NoLegacy]
      BY <2>1 DEF LoadFile, setDefaultValues
    <3>2. DOMAIN ini' = {"keys", "legacy"} /\ ini'.keys = DefaultValue
      BY <3>1
    <3> QED
      BY <2>1, <3>2, <1>1, <1>2, SettingsAssumption DEF EffectivePort
  <2>2. CASE file # NoFile
    <3> DEFINE Found(k) == IF file.keys[k] # Absent THEN file.keys[k]
                           ELSE IF k \in Port /\ file.legacy[k] # Absent THEN file.legacy[k]
                           ELSE DefaultValue[k]
               found == [k \in Key |-> Found(k)]
    <3>1. ini' = [keys |-> found, legacy |-> NoLegacy]
      BY <2>2 DEF LoadFile, checkMissingSettings
    <3> HIDE DEF found
    <3>2. DOMAIN ini' = {"keys", "legacy"} /\ ini'.keys = found
      BY <3>1
    <3>3. DOMAIN found = Key /\ \A k \in Key : found[k] = Found(k)
      BY DEF found
    <3>4. \A k \in Key : Found(k) # Absent
      BY SettingsAssumption
    <3>5. Found("check_updates") \in BOOLEAN
      <4>1. "check_updates" \notin Port
        BY DEF Port
      <4> QED
        BY <2>2, <4>1, <1>2 DEF MarkInFile
    <3>6. \A p \in Port : Found(p) = EffectivePort(file, p)
      BY <2>2 DEF EffectivePort
    <3> QED
      BY <3>2, <3>3, <3>4, <3>5, <3>6, <1>1, KeysOfPorts
  <2> QED
    BY <2>1, <2>2
<1>4. MarkInFile'
  BY <1>3, SaveKeepsMark DEF LoadFile, MarkInFile
<1> QED
  BY <1>3, <1>4

(* A setter that is given a value keeps the values.                        *)
LEMMA SetKeepsValues ==
    ASSUME ValuesThere, MarkInFile, phase # "off", NEW k \in Key, NEW v, v # Absent,
           k = "check_updates" => v \in BOOLEAN, Set(k, v)
    PROVE  ValuesThere' /\ MarkInFile'
<1>1. CASE getValue(k) = v
  BY <1>1 DEF Set, settingsVars, ValuesThere, MarkInFile
<1>2. CASE getValue(k) # v
  <2>1. ini' = [ini EXCEPT !.keys[k] = v] /\ SaveFile(ini')
    BY <1>2 DEF Set
  <2>2. /\ DOMAIN ini'.keys = Key /\ ini'.keys[k] = v
        /\ \A j \in Key \ {k} : ini'.keys[j] = ini.keys[j]
    BY SetChanges DEF ValuesThere
  <2>3. DOMAIN ini' = {"keys", "legacy"}
    BY <2>1 DEF ValuesThere
  <2>4. /\ \A j \in Key : ini'.keys[j] # Absent
        /\ ini'.keys["check_updates"] \in BOOLEAN
    BY <2>2, KeysOfPorts DEF ValuesThere
  <2> QED
    BY <2>1, <2>2, <2>3, <2>4, SaveKeepsMark DEF ValuesThere
<1> QED
  BY <1>1, <1>2

-----------------------------------------------------------------------------
(* The list of devices.                                                    *)

Ids == {e.id : e \in Endpoint}

IdsOf(flow) == {e.id : e \in Active(flow)}

DefaultKeys == {defaultRenderDeviceKey, defaultCaptureDeviceKey}

(* Each item stands for a default device or for a device of its own: a key *)
(* has one device, a device one key, and no device has the key of a        *)
(* default one.                                                            *)
Listed(keys, ids, among) ==
    /\ keys \in Seq(Int)
    /\ DOMAIN ids \subseteq 1..Len(keys) - 1
    /\ \A i \in 1..Len(keys) : keys[i] \in DefaultKeys \cup DOMAIN ids
    /\ \A j, k \in DOMAIN ids : ids[j] = ids[k] => j = k
    /\ \A k \in DOMAIN ids : ids[k] \in among

LEMMA NothingListed == Listed(<<>>, <<>>, {})
BY DEF Listed

LEMMA AddDevicesLists ==
    ASSUME NEW keys, NEW ids, NEW among, Listed(keys, ids, among), NEW flow \in Flow,
           NEW more, more \cap among = {},
           NEW n \in Nat, NEW listed \in [1..n -> more],
           \A i, j \in 1..n : i # j => listed[i] # listed[j]
    PROVE  LET result == addDevices(keys, ids, flow, listed)
           IN  Listed(result.keys, result.ids, among \cup more)
<1> DEFINE result == addDevices(keys, ids, flow, listed)
           first == Len(keys) + 1
           ours == [i \in 1..n |-> first + i - 1]
           every == DOMAIN ids \cup first..first + n - 1
<1>1. CASE listed = <<>>
  <2>1. result.keys = keys /\ result.ids = ids
    BY <1>1 DEF addDevices
  <2> QED
    BY <2>1 DEF Listed
<1>2. CASE listed # <<>>
  <2>1. Len(listed) = n /\ Len(keys) \in Nat /\ first \in Nat /\ first >= 1
    BY DEF Listed
  <2>2. /\ result.keys = Append(keys, defaultKey[flow]) \o ours
        /\ result.ids = [k \in every |-> IF k \in DOMAIN ids THEN ids[k] ELSE listed[k - first + 1]]
    BY <1>2, <2>1 DEF addDevices
  <2>3. defaultKey[flow] \in DefaultKeys /\ DefaultKeys \subseteq Int
    BY DEF Flow, defaultKey, DefaultKeys, defaultRenderDeviceKey, defaultCaptureDeviceKey
  <2>4. /\ Append(keys, defaultKey[flow]) \in Seq(Int)
        /\ Len(Append(keys, defaultKey[flow])) = first
        /\ \A i \in 1..first :
             Append(keys, defaultKey[flow])[i] = IF i = first THEN defaultKey[flow] ELSE keys[i]
    <3>1. keys \in Seq(Int)
      BY DEF Listed
    <3>2. defaultKey[flow] \in Int
      BY <2>3
    <3> QED
      BY <3>1, <3>2, AppendProperties
  <2>5. ours \in Seq(Int) /\ Len(ours) = n /\ \A i \in 1..n : ours[i] = first + i - 1
    BY <2>1
  <2> DEFINE start == Append(keys, defaultKey[flow])
  <2> HIDE DEF ours, start, first
  <2>6. /\ start \o ours \in Seq(Int) /\ Len(start \o ours) = first + n
        /\ \A i \in 1..first + n :
             (start \o ours)[i] = IF i <= first THEN start[i] ELSE ours[i - first]
    <3>1. /\ start \o ours \in Seq(Int) /\ Len(start \o ours) = Len(start) + Len(ours)
          /\ \A i \in 1..Len(start) + Len(ours) :
               (start \o ours)[i] = IF i <= Len(start) THEN start[i] ELSE ours[i - Len(start)]
      <4>1. start \in Seq(Int) /\ ours \in Seq(Int)
        BY <2>4, <2>5 DEF start
      <4> QED
        BY <4>1, ConcatProperties, Zenon
    <3> QED
      BY <2>4, <2>5, <3>1 DEF start
  <2>7. DOMAIN ids \subseteq 1..first - 2 /\ \A k \in DOMAIN ids : ids[k] \in among
    BY <2>1 DEF Listed, first
  <2>8. \A i \in 1..first + n : (start \o ours)[i] \in DefaultKeys \cup every
    <3> SUFFICES ASSUME NEW i \in 1..first + n PROVE (start \o ours)[i] \in DefaultKeys \cup every
      OBVIOUS
    <3>1. CASE i < first
      <4>1. i \in 1..Len(keys) /\ (start \o ours)[i] = keys[i]
        BY <2>1, <2>4, <2>6, <3>1 DEF start, first
      <4> QED
        BY <4>1 DEF Listed
    <3>2. CASE i = first
      BY <2>1, <2>3, <2>4, <2>6, <3>2 DEF start
    <3>3. CASE i > first
      <4>1. i - first \in 1..n /\ (start \o ours)[i] = first + (i - first) - 1
        BY <2>1, <2>5, <2>6, <3>3
      <4>2. first + (i - first) - 1 = i - 1 /\ i - 1 \in first..first + n - 1
        BY <2>1, <3>3
      <4>3. (start \o ours)[i] \in first..first + n - 1
        BY <4>1, <4>2
      <4> QED
        BY <4>3
    <3>4. i < first \/ i = first \/ i > first
      BY <2>1
    <3> QED
      BY <3>1, <3>2, <3>3, <3>4
  <2>9. every \subseteq 1..(first + n) - 1
    BY <2>1, <2>7
  <2>10. \A k \in every : result.ids[k] = IF k \in DOMAIN ids THEN ids[k] ELSE listed[k - first + 1]
    BY <2>2
  <2>11. \A k \in every \ DOMAIN ids : k - first + 1 \in 1..n /\ result.ids[k] = listed[k - first + 1]
    BY <2>1, <2>10
  <2>12. \A k \in every : result.ids[k] \in among \cup more
    BY <2>7, <2>10, <2>11
  <2>13. \A j, k \in every : result.ids[j] = result.ids[k] => j = k
    <3> SUFFICES ASSUME NEW j \in every, NEW k \in every, result.ids[j] = result.ids[k] PROVE j = k
      OBVIOUS
    <3>1. CASE j \in DOMAIN ids /\ k \in DOMAIN ids
      BY <2>10, <3>1 DEF Listed
    <3>2. CASE j \notin DOMAIN ids /\ k \notin DOMAIN ids
      <4>1. j - first + 1 = k - first + 1
        BY <2>11, <3>2
      <4> QED
        BY <2>1, <2>9, <4>1
    <3>3. CASE (j \in DOMAIN ids /\ k \notin DOMAIN ids) \/ (j \notin DOMAIN ids /\ k \in DOMAIN ids)
      BY <2>7, <2>10, <2>11, <3>3
    <3> QED
      BY <3>1, <3>2, <3>3
  <2>14. DOMAIN result.ids = every /\ result.keys = start \o ours
    BY <2>2 DEF start, ours, first
  <2> HIDE DEF every, result
  <2>15. Listed(result.keys, result.ids, among \cup more)
    BY <2>6, <2>8, <2>9, <2>12, <2>13, <2>14 DEF Listed
  <2> QED
    BY <2>15 DEF result
<1> QED
  BY <1>1, <1>2

(* A listing is one of the active devices of the flow, each once.          *)
LEMMA ListingsListOnce ==
    ASSUME present \subseteq Endpoint, NEW flow, NEW listed \in Listings(flow)
    PROVE  \E n \in Nat : /\ listed \in [1..n -> IdsOf(flow)]
                          /\ \A i, j \in 1..n : i # j => listed[i] # listed[j]
<1>1. PICK f \in getEndpointDevices(flow) : listed \in SetToSeqs(Range(f))
  BY DEF Listings
<1> DEFINE names == {e.name : e \in Active(flow)}
<1>2. f \in [names -> IdsOf(flow)]
  BY <1>1 DEF getEndpointDevices, IdsOf
<1>3. Range(f) \subseteq IdsOf(flow)
  BY <1>2 DEF Range
<1>4. IsFiniteSet(Active(flow))
  BY FS_Subset, WindowAssumption DEF Active
<1>5. IsFiniteSet(IdsOf(flow))
  <2> DEFINE holder == [id \in IdsOf(flow) |-> CHOOSE e \in Active(flow) : e.id = id]
  <2>1. /\ holder \in [IdsOf(flow) -> Active(flow)]
        /\ \A id \in IdsOf(flow) : holder[id].id = id
    BY DEF IdsOf
  <2>2. holder \in Injection(IdsOf(flow), Active(flow))
    BY <2>1, Fun_IsInj
  <2> QED
    BY <1>4, <2>2, FS_Injection, Fun_ExistsInj
<1>6. Cardinality(Range(f)) \in Nat
  BY <1>3, <1>5, FS_Subset, FS_CardinalityType
<1>7. /\ listed \in [1..Cardinality(Range(f)) -> Range(f)]
      /\ \A i, j \in 1..Cardinality(Range(f)) : i # j => listed[i] # listed[j]
  BY <1>1 DEF SetToSeqs
<1>8. listed \in [1..Cardinality(Range(f)) -> IdsOf(flow)]
  BY <1>3, <1>7
<1> QED
  BY <1>6, <1>7, <1>8

LEMMA FlowsApart ==
    ASSUME present \subseteq Endpoint
    PROVE  /\ IdsOf("capture") \cap IdsOf("render") = {}
           /\ IdsOf("render") \cup IdsOf("capture") \subseteq Ids
BY WindowAssumption DEF IdsOf, Ids, Active

LEMMA InitControlsLists ==
    ASSUME present \subseteq Endpoint, initControls
    PROVE  Listed(items', deviceIds', Ids) /\ selected' \in 0..Len(items')
<1>1. PICK render \in Listings("render"), capture \in Listings("capture") :
        LET one == addDevices(<<>>, <<>>, "render", render)
            two == addDevices(one.keys, one.ids, "capture", capture)
        IN  items' = two.keys /\ deviceIds' = two.ids
              /\ selected' = IF two.keys = <<>> THEN 0 ELSE 1
  BY DEF initControls
<1> DEFINE one == addDevices(<<>>, <<>>, "render", render)
           two == addDevices(one.keys, one.ids, "capture", capture)
<1>2. PICK m \in Nat : /\ render \in [1..m -> IdsOf("render")]
                       /\ \A i, j \in 1..m : i # j => render[i] # render[j]
  BY ListingsListOnce
<1>3. PICK n \in Nat : /\ capture \in [1..n -> IdsOf("capture")]
                       /\ \A i, j \in 1..n : i # j => capture[i] # capture[j]
  BY ListingsListOnce
<1>4. Listed(one.keys, one.ids, {} \cup IdsOf("render"))
  <2>1. "render" \in Flow /\ IdsOf("render") \cap {} = {}
    BY DEF Flow
  <2> HIDE DEF one
  <2> QED
    BY <1>2, <2>1, NothingListed, AddDevicesLists DEF one
<1>5. Listed(two.keys, two.ids, ({} \cup IdsOf("render")) \cup IdsOf("capture"))
  <2>1. "capture" \in Flow /\ IdsOf("capture") \cap ({} \cup IdsOf("render")) = {}
    BY FlowsApart DEF Flow
  <2> HIDE DEF one
  <2> QED
    BY <1>3, <1>4, <2>1, AddDevicesLists
<1>6. Listed(items', deviceIds', ({} \cup IdsOf("render")) \cup IdsOf("capture"))
  BY <1>1, <1>5
<1>7. Listed(items', deviceIds', Ids)
  BY <1>6, FlowsApart DEF Listed
<1>8. selected' = IF items' = <<>> THEN 0 ELSE 1
  BY <1>1
<1> QED
  BY <1>7, <1>8 DEF Listed

-----------------------------------------------------------------------------
(* A device is selected.                                                   *)

(* What deviceIds_ holds are devices of the system, which have an id.      *)
LEMMA DeviceHasId ==
    ASSUME present \subseteq Endpoint, Listed(items, deviceIds, Ids),
           NEW key, NEW id \in getDeviceId(key)
    PROVE  id \in Ids
<1>1. CASE key \in DOMAIN deviceIds
  BY <1>1 DEF getDeviceId, Listed
<1>2. CASE key \notin DOMAIN deviceIds
  BY <1>2 DEF getDeviceId, getDefaultDevice, Active, Ids
<1> QED
  BY <1>1, <1>2

LEMMA IdsAreValues == \A id \in Ids : id # Absent /\ id # defaultId.render /\ id # defaultId.capture
BY WindowAssumption DEF Ids, Flow

LEMMA DefaultIdsAreValues ==
    /\ defaultId.render # Absent /\ defaultId.capture # Absent
    /\ defaultId.render # defaultId.capture
    /\ defaultRenderDeviceKey # defaultCaptureDeviceKey
<1>1. defaultId["render"] # Absent /\ defaultId["capture"] # Absent
  BY WindowAssumption DEF Flow
<1>2. defaultId.render = "default_playback" /\ defaultId.capture = "default_recording"
  BY DEF defaultId
<1>3. defaultRenderDeviceKey # defaultCaptureDeviceKey
  BY DEF defaultRenderDeviceKey, defaultCaptureDeviceKey
<1> QED
  BY <1>1, <1>2, <1>3

(* The default devices are remembered by names of their own, any other by  *)
(* its id; each of these is read back as the key of the item.              *)
LEMMA SelectRemembers ==
    ASSUME present \subseteq Endpoint, Listed(items, deviceIds, Ids), DOMAIN ini.keys = Key,
           NEW item \in 1..Len(items), onDeviceSelect(item), UNCHANGED <<items, deviceIds>>
    PROVE  getDeviceKey(getValue("capture_device"))' = items[item]
<1> DEFINE key == items[item]
<1>1. item # 0
  BY DEF Listed
<1>2. PICK id \in getDeviceId(key) : rememberCaptureDevice(key, id)
  BY <1>1 DEF onDeviceSelect
<1>3. id \in Ids /\ id # defaultId.render /\ id # defaultId.capture
  BY <1>2, DeviceHasId, IdsAreValues
<1> DEFINE saved == CASE key = defaultRenderDeviceKey -> defaultId.render
                      [] key = defaultCaptureDeviceKey -> defaultId.capture
                      [] OTHER -> id
<1>4. getValue("capture_device")' = saved
  <2>1. ini'.keys["capture_device"] = saved
    BY <1>2, SetChanges, KeysOfPorts DEF rememberCaptureDevice
  <2> QED
    BY <2>1 DEF getValue
<1>5. /\ deviceIds' = deviceIds /\ items' = items
      /\ key \in DefaultKeys \cup DOMAIN deviceIds
      /\ DOMAIN deviceIds \subseteq Nat
      /\ \A j, k \in DOMAIN deviceIds : deviceIds[j] = deviceIds[k] => j = k
  BY DEF Listed
<1>6. CASE key = defaultRenderDeviceKey
  <2>1. saved = defaultId.render
    BY <1>6, DefaultIdsAreValues
  <2> HIDE DEF saved
  <2> QED
    BY <1>4, <1>6, <2>1, DefaultIdsAreValues DEF getDeviceKey
<1>7. CASE key = defaultCaptureDeviceKey
  <2>1. saved = defaultId.capture
    BY <1>7, DefaultIdsAreValues
  <2> HIDE DEF saved
  <2> QED
    BY <1>4, <1>7, <2>1, DefaultIdsAreValues DEF getDeviceKey
<1>8. CASE key \notin DefaultKeys
  <2>1. saved = id
    BY <1>8 DEF DefaultKeys
  <2>2. key \in DOMAIN deviceIds /\ id = deviceIds[key]
    BY <1>2, <1>5, <1>8 DEF getDeviceId
  <2>3. id \in Range(deviceIds)
    BY <2>2 DEF Range
  <2>4. (CHOOSE k \in DOMAIN deviceIds : deviceIds[k] = id) = key
    BY <1>5, <2>2
  <2> HIDE DEF saved
  <2> QED
    BY <1>3, <1>4, <1>5, <2>1, <2>3, <2>4 DEF getDeviceKey
<1> QED
  BY <1>6, <1>7, <1>8 DEF DefaultKeys

LEMMA SelectKeepsValues ==
    ASSUME present \subseteq Endpoint, Listed(items, deviceIds, Ids),
           ValuesThere, MarkInFile, phase # "off",
           NEW item, onDeviceSelect(item)
    PROVE  ValuesThere' /\ MarkInFile'
<1>1. CASE item = 0
  BY <1>1 DEF onDeviceSelect, settingsVars, ValuesThere, MarkInFile
<1>2. CASE item # 0
  <2>1. PICK id \in getDeviceId(items[item]) : rememberCaptureDevice(items[item], id)
    BY <1>2 DEF onDeviceSelect
  <2>2. id # Absent
    BY <2>1, DeviceHasId, IdsAreValues
  <2>3. PICK v : v # Absent /\ Set("capture_device", v)
    BY <2>1, <2>2, DefaultIdsAreValues DEF rememberCaptureDevice
  <2> QED
    BY <2>3, SetKeepsValues, KeysOfPorts
<1> QED
  BY <1>1, <1>2

-----------------------------------------------------------------------------
(* The type of the state, with what it rests on.                           *)

(* Only a process that runs has changes that wait.                         *)
Counted ==
    /\ \E S : posted \in Seq(S)
    /\ Len(posted) <= MaxPosted
    /\ phase # "running" => posted = <<>>

Flags ==
    /\ visible \in BOOLEAN /\ icon \in BOOLEAN /\ trayIconAdded \in BOOLEAN
    /\ shellOk \in BOOLEAN /\ audioFailed \in BOOLEAN /\ saveFailed \in BOOLEAN

ListInv ==
    /\ present \subseteq Endpoint
    /\ phase \in {"off", "starting", "running"}
    /\ phase # "off" => Listed(items, deviceIds, Ids)
    /\ selected \in 0..Len(items)

SettingsInv ==
    /\ MenuInv
    /\ FileFollows
    /\ ValuesThere
    /\ MarkInFile
    /\ phase = "off" => ini = NoFile

WindowInv == SettingsInv /\ ListInv /\ Counted /\ Flags /\ SelectionRemembered

(* A step that leaves the settings and the list alone.                     *)
LEMMA Elsewhere ==
    ASSUME WindowInv, UNCHANGED <<settingsVars, phase, textVars, listVars>>
    PROVE  /\ ValuesThere' /\ MarkInFile' /\ (phase = "off" => ini = NoFile)'
           /\ SelectionRemembered'
           /\ (phase # "off" => Listed(items, deviceIds, Ids))'
           /\ (selected \in 0..Len(items))'
BY DEF WindowInv, SettingsInv, ListInv, settingsVars, textVars, listVars, ValuesThere, MarkInFile,
       SelectionRemembered, Running, getDeviceKey, getValue

LEMMA ValuesNext == WindowInv /\ [Next]_vars => SettingsInv'
<1> SUFFICES ASSUME WindowInv, [Next]_vars PROVE SettingsInv'
  OBVIOUS
<1>1. MenuInv' /\ FileFollows'
  BY MenuNext, FileNext DEF WindowInv, SettingsInv
<1> USE DEF WindowInv, SettingsInv, ListInv
<1> SUFFICES ValuesThere' /\ MarkInFile' /\ (phase' = "off" => ini' = NoFile)
  BY <1>1
<1>2. CASE initInstance
  BY <1>2, LoadGivesValues DEF initInstance, initSettings, ValuesThere
<1>3. CASE run \/ SelectItem
  <2>1. phase # "off" /\ phase' # "off" /\ onDeviceSelect(selected')
    BY <1>3 DEF run, SelectItem
  <2> QED
    BY <2>1, SelectKeepsValues
<1>4. CASE Exit
  BY <1>4 DEF Exit, Gone, ValuesThere, MarkInFile
<1>5. ASSUME NEW l \in Language, switchLanguage(l)
      PROVE  ValuesThere' /\ MarkInFile' /\ (phase' = "off" => ini' = NoFile)
  <2>1. phase # "off" /\ phase' # "off" /\ Set("language", l) /\ l # Absent
    BY <1>5, WindowAssumption DEF switchLanguage
  <2> QED
    BY <2>1, SetKeepsValues, KeysOfPorts
<1>6. CASE toggleMenuItem
  <2>1. phase # "off" /\ phase' # "off" /\ Set("check_updates", menu'.mark)
    BY <1>6 DEF toggleMenuItem
  <2>2. "mark" \in DOMAIN menu
    BY <2>1 DEF MenuInv, MenuOK
  <2>3. menu' = [menu EXCEPT !.mark = ~menu.mark]
    BY <1>6 DEF toggleMenuItem
  <2>4. menu'.mark = ~menu.mark
    BY <2>2, <2>3
  <2>5. menu'.mark \in BOOLEAN
    BY <2>4
  <2>6. menu'.mark # Absent
    BY <2>5, SettingsAssumption
  <2> QED
    BY <2>1, <2>5, <2>6, SetKeepsValues, KeysOfPorts
<1>7. CASE onUpdateCheckFinish
  <2>1. SaveFile(ini) /\ UNCHANGED <<ini, phase>> /\ phase # "off"
    BY <1>7 DEF onUpdateCheckFinish, setLastUpdateCheck
  <2>2. MarkInFile'
    BY <2>1, SaveKeepsMark DEF ValuesThere
  <2> QED
    BY <2>1, <2>2 DEF ValuesThere
<1>8. CASE \/ CloseOrMinimise \/ ClickTray \/ ShellRestarts \/ changeCaptureDevice
           \/ AudioError \/ Plug \/ UNCHANGED vars
  <2>1. UNCHANGED <<settingsVars, phase, textVars, listVars>>
    BY <1>8 DEF CloseOrMinimise, ClickTray, ShellRestarts, changeCaptureDevice, AudioError, Plug, vars
  <2> QED
    BY <2>1, Elsewhere
<1> QED
  BY <1>2, <1>3, <1>4, <1>5, <1>6, <1>7, <1>8 DEF Next

(* No other setter touches the device.                                     *)
LEMMA DeviceKeyKept ==
    ASSUME WindowInv, phase = "running",
           (\E l \in Language : switchLanguage(l)) \/ toggleMenuItem \/ onUpdateCheckFinish
    PROVE  ini'.keys["capture_device"] = ini.keys["capture_device"]
<1>1. DOMAIN ini.keys = Key
  BY DEF WindowInv, SettingsInv, ValuesThere
<1>2. CASE onUpdateCheckFinish
  BY <1>2 DEF onUpdateCheckFinish, setLastUpdateCheck
<1>3. CASE toggleMenuItem
  BY <1>1, <1>3, SetChanges, KeysOfPorts DEF toggleMenuItem
<1>4. CASE \E l \in Language : switchLanguage(l)
  BY <1>1, <1>4, SetChanges, KeysOfPorts DEF switchLanguage
<1> QED
  BY <1>2, <1>3, <1>4

LEMMA ListNext == WindowInv /\ [Next]_vars => ListInv' /\ SelectionRemembered'
<1> SUFFICES ASSUME WindowInv, [Next]_vars PROVE ListInv' /\ SelectionRemembered'
  OBVIOUS
<1> USE DEF WindowInv, ListInv
<1>1. CASE initInstance
  <2>1. Listed(items', deviceIds', Ids) /\ selected' \in 0..Len(items')
    BY <1>1, InitControlsLists DEF initInstance
  <2> QED
    BY <1>1, <2>1 DEF initInstance, SelectionRemembered, Running
<1>2. CASE run \/ SelectItem
  <2>1. /\ phase # "off" /\ phase' = "running" /\ onDeviceSelect(selected')
        /\ UNCHANGED <<items, deviceIds, present>>
    BY <1>2 DEF run, SelectItem
  <2>2. Listed(items, deviceIds, Ids) /\ DOMAIN items = 1..Len(items) /\ Len(items) \in Nat
    BY <2>1 DEF Listed
  <2>3. selected' \in 0..Len(items)
    <3>1. CASE SelectItem
      BY <2>2, <3>1 DEF SelectItem
    <3>2. CASE run
      <4>1. selected' = restoreCaptureDevice
        BY <3>2 DEF run
      <4>2. ASSUME NEW key \in Range(items)
            PROVE  (CHOOSE i \in DOMAIN items : items[i] = key) \in DOMAIN items
        BY <4>2 DEF Range
      <4> QED
        BY <2>2, <4>1, <4>2 DEF restoreCaptureDevice
    <3> QED
      BY <1>2, <3>1, <3>2
  <2>4. DOMAIN ini.keys = Key
    BY <2>1 DEF SettingsInv, ValuesThere
  <2>5. ASSUME selected' # 0
        PROVE  getDeviceKey(getValue("capture_device"))' = items[selected']
    BY <2>1, <2>2, <2>3, <2>4, <2>5, SelectRemembers
  <2>6. items' = items
    BY <2>1
  <2>7. SelectionRemembered'
    BY <2>5, <2>6 DEF SelectionRemembered
  <2> QED
    BY <2>1, <2>2, <2>3, <2>7
<1>3. CASE Exit
  BY <1>3 DEF Exit, Gone, SelectionRemembered, Running
<1>4. CASE (\E l \in Language : switchLanguage(l)) \/ toggleMenuItem \/ onUpdateCheckFinish
  <2>1. UNCHANGED <<listVars, present, phase>> /\ phase = "running"
    BY <1>4 DEF switchLanguage, toggleMenuItem, onUpdateCheckFinish
  <2>3. ini'.keys["capture_device"] = ini.keys["capture_device"]
    BY <1>4, <2>1, DeviceKeyKept
  <2>4. SelectionRemembered'
    BY <2>1, <2>3 DEF SelectionRemembered, Running, getDeviceKey, getValue, listVars
  <2> QED
    BY <2>1, <2>4 DEF listVars
<1>5. CASE \/ CloseOrMinimise \/ ClickTray \/ ShellRestarts \/ changeCaptureDevice
           \/ AudioError \/ Plug \/ UNCHANGED vars
  <2>1. UNCHANGED <<settingsVars, phase, textVars, listVars>>
    BY <1>5 DEF CloseOrMinimise, ClickTray, ShellRestarts, changeCaptureDevice, AudioError, Plug, vars
  <2>2. present' \subseteq Endpoint
    BY <1>5 DEF CloseOrMinimise, ClickTray, ShellRestarts, changeCaptureDevice, AudioError, Plug, vars
  <2> QED
    BY <2>1, <2>2, Elsewhere
<1> QED
  BY <1>1, <1>2, <1>3, <1>4, <1>5 DEF Next

LEMMA CountedNext == WindowInv /\ [Next]_vars => Counted'
<1> SUFFICES ASSUME WindowInv, [Next]_vars PROVE Counted'
  OBVIOUS
<1>1. PICK S : posted \in Seq(S)
  BY DEF WindowInv, Counted
<1>2. /\ Len(posted) <= MaxPosted /\ MaxPosted \in Nat /\ MaxPosted >= 1
      /\ phase # "running" => posted = <<>>
  BY WindowAssumption DEF WindowInv, Counted
<1>3. CASE run \/ SelectItem
  <2>1. phase' = "running" /\ Len(posted) < MaxPosted /\ onDeviceSelect(selected')
    BY <1>2, <1>3 DEF run, SelectItem
  <2>2. CASE posted' = posted
    BY <1>1, <1>2, <2>1, <2>2 DEF Counted
  <2>3. ASSUME NEW id, posted' = Append(posted, id) PROVE Counted'
    <3>1. posted \in Seq(S \cup {id})
      BY <1>1
    <3>2. posted' \in Seq(S \cup {id}) /\ Len(posted') = Len(posted) + 1
      BY <2>3, <3>1
    <3> QED
      BY <1>1, <1>2, <2>1, <3>2 DEF Counted
  <2> QED
    BY <2>1, <2>2, <2>3 DEF onDeviceSelect
<1>4. CASE changeCaptureDevice
  <2>1. posted # <<>> /\ posted' = Tail(posted) /\ phase' = phase
    BY <1>4 DEF changeCaptureDevice
  <2>2. posted' \in Seq(S) /\ Len(posted') <= Len(posted) /\ Len(posted) \in Nat /\ Len(posted') \in Nat
    BY <1>1, <2>1
  <2> QED
    BY <1>2, <2>1, <2>2 DEF Counted
<1>5. CASE Exit
  <2>1. posted' = <<>>
    BY <1>5 DEF Exit, Gone
  <2>2. posted' \in Seq({}) /\ Len(posted') = 0
    BY <2>1
  <2> QED
    BY <1>2, <2>1, <2>2 DEF Counted
<1>6. CASE initInstance
  BY <1>1, <1>2, <1>6 DEF initInstance, Counted
<1>7. CASE \/ CloseOrMinimise \/ ClickTray \/ ShellRestarts
           \/ (\E l \in Language : switchLanguage(l)) \/ toggleMenuItem \/ onUpdateCheckFinish
           \/ AudioError \/ Plug \/ UNCHANGED vars
  <2>1. UNCHANGED <<posted, phase>>
    BY <1>7 DEF CloseOrMinimise, ClickTray, ShellRestarts, switchLanguage, toggleMenuItem,
                onUpdateCheckFinish, AudioError, Plug, vars
  <2> QED
    BY <1>1, <1>2, <2>1 DEF Counted
<1> QED
  BY <1>3, <1>4, <1>5, <1>6, <1>7 DEF Next

LEMMA SetFlag ==
    ASSUME saveFailed \in BOOLEAN, NEW k, NEW v, Set(k, v)
    PROVE  saveFailed' \in BOOLEAN
BY DEF Set, SaveFile, settingsVars

LEMMA FlagsNext == Flags /\ [Next]_vars => Flags'
<1> SUFFICES ASSUME Flags, [Next]_vars PROVE Flags'
  OBVIOUS
<1> USE DEF Flags
<1>1. saveFailed' \in BOOLEAN
  <2>1. ASSUME NEW item, onDeviceSelect(item) PROVE saveFailed' \in BOOLEAN
    BY <2>1, SetFlag DEF onDeviceSelect, rememberCaptureDevice, settingsVars
  <2>2. CASE run \/ SelectItem
    BY <2>1, <2>2 DEF run, SelectItem
  <2>3. CASE initInstance
    BY <2>3 DEF initInstance, initSettings, LoadFile, SaveFile
  <2>4. CASE (\E l \in Language : switchLanguage(l)) \/ toggleMenuItem
    BY <2>4, SetFlag DEF switchLanguage, toggleMenuItem
  <2>5. CASE Exit \/ onUpdateCheckFinish
    BY <2>5 DEF Exit, Gone, onUpdateCheckFinish, setLastUpdateCheck, SaveFile
  <2>6. CASE \/ CloseOrMinimise \/ ClickTray \/ ShellRestarts \/ changeCaptureDevice
             \/ AudioError \/ Plug \/ UNCHANGED vars
    BY <2>6 DEF CloseOrMinimise, ClickTray, ShellRestarts, changeCaptureDevice, AudioError, Plug,
                vars, settingsVars
  <2> QED
    BY <2>2, <2>3, <2>4, <2>5, <2>6 DEF Next
<1>2. ASSUME UNCHANGED trayVars, audioFailed' \in BOOLEAN PROVE Flags'
  BY <1>1, <1>2 DEF trayVars
<1>3. CASE \/ run \/ SelectItem \/ (\E l \in Language : switchLanguage(l)) \/ toggleMenuItem
           \/ onUpdateCheckFinish \/ changeCaptureDevice \/ AudioError \/ Plug \/ UNCHANGED vars
  BY <1>2, <1>3 DEF run, SelectItem, switchLanguage, toggleMenuItem, onUpdateCheckFinish,
     changeCaptureDevice, AudioError, Plug, vars, pipeVars
<1>4. CASE initInstance \/ Exit \/ CloseOrMinimise \/ ClickTray \/ ShellRestarts
  BY <1>1, <1>4 DEF initInstance, Exit, Gone, CloseOrMinimise, ClickTray, ShellRestarts,
     addTrayIcon, removeTrayIcon, hideToTray, showFromTray, pipeVars
<1> QED
  BY <1>3, <1>4 DEF Next

LEMMA WindowHolds == Spec => []WindowInv
<1>1. Init => WindowInv
  <2> SUFFICES ASSUME Init PROVE WindowInv
    OBVIOUS
  <2>1. /\ phase = "off" /\ ini = NoFile /\ present \subseteq Endpoint
        /\ selected = 0 /\ items = <<>> /\ posted = <<>>
    BY DEF Init
  <2>2. MarkInFile
    <3>1. CASE file = NoFile
      BY <3>1 DEF MarkInFile
    <3>2. CASE file # NoFile
      <4>1. file = [keys |-> [k \in Key |-> Absent],
                    legacy |-> [server_port |-> "15711", client_port |-> "20000"]]
        BY <3>2 DEF Init, SomeFiles
      <4>2. file.keys = [k \in Key |-> Absent]
        BY <4>1
      <4> QED
        BY <4>2, KeysOfPorts DEF MarkInFile
    <3> QED
      BY <3>1, <3>2
  <2>3. SettingsInv
    BY <2>1, <2>2 DEF SettingsInv, MenuInv, MenuOK, KeysThere, FileFollows, ValuesThere
  <2>4. ListInv /\ SelectionRemembered
    BY <2>1 DEF ListInv, SelectionRemembered, Running
  <2>5. posted \in Seq({}) /\ Len(posted) = 0
    BY <2>1
  <2>6. Counted
    BY <2>1, <2>5, WindowAssumption DEF Counted
  <2>7. Flags
    BY DEF Init, Flags
  <2> QED
    BY <2>3, <2>4, <2>6, <2>7 DEF WindowInv
<1>2. WindowInv /\ [Next]_vars => WindowInv'
  <2>1. WindowInv => Flags
    BY DEF WindowInv
  <2> QED
    BY <2>1, ValuesNext, ListNext, CountedNext, FlagsNext DEF WindowInv
<1> QED
  BY <1>1, <1>2, PTL DEF Spec

(* A process that runs has a value for every key, whatever file it was     *)
(* started on, and the item that is selected is one of the list.           *)
THEOREM TypeCorrect == Spec => []TypeOK
<1>1. WindowInv => TypeOK
  <2> SUFFICES ASSUME WindowInv PROVE TypeOK
    OBVIOUS
  <2>1. phase # "off" => ini # NoFile /\ \A k \in Key : getValue(k) # Absent
    BY ContentIsFile DEF WindowInv, SettingsInv, ValuesThere, getValue
  <2>2. (phase = "off") <=> (ini = NoFile)
    BY <2>1 DEF WindowInv, SettingsInv
  <2> QED
    BY <2>1, <2>2 DEF WindowInv, ListInv, Counted, Flags, TypeOK
<1> QED
  BY <1>1, WindowHolds, PTL

(* The settings name the item that is selected: reading them back gives    *)
(* its key, also for a default device.                                     *)
THEOREM SelectionAlwaysRemembered == Spec => []SelectionRemembered
<1>1. WindowInv => SelectionRemembered
  BY DEF WindowInv
<1> QED
  BY <1>1, WindowHolds, PTL

-----------------------------------------------------------------------------
(* What was wished, over restarts.                                         *)

(* The value that the settings have for a wish.                            *)
Code(wish) == IF wish[1] = "default" THEN defaultId[wish[2]] ELSE wish[2]

Wishes == {<<"default", flow>> : flow \in Flow} \cup {<<"device", id>> : id \in Ids}

(* The file has it while no process runs, the process while one does.      *)
WishKept ==
    wished # None =>
        /\ wished \in Wishes
        /\ phase = "off" => file # NoFile /\ file.keys["capture_device"] = Code(wished)
        /\ phase # "off" => ini.keys["capture_device"] = Code(wished)

LEMMA CodeIsValue == \A wish \in Wishes : Code(wish) # Absent
<1>1. \A flow \in Flow : Code(<<"default", flow>>) = defaultId[flow]
  BY DEF Code
<1>2. \A id \in Ids : Code(<<"device", id>>) = id
  BY DEF Code
<1> QED
  BY <1>1, <1>2, IdsAreValues, WindowAssumption DEF Wishes

(* An item of the list stands for a wish, whose value leads back to it.    *)
LEMMA CodeLeadsBack ==
    ASSUME Listed(items, deviceIds, Ids), NEW i \in 1..Len(items)
    PROVE  /\ StandsFor(items[i]) \in Wishes
           /\ getDeviceKey(Code(StandsFor(items[i]))) = items[i]
           /\ items[i] = defaultRenderDeviceKey => Code(StandsFor(items[i])) = defaultId.render
           /\ items[i] = defaultCaptureDeviceKey => Code(StandsFor(items[i])) = defaultId.capture
           /\ items[i] \notin DefaultKeys =>
                /\ items[i] \in DOMAIN deviceIds
                /\ Code(StandsFor(items[i])) = deviceIds[items[i]]
<1> DEFINE key == items[i]
<1>1. /\ key \in DefaultKeys \cup DOMAIN deviceIds
      /\ DOMAIN deviceIds \subseteq 1..Len(items) - 1 /\ Len(items) \in Nat
      /\ \A j, k \in DOMAIN deviceIds : deviceIds[j] = deviceIds[k] => j = k
      /\ \A k \in DOMAIN deviceIds : deviceIds[k] \in Ids
  BY DEF Listed
<1>2. \A k \in DefaultKeys : k \notin DOMAIN deviceIds
  BY <1>1 DEF DefaultKeys, defaultRenderDeviceKey, defaultCaptureDeviceKey
<1> HIDE DEF key
<1>3. CASE key = defaultRenderDeviceKey
  <2>1. StandsFor(key) = <<"default", "render">>
    BY <1>2, <1>3, DefaultIdsAreValues DEF StandsFor, DefaultKeys
  <2>2. Code(StandsFor(key)) = defaultId.render
    BY <2>1 DEF Code
  <2>3. StandsFor(key) \in Wishes
    BY <2>1 DEF Wishes, Flow
  <2> QED
    BY <1>3, <2>2, <2>3, DefaultIdsAreValues DEF key, getDeviceKey, DefaultKeys
<1>4. CASE key = defaultCaptureDeviceKey
  <2>1. StandsFor(key) = <<"default", "capture">>
    BY <1>2, <1>4 DEF StandsFor, DefaultKeys
  <2>2. Code(StandsFor(key)) = defaultId.capture
    BY <2>1 DEF Code
  <2>3. StandsFor(key) \in Wishes
    BY <2>1 DEF Wishes, Flow
  <2> QED
    BY <1>4, <2>2, <2>3, DefaultIdsAreValues DEF key, getDeviceKey, DefaultKeys
<1>5. CASE key \notin DefaultKeys
  <2>1. key \in DOMAIN deviceIds
    BY <1>1, <1>5 DEF key
  <2> DEFINE id == deviceIds[key]
  <2>2. id \in Ids /\ id \in Range(deviceIds)
    BY <1>1, <2>1 DEF Range
  <2>3. StandsFor(key) = <<"device", id>>
    BY <2>1 DEF StandsFor
  <2>4. Code(StandsFor(key)) = id /\ StandsFor(key) \in Wishes
    BY <2>2, <2>3 DEF Code, Wishes
  <2>5. (CHOOSE k \in DOMAIN deviceIds : deviceIds[k] = id) = key
    BY <1>1, <2>1
  <2>6. id # defaultId.render /\ id # defaultId.capture
    BY <2>2, IdsAreValues
  <2> HIDE DEF id
  <2>7. getDeviceKey(id) = key
    BY <2>2, <2>5, <2>6 DEF getDeviceKey
  <2> QED
    BY <1>5, <2>1, <2>4, <2>7 DEF key, id, DefaultKeys
<1> QED
  BY <1>3, <1>4, <1>5 DEF DefaultKeys

(* A choice is written down as the value of what it stands for.            *)
LEMMA SelectKeepsWish ==
    ASSUME Listed(items, deviceIds, Ids), DOMAIN ini.keys = Key, WishKept, phase # "off",
           phase' # "off", NEW item \in 0..Len(items), onDeviceSelect(item)
    PROVE  WishKept'
<1>1. CASE item = 0
  BY <1>1 DEF onDeviceSelect, settingsVars, WishKept
<1>2. CASE item # 0
  <2> DEFINE key == items[item]
  <2>1. item \in 1..Len(items)
    BY <1>2 DEF Listed
  <2>2. PICK id \in getDeviceId(key) : wished' = StandsFor(key) /\ rememberCaptureDevice(key, id)
    BY <1>2 DEF onDeviceSelect
  <2> DEFINE saved == CASE key = defaultRenderDeviceKey -> defaultId.render
                        [] key = defaultCaptureDeviceKey -> defaultId.capture
                        [] OTHER -> id
  <2>3. ini'.keys["capture_device"] = saved
    BY <2>2, SetChanges, KeysOfPorts DEF rememberCaptureDevice
  <2>4. StandsFor(key) \in Wishes
    BY <2>1, CodeLeadsBack
  <2>5. saved = Code(StandsFor(key))
    <3>1. CASE key = defaultRenderDeviceKey
      BY <2>1, <3>1, CodeLeadsBack, DefaultIdsAreValues
    <3>2. CASE key = defaultCaptureDeviceKey
      BY <2>1, <3>2, CodeLeadsBack, DefaultIdsAreValues
    <3>3. CASE key \notin DefaultKeys
      <4>1. key \in DOMAIN deviceIds /\ Code(StandsFor(key)) = deviceIds[key]
        BY <2>1, <3>3, CodeLeadsBack
      <4>2. id = deviceIds[key]
        BY <2>2, <4>1 DEF getDeviceId
      <4> QED
        BY <3>3, <4>1, <4>2 DEF DefaultKeys
    <3> QED
      BY <3>1, <3>2, <3>3 DEF DefaultKeys
  <2> HIDE DEF saved
  <2> QED
    BY <2>2, <2>3, <2>4, <2>5 DEF WishKept
<1> QED
  BY <1>1, <1>2

LEMMA LoadKeepsWish ==
    ASSUME LoadFile, WishKept, phase = "off", phase' # "off", UNCHANGED wished
    PROVE  WishKept'
<1> SUFFICES ASSUME wished # None PROVE wished \in Wishes /\ ini'.keys["capture_device"] = Code(wished)
  BY DEF WishKept
<1>1. /\ wished \in Wishes /\ file # NoFile
      /\ file.keys["capture_device"] = Code(wished) /\ Code(wished) # Absent
  BY CodeIsValue DEF WishKept
<1>2. ini' = checkMissingSettings(file)
  BY <1>1 DEF LoadFile
<1>3. ini'.keys["capture_device"] = file.keys["capture_device"]
  BY <1>1, <1>2, KeysOfPorts DEF checkMissingSettings
<1> QED
  BY <1>1, <1>3

LEMMA WishNext == WindowInv /\ WishKept /\ [Next]_vars => WishKept'
<1> SUFFICES ASSUME WindowInv, WishKept, [Next]_vars PROVE WishKept'
  OBVIOUS
<1>1. CASE initInstance
  BY <1>1, LoadKeepsWish DEF initInstance, initSettings
<1>2. CASE run \/ SelectItem
  <2>1. /\ phase # "off" /\ phase' = "running" /\ onDeviceSelect(selected')
        /\ UNCHANGED items
    BY <1>2 DEF run, SelectItem
  <2>2. Listed(items, deviceIds, Ids) /\ DOMAIN ini.keys = Key
    BY <2>1 DEF WindowInv, SettingsInv, ListInv, ValuesThere
  <2>3. selected' \in 0..Len(items)
    BY <2>1, ListNext DEF ListInv
  <2> QED
    BY <2>1, <2>2, <2>3, SelectKeepsWish
<1>3. CASE Exit
  <2>1. phase # "off" /\ phase' = "off" /\ file' = file
        /\ wished' = IF saveFailed THEN None ELSE wished
    BY <1>3 DEF Exit, Gone
  <2>2. CASE saveFailed
    BY <2>1, <2>2 DEF WishKept
  <2>3. CASE ~saveFailed
    <3>1. file = ini /\ DOMAIN ini.keys = Key
      BY <2>1, <2>3 DEF WindowInv, SettingsInv, FileFollows, ValuesThere
    <3>2. file # NoFile
      BY <3>1, ContentIsFile
    <3> QED
      BY <2>1, <2>3, <3>1, <3>2 DEF WishKept
  <2> QED
    BY <2>2, <2>3
<1>4. CASE (\E l \in Language : switchLanguage(l)) \/ toggleMenuItem \/ onUpdateCheckFinish
  <2>1. UNCHANGED <<wished, phase>> /\ phase = "running"
    BY <1>4 DEF switchLanguage, toggleMenuItem, onUpdateCheckFinish, listVars
  <2>2. ini'.keys["capture_device"] = ini.keys["capture_device"]
    BY <1>4, <2>1, DeviceKeyKept
  <2> QED
    BY <2>1, <2>2 DEF WishKept
<1>5. CASE \/ CloseOrMinimise \/ ClickTray \/ ShellRestarts \/ changeCaptureDevice
           \/ AudioError \/ Plug \/ UNCHANGED vars
  <2>1. UNCHANGED <<file, ini, wished, phase>>
    BY <1>5 DEF CloseOrMinimise, ClickTray, ShellRestarts, changeCaptureDevice, AudioError, Plug,
                vars, settingsVars, listVars
  <2> QED
    BY <2>1 DEF WishKept
<1> QED
  BY <1>1, <1>2, <1>3, <1>4, <1>5 DEF Next

(* For any devices, whatever is plugged in and written between: what was   *)
(* selected last is selected by the next process if it is in the list, a   *)
(* default device as a default device.                                     *)
THEOREM ChoiceAlwaysSurvives == Spec => ChoiceSurvives
<1> DEFINE There == \E i \in DOMAIN items : StandsFor(items[i]) = wished
           Again == selected' # 0 /\ StandsFor(items[selected']) = wished
           Step == phase = "starting" /\ phase' = "running" /\ wished # None /\ There => Again
<1>1. ASSUME WindowInv, WishKept, Next, phase = "starting", phase' = "running", wished # None, There
      PROVE  Again
  <2>1. run
    BY <1>1 DEF Next, initInstance, Exit, Gone, CloseOrMinimise, ClickTray, ShellRestarts,
                SelectItem, switchLanguage, toggleMenuItem, onUpdateCheckFinish,
                changeCaptureDevice, AudioError, Plug
  <2>2. /\ Listed(items, deviceIds, Ids) /\ DOMAIN items = 1..Len(items) /\ Len(items) \in Nat
        /\ getValue("capture_device") = Code(wished)
    BY <1>1 DEF WindowInv, ListInv, Listed, WishKept, getValue
  <2>3. PICK i \in 1..Len(items) : StandsFor(items[i]) = wished
    BY <1>1, <2>2
  <2>4. getDeviceKey(Code(wished)) = items[i]
    BY <2>2, <2>3, CodeLeadsBack
  <2>5. selected' = CHOOSE j \in DOMAIN items : items[j] = items[i]
    BY <2>1, <2>2, <2>4 DEF run, restoreCaptureDevice, Range
  <2>6. selected' \in 1..Len(items) /\ items[selected'] = items[i]
    BY <2>2, <2>5
  <2> QED
    BY <2>2, <2>3, <2>6
<1>2. WindowInv /\ WishKept /\ [Next]_vars => [Step]_vars
  BY <1>1
<1>3. Init => WishKept
  BY DEF Init, WishKept
<1> QED
  BY <1>2, <1>3, WindowHolds, WishNext, PTL DEF Spec, ChoiceSurvives

-----------------------------------------------------------------------------
(* The ports.                                                              *)

(* A file written by a process that has its ports has them.                *)
LEMMA WrittenPort ==
    ASSUME NEW content, DOMAIN content.keys = Key, NEW p \in Port, content.keys[p] # Absent
    PROVE  EffectivePort(content, p) = content.keys[p]
BY ContentIsFile DEF EffectivePort

LEMMA SetKeepsPorts ==
    ASSUME WindowInv, phase # "off", NEW k \in {"check_updates", "capture_device", "language"},
           NEW v, Set(k, v), ~saveFailed, ~saveFailed', NEW p \in Port
    PROVE  EffectivePort(file', p) = EffectivePort(file, p)
<1>1. CASE getValue(k) = v
  BY <1>1 DEF Set, settingsVars
<1>2. CASE getValue(k) # v
  <2>1. file' = ini' /\ file = ini
    BY <1>2 DEF Set, SaveFile, WindowInv, SettingsInv, FileFollows
  <2>2. k \in Key /\ p \in Key /\ p # k
    BY DEF Key, Port
  <2>3. DOMAIN ini'.keys = Key /\ DOMAIN ini.keys = Key /\ ini'.keys[p] = ini.keys[p]
    BY <2>2, SetChanges DEF WindowInv, SettingsInv, ValuesThere
  <2>4. ini.keys[p] # Absent
    BY <2>2 DEF WindowInv, SettingsInv, ValuesThere
  <2> QED
    BY <2>1, <2>3, <2>4, WrittenPort
<1> QED
  BY <1>1, <1>2

LEMMA SelectKeepsPorts ==
    ASSUME WindowInv, phase # "off", NEW item, onDeviceSelect(item),
           ~saveFailed, ~saveFailed', NEW p \in Port
    PROVE  EffectivePort(file', p) = EffectivePort(file, p)
<1>1. CASE item = 0
  BY <1>1 DEF onDeviceSelect, settingsVars
<1>2. CASE item # 0
  BY <1>2, SetKeepsPorts DEF onDeviceSelect, rememberCaptureDevice
<1> QED
  BY <1>1, <1>2

(* The ports of an installation come through every start, the migration of *)
(* its file, and every change of another setting, as long as writes do not *)
(* fail.                                                                   *)
THEOREM PortsAlwaysSurvive == Spec => PortsSurvive
<1> DEFINE Used(p) == phase = "off" /\ phase' # "off" => ini'.keys[p] = EffectivePort(file, p)
           Kept(p) == ~saveFailed /\ ~saveFailed' => EffectivePort(file', p) = EffectivePort(file, p)
<1>1. ASSUME WindowInv, Next, NEW p \in Port PROVE Used(p) /\ Kept(p)
  <2>1. CASE initInstance
    <3>1. /\ DOMAIN ini'.keys = Key /\ ini'.keys[p] = EffectivePort(file, p)
          /\ \A k \in Key : ini'.keys[k] # Absent
      BY <1>1, <2>1, LoadGivesValues DEF initInstance, initSettings, WindowInv, SettingsInv
    <3>2. EffectivePort(ini', p) = ini'.keys[p]
      BY <3>1, WrittenPort DEF Key
    <3>3. ~saveFailed /\ ~saveFailed' => file' = ini'
      BY <2>1 DEF initInstance, initSettings, LoadFile, SaveFile
    <3> QED
      BY <3>1, <3>2, <3>3
  <2>2. CASE run \/ SelectItem
    BY <1>1, <2>2, SelectKeepsPorts DEF run, SelectItem
  <2>3. CASE (\E l \in Language : switchLanguage(l)) \/ toggleMenuItem
    BY <1>1, <2>3, SetKeepsPorts DEF switchLanguage, toggleMenuItem
  <2>4. CASE onUpdateCheckFinish
    <3>1. phase # "off" /\ SaveFile(ini)
      BY <2>4 DEF onUpdateCheckFinish, setLastUpdateCheck
    <3>2. ~saveFailed /\ ~saveFailed' => file' = file
      BY <1>1, <3>1 DEF SaveFile, WindowInv, SettingsInv, FileFollows
    <3> QED
      BY <3>1, <3>2
  <2>5. CASE Exit
    BY <2>5 DEF Exit, Gone
  <2>6. CASE \/ CloseOrMinimise \/ ClickTray \/ ShellRestarts \/ changeCaptureDevice
             \/ AudioError \/ Plug
    BY <2>6 DEF CloseOrMinimise, ClickTray, ShellRestarts, changeCaptureDevice, AudioError, Plug,
                settingsVars
  <2> QED
    BY <1>1, <2>1, <2>2, <2>3, <2>4, <2>5, <2>6 DEF Next
<1> DEFINE Survive ==
        \A p \in Port :
          /\ phase = "off" /\ phase' # "off" => ini'.keys[p] = EffectivePort(file, p)
          /\ ~saveFailed /\ ~saveFailed' => EffectivePort(file', p) = EffectivePort(file, p)
<1>2. WindowInv /\ [Next]_vars => [Survive]_vars
  <2>1. ASSUME WindowInv, Next PROVE Survive
    BY <1>1, <2>1
  <2> HIDE DEF Survive
  <2> QED
    BY <2>1
<1> QED
  BY <1>2, WindowHolds, PTL DEF Spec, PortsSurvive

=============================================================================
