-------------------------------- MODULE Window --------------------------------
(***************************************************************************)
(* SoundRemoteApp as the user sees it: the window with its tray icon, its  *)
(* menu and languages, the list of devices, and the settings under them,   *)
(* over starts and ends of the process.  The window's thread handles one   *)
(* message at a time; a change of device is posted to the io thread, which *)
(* makes the pipe, while audio errors come at any time.                    *)
(***************************************************************************)
EXTENDS Settings, FiniteSets, Functions

CONSTANTS
    Endpoint,       \* the audio devices, records with an id, a name and a flow
    SystemLanguage, \* what "Auto" stands for
    Language,       \* the languages of the menu that are switched to
    MaxPosted,      \* bound: changes of device that wait for the io thread
    None            \* no device

VARIABLES
    present,  \* the devices that are active
    phase,    \* of the process: off, starting, running
    visible,  \* the window is shown
    icon,     \* the tray icon is there
    trayIconAdded, \* trayIconAdded_
    shellOk,  \* the shell has kept what it was given since the start
    strings,  \* the language of the texts
    menu,     \* the menu bar
    items,    \* the keys of the items of the list of devices
    deviceIds,\* deviceIds_
    selected, \* the item that is selected, 0 for none
    chosen,   \* the device that the last selection meant
    wished,   \* what the item selected last stands for, over restarts (history)
    posted,   \* changes of device that wait for the io thread
    current,  \* currentDeviceId_
    pipe,     \* the device of capturePipe_
    audioFailed \* making or running the pipe has failed since the last change

trayVars == <<visible, icon, trayIconAdded, shellOk>>
textVars == <<strings, menu>>
listVars == <<items, deviceIds, selected, chosen, wished>>
pipeVars == <<current, pipe, audioFailed>>

vars == <<settingsVars, present, phase, trayVars, textVars, listVars, posted, pipeVars>>

-----------------------------------------------------------------------------
(* The list of devices, filled once at the start.                          *)

defaultRenderDeviceKey == 0 - 1
defaultCaptureDeviceKey == 0 - 2
invalidDeviceKey == 0 - 3

Flow == {"render", "capture"}

defaultKey == [render |-> defaultRenderDeviceKey, capture |-> defaultCaptureDeviceKey]
defaultId == [render |-> "default_playback", capture |-> "default_recording"]

(* The system gives every device an id of its own.                         *)
ASSUME WindowAssumption ==
    /\ IsFiniteSet(Endpoint)
    /\ \A e, f \in Endpoint : e.id = f.id => e = f
    /\ \A e \in Endpoint, flow \in Flow : e.id # defaultId[flow]
    /\ \A e \in Endpoint : e.id # Absent
    /\ \A flow \in Flow : defaultId[flow] # Absent
    /\ Absent \notin Language
    /\ MaxPosted \in Nat \ {0}

Active(flow) == {e \in present : e.flow = flow}

(* getEndpointDevices returns a map by name: of devices of the same name   *)
(* the one that is enumerated last is left.                                *)
getEndpointDevices(flow) ==
    LET names == {e.name : e \in Active(flow)}
    IN  {f \in [names -> {e.id : e \in Active(flow)}] :
            \A n \in names : \E e \in Active(flow) : e.name = n /\ e.id = f[n]}

(* addDevices: the default device of the flow if there is any device, then *)
(* the devices, with their place in the list as key.                       *)
addDevices(keys, ids, flow, listed) ==
    IF listed = <<>> THEN [keys |-> keys, ids |-> ids]
    ELSE LET first == Len(keys) + 1 \* the place of the first device, counted from 0
         IN  [keys |-> Append(keys, defaultKey[flow]) \o [i \in 1..Len(listed) |-> first + i - 1],
              ids |-> [k \in DOMAIN ids \cup first..first + Len(listed) - 1 |->
                          IF k \in DOMAIN ids THEN ids[k] ELSE listed[k - first + 1]]]

(* The orders in which the map lists what it holds.                        *)
Listings(flow) == UNION {SetToSeqs(Range(f)) : f \in getEndpointDevices(flow)}

initControls ==
    \E render \in Listings("render"), capture \in Listings("capture") :
        LET one == addDevices(<<>>, <<>>, "render", render)
            two == addDevices(one.keys, one.ids, "capture", capture)
        IN  /\ items' = two.keys
            /\ deviceIds' = two.ids
            /\ selected' = IF two.keys = <<>> THEN 0 ELSE 1

(* The device a key means; none where the default is asked for and there   *)
(* is no device, which ends the process.                                   *)
getDefaultDevice(flow) == {e.id : e \in Active(flow)}

getDeviceId(key) ==
    IF key \in DOMAIN deviceIds THEN {deviceIds[key]}
    ELSE getDefaultDevice(IF key = defaultCaptureDeviceKey THEN "capture" ELSE "render")

getDeviceKey(id) ==
    CASE id = defaultId.capture -> defaultCaptureDeviceKey
      [] id = defaultId.render -> defaultRenderDeviceKey
      [] OTHER -> IF id \in Range(deviceIds)
                  THEN CHOOSE k \in DOMAIN deviceIds : deviceIds[k] = id
                  ELSE invalidDeviceKey

RestoreFirst == IF items = <<>> THEN 0 ELSE 1

(* The item of the saved device, the first one where it is not listed.     *)
restoreCaptureDevice ==
    LET key == getDeviceKey(getValue("capture_device"))
    IN  IF key \in Range(items) THEN CHOOSE i \in DOMAIN items : items[i] = key ELSE selected

RememberId(key, id) == Set("capture_device", id)

rememberCaptureDevice(key, id) ==
    Set("capture_device",
        CASE key = defaultRenderDeviceKey -> defaultId.render
          [] key = defaultCaptureDeviceKey -> defaultId.capture
          [] OTHER -> id)

-----------------------------------------------------------------------------
(* Languages and the menu.                                                 *)

resolveLanguage(raw) == IF raw \in {"Chinese", "English"} THEN raw ELSE SystemLanguage

MenuOfResource == [chinese |-> FALSE, submenus |-> 0, radio |-> Absent, mark |-> FALSE]

InitMenuAlwaysInserts(old, content) ==
    [chinese |-> old.chinese \/ resolveLanguage(content.keys["language"]) = "Chinese",
     submenus |-> old.submenus + 1,
     radio |-> content.keys["language"],
     mark |-> content.keys["check_updates"]]

(* The Language submenu is inserted where it is not there.  The texts are  *)
(* only ever changed to Chinese.                                           *)
initMenu(old, content) ==
    [chinese |-> old.chinese \/ resolveLanguage(content.keys["language"]) = "Chinese",
     submenus |-> IF old.submenus = 0 THEN 1 ELSE old.submenus,
     radio |-> content.keys["language"],
     mark |-> content.keys["check_updates"]]

(* initStrings                                                             *)
initStrings(content) == resolveLanguage(content.keys["language"])

-----------------------------------------------------------------------------
(* The tray icon.                                                          *)

(* The shell may not take the icon; trayIconAdded_ is set all the same.    *)
addTrayIcon ==
    /\ trayIconAdded' = TRUE
    /\ IF trayIconAdded THEN UNCHANGED <<icon, shellOk>>
       ELSE \/ icon' = TRUE /\ UNCHANGED shellOk
            \/ icon' = FALSE /\ shellOk' = FALSE

removeTrayIcon == icon' = FALSE /\ trayIconAdded' = FALSE

HideOnly == removeTrayIcon /\ visible' = FALSE /\ UNCHANGED shellOk

hideToTray == addTrayIcon /\ visible' = FALSE

showFromTray == visible' = TRUE /\ UNCHANGED <<icon, trayIconAdded, shellOk>>

(* The close and the minimise button.                                      *)
CloseOrMinimise ==
    /\ phase = "running" /\ visible
    /\ hideToTray
    /\ UNCHANGED <<settingsVars, present, phase, textVars, listVars, posted, pipeVars>>

(* A click on the icon, or "show" in its menu.                             *)
ClickTray ==
    /\ phase = "running" /\ icon
    /\ showFromTray
    /\ UNCHANGED <<settingsVars, present, phase, textVars, listVars, posted, pipeVars>>

(* The shell starts again and has lost the icon; nobody adds it again.     *)
ShellRestarts ==
    /\ phase = "running" /\ icon
    /\ icon' = FALSE
    /\ shellOk' = FALSE
    /\ UNCHANGED <<visible, trayIconAdded, settingsVars, present, phase, textVars, listVars,
                   posted, pipeVars>>

-----------------------------------------------------------------------------
(* Start and end of the process.                                           *)

(* The settings are those of the file beside the program.                  *)
initSettings == LoadFile

(* initInstance, and run up to the menu: the settings are loaded, the      *)
(* window is made but not shown, its lists are filled.                     *)
initInstance ==
    /\ phase = "off"
    /\ initSettings
    /\ phase' = "starting"
    /\ strings' = initStrings(ini')
    /\ menu' = initMenu(MenuOfResource, ini')
    /\ initControls
    /\ addTrayIcon
    /\ UNCHANGED <<visible, present, chosen, wished, posted, pipeVars>>

(* What the user sees behind a key: one of the devices, or whatever the    *)
(* default of its flow is at the time.                                     *)
StandsFor(key) ==
    IF key \in DOMAIN deviceIds THEN <<"device", deviceIds[key]>>
    ELSE <<"default", IF key = defaultCaptureDeviceKey THEN "capture" ELSE "render">>

(* A device is selected: the change is posted, the choice is remembered.   *)
onDeviceSelect(item) ==
    IF item = 0 THEN UNCHANGED <<chosen, wished, posted, settingsVars>>
    ELSE \E id \in getDeviceId(items[item]) :
           /\ chosen' = id
           /\ wished' = StandsFor(items[item])
           /\ posted' = Append(posted, id)
           /\ rememberCaptureDevice(items[item], id)

(* The rest of run: the saved device is restored and selected.             *)
run ==
    /\ phase = "starting"
    /\ phase' = "running"
    /\ selected' = restoreCaptureDevice
    /\ onDeviceSelect(selected')
    /\ UNCHANGED <<present, trayVars, textVars, items, deviceIds, pipeVars>>

(* Everything of the process is gone.                                      *)
Gone ==
    /\ phase' = "off"
    /\ ini' = NoFile
    /\ removeTrayIcon /\ visible' = FALSE /\ shellOk' = TRUE
    /\ strings' = Absent /\ menu' = MenuOfResource
    /\ items' = <<>> /\ deviceIds' = <<>> /\ selected' = 0 /\ chosen' = None
    /\ posted' = <<>> /\ current' = None /\ pipe' = None
    /\ audioFailed' = FALSE /\ saveFailed' = FALSE

(* "Exit" in the menu or in that of the icon, an error that ends the       *)
(* process (a port that is taken, a default device that is not there), or  *)
(* a crash: after a write that tore, one in the middle of the write.  What *)
(* was wished is forgotten where the last write failed.                    *)
Exit ==
    /\ phase # "off"
    /\ Gone
    /\ wished' = IF saveFailed THEN None ELSE wished
    /\ UNCHANGED <<file, present>>

-----------------------------------------------------------------------------
(* The user.                                                               *)

SelectItem ==
    /\ phase = "running" /\ visible
    /\ Len(posted) < MaxPosted
    /\ selected' \in 1..Len(items)
    /\ onDeviceSelect(selected')
    /\ UNCHANGED <<present, phase, trayVars, textVars, items, deviceIds, pipeVars>>

switchLanguage(language) ==
    /\ phase = "running" /\ visible
    /\ Set("language", language)
    /\ strings' = initStrings(ini')
    /\ menu' = initMenu(menu, ini')
    /\ UNCHANGED <<present, phase, trayVars, listVars, posted, pipeVars>>

(* "Check for updates on start": the mark in the menu is flipped, and the  *)
(* setting follows the mark.                                               *)
toggleMenuItem ==
    /\ phase = "running" /\ visible
    /\ menu' = [menu EXCEPT !.mark = ~@]
    /\ Set("check_updates", menu'.mark)
    /\ UNCHANGED <<strings, present, phase, trayVars, listVars, posted, pipeVars>>

(* onUpdateCheckFinish writes the time of the check.                       *)
onUpdateCheckFinish ==
    /\ phase = "running"
    /\ setLastUpdateCheck
    /\ UNCHANGED <<present, phase, trayVars, textVars, listVars, posted, pipeVars>>

-----------------------------------------------------------------------------
(* The io thread and the devices.                                          *)

ChangeKeepsCurrent ==
    /\ posted # <<>>
    /\ posted' = Tail(posted)
    /\ IF Head(posted) = current THEN UNCHANGED pipeVars
       ELSE \/ /\ \E e \in present : e.id = Head(posted)
               /\ current' = Head(posted) /\ pipe' = Head(posted) /\ audioFailed' = FALSE
            \/ current' \in {current, Head(posted)} /\ pipe' = None /\ audioFailed' = TRUE
    /\ UNCHANGED <<settingsVars, present, phase, trayVars, textVars, listVars>>

(* The pipe is replaced where the device is another one.  Its constructor  *)
(* may fail, for one because the device is gone, before currentDeviceId_   *)
(* is set, or its start afterwards.                                        *)
changeCaptureDevice ==
    /\ posted # <<>>
    /\ posted' = Tail(posted)
    /\ IF Head(posted) = current THEN UNCHANGED pipeVars
       ELSE \/ /\ \E e \in present : e.id = Head(posted)
               /\ current' = Head(posted) /\ pipe' = Head(posted) /\ audioFailed' = FALSE
            \/ current' \in {None, Head(posted)} /\ pipe' = None /\ audioFailed' = TRUE
    /\ UNCHANGED <<settingsVars, present, phase, trayVars, textVars, listVars>>

(* An error in a tick of the pipe: asioEventLoop drops it.                 *)
AudioError ==
    /\ pipe # None
    /\ pipe' = None
    /\ audioFailed' = TRUE
    /\ UNCHANGED <<current, settingsVars, present, phase, trayVars, textVars, listVars, posted>>

(* A device comes or goes.                                                 *)
Plug ==
    /\ \E e \in Endpoint : present' = (present \ {e}) \cup ({e} \ present)
    /\ UNCHANGED <<settingsVars, phase, trayVars, textVars, listVars, posted, pipeVars>>

-----------------------------------------------------------------------------
(* The files of a new installation and of version 0.5.2.                   *)
SomeFiles ==
    {NoFile,
     [keys |-> [k \in Key |-> Absent],
      legacy |-> [server_port |-> "15711", client_port |-> "20000"]]}

Init ==
    /\ file \in SomeFiles
    /\ present \in SUBSET Endpoint
    /\ phase = "off"
    /\ ini = NoFile
    /\ visible = FALSE /\ icon = FALSE /\ trayIconAdded = FALSE /\ shellOk = TRUE
    /\ strings = Absent /\ menu = MenuOfResource
    /\ items = <<>> /\ deviceIds = <<>> /\ selected = 0 /\ chosen = None
    /\ wished = None
    /\ posted = <<>> /\ current = None /\ pipe = None
    /\ audioFailed = FALSE /\ saveFailed = FALSE

Next ==
    \/ initInstance \/ run \/ Exit
    \/ CloseOrMinimise \/ ClickTray \/ ShellRestarts
    \/ SelectItem \/ (\E l \in Language : switchLanguage(l)) \/ toggleMenuItem
    \/ onUpdateCheckFinish
    \/ changeCaptureDevice \/ AudioError \/ Plug

Spec == Init /\ [][Next]_vars

-----------------------------------------------------------------------------
(* Properties.                                                             *)

Running == phase = "running"

(* The type of the state; a process that runs has a value for every key,   *)
(* whatever it found in the file: the getters of some have no default.     *)
TypeOK ==
    /\ present \subseteq Endpoint
    /\ phase \in {"off", "starting", "running"}
    /\ (phase = "off") <=> (ini = NoFile)
    /\ phase # "off" => \A k \in Key : getValue(k) # Absent
    /\ Len(posted) <= MaxPosted
    /\ selected \in 0..Len(items)
    /\ {visible, icon, trayIconAdded, shellOk, audioFailed, saveFailed} \subseteq BOOLEAN

(* The process can be reached: its window is shown or has an icon, as long *)
(* as the shell has kept the icon that it was given.                       *)
Reachable == Running /\ shellOk => visible \/ icon

(* The file has what the process holds, unless its last write failed; a    *)
(* failed write is made up for by the next one.                            *)
FileFollows == phase # "off" /\ file # ini => saveFailed

(* The marks in the menu and the texts of the window show the settings the *)
(* process holds, after any switches, with one Language submenu; Chinese   *)
(* texts come with a Chinese menu.  Not the other way round: initMenu does *)
(* not take the Chinese texts back, so that nothing is said of the menu    *)
(* under English texts.                                                    *)
MarksShowSettings ==
    Running =>
        /\ menu.radio = getValue("language")
        /\ menu.mark = getValue("check_updates")
        /\ menu.submenus = 1
        /\ strings = resolveLanguage(getValue("language"))
        /\ strings = "Chinese" => menu.chinese

(* When no change is waiting, the pipe captures the device that was chosen *)
(* last, or it has failed and every other device can still be changed to.  *)
PipeFollowsSelection ==
    Running /\ posted = <<>> /\ chosen # None =>
        \/ pipe = chosen /\ current = chosen
        \/ pipe = None /\ audioFailed /\ current \in {None, chosen}

(* The settings name the selected item, the default devices by a name of   *)
(* their own and not by the device they stood for.                         *)
SelectionRemembered ==
    Running /\ selected # 0 => getDeviceKey(getValue("capture_device")) = items[selected]

(* What was selected last is selected again by the next process, wherever  *)
(* its list has it and whatever was plugged in, changed or written since:  *)
(* a device by its id, a default as a default though it is another device  *)
(* now.  Nothing is promised where the process ended on a failed write.    *)
ChoiceSurvives ==
    [][phase = "starting" /\ phase' = "running" /\ wished # None
         /\ (\E i \in DOMAIN items : StandsFor(items[i]) = wished)
       => selected' # 0 /\ StandsFor(items[selected']) = wished]_vars

(* A process uses the ports of the file it was started on, which survive   *)
(* the migration from version 0.5.2 and every change, unless a write       *)
(* failed.                                                                 *)
PortsSurvive ==
    [][\A p \in Port :
          /\ phase = "off" /\ phase' # "off" => ini'.keys[p] = EffectivePort(file, p)
          /\ ~saveFailed /\ ~saveFailed' => EffectivePort(file', p) = EffectivePort(file, p)]_vars

=============================================================================
