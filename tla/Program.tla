-------------------------------- MODULE Program --------------------------------
(***************************************************************************)
(* The two threads around the registry (NotifyThreads) with the coroutines *)
(* of the pipe (Coroutines) that the io thread makes, runs and destroys,   *)
(* the device the user selects, and the peak meter that shows what comes   *)
(* from the pipe.                                                          *)
(***************************************************************************)
EXTENDS NotifyThreads, Coroutines

CONSTANT MaxPosted \* bound: changes of device that wait for the io thread

VARIABLES
    posted,     \* changes of device that wait for the io thread
    meterTimer, \* timerIdPeakMeter is set
    peak        \* what the peak meter shows: 0, or 1 for anything above

meterVars == <<meterTimer, peak>>
programVars == <<vars, coVars, posted, meterVars>>

-----------------------------------------------------------------------------
(* The io thread.                                                          *)

(* A handler of the network or of the maintenance timer.                   *)
Network ==
    /\ \/ Idle /\ (Handler \/ Send)
       \/ stack = <<>> /\ SendDone
    /\ UNCHANGED <<coVars, posted, meterVars>>

(* A tick of the timer; it ends when the last activation has returned.     *)
TickBegins ==
    /\ ResumeCapture /\ Send
    /\ UNCHANGED <<posted, meterVars>>

TickGoesOn ==
    /\ CoStep
    /\ UNCHANGED <<vars, posted, meterVars>>

(* An error on the way: the tick is over, or the process.                  *)
TickFails ==
    /\ Throw
    /\ IF crashed' THEN pc' = [t \in Thread |-> Rest(t)] ELSE Goto("io", "idle")
    /\ UNCHANGED <<suspends, mutex, clients, infos, list, todo, view, pipe, greeting,
                   posted, meterVars>>

Timer ==
    /\ Expire \/ (pc["io"] = "idle" /\ ResumeNobody)
    /\ UNCHANGED <<vars, posted, meterVars>>

(* changeCaptureDevice: nothing for the same device; the pipe there is     *)
(* goes first.                                                             *)
ChangeCaptureDevice ==
    /\ Idle
    /\ pc["io"] = "idle"
    /\ posted > 0
    /\ posted' = posted - 1
    /\ StopCaptureDetach \/ ChangeDevice \/ (pipe /\ UNCHANGED vars)
    /\ UNCHANGED <<coVars, meterVars>>

(* asioEventLoop: after an error the pipe is dropped.                      *)
DropPipe ==
    /\ failed /\ ~crashed /\ stack = <<>>
    /\ StopCaptureDetach
    /\ UNCHANGED <<coVars, posted, meterVars>>

(* A pipe that is dropped is not replaced.                                 *)
StopCapture ==
    /\ StopCaptureDestroy
    /\ DestroyPipe
    /\ failed <=> pc'["io"] = "idle"
    /\ UNCHANGED <<posted, meterVars>>

MakePipe ==
    /\ AddListener \/ CreateFails
    /\ UNCHANGED <<coVars, posted, meterVars>>

StartPipe ==
    /\ Greet
    /\ BeginPipe
    /\ UNCHANGED <<posted, meterVars>>

Listeners ==
    /\ ~crashed
    /\ \E t \in Thread : Operation(t)
    /\ UNCHANGED <<coVars, posted, meterVars>>

-----------------------------------------------------------------------------
(* The window's thread.                                                    *)

(* onDeviceSelect posts the change and starts the peak meter.              *)
SelectDevice ==
    /\ ~crashed
    /\ pc["ui"] = "pump"
    /\ posted < MaxPosted
    /\ posted' = posted + 1
    /\ meterTimer' = TRUE
    /\ UNCHANGED <<vars, coVars, peak>>

WindowSuspends ==
    /\ ~crashed
    /\ Suspend
    /\ UNCHANGED <<coVars, posted, meterVars>>

(* WM_TIMER: updatePeakMeter asks a pipe, if there is one, ...             *)
UpdatePeakMeter ==
    /\ ~crashed
    /\ meterTimer
    /\ PeakMeter
    /\ UNCHANGED <<coVars, posted, meterVars>>

(* ... for its peak value: silence and an error, which reads -1, are shown *)
(* as nothing.                                                             *)
ShowPeak ==
    /\ ~crashed
    /\ PeakMeterDone
    /\ peak' \in {0, 1}
    /\ UNCHANGED <<coVars, posted, meterTimer>>

StopPeakMeterKeepsPeak ==
    /\ ~crashed
    /\ meterTimer /\ ~pipe
    /\ pc["ui"] = "pump"
    /\ meterTimer' = FALSE
    /\ UNCHANGED <<vars, coVars, posted, peak>>

(* Without a pipe the meter is set back and its timer ends.                *)
StopPeakMeter ==
    /\ ~crashed
    /\ meterTimer /\ ~pipe
    /\ pc["ui"] = "pump"
    /\ meterTimer' = FALSE
    /\ peak' = 0
    /\ UNCHANGED <<vars, coVars, posted>>

-----------------------------------------------------------------------------
ProgramInit == Init /\ CoInit /\ posted = 0 /\ meterTimer = FALSE /\ peak = 0

ProgramNext ==
    \/ Network \/ TickBegins \/ TickGoesOn \/ TickFails \/ Timer
    \/ ChangeCaptureDevice \/ DropPipe \/ StopCapture \/ MakePipe \/ StartPipe
    \/ Listeners
    \/ SelectDevice \/ WindowSuspends \/ UpdatePeakMeter \/ ShowPeak \/ StopPeakMeter

InOperation(t, A) == A /\ UNCHANGED <<coVars, posted, meterVars>>

(* As in NotifyThreads; and an activation goes on, and the window gets to  *)
(* the messages of its timer.                                              *)
ProgramFairness ==
    /\ \A t \in Thread :
         /\ WF_programVars(~crashed /\ InOperation(t, Lock(t) \/ UpdateInfos(t) \/ Unlock(t)))
         /\ SF_programVars(~crashed /\ InOperation(t, Notify(t)))
    /\ WF_programVars(StopCapture \/ MakePipe \/ StartPipe)
    /\ WF_programVars(stack = <<>> /\ SendDone /\ UNCHANGED <<coVars, posted, meterVars>>)
    /\ WF_programVars(TickGoesOn)
    /\ WF_programVars(ShowPeak)
    /\ WF_programVars(StopPeakMeter)

ProgramSpec == ProgramInit /\ [][ProgramNext]_programVars /\ ProgramFairness

-----------------------------------------------------------------------------
(* Properties.                                                             *)

(* When the capture ends, for an error or with the device, the peak meter  *)
(* falls back to nothing, whatever it last read: without suspend, which    *)
(* may stop the window for good.                                           *)
MeterFalls ==
    ~suspends => []<>(pipe \/ peak = 0 \/ crashed)

=============================================================================
