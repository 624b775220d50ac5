------------------------------ MODULE CapturePipe ------------------------------
(***************************************************************************)
(* The capture of audio: CapturePipe, the coroutine of AudioCapture it     *)
(* awaits, and the part of the application that makes, replaces and drops  *)
(* the pipe.                                                               *)
(*                                                                         *)
(* The pipe's coroutine waits for the capture's, which waits for a timer.  *)
(* A tick resumes the capture; every packet it yields resumes the pipe,    *)
(* which cuts the audio into frames, sends them and resumes the capture    *)
(* from within: with more than one packet in a tick the pipe is entered    *)
(* again while it is still running.  All of this is on the io thread, as   *)
(* are the changes of device, which the window's thread posts; only the    *)
(* mute button acts from the window's thread at once.  Audio is counted in *)
(* units; what it sounds like is left out.                                 *)
(***************************************************************************)
EXTENDS Naturals, Sequences, FiniteSets

CONSTANTS
    Device, NoDevice,  \* what may be selected; currentDeviceId_ is empty
    Opus,              \* the compressions that encode
    Uncompressed,      \* Audio::Compression::none
    FrameSize,         \* opusInputSize_
    PacketSize,        \* the sizes of the packets of the devices
    SilenceSize,       \* silenceBufferSize
    BufferDuration,    \* bufferDuration_
    SeqModulus,        \* 2^32, the numbers audioSequenceNumber_ can hold
    MaxBurst,          \* bound: packets waiting at a tick
    MaxQueue           \* bound: handlers waiting when a device is selected

ASSUME CaptureAssumption ==
    /\ NoDevice \notin Device
    /\ Uncompressed \notin Opus
    /\ IsFiniteSet(Opus)
    /\ FrameSize \in Nat \ {0}
    /\ PacketSize \subseteq Nat \ {0}
    /\ SilenceSize \in Nat \ {0}
    /\ BufferDuration \in Nat \ {0, 1}
    /\ SeqModulus \in Nat \ {0, 1}
    /\ MaxBurst \in Nat
    /\ MaxQueue \in Nat

(* No packet has more frames than there are numbers: its bytes are counted *)
(* in 32 bits, too.                                                        *)
ASSUME PacketAssumption ==
    \A size \in PacketSize \cup {SilenceSize} : size <= SeqModulus * FrameSize

VARIABLES
    up,        \* the process is running
    queue,     \* handlers the io thread has yet to run, the next one first
    deviceId,  \* currentDeviceId_
    pipe,      \* capturePipe_ exists
    timer,     \* the timer the capture waits for is running
    burst,     \* packets yielded in the tick under way, or NoTick
    frame,     \* how often the frame of the capture's coroutine was destroyed
    wanted,    \* the compressions of the connected phones
    encoders,  \* the keys of encoders_
    muted,     \* muted_
    button,    \* the mute button is pressed
    buffered,  \* what pcmAudioBuffer_ holds
    backlog,   \* uncompensatedSilenceDuration
    seq,       \* audioSequenceNumber_
    sent       \* frames given to Server::sendAudio in the last step

vars == <<up, queue, deviceId, pipe, timer, burst, frame, wanted, encoders,
          muted, button, buffered, backlog, seq, sent>>
pipeVars == <<pipe, timer, encoders, muted, buffered, backlog>>

Format == Opus \cup {Uncompressed}

(* No tick is under way: the io thread is between handlers.                *)
NoTick == MaxBurst + 1

TimerPeriod == BufferDuration \div 2

Tick == [kind : {"tick"}, destroyed : BOOLEAN]
Change == [kind : {"change"}, device : Device]

LiveTick == [kind |-> "tick", destroyed |-> FALSE]
StaleTick == [kind |-> "tick", destroyed |-> TRUE]

-----------------------------------------------------------------------------
(* From audio to frames.                                                   *)

(* Faulty variants, here and below, are named for their slip: each one    *)
(* stands for a bug that a property must tell from the code.               *)
FramesInOne(units) == IF units < FrameSize THEN 0 ELSE 1

(* The loop of process(pcmAudio) takes whole frames off the buffer.        *)
FramesIn(units) == units \div FrameSize

(* n frames, numbered from seq on, each in the compressions cs.            *)
Numbered(n, cs) ==
    [seq : {(seq + k) % SeqModulus : k \in 0 .. n - 1}, compression : cs]

ProcessPacketUnwrapped(size) ==
    IF muted \/ encoders = {}
    THEN sent' = {} /\ UNCHANGED <<buffered, seq>>
    ELSE LET n == FramesIn(buffered + size) IN
         /\ buffered' = buffered + size - n * FrameSize
         /\ seq' = seq + n
         /\ sent' = Numbered(n, encoders)

(* A packet of the given size arrives in the pipe.  All encoders get the   *)
(* frame under the same number; an encoder may find that a frame need not  *)
(* be sent (DTX).                                                          *)
ProcessPacket(size) ==
    IF muted \/ encoders = {}
    THEN sent' = {} /\ UNCHANGED <<buffered, seq>>
    ELSE LET n == FramesIn(buffered + size) IN
         /\ buffered' = buffered + size - n * FrameSize
         /\ seq' = (seq + n) % SeqModulus
         /\ \E skipped \in SUBSET Numbered(n, encoders \cap Opus) :
              sent' = Numbered(n, encoders) \ skipped

-----------------------------------------------------------------------------
(* The pipe comes and goes.                                                *)

OpenPipeRenumbers ==
    /\ pipe' = TRUE
    /\ timer' = TRUE
    /\ encoders' = wanted
    /\ muted' = FALSE
    /\ buffered' = 0
    /\ backlog' = 0
    /\ seq' = 1

(* A new pipe is not muted, is told of the connected phones, and its       *)
(* coroutines run up to the first wait for the timer.  The numbers of the  *)
(* frames go on.                                                           *)
OpenPipe ==
    /\ pipe' = TRUE
    /\ timer' = TRUE
    /\ encoders' = wanted
    /\ muted' = FALSE
    /\ buffered' = 0
    /\ backlog' = 0
    /\ UNCHANGED seq

ClosePipe ==
    /\ pipe' = FALSE
    /\ timer' = FALSE
    /\ encoders' = {}
    /\ muted' = FALSE
    /\ buffered' = 0
    /\ backlog' = 0

OrphanedNot(q) == q

(* A timer that was still running is cancelled with its pipe; one that has *)
(* expired has left its handler in the queue, which will know that the     *)
(* coroutine is gone by the flag destroyed_.                               *)
Orphaned(q) == [i \in DOMAIN q |-> IF q[i] = LiveTick THEN StaleTick ELSE q[i]]

(* One of the calls that set the device up fails; the pipe before is gone. *)
OpenFails ==
    /\ ClosePipe
    /\ frame' = IF pipe THEN 1 ELSE frame
    /\ UNCHANGED seq

(* changeCaptureDevice.  Where the new pipe fails with an Audio::Error,    *)
(* the event loop drops what there is of it; if that was in start, the     *)
(* device is already noted.                                                *)
ChangeDevice(d) ==
    /\ up
    /\ burst = NoTick
    /\ queue # <<>>
    /\ Head(queue) = [kind |-> "change", device |-> d]
    /\ IF d = deviceId
       THEN /\ queue' = Tail(queue)
            /\ UNCHANGED <<deviceId, frame, seq, pipeVars>>
       ELSE /\ queue' = Orphaned(Tail(queue))
            /\ \/ OpenPipe /\ deviceId' = d /\ frame' = 0
               \/ OpenFails /\ deviceId' \in {NoDevice, d}
    /\ sent' = {}
    /\ UNCHANGED <<up, burst, wanted, button>>

(* An Audio::Error during a tick unwinds every activation of the pipe on   *)
(* the stack, each of which destroys the capture's frame; with none on the *)
(* stack, stop destroys it.  The event loop drops the pipe and runs on,    *)
(* unless freeing the frame twice ends the process.                        *)
Unwind(activations) ==
    /\ frame' = IF activations = 0 THEN 1 ELSE activations
    /\ up' \in IF activations > 1 THEN BOOLEAN ELSE {TRUE}
    /\ burst' = NoTick
    /\ ClosePipe
    /\ queue' = Orphaned(queue)
    /\ UNCHANGED <<deviceId, wanted, button>>

-----------------------------------------------------------------------------
(* A tick of the capture.                                                  *)

TimerExpires ==
    /\ up
    /\ timer
    /\ timer' = FALSE
    /\ queue' = Append(queue, LiveTick)
    /\ sent' = {}
    /\ UNCHANGED <<up, deviceId, pipe, burst, frame, wanted, encoders,
                   muted, button, buffered, backlog, seq>>

(* The handler of the timer resumes the capture, if it is still there.     *)
RunTick ==
    /\ up
    /\ burst = NoTick
    /\ queue # <<>>
    /\ Head(queue) \in Tick
    /\ queue' = Tail(queue)
    /\ burst' = IF Head(queue).destroyed THEN NoTick ELSE 0
    /\ sent' = {}
    /\ UNCHANGED <<up, deviceId, frame, wanted, button, seq, pipeVars>>

(* A packet is waiting, and goes to the pipe; the pipe resumes the capture *)
(* from where it is, so that the next packet finds it running.             *)
CapturePacket(size) ==
    /\ up
    /\ burst < MaxBurst
    /\ burst' = burst + 1
    /\ backlog' = 0
    /\ ProcessPacket(size)
    /\ UNCHANGED <<up, queue, deviceId, pipe, timer, frame, wanted, encoders, muted, button>>

CaptureNothingUncompensated ==
    /\ up
    /\ burst = 0
    /\ backlog' = 0
    /\ sent' = {}
    /\ burst' = NoTick
    /\ timer' = TRUE
    /\ UNCHANGED <<up, queue, deviceId, pipe, frame, wanted, encoders, muted, button,
                   buffered, seq>>

(* No packet is waiting: once that has gone on for a whole buffer, every   *)
(* such tick yields a period of silence.                                   *)
CaptureNothing ==
    /\ up
    /\ burst = 0
    /\ IF backlog + TimerPeriod >= BufferDuration
       THEN ProcessPacket(SilenceSize) /\ UNCHANGED backlog
       ELSE backlog' = backlog + TimerPeriod /\ sent' = {} /\ UNCHANGED <<buffered, seq>>
    /\ burst' = NoTick
    /\ timer' = TRUE
    /\ UNCHANGED <<up, queue, deviceId, pipe, frame, wanted, encoders, muted, button>>

(* No further packet is waiting: the capture waits for the timer again.    *)
BurstEnds ==
    /\ up
    /\ burst \in 1 .. MaxBurst
    /\ burst' = NoTick
    /\ timer' = TRUE
    /\ sent' = {}
    /\ UNCHANGED <<up, queue, deviceId, pipe, frame, wanted, encoders, muted, button,
                   buffered, backlog, seq>>

(* A call to the device fails, for instance because it was unplugged.      *)
CaptureFails ==
    /\ up
    /\ burst <= MaxBurst
    /\ Unwind(burst)
    /\ sent' = {}
    /\ UNCHANGED seq

(* An encoder fails on the last frame of `units': those before are out,    *)
(* and of this one, whose number is not used up, what other encoders made. *)
EncodeFails(size) ==
    /\ up
    /\ burst < MaxBurst
    /\ size \in PacketSize \/ (burst = 0 /\ backlog + TimerPeriod >= BufferDuration)
    /\ ~muted
    /\ encoders \cap Opus # {}
    /\ \E n \in 0 .. FramesIn(buffered + size) - 1 :
         /\ seq' = (seq + n) % SeqModulus
         /\ \E failed \in encoders \cap Opus :
              sent' \in {Numbered(n, encoders) \cup
                         [seq : {seq'}, compression : cs] : cs \in SUBSET (encoders \ {failed})}
    /\ Unwind(burst + 1)

-----------------------------------------------------------------------------
(* The phones and the window.                                              *)

UpdatedOnlyGrowing(cs) ==
    IF cs \subseteq encoders THEN encoders ELSE cs

(* Encoders no one needs go and missing ones are made; those in use stay.  *)
Updated(cs) ==
    LET existing == encoders \cap cs
        missing == cs \ encoders
    IN IF missing = {} /\ Cardinality(existing) = Cardinality(encoders)
       THEN encoders
       ELSE existing \cup missing

(* The registry calls back with the compressions cs, between handlers, or, *)
(* with none, from the window's thread when the system suspends.  Should   *)
(* an encoder not come to be, the handler of the datagram ends the         *)
(* process.                                                                *)
OnClientsUpdate(cs) ==
    /\ up
    /\ burst = NoTick \/ cs = {}
    /\ wanted' = cs
    /\ \/ encoders' = (IF pipe THEN Updated(cs) ELSE {}) /\ up' = TRUE
       \/ pipe /\ ~(cs \cap Opus \subseteq encoders) /\ up' = FALSE /\ UNCHANGED encoders
    /\ sent' = {}
    /\ UNCHANGED <<queue, deviceId, pipe, timer, burst, frame, muted, button,
                   buffered, backlog, seq>>

SelectDevice(d) ==
    /\ up
    /\ Len(queue) < MaxQueue
    /\ queue' = Append(queue, [kind |-> "change", device |-> d])
    /\ sent' = {}
    /\ UNCHANGED <<up, deviceId, burst, frame, wanted, button, seq, pipeVars>>

(* The button's callback uses capturePipe_ whether or not there is a pipe. *)
ClickMute ==
    /\ up
    /\ button' = ~button
    /\ IF pipe THEN muted' = button' /\ up' = TRUE ELSE up' = FALSE /\ UNCHANGED muted
    /\ sent' = {}
    /\ UNCHANGED <<queue, deviceId, pipe, timer, burst, frame, wanted, encoders,
                   buffered, backlog, seq>>

-----------------------------------------------------------------------------
Init ==
    /\ up = TRUE
    /\ queue = <<>>
    /\ deviceId = NoDevice
    /\ pipe = FALSE
    /\ timer = FALSE
    /\ burst = NoTick
    /\ frame = 0
    /\ wanted = {}
    /\ encoders = {}
    /\ muted = FALSE
    /\ button = FALSE
    /\ buffered = 0
    /\ backlog = 0
    /\ seq = 1
    /\ sent = {}

CaptureStep ==
    \/ \E size \in PacketSize : CapturePacket(size)
    \/ CaptureNothing
    \/ BurstEnds

RunHandler == RunTick \/ \E d \in Device : ChangeDevice(d)

Next ==
    \/ TimerExpires
    \/ RunHandler
    \/ CaptureStep
    \/ CaptureFails
    \/ \E size \in PacketSize \cup {SilenceSize} : EncodeFails(size)
    \/ \E cs \in SUBSET Format : OnClientsUpdate(cs)
    \/ \E d \in Device : SelectDevice(d)
    \/ ClickMute

(* The timer runs, and the io thread goes on with what it has to do.       *)
Fairness == WF_vars(TimerExpires) /\ WF_vars(RunHandler) /\ WF_vars(CaptureStep)

Spec == Init /\ [][Next]_vars

FairSpec == Spec /\ Fairness

-----------------------------------------------------------------------------
(* Properties.                                                             *)

(* The type of the state.                                                  *)
TypeOK ==
    /\ up \in BOOLEAN
    /\ queue \in Seq(Tick \cup Change)
    /\ deviceId \in Device \cup {NoDevice}
    /\ pipe \in BOOLEAN /\ timer \in BOOLEAN
    /\ burst \in 0 .. NoTick
    /\ frame \in 0 .. MaxBurst + 1
    /\ wanted \subseteq Format /\ encoders \subseteq Format
    /\ muted \in BOOLEAN /\ button \in BOOLEAN
    /\ buffered \in Nat /\ backlog \in Nat
    /\ seq \in 0 .. SeqModulus - 1
    /\ sent \subseteq [seq : 0 .. SeqModulus - 1, compression : Format]

LiveTicks == {i \in DOMAIN queue : queue[i] = LiveTick}

(* A pipe is driven by exactly one tick, running down, expired or under    *)
(* way, through every change of device and every error; and no tick        *)
(* outlives its pipe.                                                      *)
OneTickPerPipe ==
    up => Cardinality(LiveTicks)
            + (IF timer THEN 1 ELSE 0)
            + (IF burst = NoTick THEN 0 ELSE 1) = (IF pipe THEN 1 ELSE 0)

(* The incremental update of the encoders leaves one for each compression  *)
(* in use, for a pipe that was there and for one that is new.              *)
EncodersFollow ==
    up => encoders = IF pipe THEN wanted ELSE {}

(* Less than a frame of audio and less than a buffer of silence is held    *)
(* back, whatever the sizes of the packets.                                *)
DelayBounded == buffered < FrameSize /\ backlog < BufferDuration

(* A phone that is sent every frame sees the numbers go on one by one,     *)
(* also when the device is changed.  (An encoder that fails may leave a    *)
(* number to be used again by the next pipe.)                              *)
NumbersConsecutive ==
    [][\/ Uncompressed \notin encoders
       \/ pipe /\ ~pipe'
       \/ seq' = (seq + Cardinality({f \in sent' : f.compression = Uncompressed})) % SeqModulus]_vars

(* As long as the pipe stays, is not muted and is needed, frames go out,   *)
(* whether the device delivers or falls silent.                            *)
StreamFlows ==
    []<>(\/ sent # {}
         \/ ~up \/ ~pipe \/ muted
         \/ Uncompressed \notin encoders
         \/ \E i \in DOMAIN queue : queue[i] \in Change)

(* The mute button shows whether the pipe is muted.                        *)
MuteButtonHolds == up /\ pipe => muted = button

(* The frame of the capture's coroutine is destroyed once, with its pipe.  *)
FrameDestroyedOnce == frame <= 1

=============================================================================
