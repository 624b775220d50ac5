------------------------------ MODULE AudioSource ------------------------------
(***************************************************************************)
(* Where the audio comes from: how AudioCapture and AudioResampler are     *)
(* built on the device's COM objects, one call at a time, each of which    *)
(* may fail; how a captured packet goes through the resampler into the     *)
(* pipe's buffer; and in which order everything is given back.  All of it  *)
(* runs on the io thread.  CapturePipe has the coroutines, timers and      *)
(* silence that are left out here.                                         *)
(*                                                                         *)
(* Audio is a stream of units in the requested format, numbered modulo     *)
(* Units.  A device in another format has half as many.                    *)
(***************************************************************************)
EXTENDS Naturals, Sequences, SequencesExt

CONSTANTS
    FrameSize,   \* opusInputSize_, in units
    PacketSize,  \* the sizes of captured packets, in units of the device
    Latency,     \* the units that the resampler's filter keeps inside
    MaxOutput,   \* the units that one ProcessOutput returns at most
    SeqModulus   \* numbers of frames are counted modulo this, 2^32 in the code

ASSUME AudioSourceAssumption ==
    /\ {FrameSize, MaxOutput, SeqModulus} \subseteq Nat \ {0}
    /\ Latency \in Nat
    /\ PacketSize \subseteq Nat \ {0}

Units == SeqModulus * FrameSize

VARIABLES
    phase,      \* what the io thread is at with the pipe
    held,       \* what has been acquired and not been given back
    resampling, \* resampleRequired_
    inside,     \* the units inside the resampler
    buffer,     \* pcmAudioBuffer_
    nextUnit,   \* the number of the next unit that is captured
    sequence    \* audioSequenceNumber_

audioVars == <<phase, held, resampling, inside, buffer, nextUnit, sequence>>

Stream == UNCHANGED <<inside, buffer, nextUnit, sequence>>

-----------------------------------------------------------------------------
(* The constructor of AudioCapture, then that of AudioResampler, then the  *)
(* start of the coroutine.                                                 *)

OpeningOrder ==
    <<"com", "enumerator", "device", "meterInfo", "audioClient", "endpoint",
      "requestedFormat", "supportedFormat", "captureClient">>

Interface ==
    {"enumerator", "device", "meterInfo", "audioClient", "endpoint", "captureClient", "transform"}

(* Faulty variants, here and below, are named for their slip.              *)
ReleaseComBeforeMembers ==
    <<"packet", "stream", "transform", "endpoint", "device", "enumerator", "com", "meterInfo",
      "captureClient", "audioClient", "supportedFormat", "requestedFormat">>

(* How the destructors run, after a failure in any call as well as at the  *)
(* end: the coroutine's frame first, then the members of CapturePipe, the  *)
(* locals of AudioCapture's constructor, and its members, each in the      *)
(* reverse of the order of declaration.                                    *)
ReleaseOrder ==
    <<"packet", "stream", "transform", "endpoint", "device", "enumerator", "meterInfo",
      "captureClient", "audioClient", "supportedFormat", "requestedFormat", "com">>

(* What a thing acquired leans on until it is given back.                  *)
LeansOn ==
    {<<i, "com">> : i \in Interface}
        \cup {<<"stream", "audioClient">>, <<"stream", "supportedFormat">>,
              <<"packet", "captureClient">>, <<"packet", "stream">>}

Closed == phase = "closed"

(* A new pipe; its stream begins where the numbers of frames go on.        *)
Open ==
    /\ Closed
    /\ phase' = "opening"
    /\ nextUnit' = sequence * FrameSize
    /\ UNCHANGED <<held, resampling, inside, buffer, sequence>>

(* The next call that acquires something succeeds.  Whether the requested  *)
(* format is supported is asked before the format is stored.               *)
Acquire ==
    /\ phase = "opening"
    /\ \E i \in 1..Len(OpeningOrder) :
         /\ held = {OpeningOrder[j] : j \in 1..i - 1}
         /\ held' = held \cup {OpeningOrder[i]}
         /\ resampling' \in IF OpeningOrder[i] = "supportedFormat" THEN BOOLEAN ELSE {resampling}
    /\ UNCHANGED phase /\ Stream

Opened == ToSet(OpeningOrder) \subseteq held

(* The constructor returns: its locals go.                                 *)
ReleaseLocals ==
    /\ phase = "opening" /\ Opened
    /\ held' = held \ {"endpoint", "device", "enumerator"}
    /\ phase' = "opened"
    /\ UNCHANGED resampling /\ Stream

(* The resampler is made where the format of the device is another one.    *)
OpenResampler ==
    /\ phase = "opened" /\ resampling /\ "transform" \notin held
    /\ held' = held \cup {"transform"}
    /\ UNCHANGED <<phase, resampling>> /\ Stream

Start ==
    /\ phase = "opened" /\ (resampling => "transform" \in held)
    /\ held' = held \cup {"stream"}
    /\ phase' = "idle"
    /\ UNCHANGED resampling /\ Stream

-----------------------------------------------------------------------------
(* A captured packet.                                                      *)

Numbered(n) == [i \in 1..n |-> (nextUnit + i - 1) % Units]

(* A packet is taken from the device and, where somebody listens, goes     *)
(* into the resampler or straight into the buffer.                         *)
Capture(encoders) ==
    /\ phase = "idle"
    /\ held' = held \cup {"packet"}
    /\ IF encoders = {} THEN phase' = "release" /\ UNCHANGED <<inside, buffer, nextUnit>>
       ELSE \E n \in PacketSize :
              /\ nextUnit' = (nextUnit + (IF resampling THEN 2 ELSE 1) * n) % Units
              /\ IF resampling
                 THEN /\ inside' = inside \o Numbered(2 * n)
                      /\ phase' = "resample" /\ UNCHANGED buffer
                 ELSE /\ buffer' = buffer \o Numbered(n)
                      /\ phase' = "frames" /\ UNCHANGED inside
    /\ UNCHANGED <<resampling, sequence>>

Min2(a, b) == IF a < b THEN a ELSE b

ProcessOutputOnce ==
    /\ phase = "resample"
    /\ LET n == Min2(MaxOutput, Len(inside) - Min2(Latency, Len(inside)))
       IN  /\ buffer' = buffer \o SubSeq(inside, 1, n)
           /\ inside' = SubSeq(inside, n + 1, Len(inside))
    /\ phase' = "frames"
    /\ UNCHANGED <<held, resampling, nextUnit, sequence>>

(* One round of the loop in AudioResampler::resample, which ends when the  *)
(* transform asks for more input.                                          *)
ProcessOutput ==
    /\ phase = "resample"
    /\ IF Len(inside) <= Latency THEN phase' = "frames" /\ UNCHANGED <<inside, buffer>>
       ELSE LET n == Min2(MaxOutput, Len(inside) - Latency)
            IN  /\ buffer' = buffer \o SubSeq(inside, 1, n)
                /\ inside' = SubSeq(inside, n + 1, Len(inside))
                /\ UNCHANGED phase
    /\ UNCHANGED <<held, resampling, nextUnit, sequence>>

(* The frame at the front has gone to every encoder.                       *)
NextFrame ==
    /\ phase = "frames" /\ Len(buffer) >= FrameSize
    /\ buffer' = SubSeq(buffer, FrameSize + 1, Len(buffer))
    /\ sequence' = (sequence + 1) % SeqModulus
    /\ UNCHANGED <<phase, held, resampling, inside, nextUnit>>

FramesDone ==
    /\ phase = "frames" /\ Len(buffer) < FrameSize
    /\ phase' = "release"
    /\ UNCHANGED <<held, resampling>> /\ Stream

ReleasePacket ==
    /\ phase = "release"
    /\ held' = held \ {"packet"}
    /\ phase' = "idle"
    /\ UNCHANGED resampling /\ Stream

-----------------------------------------------------------------------------
(* Any call fails, or the pipe is stopped between two packets; what the    *)
(* pipe still had of the audio is lost.                                    *)
Fail ==
    /\ phase \notin {"closed", "closing"}
    /\ phase' = "closing"
    /\ resampling' = FALSE
    /\ inside' = <<>>
    /\ buffer' = <<>>
    /\ nextUnit' = 0
    /\ UNCHANGED <<held, sequence>>

(* The next destructor that has something to give back runs.               *)
Release ==
    /\ phase = "closing"
    /\ IF held = {} THEN phase' = "closed" /\ UNCHANGED held
       ELSE \E i \in 1..Len(ReleaseOrder) :
              /\ ReleaseOrder[i] \in held
              /\ \A j \in 1..i - 1 : ReleaseOrder[j] \notin held
              /\ held' = held \ {ReleaseOrder[i]}
              /\ UNCHANGED phase
    /\ UNCHANGED resampling /\ Stream

AudioInit ==
    /\ phase = "closed"
    /\ held = {}
    /\ resampling = FALSE
    /\ inside = <<>>
    /\ buffer = <<>>
    /\ nextUnit = 0
    /\ sequence = 1 % SeqModulus

(* Everything but the sending of frames.                                   *)
AudioNext(encoders) ==
    \/ Open \/ Acquire \/ ReleaseLocals \/ OpenResampler \/ Start
    \/ Capture(encoders) \/ ProcessOutput \/ FramesDone \/ ReleasePacket
    \/ Fail \/ Release

-----------------------------------------------------------------------------
(* Properties.                                                             *)

(* Wherever opening the device fails and whenever the pipe goes, nothing   *)
(* is given back before what leans on it: no COM interface outlives COM on *)
(* the thread, the client is there until its stream has stopped, and a     *)
(* packet goes back before that.                                           *)
HeldInOrder ==
    \A pair \in LeansOn : pair[1] \in held => pair[2] \in held

(* Between two packets no more than the filter's latency is in the         *)
(* resampler and less than a frame in the buffer, so that the audio of a   *)
(* device in another format does not fall behind.                          *)
NothingLeftBehind ==
    phase = "idle" => Len(inside) <= Latency /\ Len(buffer) < FrameSize

=============================================================================
