--------------------------------- MODULE Path ---------------------------------
(***************************************************************************)
(* The way of the audio to one phone, from the device to what the phone    *)
(* hears: the capture and the resampler (AudioSource), the encoders and    *)
(* Server::sendAudio, and the datagrams on which the phone has registered  *)
(* for a compression (Wire).  The io thread does one thing at a time: no   *)
(* datagram is read while a captured packet is processed or a pipe made.   *)
(***************************************************************************)
EXTENDS Wire, AudioSource

CONSTANT
    Others \* what compressions other phones may be registered with

(* In a datagram sizes have 16 bits and numbers of frames 32.              *)
ASSUME PathAssumption ==
    audioDataOffset + FrameSize < 65536 /\ (SeqModulus - 1) \div 16777216 < 256

VARIABLES
    others, \* those that other phones are registered with; they stay
    heard   \* the frame that reaches the phone in this step, as it reads it, or NoData

vars == <<wireVars, audioVars, others, heard>>

Busy == phase \notin {"closed", "idle"}

-----------------------------------------------------------------------------
(* The pipe has an encoder for each compression that is registered.        *)
Encoders == others \cup ({format} \ {NotRegistered})

(* Opus turns a frame into a packet; its content stands for the units.     *)
Encoded(units) == Reverse(units)

categoryOf(compression) ==
    IF compression = 0 THEN Category.AudioDataUncompressed ELSE Category.AudioDataOpus

(* The datagram of the frame at the front of the buffer.                   *)
AudioPacket ==
    LET units == SubSeq(buffer, 1, FrameSize)
    IN  createAudioPacket(categoryOf(format), sequence, IF format = 0 THEN units ELSE Encoded(units))

(* What the phone hears: it tells by the category how to decode.           *)
PhoneReadsAudio(packet) ==
    LET data == SubSeq(packet, audioDataOffset + 1, Len(packet))
    IN  [number |-> readUInt32B(packet, dataOffset),
         size |-> readUInt16B(packet, sizeOffset),
         units |-> IF getPacketCategory(packet) = Category.AudioDataOpus
                   THEN Reverse(data) ELSE data]

SendFrameNumberPerEncoder ==
    /\ phase = "frames" /\ Len(buffer) >= FrameSize
    /\ heard' \in {NoData} \cup
           IF format = NotRegistered THEN {} ELSE {PhoneReadsAudio(AudioPacket)}
    /\ buffer' = SubSeq(buffer, FrameSize + 1, Len(buffer))
    /\ sequence' = (sequence + Cardinality(Encoders)) % SeqModulus
    /\ UNCHANGED <<phase, held, resampling, inside, nextUnit, wireVars, others>>

(* A frame goes to every encoder and what it returns to the phones.  The   *)
(* phone hears it unless it is lost or the encoder has nothing to send     *)
(* (DTX).                                                                  *)
SendFrame ==
    /\ NextFrame
    /\ heard' \in {NoData} \cup
           IF format = NotRegistered THEN {} ELSE {PhoneReadsAudio(AudioPacket)}
    /\ UNCHANGED <<wireVars, others>>

(* An encoder fails, before or after that of the phone: the frame has been *)
(* sent or not, its number is not taken.                                   *)
EncodeFails ==
    /\ phase = "frames" /\ Len(buffer) >= FrameSize
    /\ \E c \in Encoders : c # 0
    /\ heard' \in {NoData} \cup
           IF format = NotRegistered THEN {} ELSE {PhoneReadsAudio(AudioPacket)}
    /\ Fail
    /\ UNCHANGED <<wireVars, others>>

Init == WireInit /\ AudioInit /\ others \in Others /\ heard = NoData

Next ==
    \/ ~Busy /\ WireNext /\ heard' = NoData /\ UNCHANGED <<audioVars, others>>
    \/ AudioNext(Encoders) /\ heard' = NoData /\ UNCHANGED <<wireVars, others>>
    \/ SendFrame
    \/ EncodeFails

Spec == Init /\ [][Next]_vars

-----------------------------------------------------------------------------
(* Properties.                                                             *)

(* The type of the state.                                                  *)
TypeOK ==
    /\ datagram \in [1..InputPacketSize -> Byte]
    /\ format \in Compression \cup {NotRegistered}
    /\ held \subseteq ToSet(OpeningOrder) \cup {"transform", "stream", "packet"}
    /\ phase \in {"closed", "opening", "opened", "idle", "resample", "frames", "release", "closing"}
    /\ resampling \in BOOLEAN
    /\ sequence \in 0..SeqModulus - 1
    /\ nextUnit \in 0..Units - 1
    /\ \A u \in ToSet(inside) \cup ToSet(buffer) : u \in 0..Units - 1

(* Whatever the format of the device, the compression, the losses and the  *)
(* changes of both, and over every new pipe, the number of a frame that is *)
(* heard tells where in the stream its audio belongs, and the datagram is  *)
(* as long as it says.                                                     *)
NumberTellsPlace ==
    heard # NoData =>
        /\ heard.units = [i \in 1..FrameSize |-> (heard.number * FrameSize + i - 1) % Units]
        /\ heard.size = audioDataOffset + FrameSize

=============================================================================
