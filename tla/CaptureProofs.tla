----------------------------- MODULE CaptureProofs -----------------------------
(***************************************************************************)
(* Proofs about module CapturePipe, for all devices, compressions, sizes   *)
(* of frames and packets, lengths of the buffer, and bounds.               *)
(***************************************************************************)
EXTENDS CapturePipe, SequenceTheorems, FunctionTheorems, FiniteSetTheorems, TLAPS

USE CaptureAssumption

-----------------------------------------------------------------------------
(* Arithmetic.                                                             *)

LEMMA RestOfFrames ==
    ASSUME NEW units \in Nat
    PROVE  /\ FramesIn(units) \in Nat
           /\ units - FramesIn(units) * FrameSize \in 0 .. FrameSize - 1
BY DEF FramesIn

LEMMA SeqWraps ==
    ASSUME NEW n \in Nat
    PROVE  n % SeqModulus \in 0 .. SeqModulus - 1
OBVIOUS

LEMMA HalfBuffer == TimerPeriod \in Nat
BY DEF TimerPeriod

LEMMA OrphanedType ==
    ASSUME NEW q \in Seq(Tick \cup Change)
    PROVE  /\ Orphaned(q) \in Seq(Tick \cup Change)
           /\ DOMAIN Orphaned(q) = DOMAIN q
           /\ \A i \in DOMAIN q : Orphaned(q)[i] # LiveTick
<1>1. StaleTick \in Tick /\ StaleTick # LiveTick
  BY DEF StaleTick, Tick, LiveTick
<1>2. \A i \in 1 .. Len(q) : q[i] \in Tick \cup Change
  OBVIOUS
<1>3. Orphaned(q) = [i \in 1 .. Len(q) |-> IF q[i] = LiveTick THEN StaleTick ELSE q[i]]
  BY DEF Orphaned
<1> QED
  BY <1>1, <1>2, <1>3

-----------------------------------------------------------------------------
(* The type of the state.                                                  *)

LEMMA NumberedType ==
    ASSUME NEW m \in Nat, NEW n \in Nat, NEW cs \in SUBSET Format
    PROVE  [seq : {(m + k) % SeqModulus : k \in 0 .. n - 1}, compression : cs]
             \subseteq [seq : 0 .. SeqModulus - 1, compression : Format]
<1>1. \A k \in 0 .. n - 1 : (m + k) % SeqModulus \in 0 .. SeqModulus - 1
  BY SeqWraps
<1> QED
  BY <1>1

(* What a packet leaves in the buffer is less than a frame if there was    *)
(* less before.                                                            *)
LEMMA PacketStep ==
    ASSUME TypeOK, NEW size \in Nat, ProcessPacket(size)
    PROVE  /\ buffered' \in Nat
           /\ buffered < FrameSize => buffered' < FrameSize
           /\ seq' \in 0 .. SeqModulus - 1
           /\ sent' \subseteq [seq : 0 .. SeqModulus - 1, compression : Format]
<1>1. CASE muted \/ encoders = {}
  BY <1>1 DEF ProcessPacket, TypeOK
<1>2. CASE ~(muted \/ encoders = {})
  <2> DEFINE units == buffered + size
             n == FramesIn(units)
  <2>1. units \in Nat /\ seq \in Nat
    BY DEF TypeOK
  <2>2. n \in Nat /\ units - n * FrameSize \in 0 .. FrameSize - 1
    <3> HIDE DEF units
    <3> QED
      BY <2>1, RestOfFrames
  <2>3. buffered' = units - n * FrameSize
    BY <1>2, <2>1, <2>2 DEF ProcessPacket, TypeOK
  <2>8. seq' = (seq + n) % SeqModulus
    BY <1>2 DEF ProcessPacket
  <2>6. sent' \subseteq Numbered(n, encoders)
    BY <1>2 DEF ProcessPacket
  <2> HIDE DEF n, units
  <2>4. Numbered(n, encoders) \subseteq [seq : 0 .. SeqModulus - 1, compression : Format]
    BY <2>1, <2>2, NumberedType DEF Numbered, TypeOK
  <2>5. seq' \in 0 .. SeqModulus - 1
    BY <2>1, <2>2, <2>8, SeqWraps
  <2>7. buffered' \in Nat /\ buffered' < FrameSize
    BY <2>2, <2>3
  <2> QED
    BY <2>4, <2>5, <2>6, <2>7
<1> QED
  BY <1>1, <1>2

LEMMA PipeType ==
    ASSUME TypeOK, OpenPipe \/ ClosePipe
    PROVE  /\ pipe' \in BOOLEAN /\ timer' \in BOOLEAN
           /\ encoders' \subseteq Format
           /\ muted' \in BOOLEAN
           /\ buffered' = 0 /\ backlog' = 0
BY DEF TypeOK, OpenPipe, ClosePipe

LEMMA UnwindType ==
    ASSUME TypeOK, NEW activations \in 0 .. MaxBurst, Unwind(activations),
           seq' \in 0 .. SeqModulus - 1,
           sent' \subseteq [seq : 0 .. SeqModulus - 1, compression : Format]
    PROVE  TypeOK'
<1>1. queue' \in Seq(Tick \cup Change)
  BY OrphanedType DEF Unwind, TypeOK
<1>2. frame' \in 0 .. MaxBurst + 1 /\ burst' \in 0 .. NoTick /\ up' \in BOOLEAN
  <2>1. frame' = IF activations = 0 THEN 1 ELSE activations
    BY DEF Unwind
  <2>2. up' \in BOOLEAN
    BY DEF Unwind
  <2> QED
    BY <2>1, <2>2 DEF Unwind, NoTick
<1> QED
  BY <1>1, <1>2, PipeType DEF Unwind, TypeOK

LEMMA ChangeType ==
    ASSUME TypeOK, NEW d \in Device, ChangeDevice(d)
    PROVE  TypeOK'
<1>1. queue \in Seq(Tick \cup Change) /\ queue # <<>>
  BY DEF TypeOK, ChangeDevice
<1>2. Tail(queue) \in Seq(Tick \cup Change)
  BY <1>1, HeadTailProperties
<1>3. queue' \in Seq(Tick \cup Change)
  BY <1>2, OrphanedType DEF ChangeDevice
<1>4. CASE d = deviceId
  BY <1>3, <1>4 DEF ChangeDevice, TypeOK, pipeVars
<1>5. CASE d # deviceId
  <2>1. /\ OpenPipe \/ ClosePipe
        /\ deviceId' \in Device \cup {NoDevice}
        /\ frame' \in {0, 1, frame}
        /\ seq' = seq
        /\ sent' = {}
        /\ UNCHANGED <<up, burst, wanted, button>>
    BY <1>5 DEF ChangeDevice, OpenPipe, OpenFails
  <2> QED
    BY <1>3, <2>1, PipeType DEF TypeOK
<1> QED
  BY <1>4, <1>5

LEMMA FailedEncodeType ==
    ASSUME TypeOK, NEW size \in PacketSize \cup {SilenceSize}, EncodeFails(size)
    PROVE  TypeOK'
<1>1. PICK n \in 0 .. FramesIn(buffered + size) - 1, cs \in SUBSET encoders :
        /\ seq' = (seq + n) % SeqModulus
        /\ sent' = Numbered(n, encoders) \cup [seq : {seq'}, compression : cs]
  BY DEF EncodeFails
<1>2. n \in Nat /\ seq \in Nat /\ encoders \subseteq Format
  <2>1. buffered + size \in Nat
    BY DEF TypeOK
  <2> QED
    BY <2>1, RestOfFrames DEF TypeOK
<1>3. seq' \in 0 .. SeqModulus - 1
  BY <1>1, <1>2, SeqWraps
<1>4. Numbered(n, encoders) \subseteq [seq : 0 .. SeqModulus - 1, compression : Format]
  BY <1>2, NumberedType DEF Numbered
<1>5. cs \subseteq Format
  BY <1>2
<1>6. sent' \subseteq [seq : 0 .. SeqModulus - 1, compression : Format]
  BY <1>1, <1>3, <1>4, <1>5
<1>7. Unwind(burst + 1) /\ burst + 1 \in 0 .. MaxBurst
  BY DEF EncodeFails, TypeOK, NoTick
<1> QED
  BY <1>3, <1>6, <1>7, UnwindType

LEMMA TypeStep ==
    ASSUME TypeOK, [Next]_vars
    PROVE  TypeOK'
<1>1. CASE TimerExpires
  <2>1. LiveTick \in Tick \cup Change
    BY DEF LiveTick, Tick
  <2>2. queue' \in Seq(Tick \cup Change)
    BY <1>1, <2>1, AppendProperties DEF TimerExpires, TypeOK
  <2> QED
    BY <1>1, <2>2 DEF TimerExpires, TypeOK
<1>2. CASE RunTick
  <2>1. Tail(queue) \in Seq(Tick \cup Change)
    BY <1>2, HeadTailProperties DEF RunTick, TypeOK
  <2>2. burst' \in 0 .. NoTick
    BY <1>2 DEF RunTick, NoTick
  <2> QED
    BY <1>2, <2>1, <2>2 DEF RunTick, TypeOK, pipeVars
<1>3. ASSUME NEW d \in Device, ChangeDevice(d)
      PROVE  TypeOK'
  BY <1>3, ChangeType
<1>4. ASSUME NEW size \in PacketSize, CapturePacket(size)
      PROVE  TypeOK'
  <2>1. burst' \in 0 .. NoTick
    BY <1>4 DEF CapturePacket, TypeOK, NoTick
  <2> QED
    BY <1>4, <2>1, PacketStep DEF CapturePacket, TypeOK
<1>5. CASE CaptureNothing
  <2>1. burst' \in 0 .. NoTick /\ timer' \in BOOLEAN
    BY <1>5 DEF CaptureNothing, NoTick
  <2>2. CASE backlog + TimerPeriod >= BufferDuration
    BY <1>5, <2>1, <2>2, PacketStep DEF CaptureNothing, TypeOK
  <2>3. CASE ~(backlog + TimerPeriod >= BufferDuration)
    BY <1>5, <2>1, <2>3, HalfBuffer DEF CaptureNothing, TypeOK
  <2> QED
    BY <2>2, <2>3
<1>6. CASE BurstEnds
  BY <1>6 DEF BurstEnds, TypeOK, NoTick
<1>7. CASE CaptureFails
  <2>1. burst \in 0 .. MaxBurst
    BY <1>7 DEF CaptureFails, TypeOK, NoTick
  <2> QED
    BY <1>7, <2>1, UnwindType DEF CaptureFails, TypeOK
<1>8. ASSUME NEW size \in PacketSize \cup {SilenceSize}, EncodeFails(size)
      PROVE  TypeOK'
  BY <1>8, FailedEncodeType
<1>9. ASSUME NEW cs \in SUBSET Format, OnClientsUpdate(cs)
      PROVE  TypeOK'
  <2>1. encoders' \subseteq Format /\ up' \in BOOLEAN
    BY <1>9 DEF OnClientsUpdate, Updated, TypeOK
  <2> QED
    BY <1>9, <2>1 DEF OnClientsUpdate, TypeOK
<1>10. ASSUME NEW d \in Device, SelectDevice(d)
       PROVE  TypeOK'
  <2>1. [kind |-> "change", device |-> d] \in Tick \cup Change
    BY DEF Change
  <2>2. queue' \in Seq(Tick \cup Change)
    BY <1>10, <2>1, AppendProperties DEF SelectDevice, TypeOK
  <2> QED
    BY <1>10, <2>2 DEF SelectDevice, TypeOK, pipeVars
<1>11. CASE ClickMute
  <2>1. up' \in BOOLEAN /\ button' \in BOOLEAN /\ muted' \in BOOLEAN
    BY <1>11 DEF ClickMute, TypeOK
  <2> QED
    BY <1>11, <2>1 DEF ClickMute, TypeOK
<1>12. CASE UNCHANGED vars
  BY <1>12 DEF vars, TypeOK
<1> QED
  BY <1>1, <1>2, <1>3, <1>4, <1>5, <1>6, <1>7, <1>8, <1>9, <1>10, <1>11, <1>12
  DEF Next, RunHandler, CaptureStep

(* The state of the capture keeps its type: numbers of frames stay below   *)
(* 2^32, the buffer and the backlog of silence never go below zero.        *)
THEOREM TypeCorrect == Spec => []TypeOK
<1>1. Init => TypeOK
  <2>1. 1 \in 0 .. SeqModulus - 1 /\ MaxBurst + 1 \in 0 .. MaxBurst + 1
    OBVIOUS
  <2>2. <<>> \in Seq(Tick \cup Change)
    OBVIOUS
  <2>3. ASSUME Init
        PROVE  /\ burst \in 0 .. NoTick /\ frame \in 0 .. MaxBurst + 1
               /\ seq \in 0 .. SeqModulus - 1
               /\ buffered \in Nat /\ backlog \in Nat
    BY <2>1, <2>3 DEF Init, NoTick
  <2>4. ASSUME Init
        PROVE  /\ deviceId \in Device \cup {NoDevice}
               /\ up \in BOOLEAN /\ pipe \in BOOLEAN /\ timer \in BOOLEAN
               /\ muted \in BOOLEAN /\ button \in BOOLEAN
               /\ wanted \subseteq Format /\ encoders \subseteq Format
    BY <2>4 DEF Init
  <2>5. ASSUME Init
        PROVE  /\ queue \in Seq(Tick \cup Change)
               /\ sent \subseteq [seq : 0 .. SeqModulus - 1, compression : Format]
    BY <2>2, <2>5 DEF Init
  <2> QED
    BY <2>3, <2>4, <2>5 DEF TypeOK
<1> QED
  BY <1>1, TypeStep, PTL DEF Spec

-----------------------------------------------------------------------------
(* The delay.                                                              *)

LEMMA DelayStep ==
    ASSUME TypeOK, DelayBounded, [Next]_vars
    PROVE  DelayBounded'
<1> USE DEF DelayBounded
<1>1. ASSUME OpenPipe \/ ClosePipe
      PROVE  DelayBounded'
  BY <1>1, PipeType
<1>2. ASSUME UNCHANGED <<buffered, backlog>>
      PROVE  DelayBounded'
  BY <1>2
<1>3. ASSUME NEW d \in Device, ChangeDevice(d)
      PROVE  DelayBounded'
  BY <1>1, <1>2, <1>3 DEF ChangeDevice, OpenFails, pipeVars
<1>4. ASSUME NEW size \in PacketSize, CapturePacket(size)
      PROVE  DelayBounded'
  BY <1>4, PacketStep DEF CapturePacket
<1>5. CASE CaptureNothing
  <2>1. CASE backlog + TimerPeriod >= BufferDuration
    BY <1>5, <2>1, PacketStep DEF CaptureNothing
  <2>2. CASE ~(backlog + TimerPeriod >= BufferDuration)
    BY <1>5, <2>2, HalfBuffer DEF CaptureNothing, TypeOK
  <2> QED
    BY <2>1, <2>2
<1>6. CASE CaptureFails \/ \E size \in PacketSize \cup {SilenceSize} : EncodeFails(size)
  BY <1>1, <1>6 DEF CaptureFails, EncodeFails, Unwind
<1>7. CASE \/ TimerExpires \/ RunTick \/ BurstEnds \/ ClickMute
           \/ \E cs \in SUBSET Format : OnClientsUpdate(cs)
           \/ \E d \in Device : SelectDevice(d)
           \/ UNCHANGED vars
  BY <1>2, <1>7 DEF TimerExpires, RunTick, BurstEnds, ClickMute, OnClientsUpdate,
                    SelectDevice, pipeVars, vars
<1> QED
  BY <1>3, <1>4, <1>5, <1>6, <1>7 DEF Next, RunHandler, CaptureStep

(* Whatever the sizes of the packets and of the frames, less than one      *)
(* frame of audio waits in the pipe, and less than one buffer of silence.  *)
THEOREM DelayAlwaysBounded == Spec => []DelayBounded
<1>1. Init => DelayBounded
  BY DEF Init, DelayBounded
<1>2. TypeOK /\ DelayBounded /\ [Next]_vars => DelayBounded'
  BY DelayStep
<1> QED
  BY <1>1, <1>2, TypeCorrect, PTL DEF Spec

-----------------------------------------------------------------------------
(* The encoders.                                                           *)

(* The update that leaves encoders in use alone comes to the same as       *)
(* making them all anew.                                                   *)
LEMMA UpdatedIsWanted ==
    ASSUME encoders \subseteq Format, NEW cs \in SUBSET Format
    PROVE  Updated(cs) = cs
<1>1. IsFiniteSet(encoders)
  <2>1. IsFiniteSet(Format)
    BY FS_AddElement DEF Format
  <2> QED
    BY <2>1, FS_Subset
<1>2. CASE cs \ encoders = {} /\ Cardinality(encoders \cap cs) = Cardinality(encoders)
  <2>1. encoders = encoders \cap cs
    BY <1>1, <1>2, FS_Subset
  <2> QED
    BY <1>2, <2>1 DEF Updated
<1>3. CASE ~(cs \ encoders = {} /\ Cardinality(encoders \cap cs) = Cardinality(encoders))
  BY <1>3 DEF Updated
<1> QED
  BY <1>2, <1>3

LEMMA EncodersStep ==
    ASSUME TypeOK, EncodersFollow, [Next]_vars
    PROVE  EncodersFollow'
<1> USE DEF EncodersFollow
<1>1. ASSUME up, OpenPipe \/ ClosePipe, wanted' = wanted
      PROVE  EncodersFollow'
  BY <1>1 DEF OpenPipe, ClosePipe
<1>2. ASSUME up, UNCHANGED <<encoders, pipe, wanted>>
      PROVE  EncodersFollow'
  BY <1>2
<1>3. ASSUME NEW d \in Device, ChangeDevice(d)
      PROVE  EncodersFollow'
  BY <1>1, <1>2, <1>3 DEF ChangeDevice, OpenFails, pipeVars
<1>4. ASSUME NEW cs \in SUBSET Format, OnClientsUpdate(cs)
      PROVE  EncodersFollow'
  BY <1>4, UpdatedIsWanted DEF OnClientsUpdate, TypeOK
<1>5. CASE CaptureFails \/ \E size \in PacketSize \cup {SilenceSize} : EncodeFails(size)
  BY <1>1, <1>5 DEF CaptureFails, EncodeFails, Unwind
<1>6. CASE \/ TimerExpires \/ RunTick \/ CaptureStep \/ ClickMute
           \/ \E d \in Device : SelectDevice(d)
  BY <1>2, <1>6 DEF TimerExpires, RunTick, CaptureStep, CapturePacket, CaptureNothing,
                    BurstEnds, ClickMute, SelectDevice, pipeVars
<1>7. CASE UNCHANGED vars
  BY <1>7 DEF vars
<1> QED
  BY <1>3, <1>4, <1>5, <1>6, <1>7 DEF Next, RunHandler

(* There is an encoder for each compression in use and for no other, for   *)
(* every number of compressions and phones coming and going.               *)
THEOREM EncodersAlwaysFollow == Spec => []EncodersFollow
<1>1. Init => EncodersFollow
  BY DEF Init, EncodersFollow
<1>2. TypeOK /\ EncodersFollow /\ [Next]_vars => EncodersFollow'
  BY EncodersStep
<1> QED
  BY <1>1, <1>2, TypeCorrect, PTL DEF Spec

-----------------------------------------------------------------------------
(* The tick.                                                               *)

Waiting == timer /\ LiveTicks = {} /\ burst = NoTick

Expired == ~timer /\ (\E i \in DOMAIN queue : LiveTicks = {i}) /\ burst = NoTick

Ticking == ~timer /\ LiveTicks = {} /\ burst # NoTick

NoMoreTicks == ~timer /\ LiveTicks = {} /\ burst = NoTick

(* OneTickPerPipe taken apart: which of the three ticks it is.             *)
Driven == up => IF pipe THEN Waiting \/ Expired \/ Ticking ELSE NoMoreTicks

LEMMA DrivenOnce ==
    ASSUME TypeOK, Driven
    PROVE  OneTickPerPipe
<1>1. Cardinality({}) = 0 /\ \A i : Cardinality({i}) = 1
  BY FS_EmptySet, FS_Singleton
<1> QED
  BY <1>1 DEF Driven, OneTickPerPipe, Waiting, Expired, Ticking, NoMoreTicks

LEMMA TicksAppended ==
    ASSUME TypeOK, NEW h \in Tick \cup Change, queue' = Append(queue, h)
    PROVE  LiveTicks' = LiveTicks \cup (IF h = LiveTick THEN {Len(queue) + 1} ELSE {})
<1>1. /\ Len(queue) \in Nat
      /\ DOMAIN queue = 1 .. Len(queue)
      /\ DOMAIN queue' = 1 .. Len(queue) + 1
      /\ \A i \in 1 .. Len(queue) : queue'[i] = queue[i]
      /\ queue'[Len(queue) + 1] = h
  BY AppendProperties, LenProperties DEF TypeOK
<1> QED
  BY <1>1 DEF LiveTicks

LEMMA TicksOfTail ==
    ASSUME TypeOK, queue # <<>>, queue' = Tail(queue)
    PROVE  LiveTicks' = {i - 1 : i \in LiveTicks \ {1}}
<1>1. /\ Len(queue) \in Nat \ {0}
      /\ DOMAIN queue = 1 .. Len(queue)
      /\ DOMAIN queue' = 1 .. Len(queue) - 1
      /\ \A i \in 1 .. Len(queue) - 1 : queue'[i] = queue[i + 1]
  BY HeadTailProperties, LenProperties, EmptySeq DEF TypeOK
<1>2. ASSUME NEW i \in LiveTicks'
      PROVE  i \in {j - 1 : j \in LiveTicks \ {1}}
  <2>1. i + 1 \in LiveTicks \ {1} /\ i = (i + 1) - 1
    BY <1>1 DEF LiveTicks
  <2> QED
    BY <2>1
<1>3. ASSUME NEW j \in LiveTicks \ {1}
      PROVE  j - 1 \in LiveTicks'
  BY <1>1 DEF LiveTicks
<1> QED
  BY <1>2, <1>3

LEMMA TicksOrphaned ==
    ASSUME NEW q \in Seq(Tick \cup Change), queue' = Orphaned(q)
    PROVE  LiveTicks' = {}
BY OrphanedType DEF LiveTicks

(* A handler that is not the live tick leaves the queue.                   *)
LEMMA OtherHandlerRuns ==
    ASSUME TypeOK, queue # <<>>, Head(queue) # LiveTick, queue' = Tail(queue)
    PROVE  /\ LiveTicks = {} => LiveTicks' = {}
           /\ (\E i \in DOMAIN queue : LiveTicks = {i})
                => \E i \in DOMAIN queue' : LiveTicks' = {i}
<1>1. LiveTicks' = {i - 1 : i \in LiveTicks \ {1}}
  BY TicksOfTail
<1>2. 1 \notin LiveTicks
  BY DEF LiveTicks
<1>3. ASSUME NEW i \in DOMAIN queue, LiveTicks = {i}
      PROVE  \E j \in DOMAIN queue' : LiveTicks' = {j}
  <2>1. LiveTicks' = {i - 1}
    BY <1>1, <1>2, <1>3
  <2>2. i - 1 \in DOMAIN queue'
    BY <2>1 DEF LiveTicks
  <2> QED
    BY <2>1, <2>2
<1> QED
  BY <1>1, <1>3

LEMMA LiveTickRuns ==
    ASSUME TypeOK, queue # <<>>, Head(queue) = LiveTick, queue' = Tail(queue)
    PROVE  /\ LiveTicks # {}
           /\ (\E i \in DOMAIN queue : LiveTicks = {i}) => LiveTicks' = {}
<1>1. LiveTicks' = {i - 1 : i \in LiveTicks \ {1}}
  BY TicksOfTail
<1>2. 1 \in LiveTicks
  <2>1. Len(queue) \in Nat \ {0} /\ DOMAIN queue = 1 .. Len(queue) /\ Head(queue) = queue[1]
    BY LenProperties, EmptySeq DEF TypeOK
  <2> QED
    BY <2>1 DEF LiveTicks
<1> QED
  BY <1>1, <1>2

LEMMA PipeChanges ==
    ASSUME OpenPipe \/ ClosePipe, burst' = NoTick, LiveTicks' = {}
    PROVE  Driven'
BY DEF OpenPipe, ClosePipe, Driven, Waiting, NoMoreTicks, NoTick

LEMMA QueueStays ==
    ASSUME UNCHANGED queue
    PROVE  LiveTicks' = LiveTicks /\ DOMAIN queue' = DOMAIN queue
BY DEF LiveTicks

LEMMA DrivenByHandler ==
    ASSUME TypeOK, Driven, RunHandler
    PROVE  Driven'
<1> NoTick' = NoTick /\ NoTick # 0
  BY DEF NoTick
<1>1. CASE RunTick /\ Head(queue).destroyed
  <2>1. Head(queue) # LiveTick /\ queue # <<>> /\ queue' = Tail(queue)
    BY <1>1 DEF RunTick, LiveTick
  <2>2. burst = NoTick /\ burst' = NoTick /\ UNCHANGED <<up, pipe, timer>>
    BY <1>1 DEF RunTick, pipeVars
  <2> QED
    BY <2>1, <2>2, OtherHandlerRuns DEF Driven, Waiting, Expired, Ticking, NoMoreTicks
<1>2. CASE RunTick /\ ~Head(queue).destroyed
  <2>1. Head(queue) = LiveTick /\ queue # <<>> /\ queue' = Tail(queue)
    BY <1>2 DEF RunTick, Tick, LiveTick
  <2>2. up /\ burst = NoTick /\ burst' = 0 /\ UNCHANGED <<up, pipe, timer>>
    BY <1>2 DEF RunTick, pipeVars
  <2>3. pipe /\ Expired
    BY <2>1, <2>2, LiveTickRuns DEF Driven, Waiting, Ticking, NoMoreTicks
  <2>4. Ticking'
    BY <2>1, <2>2, <2>3, LiveTickRuns DEF Expired, Ticking
  <2> QED
    BY <2>2, <2>3, <2>4 DEF Driven
<1>3. ASSUME NEW d \in Device, ChangeDevice(d), d = deviceId
      PROVE  Driven'
  <2>1. Head(queue) # LiveTick /\ queue # <<>> /\ queue' = Tail(queue)
    BY <1>3 DEF ChangeDevice, LiveTick
  <2>2. burst = NoTick /\ burst' = NoTick /\ UNCHANGED <<up, pipe, timer>>
    BY <1>3 DEF ChangeDevice, pipeVars
  <2> QED
    BY <2>1, <2>2, OtherHandlerRuns DEF Driven, Waiting, Expired, Ticking, NoMoreTicks
<1>4. ASSUME NEW d \in Device, ChangeDevice(d), d # deviceId
      PROVE  Driven'
  <2>1. Tail(queue) \in Seq(Tick \cup Change)
    BY <1>4, HeadTailProperties DEF ChangeDevice, TypeOK
  <2>2. LiveTicks' = {}
    BY <1>4, <2>1, TicksOrphaned DEF ChangeDevice
  <2>3. (OpenPipe \/ ClosePipe) /\ burst' = NoTick
    BY <1>4 DEF ChangeDevice, OpenFails
  <2> QED
    BY <2>2, <2>3, PipeChanges
<1> QED
  BY <1>1, <1>2, <1>3, <1>4 DEF RunHandler

LEMMA DrivenByCapture ==
    ASSUME TypeOK, Driven,
           \/ CaptureStep
           \/ CaptureFails
           \/ \E size \in PacketSize \cup {SilenceSize} : EncodeFails(size)
    PROVE  Driven'
<1> NoTick' = NoTick /\ NoTick = MaxBurst + 1 /\ burst \in Nat
  BY DEF NoTick, TypeOK
<1>1. ASSUME NEW size \in PacketSize, CapturePacket(size)
      PROVE  Driven'
  <2>1. up /\ burst < MaxBurst /\ burst' = burst + 1 /\ UNCHANGED <<up, queue, pipe, timer>>
    BY <1>1 DEF CapturePacket
  <2>2. burst # NoTick /\ burst' # NoTick
    BY <2>1
  <2>3. pipe /\ Ticking
    BY <2>1, <2>2 DEF Driven, Waiting, Expired, NoMoreTicks
  <2> QED
    BY <2>1, <2>2, <2>3, QueueStays DEF Driven, Ticking
<1>2. CASE CaptureNothing \/ BurstEnds
  <2>1. up /\ burst # NoTick /\ burst' = NoTick /\ timer' /\ UNCHANGED <<up, queue, pipe>>
    BY <1>2 DEF CaptureNothing, BurstEnds
  <2>2. pipe /\ Ticking
    BY <2>1 DEF Driven, Waiting, Expired, NoMoreTicks
  <2> QED
    BY <2>1, <2>2, QueueStays DEF Driven, Ticking, Waiting
<1>3. CASE CaptureFails \/ \E size \in PacketSize \cup {SilenceSize} : EncodeFails(size)
  <2>1. ClosePipe /\ burst' = NoTick /\ queue' = Orphaned(queue)
    BY <1>3 DEF CaptureFails, EncodeFails, Unwind
  <2>2. LiveTicks' = {}
    BY <2>1, TicksOrphaned DEF TypeOK
  <2> QED
    BY <2>1, <2>2, PipeChanges
<1> QED
  BY <1>1, <1>2, <1>3 DEF CaptureStep

LEMMA DrivenStep ==
    ASSUME TypeOK, Driven, [Next]_vars
    PROVE  Driven'
<1> NoTick' = NoTick
  BY DEF NoTick
<1>1. CASE TimerExpires
  <2>1. up /\ timer /\ ~timer' /\ UNCHANGED <<up, pipe, burst>>
    BY <1>1 DEF TimerExpires
  <2>2. pipe /\ Waiting
    BY <2>1 DEF Driven, Expired, Ticking, NoMoreTicks
  <2>3. LiveTick \in Tick \cup Change /\ queue' = Append(queue, LiveTick)
    BY <1>1 DEF TimerExpires, LiveTick, Tick
  <2>4. LiveTicks' = {Len(queue) + 1}
    BY <2>2, <2>3, TicksAppended DEF Waiting
  <2>5. Len(queue) + 1 \in DOMAIN queue'
    BY <2>4 DEF LiveTicks
  <2> QED
    BY <2>1, <2>2, <2>4, <2>5 DEF Driven, Waiting, Expired
<1>2. CASE RunHandler
  BY <1>2, DrivenByHandler
<1>3. CASE \/ CaptureStep
           \/ CaptureFails
           \/ \E size \in PacketSize \cup {SilenceSize} : EncodeFails(size)
  BY <1>3, DrivenByCapture
<1>4. ASSUME NEW d \in Device, SelectDevice(d)
      PROVE  Driven'
  <2> DEFINE h == [kind |-> "change", device |-> d]
  <2>1. h \in Tick \cup Change /\ h # LiveTick
    BY DEF Change, LiveTick
  <2>2. queue' = Append(queue, h) /\ UNCHANGED <<up, pipe, timer, burst>>
    BY <1>4 DEF SelectDevice, pipeVars
  <2> HIDE DEF h
  <2>3. LiveTicks' = LiveTicks
    BY <2>1, <2>2, TicksAppended
  <2>4. \A i \in LiveTicks' : i \in DOMAIN queue'
    BY DEF LiveTicks
  <2> QED
    BY <2>2, <2>3, <2>4 DEF Driven, Waiting, Expired, Ticking, NoMoreTicks
<1>5. CASE (\E cs \in SUBSET Format : OnClientsUpdate(cs)) \/ ClickMute
  <2>1. up /\ UNCHANGED <<queue, pipe, timer, burst>>
    BY <1>5 DEF OnClientsUpdate, ClickMute
  <2> QED
    BY <2>1, QueueStays DEF Driven, Waiting, Expired, Ticking, NoMoreTicks
<1>6. CASE UNCHANGED vars
  BY <1>6, QueueStays DEF vars, Driven, Waiting, Expired, Ticking, NoMoreTicks
<1> QED
  BY <1>1, <1>2, <1>3, <1>4, <1>5, <1>6 DEF Next

LEMMA DrivenHolds == Spec => []Driven
<1>1. Init => Driven
  BY DEF Init, Driven, NoMoreTicks, LiveTicks
<1>2. TypeOK /\ Driven /\ [Next]_vars => Driven'
  BY DrivenStep
<1> QED
  BY <1>1, <1>2, TypeCorrect, PTL DEF Spec

(* Every pipe has exactly one tick, running down, waiting in the queue or  *)
(* under way, and without a pipe there is none that is not stale: for any  *)
(* number of devices, of handlers queued and of packets in a tick.         *)
THEOREM AlwaysOneTickPerPipe == Spec => []OneTickPerPipe
<1>1. TypeOK /\ Driven => OneTickPerPipe
  BY DrivenOnce
<1> QED
  BY <1>1, DrivenHolds, TypeCorrect, PTL

-----------------------------------------------------------------------------
(* The numbers of the frames.                                              *)

LEMMA Division ==
    ASSUME NEW m \in Nat \ {0}, NEW a \in Nat
    PROVE  a = m * (a \div m) + (a % m) /\ a \div m \in Nat /\ a % m \in 0 .. m - 1
OBVIOUS

(* Numbers that lie less than the modulus apart have different remainders. *)
LEMMA RemaindersDiffer ==
    ASSUME NEW m \in Nat \ {0}, NEW a \in Nat, NEW b \in Nat,
           a < b, b < a + m
    PROVE  a % m # b % m
<1> SUFFICES ASSUME a % m = b % m PROVE FALSE
  OBVIOUS
<1> DEFINE q == a \div m
           k == b \div m
           r == a % m
<1>1. a = m * q + r /\ q \in Nat /\ r \in 0 .. m - 1
  BY Division
<1>2. b = m * k + r /\ k \in Nat
  BY Division
<1> HIDE DEF q, k, r
<1>3. m * q \in Nat /\ m * k \in Nat /\ m * q < m * k /\ m * k < m * q + m
  BY <1>1, <1>2
<1>4. CASE k <= q
  <2>1. q - k \in Nat /\ m * (q - k) >= 0 /\ m * (q - k) = m * q - m * k
    BY <1>1, <1>2, <1>4
  <2> QED
    BY <1>3, <2>1
<1>5. CASE k > q
  <2>1. k - q - 1 \in Nat
    BY <1>1, <1>2, <1>5
  <2>2. m * (k - q - 1) >= 0
    BY <2>1
  <2>3. m * (k - q - 1) = m * k - m * q - m
    BY <1>1, <1>2
  <2> QED
    BY <1>3, <2>2, <2>3
<1> QED
  BY <1>1, <1>2, <1>4, <1>5

(* n frames have n numbers, as long as there are that many.                *)
LEMMA FramesCounted ==
    ASSUME seq \in Nat, NEW n \in 0 .. SeqModulus, NEW cs, NEW c \in cs
    PROVE  Cardinality({f \in Numbered(n, cs) : f.compression = c}) = n
<1> USE DEF Numbered
<1> DEFINE Frame(k) == [seq |-> (seq + k) % SeqModulus, compression |-> c]
           ours == {f \in Numbered(n, cs) : f.compression = c}
           number == [k \in 0 .. n - 1 |-> Frame(k)]
<1>1. number \in [0 .. n - 1 -> ours]
  OBVIOUS
<1>2. ASSUME NEW j \in 0 .. n - 1, NEW k \in 0 .. n - 1, number[j] = number[k]
      PROVE  j = k
  <2>1. (seq + j) % SeqModulus = (seq + k) % SeqModulus
    <3>1. number[j].seq = number[k].seq
      BY <1>2
    <3> QED
      BY <3>1
  <2>2. seq + j \in Nat /\ seq + k \in Nat /\ seq + j < seq + k + SeqModulus /\ seq + k < seq + j + SeqModulus
    OBVIOUS
  <2>3. ~(seq + j < seq + k) /\ ~(seq + k < seq + j)
    BY <2>1, <2>2, RemaindersDiffer
  <2> QED
    BY <2>3
<1>3. ASSUME NEW f \in ours PROVE \E k \in 0 .. n - 1 : number[k] = f
  <2>1. PICK k \in 0 .. n - 1 : f.seq = (seq + k) % SeqModulus
    OBVIOUS
  <2>2. f = [seq |-> f.seq, compression |-> f.compression] /\ f.compression = c
    OBVIOUS
  <2>3. number[k] = f
    BY <2>1, <2>2
  <2> QED
    BY <2>3
<1> HIDE DEF number, ours
<1>4. number \in Bijection(0 .. n - 1, ours)
  BY <1>1, <1>2, <1>3, Fun_IsBij
<1>5. ExistsBijection(0 .. n - 1, ours)
  BY <1>4, Fun_ExistsBij
<1>6. IsFiniteSet(0 .. n - 1) /\ Cardinality(0 .. n - 1) = n
  <2>1. 0 \in Int /\ n - 1 \in Int
    OBVIOUS
  <2> QED
    BY <2>1, FS_Interval
<1>7. Cardinality(ours) = n
  BY <1>5, <1>6, FS_Bijection
<1> QED
  BY <1>7 DEF ours

Heard == {f \in sent' : f.compression = Uncompressed}

GoesOn == seq' = (seq + Cardinality(Heard)) % SeqModulus

LEMMA SilentStep ==
    ASSUME TypeOK, sent' = {}, seq' = seq
    PROVE  GoesOn
<1>1. Cardinality(Heard) = 0
  <2>1. Heard = {}
    BY DEF Heard
  <2> QED
    BY <2>1, FS_EmptySet
<1>2. seq \in 0 .. SeqModulus - 1
  BY DEF TypeOK
<1>3. seq % SeqModulus = seq
  BY <1>2
<1> QED
  BY <1>1, <1>2, <1>3 DEF GoesOn

(* With less than a frame in the buffer a packet gives at most as many     *)
(* frames as there are numbers.                                            *)
LEMMA FramesLimited ==
    ASSUME NEW units \in Nat, units < SeqModulus * FrameSize + FrameSize
    PROVE  FramesIn(units) \in 0 .. SeqModulus
<1> DEFINE n == FramesIn(units)
<1>1. n \in Nat /\ units - n * FrameSize \in 0 .. FrameSize - 1
  BY RestOfFrames
<1> HIDE DEF n
<1>2. CASE n > SeqModulus
  <2>1. n - SeqModulus - 1 \in Nat
    BY <1>1, <1>2
  <2>2. FrameSize * (n - SeqModulus - 1) >= 0
    BY <2>1
  <2>3. FrameSize * (n - SeqModulus - 1) = n * FrameSize - SeqModulus * FrameSize - FrameSize
    BY <1>1
  <2>4. n * FrameSize \in Nat /\ SeqModulus * FrameSize \in Nat
    BY <1>1
  <2> QED
    BY <1>1, <2>2, <2>3, <2>4
<1> QED
  BY <1>1, <1>2 DEF n

(* DTX leaves out frames of the encoders only.                             *)
LEMMA PacketNumbers ==
    ASSUME TypeOK, DelayBounded, Uncompressed \in encoders,
           NEW size \in PacketSize \cup {SilenceSize}, ProcessPacket(size)
    PROVE  GoesOn
<1>1. CASE muted
  BY <1>1, SilentStep DEF ProcessPacket
<1>2. CASE ~muted
  <2> DEFINE n == FramesIn(buffered + size)
  <2>1. PICK skipped \in SUBSET Numbered(n, encoders \cap Opus) :
          /\ seq' = (seq + n) % SeqModulus
          /\ sent' = Numbered(n, encoders) \ skipped
    BY <1>2 DEF ProcessPacket
  <2>2. buffered + size \in Nat /\ buffered + size < SeqModulus * FrameSize + FrameSize
    <3>1. size \in Nat /\ size <= SeqModulus * FrameSize /\ SeqModulus * FrameSize \in Nat
      BY PacketAssumption
    <3>2. buffered \in Nat /\ buffered < FrameSize
      BY DEF TypeOK, DelayBounded
    <3> QED
      BY <3>1, <3>2
  <2>3. n \in 0 .. SeqModulus
    BY <2>2, FramesLimited
  <2> HIDE DEF n
  <2>4. encoders \in SUBSET Format /\ seq \in Nat
    BY DEF TypeOK
  <2>5. Heard = {f \in Numbered(n, encoders) : f.compression = Uncompressed}
    <3>1. \A f \in skipped : f.compression # Uncompressed
      BY DEF Numbered
    <3> QED
      BY <2>1, <3>1 DEF Heard
  <2>6. Cardinality({f \in Numbered(n, encoders) : f.compression = Uncompressed}) = n
    BY <2>3, <2>4, FramesCounted
  <2>7. Cardinality(Heard) = n
    BY <2>5, <2>6
  <2> QED
    BY <2>1, <2>7 DEF GoesOn
<1> QED
  BY <1>1, <1>2

(* A phone that gets every frame sees the numbers go on by one, modulo     *)
(* 2^32, over bursts, silence and changes of device, for as long as no     *)
(* packet has more frames than there are numbers.                          *)
THEOREM NumbersAlwaysConsecutive == Spec => NumbersConsecutive
<1> DEFINE Consecutive ==
        \/ Uncompressed \notin encoders
        \/ pipe /\ ~pipe'
        \/ seq' = (seq + Cardinality({f \in sent' : f.compression = Uncompressed})) % SeqModulus
<1>1. ASSUME TypeOK, DelayBounded, Driven, Next
      PROVE  Consecutive
  <2>1. GoesOn => Consecutive
    BY DEF GoesOn, Heard
  <2>2. ASSUME NEW size \in PacketSize, CapturePacket(size) PROVE Consecutive
    BY <1>1, <2>1, <2>2, PacketNumbers DEF CapturePacket
  <2>3. CASE CaptureNothing
    BY <1>1, <2>1, <2>3, PacketNumbers, SilentStep DEF CaptureNothing
  <2>4. CASE CaptureFails \/ \E size \in PacketSize \cup {SilenceSize} : EncodeFails(size)
    <3>0. burst \in Nat /\ NoTick = MaxBurst + 1
      BY <1>1 DEF TypeOK, NoTick
    <3>3. up /\ burst <= MaxBurst /\ ~pipe'
      <4>1. CASE CaptureFails
        BY <4>1 DEF CaptureFails, Unwind, ClosePipe
      <4>2. ASSUME NEW size \in PacketSize \cup {SilenceSize}, EncodeFails(size)
            PROVE  up /\ burst <= MaxBurst /\ ~pipe'
        <5>1. up /\ burst < MaxBurst /\ ClosePipe
          BY <4>2 DEF EncodeFails, Unwind
        <5> QED
          BY <3>0, <5>1 DEF ClosePipe
      <4> QED
        BY <2>4, <4>1, <4>2
    <3>1. up /\ burst # NoTick /\ ~pipe'
      BY <3>0, <3>3
    <3>2. pipe
      BY <1>1, <3>1 DEF Driven, NoMoreTicks
    <3> QED
      BY <3>1, <3>2
  <2>5. CASE \/ TimerExpires \/ RunHandler \/ BurstEnds \/ ClickMute
             \/ \E cs \in SUBSET Format : OnClientsUpdate(cs)
             \/ \E d \in Device : SelectDevice(d)
    <3>1. sent' = {} /\ seq' = seq
      BY <2>5 DEF TimerExpires, RunHandler, RunTick, ChangeDevice, OpenPipe, OpenFails, BurstEnds,
                  ClickMute, OnClientsUpdate, SelectDevice
    <3> QED
      BY <1>1, <2>1, <3>1, SilentStep
  <2> HIDE DEF Consecutive
  <2> QED
    BY <1>1, <2>2, <2>3, <2>4, <2>5 DEF Next, CaptureStep
<1>2. TypeOK /\ DelayBounded /\ Driven /\ [Next]_vars => [Consecutive]_vars
  <2> HIDE DEF Consecutive
  <2> QED
    BY <1>1
<1> QED
  BY <1>2, DrivenHolds, TypeCorrect, DelayAlwaysBounded, PTL DEF Spec, NumbersConsecutive

=============================================================================
