------------------------------- MODULE PathProofs -------------------------------
(***************************************************************************)
(* Proofs about module Path, for any device, any sizes and any requests.   *)
(***************************************************************************)
EXTENDS Path, WireProofs

-----------------------------------------------------------------------------
(* The keyboard.                                                           *)

(* Whatever is received, once a keystroke has been replayed no key is      *)
(* down.                                                                   *)
THEOREM KeysAlwaysReleased == Spec => []KeysReleased
<1>1. Init => KeysReleased
  BY NoInputRelease DEF Init, WireInit, KeysReleased
<1>2. KeysReleased /\ [Next]_vars => KeysReleased'
  <2> SUFFICES ASSUME KeysReleased, [Next]_vars PROVE KeysReleased'
    OBVIOUS
  <2>1. CASE WireNext
    BY <2>1, ReceiveReleases DEF WireNext
  <2>2. CASE UNCHANGED inputs
    BY <2>2 DEF KeysReleased
  <2> QED
    BY <2>1, <2>2 DEF Next, SendFrame, EncodeFails, vars, wireVars
<1> QED
  BY <1>1, <1>2, PTL DEF Spec

-----------------------------------------------------------------------------
(* What is held of the device.                                             *)

(* What the constructor of AudioCapture leaves behind.                     *)
Kept == {"com", "meterInfo", "audioClient", "requestedFormat", "supportedFormat", "captureClient"}

(* What of it is held at which point.  While the pipe is being closed,     *)
(* nothing is known but that all that is left has what it leans on.        *)
DeviceInv ==
    /\ phase \in {"closed", "opening", "opened", "idle", "resample", "frames", "release", "closing"}
    /\ phase = "closed" => held = {}
    /\ phase = "opening" =>
          \E i \in 1..10 : held = {OpeningOrder[j] : j \in 1..i - 1}
    /\ phase = "opened" => Kept \subseteq held /\ held \subseteq Kept \cup {"transform"}
    /\ phase \in {"idle", "resample", "frames", "release"} =>
          Kept \cup {"stream"} \subseteq held /\ held \subseteq Kept \cup {"transform", "stream", "packet"}
    /\ phase = "closing" => HeldInOrder

LEMMA DeviceInvImplies == DeviceInv => HeldInOrder
<1> SUFFICES ASSUME DeviceInv, phase # "closing" PROVE HeldInOrder
  BY DEF DeviceInv
<1>1. CASE phase = "closed"
  BY <1>1 DEF DeviceInv, HeldInOrder
<1>2. CASE phase = "opening"
  <2>1. PICK i \in 1..10 : held = {OpeningOrder[j] : j \in 1..i - 1}
    BY <1>2 DEF DeviceInv
  <2>2. \A x \in held : x # "transform" /\ x # "stream" /\ x # "packet"
    BY <2>1 DEF OpeningOrder
  <2>3. ASSUME held # {} PROVE "com" \in held
    BY <2>1, <2>3 DEF OpeningOrder
  <2> QED
    BY <2>2, <2>3 DEF HeldInOrder, LeansOn, Interface
<1>3. CASE phase \in {"opened", "idle", "resample", "frames", "release"}
  BY <1>3 DEF DeviceInv, Kept, HeldInOrder, LeansOn, Interface
<1> QED
  BY <1>1, <1>2, <1>3 DEF DeviceInv

LEMMA AcquireKeeps ==
    ASSUME DeviceInv, Acquire
    PROVE  DeviceInv'
<1>1. PICK i \in 1..Len(OpeningOrder) :
        /\ held = {OpeningOrder[j] : j \in 1..i - 1}
        /\ held' = held \cup {OpeningOrder[i]}
  BY DEF Acquire
<1>2. i \in 1..9
  BY <1>1 DEF OpeningOrder
<1>3. 1..i = (1..i - 1) \cup {i}
  BY <1>2
<1>4. held' = {OpeningOrder[j] : j \in 1..i}
  BY <1>1, <1>3
<1>5. i + 1 \in 1..10 /\ (i + 1) - 1 = i
  BY <1>2
<1>6. \E k \in 1..10 : held' = {OpeningOrder[j] : j \in 1..k - 1}
  BY <1>4, <1>5
<1>7. phase' = "opening"
  BY DEF Acquire
<1> QED
  BY <1>6, <1>7 DEF DeviceInv

LEMMA ReleaseLocalsKeeps ==
    ASSUME DeviceInv, ReleaseLocals
    PROVE  DeviceInv'
<1>1. PICK i \in 1..10 : held = {OpeningOrder[j] : j \in 1..i - 1}
  BY DEF ReleaseLocals, DeviceInv
<1>2. held \subseteq Kept \cup {"endpoint", "device", "enumerator"}
  BY <1>1 DEF OpeningOrder, Kept
<1>3. Kept \subseteq held
  <2>1. \A j \in 1..9 : OpeningOrder[j] \in held
    BY DEF ReleaseLocals, Opened, ToSet, OpeningOrder
  <2> QED
    BY <2>1 DEF OpeningOrder, Kept
<1>4. Kept \subseteq held' /\ held' \subseteq Kept /\ phase' = "opened"
  BY <1>2, <1>3 DEF ReleaseLocals, Kept
<1> QED
  BY <1>4 DEF DeviceInv

(* A destructor comes after those of all that leans on what it gives back. *)
LEMMA ReleaseKeeps ==
    ASSUME DeviceInv, Release
    PROVE  DeviceInv'
<1>1. HeldInOrder /\ phase = "closing"
  BY DEF Release, DeviceInv
<1>2. CASE held = {}
  BY <1>2 DEF Release, DeviceInv
<1>3. CASE held # {}
  <2>1. PICK i \in 1..Len(ReleaseOrder) :
          /\ \A j \in 1..i - 1 : ReleaseOrder[j] \notin held
          /\ held' = held \ {ReleaseOrder[i]}
    BY <1>3 DEF Release
  <2>2. ASSUME NEW pair \in LeansOn, pair[1] \in held'
        PROVE  pair[2] \in held'
    <3>1. pair[2] \in held
      BY <1>1, <2>1, <2>2 DEF HeldInOrder
    <3>2. \E j \in 1..12 : ReleaseOrder[j] = pair[1] /\ (\A k \in 1..j : ReleaseOrder[k] # pair[2])
      BY DEF LeansOn, Interface, ReleaseOrder
    <3>3. pair[2] # ReleaseOrder[i]
      BY <2>1, <2>2, <3>2 DEF ReleaseOrder
    <3> QED
      BY <2>1, <3>1, <3>3
  <2>3. phase' = "closing"
    BY <1>1, <1>3 DEF Release
  <2> QED
    BY <2>2, <2>3 DEF DeviceInv, HeldInOrder
<1> QED
  BY <1>2, <1>3

LEMMA FailKeeps ==
    ASSUME DeviceInv, Fail
    PROVE  DeviceInv'
<1>1. HeldInOrder
  BY DeviceInvImplies
<1> QED
  BY <1>1 DEF Fail, DeviceInv, HeldInOrder

LEMMA DeviceNext == DeviceInv /\ [Next]_vars => DeviceInv'
<1> SUFFICES ASSUME DeviceInv, [Next]_vars PROVE DeviceInv'
  OBVIOUS
<1>1. CASE Open
  <2>1. held' = {} /\ phase' = "opening"
    BY <1>1 DEF Open, Closed, DeviceInv
  <2>2. {OpeningOrder[j] : j \in 1..1 - 1} = {}
    OBVIOUS
  <2> QED
    BY <2>1, <2>2 DEF DeviceInv
<1>2. CASE OpenResampler \/ Start
  BY <1>2 DEF OpenResampler, Start, DeviceInv
<1>3. CASE Capture(Encoders)
  BY <1>3 DEF Capture, DeviceInv
<1>4. CASE ProcessOutput \/ FramesDone \/ NextFrame
  BY <1>4 DEF ProcessOutput, FramesDone, NextFrame, DeviceInv
<1>5. CASE ReleasePacket
  BY <1>5 DEF ReleasePacket, DeviceInv, Kept
<1>6. CASE UNCHANGED <<phase, held>>
  BY <1>6 DEF DeviceInv, HeldInOrder
<1> QED
  BY <1>1, <1>2, <1>3, <1>4, <1>5, <1>6, AcquireKeeps, ReleaseLocalsKeeps, ReleaseKeeps, FailKeeps
     DEF Next, AudioNext, SendFrame, EncodeFails, vars, audioVars

(* At whichever call opening fails and whenever the pipe goes, nothing is  *)
(* given back before what leans on it.                                     *)
THEOREM AlwaysHeldInOrder == Spec => []HeldInOrder
<1>1. Init => DeviceInv
  BY DEF Init, AudioInit, DeviceInv
<1> QED
  BY <1>1, DeviceInvImplies, DeviceNext, PTL DEF Spec

-----------------------------------------------------------------------------
(* The units in the resampler and in the buffer.                           *)

(* The resampler is drained before the frames are taken, and the buffer    *)
(* down to less than a frame before the packet is given back; both are     *)
(* emptied when the pipe goes.                                             *)
RestInv ==
    /\ inside \in Seq(Nat) /\ buffer \in Seq(Nat)
    /\ nextUnit \in Nat /\ sequence \in Nat
    /\ phase # "resample" => Len(inside) <= Latency
    /\ phase \notin {"resample", "frames"} => Len(buffer) < FrameSize

LEMMA SizesPositive ==
    /\ FrameSize \in Nat \ {0} /\ MaxOutput \in Nat \ {0} /\ SeqModulus \in Nat \ {0}
    /\ Latency \in Nat /\ Units \in Nat \ {0}
<1>1. FrameSize \in Nat \ {0} /\ MaxOutput \in Nat \ {0} /\ SeqModulus \in Nat \ {0} /\ Latency \in Nat
  BY AudioSourceAssumption
<1>2. \A a, b \in Nat \ {0} : a * b \in Nat \ {0}
  OBVIOUS
<1> QED
  BY <1>1, <1>2 DEF Units

(* The numbers of a packet's units.                                        *)
LEMMA NumberedUnits ==
    ASSUME nextUnit \in Nat, NEW n \in Nat
    PROVE  Numbered(n) \in Seq(0..Units - 1) /\ Len(Numbered(n)) = n
<1>1. ASSUME NEW i \in 1..n PROVE (nextUnit + i - 1) % Units \in 0..Units - 1
  <2>1. Units \in Nat /\ Units > 0
    BY SizesPositive
  <2>2. nextUnit + i - 1 \in Nat
    OBVIOUS
  <2> QED
    BY <2>1, <2>2
<1> QED
  BY <1>1 DEF Numbered

(* How much one round of the resampler puts out, while more is inside than *)
(* its filter keeps.                                                       *)
LEMMA OutputOfRound ==
    ASSUME NEW len \in Nat, ~(len <= Latency)
    PROVE  Min2(MaxOutput, len - Latency) \in 0..len
BY SizesPositive DEF Min2

LEMMA RestNext == RestInv /\ [Next]_vars => RestInv'
<1> SUFFICES ASSUME RestInv, [Next]_vars PROVE RestInv'
  OBVIOUS
<1> USE SizesPositive
<1>1. CASE Open
  <2>1. sequence * FrameSize \in Nat
    BY DEF RestInv
  <2> QED
    BY <1>1, <2>1 DEF Open, Closed, RestInv
<1>2. CASE Acquire \/ ReleaseLocals \/ OpenResampler \/ Start \/ ReleasePacket \/ Release
  BY <1>2 DEF Acquire, ReleaseLocals, OpenResampler, Start, ReleasePacket, Release, Stream, RestInv
<1>3. CASE Capture(Encoders)
  <2>1. CASE Encoders = {}
    BY <1>3, <2>1 DEF Capture, RestInv
  <2>2. CASE Encoders # {}
    <3>1. PICK n \in PacketSize :
            /\ nextUnit' = (nextUnit + (IF resampling THEN 2 ELSE 1) * n) % Units
            /\ IF resampling
               THEN inside' = inside \o Numbered(2 * n) /\ phase' = "resample" /\ buffer' = buffer
               ELSE buffer' = buffer \o Numbered(n) /\ phase' = "frames" /\ inside' = inside
      BY <1>3, <2>2 DEF Capture
    <3>2. n \in Nat /\ 2 * n \in Nat
      BY AudioSourceAssumption
    <3>3. Numbered(n) \in Seq(Nat) /\ Numbered(2 * n) \in Seq(Nat)
      <4>1. Numbered(n) \in Seq(0..Units - 1) /\ Numbered(2 * n) \in Seq(0..Units - 1)
        BY <3>2, NumberedUnits DEF RestInv
      <4> QED
        BY <4>1
    <3>4. nextUnit' \in Nat
      BY <3>1, <3>2 DEF RestInv
    <3>5. buffer \o Numbered(n) \in Seq(Nat) /\ inside \o Numbered(2 * n) \in Seq(Nat)
      BY <3>3, Concatenated DEF RestInv
    <3>6. buffer' \in Seq(Nat) /\ inside' \in Seq(Nat)
      BY <3>1, <3>5 DEF RestInv
    <3> QED
      BY <1>3, <3>1, <3>4, <3>6 DEF Capture, RestInv
  <2> QED
    BY <2>1, <2>2
<1>4. CASE ProcessOutput
  <2>1. CASE Len(inside) <= Latency
    BY <1>4, <2>1 DEF ProcessOutput, RestInv
  <2>2. CASE ~(Len(inside) <= Latency)
    <3> DEFINE n == Min2(MaxOutput, Len(inside) - Latency)
    <3>1. n \in 0..Len(inside)
      BY <2>2, OutputOfRound DEF RestInv
    <3>2. /\ buffer' = buffer \o SubSeq(inside, 1, n)
          /\ inside' = SubSeq(inside, n + 1, Len(inside))
          /\ phase' = phase
      BY <1>4, <2>2 DEF ProcessOutput
    <3> HIDE DEF n
    <3>3. SubSeq(inside, 1, n) \in Seq(Nat) /\ SubSeq(inside, n + 1, Len(inside)) \in Seq(Nat)
      BY <3>1, Cut DEF RestInv
    <3>4. buffer \o SubSeq(inside, 1, n) \in Seq(Nat)
      BY <3>3, Concatenated DEF RestInv
    <3>5. buffer' \in Seq(Nat) /\ inside' \in Seq(Nat)
      BY <3>2, <3>3, <3>4
    <3> QED
      BY <1>4, <3>2, <3>5 DEF ProcessOutput, RestInv
  <2> QED
    BY <2>1, <2>2
<1>5. CASE NextFrame
  <2>1. FrameSize \in 0..Len(buffer)
    BY <1>5 DEF NextFrame, RestInv
  <2>2. buffer' \in Seq(Nat)
    BY <1>5, <2>1, Cut DEF NextFrame, RestInv
  <2>3. sequence' \in Nat
    BY <1>5 DEF NextFrame, RestInv
  <2> QED
    BY <1>5, <2>2, <2>3 DEF NextFrame, RestInv
<1>6. CASE FramesDone
  BY <1>6 DEF FramesDone, Stream, RestInv
<1>7. CASE Fail
  BY <1>7 DEF Fail, RestInv
<1>8. CASE UNCHANGED audioVars
  BY <1>8 DEF audioVars, RestInv
<1> QED
  BY <1>1, <1>2, <1>3, <1>4, <1>5, <1>6, <1>7, <1>8 DEF Next, AudioNext, SendFrame, EncodeFails, vars

(* Whatever the sizes of packets and frames, between two packets the       *)
(* resampler has no more than the latency of its filter and the buffer     *)
(* less than a frame.                                                      *)
THEOREM NothingEverLeftBehind == Spec => []NothingLeftBehind
<1>1. Init => RestInv
  BY SizesPositive DEF Init, AudioInit, RestInv
<1>2. RestInv => NothingLeftBehind
  BY DEF RestInv, NothingLeftBehind
<1> QED
  BY <1>1, <1>2, RestNext, PTL DEF Spec

-----------------------------------------------------------------------------
(* The rest of a division by a number that is not given.                   *)

LEMMA Division ==
    ASSUME NEW m \in Nat \ {0}, NEW a \in Nat
    PROVE  a = m * (a \div m) + (a % m) /\ a \div m \in Nat /\ a % m \in 0..m - 1
OBVIOUS

LEMMA RestUnique ==
    ASSUME NEW m \in Nat \ {0}, NEW q \in Nat, NEW r \in 0..m - 1
    PROVE  (m * q + r) % m = r
<1> DEFINE a == m * q + r
           k == a \div m
           s == a % m
<1>1. a \in Nat
  OBVIOUS
<1>2. a = m * k + s /\ k \in Nat /\ s \in 0..m - 1
  BY <1>1, Division
<1>3. \A d \in Nat : d >= 1 => m * d >= m
  OBVIOUS
<1>4. m * q + r = m * k + s
  BY <1>2
<1> HIDE DEF a, k, s
<1>5. CASE q = k
  BY <1>2, <1>4, <1>5 DEF a, s
<1>6. CASE q > k
  <2>1. q - k \in Nat /\ q - k >= 1
    BY <1>2, <1>6
  <2>2. m * (q - k) >= m
    BY <2>1, <1>3
  <2>3. m * (q - k) = m * q - m * k
    BY <1>2
  <2>4. m * q \in Nat /\ m * k \in Nat
    BY <1>2
  <2> QED
    BY <2>2, <2>3, <2>4, <1>2, <1>4
<1>7. CASE k > q
  <2>1. k - q \in Nat /\ k - q >= 1
    BY <1>2, <1>7
  <2>2. m * (k - q) >= m
    BY <2>1, <1>3
  <2>3. m * (k - q) = m * k - m * q
    BY <1>2
  <2>4. m * q \in Nat /\ m * k \in Nat
    BY <1>2
  <2> QED
    BY <2>2, <2>3, <2>4, <1>2, <1>4
<1> QED
  BY <1>2, <1>5, <1>6, <1>7

LEMMA RestOfSum ==
    ASSUME NEW m \in Nat \ {0}, NEW a \in Nat, NEW b \in Nat
    PROVE  ((a % m) + b) % m = (a + b) % m
<1> DEFINE q == a \div m
           r == a % m
           k == (r + b) \div m
           s == (r + b) % m
<1>1. a = m * q + r /\ q \in Nat /\ r \in Nat
  <2>1. a = m * q + r /\ q \in Nat /\ r \in 0..m - 1
    BY Division
  <2> HIDE DEF q, r
  <2> QED
    BY <2>1
<1>2. r + b = m * k + s /\ k \in Nat /\ s \in 0..m - 1
  <2> HIDE DEF q, r
  <2>1. r + b \in Nat
    BY <1>1
  <2> QED
    BY <2>1, Division
<1> HIDE DEF q, r, k, s
<1>3. m * q + m * k = m * (q + k)
  BY <1>1, <1>2
<1>4. m * q \in Nat /\ m * k \in Nat
  BY <1>1, <1>2
<1>5. a + b = m * (q + k) + s
  BY <1>1, <1>2, <1>3, <1>4
<1>6. q + k \in Nat
  BY <1>1, <1>2
<1>7. (a + b) % m = s
  BY <1>2, <1>5, <1>6, RestUnique
<1> QED
  BY <1>7 DEF s, r

LEMMA RestOfWhole ==
    ASSUME NEW m \in Nat \ {0}, NEW a \in Nat
    PROVE  (m + a) % m = a % m
<1>1. m % m = 0
  <2>1. m * 1 + 0 = m /\ 0 \in 0..m - 1
    OBVIOUS
  <2> QED
    BY <2>1, RestUnique
<1>2. ((m % m) + a) % m = (m + a) % m
  BY RestOfSum
<1> QED
  BY <1>1, <1>2

(* After the last number comes the first: the units go on.                 *)
LEMMA NextNumber ==
    ASSUME NEW n \in 0..SeqModulus - 1, NEW k \in Nat
    PROVE  (((n + 1) % SeqModulus) * FrameSize + k) % Units = (n * FrameSize + FrameSize + k) % Units
<1> USE SizesPositive
<1>1. (n + 1) * FrameSize = n * FrameSize + FrameSize
  OBVIOUS
<1>2. CASE n + 1 < SeqModulus
  <2>1. SeqModulus * 0 + (n + 1) = n + 1 /\ n + 1 \in 0..SeqModulus - 1 /\ 0 \in Nat
    BY <1>2
  <2>2. (n + 1) % SeqModulus = n + 1
    BY <2>1, RestUnique
  <2> QED
    BY <1>1, <2>2
<1>3. CASE n + 1 = SeqModulus
  <2>1. SeqModulus * 1 + 0 = SeqModulus /\ 0 \in 0..SeqModulus - 1
    OBVIOUS
  <2>2. SeqModulus % SeqModulus = 0
    BY <2>1, RestUnique
  <2>3. (n + 1) % SeqModulus = 0
    BY <1>3, <2>2
  <2>4. ((n + 1) % SeqModulus) * FrameSize + k = k
    BY <2>3
  <2>5. n * FrameSize + FrameSize + k = Units + k
    BY <1>1, <1>3 DEF Units
  <2>6. (Units + k) % Units = k % Units
    BY RestOfWhole
  <2> QED
    BY <2>4, <2>5, <2>6
<1> QED
  BY <1>2, <1>3

-----------------------------------------------------------------------------
(* Where the units belong.                                                 *)

(* The number of the unit that comes k after the first of the next frame.  *)
Place(k) == (sequence * FrameSize + k) % Units

(* The buffer, the resampler and what is captured next follow one another; *)
(* without a resampler nothing is inside it.                               *)
StreamInv ==
    /\ sequence \in 0..SeqModulus - 1
    /\ \A i \in 1..Len(buffer) : buffer[i] = Place(i - 1)
    /\ \A i \in 1..Len(inside) : inside[i] = Place(Len(buffer) + i - 1)
    /\ phase \notin {"closed", "closing"} => nextUnit = Place(Len(buffer) + Len(inside))
    /\ phase \in {"closed", "closing", "opening", "opened"} => inside = <<>> /\ buffer = <<>>
    /\ ~resampling => inside = <<>>

(* Units in a row from the base on stay so when a packet is appended.      *)
LEMMA Appending ==
    ASSUME NEW s \in Seq(Nat), NEW base \in Nat, NEW n \in Nat, nextUnit \in Nat,
           \A i \in 1..Len(s) : s[i] = (base + (i - 1)) % Units,
           nextUnit = (base + Len(s)) % Units
    PROVE  /\ \A i \in 1..Len(s \o Numbered(n)) : (s \o Numbered(n))[i] = (base + (i - 1)) % Units
           /\ (nextUnit + n) % Units = (base + Len(s \o Numbered(n))) % Units
<1> DEFINE a == Len(s)
           t == Numbered(n)
<1>1. a \in Nat /\ Units \in Nat \ {0}
  BY SizesPositive
<1>2. t \in Seq(0..Units - 1) /\ Len(t) = n
  BY NumberedUnits
<1>3. t \in Seq(Nat)
  BY <1>1, <1>2
<1>4. /\ Len(s \o t) = a + n
      /\ \A i \in 1..a : (s \o t)[i] = s[i]
      /\ \A i \in 1..n : (s \o t)[a + i] = t[i]
  <2> HIDE DEF t
  <2>1. /\ Len(s \o t) = Len(s) + Len(t)
        /\ \A i \in 1..Len(s) : (s \o t)[i] = s[i]
        /\ \A i \in 1..Len(t) : (s \o t)[Len(s) + i] = t[i]
    BY <1>3, Concatenated
  <2> QED
    BY <1>2, <2>1
<1>5. ASSUME NEW b \in Nat PROVE (nextUnit + b) % Units = (base + a + b) % Units
  <2>1. base + a \in Nat
    BY <1>1
  <2>2. nextUnit = (base + a) % Units
    OBVIOUS
  <2> HIDE DEF a
  <2>3. (((base + a) % Units) + b) % Units = (base + a + b) % Units
    BY <1>1, <2>1, RestOfSum
  <2> QED
    BY <2>2, <2>3
<1>6. \A i \in 1..n : t[i] = (nextUnit + (i - 1)) % Units
  BY DEF Numbered
<1> HIDE DEF a, t
<1>7. ASSUME NEW i \in 1..a + n PROVE (s \o t)[i] = (base + (i - 1)) % Units
  <2>1. CASE i <= a
    BY <1>1, <1>4, <2>1 DEF a
  <2>2. CASE ~(i <= a)
    <3>1. PICK j \in 1..n : i = a + j
      <4>1. i - a \in 1..n /\ i = a + (i - a)
        BY <1>1, <2>2
      <4> QED
        BY <4>1
    <3>2. (s \o t)[i] = (nextUnit + (j - 1)) % Units
      BY <1>4, <1>6, <3>1
    <3>3. (nextUnit + (j - 1)) % Units = (base + a + (j - 1)) % Units
      <4>1. j - 1 \in Nat
        OBVIOUS
      <4> QED
        BY <4>1, <1>5
    <3>4. base + a + (j - 1) = base + (i - 1)
      BY <1>1, <3>1
    <3> QED
      BY <3>2, <3>3, <3>4
  <2> QED
    BY <2>1, <2>2
<1>8. (nextUnit + n) % Units = (base + Len(s \o t)) % Units
  <2>1. base + a + n = base + Len(s \o t)
    BY <1>1, <1>4
  <2> QED
    BY <1>5, <2>1
<1> QED
  BY <1>4, <1>7, <1>8 DEF t

LEMMA CaptureStreams ==
    ASSUME RestInv, StreamInv, Capture(Encoders)
    PROVE  StreamInv'
<1> USE SizesPositive
<1> DEFINE b == sequence * FrameSize
<1>1. b \in Nat /\ Len(buffer) \in Nat /\ Len(inside) \in Nat
  BY DEF RestInv
<1>2. phase = "idle" /\ phase' \notin {"closed", "closing", "opening", "opened"}
  BY DEF Capture
<1>3. resampling' = resampling /\ sequence' = sequence
  BY DEF Capture
<1>4. nextUnit = (b + (Len(buffer) + Len(inside))) % Units
  BY <1>2 DEF StreamInv, Place
<1>5. \A i \in 1..Len(buffer) : buffer[i] = (b + (i - 1)) % Units
  BY DEF StreamInv, Place
<1>6. \A i \in 1..Len(inside) : inside[i] = (b + (Len(buffer) + i - 1)) % Units
  BY DEF StreamInv, Place
<1>7. CASE Encoders = {}
  <2>1. inside' = inside /\ buffer' = buffer /\ nextUnit' = nextUnit
    BY <1>7 DEF Capture
  <2> QED
    BY <1>2, <1>3, <2>1 DEF StreamInv, Place
<1>8. CASE Encoders # {}
  <2>1. PICK n \in PacketSize :
          /\ nextUnit' = (nextUnit + (IF resampling THEN 2 ELSE 1) * n) % Units
          /\ IF resampling
             THEN inside' = inside \o Numbered(2 * n) /\ phase' = "resample" /\ buffer' = buffer
             ELSE buffer' = buffer \o Numbered(n) /\ phase' = "frames" /\ inside' = inside
    BY <1>8 DEF Capture
  <2>2. n \in Nat /\ 2 * n \in Nat
    BY AudioSourceAssumption
  <2>3. CASE resampling
    <3> DEFINE base == b + Len(buffer)
    <3>1. base \in Nat /\ inside \in Seq(Nat) /\ nextUnit \in Nat
      BY <1>1 DEF RestInv
    <3>2. \A i \in 1..Len(inside) : inside[i] = (base + (i - 1)) % Units
      <4>1. \A i \in 1..Len(inside) : b + (Len(buffer) + i - 1) = base + (i - 1)
        BY <1>1
      <4> QED
        BY <1>6, <4>1
    <3>3. nextUnit = (base + Len(inside)) % Units
      <4>1. b + (Len(buffer) + Len(inside)) = base + Len(inside)
        BY <1>1
      <4> QED
        BY <1>4, <4>1
    <3> HIDE DEF base
    <3>4. /\ \A i \in 1..Len(inside \o Numbered(2 * n)) :
               (inside \o Numbered(2 * n))[i] = (base + (i - 1)) % Units
          /\ (nextUnit + 2 * n) % Units = (base + Len(inside \o Numbered(2 * n))) % Units
      BY <2>2, <3>1, <3>2, <3>3, Appending
    <3>5. /\ \A i \in 1..Len(inside') : inside'[i] = (base + (i - 1)) % Units
          /\ nextUnit' = (base + Len(inside')) % Units
          /\ buffer' = buffer
      BY <2>1, <2>3, <3>4
    <3>6. Len(inside') \in Nat
      <4>1. Numbered(2 * n) \in Seq(Nat)
        <5>1. Numbered(2 * n) \in Seq(0..Units - 1)
          BY <2>2, <3>1, NumberedUnits
        <5> QED
          BY <5>1
      <4>2. inside \o Numbered(2 * n) \in Seq(Nat)
        BY <3>1, <4>1, Concatenated
      <4> QED
        BY <2>1, <2>3, <4>2
    <3>7. /\ \A i \in 1..Len(inside') : base + (i - 1) = b + (Len(buffer) + i - 1)
          /\ base + Len(inside') = b + (Len(buffer) + Len(inside'))
      BY <1>1, <3>6 DEF base
    <3>8. /\ \A i \in 1..Len(inside') : inside'[i] = (b + (Len(buffer') + i - 1)) % Units
          /\ nextUnit' = (b + (Len(buffer') + Len(inside'))) % Units
      BY <3>5, <3>7
    <3> QED
      BY <1>2, <1>3, <1>5, <2>3, <3>5, <3>8 DEF StreamInv, Place
  <2>4. CASE ~resampling
    <3>1. inside = <<>> /\ inside' = <<>> /\ Len(inside) = 0
      BY <2>1, <2>4 DEF StreamInv
    <3>2. nextUnit = (b + Len(buffer)) % Units
      BY <1>1, <1>4, <3>1
    <3>3. buffer \in Seq(Nat) /\ nextUnit \in Nat
      BY DEF RestInv
    <3> HIDE DEF b
    <3>4. /\ \A i \in 1..Len(buffer \o Numbered(n)) :
               (buffer \o Numbered(n))[i] = (b + (i - 1)) % Units
          /\ (nextUnit + n) % Units = (b + Len(buffer \o Numbered(n))) % Units
      <4>1. b \in Nat /\ n \in Nat /\ \A i \in 1..Len(buffer) : buffer[i] = (b + (i - 1)) % Units
        BY <1>1, <1>5, <2>2
      <4> QED
        BY <3>2, <3>3, <4>1, Appending
    <3>5. buffer' = buffer \o Numbered(n) /\ nextUnit' = (nextUnit + n) % Units
      BY <2>1, <2>2, <2>4
    <3>6. Len(buffer') \in Nat
      <4>1. Numbered(n) \in Seq(Nat)
        <5>1. Numbered(n) \in Seq(0..Units - 1)
          BY <2>2, <3>3, NumberedUnits
        <5> QED
          BY <5>1
      <4>2. buffer \o Numbered(n) \in Seq(Nat)
        BY <3>3, <4>1, Concatenated
      <4> QED
        BY <3>5, <4>2
    <3>7. /\ \A i \in 1..Len(buffer') : buffer'[i] = (b + (i - 1)) % Units
          /\ nextUnit' = (b + (Len(buffer') + Len(inside'))) % Units
      <4>1. b + (Len(buffer') + Len(inside')) = b + Len(buffer')
        BY <1>1, <3>1, <3>6
      <4> QED
        BY <3>4, <3>5, <4>1
    <3>8. \A i \in 1..Len(inside') : inside'[i] = (b + (Len(buffer') + i - 1)) % Units
      BY <3>1
    <3> QED
      BY <1>2, <1>3, <3>1, <3>7, <3>8 DEF StreamInv, Place, b
  <2> QED
    BY <2>3, <2>4
<1> QED
  BY <1>7, <1>8

LEMMA OutputStreams ==
    ASSUME RestInv, StreamInv, ProcessOutput
    PROVE  StreamInv'
<1> USE SizesPositive
<1> DEFINE b == sequence * FrameSize
           n == Min2(MaxOutput, Len(inside) - Latency)
           a == Len(buffer)
           front == SubSeq(inside, 1, n)
<1>1. b \in Nat /\ a \in Nat /\ Len(inside) \in Nat
  BY DEF RestInv
<1>2. CASE Len(inside) <= Latency
  BY <1>2 DEF ProcessOutput, StreamInv, Place
<1>3. CASE ~(Len(inside) <= Latency)
  <2>1. n \in 0..Len(inside)
    BY <1>1, <1>3, OutputOfRound
  <2>2. /\ buffer' = buffer \o front
        /\ inside' = SubSeq(inside, n + 1, Len(inside))
        /\ phase' = phase /\ phase = "resample"
        /\ resampling' = resampling /\ nextUnit' = nextUnit /\ sequence' = sequence
    BY <1>3 DEF ProcessOutput
  <2>3. inside # <<>>
    BY <1>1, <1>3
  <2>4. resampling
    BY <2>3 DEF StreamInv
  <2>5. /\ \A i \in 1..a : buffer[i] = (b + (i - 1)) % Units
        /\ \A i \in 1..Len(inside) : inside[i] = (b + (a + i - 1)) % Units
        /\ nextUnit = (b + (a + Len(inside))) % Units
    BY <2>2 DEF StreamInv, Place
  <2>6. inside \in Seq(Nat) /\ buffer \in Seq(Nat)
    BY DEF RestInv
  <2> HIDE DEF n, b
  <2>7. /\ front \in Seq(Nat) /\ Len(front) = n
        /\ \A i \in 1..n : front[i] = inside[i]
        /\ Len(inside') = Len(inside) - n
        /\ \A i \in 1..Len(inside) - n : inside'[i] = inside[n + i]
    <3> DEFINE rest == SubSeq(inside, n + 1, Len(inside))
    <3>1. /\ front \in Seq(Nat) /\ Len(front) = n
          /\ \A i \in 1..n : front[i] = inside[i]
          /\ Len(rest) = Len(inside) - n
          /\ \A i \in 1..Len(inside) - n : rest[i] = inside[n + i]
      <4>1. inside \in Seq(Nat) /\ n \in 0..Len(inside)
        BY <2>1, <2>6
      <4>2. front = SubSeq(inside, 1, n)
        OBVIOUS
      <4> HIDE DEF front, rest
      <4> QED
        BY <4>1, <4>2, Cut DEF rest
    <3> HIDE DEF rest, front
    <3>2. inside' = rest
      BY <2>2 DEF rest
    <3> QED
      BY <3>1, <3>2
  <2> HIDE DEF front
  <2>8. /\ Len(buffer') = a + n
        /\ \A i \in 1..a : buffer'[i] = buffer[i]
        /\ \A i \in 1..n : buffer'[a + i] = front[i]
    <3>1. /\ Len(buffer \o front) = Len(buffer) + Len(front)
          /\ \A i \in 1..Len(buffer) : (buffer \o front)[i] = buffer[i]
          /\ \A i \in 1..Len(front) : (buffer \o front)[Len(buffer) + i] = front[i]
      <4>1. buffer \in Seq(Nat) /\ front \in Seq(Nat)
        BY <2>6, <2>7
      <4> QED
        BY <4>1, Concatenated
    <3> QED
      BY <2>2, <2>7, <3>1
  <2> HIDE DEF a
  <2>9. ASSUME NEW i \in 1..Len(buffer') PROVE buffer'[i] = (b + (i - 1)) % Units
    <3>1. CASE i <= a
      <4>1. i \in 1..a
        BY <1>1, <2>1, <2>8, <3>1
      <4> QED
        BY <2>5, <2>8, <4>1
    <3>2. CASE ~(i <= a)
      <4>1. PICK j \in 1..n : i = a + j
        <5>1. i - a \in 1..n /\ i = a + (i - a)
          BY <1>1, <2>1, <2>8, <3>2
        <5> QED
          BY <5>1
      <4>2. buffer'[i] = inside[j]
        BY <2>7, <2>8, <4>1
      <4>3. j \in 1..Len(inside) /\ a + j - 1 = i - 1
        BY <1>1, <2>1, <4>1
      <4> QED
        BY <2>5, <4>2, <4>3
    <3> QED
      BY <3>1, <3>2
  <2>10. ASSUME NEW i \in 1..Len(inside') PROVE inside'[i] = (b + (Len(buffer') + i - 1)) % Units
    <3>1. i \in 1..Len(inside) - n
      BY <2>7
    <3>2. n + i \in 1..Len(inside) /\ a + (n + i) - 1 = Len(buffer') + i - 1
      BY <1>1, <2>1, <2>8, <3>1
    <3> QED
      BY <2>5, <2>7, <3>1, <3>2
  <2>11. a + Len(inside) = Len(buffer') + Len(inside')
    BY <1>1, <2>1, <2>7, <2>8
  <2>12. nextUnit' = (b + (Len(buffer') + Len(inside'))) % Units
    BY <2>2, <2>5, <2>11
  <2> QED
    BY <2>2, <2>4, <2>9, <2>10, <2>12 DEF StreamInv, Place, b
<1> QED
  BY <1>2, <1>3

LEMMA FrameStreams ==
    ASSUME RestInv, StreamInv, NextFrame
    PROVE  StreamInv'
<1> USE SizesPositive
<1> DEFINE b == sequence * FrameSize
           c == sequence' * FrameSize
<1>1. b \in Nat /\ Len(buffer) \in Nat /\ Len(inside) \in Nat /\ FrameSize \in 0..Len(buffer)
  BY DEF RestInv, NextFrame
<1>2. sequence' = (sequence + 1) % SeqModulus /\ sequence' \in 0..SeqModulus - 1
  <2>1. sequence + 1 \in Nat
    BY DEF RestInv
  <2> QED
    BY <2>1, Division DEF NextFrame
<1>3. \A k \in Nat : (c + k) % Units = (b + FrameSize + k) % Units
  BY <1>2, NextNumber DEF StreamInv
<1>4. /\ phase' = phase /\ phase = "frames" /\ inside' = inside /\ nextUnit' = nextUnit
      /\ resampling' = resampling
      /\ buffer' = SubSeq(buffer, FrameSize + 1, Len(buffer))
  BY DEF NextFrame
<1>5. /\ Len(buffer') = Len(buffer) - FrameSize
      /\ \A i \in 1..Len(buffer) - FrameSize : buffer'[i] = buffer[FrameSize + i]
  BY <1>1, <1>4, Cut DEF RestInv
<1>6. /\ \A i \in 1..Len(buffer) : buffer[i] = (b + (i - 1)) % Units
      /\ \A i \in 1..Len(inside) : inside[i] = (b + (Len(buffer) + i - 1)) % Units
      /\ nextUnit = (b + (Len(buffer) + Len(inside))) % Units
  BY <1>4 DEF StreamInv, Place
<1> HIDE DEF b, c
<1>7. ASSUME NEW i \in 1..Len(buffer') PROVE buffer'[i] = (c + (i - 1)) % Units
  <2>1. FrameSize + i \in 1..Len(buffer) /\ i \in 1..Len(buffer) - FrameSize /\ i - 1 \in Nat
    BY <1>1, <1>5
  <2>2. b + (FrameSize + i - 1) = b + FrameSize + (i - 1)
    BY <1>1, <2>1
  <2> QED
    BY <1>3, <1>5, <1>6, <2>1, <2>2
<1>8. ASSUME NEW i \in 1..Len(inside) PROVE inside'[i] = (c + (Len(buffer') + i - 1)) % Units
  <2>1. Len(buffer') + i - 1 \in Nat
    BY <1>1, <1>5
  <2>2. b + (Len(buffer) + i - 1) = b + FrameSize + (Len(buffer') + i - 1)
    BY <1>1, <1>5
  <2> QED
    BY <1>3, <1>4, <1>6, <2>1, <2>2
<1>9. nextUnit' = (c + (Len(buffer') + Len(inside'))) % Units
  <2>1. Len(buffer') + Len(inside) \in Nat
    BY <1>1, <1>5
  <2>2. b + (Len(buffer) + Len(inside)) = b + FrameSize + (Len(buffer') + Len(inside))
    BY <1>1, <1>5
  <2> QED
    BY <1>3, <1>4, <1>6, <2>1, <2>2
<1> QED
  BY <1>2, <1>4, <1>7, <1>8, <1>9 DEF StreamInv, Place, c

(* The first unit of a frame has a number.                                 *)
LEMMA StreamBegins ==
    ASSUME RestInv, StreamInv
    PROVE  sequence * FrameSize \in 0..Units - 1
<1> USE SizesPositive
<1>1. (sequence + 1) * FrameSize = sequence * FrameSize + FrameSize
  BY DEF RestInv
<1>2. sequence + 1 <= SeqModulus
  BY DEF StreamInv
<1>3. \A x, y \in Nat : x <= y => x * FrameSize <= y * FrameSize
  OBVIOUS
<1>4. (sequence + 1) * FrameSize <= Units
  BY <1>2, <1>3 DEF Units, RestInv
<1> QED
  BY <1>1, <1>4 DEF RestInv

LEMMA StreamNext == RestInv /\ StreamInv /\ [Next]_vars => StreamInv'
<1> SUFFICES ASSUME RestInv, StreamInv, [Next]_vars PROVE StreamInv'
  OBVIOUS
<1> USE SizesPositive
<1>1. CASE Open
  <2>1. /\ inside' = <<>> /\ buffer' = <<>> /\ sequence' = sequence /\ phase' = "opening"
        /\ nextUnit' = sequence * FrameSize
    BY <1>1 DEF Open, Closed, StreamInv
  <2>2. sequence * FrameSize \in 0..Units - 1
    BY StreamBegins
  <2>3. Units * 0 + sequence * FrameSize = sequence * FrameSize
    BY <2>2
  <2>4. (sequence * FrameSize) % Units = sequence * FrameSize
    BY <2>2, <2>3, RestUnique
  <2>5. sequence * FrameSize + (0 + 0) = sequence * FrameSize
    BY <2>2
  <2> QED
    BY <2>1, <2>4, <2>5 DEF StreamInv, Place
<1>2. CASE Acquire \/ ReleaseLocals \/ OpenResampler \/ Start
  BY <1>2 DEF Acquire, ReleaseLocals, OpenResampler, Start, Stream, StreamInv, Place
<1>3. CASE FramesDone \/ ReleasePacket \/ Release
  BY <1>3 DEF FramesDone, ReleasePacket, Release, Stream, StreamInv, Place
<1>4. CASE Fail
  BY <1>4 DEF Fail, StreamInv, Place
<1>5. CASE UNCHANGED audioVars
  BY <1>5 DEF audioVars, StreamInv, Place
<1> QED
  BY <1>1, <1>2, <1>3, <1>4, <1>5, CaptureStreams, OutputStreams, FrameStreams
     DEF Next, AudioNext, SendFrame, EncodeFails, vars

-----------------------------------------------------------------------------
(* The datagram of a frame.                                                *)

Fits16(n) == n < 65536
Fits32(n) == n \div 16777216 < 256

LEMMA Written32 ==
    ASSUME NEW d \in Seq(Nat), NEW o \in Nat, o + 4 <= Len(d), NEW v \in Nat, Fits32(v)
    PROVE  LET w == writeUInt32B(v, d, o)
           IN  /\ w \in Seq(Nat) /\ Len(w) = Len(d)
               /\ readUInt32B(w, o) = v
               /\ \A j \in 1..Len(d) : ~(o < j /\ j <= o + 4) => w[j] = d[j]
<1> DEFINE a == (v \div 16777216) % 256
           b == (v \div 65536) % 256
           x == (v \div 256) % 256
           y == v % 256
           p == o + 1
           q == o + 2
           r == o + 3
           t == o + 4
           w1 == [d EXCEPT ![p] = a]
           w2 == [w1 EXCEPT ![q] = b]
           w3 == [w2 EXCEPT ![r] = x]
           w4 == [w3 EXCEPT ![t] = y]
<1>1. p \in 1..Len(d) /\ q \in 1..Len(d) /\ r \in 1..Len(d) /\ t \in 1..Len(d)
  OBVIOUS
<1>1a. p # q /\ p # r /\ p # t /\ q # r /\ q # t /\ r # t
  OBVIOUS
<1>2. a \in Nat /\ b \in Nat /\ x \in Nat /\ y \in Nat
  OBVIOUS
<1>3. a * 16777216 + b * 65536 + x * 256 + y = v
  BY SMT DEF Fits32
<1>4. writeUInt32B(v, d, o) = w4
  BY SMT DEF writeUInt32B
<1>5. \A j \in 1..Len(d) : ~(o < j /\ j <= o + 4) => j \notin {p, q, r, t}
  OBVIOUS
<1>6. readUInt32B(w4, o) = w4[p] * 16777216 + w4[q] * 65536 + w4[r] * 256 + w4[t]
  BY SMT DEF readUInt32B
<1> HIDE DEF a, b, x, y, p, q, r, t
<1>7. /\ w1 \in Seq(Nat) /\ Len(w1) = Len(d)
      /\ \A j \in 1..Len(d) : w1[j] = IF j = p THEN a ELSE d[j]
  BY <1>1, <1>2, ExceptSeq
<1> HIDE DEF w1
<1>8. /\ w2 \in Seq(Nat) /\ Len(w2) = Len(d)
      /\ \A j \in 1..Len(d) : w2[j] = IF j = q THEN b ELSE w1[j]
  <2>1. w1 \in Seq(Nat) /\ q \in 1..Len(w1)
    BY <1>1, <1>7
  <2>2. /\ w2 \in Seq(Nat) /\ Len(w2) = Len(w1)
        /\ \A j \in 1..Len(w1) : w2[j] = IF j = q THEN b ELSE w1[j]
    BY <1>2, <2>1, ExceptSeq
  <2> QED
    BY <1>7, <2>2
<1> HIDE DEF w2
<1>9. /\ w3 \in Seq(Nat) /\ Len(w3) = Len(d)
      /\ \A j \in 1..Len(d) : w3[j] = IF j = r THEN x ELSE w2[j]
  <2>1. w2 \in Seq(Nat) /\ r \in 1..Len(w2)
    BY <1>1, <1>8
  <2>2. /\ w3 \in Seq(Nat) /\ Len(w3) = Len(w2)
        /\ \A j \in 1..Len(w2) : w3[j] = IF j = r THEN x ELSE w2[j]
    BY <1>2, <2>1, ExceptSeq
  <2> QED
    BY <1>8, <2>2
<1> HIDE DEF w3
<1>10. /\ w4 \in Seq(Nat) /\ Len(w4) = Len(d)
       /\ \A j \in 1..Len(d) : w4[j] = IF j = t THEN y ELSE w3[j]
  <2>1. w3 \in Seq(Nat) /\ t \in 1..Len(w3)
    BY <1>1, <1>9
  <2>2. /\ w4 \in Seq(Nat) /\ Len(w4) = Len(w3)
        /\ \A j \in 1..Len(w3) : w4[j] = IF j = t THEN y ELSE w3[j]
    BY <1>2, <2>1, ExceptSeq
  <2> QED
    BY <1>9, <2>2
<1> HIDE DEF w4
<1>11. w4[p] = a /\ w4[q] = b /\ w4[r] = x /\ w4[t] = y
  BY <1>1, <1>1a, <1>7, <1>8, <1>9, <1>10
<1>12. \A j \in 1..Len(d) : j \notin {p, q, r, t} => w4[j] = d[j]
  BY <1>7, <1>8, <1>9, <1>10
<1>13. readUInt32B(w4, o) = v
  BY SMT, <1>3, <1>6, <1>11
<1> QED
  BY <1>4, <1>5, <1>10, <1>12, <1>13

(* The header, the number and the data are read back as written.           *)
LEMMA AudioPacketReads ==
    ASSUME NEW category \in Byte, NEW number \in Nat, Fits32(number),
           NEW data \in Seq(Nat), Fits16(audioDataOffset + Len(data))
    PROVE  LET packet == createAudioPacket(category, number, data)
           IN  /\ packet \in Seq(Nat) /\ Len(packet) = audioDataOffset + Len(data)
               /\ getPacketCategory(packet) = category
               /\ readUInt16B(packet, sizeOffset) = Len(packet)
               /\ readUInt32B(packet, dataOffset) = number
               /\ \A i \in 1..Len(data) : packet[audioDataOffset + i] = data[i]
<1> DEFINE n == Len(data)
           blank == Zeros(9) \o data
           headed == writeHeader(category, blank)
           packet == writeUInt32B(number, headed, 5)
<1>1. n \in Nat /\ Fits16(9 + n)
  BY DEF audioDataOffset, dataOffset, headerSize
<1>2. createAudioPacket(category, number, data) = packet
  BY SMT DEF createAudioPacket, audioDataOffset, dataOffset, headerSize
<1>3. /\ blank \in Seq(Nat) /\ Len(blank) = 9 + n
      /\ \A i \in 1..n : blank[9 + i] = data[i]
  <2>1. Zeros(9) \in Seq(Nat) /\ Len(Zeros(9)) = 9
    BY DEF Zeros
  <2>2. /\ blank \in Seq(Nat) /\ Len(blank) = Len(Zeros(9)) + Len(data)
        /\ \A i \in 1..Len(data) : blank[Len(Zeros(9)) + i] = data[i]
    <3> HIDE DEF n
    <3> QED
      BY <2>1, Concatenated
  <2> HIDE DEF blank
  <2> QED
    BY <2>1, <2>2
<1> HIDE DEF n, blank
<1>4. /\ headed \in Seq(Nat) /\ Len(headed) = 9 + n
      /\ headed[1] = 165 /\ headed[2] = 113 /\ headed[3] = category
      /\ headed[4] * 256 + headed[5] = 9 + n
      /\ \A j \in 6..9 + n : headed[j] = blank[j]
  <2>1. blank \in Seq(Nat) /\ headerSize <= Len(blank)
    BY <1>1, <1>3 DEF headerSize
  <2>2. /\ headed \in Seq(Nat) /\ Len(headed) = Len(blank)
        /\ headed[1] = 165 /\ headed[2] = 113 /\ headed[3] = category
        /\ headed[4] * 256 + headed[5] = Len(blank) % 65536
        /\ \A j \in 6..Len(blank) : headed[j] = blank[j]
    BY <2>1, HeaderWritten
  <2> HIDE DEF headed
  <2>3. (9 + n) % 65536 = 9 + n
    BY <1>1 DEF Fits16
  <2> QED
    BY <1>3, <2>2, <2>3
<1> HIDE DEF headed
<1>5. /\ packet \in Seq(Nat) /\ Len(packet) = 9 + n
      /\ readUInt32B(packet, 5) = number
      /\ \A j \in 1..9 + n : j \notin {6, 7, 8, 9} => packet[j] = headed[j]
  <2>1. headed \in Seq(Nat) /\ 5 \in Nat /\ 5 + 4 <= Len(headed)
    BY <1>1, <1>4
  <2>2. /\ packet \in Seq(Nat) /\ Len(packet) = Len(headed)
        /\ readUInt32B(packet, 5) = number
        /\ \A j \in 1..Len(headed) : ~(5 < j /\ j <= 5 + 4) => packet[j] = headed[j]
    BY <2>1, Written32
  <2> QED
    BY <1>4, <2>2
<1> HIDE DEF packet
<1>6. /\ packet[1] = 165 /\ packet[2] = 113 /\ packet[3] = category
      /\ packet[4] = headed[4] /\ packet[5] = headed[5]
  BY <1>1, <1>4, <1>5
<1>7. \A i \in 1..n : packet[9 + i] = data[i]
  <2>1. \A i \in 1..n : 9 + i \in 6..9 + n /\ 9 + i > 9
    BY <1>1
  <2> QED
    BY <1>3, <1>4, <1>5, <2>1
<1>8. getPacketCategory(packet) = category
  BY <1>1, <1>5, <1>6 DEF getPacketCategory, readUInt16B, readUInt8, headerSize, signatureOffset,
         categoryOffset, protocolSignature
<1>9. readUInt16B(packet, 3) = 9 + n
  BY <1>4, <1>6 DEF readUInt16B
<1> QED
  BY <1>2, <1>5, <1>7, <1>8, <1>9 DEF audioDataOffset, dataOffset, headerSize, sizeOffset, n

LEMMA Reversed ==
    ASSUME NEW s \in Seq(Nat)
    PROVE  Reverse(s) \in Seq(Nat) /\ Len(Reverse(s)) = Len(s) /\ Reverse(Reverse(s)) = s
<1> DEFINE n == Len(s)
           t == [i \in 1..n |-> s[n - i + 1]]
           u == [i \in 1..n |-> t[n - i + 1]]
<1>1. n \in Nat /\ Reverse(s) = t
  BY DEF Reverse
<1>2. \A i \in 1..n : n - i + 1 \in 1..n /\ n - (n - i + 1) + 1 = i
  BY <1>1
<1>3. t \in Seq(Nat) /\ Len(t) = n
  BY <1>1, <1>2
<1>4. Reverse(t) = u
  BY <1>3 DEF Reverse
<1> HIDE DEF n
<1>5. \A i \in 1..n : u[i] = s[i]
  BY <1>2
<1>6. s = [i \in 1..n |-> s[i]]
  BY DEF n
<1>7. u = s
  BY <1>5, <1>6
<1> QED
  BY <1>1, <1>3, <1>4, <1>7 DEF n

(* What the phone makes of the datagram of the frame at the front.         *)
LEMMA FrameHeard ==
    ASSUME RestInv, StreamInv, phase = "frames", Len(buffer) >= FrameSize
    PROVE  /\ PhoneReadsAudio(AudioPacket).units
                = [i \in 1..FrameSize |->
                     (PhoneReadsAudio(AudioPacket).number * FrameSize + i - 1) % Units]
           /\ PhoneReadsAudio(AudioPacket).size = audioDataOffset + FrameSize
<1> DEFINE units == SubSeq(buffer, 1, FrameSize)
           data == IF format = 0 THEN units ELSE Reverse(units)
           category == categoryOf(format)
           packet == createAudioPacket(category, sequence, data)
           read == SubSeq(packet, audioDataOffset + 1, Len(packet))
<1>1. FrameSize \in 0..Len(buffer) /\ sequence \in Nat /\ audioDataOffset = 9
  BY SizesPositive DEF RestInv, audioDataOffset, dataOffset, headerSize
<1>2. AudioPacket = packet
  BY DEF AudioPacket, Encoded
<1>3. /\ units \in Seq(Nat) /\ Len(units) = FrameSize
      /\ \A i \in 1..FrameSize : units[i] = buffer[i]
  BY <1>1, Cut DEF RestInv
<1>4. \A i \in 1..FrameSize : buffer[i] = (sequence * FrameSize + i - 1) % Units
  <2>1. \A i \in 1..FrameSize : i \in 1..Len(buffer) /\ buffer[i] = (sequence * FrameSize + (i - 1)) % Units
    BY <1>1 DEF StreamInv, Place, RestInv
  <2>2. sequence * FrameSize \in Nat
    BY <1>1, SizesPositive
  <2>3. \A i \in 1..FrameSize : sequence * FrameSize + (i - 1) = sequence * FrameSize + i - 1
    BY <2>2
  <2> QED
    BY <2>1, <2>3
<1> HIDE DEF units
<1>5. data \in Seq(Nat) /\ Len(data) = FrameSize
  BY <1>3, Reversed
<1>6. category \in Byte /\ (category = 33 <=> format # 0)
  BY DEF categoryOf, Category, Byte
<1>7. Fits16(audioDataOffset + FrameSize) /\ Fits32(sequence)
  <2>1. Fits16(audioDataOffset + FrameSize)
    BY PathAssumption DEF Fits16
  <2>2. sequence <= SeqModulus - 1 /\ SeqModulus - 1 \in Nat
    BY SizesPositive DEF StreamInv
  <2>3. \A x, y \in Nat : x <= y => x \div 16777216 <= y \div 16777216
    BY SMT
  <2>4. sequence \div 16777216 < 256
    BY SMT, <1>1, <2>2, <2>3, PathAssumption
  <2> QED
    BY <2>1, <2>4 DEF Fits32
<1> HIDE DEF data, category
<1>8. /\ packet \in Seq(Nat) /\ Len(packet) = audioDataOffset + FrameSize
      /\ getPacketCategory(packet) = category
      /\ readUInt16B(packet, sizeOffset) = Len(packet)
      /\ readUInt32B(packet, dataOffset) = sequence
      /\ \A i \in 1..FrameSize : packet[audioDataOffset + i] = data[i]
  <2>1. Fits16(audioDataOffset + Len(data))
    BY <1>5, <1>7
  <2> QED
    BY <1>1, <1>5, <1>6, <1>7, <2>1, AudioPacketReads
<1> HIDE DEF packet
<1>9. read = data
  <2>1. audioDataOffset \in 0..Len(packet) /\ Len(packet) - audioDataOffset = FrameSize
    BY <1>1, <1>8, SizesPositive
  <2>2. /\ read \in Seq(Nat) /\ Len(read) = FrameSize
        /\ \A i \in 1..FrameSize : read[i] = packet[audioDataOffset + i]
    BY <1>8, <2>1, Cut
  <2>3. \A i \in 1..FrameSize : read[i] = data[i]
    BY <1>1, <1>8, <2>2
  <2> HIDE DEF read
  <2> QED
    BY <1>5, <2>2, <2>3, SeqEqual
<1> HIDE DEF read
<1>10. PhoneReadsAudio(packet) =
          [number |-> sequence, size |-> audioDataOffset + FrameSize, units |-> units]
  <2>1. (IF getPacketCategory(packet) = Category.AudioDataOpus THEN Reverse(read) ELSE read) = units
    <3>1. Category.AudioDataOpus = 33
      BY DEF Category
    <3>2. CASE format = 0
      BY <1>6, <1>8, <1>9, <3>1, <3>2 DEF data
    <3>3. CASE format # 0
      BY <1>3, <1>6, <1>8, <1>9, <3>1, <3>3, Reversed DEF data
    <3> QED
      BY <3>2, <3>3
  <2> QED
    BY <1>8, <2>1 DEF PhoneReadsAudio, read
<1>11. units = [i \in 1..FrameSize |-> (sequence * FrameSize + i - 1) % Units]
  <2>1. units = [i \in 1..FrameSize |-> units[i]]
    BY <1>3
  <2> QED
    BY <1>3, <1>4, <2>1
<1> QED
  BY <1>2, <1>10, <1>11

LEMMA HeardNext == RestInv /\ StreamInv /\ [Next]_vars /\ NumberTellsPlace => NumberTellsPlace'
<1> SUFFICES ASSUME RestInv, StreamInv, [Next]_vars, NumberTellsPlace PROVE NumberTellsPlace'
  OBVIOUS
<1>1. CASE SendFrame \/ EncodeFails
  <2>1. phase = "frames" /\ Len(buffer) >= FrameSize
    BY <1>1 DEF SendFrame, NextFrame, EncodeFails
  <2>2. heard' = NoData \/ heard' = PhoneReadsAudio(AudioPacket)
    BY <1>1 DEF SendFrame, EncodeFails
  <2> QED
    BY <2>1, <2>2, FrameHeard DEF NumberTellsPlace
<1>2. CASE heard' = NoData
  BY <1>2 DEF NumberTellsPlace
<1>3. CASE UNCHANGED vars
  BY <1>3 DEF vars, NumberTellsPlace
<1> QED
  BY <1>1, <1>2, <1>3 DEF Next

(* Whatever the sizes, the formats, the losses and the failures, a frame   *)
(* that is heard carries the number of its place in the stream, and its    *)
(* datagram is as long as it says, after the numbers have come round too.  *)
THEOREM NumberAlwaysTellsPlace == Spec => []NumberTellsPlace
<1> DEFINE Inv == RestInv /\ StreamInv /\ NumberTellsPlace
<1>1. Init => Inv
  <2>1. ASSUME Init PROVE sequence \in 0..SeqModulus - 1
    BY <2>1, SizesPositive, Division DEF Init, AudioInit
  <2> QED
    BY <2>1, SizesPositive DEF Init, AudioInit, RestInv, StreamInv, NumberTellsPlace
<1>2. Inv /\ [Next]_vars => Inv'
  BY RestNext, StreamNext, HeardNext
<1>3. Inv => NumberTellsPlace
  OBVIOUS
<1> QED
  BY <1>1, <1>2, <1>3, PTL DEF Spec

-----------------------------------------------------------------------------
(* The type of the state.                                                  *)

(* What of it no other invariant has.                                      *)
TypeInv ==
    /\ datagram \in [1..InputPacketSize -> Byte]
    /\ format \in Compression \cup {NotRegistered}
    /\ held \subseteq ToSet(OpeningOrder) \cup {"transform", "stream", "packet"}
    /\ resampling \in BOOLEAN
    /\ nextUnit \in 0..Units - 1

LEMMA TypeNext == RestInv /\ StreamInv /\ TypeInv /\ [Next]_vars => TypeInv'
<1> SUFFICES ASSUME RestInv, StreamInv, TypeInv, [Next]_vars PROVE TypeInv'
  OBVIOUS
<1> USE SizesPositive
<1> DEFINE Devices == ToSet(OpeningOrder) \cup {"transform", "stream", "packet"}
<1>1. CASE WireNext /\ UNCHANGED audioVars
  <2>1. PICK r \in Request : Receive(r)
    BY <1>1 DEF WireNext
  <2> QED
    BY <1>1, <2>1, RegistersKnown, BufferHoldsBytes DEF TypeInv, audioVars
<1>2. CASE Open /\ UNCHANGED wireVars
  <2>1. nextUnit' \in 0..Units - 1
    BY <1>2, StreamBegins DEF Open
  <2> QED
    BY <1>2, <2>1 DEF Open, TypeInv, wireVars
<1>3. CASE Acquire /\ UNCHANGED wireVars
  <2>1. PICK i \in 1..Len(OpeningOrder) : held' = held \cup {OpeningOrder[i]}
    BY <1>3 DEF Acquire
  <2>2. OpeningOrder[i] \in Devices
    BY DEF ToSet, OpeningOrder
  <2>3. held' \subseteq Devices
    BY <2>1, <2>2 DEF TypeInv
  <2>4. resampling' \in BOOLEAN
    BY <1>3 DEF Acquire, TypeInv
  <2> HIDE DEF Devices
  <2> QED
    BY <1>3, <2>3, <2>4 DEF Acquire, Stream, TypeInv, wireVars, Devices
<1>4. CASE /\ ReleaseLocals \/ OpenResampler \/ Start \/ FramesDone \/ ReleasePacket \/ Release
           /\ UNCHANGED wireVars
  <2>1. held' \subseteq Devices
    BY <1>4 DEF ReleaseLocals, OpenResampler, Start, FramesDone, ReleasePacket, Release, TypeInv
  <2>2. UNCHANGED <<resampling, nextUnit, wireVars>>
    BY <1>4 DEF ReleaseLocals, OpenResampler, Start, FramesDone, ReleasePacket, Release, Stream
  <2> HIDE DEF Devices
  <2> QED
    BY <2>1, <2>2 DEF TypeInv, wireVars, Devices
<1>5. CASE Capture(Encoders) /\ UNCHANGED wireVars
  <2>1. held' \subseteq Devices /\ resampling' = resampling
    BY <1>5 DEF Capture, TypeInv
  <2>2. nextUnit' \in 0..Units - 1
    <3>1. CASE Encoders = {}
      BY <1>5, <3>1 DEF Capture, TypeInv
    <3>2. CASE Encoders # {}
      <4>1. PICK n \in PacketSize :
              nextUnit' = (nextUnit + (IF resampling THEN 2 ELSE 1) * n) % Units
        BY <1>5, <3>2 DEF Capture
      <4>2. n \in Nat /\ nextUnit \in Nat
        BY AudioSourceAssumption DEF RestInv
      <4>3. nextUnit + (IF resampling THEN 2 ELSE 1) * n \in Nat
        BY <4>2
      <4> QED
        BY <4>1, <4>3, Division
    <3> QED
      BY <3>1, <3>2
  <2> HIDE DEF Devices
  <2> QED
    BY <1>5, <2>1, <2>2 DEF TypeInv, wireVars, Devices
<1>6. CASE Fail /\ UNCHANGED wireVars
  <2>1. 0 \in 0..Units - 1
    OBVIOUS
  <2> QED
    BY <1>6, <2>1 DEF Fail, TypeInv, wireVars
<1>7. CASE UNCHANGED <<wireVars, held, resampling, nextUnit>>
  BY <1>7 DEF TypeInv, wireVars
<1> QED
  BY <1>1, <1>2, <1>3, <1>4, <1>5, <1>6, <1>7
     DEF Next, AudioNext, ProcessOutput, NextFrame, SendFrame, EncodeFails, vars, audioVars

(* The units in the resampler and in the buffer have numbers because they  *)
(* follow one another.                                                     *)
LEMMA TypeImplied == DeviceInv /\ RestInv /\ StreamInv /\ TypeInv => TypeOK
<1> SUFFICES ASSUME DeviceInv, RestInv, StreamInv, TypeInv PROVE TypeOK
  OBVIOUS
<1> USE SizesPositive
<1>1. ASSUME NEW k \in Nat PROVE Place(k) \in 0..Units - 1
  <2>1. sequence * FrameSize + k \in Nat
    BY DEF RestInv
  <2> QED
    BY <2>1, Division DEF Place
<1>2. \A u \in ToSet(buffer) : u \in 0..Units - 1
  <2>1. \A i \in 1..Len(buffer) : i - 1 \in Nat
    OBVIOUS
  <2>2. \A i \in 1..Len(buffer) : buffer[i] \in 0..Units - 1
    BY <1>1, <2>1 DEF StreamInv
  <2> QED
    BY <2>2 DEF ToSet, RestInv
<1>3. \A u \in ToSet(inside) : u \in 0..Units - 1
  <2>1. \A i \in 1..Len(inside) : Len(buffer) + i - 1 \in Nat
    BY DEF RestInv
  <2>2. \A i \in 1..Len(inside) : inside[i] \in 0..Units - 1
    BY <1>1, <2>1 DEF StreamInv
  <2> QED
    BY <2>2 DEF ToSet, RestInv
<1>4. sequence \in 0..SeqModulus - 1
  BY DEF StreamInv
<1>5. phase \in {"closed", "opening", "opened", "idle", "resample", "frames", "release", "closing"}
  BY DEF DeviceInv
<1> QED
  BY <1>2, <1>3, <1>4, <1>5 DEF TypeInv, TypeOK

(* Whatever requests arrive and whatever the device does, the buffer of    *)
(* Server::receive holds bytes, the phone is registered with a compression *)
(* that the server knows, and the audio's units and frames are numbered in *)
(* their range.                                                            *)
THEOREM PathTypeCorrect == Spec => []TypeOK
<1>1. Init => DeviceInv /\ RestInv /\ StreamInv /\ TypeInv
  <2> SUFFICES ASSUME Init PROVE DeviceInv /\ RestInv /\ StreamInv /\ TypeInv
    OBVIOUS
  <2>1. DeviceInv
    BY DEF Init, AudioInit, DeviceInv
  <2>2. RestInv
    BY SizesPositive DEF Init, AudioInit, RestInv
  <2>3. StreamInv
    BY SizesPositive, Division DEF Init, AudioInit, StreamInv, Place
  <2>4. TypeInv
    <3>1. 0 \in 0..Units - 1 /\ 0 \in Byte
      BY SizesPositive DEF Byte
    <3> QED
      BY <3>1 DEF Init, WireInit, AudioInit, TypeInv, Zeros
  <2> QED
    BY <2>1, <2>2, <2>3, <2>4
<1> QED
  BY <1>1, DeviceNext, RestNext, StreamNext, TypeNext, TypeImplied, PTL DEF Spec

-----------------------------------------------------------------------------
(* The requests.                                                           *)

(* Path implements Requests: whatever the buffer of Server::receive still  *)
(* holds of earlier datagrams, the server does with the bytes of each what *)
(* its request meant.                                                      *)
THEOREM AlwaysReadsAsWritten == Spec => ReadsAsWritten
<1>1. Init => R!Init
  BY WireInitStarts DEF Init
<1>2. [Next]_vars => [R!Next]_(R!vars)
  <2>1. Next \/ UNCHANGED vars => WireNext \/ UNCHANGED wireVars
    BY DEF Next, SendFrame, EncodeFails, vars
  <2> QED
    BY <2>1, WireNextServes, WireStutters
<1> QED
  BY <1>1, <1>2, PTL DEF Spec, ReadsAsWritten, R!Spec

=============================================================================
