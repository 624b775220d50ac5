------------------------------- MODULE WireProofs -------------------------------
(***************************************************************************)
(* Lemmas about modules Datagrams, Keystrokes and Wire, for any requests,  *)
(* passwords and size of the password's field: what the bytes of a request *)
(* are read as, and what becomes of a keystroke.                           *)
(***************************************************************************)
EXTENDS Wire, FiniteSetTheorems, FunctionTheorems, SequenceTheorems, TLAPS

-----------------------------------------------------------------------------
(* Sequences.                                                              *)

(* What is where in two sequences put together, by their lengths.          *)
LEMMA Concatenated ==
    ASSUME NEW S, NEW s \in Seq(S), NEW t \in Seq(S)
    PROVE  /\ s \o t \in Seq(S) /\ Len(s \o t) = Len(s) + Len(t)
           /\ \A i \in 1..Len(s) : (s \o t)[i] = s[i]
           /\ \A i \in 1..Len(t) : (s \o t)[Len(s) + i] = t[i]
<1> DEFINE a == Len(s)
           b == Len(t)
<1>1. a \in Nat /\ b \in Nat
  OBVIOUS
<1>2. s \o t \in Seq(S) /\ Len(s \o t) = a + b
  BY ConcatProperties
<1>3. \A i \in 1..Len(s) + Len(t) : (s \o t)[i] = IF i <= Len(s) THEN s[i] ELSE t[i - Len(s)]
  BY ConcatProperties
<1>4. ASSUME NEW i \in 1..a PROVE (s \o t)[i] = s[i]
  <2>1. i \in 1..Len(s) + Len(t) /\ i <= Len(s)
    BY <1>1
  <2> QED
    BY <1>3, <2>1
<1>5. ASSUME NEW i \in 1..b PROVE (s \o t)[a + i] = t[i]
  <2>1. a + i \in 1..Len(s) + Len(t) /\ ~(a + i <= Len(s)) /\ a + i - Len(s) = i
    BY <1>1
  <2> QED
    BY <1>3, <2>1
<1> QED
  BY <1>2, <1>4, <1>5

(* A sequence cut in two.                                                  *)
LEMMA Cut ==
    ASSUME NEW S, NEW s \in Seq(S), NEW n \in 0..Len(s)
    PROVE  /\ SubSeq(s, 1, n) \in Seq(S) /\ Len(SubSeq(s, 1, n)) = n
           /\ \A i \in 1..n : SubSeq(s, 1, n)[i] = s[i]
           /\ SubSeq(s, n + 1, Len(s)) \in Seq(S) /\ Len(SubSeq(s, n + 1, Len(s))) = Len(s) - n
           /\ \A i \in 1..Len(s) - n : SubSeq(s, n + 1, Len(s))[i] = s[n + i]
<1>1. Len(s) \in Nat /\ n \in Nat /\ n <= Len(s)
  OBVIOUS
<1>2. /\ SubSeq(s, 1, n) \in Seq(S) /\ Len(SubSeq(s, 1, n)) = n
      /\ \A i \in 1..n : SubSeq(s, 1, n)[i] = s[i]
  BY <1>1
<1>3. SubSeq(s, n + 1, Len(s)) \in Seq(S) /\ Len(SubSeq(s, n + 1, Len(s))) = Len(s) - n
  BY <1>1
<1>4. ASSUME NEW i \in 1..Len(s) - n PROVE SubSeq(s, n + 1, Len(s))[i] = s[n + i]
  BY <1>1
<1> QED
  BY <1>2, <1>3, <1>4

-----------------------------------------------------------------------------
(* The keyboard.                                                           *)

(* The events of a keystroke one by one.                                   *)
LEMMA EventsListed ==
    ASSUME NEW key, NEW S, NEW order \in Seq(S)
    PROVE  LET n == Len(order)
               events == Events(key, order)
           IN  /\ Len(events) = 2 * n + 2
               /\ \A i \in 1..n : events[i] = Down(order[i])
               /\ events[n + 1] = Extended(Down(key)) /\ events[n + 2] = Extended(Up(key))
               /\ \A i \in 1..n : events[n + 2 + i] = Up(order[n + 1 - i])
<1> DEFINE n == Len(order)
           events == Events(key, order)
           E == {Down(s) : s \in S} \cup {Up(s) : s \in S}
                    \cup {Extended(Down(key)), Extended(Up(key))}
           down == [i \in 1..n |-> Down(order[i])]
           middle == <<Extended(Down(key)), Extended(Up(key))>>
           up == [i \in 1..n |-> Up(order[n + 1 - i])]
<1>1. n \in Nat /\ \A i \in 1..n : order[i] \in S
  OBVIOUS
<1>2. down \in Seq(E) /\ Len(down) = n
  <2>1. \A i \in 1..n : Down(order[i]) \in E
    BY <1>1
  <2> HIDE DEF E
  <2> QED
    BY <1>1, <2>1
<1>3. middle \in Seq(E) /\ Len(middle) = 2
  <2>1. Extended(Down(key)) \in E /\ Extended(Up(key)) \in E
    OBVIOUS
  <2> HIDE DEF E
  <2> QED
    BY <2>1
<1>4. up \in Seq(E) /\ Len(up) = n
  <2>1. \A i \in 1..n : Up(order[n + 1 - i]) \in E
    BY <1>1
  <2> HIDE DEF E
  <2> QED
    BY <1>1, <2>1
<1>5. events = (down \o middle) \o up
  BY DEF Events
<1> HIDE DEF E, down, middle, up, events
<1> DEFINE half == down \o middle
<1>6. /\ half \in Seq(E) /\ Len(half) = n + 2
      /\ \A i \in 1..n : half[i] = down[i]
      /\ \A i \in 1..2 : half[n + i] = middle[i]
  <2>1. /\ half \in Seq(E) /\ Len(half) = Len(down) + Len(middle)
        /\ \A i \in 1..Len(down) : half[i] = down[i]
        /\ \A i \in 1..Len(middle) : half[Len(down) + i] = middle[i]
    BY <1>2, <1>3, Concatenated
  <2> QED
    BY <1>2, <1>3, <2>1
<1> HIDE DEF half
<1>7. events = half \o up
  BY <1>5 DEF half
<1>8. /\ Len(events) = n + 2 + n
      /\ \A i \in 1..n + 2 : events[i] = half[i]
      /\ \A i \in 1..n : events[n + 2 + i] = up[i]
  <2>0. half \in Seq(E) /\ up \in Seq(E)
    BY <1>4, <1>6
  <2>1. /\ Len(half \o up) = Len(half) + Len(up)
        /\ \A i \in 1..Len(half) : (half \o up)[i] = half[i]
        /\ \A i \in 1..Len(up) : (half \o up)[Len(half) + i] = up[i]
    BY <2>0, Concatenated
  <2>2. /\ Len(events) = Len(half) + Len(up)
        /\ \A i \in 1..Len(half) : events[i] = half[i]
        /\ \A i \in 1..Len(up) : events[Len(half) + i] = up[i]
    BY <1>7, <2>1, Zenon
  <2> QED
    BY <1>4, <1>6, <2>2
<1>9. Len(events) = 2 * n + 2
  BY <1>1, <1>8
<1>10. \A i \in 1..n : events[i] = Down(order[i])
  BY <1>1, <1>6, <1>8 DEF down
<1>11. events[n + 1] = Extended(Down(key)) /\ events[n + 2] = Extended(Up(key))
  <2>1. events[n + 1] = half[n + 1] /\ events[n + 2] = half[n + 2]
    BY <1>1, <1>8
  <2>2. half[n + 1] = middle[1] /\ half[n + 2] = middle[2]
    BY <1>6
  <2> QED
    BY <2>1, <2>2 DEF middle
<1>12. \A i \in 1..n : events[n + 2 + i] = Up(order[n + 1 - i])
  BY <1>8 DEF up
<1> QED
  BY <1>9, <1>10, <1>11, <1>12 DEF events

(* Whichever key and whichever modifiers in whichever order: what goes     *)
(* down comes up.                                                          *)
LEMMA EventsRelease ==
    ASSUME NEW key, NEW S, NEW order \in Seq(S)
    PROVE  HeldAfter(Events(key, order), Len(Events(key, order))) = {}
<1> DEFINE n == Len(order)
           events == Events(key, order)
<1>1. n \in Nat
  OBVIOUS
<1>2. /\ Len(events) = 2 * n + 2
      /\ \A i \in 1..n : events[i] = Down(order[i])
      /\ events[n + 1] = Extended(Down(key)) /\ events[n + 2] = Extended(Up(key))
      /\ \A i \in 1..n : events[n + 2 + i] = Up(order[n + 1 - i])
  BY EventsListed
<1> HIDE DEF events
<1>3. ASSUME NEW j \in 1..Len(events), ~events[j].up
      PROVE  \E k \in j + 1..Len(events) : events[k].vk = events[j].vk /\ events[k].up
  <2>1. CASE j \in 1..n
    <3>1. 2 * n + 3 - j \in j + 1..Len(events)
      BY <1>1, <1>2, <2>1
    <3>2. n + 1 - j \in 1..n /\ n + 2 + (n + 1 - j) = 2 * n + 3 - j /\ n + 1 - (n + 1 - j) = j
      BY <1>1, <2>1
    <3>3. events[2 * n + 3 - j] = Up(order[j])
      BY <1>2, <3>2
    <3>4. events[j] = Down(order[j])
      BY <1>2, <2>1
    <3> QED
      BY <3>1, <3>3, <3>4 DEF Up, Down
  <2>2. CASE j = n + 1
    <3>1. n + 2 \in j + 1..Len(events)
      BY <1>1, <1>2, <2>2
    <3> QED
      BY <1>2, <2>2, <3>1 DEF Up, Down, Extended
  <2>3. CASE j = n + 2
    BY <1>2, <1>3, <2>3 DEF Up, Extended
  <2>4. CASE j \in n + 3..2 * n + 2
    <3>1. j - n - 2 \in 1..n /\ n + 2 + (j - n - 2) = j
      BY <1>1, <2>4
    <3>2. events[j] = Up(order[n + 1 - (j - n - 2)])
      BY <1>2, <3>1
    <3> QED
      BY <1>3, <3>2 DEF Up
  <2> QED
    BY <1>1, <1>2, <2>1, <2>2, <2>3, <2>4
<1>4. HeldAfter(events, Len(events)) = {}
  BY <1>3 DEF HeldAfter
<1> QED
  BY <1>4 DEF events

LEMMA ModsFinite ==
    ASSUME NEW bits
    PROVE  IsFiniteSet(Mods(bits)) /\ Cardinality(Mods(bits)) \in Nat
<1>1. Mods(bits) \subseteq {91, 17, 16, 18}
  BY DEF Mods, ModKeyVk
<1>2. IsFiniteSet({91})
  BY FS_Singleton
<1>3. IsFiniteSet((({91} \cup {17}) \cup {16}) \cup {18})
  <2>1. IsFiniteSet({91} \cup {17})
    BY <1>2, FS_AddElement
  <2>2. IsFiniteSet(({91} \cup {17}) \cup {16})
    BY <2>1, FS_AddElement
  <2> QED
    BY <2>2, FS_AddElement
<1>4. {91, 17, 16, 18} = (({91} \cup {17}) \cup {16}) \cup {18}
  OBVIOUS
<1>5. IsFiniteSet(Mods(bits))
  BY <1>1, <1>3, <1>4, FS_Subset
<1> QED
  BY <1>5, FS_CardinalityType

LEMMA EmulatedRelease ==
    ASSUME NEW key, NEW bits, NEW events \in Emulated(key, Mods(bits))
    PROVE  HeldAfter(events, Len(events)) = {}
<1>1. CASE events = <<>>
  BY <1>1 DEF HeldAfter
<1>2. CASE events # <<>>
  <2>1. PICK order \in SetToSeqs(Mods(bits)) : events = Events(key, order)
    BY <1>2 DEF Emulated
  <2>2. order \in [1..Cardinality(Mods(bits)) -> Mods(bits)]
    BY <2>1 DEF SetToSeqs
  <2>3. order \in Seq(Mods(bits))
    BY <2>2, ModsFinite
  <2> QED
    BY <2>1, <2>3, EventsRelease
<1> QED
  BY <1>1, <1>2

LEMMA NoInputRelease == HeldAfter(<<>>, Len(<<>>)) = {}
BY DEF HeldAfter

LEMMA ReceiveReleases ==
    ASSUME NEW r, Receive(r)
    PROVE  KeysReleased'
<1> DEFINE packet == Received(PhoneWrites(r))
<1> SUFFICES ASSUME inputs' # <<>>
             PROVE  KeysReleased'
  BY NoInputRelease DEF KeysReleased
<1>1. processKeystroke(packet)
  BY DEF Receive, processConnect, processDisconnect, processSetFormat, Nothing, NoKeys
<1>2. inputs' \in Emulated(getKeystroke(packet).key, Mods(getKeystroke(packet).mods))
  BY <1>1 DEF processKeystroke, NoKeys
<1> QED
  BY <1>2, EmulatedRelease DEF KeysReleased

-----------------------------------------------------------------------------
(* Numbers in bytes.                                                       *)

LEMMA Written8 ==
    ASSUME NEW d \in Seq(Nat), NEW o \in Nat, o + 1 <= Len(d), NEW v \in Nat
    PROVE  LET w == writeUInt8(v, d, o)
           IN  /\ w \in Seq(Nat) /\ Len(w) = Len(d)
               /\ w[o + 1] = v
               /\ \A j \in 1..Len(d) : j # o + 1 => w[j] = d[j]
<1>1. o + 1 \in 1..Len(d)
  OBVIOUS
<1> QED
  BY <1>1, ExceptSeq DEF writeUInt8

LEMMA Written16 ==
    ASSUME NEW d \in Seq(Nat), NEW o \in Nat, o + 2 <= Len(d), NEW v \in Nat
    PROVE  LET w == writeUInt16B(v, d, o)
           IN  /\ w \in Seq(Nat) /\ Len(w) = Len(d)
               /\ w[o + 1] = (v \div 256) % 256 /\ w[o + 2] = v % 256
               /\ \A j \in 1..Len(d) : j \notin {o + 1, o + 2} => w[j] = d[j]
<1> DEFINE x == (v \div 256) % 256
           y == v % 256
           e == [d EXCEPT ![o + 1] = x]
           w == [e EXCEPT ![o + 2] = y]
<1>1. o + 1 \in 1..Len(d) /\ o + 2 \in 1..Len(d) /\ x \in Nat /\ y \in Nat
  OBVIOUS
<1> HIDE DEF x, y
<1>2. /\ e \in Seq(Nat) /\ Len(e) = Len(d)
      /\ \A j \in 1..Len(d) : e[j] = IF j = o + 1 THEN x ELSE d[j]
  BY <1>1, ExceptSeq
<1> HIDE DEF e
<1>3. /\ w \in Seq(Nat) /\ Len(w) = Len(d)
      /\ \A j \in 1..Len(d) : w[j] = IF j = o + 2 THEN y ELSE e[j]
  BY <1>1, <1>2, ExceptSeq
<1>4. writeUInt16B(v, d, o) = w
  BY DEF writeUInt16B, w, e, x, y
<1> HIDE DEF w
<1>5. w[o + 1] = x /\ w[o + 2] = y
  <2>1. o + 1 # o + 2
    OBVIOUS
  <2>2. w[o + 1] = e[o + 1] /\ w[o + 2] = y
    BY <1>1, <1>3, <2>1
  <2> QED
    BY <1>1, <1>2, <2>2
<1>6. \A j \in 1..Len(d) : j \notin {o + 1, o + 2} => w[j] = d[j]
  BY <1>2, <1>3
<1> QED
  BY <1>3, <1>4, <1>5, <1>6 DEF x, y

(* A number that fits is in its two bytes.                                 *)
LEMMA WordBytes ==
    ASSUME NEW v \in Word
    PROVE  /\ v \in Nat /\ v \div 256 \in Byte /\ v % 256 \in Byte
           /\ (v \div 256) % 256 = v \div 256
           /\ (v \div 256) * 256 + (v % 256) = v
<1>1. v \in Nat /\ v < 65536
  BY SMT DEF Word
<1>2. v \div 256 \in Byte
  <2>1. v \div 256 \in Nat
    BY <1>1, SMT
  <2>2. v \div 256 <= 255
    BY <1>1, SMT
  <2> QED
    BY <2>1, <2>2, SMT DEF Byte
<1>3. v % 256 \in Byte
  BY <1>1, SMT DEF Byte
<1>4. (v \div 256) * 256 + (v % 256) = v
  BY <1>1, SMT
<1>5. (v \div 256) % 256 = v \div 256
  <2>1. \A b \in Byte : b % 256 = b
    BY SMT DEF Byte
  <2> QED
    BY <1>2, <2>1
<1> QED
  BY <1>1, <1>2, <1>3, <1>4, <1>5

(* The five bytes in front of the data.                                    *)
LEMMA HeaderWritten ==
    ASSUME NEW category \in Byte, NEW blank \in Seq(Nat), headerSize <= Len(blank)
    PROVE  LET packet == writeHeader(category, blank)
           IN  /\ packet \in Seq(Nat) /\ Len(packet) = Len(blank)
               /\ packet[1] = 165 /\ packet[2] = 113 /\ packet[3] = category
               /\ packet[4] \in Byte /\ packet[5] \in Byte
               /\ packet[4] * 256 + packet[5] = Len(blank) % 65536
               /\ \A j \in 6..Len(blank) : packet[j] = blank[j]
               /\ getPacketCategory(packet) = category
<1> DEFINE n == Len(blank)
           signed == writeUInt16B(protocolSignature, blank, 0)
           kinded == writeUInt8(category, signed, 2)
           size == n % 65536
           packet == writeUInt16B(size, kinded, 3)
<1>1. n \in Nat /\ 5 <= n
  BY DEF headerSize
<1>2. writeHeader(category, blank) = packet
  BY DEF writeHeader, signatureOffset, categoryOffset, sizeOffset
<1>3. /\ signed \in Seq(Nat) /\ Len(signed) = n
      /\ signed[1] = 165 /\ signed[2] = 113
      /\ \A j \in 1..n : j \notin {1, 2} => signed[j] = blank[j]
  <2>1. 0 + 2 <= Len(blank) /\ protocolSignature \in Nat
    BY <1>1 DEF protocolSignature
  <2>2. /\ signed \in Seq(Nat) /\ Len(signed) = Len(blank)
        /\ signed[0 + 1] = (protocolSignature \div 256) % 256
        /\ signed[0 + 2] = protocolSignature % 256
        /\ \A j \in 1..Len(blank) : j \notin {0 + 1, 0 + 2} => signed[j] = blank[j]
    BY <2>1, Written16
  <2>3. (protocolSignature \div 256) % 256 = 165 /\ protocolSignature % 256 = 113
    BY DEF protocolSignature
  <2> QED
    BY <2>2, <2>3
<1> HIDE DEF n, signed
<1>4. /\ kinded \in Seq(Nat) /\ Len(kinded) = n
      /\ kinded[3] = category
      /\ \A j \in 1..n : j # 3 => kinded[j] = signed[j]
  <2>1. category \in Nat /\ 2 + 1 <= Len(signed)
    BY <1>1, <1>3 DEF Byte
  <2>2. /\ kinded \in Seq(Nat) /\ Len(kinded) = Len(signed)
        /\ kinded[2 + 1] = category
        /\ \A j \in 1..Len(signed) : j # 2 + 1 => kinded[j] = signed[j]
    BY <1>3, <2>1, Written8
  <2> QED
    BY <1>3, <2>2
<1> HIDE DEF kinded
<1>5. /\ packet \in Seq(Nat) /\ Len(packet) = n
      /\ packet[4] \in Byte /\ packet[5] \in Byte
      /\ packet[4] * 256 + packet[5] = size
      /\ \A j \in 1..n : j \notin {4, 5} => packet[j] = kinded[j]
  <2>1. 3 + 2 <= Len(kinded) /\ size \in Word
    <3>1. \A m \in Nat : m % 65536 \in Word
      BY SMT DEF Word
    <3>2. size \in Word
      BY <1>1, <3>1
    <3>3. 3 + 2 <= n
      BY <1>1
    <3> QED
      BY <1>4, <3>2, <3>3
  <2> HIDE DEF size
  <2>2. /\ size \in Nat /\ (size \div 256) % 256 \in Byte /\ size % 256 \in Byte
        /\ ((size \div 256) % 256) * 256 + (size % 256) = size
    <3>1. /\ size \in Nat /\ size \div 256 \in Byte /\ size % 256 \in Byte
          /\ (size \div 256) % 256 = size \div 256
          /\ (size \div 256) * 256 + (size % 256) = size
      BY <2>1, WordBytes
    <3> QED
      BY <3>1
  <2>3. /\ packet \in Seq(Nat) /\ Len(packet) = Len(kinded)
        /\ packet[3 + 1] = (size \div 256) % 256 /\ packet[3 + 2] = size % 256
        /\ \A j \in 1..Len(kinded) : j \notin {3 + 1, 3 + 2} => packet[j] = kinded[j]
    <3>1. kinded \in Seq(Nat) /\ 3 \in Nat /\ 3 + 2 <= Len(kinded) /\ size \in Nat
      BY <1>4, <2>1, <2>2
    <3> QED
      BY <3>1, Written16
  <2>4. packet[4] = (size \div 256) % 256 /\ packet[5] = size % 256
    BY <2>3
  <2> HIDE DEF packet
  <2> QED
    BY <1>4, <2>2, <2>3, <2>4
<1> HIDE DEF packet, size
<1>6. packet[1] = 165 /\ packet[2] = 113 /\ packet[3] = category
  <2>1. \A j \in {1, 2, 3} : j \in 1..n /\ j \notin {4, 5}
    BY <1>1
  <2>2. \A j \in {1, 2, 3} : packet[j] = kinded[j]
    BY <1>5, <2>1
  <2>3. kinded[1] = signed[1] /\ kinded[2] = signed[2]
    BY <1>4, <2>1
  <2> QED
    BY <1>3, <1>4, <2>2, <2>3
<1>7. ASSUME NEW j \in 6..n
      PROVE  packet[j] = blank[j]
  <2>1. j \in 1..n /\ j \notin {4, 5} /\ j # 3 /\ j \notin {1, 2}
    BY <1>1
  <2>2. packet[j] = kinded[j]
    BY <1>5, <2>1
  <2>3. kinded[j] = signed[j]
    BY <1>4, <2>1
  <2>4. signed[j] = blank[j]
    BY <1>3, <2>1
  <2> QED
    BY <2>2, <2>3, <2>4
<1>8. getPacketCategory(packet) = category
  BY <1>1, <1>5, <1>6 DEF getPacketCategory, readUInt16B, readUInt8, headerSize, signatureOffset,
         categoryOffset, protocolSignature
<1> QED
  BY <1>2, <1>5, <1>6, <1>7, <1>8 DEF n, size

(* A datagram without or with data.                                        *)
LEMMA WrittenReads ==
    ASSUME NEW category \in Byte, NEW data \in Seq(Byte)
    PROVE  LET packet == Written(category, data)
           IN  /\ packet \in Seq(Byte) /\ Len(packet) = headerSize + Len(data)
               /\ getPacketCategory(packet) = category
               /\ \A i \in 1..Len(data) : packet[dataOffset + i] = data[i]
<1> DEFINE blank == Zeros(5) \o data
           packet == writeHeader(category, blank)
           n == Len(data)
<1>1. Zeros(5) \in Seq(Byte) /\ Len(Zeros(5)) = 5
  BY DEF Zeros, Byte
<1>2. /\ blank \in Seq(Byte) /\ Len(blank) = 5 + n
      /\ \A i \in 1..n : blank[5 + i] = data[i]
  <2>1. /\ blank \in Seq(Byte) /\ Len(blank) = Len(Zeros(5)) + Len(data)
        /\ \A i \in 1..Len(data) : blank[Len(Zeros(5)) + i] = data[i]
    <3> HIDE DEF n
    <3> QED
      BY <1>1, Concatenated
  <2> HIDE DEF blank
  <2> QED
    BY <1>1, <2>1
<1>3. n \in Nat /\ \A i \in 1..n : data[i] \in Byte
  OBVIOUS
<1> HIDE DEF blank, n
<1>4. blank \in Seq(Nat) /\ headerSize <= Len(blank)
  <2>1. Byte \subseteq Nat
    BY DEF Byte
  <2>2. blank \in Seq(Nat)
    BY <1>2, <2>1, SeqMonotonic, Zenon
  <2>3. headerSize <= Len(blank)
    BY <1>2, <1>3 DEF headerSize
  <2> QED
    BY <2>2, <2>3
<1>5. /\ packet \in Seq(Nat) /\ Len(packet) = 5 + n
      /\ packet[1] = 165 /\ packet[2] = 113 /\ packet[3] = category
      /\ packet[4] \in Byte /\ packet[5] \in Byte
      /\ \A j \in 6..5 + n : packet[j] = blank[j]
      /\ getPacketCategory(packet) = category
  BY <1>2, <1>4, HeaderWritten
<1> HIDE DEF packet
<1>6. \A i \in 1..n : packet[5 + i] = data[i]
  <2>1. \A i \in 1..n : 5 + i \in 6..5 + n
    BY <1>3
  <2> QED
    BY <1>2, <1>5, <2>1
<1>7. packet \in Seq(Byte)
  <2>1. 165 \in Byte /\ 113 \in Byte
    BY DEF Byte
  <2>2. ASSUME NEW j \in 1..5 + n PROVE packet[j] \in Byte
    <3>1. CASE j \in 6..5 + n
      <4>1. j - 5 \in 1..n /\ 5 + (j - 5) = j
        BY <1>3, <3>1
      <4> QED
        BY <1>3, <1>6, <4>1
    <3>2. CASE j \in {1, 2, 3, 4, 5}
      BY <1>5, <2>1, <3>2
    <3> QED
      BY <1>3, <3>1, <3>2
  <2> QED
    BY <1>5, <2>2
<1> QED
  BY <1>5, <1>6, <1>7 DEF Written, headerSize, dataOffset, packet, blank, n

(* The handlers see the datagram that was sent, whatever was in the buffer *)
(* before.                                                                 *)
LEMMA ReceivedIsSent ==
    ASSUME NEW bytes \in Seq(Byte), Len(bytes) <= InputPacketSize
    PROVE  Received(bytes) = bytes
<1> DEFINE S == Byte \cup {datagram[i] : i \in 1..InputPacketSize}
           all == Overwritten(bytes)
<1>1. InputPacketSize \in Nat /\ Len(bytes) \in Nat
  BY WireAssumption
<1>2. /\ all \in Seq(S) /\ Len(all) = InputPacketSize
      /\ \A i \in 1..Len(bytes) : all[i] = bytes[i]
  BY <1>1 DEF Overwritten
<1>3. bytes \in Seq(S)
  OBVIOUS
<1> HIDE DEF all, S
<1>4. /\ SubSeq(all, 1, Len(bytes)) \in Seq(S) /\ Len(SubSeq(all, 1, Len(bytes))) = Len(bytes)
      /\ \A i \in 1..Len(bytes) : SubSeq(all, 1, Len(bytes))[i] = all[i]
  BY <1>1, <1>2, Cut
<1> QED
  BY <1>2, <1>3, <1>4, SeqEqual DEF Received, all

(* The two bytes of a number.                                              *)
LEMMA TwoBytes ==
    ASSUME NEW id \in Word
    PROVE  \E high, low \in Byte : Two(id) = <<high, low>> /\ high * 256 + low = id
<1>1. id \div 256 \in Byte /\ id % 256 \in Byte /\ (id \div 256) * 256 + (id % 256) = id
  BY WordBytes
<1> QED
  BY <1>1 DEF Two

(* When a sequence is two others put together.                             *)
LEMMA JoinedIs ==
    ASSUME NEW S, NEW s \in Seq(S), NEW t \in Seq(S), NEW u \in Seq(S),
           Len(u) = Len(s) + Len(t),
           \A i \in 1..Len(s) : u[i] = s[i],
           \A i \in 1..Len(t) : u[Len(s) + i] = t[i]
    PROVE  s \o t = u
<1>1. s \o t \in Seq(S) /\ Len(s \o t) = Len(s) + Len(t)
  BY Concatenated
<1>2. ASSUME NEW i \in 1..Len(u) PROVE (s \o t)[i] = u[i]
  <2>0. Len(s) \in Nat /\ Len(t) \in Nat
    OBVIOUS
  <2>1. CASE i <= Len(s)
    <3>1. i \in 1..Len(s)
      BY <2>0, <2>1
    <3>2. (s \o t)[i] = s[i]
      BY <3>1, Concatenated
    <3> QED
      BY <3>1, <3>2
  <2>2. CASE ~(i <= Len(s))
    <3>1. i - Len(s) \in 1..Len(t) /\ Len(s) + (i - Len(s)) = i
      BY <2>0, <2>2
    <3>2. (s \o t)[Len(s) + (i - Len(s))] = t[i - Len(s)]
      BY <3>1, Concatenated
    <3>3. u[Len(s) + (i - Len(s))] = t[i - Len(s)]
      BY <3>1
    <3> QED
      BY <3>1, <3>2, <3>3
  <2> QED
    BY <2>1, <2>2
<1> QED
  BY <1>1, <1>2, SeqEqual

LEMMA Joined3 ==
    ASSUME NEW a \in Byte, NEW b \in Byte, NEW c \in Byte
    PROVE  <<a, b>> \o <<c>> = <<a, b, c>>
<1> DEFINE s == <<a, b>>
           t == <<c>>
           u == <<a, b, c>>
<1>1. /\ s \in Seq(Byte) /\ Len(s) = 2 /\ s[1] = a /\ s[2] = b
      /\ t \in Seq(Byte) /\ Len(t) = 1 /\ t[1] = c
      /\ u \in Seq(Byte) /\ Len(u) = 3 /\ u[1] = a /\ u[2] = b /\ u[3] = c
  OBVIOUS
<1> HIDE DEF s, t, u
<1>2. /\ Len(u) = Len(s) + Len(t)
      /\ \A i \in 1..Len(s) : u[i] = s[i]
      /\ \A i \in 1..Len(t) : u[Len(s) + i] = t[i]
  BY <1>1
<1>3. s \in Seq(Byte) /\ t \in Seq(Byte) /\ u \in Seq(Byte)
  BY <1>1
<1>4. s \o t = u
  BY <1>2, <1>3, JoinedIs
<1> QED
  BY <1>4 DEF s, t, u

LEMMA Joined4 ==
    ASSUME NEW a \in Byte, NEW b \in Byte, NEW c \in Byte, NEW d \in Byte
    PROVE  (<<a>> \o <<b, c>>) \o <<d>> = <<a, b, c, d>>
<1>1. <<a>> \o <<b, c>> = <<a, b, c>>
  <2> DEFINE s == <<a>>
             t == <<b, c>>
             u == <<a, b, c>>
  <2>1. /\ s \in Seq(Byte) /\ Len(s) = 1 /\ s[1] = a
        /\ t \in Seq(Byte) /\ Len(t) = 2 /\ t[1] = b /\ t[2] = c
        /\ u \in Seq(Byte) /\ Len(u) = 3 /\ u[1] = a /\ u[2] = b /\ u[3] = c
    OBVIOUS
  <2> HIDE DEF s, t, u
  <2>2. /\ Len(u) = Len(s) + Len(t)
        /\ \A i \in 1..Len(s) : u[i] = s[i]
        /\ \A i \in 1..Len(t) : u[Len(s) + i] = t[i]
    BY <2>1
  <2>3. s \in Seq(Byte) /\ t \in Seq(Byte) /\ u \in Seq(Byte)
    BY <2>1
  <2>4. s \o t = u
    BY <2>2, <2>3, JoinedIs
  <2> QED
    BY <2>4 DEF s, t, u
<1>2. <<a, b, c>> \o <<d>> = <<a, b, c, d>>
  <2> DEFINE s == <<a, b, c>>
             t == <<d>>
             u == <<a, b, c, d>>
  <2>1. /\ s \in Seq(Byte) /\ Len(s) = 3 /\ s[1] = a /\ s[2] = b /\ s[3] = c
        /\ t \in Seq(Byte) /\ Len(t) = 1 /\ t[1] = d
        /\ u \in Seq(Byte) /\ Len(u) = 4 /\ u[1] = a /\ u[2] = b /\ u[3] = c /\ u[4] = d
    OBVIOUS
  <2> HIDE DEF s, t, u
  <2>2. /\ Len(u) = Len(s) + Len(t)
        /\ \A i \in 1..Len(s) : u[i] = s[i]
        /\ \A i \in 1..Len(t) : u[Len(s) + i] = t[i]
    BY <2>1
  <2>3. s \in Seq(Byte) /\ t \in Seq(Byte) /\ u \in Seq(Byte)
    BY <2>1
  <2>4. s \o t = u
    BY <2>2, <2>3, JoinedIs
  <2> QED
    BY <2>4 DEF s, t, u
<1> QED
  BY <1>1, <1>2, Zenon

-----------------------------------------------------------------------------
(* What a request is read as.                                              *)

LEMMA EmptyRead ==
    ASSUME NEW category \in Byte
    PROVE  LET packet == Written(category, <<>>)
           IN  /\ packet \in Seq(Byte) /\ Len(packet) <= InputPacketSize
               /\ getPacketCategory(packet) = category
<1>1. <<>> \in Seq(Byte) /\ Len(<<>>) = 0
  OBVIOUS
<1>2. headerSize + 0 <= InputPacketSize
  BY WireAssumption, DatagramsAssumption DEF headerSize, dataOffset, connectDataSize
<1> DEFINE packet == Written(category, <<>>)
<1>3. /\ packet \in Seq(Byte) /\ Len(packet) = headerSize + Len(<<>>)
      /\ getPacketCategory(packet) = category
  BY <1>1, WrittenReads
<1> HIDE DEF packet
<1> QED
  BY <1>1, <1>2, <1>3 DEF packet

LEMMA SetFormatRead ==
    ASSUME NEW id \in Word, NEW c \in Byte
    PROVE  LET packet == Written(Category.SetFormat, Two(id) \o <<c>>)
           IN  /\ packet \in Seq(Byte) /\ Len(packet) <= InputPacketSize
               /\ getPacketCategory(packet) = Category.SetFormat
               /\ getSetFormatData(packet) = [requestId |-> id, compression |-> c]
<1>1. PICK high, low \in Byte : Two(id) = <<high, low>> /\ high * 256 + low = id
  BY TwoBytes
<1> DEFINE data == <<high, low, c>>
           packet == Written(Category.SetFormat, data)
<1>2. Two(id) \o <<c>> = data
  <2>1. <<high, low>> \o <<c>> = <<high, low, c>>
    BY Joined3
  <2> QED
    BY <1>1, <2>1, Zenon
<1>3. data \in Seq(Byte) /\ Len(data) = 3 /\ data[1] = high /\ data[2] = low /\ data[3] = c
  OBVIOUS
<1> HIDE DEF data
<1>4. Category.SetFormat \in Byte
  BY DEF Category, Byte
<1>5. /\ packet \in Seq(Byte) /\ Len(packet) = headerSize + Len(data)
      /\ getPacketCategory(packet) = Category.SetFormat
      /\ \A i \in 1..Len(data) : packet[dataOffset + i] = data[i]
  BY <1>3, <1>4, WrittenReads
<1> HIDE DEF packet
<1>6. Len(packet) = 8 /\ packet[6] = high /\ packet[7] = low /\ packet[8] = c
  BY <1>3, <1>5 DEF headerSize, dataOffset
<1>7. 8 <= InputPacketSize
  BY WireAssumption, DatagramsAssumption DEF headerSize, dataOffset, connectDataSize
<1>8. getSetFormatData(packet) = [requestId |-> id, compression |-> c]
  <2>1. readUInt16B(packet, 5) = id /\ readUInt8(packet, 7) = c
    BY <1>1, <1>6 DEF readUInt16B, readUInt8
  <2> QED
    BY <1>6, <2>1 DEF getSetFormatData, dataOffset, headerSize, setFormatDataSize
<1>9. packet = Written(Category.SetFormat, Two(id) \o <<c>>)
  BY <1>2 DEF packet
<1> QED
  BY <1>5, <1>6, <1>7, <1>8, <1>9

LEMMA KeystrokeRead ==
    ASSUME NEW key \in Byte, NEW bits \in Byte
    PROVE  LET packet == Written(Category.Keystroke, <<key, bits>>)
           IN  /\ packet \in Seq(Byte) /\ Len(packet) <= InputPacketSize
               /\ getPacketCategory(packet) = Category.Keystroke
               /\ getKeystroke(packet) = [key |-> key, mods |-> bits]
<1> DEFINE data == <<key, bits>>
           packet == Written(Category.Keystroke, data)
<1>1. data \in Seq(Byte) /\ Len(data) = 2 /\ data[1] = key /\ data[2] = bits
  OBVIOUS
<1> HIDE DEF data
<1>2. Category.Keystroke \in Byte
  BY DEF Category, Byte
<1>3. /\ packet \in Seq(Byte) /\ Len(packet) = headerSize + Len(data)
      /\ getPacketCategory(packet) = Category.Keystroke
      /\ \A i \in 1..Len(data) : packet[dataOffset + i] = data[i]
  BY <1>1, <1>2, WrittenReads
<1> HIDE DEF packet
<1>4. Len(packet) = 7 /\ packet[6] = key /\ packet[7] = bits
  BY <1>1, <1>3 DEF headerSize, dataOffset
<1>5. 7 <= InputPacketSize
  BY WireAssumption, DatagramsAssumption DEF headerSize, dataOffset, connectDataSize
<1>6. getKeystroke(packet) = [key |-> key, mods |-> bits]
  BY <1>4 DEF getKeystroke, readUInt8, dataOffset, headerSize, keystrokeSize
<1> QED
  BY <1>3, <1>4, <1>5, <1>6 DEF packet, data

(* A password comes out of its field without the padding, and cut where    *)
(* the field ends.                                                         *)
LEMMA FieldRead ==
    ASSUME NEW typed \in Seq(Character), NEW field \in Seq(Byte),
           \A i \in 1..Len(field) : field[i] = IF i <= Len(typed) THEN typed[i] ELSE 0
    PROVE  CString(field) =
               SubSeq(typed, 1, IF Len(typed) < Len(field) THEN Len(typed) ELSE Len(field))
<1> DEFINE m == Len(field)
           k == Len(typed)
           ends == {i \in 1..m : field[i] = 0}
<1>1. m \in Nat /\ k \in Nat /\ \A i \in 1..k : typed[i] \in Character /\ typed[i] # 0
  <2>1. 0 \notin Character
    BY DEF Character
  <2>2. \A i \in 1..Len(typed) : typed[i] \in Character
    OBVIOUS
  <2> QED
    BY <2>1, <2>2
<1>2. typed \in Seq(Byte)
  <2>1. Character \subseteq Byte
    BY DEF Byte, Character
  <2> QED
    BY <2>1, SeqMonotonic, Zenon
<1>3. ends = {i \in 1..m : i > k}
  BY <1>1
<1>4. CASE k < m
  <2>1. ends # {} /\ k + 1 \in ends /\ \A j \in ends : k + 1 <= j
    BY <1>1, <1>3, <1>4
  <2> DEFINE e == CHOOSE i \in ends : \A j \in ends : i <= j
  <2>2. e = k + 1
    <3>1. e \in ends /\ \A j \in ends : e <= j
      BY <2>1
    <3> HIDE DEF e
    <3> QED
      BY <1>1, <2>1, <3>1
  <2>3. CString(field) = SubSeq(field, 1, k + 1 - 1)
    <3>1. CString(field) = IF ends = {} THEN field ELSE SubSeq(field, 1, e - 1)
      BY Zenon DEF CString
    <3> HIDE DEF e, ends
    <3> QED
      BY <2>1, <2>2, <3>1
  <2>4. k + 1 - 1 = k /\ k \in 0..Len(field) /\ k \in 0..Len(typed)
    BY <1>1, <1>4
  <2>5. SubSeq(field, 1, k) = SubSeq(typed, 1, k)
    <3>1. /\ SubSeq(field, 1, k) \in Seq(Byte) /\ Len(SubSeq(field, 1, k)) = k
          /\ \A i \in 1..k : SubSeq(field, 1, k)[i] = field[i]
      BY <2>4, Cut
    <3>2. /\ SubSeq(typed, 1, k) \in Seq(Byte) /\ Len(SubSeq(typed, 1, k)) = k
          /\ \A i \in 1..k : SubSeq(typed, 1, k)[i] = typed[i]
      BY <1>2, <2>4, Cut
    <3>3. \A i \in 1..k : field[i] = typed[i]
      BY <1>1, <1>4
    <3> QED
      BY <3>1, <3>2, <3>3, SeqEqual
  <2> QED
    BY <1>4, <2>3, <2>4, <2>5
<1>5. CASE ~(k < m)
  <2>1. ends = {}
    BY <1>1, <1>3, <1>5
  <2>2. CString(field) = field
    BY <2>1 DEF CString
  <2>3. m \in 0..Len(typed)
    BY <1>1, <1>5
  <2>4. field = SubSeq(typed, 1, m)
    <3>1. /\ SubSeq(typed, 1, m) \in Seq(Byte) /\ Len(SubSeq(typed, 1, m)) = m
          /\ \A i \in 1..m : SubSeq(typed, 1, m)[i] = typed[i]
      BY <1>2, <2>3, Cut
    <3>2. \A i \in 1..m : field[i] = typed[i]
      BY <1>1, <1>5
    <3> QED
      BY <3>1, <3>2, SeqEqual
  <2> QED
    BY <1>5, <2>2, <2>4
<1> QED
  BY <1>4, <1>5

(* The data of a Connect, as a phone of any version writes it.             *)
ConnectData(version, id, compression, typed) ==
    <<version>> \o Two(id) \o <<compression>>
        \o (IF version >= protocolVersion THEN Padded(typed) ELSE <<>>)
        \o (IF version > protocolVersion THEN <<version>> ELSE <<>>)

LEMMA ConnectBytes ==
    ASSUME NEW v \in Byte, NEW id \in Word, NEW c \in Byte, NEW typed \in Seq(Character)
    PROVE  LET data == ConnectData(v, id, c, typed)
           IN  /\ data \in Seq(Byte)
               /\ Len(data) = 4 + (IF v >= protocolVersion THEN PasswordFieldSize ELSE 0)
                                + (IF v > protocolVersion THEN 1 ELSE 0)
               /\ data[1] = v /\ data[2] * 256 + data[3] = id /\ data[4] = c
               /\ v >= protocolVersion =>
                     \A i \in 1..PasswordFieldSize : data[4 + i] = Padded(typed)[i]
<1>1. PICK high, low \in Byte : Two(id) = <<high, low>> /\ high * 256 + low = id
  BY TwoBytes
<1> DEFINE front == <<v, high, low, c>>
           field == IF v >= protocolVersion THEN Padded(typed) ELSE <<>>
           rest == IF v > protocolVersion THEN <<v>> ELSE <<>>
           half == front \o field
           data == half \o rest
<1>2. ConnectData(v, id, c, typed) = data
  <2>1. <<v>> \o Two(id) \o <<c>> = front
    <3>1. (<<v>> \o <<high, low>>) \o <<c>> = <<v, high, low, c>>
      BY <1>1, Joined4
    <3> QED
      BY <1>1, <3>1, Zenon
  <2> QED
    BY <2>1, Zenon DEF ConnectData
<1>3. /\ front \in Seq(Byte) /\ Len(front) = 4
      /\ front[1] = v /\ front[2] = high /\ front[3] = low /\ front[4] = c
  OBVIOUS
<1>4. PasswordFieldSize \in Nat /\ Padded(typed) \in Seq(Byte) /\ Len(Padded(typed)) = PasswordFieldSize
  <2>1. PasswordFieldSize \in Nat
    BY DatagramsAssumption
  <2>2. 0 \in Byte /\ \A i \in 1..Len(typed) : typed[i] \in Byte
    <3>1. 0 \in Byte /\ Character \subseteq Byte
      BY DEF Byte, Character
    <3> QED
      BY <3>1
  <2>3. \A i \in 1..PasswordFieldSize : (IF i <= Len(typed) THEN typed[i] ELSE 0) \in Byte
    <3>1. Len(typed) \in Nat
      OBVIOUS
    <3> QED
      BY <2>1, <2>2, <3>1
  <2> QED
    BY <2>1, <2>3 DEF Padded
<1>5. /\ field \in Seq(Byte)
      /\ Len(field) = IF v >= protocolVersion THEN PasswordFieldSize ELSE 0
      /\ v >= protocolVersion => field = Padded(typed)
  <2>1. <<>> \in Seq(Byte) /\ Len(<<>>) = 0
    OBVIOUS
  <2> QED
    BY <1>4, <2>1
<1>6. rest \in Seq(Byte) /\ Len(rest) = IF v > protocolVersion THEN 1 ELSE 0
  <2>1. <<>> \in Seq(Byte) /\ Len(<<>>) = 0 /\ <<v>> \in Seq(Byte) /\ Len(<<v>>) = 1
    OBVIOUS
  <2> QED
    BY <2>1
<1> HIDE DEF front, field, rest
<1>7. /\ half \in Seq(Byte) /\ Len(half) = Len(front) + Len(field)
      /\ \A i \in 1..Len(front) : half[i] = front[i]
      /\ \A i \in 1..Len(field) : half[Len(front) + i] = field[i]
  <2>1. front \in Seq(Byte) /\ field \in Seq(Byte)
    BY <1>3, <1>5
  <2> QED
    BY <2>1, Concatenated
<1> HIDE DEF half
<1>8. /\ data \in Seq(Byte) /\ Len(data) = Len(half) + Len(rest)
      /\ \A i \in 1..Len(half) : data[i] = half[i]
  <2>1. half \in Seq(Byte) /\ rest \in Seq(Byte)
    BY <1>6, <1>7
  <2> QED
    BY <2>1, Concatenated
<1> HIDE DEF data
<1>9. Len(field) \in Nat /\ Len(half) = 4 + Len(field)
  BY <1>3, <1>5, <1>7
<1>10. Len(data) = 4 + (IF v >= protocolVersion THEN PasswordFieldSize ELSE 0)
                     + (IF v > protocolVersion THEN 1 ELSE 0)
  BY <1>5, <1>6, <1>8, <1>9
<1>11. \A i \in 1..4 : data[i] = front[i]
  BY <1>3, <1>7, <1>8, <1>9
<1>12. data[1] = v /\ data[2] = high /\ data[3] = low /\ data[4] = c
  BY <1>3, <1>11
<1>13. \A i \in 1..Len(field) : data[4 + i] = field[i]
  <2>1. \A i \in 1..Len(field) : half[4 + i] = field[i]
    BY <1>3, <1>7
  <2>2. \A i \in 1..Len(field) : 4 + i \in 1..Len(half)
    BY <1>9
  <2> QED
    BY <1>8, <2>1, <2>2
<1>14. v >= protocolVersion => \A i \in 1..PasswordFieldSize : data[4 + i] = Padded(typed)[i]
  BY <1>5, <1>13
<1> QED
  BY <1>1, <1>2, <1>8, <1>10, <1>12, <1>14

LEMMA ConnectRead ==
    ASSUME NEW v \in Byte, NEW id \in Word, NEW c \in Byte, NEW typed \in Seq(Character)
    PROVE  LET packet == Written(Category.Connect, ConnectData(v, id, c, typed))
           IN  /\ packet \in Seq(Byte) /\ Len(packet) <= InputPacketSize
               /\ getPacketCategory(packet) = Category.Connect
               /\ getConnectData(packet) =
                    IF v >= protocolVersion
                    THEN [protocol |-> v, requestId |-> id, compression |-> c,
                          password |-> R!Arrives(typed)]
                    ELSE NoData
<1> DEFINE data == ConnectData(v, id, c, typed)
           packet == Written(Category.Connect, data)
           P == PasswordFieldSize
<1>1. /\ data \in Seq(Byte)
      /\ Len(data) = 4 + (IF v >= protocolVersion THEN P ELSE 0)
                       + (IF v > protocolVersion THEN 1 ELSE 0)
      /\ data[1] = v /\ data[2] * 256 + data[3] = id /\ data[4] = c
      /\ v >= protocolVersion => \A i \in 1..P : data[4 + i] = Padded(typed)[i]
  BY ConnectBytes
<1>2. P \in Nat /\ P >= 1 /\ InputPacketSize \in Nat /\ InputPacketSize >= 10 + P
  BY WireAssumption, DatagramsAssumption DEF headerSize, dataOffset, connectDataSize
<1>3. v \in Nat /\ protocolVersion = 2
  BY DEF Byte, protocolVersion
<1> HIDE DEF data, P
<1>4. Category.Connect \in Byte
  BY DEF Category, Byte
<1>5. /\ packet \in Seq(Byte) /\ Len(packet) = headerSize + Len(data)
      /\ getPacketCategory(packet) = Category.Connect
      /\ \A i \in 1..Len(data) : packet[dataOffset + i] = data[i]
  BY <1>1, <1>4, WrittenReads
<1> HIDE DEF packet
<1>6. /\ Len(packet) = 9 + (IF v >= 2 THEN P ELSE 0) + (IF v > 2 THEN 1 ELSE 0)
      /\ \A i \in 1..Len(data) : packet[5 + i] = data[i]
  BY <1>1, <1>2, <1>3, <1>5 DEF headerSize, dataOffset
<1>7. Len(packet) <= InputPacketSize
  BY <1>2, <1>3, <1>6
<1>8. CASE v < 2
  <2>1. Len(packet) < dataOffset + connectDataSize
    BY <1>2, <1>3, <1>6, <1>8 DEF dataOffset, headerSize, connectDataSize, P
  <2>2. getConnectData(packet) = NoData
    BY <2>1 DEF getConnectData
  <2> QED
    BY <1>3, <1>5, <1>7, <1>8, <2>2 DEF packet, data
<1>9. CASE v >= 2
  <2> DEFINE field == SubSeq(packet, 10, 8 + P)
  <2>1. Len(packet) >= 9 + P /\ Len(data) >= 4 + P
    BY <1>1, <1>2, <1>3, <1>6, <1>9
  <2>2. packet[6] = v /\ packet[7] * 256 + packet[8] = id /\ packet[9] = c
    <3>1. packet[5 + 1] = data[1] /\ packet[5 + 2] = data[2] /\ packet[5 + 3] = data[3]
          /\ packet[5 + 4] = data[4]
      BY <1>2, <1>6, <2>1
    <3> QED
      BY <1>1, <3>1
  <2>3. \A i \in 1..P : packet[9 + i] = Padded(typed)[i]
    <3>1. ASSUME NEW i \in 1..P PROVE packet[9 + i] = Padded(typed)[i]
      <4>1. 4 + i \in 1..Len(data) /\ 5 + (4 + i) = 9 + i
        BY <1>1, <1>2, <2>1
      <4>2. packet[5 + (4 + i)] = data[4 + i]
        BY <1>6, <4>1
      <4> QED
        BY <1>1, <1>3, <1>9, <4>1, <4>2
    <3> QED
      BY <3>1
  <2>4. /\ field \in Seq(Byte) /\ Len(field) = P - 1
        /\ \A i \in 1..P - 1 : field[i] = packet[9 + i]
    <3>1. \A i \in 10..8 + P : packet[i] \in Byte
      BY <1>2, <1>5, <2>1
    <3>2. 10 \in Int /\ 8 + P \in Int
      BY <1>2
    <3>3. /\ field \in Seq(Byte)
          /\ Len(field) = IF 10 <= 8 + P THEN (8 + P) - 10 + 1 ELSE 0
          /\ \A i \in 1..(8 + P) - 10 + 1 : field[i] = packet[10 + i - 1]
      BY <3>1, <3>2, SubSeqProperties
    <3> HIDE DEF field
    <3>4. (8 + P) - 10 + 1 = P - 1 /\ \A i \in Int : 10 + i - 1 = 9 + i
      BY <1>2
    <3> QED
      BY <1>2, <3>3, <3>4
  <2> HIDE DEF field
  <2>5. \A i \in 1..Len(field) : field[i] = IF i <= Len(typed) THEN typed[i] ELSE 0
    <3>1. \A i \in 1..P : Padded(typed)[i] = IF i <= Len(typed) THEN typed[i] ELSE 0
      BY DEF Padded, P
    <3> QED
      BY <1>2, <2>3, <2>4, <3>1
  <2>6. CString(field) = SubSeq(typed, 1, IF Len(typed) < Len(field) THEN Len(typed) ELSE Len(field))
    BY <2>4, <2>5, FieldRead
  <2>7. CString(field) = R!Arrives(typed)
    BY <2>4, <2>6 DEF R!Arrives, P
  <2>8. getConnectData(packet) =
          [protocol |-> readUInt8(packet, dataOffset),
           requestId |-> readUInt16B(packet, dataOffset + 1),
           compression |-> readUInt8(packet, dataOffset + 3),
           password |-> CString(SubSeq(packet, dataOffset + 5, dataOffset + 3 + PasswordFieldSize))]
    <3>1. ~(Len(packet) < dataOffset + connectDataSize)
      BY <1>2, <1>5, <2>1 DEF dataOffset, headerSize, connectDataSize, P
    <3> QED
      BY <3>1 DEF getConnectData
  <2>9. readUInt8(packet, dataOffset) = v
    BY <2>2 DEF readUInt8, dataOffset, headerSize
  <2>10. readUInt16B(packet, dataOffset + 1) = id
    BY <2>2 DEF readUInt16B, dataOffset, headerSize
  <2>11. readUInt8(packet, dataOffset + 3) = c
    BY <2>2 DEF readUInt8, dataOffset, headerSize
  <2>12. SubSeq(packet, dataOffset + 5, dataOffset + 3 + PasswordFieldSize) = field
    BY DEF field, dataOffset, headerSize, P
  <2>13. getConnectData(packet) =
           [protocol |-> v, requestId |-> id, compression |-> c, password |-> R!Arrives(typed)]
    BY <2>7, <2>8, <2>9, <2>10, <2>11, <2>12
  <2> QED
    BY <1>3, <1>5, <1>7, <1>9, <2>13 DEF packet, data
<1> QED
  BY <1>3, <1>8, <1>9

-----------------------------------------------------------------------------
(* What becomes of a keystroke.                                            *)

(* The server finds the modifiers in the bits that the phone has set.      *)
LEMMA ModsRead ==
    ASSUME NEW mods \in SUBSET {91, 17, 16, 18}
    PROVE  PhoneBits(mods) \in Byte /\ Mods(PhoneBits(mods)) = mods
<1> DEFINE a == IF 91 \in mods THEN 1 ELSE 0
           b == IF 17 \in mods THEN 2 ELSE 0
           c == IF 16 \in mods THEN 4 ELSE 0
           d == IF 18 \in mods THEN 8 ELSE 0
           bits == a + b + c + d
<1>1. /\ a \in {0, 1} /\ (a = 1 <=> 91 \in mods)
      /\ b \in {0, 2} /\ (b = 2 <=> 17 \in mods)
      /\ c \in {0, 4} /\ (c = 4 <=> 16 \in mods)
      /\ d \in {0, 8} /\ (d = 8 <=> 18 \in mods)
  OBVIOUS
<1>2. PhoneBits(mods) = bits
  BY DEF PhoneBits
<1> HIDE DEF a, b, c, d
<1>3. /\ (bits \div 1) % 2 = 1 <=> a = 1
      /\ (bits \div 2) % 2 = 1 <=> b = 2
      /\ (bits \div 4) % 2 = 1 <=> c = 4
      /\ (bits \div 8) % 2 = 1 <=> d = 8
  BY <1>1
<1>4. bits \in Byte
  BY <1>1 DEF Byte
<1> HIDE DEF bits
<1>5. Mods(bits) = mods
  <2>1. Mods(bits) \subseteq {91, 17, 16, 18}
    BY DEF Mods, ModKeyVk
  <2>2. /\ 91 \in Mods(bits) <=> (bits \div 1) % 2 = 1
        /\ 17 \in Mods(bits) <=> (bits \div 2) % 2 = 1
        /\ 16 \in Mods(bits) <=> (bits \div 4) % 2 = 1
        /\ 18 \in Mods(bits) <=> (bits \div 8) % 2 = 1
    BY DEF Mods, ModKeyVk, ModKey
  <2>3. \A vk \in {91, 17, 16, 18} : vk \in Mods(bits) <=> vk \in mods
    <3>1. 91 \in Mods(bits) <=> 91 \in mods
      BY <1>1, <1>3, <2>2
    <3>2. 17 \in Mods(bits) <=> 17 \in mods
      BY <1>1, <1>3, <2>2
    <3>3. 16 \in Mods(bits) <=> 16 \in mods
      BY <1>1, <1>3, <2>2
    <3>4. 18 \in Mods(bits) <=> 18 \in mods
      BY <1>1, <1>3, <2>2
    <3> QED
      BY <3>1, <3>2, <3>3, <3>4
  <2> DEFINE found == Mods(bits)
  <2>4. found \subseteq {91, 17, 16, 18} /\ \A vk \in {91, 17, 16, 18} : vk \in found <=> vk \in mods
    BY <2>1, <2>3
  <2> DEFINE all == {91, 17, 16, 18}
  <2>5. found \subseteq all /\ mods \subseteq all /\ \A vk \in all : vk \in found <=> vk \in mods
    BY <2>4
  <2> HIDE DEF found, all
  <2>6. found = mods
    BY <2>5
  <2> QED
    BY <2>6 DEF found
<1> QED
  BY <1>2, <1>4, <1>5

(* A sequence without repetition that is as long as the set is large has   *)
(* all of it.                                                              *)
LEMMA SetListed ==
    ASSUME NEW bits, NEW order \in SetToSeqs(Mods(bits))
    PROVE  /\ order \in Seq(Mods(bits))
           /\ {order[i] : i \in 1..Len(order)} = Mods(bits)
<1> DEFINE S == Mods(bits)
           n == Cardinality(S)
<1>1. n \in Nat /\ IsFiniteSet(S)
  BY ModsFinite
<1>2. order \in [1..n -> S] /\ \A i, j \in 1..n : i # j => order[i] # order[j]
  BY DEF SetToSeqs
<1> HIDE DEF S, n
<1>3. order \in Seq(S) /\ Len(order) = n
  BY <1>1, <1>2
<1>4. order \in Injection(1..n, S)
  BY <1>2, Fun_IsInj
<1>5. Cardinality(1..n) = n
  <2>1. 1 \in Int /\ n \in Int /\ n - 1 + 1 = n
    BY <1>1
  <2> QED
    BY <1>1, <2>1, FS_Interval
<1>6. order \in Surjection(1..n, S)
  <2>1. IsFiniteSet(S) /\ Cardinality(1..n) = Cardinality(S)
    BY <1>1, <1>5 DEF n
  <2> DEFINE T == 1..n
  <2>2. /\ order \in Injection(T, S) /\ IsFiniteSet(S)
        /\ Cardinality(T) = Cardinality(S)
    BY <1>4, <2>1
  <2> HIDE DEF T
  <2>3. Cardinality(T) = Cardinality(S) <=> order \in Surjection(T, S)
    BY <2>2, FS_Injection
  <2>4. order \in Surjection(T, S)
    BY <2>2, <2>3, Zenon
  <2> QED
    BY <2>4, Zenon DEF T
<1>7. \A vk \in S : \E i \in 1..n : order[i] = vk
  <2> DEFINE T == 1..n
  <2>1. order \in Surjection(T, S)
    BY <1>6, Zenon
  <2> HIDE DEF T
  <2>2. \A vk \in S : \E i \in T : order[i] = vk
    BY <2>1, Fun_SurjectionProperties
  <2> QED
    BY <2>2 DEF T
<1> QED
  BY <1>2, <1>3, <1>7 DEF S

(* The event with which the key goes down, and it does so while the        *)
(* modifiers are down.                                                     *)
Strikes(events) == CHOOSE i \in 1..Len(events) : events[i].extended /\ ~events[i].up

LEMMA KeyPressed ==
    ASSUME NEW key, NEW bits, NEW events \in Emulated(key, Mods(bits)), events # <<>>
    PROVE  /\ events[Strikes(events)].vk = key
           /\ HeldAfter(events, Strikes(events) - 1) = Mods(bits)
<1>1. PICK order \in SetToSeqs(Mods(bits)) : events = Events(key, order)
  BY DEF Emulated
<1> DEFINE k == Len(order)
           n == Strikes(events)
<1>2. order \in Seq(Mods(bits)) /\ {order[i] : i \in 1..k} = Mods(bits)
  BY <1>1, SetListed
<1>3. k \in Nat
  BY <1>2
<1>4. /\ Len(events) = 2 * k + 2
      /\ \A i \in 1..k : events[i] = Down(order[i])
      /\ events[k + 1] = Extended(Down(key)) /\ events[k + 2] = Extended(Up(key))
      /\ \A i \in 1..k : events[k + 2 + i] = Up(order[k + 1 - i])
  <2> DEFINE S == Mods(bits)
             all == Events(key, order)
  <2>1. order \in Seq(S)
    BY <1>2
  <2> HIDE DEF S
  <2>2. /\ Len(all) = 2 * k + 2
        /\ \A i \in 1..k : all[i] = Down(order[i])
        /\ all[k + 1] = Extended(Down(key)) /\ all[k + 2] = Extended(Up(key))
        /\ \A i \in 1..k : all[k + 2 + i] = Up(order[k + 1 - i])
    BY <2>1, EventsListed
  <2> HIDE DEF all, k
  <2>3. events = all
    BY <1>1 DEF all
  <2> QED
    BY <2>2, <2>3
<1> HIDE DEF k
<1>5. \A i \in 1..k : ~events[i].up /\ ~events[i].extended /\ events[i].vk = order[i]
  <2>1. ASSUME NEW i \in 1..k
        PROVE  ~events[i].up /\ ~events[i].extended /\ events[i].vk = order[i]
    <3>1. events[i] = [vk |-> order[i], up |-> FALSE, extended |-> FALSE]
      BY <1>4 DEF Down
    <3> QED
      BY <3>1
  <2> QED
    BY <2>1
<1>6. events[k + 1].extended /\ ~events[k + 1].up /\ events[k + 1].vk = key
  BY <1>4 DEF Extended, Down
<1>7. events[k + 2].up
  BY <1>4 DEF Extended, Up
<1>8. \A i \in k + 3..Len(events) : events[i].up
  <2>1. ASSUME NEW i \in k + 3..Len(events) PROVE events[i].up
    <3>1. i - k - 2 \in 1..k /\ k + 2 + (i - k - 2) = i
      BY <1>3, <1>4
    <3>2. events[i] = Up(order[k + 1 - (i - k - 2)])
      BY <1>4, <3>1
    <3> QED
      BY <3>2 DEF Up
  <2> QED
    BY <2>1
<1>9. n = k + 1
  <2>1. k + 1 \in 1..Len(events)
    BY <1>3, <1>4
  <2>2. n \in 1..Len(events) /\ events[n].extended /\ ~events[n].up
    BY <1>6, <2>1 DEF Strikes
  <2> HIDE DEF n
  <2>3. n \notin 1..k /\ n # k + 2 /\ n \notin k + 3..Len(events)
    BY <1>5, <1>7, <1>8, <2>2
  <2> QED
    BY <1>3, <1>4, <2>2, <2>3
<1>10. HeldAfter(events, k) = Mods(bits)
  <2>1. {j \in 1..k : ~events[j].up /\ ~\E l \in j + 1..k : events[l].vk = events[j].vk /\ events[l].up} = 1..k
    BY <1>3, <1>5
  <2>2. HeldAfter(events, k) = {events[i].vk : i \in 1..k}
    BY <2>1 DEF HeldAfter
  <2>3. {events[i].vk : i \in 1..k} = {order[i] : i \in 1..k}
    BY <1>5
  <2> QED
    BY <1>2, <2>2, <2>3
<1> HIDE DEF n
<1>11. n - 1 = k
  BY <1>3, <1>9
<1> QED
  BY <1>6, <1>9, <1>10, <1>11 DEF n


-----------------------------------------------------------------------------
(* The line in the log.                                                    *)

Seconds(s) == {s[i][2] : i \in 1..Len(s)}

LEMMA SecondsJoined ==
    ASSUME NEW S, NEW s \in Seq(S), NEW t \in Seq(S)
    PROVE  Seconds(s \o t) = Seconds(s) \cup Seconds(t)
<1> DEFINE a == Len(s)
           b == Len(t)
           u == s \o t
<1>1. a \in Nat /\ b \in Nat
  OBVIOUS
<1>2. /\ Len(u) = a + b
      /\ \A i \in 1..a : u[i] = s[i]
      /\ \A i \in 1..b : u[a + i] = t[i]
  BY Concatenated
<1> HIDE DEF a, b, u
<1>3. ASSUME NEW x \in Seconds(u) PROVE x \in Seconds(s) \cup Seconds(t)
  <2>1. PICK i \in 1..Len(u) : x = u[i][2]
    BY <1>3 DEF Seconds
  <2>2. CASE i \in 1..a
    BY <1>2, <2>1, <2>2 DEF Seconds, a
  <2>3. CASE i \notin 1..a
    <3>1. i - a \in 1..b /\ a + (i - a) = i
      BY <1>1, <1>2, <2>1, <2>3
    <3>2. u[i] = t[i - a]
      BY <1>2, <3>1
    <3> QED
      BY <2>1, <3>1, <3>2 DEF Seconds, b
  <2> QED
    BY <2>2, <2>3
<1>4. ASSUME NEW x \in Seconds(s) PROVE x \in Seconds(u)
  <2>1. PICK i \in 1..a : x = s[i][2]
    BY DEF Seconds, a
  <2>2. i \in 1..Len(u) /\ u[i] = s[i]
    BY <1>1, <1>2, <2>1
  <2> QED
    BY <2>1, <2>2 DEF Seconds
<1>5. ASSUME NEW x \in Seconds(t) PROVE x \in Seconds(u)
  <2>1. PICK i \in 1..b : x = t[i][2]
    BY DEF Seconds, b
  <2>2. a + i \in 1..Len(u) /\ u[a + i] = t[i]
    BY <1>1, <1>2, <2>1
  <2> QED
    BY <2>1, <2>2 DEF Seconds
<1> QED
  BY <1>3, <1>4, <1>5 DEF u

LEMMA FrontAndLast ==
    ASSUME NEW S, NEW s \in Seq(S), NEW e \in S
    PROVE  Front(Append(s, e)) = s /\ Last(Append(s, e)) = e
<1> DEFINE t == Append(s, e)
<1>1. /\ t \in Seq(S) /\ Len(t) = Len(s) + 1 /\ Len(s) \in Nat
      /\ \A i \in 1..Len(s) : t[i] = s[i]
      /\ t[Len(s) + 1] = e
  BY AppendProperties
<1> HIDE DEF t
<1>2. Len(s) \in 0..Len(t) /\ Len(t) - 1 = Len(s)
  BY <1>1
<1>3. /\ SubSeq(t, 1, Len(s)) \in Seq(S) /\ Len(SubSeq(t, 1, Len(s))) = Len(s)
      /\ \A i \in 1..Len(s) : SubSeq(t, 1, Len(s))[i] = t[i]
  <2> DEFINE k == Len(s)
  <2>1. t \in Seq(S) /\ k \in 0..Len(t)
    BY <1>1, <1>2
  <2> HIDE DEF k
  <2>2. /\ SubSeq(t, 1, k) \in Seq(S) /\ Len(SubSeq(t, 1, k)) = k
        /\ \A i \in 1..k : SubSeq(t, 1, k)[i] = t[i]
    BY <2>1, Cut
  <2> QED
    BY <2>2 DEF k
<1>4. SubSeq(t, 1, Len(s)) = s
  BY <1>1, <1>3, SeqEqual
<1> QED
  BY <1>1, <1>2, <1>4 DEF Front, Last, t

(* The modifiers and the key can be told from the line.                    *)
LEMMA NameTells ==
    ASSUME NEW key, NEW mods \in SUBSET {91, 17, 16, 18}
    PROVE  LET line == toString(key, mods)
           IN  /\ {Front(line)[i][2] : i \in DOMAIN Front(line)} = mods
               /\ Last(line) = getVkCodeDescription(key)
<1> DEFINE Name(vk) == IF vk \in mods THEN <<<<"modifier", vk>>>> ELSE <<>>
           last == getVkCodeDescription(key)
           S == {<<"modifier", vk>> : vk \in {91, 17, 16, 18}} \cup {last}
           a == Name(91)
           b == Name(17)
           c == Name(16)
           d == Name(18)
           front == ((a \o b) \o c) \o d
<1>1. toString(key, mods) = Append(front, last)
  BY DEF toString
<1>2. ASSUME NEW vk \in {91, 17, 16, 18}
      PROVE  Name(vk) \in Seq(S) /\ Seconds(Name(vk)) = {vk} \cap mods
  <2>1. CASE vk \in mods
    <3>1. <<"modifier", vk>> \in S
      OBVIOUS
    <3> HIDE DEF S
    <3> DEFINE e == <<"modifier", vk>>
    <3>2. e[2] = vk
      OBVIOUS
    <3>3. e \in S
      BY <3>1
    <3> HIDE DEF e
    <3>4. <<e>> \in Seq(S) /\ Len(<<e>>) = 1 /\ <<e>>[1] = e
      BY <3>3
    <3>5. Seconds(<<e>>) = {vk}
      BY <3>2, <3>4 DEF Seconds
    <3>6. Name(vk) = <<e>>
      BY <2>1 DEF e
    <3> QED
      BY <2>1, <3>4, <3>5, <3>6
  <2>2. CASE vk \notin mods
    <3>1. Name(vk) = <<>>
      BY <2>2
    <3>2. Seconds(<<>>) = {}
      BY DEF Seconds
    <3> QED
      BY <2>2, <3>1, <3>2
  <2> QED
    BY <2>1, <2>2
<1>3. /\ a \in Seq(S) /\ Seconds(a) = {91} \cap mods
      /\ b \in Seq(S) /\ Seconds(b) = {17} \cap mods
      /\ c \in Seq(S) /\ Seconds(c) = {16} \cap mods
      /\ d \in Seq(S) /\ Seconds(d) = {18} \cap mods
  <2> HIDE DEF S
  <2> QED
    BY <1>2
<1>4. last \in S
  OBVIOUS
<1> HIDE DEF a, b, c, d, S, last
<1>5. (a \o b) \in Seq(S) /\ Seconds(a \o b) = Seconds(a) \cup Seconds(b)
  BY <1>3, Concatenated, SecondsJoined
<1>6. ((a \o b) \o c) \in Seq(S) /\ Seconds((a \o b) \o c) = Seconds(a \o b) \cup Seconds(c)
  <2> DEFINE ab == a \o b
  <2>1. ab \in Seq(S) /\ c \in Seq(S)
    BY <1>3, <1>5
  <2> HIDE DEF ab
  <2>2. ab \o c \in Seq(S) /\ Seconds(ab \o c) = Seconds(ab) \cup Seconds(c)
    BY <2>1, Concatenated, SecondsJoined
  <2> QED
    BY <2>2 DEF ab
<1>7. front \in Seq(S) /\ Seconds(front) = Seconds((a \o b) \o c) \cup Seconds(d)
  <2> DEFINE abc == (a \o b) \o c
  <2>1. abc \in Seq(S) /\ d \in Seq(S)
    BY <1>3, <1>6
  <2> HIDE DEF abc
  <2>2. abc \o d \in Seq(S) /\ Seconds(abc \o d) = Seconds(abc) \cup Seconds(d)
    BY <2>1, Concatenated, SecondsJoined
  <2> QED
    BY <2>2 DEF abc
<1> HIDE DEF front
<1>8. Seconds(front) = mods
  <2>1. Seconds(front) =
          ((({91} \cap mods) \cup ({17} \cap mods)) \cup ({16} \cap mods)) \cup ({18} \cap mods)
    BY <1>3, <1>5, <1>6, <1>7, Zenon
  <2>2. ((({91} \cap mods) \cup ({17} \cap mods)) \cup ({16} \cap mods)) \cup ({18} \cap mods) = mods
    OBVIOUS
  <2> QED
    BY <2>1, <2>2, Zenon
<1>9. Front(Append(front, last)) = front /\ Last(Append(front, last)) = last
  BY <1>4, <1>7, FrontAndLast
<1>10. DOMAIN front = 1..Len(front)
  BY <1>7
<1>11. {front[i][2] : i \in DOMAIN front} = mods
  BY <1>8, <1>10 DEF Seconds
<1> HIDE DEF Name
<1> QED
  BY <1>1, <1>9, <1>11 DEF last

(* What the window's log has of a keystroke that was asked for.            *)
LEMMA NamedRight ==
    ASSUME NEW r \in Request, r.kind = "Keystroke", r.mods \in SUBSET {91, 17, 16, 18},
           logged' = toString(r.key, r.mods)
    PROVE  Named' = [key |-> r.key, mods |-> r.mods]
<1> DEFINE Keys == {q.key : q \in {p \in Request : p.kind = "Keystroke"}}
           line == toString(r.key, r.mods)
           marks == {Front(line)[i][2] : i \in DOMAIN Front(line)}
           found == CHOOSE k \in Keys : getVkCodeDescription(k) = Last(line)
<1>1. logged' # NoData
  BY NoDataAssumption
<1>2. marks = r.mods /\ Last(line) = getVkCodeDescription(r.key)
  BY NameTells
<1>3. r.key \in Keys
  OBVIOUS
<1>4. \A k \in Keys : getVkCodeDescription(k) = getVkCodeDescription(r.key) => k = r.key
  BY NamesAssumption
<1> HIDE DEF Keys
<1>5. found = r.key
  <2>1. found \in Keys /\ getVkCodeDescription(found) = Last(line)
    BY <1>2, <1>3
  <2> QED
    BY <1>2, <1>4, <2>1
<1>6. Named' = [mods |-> marks, key |-> found]
  BY <1>1 DEF Named, Keys
<1> HIDE DEF marks, found
<1> QED
  BY <1>2, <1>5, <1>6

(* What Windows sees of it.                                                *)
LEMMA PressedRight ==
    ASSUME NEW key, NEW bits, inputs' \in Emulated(key, Mods(bits))
    PROVE  Pressed' \in {NoData, [key |-> key, mods |-> Mods(bits)]}
<1>1. CASE inputs' = <<>>
  BY <1>1 DEF Pressed
<1>2. CASE inputs' # <<>>
  <2>1. PICK events : events = inputs'
    OBVIOUS
  <2> DEFINE n == Strikes(events)
  <2>2. events \in Emulated(key, Mods(bits)) /\ events # <<>>
    BY <1>2, <2>1
  <2>3. events[n].vk = key /\ HeldAfter(events, n - 1) = Mods(bits)
    BY <2>2, KeyPressed
  <2>4. Pressed' = [key |-> events[n].vk, mods |-> HeldAfter(events, n - 1)]
    BY <1>2, <2>1 DEF Pressed, Strikes
  <2> HIDE DEF n
  <2> QED
    BY <2>3, <2>4
<1> QED
  BY <1>1, <1>2

LEMMA NoKeysRead ==
    ASSUME NoKeys
    PROVE  Pressed' = NoData /\ Named' = NoData
BY DEF NoKeys, Pressed, Named

-----------------------------------------------------------------------------
(* What the phone reads in an answer.                                      *)

LEMMA AckRead ==
    ASSUME NEW id \in Word
    PROVE  /\ PhoneReadsAck(createAckSetFormatPacket(id)) = [id |-> id, version |-> 0]
           /\ PhoneReadsAck(createAckConnectPacket(id)) = [id |-> id, version |-> protocolVersion]
<1> DEFINE blank == Zeros(11)
           headed == writeHeader(Category.Ack, blank)
           ack == writeUInt16B(id, headed, 5)
           full == writeUInt8(2, ack, 7)
<1>1. /\ blank \in Seq(Nat) /\ Len(blank) = 11
      /\ \A j \in 1..11 : blank[j] = 0
  BY DEF Zeros
<1> HIDE DEF blank
<1>2. Category.Ack \in Byte /\ headerSize <= Len(blank)
  BY <1>1 DEF Category, Byte, headerSize
<1>3. /\ headed \in Seq(Nat) /\ Len(headed) = Len(blank)
      /\ \A j \in 6..Len(blank) : headed[j] = blank[j]
  <2> DEFINE category == Category.Ack
  <2>1. category \in Byte /\ blank \in Seq(Nat) /\ headerSize <= Len(blank)
    BY <1>1, <1>2
  <2> HIDE DEF category
  <2> DEFINE packet == writeHeader(category, blank)
  <2>2. /\ packet \in Seq(Nat) /\ Len(packet) = Len(blank)
        /\ \A j \in 6..Len(blank) : packet[j] = blank[j]
    BY <2>1, HeaderWritten
  <2> HIDE DEF packet
  <2>3. headed = packet
    BY DEF packet, category
  <2> QED
    BY <2>2, <2>3
<1> HIDE DEF headed
<1>4. headed[8] = 0 /\ Len(headed) = 11
  BY <1>1, <1>3
<1>5. id \in Nat /\ (id \div 256) % 256 = id \div 256 /\ (id \div 256) * 256 + (id % 256) = id
  BY WordBytes
<1>6. /\ ack \in Seq(Nat) /\ Len(ack) = 11
      /\ ack[6] = (id \div 256) % 256 /\ ack[7] = id % 256 /\ ack[8] = 0
  <2>1. 5 \in Nat /\ 5 + 2 <= Len(headed)
    BY <1>4
  <2>2. /\ ack \in Seq(Nat) /\ Len(ack) = Len(headed)
        /\ ack[5 + 1] = (id \div 256) % 256 /\ ack[5 + 2] = id % 256
        /\ \A j \in 1..Len(headed) : j \notin {5 + 1, 5 + 2} => ack[j] = headed[j]
    <3>1. headed \in Seq(Nat) /\ id \in Nat
      BY <1>3, <1>5
    <3> QED
      BY <2>1, <3>1, Written16
  <2> HIDE DEF ack
  <2> QED
    BY <1>4, <2>2
<1> HIDE DEF ack
<1>7. /\ full \in Seq(Nat) /\ Len(full) = 11
      /\ full[6] = ack[6] /\ full[7] = ack[7] /\ full[8] = 2
  <2>1. 7 \in Nat /\ 7 + 1 <= Len(ack) /\ 2 \in Nat
    BY <1>6
  <2>2. /\ full \in Seq(Nat) /\ Len(full) = Len(ack)
        /\ full[7 + 1] = 2
        /\ \A j \in 1..Len(ack) : j # 7 + 1 => full[j] = ack[j]
    <3>1. ack \in Seq(Nat) /\ 7 \in Nat
      BY <1>6
    <3> QED
      BY <2>1, <3>1, Written8
  <2> HIDE DEF full
  <2> QED
    BY <1>6, <2>2
<1> HIDE DEF full
<1>8. createAckSetFormatPacket(id) = ack
  BY DEF createAckSetFormatPacket, writeAck, headerSize, ackSize, dataOffset, ack, headed, blank
<1>9. createAckConnectPacket(id) = full
  BY <1>8 DEF createAckConnectPacket, protocolVersion, ackCustomDataOffset, headerSize, dataOffset, full
<1>10. ack # NoData /\ full # NoData
  BY <1>6, <1>7, NoDataAssumption
<1>11. PhoneReadsAck(ack) = [id |-> id, version |-> 0]
  <2>1. ack[6] * 256 + ack[7] = id /\ ack[8] = 0
    BY <1>5, <1>6
  <2> QED
    BY <1>10, <2>1 DEF PhoneReadsAck, readUInt16B, readUInt8, ackCustomDataOffset, dataOffset,
           headerSize
<1>12. PhoneReadsAck(full) = [id |-> id, version |-> 2]
  <2>1. full[6] * 256 + full[7] = id /\ full[8] = 2
    BY <1>5, <1>6, <1>7
  <2> QED
    BY <1>10, <2>1 DEF PhoneReadsAck, readUInt16B, readUInt8, ackCustomDataOffset, dataOffset,
           headerSize
<1> QED
  BY <1>8, <1>9, <1>11, <1>12 DEF protocolVersion

-----------------------------------------------------------------------------
(* The handlers do what Requests says.                                     *)

LEMMA RequestKinds ==
    ASSUME NEW r \in Request
    PROVE  \/ /\ r.kind = "Connect" /\ r.version \in Byte /\ r.id \in Word
              /\ r.compression \in Byte /\ r.password \in Seq(Character)
           \/ r.kind = "SetFormat" /\ r.id \in Word /\ r.compression \in Byte
           \/ r.kind = "Keystroke" /\ r.key \in Byte /\ r.mods \in SUBSET {91, 17, 16, 18}
           \/ r.kind \in {"Disconnect", "KeepAlive"}
           \/ r.kind = "Stray" /\ r \in Stray
<1>1. r \in Requested \/ r \in Stray
  BY RequestAssumption
<1>2. CASE r \in Stray
  BY <1>2 DEF Stray
<1>3. CASE r \in Requested
  BY <1>3 DEF Requested
<1> QED
  BY <1>1, <1>2, <1>3

LEMMA Categories ==
    /\ Category.Connect = 1 /\ Category.Disconnect = 2 /\ Category.SetFormat = 3
    /\ Category.Keystroke = 16 /\ Category.ClientKeepAlive = 48
BY DEF Category

(* Which handler a datagram comes to.                                      *)
LEMMA Dispatched ==
    ASSUME NEW r, Receive(r), PhoneWrites(r) \in Seq(Byte), Len(PhoneWrites(r)) <= InputPacketSize
    PROVE  LET packet == PhoneWrites(r)
               category == getPacketCategory(packet)
           IN  /\ request' = r /\ password' = password
               /\ category = Category.Connect => processConnect(packet)
               /\ category = Category.Disconnect => processDisconnect(packet)
               /\ category = Category.SetFormat => processSetFormat(packet)
               /\ category = Category.Keystroke => processKeystroke(packet)
               /\ category \notin {Category.Connect, Category.Disconnect, Category.SetFormat,
                                   Category.Keystroke} => Nothing
<1> DEFINE packet == PhoneWrites(r)
           category == getPacketCategory(packet)
<1>1. Received(packet) = packet
  BY ReceivedIsSent
<1> HIDE DEF packet
<1>2. /\ request' = r /\ password' = password
      /\ CASE category = Category.Connect -> processConnect(packet)
           [] category = Category.Disconnect -> processDisconnect(packet)
           [] category = Category.SetFormat -> processSetFormat(packet)
           [] category = Category.Keystroke -> processKeystroke(packet)
           [] OTHER -> Nothing
  BY <1>1 DEF Receive, packet
<1> HIDE DEF category
<1> QED
  BY <1>2, Categories DEF packet, category

LEMMA CompressionKnown ==
    ASSUME NEW c
    PROVE  compressionFromNetworkValue(c) # NoData <=> c \in Compression
BY NoDataAssumption DEF compressionFromNetworkValue

LEMMA ArrivesBytes ==
    ASSUME NEW typed \in Seq(Character)
    PROVE  R!Arrives(typed) \in Seq(Byte)
<1> DEFINE P == PasswordFieldSize
           n == IF Len(typed) < P - 1 THEN Len(typed) ELSE P - 1
<1>1. P \in Nat /\ P >= 1 /\ Len(typed) \in Nat
  BY DatagramsAssumption
<1>2. typed \in Seq(Byte)
  <2>1. Character \subseteq Byte
    BY DEF Byte, Character
  <2> QED
    BY <2>1, SeqMonotonic, Zenon
<1>3. R!Arrives(typed) = SubSeq(typed, 1, n)
  BY DEF R!Arrives
<1>4. n \in 0..Len(typed)
  BY <1>1
<1> HIDE DEF n
<1>5. SubSeq(typed, 1, n) \in Seq(Byte)
  BY <1>2, <1>4, Cut
<1> QED
  BY <1>3, <1>5

(* A request that is refused or of no kind the server handles.             *)
LEMMA NothingIgnored ==
    ASSUME NEW r, ~R!Connects(r), ~R!SetsFormat(r), r.kind \notin {"Disconnect", "Keystroke"},
           reply' = NoData, NoKeys, UNCHANGED format
    PROVE  R!Ignored(r)
BY NoKeysRead DEF R!Ignored, R!NoKeys, PhoneReadsAck

LEMMA ConnectServed ==
    ASSUME NEW r \in Request, r.kind = "Connect", Receive(r)
    PROVE  R!Connect(r) \/ R!Ignored(r)
<1> DEFINE packet == PhoneWrites(r)
           data == getConnectData(packet)
<1>1. PICK v \in Byte, id \in Word, c \in Byte, typed \in Seq(Character) :
         r.version = v /\ r.id = id /\ r.compression = c /\ r.password = typed
  BY RequestKinds
<1>2. packet = Written(Category.Connect, ConnectData(v, id, c, typed))
  BY <1>1 DEF PhoneWrites, ConnectData
<1>3. /\ packet \in Seq(Byte) /\ Len(packet) <= InputPacketSize
      /\ getPacketCategory(packet) = Category.Connect
      /\ data = IF v >= protocolVersion
                THEN [protocol |-> v, requestId |-> id, compression |-> c,
                      password |-> R!Arrives(typed)]
                ELSE NoData
  <2>1. typed \in Seq(Character) /\ v \in Byte /\ id \in Word /\ c \in Byte
    BY <1>1
  <2> QED
    BY <1>2, <2>1, ConnectRead
<1>4. processConnect(packet)
  BY <1>3, Dispatched
<1>5. r.kind \notin {"SetFormat", "Disconnect", "Keystroke"}
  OBVIOUS
<1>6. R!Connects(r) <=>
         v >= protocolVersion /\ c \in Compression /\ (password # <<>> => R!Arrives(typed) = password)
  BY <1>1 DEF R!Connects
<1>7. /\ NoKeys
      /\ Admits(data) => format' = data.compression /\ reply' = createAckConnectPacket(data.requestId)
      /\ ~Admits(data) => UNCHANGED format /\ reply' = NoData
  BY <1>4 DEF processConnect
<1>8. ASSUME ~Admits(data), ~R!Connects(r)
      PROVE  R!Ignored(r)
  BY <1>5, <1>7, <1>8, NothingIgnored DEF R!SetsFormat
<1> HIDE DEF packet, data
<1>9. CASE v >= protocolVersion
  <2> DEFINE pass == R!Arrives(typed)
  <2>1. data = [protocol |-> v, requestId |-> id, compression |-> c, password |-> pass]
    BY <1>3, <1>9
  <2>2. pass \in Seq(Byte)
    BY <1>1, ArrivesBytes
  <2> HIDE DEF pass
  <2>3. data # NoData
    <3>1. data \in [protocol : Byte, requestId : Word, compression : Byte, password : Seq(Byte)]
      BY <1>1, <2>1, <2>2
    <3> QED
      BY <3>1, NoDataAssumption
  <2>4. data.compression = c /\ data.password = pass /\ data.requestId = id
    BY <2>1
  <2>5. Admits(data) <=> c \in Compression /\ (password # <<>> => pass = password)
    BY <2>3, <2>4, CompressionKnown DEF Admits
  <2>6. CASE Admits(data)
    <3>1. R!Connects(r)
      BY <1>6, <1>9, <2>5, <2>6 DEF pass
    <3>2. PhoneReadsAck(createAckConnectPacket(id)) = [id |-> id, version |-> protocolVersion]
      BY <1>1, AckRead
    <3>3. format' = c /\ reply' = createAckConnectPacket(id)
      BY <1>7, <2>4, <2>6
    <3>4. PhoneReadsAck(reply') = [id |-> id, version |-> protocolVersion]
      BY <3>2, <3>3
    <3>5. R!NoKeys
      BY <1>7, NoKeysRead DEF R!NoKeys
    <3>6. R!Connect(r)
      BY <1>1, <3>1, <3>3, <3>4, <3>5 DEF R!Connect, PhoneReadsAck
    <3> QED
      BY <3>6
  <2>7. CASE ~Admits(data)
    BY <1>6, <1>8, <2>5, <2>7 DEF pass
  <2> QED
    BY <2>6, <2>7
<1>10. CASE ~(v >= protocolVersion)
  <2>1. data = NoData
    BY <1>3, <1>10
  <2>2. ~Admits(data)
    BY <2>1 DEF Admits
  <2> QED
    BY <1>6, <1>8, <1>10, <2>2
<1> QED
  BY <1>9, <1>10

LEMMA SetFormatServed ==
    ASSUME NEW r \in Request, r.kind = "SetFormat", Receive(r)
    PROVE  R!SetFormat(r) \/ R!Ignored(r)
<1> DEFINE packet == PhoneWrites(r)
           data == getSetFormatData(packet)
<1>1. PICK id \in Word, c \in Byte : r.id = id /\ r.compression = c
  BY RequestKinds
<1>2. packet = Written(Category.SetFormat, Two(id) \o <<c>>)
  BY <1>1 DEF PhoneWrites
<1>3. /\ packet \in Seq(Byte) /\ Len(packet) <= InputPacketSize
      /\ getPacketCategory(packet) = Category.SetFormat
      /\ data = [requestId |-> id, compression |-> c]
  <2>1. id \in Word /\ c \in Byte
    BY <1>1
  <2> QED
    BY <1>2, <2>1, SetFormatRead
<1>4. processSetFormat(packet)
  BY <1>3, Dispatched
<1>5. /\ NoKeys
      /\ SetsFormat(data) => /\ format' = IF format = NotRegistered THEN NotRegistered
                                          ELSE data.compression
                             /\ reply' = createAckSetFormatPacket(data.requestId)
      /\ ~SetsFormat(data) => UNCHANGED format /\ reply' = NoData
  BY <1>4 DEF processSetFormat
<1>6. data # NoData
  <2>1. data \in [requestId : Word, compression : Byte]
    BY <1>1, <1>3
  <2> QED
    BY <2>1, NoDataAssumption
<1>7. R!SetsFormat(r) <=> c \in Compression
  BY <1>1 DEF R!SetsFormat
<1>8. data.compression = c /\ data.requestId = id
  BY <1>3
<1> HIDE DEF packet, data
<1>9. SetsFormat(data) <=> c \in Compression
  BY <1>6, <1>8, CompressionKnown DEF SetsFormat
<1>10. CASE SetsFormat(data)
  <2>1. PhoneReadsAck(createAckSetFormatPacket(id)) = [id |-> id, version |-> 0]
    BY <1>1, AckRead
  <2>2. PhoneReadsAck(reply)' = [id |-> id, version |-> 0]
    BY <1>5, <1>8, <1>10, <2>1 DEF PhoneReadsAck
  <2>3. R!NoKeys
    BY <1>5, NoKeysRead DEF R!NoKeys
  <2>4. R!SetsFormat(r)
    BY <1>7, <1>9, <1>10
  <2>5. R!SetFormat(r)
    BY <1>1, <1>5, <1>8, <1>10, <2>2, <2>3, <2>4 DEF R!SetFormat
  <2> QED
    BY <2>5
<1>11. CASE ~SetsFormat(data)
  <2>1. ~R!SetsFormat(r) /\ ~R!Connects(r) /\ r.kind \notin {"Disconnect", "Keystroke"}
    BY <1>7, <1>9, <1>11 DEF R!Connects
  <2>2. R!Ignored(r)
    BY <1>5, <1>11, <2>1, NothingIgnored
  <2> QED
    BY <2>2
<1> QED
  BY <1>10, <1>11

LEMMA DisconnectServed ==
    ASSUME NEW r \in Request, r.kind = "Disconnect", Receive(r)
    PROVE  R!Disconnect(r)
<1> DEFINE packet == PhoneWrites(r)
<1>1. packet = Written(Category.Disconnect, <<>>)
  BY DEF PhoneWrites
<1>2. Category.Disconnect \in Byte
  BY Categories DEF Byte
<1>3. /\ packet \in Seq(Byte) /\ Len(packet) <= InputPacketSize
      /\ getPacketCategory(packet) = Category.Disconnect
  BY <1>1, <1>2, EmptyRead
<1>4. processDisconnect(packet)
  BY <1>3, Dispatched
<1>5. format' = NotRegistered /\ reply' = NoData /\ NoKeys
  BY <1>4 DEF processDisconnect
<1> QED
  BY <1>5, NoKeysRead DEF R!Disconnect, R!NoKeys, PhoneReadsAck

LEMMA KeystrokeServed ==
    ASSUME NEW r \in Request, r.kind = "Keystroke", Receive(r)
    PROVE  R!Keystroke(r)
<1> DEFINE packet == PhoneWrites(r)
           bits == PhoneBits(r.mods)
           data == getKeystroke(packet)
<1>1. r.key \in Byte /\ r.mods \in SUBSET {91, 17, 16, 18}
  BY RequestKinds
<1>2. bits \in Byte /\ Mods(bits) = r.mods
  BY <1>1, ModsRead
<1>3. packet = Written(Category.Keystroke, <<r.key, bits>>)
  BY DEF PhoneWrites
<1> HIDE DEF bits
<1>4. /\ packet \in Seq(Byte) /\ Len(packet) <= InputPacketSize
      /\ getPacketCategory(packet) = Category.Keystroke
      /\ data = [key |-> r.key, mods |-> bits]
  <2> DEFINE key == r.key
  <2>1. key \in Byte /\ bits \in Byte /\ packet = Written(Category.Keystroke, <<key, bits>>)
    BY <1>1, <1>2, <1>3
  <2> HIDE DEF key, packet
  <2>2. /\ packet \in Seq(Byte) /\ Len(packet) <= InputPacketSize
        /\ getPacketCategory(packet) = Category.Keystroke
        /\ data = [key |-> key, mods |-> bits]
    BY <2>1, KeystrokeRead
  <2> QED
    BY <2>2 DEF key, packet
<1>5. processKeystroke(packet)
  BY <1>4, Dispatched
<1>6. data # NoData
  <2>1. data \in [key : Byte, mods : Byte]
    BY <1>1, <1>2, <1>4
  <2> QED
    BY <2>1, NoDataAssumption
<1>7. data.key = r.key /\ data.mods = bits
  BY <1>4
<1> HIDE DEF packet, data
<1>8. /\ inputs' \in Emulated(r.key, Mods(bits)) /\ logged' = toString(r.key, Mods(bits))
      /\ reply' = NoData /\ UNCHANGED format
  BY <1>5, <1>6, <1>7 DEF processKeystroke, onReceiveKeystroke, data
<1>9. Pressed' \in {NoData, [key |-> r.key, mods |-> r.mods]}
  BY <1>2, <1>8, PressedRight
<1>10. Named' = [key |-> r.key, mods |-> r.mods]
  BY <1>1, <1>2, <1>8, NamedRight
<1> QED
  BY <1>8, <1>9, <1>10 DEF R!Keystroke, PhoneReadsAck

LEMMA OtherServed ==
    ASSUME NEW r \in Request, r.kind \notin {"Connect", "SetFormat", "Keystroke", "Disconnect"},
           Receive(r)
    PROVE  R!Ignored(r)
<1> DEFINE packet == PhoneWrites(r)
<1>1. /\ packet \in Seq(Byte) /\ Len(packet) <= InputPacketSize
      /\ getPacketCategory(packet) \notin
            {Category.Connect, Category.Disconnect, Category.SetFormat, Category.Keystroke}
  <2>1. CASE r.kind = "KeepAlive"
    <3>1. packet = Written(Category.ClientKeepAlive, <<>>)
      BY <2>1 DEF PhoneWrites
    <3>2. Category.ClientKeepAlive \in Byte
      BY Categories DEF Byte
    <3>3. /\ packet \in Seq(Byte) /\ Len(packet) <= InputPacketSize
          /\ getPacketCategory(packet) = Category.ClientKeepAlive
      BY <3>1, <3>2, EmptyRead
    <3> QED
      BY <3>3, Categories
  <2>2. CASE r.kind = "Stray" /\ r \in Stray
    <3>1. packet = r.bytes
      BY <2>2 DEF PhoneWrites
    <3> QED
      BY <2>2, <3>1 DEF Stray
  <2> QED
    BY <2>1, <2>2, RequestKinds
<1>2. Nothing
  BY <1>1, Dispatched
<1> QED
  BY <1>2, NothingIgnored DEF Nothing, R!Connects, R!SetsFormat

LEMMA WireInitStarts == WireInit => R!Init
<1> SUFFICES ASSUME WireInit
             PROVE  R!Init
  OBVIOUS
<1> QED
  BY DEF WireInit, R!Init, PhoneReadsAck, Pressed, Named

(* Every datagram that arrives is a step of Requests.                      *)
LEMMA WireNextServes == WireNext => R!Next
<1> SUFFICES ASSUME NEW r \in Request, Receive(r)
             PROVE  R!Next
  BY DEF WireNext
<1>1. request' = r /\ UNCHANGED password
  BY DEF Receive
<1>2. R!Connect(r) \/ R!SetFormat(r) \/ R!Disconnect(r) \/ R!Keystroke(r) \/ R!Ignored(r)
  BY ConnectServed, SetFormatServed, DisconnectServed, KeystrokeServed, OtherServed
<1> QED
  BY <1>1, <1>2 DEF R!Next

LEMMA WireStutters == UNCHANGED wireVars => UNCHANGED R!vars
BY DEF wireVars, R!vars, PhoneReadsAck, Pressed, Named

-----------------------------------------------------------------------------
(* The types.                                                              *)

(* What arrives are bytes, and they fit the buffer.                        *)
LEMMA PhoneWritesBytes ==
    ASSUME NEW r \in Request
    PROVE  PhoneWrites(r) \in Seq(Byte) /\ Len(PhoneWrites(r)) <= InputPacketSize
<1>1. CASE r.kind = "Connect"
  <2>1. PICK v \in Byte, id \in Word, c \in Byte, typed \in Seq(Character) :
           r.version = v /\ r.id = id /\ r.compression = c /\ r.password = typed
    BY <1>1, RequestKinds
  <2>2. PhoneWrites(r) = Written(Category.Connect, ConnectData(v, id, c, typed))
    BY <1>1, <2>1 DEF PhoneWrites, ConnectData
  <2>3. typed \in Seq(Character) /\ v \in Byte /\ id \in Word /\ c \in Byte
    BY <2>1
  <2> QED
    BY <2>2, <2>3, ConnectRead
<1>2. CASE r.kind = "SetFormat"
  <2>1. PICK id \in Word, c \in Byte : r.id = id /\ r.compression = c
    BY <1>2, RequestKinds
  <2>2. PhoneWrites(r) = Written(Category.SetFormat, Two(id) \o <<c>>)
    BY <1>2, <2>1 DEF PhoneWrites
  <2>3. id \in Word /\ c \in Byte
    BY <2>1
  <2> QED
    BY <2>2, <2>3, SetFormatRead
<1>3. CASE r.kind = "Keystroke"
  <2> DEFINE key == r.key
             bits == PhoneBits(r.mods)
  <2>1. key \in Byte /\ r.mods \in SUBSET {91, 17, 16, 18}
    BY <1>3, RequestKinds
  <2>2. bits \in Byte
    BY <2>1, ModsRead
  <2>3. PhoneWrites(r) = Written(Category.Keystroke, <<key, bits>>)
    BY <1>3 DEF PhoneWrites
  <2>4. key \in Byte /\ bits \in Byte
    BY <2>1, <2>2
  <2> HIDE DEF key, bits
  <2> QED
    BY <2>3, <2>4, KeystrokeRead
<1>4. CASE r.kind = "Disconnect"
  <2>1. PhoneWrites(r) = Written(Category.Disconnect, <<>>) /\ Category.Disconnect \in Byte
    BY <1>4, Categories DEF PhoneWrites, Byte
  <2> QED
    BY <2>1, EmptyRead
<1>5. CASE r.kind = "KeepAlive"
  <2>1. PhoneWrites(r) = Written(Category.ClientKeepAlive, <<>>) /\ Category.ClientKeepAlive \in Byte
    BY <1>5, Categories DEF PhoneWrites, Byte
  <2> QED
    BY <2>1, EmptyRead
<1>6. CASE r.kind = "Stray" /\ r \in Stray
  BY <1>6 DEF PhoneWrites, Stray
<1> QED
  BY <1>1, <1>2, <1>3, <1>4, <1>5, <1>6, RequestKinds

(* A phone is registered with no compression that the server does not know. *)
LEMMA RegistersKnown ==
    ASSUME format \in Compression \cup {NotRegistered}, NEW r \in Request, Receive(r)
    PROVE  format' \in Compression \cup {NotRegistered}
<1> DEFINE packet == Received(PhoneWrites(r))
<1>1. CASE processConnect(packet)
  BY <1>1, CompressionKnown DEF processConnect, Admits
<1>2. CASE processSetFormat(packet)
  BY <1>2, CompressionKnown DEF processSetFormat, SetsFormat
<1>3. CASE processDisconnect(packet)
  BY <1>3 DEF processDisconnect
<1>4. CASE UNCHANGED format
  BY <1>4
<1> QED
  BY <1>1, <1>2, <1>3, <1>4 DEF Receive, processKeystroke, Nothing

LEMMA BufferHoldsBytes ==
    ASSUME datagram \in [1..InputPacketSize -> Byte], NEW r \in Request, Receive(r)
    PROVE  datagram' \in [1..InputPacketSize -> Byte]
<1> DEFINE bytes == PhoneWrites(r)
<1>1. bytes \in Seq(Byte)
  BY PhoneWritesBytes
<1>2. datagram' = Overwritten(bytes)
  BY DEF Receive
<1> HIDE DEF bytes
<1>3. InputPacketSize \in Nat /\ Len(bytes) \in Nat
  BY <1>1, WireAssumption
<1>4. ASSUME NEW i \in 1..InputPacketSize
      PROVE  (IF i <= Len(bytes) THEN bytes[i] ELSE datagram[i]) \in Byte
  BY <1>1, <1>3
<1> QED
  BY <1>2, <1>4 DEF Overwritten
=============================================================================
