--------------------------------- MODULE Wire ---------------------------------
(***************************************************************************)
(* Server::receive and its handlers on the bytes they get, for one phone:  *)
(* what arrives lands in a buffer that still holds the datagrams before    *)
(* it, is read by NetUtil, and leads to a registration, an acknowledgement *)
(* or a keystroke on the computer.  Server has the same handlers with the  *)
(* requests as records, and with the timeouts and failures that are left   *)
(* out here.                                                               *)
(***************************************************************************)
EXTENDS Datagrams, Keystrokes

CONSTANTS
    InputPacketSize, \* the size of the buffer, 1024 in the code
    Request,         \* the requests a phone, or another program, may send
    Password,        \* what the settings may hold as password
    NotRegistered    \* the phone is not registered

(* There is room for a Connect of a later version.                         *)
ASSUME WireAssumption == InputPacketSize \in Nat /\ InputPacketSize > dataOffset + connectDataSize

VARIABLES
    password, \* password_
    datagram, \* the buffer of Server::receive
    request,  \* the request that arrived last, or NoData
    format,   \* what the phone is registered with in clients_, or NotRegistered
    reply,    \* the acknowledgement sent for that request, bytes, or NoData
    inputs,   \* the key events inserted for that request
    logged    \* the names in the line that it adds to the window's log, or NoData

wireVars == <<password, datagram, request, format, reply, inputs, logged>>

-----------------------------------------------------------------------------
(* The phone's side.                                                       *)

Padded(typed) == [i \in 1..PasswordFieldSize |-> IF i <= Len(typed) THEN typed[i] ELSE 0]

Written(category, data) == writeHeader(category, Zeros(headerSize) \o data)

Two(n) == <<n \div 256, n % 256>>

(* A bit for each modifier: Win, Ctrl, Shift and Alt.                      *)
PhoneBits(mods) ==
    (IF 91 \in mods THEN 1 ELSE 0) + (IF 17 \in mods THEN 2 ELSE 0)
        + (IF 16 \in mods THEN 4 ELSE 0) + (IF 18 \in mods THEN 8 ELSE 0)

(* The datagram of a request.  A phone of the first version of the         *)
(* protocol writes a Connect without the password field, one of a later    *)
(* version adds to it; a datagram of another program has another signature. *)
PhoneWrites(r) ==
    CASE r.kind = "Connect" ->
            Written(Category.Connect,
                <<r.version>> \o Two(r.id) \o <<r.compression>>
                    \o (IF r.version >= protocolVersion THEN Padded(r.password) ELSE <<>>)
                    \o (IF r.version > protocolVersion THEN <<r.version>> ELSE <<>>))
      [] r.kind = "SetFormat" -> Written(Category.SetFormat, Two(r.id) \o <<r.compression>>)
      [] r.kind = "Keystroke" -> Written(Category.Keystroke, <<r.key, PhoneBits(r.mods)>>)
      [] r.kind = "Disconnect" -> Written(Category.Disconnect, <<>>)
      [] r.kind = "KeepAlive" -> Written(Category.ClientKeepAlive, <<>>)
      [] r.kind = "Stray" -> r.bytes

(* The requests: numbers fit their fields, no character of a password is 0, *)
(* and what no phone sends has a category that the server does not handle. *)
Character == 1..255

Requested ==
    [kind : {"Connect"}, version : Byte, id : Word, compression : Byte, password : Seq(Character)]
        \cup [kind : {"SetFormat"}, id : Word, compression : Byte]
        \cup [kind : {"Keystroke"}, key : Byte, mods : SUBSET {91, 17, 16, 18}]
        \cup [kind : {"Disconnect", "KeepAlive"}]

Stray ==
    {r \in [kind : {"Stray"}, bytes : Seq(Byte)] :
        /\ Len(r.bytes) <= InputPacketSize
        /\ getPacketCategory(r.bytes) \notin
              {Category.Connect, Category.Disconnect, Category.SetFormat, Category.Keystroke}}

ASSUME RequestAssumption == Request \subseteq Requested \cup Stray

(* No two keys that phones send have the same name.                        *)
ASSUME NamesAssumption ==
    \A r, q \in Request :
        /\ r.kind = "Keystroke" /\ q.kind = "Keystroke"
        /\ getVkCodeDescription(r.key) = getVkCodeDescription(q.key)
        => r.key = q.key

(* NoData is nothing that is read, sent or logged.                         *)
ASSUME NoDataAssumption ==
    /\ NoData \notin Compression
    /\ NoData \notin Seq(Nat)
    /\ NoData \notin [protocol : Byte, requestId : Word, compression : Byte, password : Seq(Byte)]
    /\ NoData \notin [requestId : Word, compression : Byte]
    /\ NoData \notin [key : Byte, mods : Byte]
    /\ \A r \in Request : r.kind = "Keystroke" => NoData # toString(r.key, r.mods)

(* What the phone makes of an acknowledgement.                             *)
PhoneReadsAck(packet) ==
    IF packet = NoData THEN NoData
    ELSE [id |-> readUInt16B(packet, dataOffset), version |-> readUInt8(packet, ackCustomDataOffset)]

-----------------------------------------------------------------------------
(* Settings::getPassword keeps the ASCII characters.                       *)
getPassword(wide) == SelectSeq(wide, LAMBDA ch : ch < 128)

Passwords == {getPassword(wide) : wide \in Password}

(* What arrives overwrites the front of the buffer.                        *)
Overwritten(bytes) ==
    [i \in 1..InputPacketSize |-> IF i <= Len(bytes) THEN bytes[i] ELSE datagram[i]]

(* Faulty variants, here and below, are named for their slip.              *)
ReceivedWholeBuffer(bytes) == Overwritten(bytes)

(* The handlers see as much of the buffer as has arrived.                  *)
Received(bytes) == SubSeq(Overwritten(bytes), 1, Len(bytes))

(* An empty password_ asks for none.                                       *)
Admits(data) ==
    /\ data # NoData
    /\ compressionFromNetworkValue(data.compression) # NoData
    /\ password # <<>> => data.password = password

NoKeys == inputs' = <<>> /\ logged' = NoData

processConnect(packet) ==
    LET data == getConnectData(packet)
    IN  /\ IF Admits(data)
           THEN /\ format' = data.compression
                /\ reply' = createAckConnectPacket(data.requestId)
           ELSE UNCHANGED format /\ reply' = NoData
        /\ NoKeys

processDisconnect(packet) == format' = NotRegistered /\ reply' = NoData /\ NoKeys

SetsFormat(data) == data # NoData /\ compressionFromNetworkValue(data.compression) # NoData

(* setCompression changes a phone that is registered.                      *)
processSetFormat(packet) ==
    LET data == getSetFormatData(packet)
    IN  /\ IF SetsFormat(data)
           THEN /\ format' = IF format = NotRegistered THEN NotRegistered ELSE data.compression
                /\ reply' = createAckSetFormatPacket(data.requestId)
           ELSE UNCHANGED format /\ reply' = NoData
        /\ NoKeys

onReceiveKeystroke(key, mods) == logged' = toString(key, mods)

(* The keystroke is replayed, and logged whether or not it was taken.      *)
processKeystroke(packet) ==
    LET data == getKeystroke(packet)
    IN  /\ IF data # NoData
           THEN /\ inputs' \in Emulated(data.key, Mods(data.mods))
                /\ onReceiveKeystroke(data.key, Mods(data.mods))
           ELSE NoKeys
        /\ reply' = NoData
        /\ UNCHANGED format

-----------------------------------------------------------------------------
Nothing == reply' = NoData /\ NoKeys /\ UNCHANGED format

(* One round of the loop in Server::receive.                               *)
Receive(r) ==
    LET packet == Received(PhoneWrites(r))
        category == getPacketCategory(packet)
    IN  /\ datagram' = Overwritten(PhoneWrites(r))
        /\ request' = r
        /\ CASE category = Category.Connect -> processConnect(packet)
             [] category = Category.Disconnect -> processDisconnect(packet)
             [] category = Category.SetFormat -> processSetFormat(packet)
             [] category = Category.Keystroke -> processKeystroke(packet)
             [] OTHER -> Nothing
        /\ UNCHANGED password

WireInit ==
    /\ password \in Passwords
    /\ datagram = Zeros(InputPacketSize)
    /\ request = NoData
    /\ format = NotRegistered
    /\ reply = NoData
    /\ inputs = <<>>
    /\ logged = NoData

WireNext == \E r \in Request : Receive(r)

-----------------------------------------------------------------------------
(* Properties.                                                             *)

(* What Windows sees of the keystroke: the key, and the modifiers that are *)
(* down when it goes down.                                                 *)
Pressed ==
    IF inputs = <<>> THEN NoData
    ELSE LET n == CHOOSE i \in 1..Len(inputs) : inputs[i].extended /\ ~inputs[i].up
         IN  [key |-> inputs[n].vk, mods |-> HeldAfter(inputs, n - 1)]

(* The keystroke that the line in the log stands for: a key that phones    *)
(* send and no other that they send has the key's name.                    *)
Named ==
    IF logged = NoData THEN NoData
    ELSE [mods |-> {Front(logged)[i][2] : i \in DOMAIN Front(logged)},
          key |-> CHOOSE k \in {r.key : r \in {q \in Request : q.kind = "Keystroke"}} :
                      getVkCodeDescription(k) = Last(logged)]

R == INSTANCE Requests WITH
        Password <- Passwords, Known <- Compression, NoAck <- NoData, Version <- protocolVersion,
        Longest <- PasswordFieldSize - 1,
        ack <- PhoneReadsAck(reply), pressed <- Pressed,
        logged <- Named

(* Whatever the buffer still holds of earlier datagrams, however short or  *)
(* foreign a datagram is and whatever was typed, the server does with the  *)
(* bytes what the request meant, the phone reads its own id in the answer  *)
(* and the user the right keys in the log.                                 *)
ReadsAsWritten == R!Spec

(* After each keystroke no key stays down, in whichever order the set      *)
(* lists the modifiers.                                                    *)
KeysReleased == HeldAfter(inputs, Len(inputs)) = {}

=============================================================================
