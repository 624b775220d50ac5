------------------------------- MODULE Datagrams -------------------------------
(***************************************************************************)
(* The datagrams that phones and the server exchange, byte by byte: how    *)
(* numbers are laid out, what the server writes and what it reads.  Five   *)
(* bytes of header (signature, category, size) are followed by the data of *)
(* the category.  A datagram is a sequence of bytes and an offset counts   *)
(* from 0, as in the code.                                                 *)
(***************************************************************************)
EXTENDS Integers, Sequences

CONSTANTS
    PasswordFieldSize, \* the bytes a Connect has for the password, 32 in the code
    NoData             \* what a reader returns for a datagram that is too short

ASSUME DatagramsAssumption == PasswordFieldSize \in Nat \ {0}

Byte == 0..255
Word == {n \in Nat : n < 65536}

protocolSignature == 42353 \* A571
protocolVersion == 2

(* The categories of datagrams.                                            *)
Category ==
    [Error |-> 0, Connect |-> 1, Disconnect |-> 2, SetFormat |-> 3, Keystroke |-> 16,
     AudioDataUncompressed |-> 32, AudioDataOpus |-> 33, ClientKeepAlive |-> 48,
     ServerKeepAlive |-> 49, Ack |-> 240]

signatureOffset == 0
categoryOffset == 2
sizeOffset == 3
headerSize == 5
dataOffset == headerSize
keystrokeSize == 2
ackSize == 6
ackCustomDataOffset == dataOffset + 2
audioDataOffset == dataOffset + 4
connectDataSize == 4 + PasswordFieldSize
setFormatDataSize == 3

-----------------------------------------------------------------------------
(* Numbers are written and read with the high byte first.                  *)

Zeros(n) == [i \in 1..n |-> 0]

readUInt8(data, offset) == data[offset + 1]

readUInt16B(data, offset) == data[offset + 1] * 256 + data[offset + 2]

readUInt32B(data, offset) ==
    data[offset + 1] * 16777216 + data[offset + 2] * 65536
        + data[offset + 3] * 256 + data[offset + 4]

writeUInt8(value, dest, offset) == [dest EXCEPT ![offset + 1] = value]

writeUInt16B(value, dest, offset) ==
    [dest EXCEPT ![offset + 1] = (value \div 256) % 256, ![offset + 2] = value % 256]

writeUInt32B(value, dest, offset) ==
    [dest EXCEPT ![offset + 1] = (value \div 16777216) % 256,
                 ![offset + 2] = (value \div 65536) % 256,
                 ![offset + 3] = (value \div 256) % 256,
                 ![offset + 4] = value % 256]

(* The size field has 16 bits and holds the size of the whole datagram.    *)
writeHeader(category, packet) ==
    writeUInt16B(Len(packet) % 65536,
        writeUInt8(category,
            writeUInt16B(protocolSignature, packet, signatureOffset), categoryOffset), sizeOffset)

writeAck(requestId, packet) == writeUInt16B(requestId, packet, dataOffset)

-----------------------------------------------------------------------------
(* What the server writes.                                                 *)

createAudioPacket(category, sequenceNumber, audioData) ==
    LET packet == Zeros(audioDataOffset) \o audioData
    IN  writeUInt32B(sequenceNumber, writeHeader(category, packet), dataOffset)

createKeepAlivePacket == writeHeader(Category.ServerKeepAlive, Zeros(headerSize))

createDisconnectPacket == writeHeader(Category.Disconnect, Zeros(headerSize))

createAckSetFormatPacket(requestId) ==
    writeAck(requestId, writeHeader(Category.Ack, Zeros(headerSize + ackSize)))

(* The first byte of the custom data of this acknowledgement is the        *)
(* version of the protocol.                                                *)
createAckConnectPacket(requestId) ==
    writeUInt8(protocolVersion, createAckSetFormatPacket(requestId), ackCustomDataOffset)

-----------------------------------------------------------------------------
(* What the server reads.                                                  *)

getPacketCategory(packet) ==
    IF Len(packet) < headerSize \/ readUInt16B(packet, signatureOffset) # protocolSignature
    THEN Category.Error
    ELSE readUInt8(packet, categoryOffset)

getKeystroke(packet) ==
    IF Len(packet) < dataOffset + keystrokeSize THEN NoData
    ELSE [key |-> readUInt8(packet, dataOffset), mods |-> readUInt8(packet, dataOffset + 1)]

(* A C string ends before the first byte that is 0.                        *)
CString(bytes) ==
    LET ends == {i \in 1..Len(bytes) : bytes[i] = 0}
    IN  IF ends = {} THEN bytes
        ELSE SubSeq(bytes, 1, (CHOOSE i \in ends : \A j \in ends : i <= j) - 1)

(* The last byte of the field is overwritten with 0, whatever was sent.    *)
getConnectData(packet) ==
    IF Len(packet) < dataOffset + connectDataSize THEN NoData
    ELSE [protocol |-> readUInt8(packet, dataOffset),
          requestId |-> readUInt16B(packet, dataOffset + 1),
          compression |-> readUInt8(packet, dataOffset + 3),
          password |-> CString(SubSeq(packet, dataOffset + 5, dataOffset + 3 + PasswordFieldSize))]

getSetFormatData(packet) ==
    IF Len(packet) < dataOffset + setFormatDataSize THEN NoData
    ELSE [requestId |-> readUInt16B(packet, dataOffset),
          compression |-> readUInt8(packet, dataOffset + 2)]

(* The compressions: none and five rates of Opus, by their network value.  *)
Compression == 0..5

(* A faulty variant, named for its slip.                                   *)
compressionUnchecked(value) == value

compressionFromNetworkValue(value) == IF value \in Compression THEN value ELSE NoData

=============================================================================
