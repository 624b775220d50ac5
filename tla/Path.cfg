\* One phone, every request; a device with and without resampling.
SPECIFICATION Spec
CONSTANTS
    PasswordFieldSize = 3
    InputPacketSize = 13
    NoData = NoData
    ScanCode <- SomeScanCodes
    UnknownKey = UnknownKey
    NotRegistered = NotRegistered
    Request <- SomeRequests
    Password <- SomePasswords
    FrameSize = 2
    PacketSize = {1, 3}
    Latency = 1
    MaxOutput = 3
    SeqModulus = 2
    Others = {{}, {2}}
INVARIANTS TypeOK KeysReleased HeldInOrder NothingLeftBehind NumberTellsPlace
PROPERTIES ReadsAsWritten
