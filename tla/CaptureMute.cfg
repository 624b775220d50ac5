\* Does the mute button show whether the pipe is muted?
SPECIFICATION Spec
CONSTANTS
    Device = {d1, d2}
    NoDevice = NoDevice
    Opus = {opus}
    Uncompressed = none
    FrameSize = 2
    PacketSize = {1, 4}
    SilenceSize = 1
    BufferDuration = 3
    SeqModulus = 4
    MaxBurst = 2
    MaxQueue = 1
INVARIANTS MuteButtonHolds
CHECK_DEADLOCK FALSE
