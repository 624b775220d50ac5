\* Is the capture's frame destroyed once?
SPECIFICATION Spec
CONSTANTS
    Device = {d1, d2}
    NoDevice = NoDevice
    Opus = {opus}
    Uncompressed = none
    FrameSize = 2
    PacketSize = {1, 4}
    SilenceSize = 1
    BufferDuration = 3
    SeqModulus = 4
    MaxBurst = 2
    MaxQueue = 1
INVARIANTS FrameDestroyedOnce
CHECK_DEADLOCK FALSE
