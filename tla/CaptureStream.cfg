\* Two devices, packets smaller and larger than a frame.  A crash ends the behaviour.
SPECIFICATION FairSpec
CONSTANTS
    Device = {d1, d2}
    NoDevice = NoDevice
    Opus = {opus1, opus2}
    Uncompressed = none
    FrameSize = 3
    PacketSize = {2, 7}
    SilenceSize = 1
    BufferDuration = 3
    SeqModulus = 4
    MaxBurst = 2
    MaxQueue = 2
INVARIANTS TypeOK OneTickPerPipe EncodersFollow DelayBounded
PROPERTIES NumbersConsecutive StreamFlows
CHECK_DEADLOCK FALSE
