\* The io thread and the window's thread, with suspend (the two may block each other for good)
\* and without; up to three packets in a tick.
SPECIFICATION ProgramSpec
CONSTANTS
    Address = {p1, p2}
    Nobody = Nobody
    Suspends = {TRUE, FALSE}
    MaxBurst = 3
    MaxPosted = 2
INVARIANTS TypeOK LastCallWins EachPacketOnce WaitBetweenHandlers
PROPERTIES OperationsEnd MeterFalls
CHECK_DEADLOCK FALSE
