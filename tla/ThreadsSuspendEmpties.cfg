\* Is the registry emptied once suspend has been signalled?
SPECIFICATION FairSpec
CONSTANTS
    Address = {p1, p2}
    Nobody = Nobody
    Suspends = {TRUE}
PROPERTIES SuspendEmpties
CHECK_DEADLOCK FALSE
