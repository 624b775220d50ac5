\* Is what one thread goes through left alone by the other?
SPECIFICATION Spec
CONSTANTS
    Address = {p1, p2}
    Nobody = Nobody
    Suspends = {TRUE}
PROPERTIES StableWhileUsed
CHECK_DEADLOCK FALSE
