\* Two phones, two compressions, two datagrams in the network at a time.
SPECIFICATION Spec
CONSTANTS
    Address = {p1, p2}
    Format = {none, opus}
    NoClient = NoClient
    BadFormat = BadFormat
    Timeout = 1
    Period = 1
    Slack = 0
    PasswordRequired = TRUE
    MaxInFlight = 2
SYMMETRY PhoneSymmetry
INVARIANTS TypeOK ListenersAgree AckedIsRegistered
PROPERTIES OnlyConnectAdmits FarewellReachesAll
