\* Two phones, two compressions, no password; the server refines Session.
\* Liveness, so no symmetry.
SPECIFICATION FairSpec
CONSTANTS
    Address = {p1, p2}
    Format = {none, opus}
    NoClient = NoClient
    BadFormat = BadFormat
    Timeout = 1
    Period = 1
    Slack = 1
    PasswordRequired = FALSE
    MaxInFlight = 1
INVARIANTS StaleClientsExpire
PROPERTIES KeepsPromise SilentPhoneForgotten MembersHearFromServer
