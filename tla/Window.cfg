\* Two devices that share a name and one of the other flow; no file or one of version 0.5.2.
SPECIFICATION Spec
CONSTANTS
    Absent = Absent
    None = None
    Endpoint <- SomeEndpoints
    SystemLanguage = "English"
    Language = {"Auto", "Chinese"}
    MaxPosted = 2
INVARIANTS TypeOK Reachable FileFollows  PipeFollowsSelection SelectionRemembered
PROPERTIES ChoiceSurvives PortsSurvive
