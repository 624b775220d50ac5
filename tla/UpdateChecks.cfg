\* Two threads at a time, eight releases; an interval of two ticks.
SPECIFICATION Spec
CONSTANTS
    Worker = {w1, w2}
    Nobody = Nobody
    Never = Never
    Installed <- ThisPreview
    Tag <- SomeTags
    NoAnswer = NoAnswer
    MaxNumber = 9
    Interval = 2
    MaxTime = 4
    MaxMessages = 1
SYMMETRY WorkerSymmetry
INVARIANTS TypeOK OneCheckAtATime UnaskedOnlyFound
PROPERTIES FoundMeansNewer
