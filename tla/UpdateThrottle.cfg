\* Are automatic checks at least an interval apart?
SPECIFICATION Spec
CONSTANTS
    Worker = {w1, w2}
    Nobody = Nobody
    Never = Never
    Installed <- ThisVersion
    Tag <- SomeTags
    NoAnswer = NoAnswer
    MaxNumber = 9
    Interval = 2
    MaxTime = 4
    MaxMessages = 1
SYMMETRY WorkerSymmetry
PROPERTIES Throttled
