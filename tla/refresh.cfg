SPECIFICATION Spec
CONSTANTS
    r1 = r1
    r2 = r2
    b1 = b1
    t1 = t1
    f1 = f1
    i1 = i1
    i2 = i2
    Requests = {r1, r2}
    RunIds = {i1, i2}
    Blocks = {b1}
    Tasks = {t1}
    Activities = {f1}
    Duration <- MCDuration
    Horizon = 3
    MaxTime = 1
    None = None
SYMMETRY MCSymmetry
INVARIANTS
    FutureBelongsToActive
    TasksExclusive
    StateTellsTruth
    PublicationInv
PROPERTIES
    FailureKeepsSchedule
    AtomicPublication
