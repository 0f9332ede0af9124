SPECIFICATION Spec
CONSTANTS
    None = None
    Direct = direct
    Keys = {k1}
    Slots = {s1}
    Settings <- MCSettings
    Templates = {t1, t2}
    Durations = {1, 2}
    Omissions = {{}, {1}}
    MaxTime = 1
    MaxEdits = 2
INVARIANTS
    OccurrencesDense
    AnswersTrue
PROPERTIES
    AsPreviewed
    SuccessTold
CHECK_DEADLOCK FALSE
