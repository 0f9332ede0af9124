SPECIFICATION Spec
CONSTANTS
    None = None
    Direct = direct
    Keys = {}
    Slots = {s1, s2}
    Settings <- OpenOnly
    Templates = {t1, t2}
    Durations = {1, 2}
    Omissions = {{}, {1}}
    MaxTime = 1
    MaxEdits = 2
INVARIANT OneRowPerOccurrence
CHECK_DEADLOCK FALSE
