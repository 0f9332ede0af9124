SPECIFICATION Spec
CONSTANTS
    walk = walk
    read = read
    goal1 = goal1
    rep1 = rep1
    inst1 = inst1
    block1 = block1
    transit = transit
    FreeTime = freetime
    Default = default
    None = None
    WeekAnchors <- MCWeekAnchors
    Families <- MCFamilies
    FamilyLists <- MCFamilyLists
    Ids <- MCIds
    Requests = {r1}
    Shares = {0, 1, 2, 3}
    Whole = 3
    MinimumSizes = {1, 2}
    Sent <- MCSent
    Drafts <- MCDrafts
    Plans <- MCPlans
    Kind <- MCKind
    Parent <- MCParent
    Critical = {rep1, inst1, block1}
    Template = {}
    Generated = {rep1}
    Horizon = 8
    Moments = {2}
    Calendars <- MCCalendars
INVARIANTS
    TypeOK
    ReferencesHold
PROPERTIES
    EditsKeepValid
    EvidenceKept
    OnlyUnblockedPlanned
    PlannedWhereAllowed
    ShareGiven
CHECK_DEADLOCK FALSE
