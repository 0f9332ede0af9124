SPECIFICATION Spec
CONSTANTS
    c1 = c1
    c2 = c2
    e1 = e1
    e2 = e2
    e3 = e3
    p1 = p1
    p2 = p2
    Clients = {c1}
    Plans = {p1, p2}
    Entries = {e1, e2, e3}
    KindOf <- MCKindOf
    PlanOf <- MCPlanOf
    MaxTime = 2
    MaxRuns = 2
    MaxNotices = 2
    None = None
CHECK_DEADLOCK FALSE
INVARIANTS
    NoticesLead
    CompletionIdempotent
PROPERTIES
    DismissedForGood
