SPECIFICATION Spec
CONSTANTS
    Plans <- MCPlans
    Master = "m"
    Goals = {"m", "g", "t", "i"}
    Tasks = {"x", "t2", "i2", "j2"}
    Blocks = {"y"}
    Repetitions = {"r", "r2"}
    TemplateRoot <- MCTemplateRoot
    Trees <- MCTrees
    Orders <- MCOrders
    Linked = {"g", "r", "i", "x", "y"}
    MaxLinks = 2
    None = "none"
INVARIANTS
    LeavesAgree
    PriorityIsTreeOrder
    ReadyOnly
PROPERTIES
    ProgressFreesOnly
