SPECIFICATION Spec
CONSTANTS
    Sessions = {s1}
    Plans <- MCPlans
    Parent <- MCParent
    Master = "master"
    Shell = "shell"
    TemplateRoot = "t"
    Leaves = {"tt", "ct", "ct2"}
    Clones <- MCClones
    RootClone = "c"
    CloneOf <- MCCloneOf
    Later = {"tt"}
    MaxLinks = 3
    None = "none"
INVARIANTS
    TracesMatch
    OneClonePerNode
PROPERTIES
    OnlyRefreshClosesCycles
    DetachedKept
    InstancesStandAlone
