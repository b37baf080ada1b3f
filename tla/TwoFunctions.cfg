SPECIFICATION FairSpec
CONSTANTS
    Names = {f, g}
    Codes = {c1, bad}
    Runtimes = {go}
    SvcTypes = {clusterIP}
    PlainHPAs = {}
    ObjectHPAs = {}
    NoHPA = NoHPA
    BadHandlers = {bad}
    BadRuntimes = {}
    EnableBuild = FALSE
    ConfigMerges = FALSE
    ForeignKinds = {}
    MaxRetries = 1
    MaxOps = 3
    MaxFaults = 1
    MaxCrashes = 1
    NoKey = NoKey
INVARIANT QueueHoldsDirty
INVARIANT OwnershipInv
PROPERTY DeletionCompletes
CHECK_DEADLOCK FALSE
