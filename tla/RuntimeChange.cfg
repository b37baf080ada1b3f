SPECIFICATION Spec
CONSTANTS
    Names = {f}
    Codes = {c1}
    Runtimes = {go, node}
    SvcTypes = {clusterIP}
    PlainHPAs = {}
    ObjectHPAs = {}
    NoHPA = NoHPA
    BadHandlers = {}
    BadRuntimes = {}
    EnableBuild = FALSE
    ConfigMerges = FALSE
    ForeignKinds = {}
    MaxRetries = 5
    MaxOps = 2
    MaxFaults = 0
    MaxCrashes = 0
    NoKey = NoKey
INVARIANT RuntimeFollowed
CHECK_DEADLOCK FALSE
