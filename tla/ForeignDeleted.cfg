SPECIFICATION Spec
CONSTANTS
    Names = {f}
    Codes = {c1}
    Runtimes = {go}
    SvcTypes = {clusterIP}
    PlainHPAs = {}
    ObjectHPAs = {}
    NoHPA = NoHPA
    BadHandlers = {}
    BadRuntimes = {}
    EnableBuild = FALSE
    ConfigMerges = FALSE
    ForeignKinds = {"deployment"}
    MaxRetries = 5
    MaxOps = 3
    MaxFaults = 0
    MaxCrashes = 0
    NoKey = NoKey
PROPERTY ForeignKept
CHECK_DEADLOCK FALSE
