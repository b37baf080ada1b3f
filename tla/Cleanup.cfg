SPECIFICATION FairSpec
CONSTANTS
    Names = {f}
    Codes = {c1, c2}
    Runtimes = {go}
    SvcTypes = {clusterIP}
    PlainHPAs = {}
    ObjectHPAs = {qps}
    NoHPA = NoHPA
    BadHandlers = {}
    BadRuntimes = {}
    EnableBuild = TRUE
    ConfigMerges = TRUE
    ForeignKinds = {"deployment"}
    MaxRetries = 1
    MaxOps = 3
    MaxFaults = 1
    MaxCrashes = 1
    NoKey = NoKey
INVARIANT TypeOK
INVARIANT Converged
INVARIANT NoOrphans
INVARIANT NoWriteBack
PROPERTY WorkloadKept
PROPERTY RefinesLifecycle
PROPERTY ComesToRest
CHECK_DEADLOCK FALSE
