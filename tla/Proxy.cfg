SPECIFICATION FairSpec
CONSTANTS
    Requests = {r1, r2}
    Probes = {p}
INVARIANT TypeOK
INVARIANT CutOnlyForACause
INVARIANT MetricsMatchAnswers
PROPERTY Answered
PROPERTY TimeoutEndsProcess
CHECK_DEADLOCK FALSE
