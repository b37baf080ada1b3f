SPECIFICATION FairSpec
CONSTANTS
  Table <- RuntimeTable
  Alpha = {"python", "go", "nodejs", "distroless"}
  Sep = {"_"}
  Num = {"2.7", "1.10", "8", "9"}
  EnvImages <- EnvImage
  Config <- ConfigTwo
  PullSecrets <- Pulls
  Requests <- RequestsDef
  MaxRev = 2
  MaxFaults = 1
  MaxTries = 1
  MaxVersion = 2
INVARIANT StartsOneRevision
INVARIANT InitMountsSound
INVARIANT PrepareAccepts
INVARIANT ValidRuntimeResolves
PROPERTY LatestStarts
CHECK_DEADLOCK FALSE
