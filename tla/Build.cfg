SPECIFICATION FairSpec
CONSTANTS
    None = None
    Auths = 1
    Specs <- SmallSpecs
    Version = "v1"
    MaxUpdates = 1
    BackoffLimit = 1
INVARIANT BuiltFromItsSpec
INVARIANT WellFormedImage
PROPERTY DeployedImageAppears
