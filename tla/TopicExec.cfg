SPECIFICATION FairSpec
CONSTANTS
    MaxChunks = 2
    MaxMessages = 3
INVARIANT TypeOK
INVARIANT ErrChanSafe
INVARIANT OkMeansCompleteOrCut
PROPERTY CommandEnds
CHECK_DEADLOCK FALSE
