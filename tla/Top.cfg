SPECIFICATION FairSpec
CONSTANTS
    Functions = {f1, f2, f3}
    Timeout = 2
    Scrapes <- ScrapesDef
CHECK_DEADLOCK FALSE
INVARIANT TypeOK
INVARIANT SendNeverBlocks
INVARIANT MissingOnlyIfLate
INVARIANT AverageOfRow
PROPERTY TopEnds
