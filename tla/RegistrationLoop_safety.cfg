\* One tick is five seconds: retries, floor and cap as in the code; the
\* retry times of a staging are shortened. Three faults anywhere.
CONSTANTS
    Revisions = {1, 2}
    TTLs = {2, 3, 8}
    Zips = {"none", "unusable"}
    MaxFaults = 3
    UnhealthyRetry = 1
    IntervalFloor = 2
    IntervalCap = 6
    StageRetry = 4
    StageRetryMax = 10
SPECIFICATION FairLoopSpec
CHECK_DEADLOCK FALSE
INVARIANTS
    KeptFresh
PROPERTIES
    StagingIsPaced
    Converges
