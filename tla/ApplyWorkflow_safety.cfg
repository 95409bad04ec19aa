\* One apply workflow and a restart beside it, two versions, outages.
SPECIFICATION FairSpec
CONSTANTS
    Calls = {c1}
    Restarts = {r1}
    SettleReads = 1
    MaxVersion = 2
CHECK_DEADLOCK FALSE
INVARIANTS OkMeansInstalled BlindInstallFollowsFailedRead DisabledOnlyByRestart
PROPERTIES LateInstallCounts CallsEnd
