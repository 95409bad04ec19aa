\* Two actors that create, close and keep sweeping two directories and may die or fail in a cleanup.
SPECIFICATION FairSpec
CONSTANTS
    Actors = {a1, a2}
    Operations = {o1, o2}
    MaxFaults = 2
    NoOperation = NoOperation
    Nobody = Nobody
CHECK_DEADLOCK FALSE
INVARIANTS ActiveIsKept ReapsOnlyInactive OnlyFaultsLeave
PROPERTIES AbandonedIsReaped
