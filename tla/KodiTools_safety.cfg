\* One call of any tool beside a user and other clients that change anything
\* at any time; two values of the setting, two titles and a malformed one on pages of one.
SPECIFICATION Spec
CONSTANTS
    Calls = {c1}
    Values = {1, 2}
    Titles = {1, 2, 3}
    MaxWrites = 4
    MaxRetries = 1
    VerifyAttempts = 4
    StableChecks = 2
    Polls = 2
    MaxCaptures = 2
    Limit = 1
    Malformed = {3}
    CountRequests = 2
CHECK_DEADLOCK FALSE
INVARIANTS AtMostOnce OkMeansExecuted WalkIsComplete
PROPERTIES TransportSpec
