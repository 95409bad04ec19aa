\* Two server processes, a store of one screenshot, four captures and one
\* GET, with one failure anywhere.
CONSTANTS
    Processes = {p1, p2}
    MaxFiles = 1
    Retention = TRUE
    MaxCaptures = 4
    MaxGets = 1
    MaxAgings = 1
    MaxFailures = 1
SPECIFICATION ScreenshotSpec
SYMMETRY Symmetry
CHECK_DEADLOCK FALSE
INVARIANTS
    StoreIsBounded
    ServedIsWhole
PROPERTIES
    OnlySupersededLeave
