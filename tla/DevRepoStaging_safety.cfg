\* Two calls stage the repository while it is published up to three times.
SPECIFICATION StagingSpec
CONSTANTS
    Stagers = {s1, s2}
    MaxGeneration = 3
    Missing = Missing
    Nothing = Nothing
    Nobody = Nobody
SYMMETRY StagingSymmetry
INVARIANTS NeverOlderThanFrozen
