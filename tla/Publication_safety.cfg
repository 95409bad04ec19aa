\* b4 writes its name before its id; every operation may fail, be interrupted
\* or be the last one of its process.
SPECIFICATION Spec
CONSTANTS
    a1 = a1  a2 = a2  v1 = v1  v2 = v2  b1 = b1  b2 = b2  b3 = b3  b4 = b4
    Publishers = {p1, p2}
    Addons = {a1, a2}
    Versions = {v1, v2}
    Builds = {b1, b2, b3, b4}
    Artifacts <- MCArtifacts
    Declares <- MCDeclares
    IdFirst = {b1, b2, b3}
    NoFile = NoFile
    Nobody = Nobody
SYMMETRY PublisherSymmetry
INVARIANTS ReferencesPresent LockedReadersSeeOneGeneration OutcomeTellsFiles
PROPERTIES PriorZipSurvives
