\* Two add-ons whose trees are edited at any time; one addon.xml begins with
\* an XML declaration.
SPECIFICATION Spec
CONSTANTS
    Workers = {w1, w2}
    Addons = {a1, a2}
    MaxVersion = 2
    MaxOperations = 5
    Headed = {a2}
    NoEntry = NoEntry
    NoFile = NoFile
    Broken = Broken
    Nobody = Nobody
SYMMETRY ManagedSymmetry
INVARIANTS AnsweredBuildDeclares PublicIsPublished AnswerIsPublished
PROPERTIES EntriesOfOthersStay
