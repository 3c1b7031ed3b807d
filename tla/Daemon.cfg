SPECIFICATION FairSpec
CONSTANTS
    Editors = {e1, e2}
    Keys = {k1, k2}
    Handlers = {h1}
    MaxEdits = 1
    MaxCrashes = 1
    None = None
INVARIANTS
    EditsCompose
    FileStaysWhole
    CleanStopLosesNothing
PROPERTIES
    KeyChangesApply
    ShutdownEnds
CHECK_DEADLOCK FALSE
