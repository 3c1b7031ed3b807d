SPECIFICATION FairSpec
CONSTANTS
    Editors = {e1}
    Keys = {k1}
    Handlers = {h1}
    MaxEdits = 0
    MaxCrashes = 0
    None = None
PROPERTY TermStops
CHECK_DEADLOCK FALSE
