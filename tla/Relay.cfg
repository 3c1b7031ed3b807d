\* A body of two, a budget of three bytes, a stream of at most two
\* full events and a short one.
SPECIFICATION FairSpec
CONSTANTS
    MaxBody = 2
    Total = 6
    Weight = 2
    MaxResponseBytes = 5
    Cap = 2
    None = None
INVARIANTS
    BudgetSound
    RelayFaithful
    ReaderNeverRunsAhead
    ServedIsCharged
    OutputCapped
PROPERTIES
    RelayEnds
