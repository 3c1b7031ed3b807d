\* A write that fails half way, then one that succeeds, then a restart.
SPECIFICATION LogSpec
CONSTANTS
    Producers = {p1, p2}
    QueueSize = 1
    MaxHour = 0
    WindowSizes = {0}
    Answers <- Replies
    MaxUsage = 4
    Reservation = 2
INVARIANTS
    TornWriteHarmless
CHECK_DEADLOCK FALSE
