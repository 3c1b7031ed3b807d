\* Two requests, room for one record in the channel; windows that hold one
\* record, cut one in half, or hold the log.
SPECIFICATION FairLogSpec
CONSTANTS
    Producers = {p1, p2}
    QueueSize = 1
    MaxHour = 1
    WindowSizes = {0, 3, 4}
    Answers <- Replies
    MaxUsage = 4
    Reservation = 2
INVARIANTS
    RecordsAccounted
    CloseKeepsItsWord
    ReplayMatchesLog
    CleanRestartKeepsQuota
PROPERTIES
    CloseCompletes
CHECK_DEADLOCK FALSE
