\* Router: three replicas of different weight, every strategy, streaks that are
\* short or past what the word can hold.  Affinity: four possible entries for a
\* table of two, and a clock that outlives an entry.
SPECIFICATION Spec
CONSTANTS
    Attempts = {a1}
    Weight <- Weights
    Strategies = {"single", "round-robin", "weighted-round-robin", "least-inflight",
                  "weighted-least-inflight"}
    MaxLoad = 1
    Streaks = {0, 31}
    Lengths = {1, 2, 32}
    ShiftCap = 16
    MaxCooldown = 2
    WidthShift = 30
    Users = {u1, u2}
    Models = {m1, m2}
    Owners = {b1}
    Resps = {p1, p2}
    Calls = {c1, c2}
    MaxEntries = 2
    Probe = 1
    TTL = 0
    MaxNow = 1
    Nothing = Nothing
SYMMETRY Symmetry
INVARIANTS
    NoReplicaStarves
    PinnedToOwner
PROPERTIES
    FailureExtendsCooldown
    EvictionIsExact
CHECK_DEADLOCK FALSE
