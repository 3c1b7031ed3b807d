\* Three callers, one slot, room for both others: a caller is refused while a
\* woken one still has its queue token.  One request among others that change
\* the health of three replicas: more attempts than replicas, so the last
\* failure is repeated in place.
SPECIFICATION ForwardSpec
CONSTANTS
    Requests = {r1, r2, r3}
    MaxConcurrency = 1
    QueueSize = 2
    Handlers = {h1}
    Backends = {b1, b2, b3}
    MaxAttempts = 4
    None = None
INVARIANTS
    TokensConserved
    NoLostWakeup
    RetryAfterOfFinalError
PROPERTIES
    NoBarging
    ImplementsPool
    AcquireReturns
    DrainQuiesces
    RepeatsAreTheLastResort
    DispatchEnds
CHECK_DEADLOCK FALSE
