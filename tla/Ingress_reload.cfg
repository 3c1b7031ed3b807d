\* Two requests and one reload that changes nothing.
SPECIFICATION Spec
CONSTANTS
    Requests = {r1, r2}
    MaxInflight = 2
    Limits <- OneLimit
    DefaultConcurrentRequests = 1
    Absent = Absent
    MaxReloads = 1
    MaxNow = 0
INVARIANTS
    InFlightStaysAccounted
