\* Three handlers for two places, two reloads: a generation can go unused, and
\* a limit can be changed and changed back, or the key removed and restored.
\* Two requests in flight in the windows of an hour and a day of two hours.
SPECIFICATION KeySpec
CONSTANTS
    Requests = {r1, r2, r3}
    MaxInflight = 2
    Limits <- SomeLimits
    DefaultConcurrentRequests = 2
    Absent = Absent
    MaxReloads = 2
    MaxNow = 1
    Slots = {s1, s2}
    WindowLimits <- MCWindowLimits
    Reservations = {2, 3}
    MinReservation = 2
    MaxCharge = 3
    HoursPerDay = 2
    MaxHour = 2
    MaxInt64 = 8
SYMMETRY Symmetry
INVARIANTS
    SlotsConserved
    ReloadKeepsBound
    ReloadGiftsNoBurst
    NeverUndercounts
    OvershootBounded
