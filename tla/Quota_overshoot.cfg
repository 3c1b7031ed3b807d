\* One reservation, and requests whose prompt is longer than it.
SPECIFICATION QuotaSpec
CONSTANTS
    Slots = {r1, r2}
    WindowLimits <- OneWindow
    Reservations = {1}
    MinReservation = 1
    MaxCharge = 3
    HoursPerDay = 2
    MaxHour = 1
    MaxInt64 = 9
INVARIANTS
    OvershootWithinReservations
