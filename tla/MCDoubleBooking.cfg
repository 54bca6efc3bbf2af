SPECIFICATION FocusSpec
CONSTANTS
    d = d
    e = e
    Bookings = {b1, b2}
    Sessions = {s1, s2}
    Handlers = {h1, h2}
    DayLen = 4
    Hour = 1
    Open = 0
    Close = 3
    Durations = {1, 2}
    NumSlots = 2
    MaxTime = 4
    NoBooking = NoBooking
    Runs = {h1, h2}
    Starts = {2, 4}
    Day = 3
    LastTick = 3
    MaxSent = 2
    Updates = {u}
    Terms <- MCTerms
    Tariffs <- MCTariffs
    Usage <- MCUsage
    NoLimit = NoLimit
    Credits = {2}
    MaxCredits = 1
    MaxMonth = 2
    NoModel = NoModel
    Models = {d, e}
    Default = d
    Fallback = e
    Emergency = e
    Amharic <- MCAmharic
    Wishes <- MCWishes
    Chains <- MCChains
    Overrides = {d}
    Switched = {d}
    FailThreshold = 2
    Calls = {c}
CHECK_DEADLOCK FALSE
SYMMETRY Symmetry
INVARIANTS
    NoDoubleBooking
