SPECIFICATION FocusSpec
CONSTANTS
    DayLen = 2
    TrialDays = 3
    MaxTime = 8
    MaxUnlocks = 2
    Users = {u1, u2}
    OnTelegram = {u1}
    Senders = {w1, w2}
    BatchSize = 2
    MaxNotes = 3
    MaxCrashes = 1
    Indexers = {w1, w2}
    Owners = {r1}
    DocBatch = 2
    MaxDocs = 2
    Lengths = {5}
    ChunkSize = 3
    Overlap = 1
    MaxAborts = 1
    Visitors = {v1}
    Callers = {w1, w2}
    IpLimit = 1
    DayLimit = 2
    GenLimit = 1
CHECK_DEADLOCK FALSE
PROPERTIES
    UnlockReactivates
