SPECIFICATION FocusSpec
CONSTANTS
    o1 = o1
    o2 = o2
    Users = {a, b, c}
    Transfers = {x1, x2}
    Requests = {r1, r2}
    NoUser = NoUser
    NoTransfer = NoTransfer
    Emails = {e}
    TelegramIds = {g}
    SuperAdmins = {g}
    MaxIssued = 3
    MaxExpired = 1
    Owners = {o1, o2}
    BotTokens = {x1, x2}
    Nothing = Nothing
    Links <- MCLinks
    MaxTaps = 1
    Keys = {x1, x2}
    Editors = {r1, r2}
    Visitors = {v}
    MaxEdits = 2
    Tenants = {b1, b2}
    Hosts = {x1, x2}
    MaxTokens = 2
    Askers = {r1, r2}
    Agents = {x1, x2}
    Shops = {b1}
    Cap = 1
    Ratings = {5}
    Callers = {r1, r2}
    MaxPurchases = 2
CHECK_DEADLOCK FALSE
SYMMETRY Symmetry
INVARIANTS
    WelcomedAtFirstBot
