SPECIFICATION FairSpec
CONSTANTS
    Messages = {m1}
    Credits = {c1}
    Amount = 2
    Costs = {0, 2}
    Low = 2
    Critical = 1
    MaxBalance = 3
    NoKey = NoKey
CHECK_DEADLOCK FALSE
PROPERTIES
    StopsHold
    BrokeBotStops
    FundedBotRecovers
