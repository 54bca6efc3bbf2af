SPECIFICATION Spec
CONSTANTS
    Requests = {r1, r2}
    Costs <- MCCosts
    Grants <- MCGrants
    Prices <- MCPrices
    Markup = 1
    GenCost = 1
    Opening = 2
    MaxOps = 3
    NoValue = NoValue
CHECK_DEADLOCK FALSE
INVARIANTS
    NeverNegative
    CacheTellsBalance
PROPERTIES
    ImplementsContract
    LedgerTellsBalance
