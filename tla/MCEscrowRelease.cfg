SPECIFICATION FairSpec
CONSTANTS
    e1 = e1
    e2 = e2
    e3 = e3
    Escrows = {e1, e2, e3}
    Amount <- MCAmount
    Payable <- MCPayable
    ShortFloats <- MCShortFloats
    Workers = {w1, w2}
    Requests = {r1}
    Buyer = buyer
    Creator = creator
    Opening = 105
    NoEscrow = NoEscrow
CHECK_DEADLOCK FALSE
INVARIANTS
    TokensAddUp
    ReleasedAfterWindow
PROPERTIES
    ImplementsContract
    DueIsReleased
