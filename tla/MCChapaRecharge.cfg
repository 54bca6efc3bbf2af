SPECIFICATION Spec
CONSTANTS
    Orders = {o1, o2}
    Handlers = {h1, h2, h3}
    Price = 10
    Payments <- MCPayments
    Etg = 2
    Bonus = 1
    MaxInternal = 2
    MaxMet = 3
    Unreadable = Unreadable
    NoOrder = NoOrder
SYMMETRY Symmetry
CHECK_DEADLOCK FALSE
INVARIANTS
    CreditedOnlyIfPaid
    CreditedOnceUnlessOverlap
    LossBounded
