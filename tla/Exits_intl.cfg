\* A position of three lots, asks at two prices, two balance readings that fail and
\* one listing or cancel lost or tick cut off.
\* A position that is sold out takes no further step.
CHECK_DEADLOCK FALSE
SPECIFICATION FairSpec
CONSTANTS
    p1 = p1
    p2 = p2
    Size = 3
    Prices <- TwoPrices
    None = None
    MaxFails = 2
    MaxFaults = 1
INVARIANTS
    BookedAtItsPrice
    HeldIsManaged
PROPERTY LiftNoticed
