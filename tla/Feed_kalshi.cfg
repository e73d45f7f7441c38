SPECIFICATION FairSpec
CONSTANTS
    Tickers = {"a", "b"}
    Orders = {"x", "y"}
    OrderSize = 1
    MaxQty = 1
    MaxWire = 2
    MaxFills = 1
INVARIANTS
    ReadyIsExact
    NeverOvercounts
PROPERTIES
    BookArrives
