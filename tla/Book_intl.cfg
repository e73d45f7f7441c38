SPECIFICATION Spec
CONSTANTS
    MaxPrice = 3
    MaxEvents = 2
    MaxFaults = 1
CHECK_DEADLOCK FALSE
INVARIANTS
    DatedTruly
    NeverCrossed
    DerivedIsExact
