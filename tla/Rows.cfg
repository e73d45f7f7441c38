CONSTANTS
    Squadrons = {s1, s2}
    MaxLot = 2
    MaxHeld = 2
    MaxUnheard = 1
    MaxRestarts = 1
SYMMETRY Symmetry
SPECIFICATION Spec
CHECK_DEADLOCK FALSE
INVARIANTS NoOversell AdoptedOnce BookedOnce
PROPERTY LotsGuarded
CONSTRAINT Explored
