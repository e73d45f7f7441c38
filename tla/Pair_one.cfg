SPECIFICATION Spec
CONSTANTS
    MaxOrders = 3
    Q = 2
    MaxUnheard = 1
    Firsts = {"yes", "no"}
    Accounts = {TRUE, FALSE}
    Policies = {TRUE, FALSE}
INVARIANTS
    GuardsAreOwned
PROPERTIES
    NeverFlattensGone
    HedgedLeftAlone
