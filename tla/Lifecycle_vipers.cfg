\* Two vipers of one squadron on one leg, one order each: events and cancels of
\* one viper's order beside the other viper's guard on the same token.
CONSTANTS
    s1 = s1
    s2 = s2
    yes = yes
    Strategies <- TwoVipers
    Legs <- OneLeg
    MaxOrders = 2
    Q = 1
    MaxUnheard = 0
    ReportsOrders = TRUE
    Attempts = 1
SPECIFICATION Spec
PROPERTY OwnOrderOnly
