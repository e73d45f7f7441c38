\* Kalshi (order_state answers): one viper quoting one leg, two orders of two
\* contracts, so that an order can trade in part, be sold in part and be
\* followed by a second one while its events and figures are still on the way.
CONSTANTS
    s1 = s1
    s2 = s2
    yes = yes
    Strategies <- OneViper
    Legs <- OneLeg
    MaxOrders = 2
    Q = 2
    MaxUnheard = 1
    ReportsOrders = TRUE
    Attempts = 2
SPECIFICATION Spec
INVARIANTS
    TypeOK
    GuardBacked
    NoOversell
    QuoteGuardTracked
    NothingForgotten
    FillNotLost
    OneWorkingQuote
    RowsFollowGuards
    LeavesNothingBehind
PROPERTIES
    ConfirmedKept
    KeepsPromise
