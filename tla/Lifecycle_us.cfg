\* Polymarket US (order_state is the trait's default None; the private feed says
\* when an order is complete): one viper, one leg, two orders of one contract,
\* under the fairness of FairSpec.
CONSTANTS
    s1 = s1
    s2 = s2
    yes = yes
    Strategies <- OneViper
    Legs <- OneLeg
    MaxOrders = 2
    Q = 1
    MaxUnheard = 0
    ReportsOrders = FALSE
    Attempts = 2
SPECIFICATION FairSpec
PROPERTY DoneOrderSettles
