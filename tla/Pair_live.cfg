SPECIFICATION FairSpec
CONSTANTS
    MaxOrders = 3
    Q = 1
    MaxUnheard = 1
    Firsts = {"yes", "no"}
    Accounts = {FALSE}
    Policies = {TRUE}
PROPERTIES
    NakedLegRepaired
    KilledSaleClears
