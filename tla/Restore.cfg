SPECIFICATION FairSpec
CONSTANTS
  Units = {"ledger", "model"}
  Ledger = "ledger"
  Archives = {"whole", "bare"}
  Carries <- BothCarry
  Own = "own"
  Fresh = "fresh"
  None = None
  MaxCrashes = 3
  MaxFaults = 2
CHECK_DEADLOCK FALSE
INVARIANTS NeverMixes NothingLost ReportedIsRestored
PROPERTIES Concludes
