\* Two rows of the queue, one market, an auto-deployed class and one squadron the
\* operator names; two requests of the operator and one exit of the process.
SPECIFICATION FairSpec
CONSTANTS
  Rows = {r1, r2}
  Markets = {m1}
  Ids = {"class-open", "helm-open-mine"}
  ClassIds = {"class-open"}
  SeedId = "class-open"
  None = None
  MaxTasks = 2
  MaxRequests = 2
  MaxRestarts = 1
CHECK_DEADLOCK FALSE
INVARIANTS ClaimedOnce RunningIsListed SeededOnce
PROPERTIES NotReseeded KeptPopulated
