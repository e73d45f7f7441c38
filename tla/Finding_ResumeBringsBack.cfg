\* One market and two requests: a named squadron is deployed, and the instance retired.
SPECIFICATION Spec
CONSTANTS
  Rows = {r1, r2}
  Markets = {m1}
  Ids = {"class-open", "helm-open-mine"}
  ClassIds = {"class-open"}
  SeedId = "class-open"
  None = None
  MaxTasks = 1
  MaxRequests = 2
  MaxRestarts = 1
CHECK_DEADLOCK FALSE
PROPERTY ResumeBringsBack
