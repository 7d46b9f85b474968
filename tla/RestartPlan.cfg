SPECIFICATION FairSpec
CONSTANTS
  Requests = {r1, r2}
  Commits = {k1}
  N = 2
  MaxAttempts = 2
  MaxPolls = 2
  MayExit = TRUE
INVARIANTS
  QuietMeansUp
PROPERTIES
  PlanIsCarriedOut
  RestartsEnd
CHECK_DEADLOCK FALSE
