\* Two leads that can be written to and one that cannot; two leads a run.
CONSTANTS
  Lead = {"reached", "other", "mute"}
  Reachable = {"reached", "other"}
  Request = {"confirm1", "confirm2"}
  Chaser = {"chase1", "chase2"}
  Recaller = {"recall1", "recall2"}
  Step = {"24h", "3d"}
  Limit = 2
  None = "none"
  Budgets <- MCBudgets
SPECIFICATION FairSpec
INVARIANTS StraysBounded BookedBounded RecalledOnce
PROPERTIES ActsOnWhatItRead EventuallyChased
CHECK_DEADLOCK FALSE
