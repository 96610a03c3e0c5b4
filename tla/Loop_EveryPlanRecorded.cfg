CONSTANTS
  p1 = p1
  t1 = t1
  None = None
  Plan = {p1}
  Result <- MCResult
  Text = {t1}
  Caps = {1}
  MaxRuns = 1
  HasStorage = FALSE
SPECIFICATION Spec
CHECK_DEADLOCK FALSE
INVARIANT EveryPlanRecorded
