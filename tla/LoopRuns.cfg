CONSTANTS
  p1 = p1
  t1 = t1
  None = None
  Plan = {p1}
  Result <- MCResult
  Text = {t1}
  Caps = {0, 1, 3}
  MaxRuns = 2
  HasStorage = TRUE
SPECIFICATION Spec
\* After MaxRuns calls the model stops.
CHECK_DEADLOCK FALSE
INVARIANTS TypeOK CapExact FeedbackFresh LogInOrder TraceComplete SavedRuns
PROPERTY KeepsContract
