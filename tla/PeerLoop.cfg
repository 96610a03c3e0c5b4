CONSTANTS
  sol = sol
  tst = tst
  starter = starter
  suite = suite
  fix = fix
  nothing = nothing
  words = words
  None = None
  Outside = Outside
  Root = Root
  File <- MCFile
  SolutionFile = sol
  TestFile = tst
  Content <- MCContent
  StarterCode = starter
  TestCode = suite
  Empty = nothing
  SizeOf <- MCSizeOf
  Faults = {"transient"}
  MaxRetries = 1
  Plan <- MCPlan
  Text = {words}
  Caps = {0, 2}
  MaxRuns = 2
  HasStorage = FALSE
  MaxLog = 5
SPECIFICATION Spec
\* After MaxRuns calls the model stops.
CHECK_DEADLOCK FALSE
INVARIANTS ExecutedOnce EvidenceOwn NoForeignCode SuccessInPlace
PROPERTY KeepsLoop
