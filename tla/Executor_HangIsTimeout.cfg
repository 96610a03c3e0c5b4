CONSTANTS
  sol = sol
  tst = tst
  aux = aux
  starter = starter
  suite = suite
  fix = fix
  nothing = nothing
  None = None
  Outside = Outside
  Root = Root
  File <- MCFile
  SolutionFile = sol
  TestFile = tst
  Content <- MCContent
  StarterCode = starter
  TestCode = suite
  Empty = nothing
  SizeOf <- MCSizeOf
  Faults = {"transient", "timeout", "error"}
  Plans <- MCPlans
  MaxRetries = 1
  MaxCalls = 2
SPECIFICATION Spec
\* After MaxCalls calls the model stops.
CHECK_DEADLOCK FALSE
INVARIANT HangIsTimeout
