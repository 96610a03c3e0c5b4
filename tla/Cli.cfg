CONSTANTS
  None = None
  Commands <- MCCommands
  Environments <- MCEnvironments
  MaxCommands = 3
SPECIFICATION Spec
\* After MaxCommands commands the model stops.
CHECK_DEADLOCK FALSE
INVARIANTS ExitTruthful LeavesNothing VouchedKept TraceOfOneRun
