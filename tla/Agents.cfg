CONSTANTS
  None = None
  Answers <- Inputs
SPECIFICATION Spec
\* An agent is asked once.
CHECK_DEADLOCK FALSE
INVARIANTS FencedObjectUsed NothingInvented SpecificReasonKept GenericReasonRefused
