CONSTANTS
  a = a
  b = b
  d = d
  None = None
  Client = {a, b, d}
  Counts = {2}
  MaxSaves = 2
SPECIFICATION Spec
INVARIANTS SavedForGood WholeUnlessFailed RecordCommitted IdleHoldsNothing TablesThere
PROPERTIES CallsEnd KeepsTable
