CONSTANTS
  Suite <- MCSuite
  Demos <- MCDemos
  Caps = {1, 2, 3, 4}
  MaxFaults = 3
SPECIFICATION Spec
\* A run ends.
CHECK_DEADLOCK FALSE
INVARIANTS NeverWorse BaselineGraded QueuesDrift CapStopsFirst FaultsCountOnce
