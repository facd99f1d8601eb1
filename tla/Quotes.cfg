\* Two requests at a time, two texts, five writes, one fault.
CONSTANTS
  r1 = r1  r2 = r2  k1 = k1  k2 = k2
  Request <- MCRequest
  Saved <- MCSaved
  Step <- MCStep
  MaxWrites = 5
  MaxFaults = 1
SPECIFICATION Spec
SYMMETRY Symmetry
INVARIANTS RefusalsBounded TellsTruth ChaseStops
CHECK_DEADLOCK FALSE
