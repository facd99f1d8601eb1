\* One appointment of the office's and one of the platform's, two times, two requests.
CONSTANTS
  r1 = r1  r2 = r2  a1 = a1  p1 = p1  s1 = s1  s2 = s2
  None = None
  Request <- MCRequest
  Office <- MCOffice
  Platform <- MCPlatform
  Slot <- MCSlot
  Reachable <- MCReachable
  MaxWrites = 3
  MaxFaults = 1
SPECIFICATION Spec
SYMMETRY Symmetry
INVARIANTS RemindersMatch RemindedOnce
PROPERTY LandsFree
CHECK_DEADLOCK FALSE
