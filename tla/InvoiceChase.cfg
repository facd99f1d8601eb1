\* Three steps on consecutive days, four days, one fault.
CONSTANTS
  NumSteps = 3
  DueOn <- OneADay
  MaxDay = 3
  MaxChaseFaults = 1
SPECIFICATION ChaseSpec
INVARIANTS
  
  
  FlagIsEarned
CHECK_DEADLOCK FALSE
