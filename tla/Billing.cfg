\* Two requests, one plan put, three invoices, one fault.
CONSTANTS
  Request = {r1, r2}
  Quotes <- OddQuotes
  Plans <- StageFirst
  MaxPuts = 1
  MaxInvoices = 3
  MaxFaults = 1
SYMMETRY Symmetry
SPECIFICATION Spec
INVARIANTS
  DuplicatesBounded
  SchedulesTellTruth
  
  
CHECK_DEADLOCK FALSE
