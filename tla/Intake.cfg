\* Two people, two requests at a time, a window of one moment.
CONSTANTS
  Request = {r1, r2}
  Forms <- MCForms
  Messages <- MCMessages
  Stored <- MCStored
  None = None
  Window = 1
  MatchLimit = 5
  Budgets <- MCBudgets
SPECIFICATION Spec
SYMMETRY Symmetry
INVARIANTS RecordsBounded BypassedBounded UntoldBounded ClobbersBounded
CHECK_DEADLOCK FALSE
