\* A booking or a lead, with an invalid envelope of the CRM's own; a producer that
\* retries until it is answered; two requests at a time, one fault.
CONSTANTS
  EventIds = {"booking", "lead", "bad"}
  Keys = {"booking", "lead", "bad"}
  Requests = {r1, r2}
  TypeOf <- OneOfAKind
  SourceOf <- FromRuntime
  KeyOf <- KeyIsId
  LocalEvents = {"bad"}
  InvalidContract = {"bad"}
  MaxFaults = 1
SPECIFICATION MCSpec
INVARIANTS
  ProcessedIsApplied
  DeliveredIsSettled
PROPERTIES
  KeepsPromise
  EventuallyApplied
CHECK_DEADLOCK FALSE
