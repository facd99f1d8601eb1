\* A note v2 may take over and an alert, two tries, scheduled twice; two dispatchers that
\* share the note, or one with both rows.
CONSTANTS
  Notes = {note, alert}
  Alerts = {alert}
  V2Notes = {note}
  Dispatchers = {d1, d2}
  Limit = 2
  MaxAttempts = 2
  MaxRevisions = 2
  MaxFaults = 2
SPECIFICATION MCSpec
INVARIANTS
  
  DuplicatesBounded
PROPERTIES
  EventuallySettled
