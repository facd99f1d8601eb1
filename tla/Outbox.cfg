\* Two events, the newer of which the platform refuses, two publishers, one fault.
CONSTANTS
  NumEvents = 2
  Publishers = {p1, p2}
  BatchSize = 2
  Quiet = {1}
  Poison = {2}
  MaxCount = 5
  MaxOutboxFaults = 1
SPECIFICATION FairOutboxSpec
INVARIANTS
  PublishedIsDelivered
  DuplicatesBounded
PROPERTIES
  EventuallyDelivered
