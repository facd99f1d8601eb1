\* One worker, two conversations, three bookings, one fault.
CONSTANTS
  Worker = {w1}
  Conversation = {"c1", "c2"}
  Booking = {"b1", "b2", "b3"}
  NameIn <- Household
  Known = {Nothing, "bob"}
  Events <- Mixed
  Nothing = Nothing
  MaxFailures = 1
SPECIFICATION BookingSpec
INVARIANTS
  InDiary
  JobsBounded
  SettledAgrees

  
CHECK_DEADLOCK FALSE
