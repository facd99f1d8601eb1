\* Two workers, one conversation and booking, five events, no fault.
CONSTANTS
  Worker = {w1, w2}
  Conversation = {"c1"}
  Booking = {"b1"}
  NameIn <- Household
  Known = {Nothing, "bob"}
  Events <- OneBooking
  Nothing = Nothing
  MaxFailures = 0
SYMMETRY Symmetry
SPECIFICATION BookingSpec
INVARIANTS
  NeverLost
  CustomersBounded
CHECK_DEADLOCK FALSE
