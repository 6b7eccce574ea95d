CONSTANTS
  Users = {u1, u2}
  NoUser = NoUser
  Bookings = {b1}
  NoBooking = NoBooking
  Seats = {s1, s2}
  Confirmers = {c1}
  Cancellers = {}
  Nobody = Nobody
  Keeps = {TRUE, FALSE}
  Gateways = {TRUE, FALSE}
  CallsFail = TRUE
  Unsigned = TRUE
  MaxPassengers = 1
  MaxCrashes = 1
SPECIFICATION FairSpec
INVARIANT NoTicketForFree
PROPERTY FailedSagaLeavesNothing
PROPERTY ConfirmRespectsLocks
 
CHECK_DEADLOCK FALSE
