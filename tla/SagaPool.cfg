CONSTANTS
  Users = {u1}
  NoUser = NoUser
  Bookings = {b1}
  NoBooking = NoBooking
  Seats = {s1}
  Confirmers = {c1}
  Cancellers = {k1}
  Nobody = Nobody
  Keeps = {FALSE}
  Gateways = {TRUE}
  CallsFail = FALSE
  Unsigned = FALSE
  MaxPassengers = 1
  MaxCrashes = 0
SPECIFICATION Spec
SYMMETRY Symmetry
INVARIANT ConfirmedOwnsSeats
CHECK_DEADLOCK FALSE
