CONSTANTS
  Users = {u1}
  NoUser = NoUser
  Bookings = {b1, b2}
  NoBooking = NoBooking
  Seats = {s1, s2}
  Confirmers = {c1}
  Cancellers = {k1}
  Nobody = Nobody
  Keeps = {TRUE}
  Gateways = {TRUE, FALSE}
  CallsFail = FALSE
  Unsigned = FALSE
  MaxPassengers = 2
  MaxCrashes = 0
SPECIFICATION Spec
SYMMETRY Symmetry
INVARIANT TypeOK
INVARIANT ConfirmedOwnsSeats
PROPERTY DeadStaysDead
CHECK_DEADLOCK FALSE
