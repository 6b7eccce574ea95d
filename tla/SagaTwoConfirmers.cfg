CONSTANTS
  Users = {u1}
  NoUser = NoUser
  Bookings = {b1}
  NoBooking = NoBooking
  Seats = {s1}
  Confirmers = {c1, c2}
  Cancellers = {}
  Nobody = Nobody
  Keeps = {TRUE}
  Gateways = {TRUE}
  CallsFail = FALSE
  Unsigned = FALSE
  MaxPassengers = 1
  MaxCrashes = 0
SPECIFICATION Spec
SYMMETRY Symmetry
PROPERTY ConfirmedEndsByCancel
CHECK_DEADLOCK FALSE
