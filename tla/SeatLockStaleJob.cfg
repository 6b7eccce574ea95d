CONSTANTS
  Users = {u1, u2}
  NoUser = NoUser
  Bookings = {}
  NoBooking = NoBooking
  Seats = {s1}
  Requests = {r1}
  NoSeat = NoSeat
  TTL = 2
  MaxTime = 4
  MaxJobs = 2
  BullMQ = TRUE
SPECIFICATION Spec
SYMMETRY Symmetry
INVARIANT NoTwoHolders
