CONSTANTS
  Users = {u1, u2}
  NoUser = NoUser
  Bookings = {}
  NoBooking = NoBooking
  Seats = {s1}
  Requests = {r1, r2}
  NoSeat = NoSeat
  TTL = 2
  MaxTime = 4
  MaxJobs = 1
  BullMQ = FALSE
SPECIFICATION Spec
SYMMETRY Symmetry
INVARIANT HeldIsLocked
INVARIANT NoTwoHolders
