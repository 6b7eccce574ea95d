CONSTANTS
  Users = {u1, u2}
  NoUser = NoUser
  Bookings = {}
  NoBooking = NoBooking
  Seats = {s1}
  Requests = {r1}
  NoSeat = NoSeat
  TTL = 1
  MaxTime = 3
  MaxJobs = 2
  BullMQ = TRUE
SPECIFICATION FairSpec
INVARIANT TypeOK
PROPERTY LiveLockEndsByOwner
PROPERTY ImplementsLease
PROPERTY ExpiredLockReclaimed
