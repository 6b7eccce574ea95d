\* Twelve parts that share no variable.  Users of the waiting list and of a
\* booking may stop: nothing has to follow.
SPECIFICATION Spec
CONSTANTS
  Calls = {k1, k2}
  Users = {u1, u2}
  NoUser = NoUser
  Entries = {e1, e2, e3}
  Classes = {A, B}
  Total <- SixEach
  MaxPassengers = 1
  MaxCancels = 2
  Bookings = {b1}
  Price = 100
  Size = 3
  Rows = {r1}
  NoBooking = NoBooking
  Seats = {1, 2, 3}
  Requests = {q1, q2}
  Wanted <- WantedLists
  MaxSeats = 2
  Places = {1, 2}
  MaxBookings = 2
  Attempts = {a1, a2, a3}
  NoAttempt = NoAttempt
  Lots = {l1, l2}
  Stray = Stray
  NoLot = NoLot
  Orders = {o1, o2}
  NoOrder = NoOrder
  Amounts = {1, 2}
  Silver = 3
  MaxCalls = 3
  Downloads = {1, 2, 3}
  Threshold = 3
  Timeout = 1
  MaxFailures = 5
  Pnrs = {1, 2}
  MaxTickets = 2
  NoSocket = 0
  MaxSockets = 3
  Tabs = {1, 2}
  MaxSetups = 2
  Numbers = {1, 2}
  NoNumber = 0
  MaxEdits = 3
SYMMETRY Symmetry
INVARIANTS TypeOK NumbersKept CancellationAddsUp NoOrphanLock SoldOnce
  OneTicketPerKey SuccessIsSettled MoneyAccounted TicketsAreTheirs
  TrackingHonest EnrolmentHonest
PROPERTIES AnsweredInFull GeneratorSpared
CHECK_DEADLOCK FALSE
