\* Seven parts that share no variable.  A browser or a schema that is done
\* may stop: nothing has to follow.
SPECIFICATION PartsSpec
CONSTANTS
  Workers = {w1, w2}
  Mortals = {w1}
  MaxCrashes = 1
  Sections <- TwoSections
  Requests = {q1, q2}
  Calls = {1, 2}
  MaxCodes = 2
  MaxClock = 1
  MaxFlips = 2
  No = No
  MaxAttempts = 3
  MaxTries = 5
  Ttl = 1
  Flight = 1
  t1 = t1
  t2 = t2
  Trains = {t1, t2}
  Lists <- BothOrders
  Notes = {n1, n2}
  MaxFaults = 4
  Starts = {11}
  MaxMonth = 37
INVARIANTS PartsTypeOK SignInCounts StartupWhole AnswerAge SeatsComeWithTrain
  MonthCovered
PROPERTIES SchemaDone NotificationSettles
CHECK_DEADLOCK FALSE
