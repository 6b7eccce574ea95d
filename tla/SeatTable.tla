------------------------------ MODULE SeatTable ------------------------------
(***************************************************************************)
(* One row of the table "seats" (migrations/index.ts) and the SQL          *)
(* statements that read or write it, each as an operator on a row.  Every  *)
(* statement is a single UPDATE ... WHERE, which PostgreSQL evaluates      *)
(* atomically on the row, so a module that uses these operators never has  *)
(* to split one.  The instant NULL is 0: no clock of a module that uses    *)
(* these rows gives a lock the expiry 0.                                   *)
(***************************************************************************)
EXTENDS Integers

CONSTANTS Users,      \* the users whose ids may appear in locked_by
          NoUser,     \* locked_by IS NULL
          Bookings,   \* the ids of the rows of table bookings
          NoBooking   \* booking_id IS NULL

ASSUME SeatsAssumption == /\ NoUser \notin Users
                          /\ NoBooking \notin Bookings

SeatStatus == {"AVAILABLE", "LOCKED", "BOOKED"}

SeatRow == [status : SeatStatus,
            locked_by : Users \cup {NoUser},
            lock_expires_at : Nat,
            booking_id : Bookings \cup {NoBooking}]

FreshRow == [status |-> "AVAILABLE", locked_by |-> NoUser,
             lock_expires_at |-> 0, booking_id |-> NoBooking]

\* Mutant of LockedBy: "AND locked_by = ?" is missing.
LockedBySomebody(row, u) == row.status = "LOCKED"

LockedBy(row, u) == row.status = "LOCKED" /\ row.locked_by = u

\* A lock that a statement comparing lock_expires_at with t takes for dead.
ExpiredAt(row, t) == row.status = "LOCKED" /\ row.lock_expires_at < t

\* Mutant of Lockable: a LOCKED row is taken over whatever its expiry.
LockableAlways(row, t) == row.status \in {"AVAILABLE", "LOCKED"}

\* The WHERE clause of the locking UPDATE.
Lockable(row, t) == row.status = "AVAILABLE" \/ ExpiredAt(row, t)

\* SET status = 'LOCKED', locked_by, lock_expires_at; booking_id is kept.
LockRow(row, u, e) ==
  [row EXCEPT !.status = "LOCKED", !.locked_by = u, !.lock_expires_at = e]

\* Mutant of UnlockRow: locked_by is not reset.
UnlockRowKeepsOwner(row) ==
  [row EXCEPT !.status = "AVAILABLE", !.lock_expires_at = 0]

\* SET status = 'AVAILABLE', locked_by = NULL, lock_expires_at = NULL;
\* booking_id is kept, so a seat can be AVAILABLE and still name a booking.
UnlockRow(row) ==
  [row EXCEPT !.status = "AVAILABLE", !.locked_by = NoUser,
              !.lock_expires_at = 0]

\* SET status = 'BOOKED', locked_by = NULL, lock_expires_at = NULL.
BookRow(row) ==
  [row EXCEPT !.status = "BOOKED", !.locked_by = NoUser,
              !.lock_expires_at = 0]

\* As UnlockRow, and booking_id = NULL.
FreeRow(row) == [UnlockRow(row) EXCEPT !.booking_id = NoBooking]
=============================================================================
