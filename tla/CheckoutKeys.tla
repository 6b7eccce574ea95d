----------------------------- MODULE CheckoutKeys -----------------------------
(***************************************************************************)
(* One checkout that is sent several times with one idempotency key        *)
(* (services/saga.service.ts 30-44, 73-301; services/payment.service.ts    *)
(* 16-101).  The key is read at the start and written at the end, in       *)
(* Redis; the payments table has it in a UNIQUE column.  BookingSaga has   *)
(* the checkout statement by statement; a transaction is one step here.    *)
(*                                                                         *)
(* The user holds the seats (they are one seat here, "taken" together).    *)
(***************************************************************************)
EXTENDS Naturals

CONSTANTS Attempts, NoAttempt

KeysAssumption == NoAttempt \notin Attempts

VARIABLES razorpay,    \* isRazorpayConfigured()
          sagaKey,     \* saga:idempotency:<key>: whose result it holds
          payKey,      \* idempotency:<key>: whose order it holds
          payment,     \* the payments row with the key: whose booking it pays
          booking,     \* booking[a]: status of the booking of attempt a
          seat,        \* status of the seats, and whose booking they name
          pc,          \* where attempt a is
          answer       \* what it answered: whose booking, or nothing

vars == <<razorpay, sagaKey, payKey, payment, booking, seat, pc, answer>>

Init ==
  /\ razorpay \in BOOLEAN
  /\ sagaKey = NoAttempt
  /\ payKey = NoAttempt
  /\ payment = NoAttempt
  /\ booking = [a \in Attempts |-> "none"]
  /\ seat = [status |-> "LOCKED", booking |-> NoAttempt]
  /\ pc = [a \in Attempts |-> "new"]
  /\ answer = [a \in Attempts |-> NoAttempt]

Goto(a, l) == pc' = [pc EXCEPT ![a] = l]
Return(a, b) == Goto(a, "done") /\ answer' = [answer EXCEPT ![a] = b]
SetBooking(a, status) == booking' = [booking EXCEPT ![a] = status]
-----------------------------------------------------------------------------
\* getSagaIdempotency: with Redis away there is no key.
Cached == sagaKey # NoAttempt

CheckKey(a) ==
  /\ pc[a] = "new"
  /\ \/ Cached /\ Return(a, sagaKey)
     \/ ~Cached /\ Goto(a, "locks") /\ UNCHANGED answer
     \/ Goto(a, "locks") /\ UNCHANGED answer   \* isRedisReady() is false
  /\ UNCHANGED <<razorpay, sagaKey, payKey, payment, booking, seat>>

\* getLockStatus of each seat.
VerifyLocks(a) ==
  /\ pc[a] = "locks"
  /\ IF seat.status = "LOCKED" THEN Goto(a, "open") /\ UNCHANGED answer
     ELSE Return(a, NoAttempt)
  /\ UNCHANGED <<razorpay, sagaKey, payKey, payment, booking, seat>>

\* The booking is PENDING and takes over the seats, if still locked.
OpenBooking(a) ==
  /\ pc[a] = "open"
  /\ IF seat.status = "LOCKED"
     THEN /\ SetBooking(a, "PENDING")
          /\ seat' = [seat EXCEPT !.booking = a]
          /\ Goto(a, IF razorpay THEN "initiate" ELSE "simulate")
          /\ UNCHANGED answer
     ELSE Return(a, NoAttempt) /\ UNCHANGED <<booking, seat>>
  /\ UNCHANGED <<razorpay, sagaKey, payKey, payment>>

\* initiatePayment: the order of an earlier attempt is handed out again; else
\* an order is created and recorded, which the UNIQUE key lets happen once.
Initiate(a) ==
  /\ pc[a] = "initiate"
  /\ \/ payKey # NoAttempt /\ Goto(a, "savekey") /\ UNCHANGED <<payKey, payment>>
     \/ /\ payment = NoAttempt
        /\ payment' = a
        /\ payKey' \in {a, payKey}     \* Redis may be away
        /\ Goto(a, "savekey")
     \/ payment # NoAttempt /\ Goto(a, "undo") /\ UNCHANGED <<payKey, payment>>
  /\ UNCHANGED <<razorpay, sagaKey, booking, seat, answer>>

\* The simulated gateway accepts, or refuses.
Simulate(a) ==
  /\ pc[a] = "simulate"
  /\ Goto(a, "confirm") \/ Goto(a, "undo")
  /\ UNCHANGED <<razorpay, sagaKey, payKey, payment, booking, seat, answer>>

\* The booking is CANCELLED, its seats released.
UndoOpen(a) ==
  /\ pc[a] = "undo"
  /\ SetBooking(a, "CANCELLED")
  /\ seat' = [status |-> IF seat.status = "LOCKED" THEN "AVAILABLE" ELSE seat.status,
              booking |-> IF seat.booking = a THEN NoAttempt ELSE seat.booking]
  /\ Return(a, NoAttempt)
  /\ UNCHANGED <<razorpay, sagaKey, payKey, payment>>

\* Mutant of Owns: "WHERE booking_id = ?" is missing.
OwnsAny(a) == TRUE

Owns(a) == seat.booking = a

\* CONFIRMED and BOOKED, unless the seats name another booking by now.
Confirm(a) ==
  /\ pc[a] = "confirm"
  /\ IF Owns(a)
     THEN /\ SetBooking(a, "CONFIRMED")
          /\ seat' = [seat EXCEPT !.status = "BOOKED"]
          /\ Goto(a, "savekey")
     ELSE Goto(a, "compensate") /\ UNCHANGED <<booking, seat>>
  /\ UNCHANGED <<razorpay, sagaKey, payKey, payment, answer>>

\* setSagaIdempotency; when Redis answers with an error after the COMMIT,
\* the catch block compensates the confirmed booking.
SaveKey(a) ==
  /\ pc[a] = "savekey"
  /\ \/ sagaKey' \in {a, sagaKey} /\ Return(a, a)
     \/ /\ UNCHANGED sagaKey
        /\ IF razorpay THEN Return(a, NoAttempt)
           ELSE Goto(a, "compensate") /\ UNCHANGED answer
  /\ UNCHANGED <<razorpay, payKey, payment, booking, seat>>

Compensate(a) ==
  /\ pc[a] = "compensate"
  /\ SetBooking(a, "REFUNDED")
  /\ seat' = IF Owns(a) THEN [status |-> "AVAILABLE", booking |-> NoAttempt] ELSE seat
  /\ Return(a, NoAttempt)
  /\ UNCHANGED <<razorpay, sagaKey, payKey, payment>>

\* The order is paid: confirmBooking of the booking that payment names.
Paid ==
  /\ razorpay /\ payment # NoAttempt
  /\ booking[payment] = "PENDING"
  /\ IF Owns(payment) /\ seat.status = "LOCKED"
     THEN SetBooking(payment, "CONFIRMED") /\ seat' = [seat EXCEPT !.status = "BOOKED"]
     ELSE SetBooking(payment, "REFUNDED") /\ UNCHANGED seat
  /\ UNCHANGED <<razorpay, sagaKey, payKey, payment, pc, answer>>
-----------------------------------------------------------------------------
Next ==
  \/ \E a \in Attempts :
       \/ CheckKey(a) \/ VerifyLocks(a) \/ OpenBooking(a) \/ Initiate(a)
       \/ Simulate(a) \/ UndoOpen(a) \/ Confirm(a) \/ SaveKey(a) \/ Compensate(a)
  \/ Paid

Spec == Init /\ [][Next]_vars
-----------------------------------------------------------------------------
TypeOK ==
  /\ razorpay \in BOOLEAN
  /\ {sagaKey, payKey, payment, seat.booking} \subseteq Attempts \cup {NoAttempt}
  /\ booking \in [Attempts ->
       {"none", "PENDING", "CONFIRMED", "CANCELLED", "REFUNDED"}]
  /\ seat.status \in {"AVAILABLE", "LOCKED", "BOOKED"}
  /\ pc \in [Attempts -> {"new", "locks", "open", "initiate", "simulate", "undo",
                          "confirm", "savekey", "compensate", "done"}]
  /\ answer \in [Attempts -> Attempts \cup {NoAttempt}]

\* However often the checkout is sent, and however the attempts overlap, one
\* booking at most is CONFIRMED, and it is the one whose number is on the
\* seats: the check of the key misses, the seats' booking_id does not.
OneTicketPerKey ==
  \A a \in Attempts : booking[a] = "CONFIRMED" =>
    /\ seat = [status |-> "BOOKED", booking |-> a]
    /\ \A b \in Attempts \ {a} : booking[b] # "CONFIRMED"
=============================================================================
