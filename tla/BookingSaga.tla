----------------------------- MODULE BookingSaga -----------------------------
(***************************************************************************)
(* The checkout saga (services/saga.service.ts) with the payment service   *)
(* (services/payment.service.ts) and the cancellation route                *)
(* (routes/booking.routes.ts), one step per statement that the code awaits.*)
(*                                                                         *)
(* A booking's flow takes it from the check of the seat locks to a payment *)
(* request; confirmers (the webhook and the verify route) bring the        *)
(* payment's outcome; cancellers cancel.  Locks are taken, run out and are *)
(* cleaned up as SeatLock describes, here in one step each.                *)
(*                                                                         *)
(* config/db.ts sends every statement through the pool, BEGIN, COMMIT and  *)
(* ROLLBACK too, and never keeps a client for the length of a transaction. *)
(* A BEGIN is kept, or it is not; Keeps has the cases that may occur:      *)
(*   TRUE   no other flow runs while the transaction is open, so the pool  *)
(*          hands its client back to the flow that opened it;              *)
(*   FALSE  BEGIN, COMMIT and ROLLBACK get clients that the statements     *)
(*          between them do not get: each statement commits by itself.     *)
(***************************************************************************)
EXTENDS SeatTable, FiniteSets

CONSTANTS Seats,
          Confirmers,  \* runs of confirmPaymentAndCompleteBooking
          Cancellers,  \* runs of the cancellation route
          Nobody,      \* no flow
          Keeps,       \* is a transaction kept on one client
          Gateways,    \* the values that isRazorpayConfigured() may have
          CallsFail,   \* can calls fail: to Razorpay, or to Redis or the
                       \* tables once Razorpay or the customer has a part in it
          Unsigned,    \* do webhooks without a signature come
          MaxPassengers, \* bound of the passengers of a booking
          MaxCrashes   \* bound of the restarts of the server

ASSUME SagaAssumption == /\ Nobody \notin Bookings \cup Confirmers \cup Cancellers
                         /\ Bookings \cap (Confirmers \cup Cancellers) = {}
                         /\ Confirmers \cap Cancellers = {}
                         /\ Keeps \subseteq BOOLEAN
                         /\ Gateways \subseteq BOOLEAN
                         /\ CallsFail \in BOOLEAN /\ Unsigned \in BOOLEAN
                         /\ MaxPassengers \in Nat \ {0}
                         /\ MaxCrashes \in Nat

VARIABLES
  seat,     \* seat[s]: the row of table seats
  booking,  \* booking[b]: the status of the row of table bookings
  payment,  \* payment[b]: the status of the row of table payments of b
  tx,       \* the transaction open on the shared client, and its undo log
  saga,     \* saga[b]: where executeBookingPayment is that inserts b
  conf,     \* conf[c]: where confirmer c is, and on which booking
  canc,     \* canc[k]: where canceller k is, and on which booking
  gateway,  \* gateway[b]: Razorpay's order for b, the truth about the money
  razorpay, \* isRazorpayConfigured(), fixed when the server starts
  event,    \* event[b]: is a payment.captured webhook of b to be delivered
  claimed,  \* claimed[b]: did a webhook without signature say that b is paid
  crashes   \* how often the server restarted

tables == <<seat, booking, payment>>
flows == <<saga, conf, canc>>
world == <<gateway, razorpay, event, claimed, crashes>>
vars == <<tables, tx, flows, world>>

BookingStatus == {"none", "PENDING", "CONFIRMED", "CANCELLED", "REFUNDED"}
PaymentStatus == {"none", "PENDING", "SUCCESS", "FAILED", "REFUNDED"}
\* An order is lost when nobody learns its id.
OrderStatus == {"none", "created", "lost", "captured", "refunded"}

SagaPC == {"idle", "check", "begin", "insert", "attach", "commit", "rollback",
           "pay", "payinsert",
           "cbegin", "cbooking", "cseats", "crelease", "ccommit",
           "sbegin", "sbooking", "sseats", "scommit", "snotify", "srollback",
           "rbegin", "rbooking", "rseats", "rcommit", "done"}
ConfPC == {"idle", "fetch", "verified", "rejected", "read", "paid", "begin",
           "validate", "booking", "seats", "commit", "notify", "rollback", "refund",
           "gwrefund", "payrefund", "compbooking", "compseats"}
CancPC == {"idle", "begin", "booking", "seats", "commit"}

IdleSaga == [pc |-> "idle", user |-> NoUser, want |-> {}, passengers |-> 0,
             todo |-> {}]
IdleTask == [pc |-> "idle", booking |-> NoBooking]
NoTx == [owner |-> Nobody, undo |-> <<>>]

\* Locks are taken at instant 1 until 2; a lock that ran out has expiry 0.
Now == 1
LiveLock(row) == row.status = "LOCKED" /\ ~ExpiredAt(row, Now)

SeatsOf(b) == {s \in Seats : seat[s].booking_id = b}

Init ==
  /\ seat = [s \in Seats |-> FreshRow]
  /\ booking = [b \in Bookings |-> "none"]
  /\ payment = [b \in Bookings |-> "none"]
  /\ tx = NoTx
  /\ saga = [b \in Bookings |-> IdleSaga]
  /\ conf = [c \in Confirmers |-> IdleTask]
  /\ canc = [k \in Cancellers |-> IdleTask]
  /\ gateway = [b \in Bookings |-> "none"]
  /\ razorpay \in Gateways
  /\ event = [b \in Bookings |-> FALSE]
  /\ claimed = [b \in Bookings |-> FALSE]
  /\ crashes = 0
-----------------------------------------------------------------------------
(* Transactions *)

\* May flow f run a statement?
May(f) == tx.owner \in {Nobody, f}

Begin(f) ==
  /\ \/ TRUE \in Keeps /\ tx' = [owner |-> f, undo |-> tables]
     \/ FALSE \in Keeps /\ UNCHANGED tx
  /\ UNCHANGED tables

\* Without an open transaction, COMMIT and ROLLBACK change nothing.
Commit == tx' = NoTx /\ UNCHANGED tables

\* Mutant of Rollback: the transaction is ended, but its effects stay.
RollbackKeeps == tx' = NoTx /\ UNCHANGED tables

Rollback ==
  /\ IF tx.owner = Nobody THEN UNCHANGED tables
     ELSE /\ seat' = tx.undo[1]
          /\ booking' = tx.undo[2]
          /\ payment' = tx.undo[3]
  /\ tx' = NoTx

\* UPDATE seats SET ... WHERE booking_id = b.
UpdateSeatsOf(b, new) ==
  seat' = [s \in Seats |-> IF seat[s].booking_id = b THEN new[s] ELSE seat[s]]

SetBooking(b, status) == booking' = [booking EXCEPT ![b] = status]
SetPayment(b, status) == payment' = [payment EXCEPT ![b] = status]

\* SET booking_id = NULL.
Detach(row) == [row EXCEPT !.booking_id = NoBooking]

\* SET status = 'AVAILABLE', booking_id = NULL: the lock's columns stay.
DropRow(row) == [row EXCEPT !.status = "AVAILABLE", !.booking_id = NoBooking]
-----------------------------------------------------------------------------
(* executeBookingPayment *)

SagaGoto(b, pc) == saga' = [saga EXCEPT ![b].pc = pc]
SagaLoop(b, pc) == saga' = [saga EXCEPT ![b].pc = pc, ![b].todo = saga[b].want]
SagaNext(b, s) == saga' = [saga EXCEPT ![b].todo = @ \ {s}]
SagaAt(b, pc) == saga[b].pc = pc /\ May(b)

\* The client asks for seats that it was told are locked for the user.  The
\* schema of the request does not compare their number with the passengers'.
StartSaga(b, u, W, n) ==
  /\ saga[b].pc = "idle"
  /\ \A s \in W : LockedBy(seat[s], u)
  /\ saga' = [saga EXCEPT ![b] = [pc |-> "check", user |-> u, want |-> W,
                                  passengers |-> n, todo |-> W]]
  /\ UNCHANGED <<tables, tx, conf, canc, world>>

\* Step 1, one getLockStatus per seat.
CheckLock(b, s) ==
  /\ SagaAt(b, "check") /\ s \in saga[b].todo
  /\ IF LockedBy(seat[s], saga[b].user) /\ LiveLock(seat[s])
     THEN SagaNext(b, s) ELSE SagaGoto(b, "done")
  /\ UNCHANGED <<tables, tx, conf, canc, world>>

SagaBegin(b) ==
  /\ \/ SagaAt(b, "check") /\ saga[b].todo = {} /\ SagaGoto(b, "insert")
     \/ SagaAt(b, "cbegin") /\ SagaGoto(b, "cbooking")
     \/ SagaAt(b, "sbegin") /\ SagaGoto(b, "sbooking")
     \/ SagaAt(b, "rbegin") /\ SagaGoto(b, "rbooking")
  /\ Begin(b)
  /\ UNCHANGED <<conf, canc, world>>

\* Step 2: the row of table bookings.
InsertBooking(b) ==
  /\ SagaAt(b, "insert")
  /\ SetBooking(b, "PENDING")
  /\ SagaLoop(b, "attach")
  /\ UNCHANGED <<seat, payment, tx, conf, canc, world>>

\* Mutant of AttachSeat: the parameters of the UPDATE are swapped.
AttachSeatSwapped(b, s) ==
  /\ SagaAt(b, "attach") /\ s \in saga[b].todo
  /\ seat' = [seat EXCEPT ![s].booking_id = saga[b].user]
  /\ SagaNext(b, s)
  /\ UNCHANGED <<booking, payment, tx, conf, canc, world>>

\* UPDATE seats SET booking_id WHERE locked_by = user: any status will do.
AttachSeat(b, s) ==
  /\ SagaAt(b, "attach") /\ s \in saga[b].todo
  /\ IF seat[s].locked_by = saga[b].user
     THEN /\ seat' = [seat EXCEPT ![s].booking_id = b]
          /\ SagaNext(b, s)
     ELSE SagaGoto(b, "rollback") /\ UNCHANGED seat
  /\ UNCHANGED <<booking, payment, tx, conf, canc, world>>

SagaCommit(b) ==
  /\ \/ SagaAt(b, "attach") /\ saga[b].todo = {} /\ SagaGoto(b, "pay")
     \/ SagaAt(b, "scommit") /\ SagaGoto(b, "snotify")
     \/ /\ SagaAt(b, "ccommit") \/ SagaAt(b, "rcommit")
        /\ SagaGoto(b, "done")
  /\ Commit
  /\ UNCHANGED <<conf, canc, world>>

\* After the COMMIT, the key is saved in Redis; an error is taken for a failed
\* confirmation.
SagaNotify(b) ==
  /\ SagaAt(b, "snotify")
  /\ \/ SagaGoto(b, "done")
     \/ CallsFail /\ SagaGoto(b, "srollback")
  /\ UNCHANGED <<tables, tx, conf, canc, world>>

\* A failed simulated confirmation refunds (simulated too) and compensates.
SagaRollback(b) ==
  /\ \/ /\ SagaAt(b, "rollback") /\ SagaGoto(b, "done")
        /\ UNCHANGED gateway
     \/ /\ SagaAt(b, "srollback") /\ SagaGoto(b, "rbegin")
        /\ gateway' = [gateway EXCEPT ![b] = "refunded"]
  /\ Rollback
  /\ UNCHANGED <<conf, canc, razorpay, event, claimed, crashes>>

\* Step 3 with Razorpay: orders.create.
CreateOrder(b) ==
  /\ SagaAt(b, "pay") /\ razorpay
  /\ \/ /\ gateway' = [gateway EXCEPT ![b] = "created"]
        /\ SagaGoto(b, "payinsert")
     \/ /\ CallsFail
        /\ UNCHANGED gateway
        /\ SagaGoto(b, "cbegin")
  /\ UNCHANGED <<tables, tx, conf, canc, razorpay, event, claimed, crashes>>

\* The order's row, and the keys saved in Redis.  When one of them fails, the
\* answer does not name the order: the INSERT or the payment's key makes the
\* saga compensate, the saga's own key is outside every try.
InsertPayment(b) ==
  /\ SagaAt(b, "payinsert")
  /\ \/ /\ SetPayment(b, "PENDING") /\ SagaGoto(b, "done")
        /\ UNCHANGED gateway
     \/ /\ CallsFail
        /\ gateway' = [gateway EXCEPT ![b] = "lost"]
        /\ \/ UNCHANGED payment /\ SagaGoto(b, "cbegin")
           \/ SetPayment(b, "PENDING") /\ (SagaGoto(b, "cbegin") \/ SagaGoto(b, "done"))
  /\ UNCHANGED <<seat, booking, tx, conf, canc, razorpay, event, claimed, crashes>>

\* Mutant of SimulatePayment: a refusal is taken for a payment.
SimulatePaymentIgnored(b) ==
  /\ SagaAt(b, "pay") /\ ~razorpay
  /\ \/ /\ gateway' = [gateway EXCEPT ![b] = "captured"]
        /\ SagaGoto(b, "sbegin")
     \/ SagaGoto(b, "sbegin") /\ UNCHANGED gateway
  /\ UNCHANGED <<tables, tx, conf, canc, razorpay, event, claimed, crashes>>

\* Step 3 without Razorpay: the simulated gateway charges, or it refuses.
SimulatePayment(b) ==
  /\ SagaAt(b, "pay") /\ ~razorpay
  /\ \/ /\ gateway' = [gateway EXCEPT ![b] = "captured"]
        /\ SagaGoto(b, "sbegin")
     \/ SagaGoto(b, "cbegin") /\ UNCHANGED gateway
  /\ UNCHANGED <<tables, tx, conf, canc, razorpay, event, claimed, crashes>>

\* The status the saga gives its booking in each of its transactions.
SagaSetsBooking(b) ==
  /\ \/ SagaAt(b, "cbooking") /\ SetBooking(b, "CANCELLED") /\ SagaGoto(b, "cseats")
     \/ SagaAt(b, "sbooking") /\ SetBooking(b, "CONFIRMED") /\ SagaGoto(b, "sseats")
     \/ SagaAt(b, "rbooking") /\ SetBooking(b, "REFUNDED") /\ SagaGoto(b, "rseats")
  /\ UNCHANGED <<seat, payment, tx, conf, canc, world>>

\* Step 4: book whatever seats name the booking; none at all is an error.
SimulatedBookSeats(b) ==
  /\ SagaAt(b, "sseats")
  /\ UpdateSeatsOf(b, [s \in Seats |-> BookRow(seat[s])])
  /\ SagaGoto(b, IF SeatsOf(b) = {} THEN "srollback" ELSE "scommit")
  /\ UNCHANGED <<booking, payment, tx, conf, canc, world>>

\* Compensation of a failed payment: detach, then releaseSeatLock per seat.
CompensateSeats(b) ==
  /\ \/ /\ SagaAt(b, "cseats")
        /\ UpdateSeatsOf(b, [s \in Seats |-> Detach(seat[s])])
        /\ SagaLoop(b, "crelease")
     \/ /\ SagaAt(b, "rseats")
        /\ UpdateSeatsOf(b, [s \in Seats |-> FreeRow(seat[s])])
        /\ SagaGoto(b, "rcommit")
  /\ UNCHANGED <<booking, payment, tx, conf, canc, world>>

CompensateRelease(b, s) ==
  /\ SagaAt(b, "crelease") /\ s \in saga[b].todo
  /\ seat' = IF LockedBy(seat[s], saga[b].user)
             THEN [seat EXCEPT ![s] = UnlockRow(seat[s])] ELSE seat
  /\ saga' = [saga EXCEPT ![b].todo = @ \ {s},
                          ![b].pc = IF saga[b].todo = {s} THEN "ccommit" ELSE @]
  /\ UNCHANGED <<booking, payment, tx, conf, canc, world>>
-----------------------------------------------------------------------------
(* verifyPayment, the webhook, confirmPaymentAndCompleteBooking and         *)
(* processRefund                                                            *)

ConfGoto(c, pc) == conf' = [conf EXCEPT ![c].pc = pc]
ConfAt(c, pc) == conf[c].pc = pc /\ May(c)
ConfDone(c) == conf' = [conf EXCEPT ![c] = IdleTask]

\* A payment.captured event that names the order of b.
Webhook(c, b) ==
  /\ ConfAt(c, "idle") /\ payment[b] # "none"
  /\ conf' = [conf EXCEPT ![c] = [pc |-> "read", booking |-> b]]
  /\ UNCHANGED <<tables, tx, saga, canc, gateway, razorpay, event, crashes>>

\* Razorpay's are delivered until a delivery is answered.
SignedWebhook(c, b) ==
  Webhook(c, b) /\ event[b] /\ UNCHANGED claimed

\* The signature is checked only when the request has one: without, anybody's
\* event is taken for Razorpay's.
UnsignedWebhook(c, b) ==
  Webhook(c, b) /\ Unsigned /\ claimed' = [claimed EXCEPT ![b] = TRUE]

\* verifyPayment reads the row of table payments.
Verify(c, b) ==
  /\ ConfAt(c, "idle") /\ payment[b] \in {"PENDING", "SUCCESS"}
  /\ conf' = [conf EXCEPT ![c] =
        [pc |-> IF payment[b] = "PENDING" THEN "fetch" ELSE "read", booking |-> b]]
  /\ UNCHANGED <<tables, tx, saga, canc, world>>

\* orders.fetch: an order is paid once it was captured, refunded or not.
FetchOrder(c) ==
  /\ ConfAt(c, "fetch")
  /\ \/ ConfGoto(c, IF gateway[conf[c].booking] \in {"captured", "refunded"}
                    THEN "verified" ELSE "rejected")
     \/ CallsFail /\ ConfDone(c)
  /\ UNCHANGED <<tables, tx, saga, canc, world>>

\* The outcome goes to the row, whatever its status is by now.
RecordVerdict(c) ==
  /\ \/ /\ ConfAt(c, "verified")
        /\ SetPayment(conf[c].booking, "SUCCESS") /\ ConfGoto(c, "read")
     \/ /\ ConfAt(c, "rejected")
        /\ SetPayment(conf[c].booking, "FAILED") /\ ConfDone(c)
  /\ UNCHANGED <<seat, booking, tx, saga, canc, world>>

\* The answer to the webhook: it is not delivered again.
Answered(c) == event' = [event EXCEPT ![conf[c].booking] = FALSE]

\* Mutant of ReadBooking: the webhook is answered before the work is done.
ReadBookingAnswersFirst(c) ==
  /\ ConfAt(c, "read")
  /\ Answered(c)
  /\ IF booking[conf[c].booking] = "CONFIRMED" THEN ConfDone(c) ELSE ConfGoto(c, "paid")
  /\ UNCHANGED <<tables, tx, saga, canc, gateway, razorpay, claimed, crashes>>

ReadBooking(c) ==
  /\ ConfAt(c, "read")
  /\ \/ /\ booking[conf[c].booking] = "CONFIRMED"
        /\ ConfDone(c) /\ Answered(c)
     \/ /\ booking[conf[c].booking] # "CONFIRMED"
        /\ ConfGoto(c, "paid") /\ UNCHANGED event
  /\ UNCHANGED <<tables, tx, saga, canc, gateway, razorpay, claimed, crashes>>

SetPaid(c) ==
  /\ ConfAt(c, "paid")
  /\ SetPayment(conf[c].booking, "SUCCESS")
  /\ ConfGoto(c, "begin")
  /\ UNCHANGED <<seat, booking, tx, saga, canc, world>>

ConfBegin(c) ==
  /\ ConfAt(c, "begin")
  /\ Begin(c)
  /\ ConfGoto(c, "validate")
  /\ UNCHANGED <<saga, canc, world>>

\* Mutant of SeatsValid: the lock's owner is not compared.
SeatsValidAnyOwner(b) ==
  /\ Cardinality(SeatsOf(b)) = saga[b].passengers
  /\ \A s \in SeatsOf(b) : seat[s].status # "BOOKED"

\* Mutant of SeatsValid: the number of seats is not compared.
SeatsValidAnyNumber(b) ==
  \A s \in SeatsOf(b) :
     /\ seat[s].status # "BOOKED"
     /\ seat[s].status = "LOCKED" => seat[s].locked_by = saga[b].user

\* As many seats as passengers, none booked, none locked by somebody else.
SeatsValid(b) ==
  /\ Cardinality(SeatsOf(b)) = saga[b].passengers
  /\ \A s \in SeatsOf(b) :
        /\ seat[s].status # "BOOKED"
        /\ seat[s].status = "LOCKED" => seat[s].locked_by = saga[b].user

Validate(c) ==
  /\ ConfAt(c, "validate")
  /\ ConfGoto(c, IF SeatsValid(conf[c].booking) THEN "booking" ELSE "rollback")
  /\ UNCHANGED <<tables, tx, saga, canc, world>>

ConfirmBooking(c) ==
  /\ ConfAt(c, "booking")
  /\ SetBooking(conf[c].booking, "CONFIRMED")
  /\ ConfGoto(c, "seats")
  /\ UNCHANGED <<seat, payment, tx, saga, canc, world>>

BookSeats(c) ==
  /\ ConfAt(c, "seats")
  /\ UpdateSeatsOf(conf[c].booking, [s \in Seats |-> BookRow(seat[s])])
  /\ ConfGoto(c, "commit")
  /\ UNCHANGED <<booking, payment, tx, saga, canc, world>>

ConfCommit(c) ==
  /\ ConfAt(c, "commit")
  /\ Commit
  /\ ConfGoto(c, "notify")
  /\ UNCHANGED <<saga, canc, world>>

\* The reads for the notification are inside the try: when one of them fails,
\* the booking that was confirmed is refunded.
ConfNotify(c) ==
  /\ ConfAt(c, "notify")
  /\ \/ ConfDone(c) /\ Answered(c)
     \/ CallsFail /\ ConfGoto(c, "rollback") /\ UNCHANGED event
  /\ UNCHANGED <<tables, tx, saga, canc, gateway, razorpay, claimed, crashes>>

ConfRollback(c) ==
  /\ ConfAt(c, "rollback")
  /\ Rollback
  /\ ConfGoto(c, "refund")
  /\ UNCHANGED <<saga, canc, world>>

\* processRefund; that it refuses or fails does not stop the compensation.
RefundReads(c) ==
  /\ ConfAt(c, "refund")
  /\ ConfGoto(c, IF payment[conf[c].booking] = "SUCCESS"
                 THEN "gwrefund" ELSE "compbooking")
  /\ UNCHANGED <<tables, tx, saga, canc, world>>

\* Razorpay refuses an order that was not captured, and a payment's id that it
\* did not give: verify gives the order's, an unsigned webhook any.
GatewayRefunds(c) ==
  LET b == conf[c].booking IN
  /\ ConfAt(c, "gwrefund")
  /\ \/ /\ gateway[b] = "captured"
        /\ gateway' = [gateway EXCEPT ![b] = "refunded"]
        /\ ConfGoto(c, "payrefund")
     \/ /\ UNCHANGED gateway
        /\ ConfGoto(c, "compbooking")
  /\ UNCHANGED <<tables, tx, saga, canc, razorpay, event, claimed, crashes>>

RecordRefund(c) ==
  /\ ConfAt(c, "payrefund")
  /\ SetPayment(conf[c].booking, "REFUNDED")
  /\ ConfGoto(c, "compbooking")
  /\ UNCHANGED <<seat, booking, tx, saga, canc, world>>

ConfCompensateBooking(c) ==
  /\ ConfAt(c, "compbooking")
  /\ SetBooking(conf[c].booking, "REFUNDED")
  /\ ConfGoto(c, "compseats")
  /\ UNCHANGED <<seat, payment, tx, saga, canc, world>>

ConfCompensateSeats(c) ==
  /\ ConfAt(c, "compseats")
  /\ UpdateSeatsOf(conf[c].booking, [s \in Seats |-> DropRow(seat[s])])
  /\ ConfDone(c) /\ Answered(c)
  /\ UNCHANGED <<booking, payment, tx, saga, canc, gateway, razorpay, claimed, crashes>>
-----------------------------------------------------------------------------
(* POST /cancel/:pnr *)

CancGoto(k, pc) == canc' = [canc EXCEPT ![k].pc = pc]
CancAt(k, pc) == canc[k].pc = pc /\ May(k)

StartCancel(k, b) ==
  /\ CancAt(k, "idle") /\ booking[b] \in {"PENDING", "CONFIRMED"}
  /\ canc' = [canc EXCEPT ![k] = [pc |-> "begin", booking |-> b]]
  /\ UNCHANGED <<tables, tx, saga, conf, world>>

CancelBegin(k) ==
  /\ CancAt(k, "begin")
  /\ Begin(k)
  /\ CancGoto(k, "booking")
  /\ UNCHANGED <<saga, conf, world>>

CancelBooking(k) ==
  /\ CancAt(k, "booking")
  /\ SetBooking(canc[k].booking, "CANCELLED")
  /\ CancGoto(k, "seats")
  /\ UNCHANGED <<seat, payment, tx, saga, conf, world>>

\* Mutant of CancelSeats: booking_id is not reset.
CancelSeatsKeepBooking(k) ==
  /\ CancAt(k, "seats")
  /\ UpdateSeatsOf(canc[k].booking, [s \in Seats |-> UnlockRow(seat[s])])
  /\ CancGoto(k, "commit")
  /\ UNCHANGED <<booking, payment, tx, saga, conf, world>>

CancelSeats(k) ==
  /\ CancAt(k, "seats")
  /\ UpdateSeatsOf(canc[k].booking, [s \in Seats |-> FreeRow(seat[s])])
  /\ CancGoto(k, "commit")
  /\ UNCHANGED <<booking, payment, tx, saga, conf, world>>

CancelCommit(k) ==
  /\ CancAt(k, "commit")
  /\ Commit
  /\ canc' = [canc EXCEPT ![k] = IdleTask]
  /\ UNCHANGED <<saga, conf, world>>
-----------------------------------------------------------------------------
(* The rest of the system *)

\* A user locks a seat.
LockSeat(u, s) ==
  /\ May(Nobody)
  /\ Lockable(seat[s], Now)
  /\ seat' = [seat EXCEPT ![s] = LockRow(seat[s], u, Now + 1)]
  /\ UNCHANGED <<booking, payment, tx, flows, world>>

\* The clock passes a lock's expiry.  Rolling back does not bring it back.
ExpireRow(row) == [row EXCEPT !.lock_expires_at = 0]

Expire(s) ==
  /\ LiveLock(seat[s])
  /\ seat' = [seat EXCEPT ![s] = ExpireRow(seat[s])]
  /\ tx' = IF tx.owner # Nobody /\ LiveLock(tx.undo[1][s])
           THEN [tx EXCEPT !.undo[1][s] = ExpireRow(@)] ELSE tx
  /\ UNCHANGED <<booking, payment, flows, world>>

\* cleanupExpiredLocks.
CleanSeat(s) ==
  /\ May(Nobody)
  /\ ExpiredAt(seat[s], Now)
  /\ seat' = [seat EXCEPT ![s] = UnlockRow(seat[s])]
  /\ UNCHANGED <<booking, payment, tx, flows, world>>

\* The customer pays the order that the answer to the checkout named.
Capture(b) ==
  /\ gateway[b] = "created" /\ payment[b] # "none" /\ saga[b].pc = "done"
  /\ gateway' = [gateway EXCEPT ![b] = "captured"]
  /\ event' = [event EXCEPT ![b] = TRUE]
  /\ UNCHANGED <<tables, tx, flows, razorpay, claimed, crashes>>

\* The server restarts: calls in flight are lost, PostgreSQL rolls back.
Crash ==
  /\ crashes < MaxCrashes
  /\ crashes' = crashes + 1
  /\ Rollback
  /\ saga' = [b \in Bookings |->
                IF saga[b].pc = "idle" THEN saga[b]
                ELSE [saga[b] EXCEPT !.pc = "done", !.todo = {}]]
  /\ conf' = [c \in Confirmers |-> IdleTask]
  /\ canc' = [k \in Cancellers |-> IdleTask]
  /\ UNCHANGED <<gateway, razorpay, event, claimed>>
-----------------------------------------------------------------------------
SagaStep(b) ==
  \/ \E s \in Seats : CheckLock(b, s) \/ AttachSeat(b, s) \/ CompensateRelease(b, s)
  \/ SagaBegin(b) \/ InsertBooking(b) \/ SagaCommit(b) \/ SagaNotify(b)
  \/ SagaRollback(b)
  \/ CreateOrder(b) \/ InsertPayment(b) \/ SimulatePayment(b)
  \/ SagaSetsBooking(b) \/ SimulatedBookSeats(b) \/ CompensateSeats(b)

ConfStep(c) ==
  \/ FetchOrder(c) \/ RecordVerdict(c) \/ ReadBooking(c) \/ SetPaid(c)
  \/ ConfBegin(c) \/ Validate(c) \/ ConfirmBooking(c) \/ BookSeats(c)
  \/ ConfCommit(c) \/ ConfNotify(c) \/ ConfRollback(c) \/ RefundReads(c) \/ GatewayRefunds(c)
  \/ RecordRefund(c) \/ ConfCompensateBooking(c) \/ ConfCompensateSeats(c)

CancStep(k) ==
  CancelBegin(k) \/ CancelBooking(k) \/ CancelSeats(k) \/ CancelCommit(k)

Calls ==
  \/ \E b \in Bookings : \/ \E u \in Users : \E W \in (SUBSET Seats) \ {{}} :
                              \E n \in 1 .. MaxPassengers : StartSaga(b, u, W, n)
                         \/ \E c \in Confirmers : \/ SignedWebhook(c, b)
                                                  \/ UnsignedWebhook(c, b)
                                                  \/ Verify(c, b)
                         \/ \E k \in Cancellers : StartCancel(k, b)
                         \/ Capture(b)

Locking ==
  \E s \in Seats : \/ \E u \in Users : LockSeat(u, s)
                   \/ Expire(s)
                   \/ CleanSeat(s)

Next == \/ \E b \in Bookings : SagaStep(b)
        \/ \E c \in Confirmers : ConfStep(c)
        \/ \E k \in Cancellers : CancStep(k)
        \/ Calls
        \/ Locking
        \/ Crash

Spec == Init /\ [][Next]_vars

\* Calls in flight go on, and an undelivered webhook is delivered again and
\* again: Razorpay retries it, and the server takes any number of calls at a
\* time, where the model has a fixed set of confirmers that may be busy.
FairSpec == /\ Spec
            /\ \A b \in Bookings :
                 /\ WF_vars(SagaStep(b))
                 /\ SF_vars(\E c \in Confirmers : SignedWebhook(c, b))
            /\ \A c \in Confirmers : WF_vars(ConfStep(c))
            /\ \A k \in Cancellers : WF_vars(CancStep(k))
-----------------------------------------------------------------------------
(* What must hold of it *)

Flow == Bookings \cup Confirmers \cup Cancellers

\* The types; and a flow that works on a booking works on one that exists or
\* was rolled back, whose user and seats are known.
TypeOK ==
  /\ seat \in [Seats -> SeatRow]
  /\ booking \in [Bookings -> BookingStatus]
  /\ payment \in [Bookings -> PaymentStatus]
  /\ tx.owner \in Flow \cup {Nobody}
  /\ tx.owner # Nobody => /\ tx.undo[1] \in [Seats -> SeatRow]
                          /\ tx.undo[2] \in [Bookings -> BookingStatus]
                          /\ tx.undo[3] \in [Bookings -> PaymentStatus]
  /\ saga \in [Bookings -> [pc : SagaPC, user : Users \cup {NoUser},
                            want : SUBSET Seats, passengers : 0 .. MaxPassengers,
                            todo : SUBSET Seats]]
  /\ conf \in [Confirmers -> [pc : ConfPC, booking : Bookings \cup {NoBooking}]]
  /\ canc \in [Cancellers -> [pc : CancPC, booking : Bookings \cup {NoBooking}]]
  /\ gateway \in [Bookings -> OrderStatus]
  /\ razorpay \in Gateways
  /\ event \in [Bookings -> BOOLEAN]
  /\ claimed \in [Bookings -> BOOLEAN]
  /\ crashes \in 0 .. MaxCrashes
  /\ \A b \in Bookings : booking[b] # "none" => saga[b].user \in Users

\* Between the two statements that confirm a booking and its seats.
Confirming(b) == \/ saga[b].pc \in {"sseats", "srollback"}
                 \/ \E c \in Confirmers : /\ conf[c].pc = "seats"
                                          /\ conf[c].booking = b

\* A confirmed booking has seats, BOOKED and among those its user asked for,
\* whatever happened to the locks between the check and the confirmation; with
\* Razorpay one for each passenger (saga.service.ts 327-364), where the
\* simulated path takes what is left of them (223-233).
ConfirmedOwnsSeats ==
  \A b \in Bookings : booking[b] = "CONFIRMED" /\ ~Confirming(b) =>
     /\ SeatsOf(b) # {} /\ SeatsOf(b) \subseteq saga[b].want
     /\ razorpay => Cardinality(SeatsOf(b)) = saga[b].passengers
     /\ \A s \in SeatsOf(b) : seat[s].status = "BOOKED"

\* Money was captured for b, or an event without signature said so.
PaidFor(b) == gateway[b] \in {"captured", "refunded"} \/ claimed[b]

\* A booking is confirmed, and a seat booked in its name, only for money that
\* was captured or that an unsigned event said was (payment.routes.ts 111-119,
\* 148-178), and only a seat that the booking asked for.
NoTicketForFree ==
  /\ \A b \in Bookings : booking[b] = "CONFIRMED" => PaidFor(b)
  /\ \A s \in Seats, b \in Bookings :
       seat[s].status = "BOOKED" /\ seat[s].booking_id = b =>
          PaidFor(b) /\ s \in saga[b].want

\* Seen from outside the open transaction.
Committed(b) == IF tx.owner = Nobody THEN booking[b] ELSE tx.undo[2][b]

\* A late webhook or verify call does not bring a cancelled or refunded
\* booking back (saga.service.ts 315-345, booking.routes.ts 700-722).
DeadStaysDead ==
  [][\A b \in Bookings : Committed(b) \in {"CANCELLED", "REFUNDED"}
       => Committed(b)' # "CONFIRMED"]_vars

\* A saga that could not attach all its seats leaves neither a booking nor a
\* seat that names one, if the pool kept its transaction (saga.service.ts
\* 102-152), whatever statements of split ones and restarts come between.
FailedSagaLeavesNothing ==
  [][\A b \in Bookings :
       saga[b].pc = "rollback" /\ tx.owner = b /\ saga'[b].pc = "done"
         => booking'[b] = "none" /\ \A s \in Seats : seat'[s].booking_id # b]_vars

\* A confirmation whose transaction the pool kept books no seat away from
\* another user whose lock on it still runs (saga.service.ts 328-364); a split
\* one may, and the simulated path does not compare owners.
ConfirmRespectsLocks ==
  [][\A c \in Confirmers, s \in Seats :
       tx.owner = c /\ LiveLock(seat[s]) /\ seat'[s].status = "BOOKED"
         => saga[conf[c].booking].user = seat[s].locked_by]_vars

\* A confirmed booking ends by a cancellation only, not by a second delivery
\* of the payment's outcome (saga.service.ts 314-317).
ConfirmedEndsByCancel ==
  [][\A b \in Bookings :
       booking[b] = "CONFIRMED" /\ booking'[b] # "CONFIRMED" /\ ~Confirming(b)
         => \E k \in Cancellers : canc[k].booking = b /\ canc[k].pc = "booking"]_vars

\* With Razorpay, paid money does not leave the booking pending: a webhook that
\* is retried confirms or compensates it, whichever clients the pool gives, a
\* restart of the server and calls that fail notwithstanding.
PaidIsSettled ==
  \A b \in Bookings : razorpay /\ gateway[b] = "captured" ~> booking[b] # "PENDING"
=============================================================================
