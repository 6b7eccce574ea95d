----------------------------- MODULE Cancellation -----------------------------
(***************************************************************************)
(* Full and partial cancellation of a confirmed booking                    *)
(* (routes/booking.routes.ts 593-739): both read the booking, decide, and  *)
(* write what they computed from the row as it was read.                   *)
(*                                                                         *)
(* config/db.ts sends every statement to any client of the pool.  When     *)
(* BEGIN and COMMIT get that of the statements between them, the           *)
(* transaction holds, and takes effect as one at its COMMIT; when they do  *)
(* not, each statement commits by itself and no ROLLBACK takes one back.   *)
(*                                                                         *)
(* History variables: "refunded" is what partial cancellations took off    *)
(* the fare to give it back; "overwritten" holds the bookings one of whose *)
(* partial cancellations wrote its fare over that of another; "halved"     *)
(* those one of whose full cancellations failed between its statements.    *)
(***************************************************************************)
EXTENDS Integers

CONSTANTS Bookings, Calls,
          Price,       \* of a booking, in rupees
          Size         \* passengers of a booking, and its seats

CancellationAssumption == Price \in Nat /\ Size \in Nat \ {0}

VARIABLES booking,    \* the row; passengers are counted
          seats,      \* how many seats are BOOKED for the booking
          call,       \* requests in flight
          refunded, overwritten, halved

vars == <<booking, seats, call, refunded, overwritten, halved>>

Idle == [pc |-> "idle"]

\* Mutant of Refund: the fare is not divided by the passengers.
RefundOfAll(b, n) == b.price * n

\* Math.round(price / passengers * n)
Refund(b, n) == (2 * b.price * n + b.pax) \div (2 * b.pax)

Init ==
  /\ booking = [b \in Bookings |->
                  [status |-> "CONFIRMED", pax |-> Size, price |-> Price]]
  /\ seats = [b \in Bookings |-> Size]
  /\ call = [k \in Calls |-> Idle]
  /\ refunded = [b \in Bookings |-> 0]
  /\ overwritten = {}
  /\ halved = {}

Goto(k, r) == call' = [call EXCEPT ![k] = r]

\* SELECT * FROM bookings WHERE pnr = ?
ReadBooking(k, r) ==
  /\ call[k].pc = "idle"
  /\ Goto(k, r)
  /\ UNCHANGED <<booking, seats, refunded, overwritten, halved>>
-----------------------------------------------------------------------------
(* POST /cancel/:pnr *)

StartCancel(k, b) ==
  /\ booking[b].status # "CANCELLED"
  /\ ReadBooking(k, [pc |-> "cancel", b |-> b])

CancelStatus(b) == booking' = [booking EXCEPT ![b].status = "CANCELLED"]
ReleaseSeats(b) == seats' = [seats EXCEPT ![b] = 0]

\* The transaction holds: status, seats and audit row come with the COMMIT.
CancelKept(k) ==
  /\ call[k].pc = "cancel"
  /\ CancelStatus(call[k].b) /\ ReleaseSeats(call[k].b)
  /\ Goto(k, Idle)
  /\ UNCHANGED <<refunded, overwritten, halved>>

\* It does not: UPDATE bookings, and then ...
CancelBooking(k) ==
  /\ call[k].pc = "cancel"
  /\ CancelStatus(call[k].b)
  /\ Goto(k, [pc |-> "seats", b |-> call[k].b])
  /\ UNCHANGED <<seats, refunded, overwritten, halved>>

\* ... UPDATE seats.
CancelSeats(k) ==
  /\ call[k].pc = "seats"
  /\ ReleaseSeats(call[k].b)
  /\ Goto(k, [pc |-> "audit", b |-> call[k].b])
  /\ UNCHANGED <<booking, refunded, overwritten, halved>>
-----------------------------------------------------------------------------
(* POST /cancel/:pnr/partial.  The request lists "listed" indices, which   *)
(* name "distinct" passengers: nothing keeps a list from naming one twice. *)

StartPartial(k, b, listed, distinct) ==
  /\ booking[b].status = "CONFIRMED"
  /\ distinct \in 1..listed
  /\ listed < booking[b].pax
  /\ LET r == Refund(booking[b], listed) IN
     ReadBooking(k, [pc |-> "partial", b |-> b, refund |-> r,
       price |-> booking[b].price - r, pax |-> booking[b].pax - distinct])

\* Mutant of WritePartial: the status that was read is written too.
WritePartialStatus(p) ==
  /\ booking' = [booking EXCEPT ![p.b] =
                   [status |-> "CONFIRMED", pax |-> p.pax, price |-> p.price]]
  /\ refunded' = [refunded EXCEPT ![p.b] = @ + p.refund]
  /\ overwritten' = IF p.price + p.refund # booking[p.b].price
                    THEN overwritten \cup {p.b} ELSE overwritten

\* UPDATE bookings SET passengers, price.  The seats stay BOOKED.
WritePartial(p) ==
  /\ booking' = [booking EXCEPT ![p.b].pax = p.pax, ![p.b].price = p.price]
  /\ refunded' = [refunded EXCEPT ![p.b] = @ + p.refund]
  /\ overwritten' = IF p.price + p.refund # booking[p.b].price
                    THEN overwritten \cup {p.b} ELSE overwritten

\* In a transaction that holds the audit row comes with it; else it follows.
Partial(k) ==
  /\ call[k].pc = "partial"
  /\ WritePartial(call[k])
  /\ \/ Goto(k, Idle)
     \/ Goto(k, [pc |-> "audit", b |-> call[k].b])
  /\ UNCHANGED <<seats, halved>>
-----------------------------------------------------------------------------
\* INSERT INTO audit_logs, COMMIT, and the answer.
Audit(k) ==
  /\ call[k].pc = "audit"
  /\ Goto(k, Idle)
  /\ UNCHANGED <<booking, seats, refunded, overwritten, halved>>

\* A statement fails, or the server restarts: what a statement wrote by itself
\* stays, and ROLLBACK finds no transaction.
Fails(k) ==
  /\ call[k].pc # "idle"
  /\ Goto(k, Idle)
  /\ halved' = IF call[k].pc = "seats" THEN halved \cup {call[k].b} ELSE halved
  /\ UNCHANGED <<booking, seats, refunded, overwritten>>

Next ==
  \E k \in Calls :
    \/ \E b \in Bookings : StartCancel(k, b)
    \/ CancelKept(k) \/ CancelBooking(k) \/ CancelSeats(k)
    \/ \E b \in Bookings, l, d \in 1..Size : StartPartial(k, b, l, d)
    \/ Partial(k) \/ Audit(k) \/ Fails(k)

Spec == Init /\ [][Next]_vars
-----------------------------------------------------------------------------
TypeOK ==
  /\ booking \in [Bookings -> [status : {"CONFIRMED", "CANCELLED"},
                               pax : 1..Size, price : Nat]]
  /\ seats \in [Bookings -> {0, Size}]
  /\ call \in [Calls ->
       [pc : {"idle"}] \cup [pc : {"cancel", "seats", "audit"}, b : Bookings]
       \cup [pc : {"partial"}, b : Bookings, refund : Nat, price : Nat, pax : Nat]]
  /\ refunded \in [Bookings -> Nat]
  /\ overwritten \subseteq Bookings /\ halved \subseteq Bookings

\* However cancellations overlap and whatever of them fails, the fare a booking
\* lost is given back; and no more than that, unless a partial cancellation wrote
\* its fare over one that another had written since it read (the lines 614-641
\* look at the row once).
FareAndRefundAddUp ==
  \A b \in Bookings :
    /\ booking[b].price + refunded[b] >= Price
    /\ b \notin overwritten => booking[b].price + refunded[b] = Price

\* Whatever overlaps or fails, a seat is kept for every passenger of a confirmed
\* booking, though a full cancellation may come between the SELECT of a partial
\* one and its UPDATE; and none for a cancelled one, unless the cancellation is
\* between its two statements, or has failed there.
SeatPerPassenger ==
  \A b \in Bookings :
    IF booking[b].status = "CANCELLED"
    THEN \/ seats[b] = 0 \/ b \in halved
         \/ \E k \in Calls : call[k].pc = "seats" /\ call[k].b = b
    ELSE seats[b] >= booking[b].pax

\* Fare, refunds and seats of a booking agree with its passengers.
CancellationAddsUp == FareAndRefundAddUp /\ SeatPerPassenger
=============================================================================
