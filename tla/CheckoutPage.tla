----------------------------- MODULE CheckoutPage -----------------------------
(***************************************************************************)
(* One browser on its way to a ticket: CoachSelection, BookingFlow,        *)
(* QueuePage, PaymentPage and the bookingStore they share.  Answers arrive *)
(* when they arrive, also after the page that asked was left.  The server  *)
(* is coarse: Serve and Settle are the two sagas of BookingSaga, and a lot *)
(* is a set of seats that one request to /bookings/allocate got.           *)
(***************************************************************************)
EXTENDS Naturals

CONSTANTS Lots,      \* sets of seats that may be allocated
          Stray,     \* seat numbers in a coach they were not allocated in
          NoLot,     \* seatNumbers = []
          Orders,    \* bookings, one per click on the button that pays
          NoOrder

PageAssumption == Stray \notin Lots /\ NoLot \notin Lots /\ NoOrder \notin Orders

VARIABLES razorpay,  \* isRazorpayConfigured()
          page,      \* the route
          busy,      \* "processing" or "loading" of the page that pays
          step,      \* bookingStore.bookingStep
          seats,     \* bookingStore.seatNumbers
          lot,       \* the server's view of a lot
          owner,     \* the booking_id on the seats of a lot
          order,     \* an attempt to book: at the server, and in the browser
          shown      \* the booking on the success page

vars == <<razorpay, page, busy, step, seats, lot, owner, order, shown>>
store == <<step, seats>>
server == <<lot, owner>>

NewOrder == [lot |-> NoLot, from |-> "payment", status |-> "none",
             paid |-> FALSE, client |-> "none"]

Init ==
  /\ razorpay \in BOOLEAN
  /\ page = "coach" /\ busy = FALSE
  /\ step = 1 /\ seats = NoLot
  /\ lot = [l \in Lots |-> "none"]
  /\ owner = [l \in Lots |-> NoOrder]
  /\ order = [o \in Orders |-> NewOrder]
  /\ shown = NoOrder

\* Another page mounts with its own "processing".
Navigate(p) == page' = p /\ busy' = FALSE
-----------------------------------------------------------------------------
(* The pages *)

\* handleContinue: neither the seats nor the step of an earlier visit is
\* reset, so old numbers may meet a new coach.
ChooseCoach ==
  /\ page = "coach"
  /\ Navigate("booking")
  /\ seats' \in IF seats = NoLot THEN {NoLot} ELSE {seats, Stray}
  /\ UNCHANGED <<razorpay, step, server, order, shown>>

\* joinQueue of BookingFlow, and its button "Re-queue".
ToQueue ==
  /\ page = "booking" /\ step \in {1, 2}
  /\ Navigate("queue")
  /\ UNCHANGED <<razorpay, store, server, order, shown>>

\* A join or a poll says that the window is open: allocateAndRedirect, which
\* asks for seats unless the store has some.
Ready(l) ==
  /\ page = "queue"
  /\ IF seats # NoLot
     THEN Navigate("booking") /\ step' = 2 /\ UNCHANGED lot
     ELSE /\ lot[l] = "none"
          /\ lot' = [lot EXCEPT ![l] = "asked"]
          /\ UNCHANGED <<page, busy, step>>
  /\ UNCHANGED <<razorpay, seats, owner, order, shown>>

\* The answer: 200, and the booking page opens from whatever page; or 409.
Allocated(l) ==
  /\ lot[l] = "asked"
  /\ \/ /\ lot' = [lot EXCEPT ![l] = "held"]
        /\ seats' = l /\ step' = 2
        /\ Navigate("booking")
     \/ /\ lot' = [lot EXCEPT ![l] = "refused"]
        /\ UNCHANGED <<page, busy, store>>
  /\ UNCHANGED <<razorpay, owner, order, shown>>

\* goToPayment; and back from the payment page to step 2.
GoToPayment ==
  /\ page = "booking" /\ step = 2
  /\ step' = 4 /\ Navigate("payment")
  /\ UNCHANGED <<razorpay, seats, server, order, shown>>

BackToBooking ==
  /\ page = "payment"
  /\ step' = 2 /\ Navigate("booking")
  /\ UNCHANGED <<razorpay, seats, server, order, shown>>

\* The user walks off to choose a train again.
Leave ==
  /\ page \in {"booking", "queue", "payment", "success"}
  /\ Navigate("coach")
  /\ UNCHANGED <<razorpay, store, server, order, shown>>

\* handlePayment of PaymentPage, or confirmBooking of BookingFlow's step 4.
Pay(o) ==
  /\ page = "payment" \/ (page = "booking" /\ step = 4)
  /\ ~busy /\ seats # NoLot
  /\ order[o].status = "none"
  /\ busy' = TRUE
  /\ order' = [order EXCEPT ![o] = [@ EXCEPT !.lot = seats, !.from = page,
                                             !.status = "sent", !.client = "waits"]]
  /\ UNCHANGED <<razorpay, page, store, server, shown>>

Succeed(o, reset) ==
  /\ Navigate("success")
  /\ shown' = o
  /\ IF reset THEN step' = 1 /\ seats' = NoLot ELSE UNCHANGED store

\* Mutant of Opens: PaymentPage does not look at the message either.
OpensNever(o) == FALSE

\* confirmRes.message === 'Payment required', which BookingFlow never asks.
Opens(o) == order[o].status = "PENDING" /\ order[o].from = "payment"

\* The answer: the modal opens, "Booking confirmed!", or an error.
Answered(o) ==
  /\ order[o].client = "waits" /\ order[o].status # "sent"
  /\ \/ /\ Opens(o)
        /\ order' = [order EXCEPT ![o].client = "modal"]
        /\ busy' = FALSE
        /\ UNCHANGED <<page, store, shown>>
     \/ /\ ~Opens(o) /\ order[o].status # "refused"
        /\ order' = [order EXCEPT ![o].client = "told"]
        /\ Succeed(o, order[o].from = "payment")
     \/ /\ order[o].status = "refused"
        /\ order' = [order EXCEPT ![o].client = "closed"]
        /\ busy' = FALSE
        /\ UNCHANGED <<page, store, shown>>
  /\ UNCHANGED <<razorpay, server>>

\* In the modal, which stays open whatever the page does: the customer pays
\* and verify() is sent, or dismisses it.
InModal(o) ==
  /\ order[o].client = "modal"
  /\ \/ order' = [order EXCEPT ![o].paid = TRUE, ![o].client = "verify"]
     \/ order' = [order EXCEPT ![o].client = "closed"]
  /\ busy' \in BOOLEAN
  /\ UNCHANGED <<razorpay, page, store, server, shown>>
-----------------------------------------------------------------------------
(* The server *)

\* POST /bookings/confirm; it refuses seats that are not held, and anything
\* once the booking window is over.
Serve(o) ==
  /\ order[o].status = "sent"
  /\ LET l == order[o].lot IN
     \/ /\ l # Stray /\ lot[l] = "held"
        /\ owner' = [owner EXCEPT ![l] = o]
        /\ order' = [order EXCEPT ![o].status = IF razorpay THEN "PENDING" ELSE "CONFIRMED"]
        /\ lot' = [lot EXCEPT ![l] = IF razorpay THEN "held" ELSE "booked"]
     \/ order' = [order EXCEPT ![o].status = "refused"] /\ UNCHANGED server
  /\ UNCHANGED <<razorpay, page, busy, store, shown>>

\* confirmPaymentAndCompleteBooking.
Settle(o, r) ==
  LET l == order[o].lot
      mine == lot[l] = "held" /\ owner[l] = o IN
  /\ order' = [order EXCEPT ![o] =
       [r EXCEPT !.status = IF @ = "CONFIRMED" \/ mine THEN "CONFIRMED" ELSE "REFUNDED"]]
  /\ lot' = IF mine THEN [lot EXCEPT ![l] = "booked"] ELSE lot
  /\ UNCHANGED owner

\* POST /payments/webhook, also more than once.
Webhook(o) ==
  /\ order[o].paid
  /\ Settle(o, order[o])
  /\ UNCHANGED <<razorpay, page, busy, store, shown>>

\* POST /payments/verify answers success for a paid order, whatever became
\* of the booking; the page says "Payment verified & booking confirmed!".
Verify(o) ==
  /\ order[o].client = "verify"
  /\ \/ Settle(o, [order[o] EXCEPT !.client = "told"]) /\ Succeed(o, TRUE)
     \/ /\ order' = [order EXCEPT ![o].client = "closed"]   \* the call failed
        /\ busy' = FALSE
        /\ UNCHANGED <<page, store, server, shown>>
  /\ UNCHANGED razorpay

\* The locks ran out and somebody else took the seats.
Lapse(l) ==
  /\ lot[l] = "held"
  /\ lot' = [lot EXCEPT ![l] = "lapsed"]
  /\ UNCHANGED <<razorpay, page, busy, store, owner, order, shown>>
-----------------------------------------------------------------------------
Next ==
  \/ ChooseCoach \/ ToQueue \/ GoToPayment \/ BackToBooking \/ Leave
  \/ \E l \in Lots : Ready(l) \/ Allocated(l) \/ Lapse(l)
  \/ \E o \in Orders : \/ Pay(o) \/ Serve(o) \/ Answered(o) \/ InModal(o)
                       \/ Webhook(o) \/ Verify(o)

Spec == Init /\ [][Next]_vars
-----------------------------------------------------------------------------
OrderRecord == [lot : Lots \cup {Stray, NoLot}, from : {"payment", "booking"},
                status : {"none", "sent", "PENDING", "CONFIRMED", "REFUNDED", "refused"},
                paid : BOOLEAN,
                client : {"none", "waits", "modal", "verify", "told", "closed"}]

TypeOK ==
  /\ razorpay \in BOOLEAN /\ busy \in BOOLEAN
  /\ page \in {"coach", "booking", "queue", "payment", "success"}
  /\ step \in {1, 2, 4}
  /\ seats \in Lots \cup {Stray, NoLot}
  /\ lot \in [Lots -> {"none", "asked", "refused", "held", "lapsed", "booked"}]
  /\ owner \in [Lots -> Orders \cup {NoOrder}]
  /\ order \in [Orders -> OrderRecord]
  /\ shown \in Orders \cup {NoOrder}

\* The success page shows a booking that the server confirmed.
SuccessIsTrue == page = "success" => order[shown].status = "CONFIRMED"

\* What is true of it: without Razorpay the page tells the truth; and a page
\* reached from PaymentPage never shows a booking that still waits for its
\* payment, however many modals and answers were on their way.
SuccessIsSettled ==
  page = "success" =>
    IF razorpay THEN order[shown].from = "payment" => order[shown].status # "PENDING"
    ELSE order[shown].status = "CONFIRMED"
=============================================================================
