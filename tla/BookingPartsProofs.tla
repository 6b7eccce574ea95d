-------------------------- MODULE BookingPartsProofs --------------------------
(***************************************************************************)
(* Proofs about the other parts of BookingParts: the pages, the breaker, the *)
(* tracking widget; and about the composition of the twelve: what is proved *)
(* of a part holds of the whole, for every value of the constants.         *)
(***************************************************************************)
EXTENDS RowPartsProofs, SeatPartsProofs
-----------------------------------------------------------------------------
\* One browser on its way to a ticket.
LEMMA PageAssumed == P!PageAssumption
  BY PartsAssumption DEF PartsAssumption

\* Only where Razorpay is configured does an order wait for its payment; and a
\* modal, a verify() or a payment are of an order the server has answered.
Coherent(r) ==
  /\ r.client # "none" => r.status # "none"
  /\ r.client = "verify" => r.paid
  /\ r.client \in {"modal", "verify", "told"} \/ r.paid => r.status \notin {"none", "sent"}
  /\ r.client \in {"modal", "verify"} \/ r.paid \/ r.status \in {"PENDING", "REFUNDED"}
       => pRazorpay

Settled(r) == /\ r.status \in {"PENDING", "CONFIRMED", "REFUNDED"}
              /\ r.from = "payment" => r.status # "PENDING"

CheckoutPageIInv == /\ P!TypeOK
                    /\ \A o \in Orders : Coherent(order[o])
                    /\ page = "success" => shown \in Orders /\ Settled(order[shown])
-----------------------------------------------------------------------------
LotStates == [Lots -> {"none", "asked", "refused", "held", "lapsed", "booked"}]
Owners == [Lots -> Orders \cup {NoOrder}]
PageTypes == /\ busy \in BOOLEAN
             /\ page \in {"coach", "booking", "queue", "payment", "success"}
             /\ step \in {1, 2, 4} /\ pSeats \in Lots \cup {Stray, NoLot}
             /\ shown \in Orders \cup {NoOrder}

LEMMA CheckoutTypes ==
  P!TypeOK <=> /\ pRazorpay \in BOOLEAN /\ PageTypes /\ lot \in LotStates /\ owner \in Owners
               /\ order \in [Orders -> P!OrderRecord]
  BY Zenon DEF P!TypeOK, PageTypes, LotStates, Owners

\* A step of the pages leaves the orders; only success shows a booking.
LEMMA PagesOnly ==
  ASSUME CheckoutPageIInv, UNCHANGED <<pRazorpay, order, shown, owner>>, PageTypes', lot' \in LotStates,
         page' = "success" => page = "success"
  PROVE  CheckoutPageIInv'
  <1>1. P!TypeOK'
    <2>1. pRazorpay' \in BOOLEAN /\ owner' \in Owners /\ order' \in [Orders -> P!OrderRecord]
      BY CheckoutTypes DEF CheckoutPageIInv
    <2> QED BY <2>1, Zenon DEF P!TypeOK, PageTypes, LotStates, Owners
  <1>2. \A o \in Orders : Coherent(order[o])'
    BY DEF CheckoutPageIInv, Coherent
  <1> QED BY <1>1, <1>2 DEF CheckoutPageIInv, Settled

\* One order becomes r; the page shows what it showed, or this one.
LEMMA OneOrder ==
  ASSUME CheckoutPageIInv, NEW o \in Orders, NEW r \in P!OrderRecord,
         order' = [order EXCEPT ![o] = r], UNCHANGED pRazorpay, PageTypes',
         lot' \in LotStates, owner' \in Owners,
         Coherent(r), Settled(order[o]) => Settled(r),
         page' = "success" => \/ page = "success" /\ shown' = shown
                              \/ shown' = o /\ Settled(r)
  PROVE  CheckoutPageIInv'
  <1>1. order \in [Orders -> P!OrderRecord]
    BY CheckoutTypes DEF CheckoutPageIInv
  <1>2. /\ order' \in [Orders -> P!OrderRecord]
        /\ \A p \in Orders : order'[p] = IF p = o THEN r ELSE order[p]
    BY <1>1
  <1>3. P!TypeOK'
    <2>1. pRazorpay' \in BOOLEAN
      BY CheckoutTypes DEF CheckoutPageIInv
    <2> QED BY <1>2, <2>1, Zenon DEF P!TypeOK, PageTypes, LotStates, Owners
  <1>4. \A p \in Orders : Coherent(order[p])'
    BY <1>2 DEF CheckoutPageIInv, Coherent
  <1>5. ASSUME page' = "success" PROVE shown' \in Orders /\ Settled(order'[shown'])
    BY <1>2, <1>5 DEF CheckoutPageIInv
  <1> QED BY <1>3, <1>4, <1>5 DEF CheckoutPageIInv, Settled

LEMMA CheckoutPagePagesIInv ==
  ASSUME CheckoutPageIInv, \/ P!ChooseCoach \/ P!ToQueue \/ P!GoToPayment \/ P!BackToBooking \/ P!Leave
                           \/ \E l \in Lots : P!Ready(l) \/ P!Allocated(l) \/ P!Lapse(l)
  PROVE  CheckoutPageIInv'
  <1> USE CheckoutTypes DEF CheckoutPageIInv, PageTypes, P!Navigate, P!store, P!server
  <1>1. ASSUME P!ChooseCoach \/ P!ToQueue \/ P!GoToPayment \/ P!BackToBooking \/ P!Leave PROVE CheckoutPageIInv'
    <2>1. /\ UNCHANGED <<pRazorpay, order, shown, lot, owner>>
          /\ page' \in {"coach", "booking", "queue", "payment"} /\ busy' = FALSE
          /\ step' \in {1, 2, 4} /\ pSeats' \in {pSeats, NoLot, Stray}
      BY <1>1 DEF P!ChooseCoach, P!ToQueue, P!GoToPayment, P!BackToBooking, P!Leave
    <2> QED BY <2>1, PagesOnly
  <1>2. ASSUME NEW l \in Lots, P!Ready(l) PROVE CheckoutPageIInv'
    <2>1. /\ UNCHANGED <<pRazorpay, order, shown, owner, pSeats>>
          /\ page' \in {page, "booking"} /\ busy' \in {busy, FALSE} /\ step' \in {step, 2}
          /\ lot' \in {lot, [lot EXCEPT ![l] = "asked"]}
      BY <1>2 DEF P!Ready
    <2>2. lot' \in LotStates
      BY <2>1 DEF LotStates
    <2> QED BY <2>1, <2>2, PagesOnly
  <1>3. ASSUME NEW l \in Lots, P!Allocated(l) PROVE CheckoutPageIInv'
    <2>1. /\ UNCHANGED <<pRazorpay, order, shown, owner>>
          /\ page' \in {page, "booking"} /\ busy' \in {busy, FALSE} /\ step' \in {step, 2}
          /\ pSeats' \in {pSeats, l}
          /\ lot' \in {[lot EXCEPT ![l] = "held"], [lot EXCEPT ![l] = "refused"]}
      BY <1>3 DEF P!Allocated
    <2>2. lot' \in LotStates
      BY <2>1 DEF LotStates
    <2> QED BY <2>1, <2>2, PagesOnly
  <1>4. ASSUME NEW l \in Lots, P!Lapse(l) PROVE CheckoutPageIInv'
    <2>1. lot' \in LotStates
      BY <1>4 DEF P!Lapse, LotStates
    <2> QED BY <1>4, <2>1, PagesOnly DEF P!Lapse
  <1> QED BY <1>1, <1>2, <1>3, <1>4

LEMMA PayIInv ==
  ASSUME CheckoutPageIInv, NEW o \in Orders, P!Pay(o)
  PROVE  CheckoutPageIInv'
  <1> USE CheckoutTypes DEF CheckoutPageIInv
  <1> DEFINE r == [order[o] EXCEPT !.lot = pSeats, !.from = page,
                                   !.status = "sent", !.client = "waits"]
  <1>1. /\ page \in {"payment", "booking"} /\ order[o].status = "none" /\ busy' = TRUE
        /\ order' = [order EXCEPT ![o] = r]
        /\ UNCHANGED <<pRazorpay, page, step, pSeats, lot, owner, shown>>
    BY DEF P!Pay, P!store, P!server
  <1>2. order[o] \in P!OrderRecord /\ Coherent(order[o])
    OBVIOUS
  <1>3. r \in P!OrderRecord /\ r.status = "sent" /\ r.client = "waits" /\ r.paid = order[o].paid
    BY <1>1, <1>2 DEF P!OrderRecord, PageTypes
  <1>4. Coherent(r) /\ (Settled(order[o]) => Settled(r))
    BY <1>1, <1>2, <1>3 DEF Coherent, Settled
  <1> HIDE DEF r
  <1> QED BY <1>1, <1>3, <1>4, OneOrder DEF PageTypes

LEMMA ServeIInv ==
  ASSUME CheckoutPageIInv, NEW o \in Orders, P!Serve(o)
  PROVE  CheckoutPageIInv'
  <1> USE CheckoutTypes DEF CheckoutPageIInv
  <1>1. PICK st \in {"PENDING", "CONFIRMED", "refused"} :
          /\ order' = [order EXCEPT ![o] = [order[o] EXCEPT !.status = st]]
          /\ st = "PENDING" => pRazorpay
    BY DEF P!Serve
  <1>2. /\ order[o].status = "sent" /\ lot' \in LotStates /\ owner' \in Owners
        /\ UNCHANGED <<pRazorpay, page, busy, step, pSeats, shown>>
    BY DEF P!Serve, P!store, P!server, LotStates, Owners
  <1> DEFINE r == [order[o] EXCEPT !.status = st]
  <1>3. order[o] \in P!OrderRecord /\ Coherent(order[o])
    OBVIOUS
  <1>4. r \in P!OrderRecord /\ r.status = st /\ r.client = order[o].client
        /\ r.paid = order[o].paid
    BY <1>3 DEF P!OrderRecord
  <1>5. Coherent(r) /\ (Settled(order[o]) => Settled(r))
    BY <1>1, <1>2, <1>3, <1>4 DEF Coherent, Settled
  <1> HIDE DEF r
  <1>6. order' = [order EXCEPT ![o] = r]
    BY <1>1 DEF r
  <1> QED BY <1>2, <1>4, <1>5, <1>6, OneOrder DEF PageTypes

LEMMA AnsweredIInv ==
  ASSUME CheckoutPageIInv, NEW o \in Orders, P!Answered(o)
  PROVE  CheckoutPageIInv'
  <1> USE CheckoutTypes DEF CheckoutPageIInv
  <1> DEFINE old == order[o]
  <1>1. /\ old.client = "waits" /\ old.status # "sent" /\ UNCHANGED <<pRazorpay, lot, owner>>
        /\ old \in P!OrderRecord /\ Coherent(old)
    BY DEF P!Answered, P!server
  <1>2. PICK cl \in {"modal", "told", "closed"} :
          /\ order' = [order EXCEPT ![o] = [old EXCEPT !.client = cl]]
          /\ busy' = FALSE
          /\ \/ cl = "modal" /\ P!Opens(o) /\ UNCHANGED <<page, step, pSeats, shown>>
             \/ /\ cl = "told" /\ ~P!Opens(o) /\ old.status # "refused"
                /\ page' = "success" /\ shown' = o /\ step' \in {step, 1}
                /\ pSeats' \in {pSeats, NoLot}
             \/ cl = "closed" /\ UNCHANGED <<page, step, pSeats, shown>>
    BY DEF P!Answered, P!Succeed, P!Navigate, P!store
  <1> DEFINE r == [old EXCEPT !.client = cl]
  <1>3. r \in P!OrderRecord /\ r.status = old.status /\ r.client = cl /\ r.paid = old.paid
        /\ r.from = old.from
    BY <1>1 DEF P!OrderRecord
  <1>4. Coherent(r) /\ (Settled(old) => Settled(r))
    BY <1>1, <1>2, <1>3 DEF Coherent, Settled, P!Opens
  <1>5. cl = "told" => Settled(r)
    BY <1>1, <1>2, <1>3 DEF Coherent, Settled, P!Opens, P!OrderRecord
  <1>6. PageTypes'
    BY <1>2 DEF PageTypes
  <1>7. page' = "success" => \/ page = "success" /\ shown' = shown
                             \/ shown' = o /\ Settled(r)
    BY <1>2, <1>5
  <1> HIDE DEF r
  <1>8. order' = [order EXCEPT ![o] = r]
    BY <1>2 DEF r
  <1> QED BY <1>1, <1>3, <1>4, <1>6, <1>7, <1>8, OneOrder

LEMMA InModalIInv ==
  ASSUME CheckoutPageIInv, NEW o \in Orders, P!InModal(o)
  PROVE  CheckoutPageIInv'
  <1> USE CheckoutTypes DEF CheckoutPageIInv
  <1> DEFINE old == order[o]
  <1>1. /\ old.client = "modal" /\ old \in P!OrderRecord /\ Coherent(old) /\ busy' \in BOOLEAN
        /\ UNCHANGED <<pRazorpay, page, step, pSeats, lot, owner, shown>>
    BY DEF P!InModal, P!store, P!server
  <1>2. PICK r \in {[old EXCEPT !.paid = TRUE, !.client = "verify"],
                    [old EXCEPT !.client = "closed"]} :
          order' = [order EXCEPT ![o] = r]
    BY DEF P!InModal
  <1>3. /\ r \in P!OrderRecord /\ r.status = old.status /\ r.from = old.from
        /\ r.client \in {"verify", "closed"}
        /\ IF r.client = "verify" THEN r.paid ELSE r.paid = old.paid
    BY <1>1 DEF P!OrderRecord
  <1>4. Coherent(r) /\ (Settled(old) => Settled(r))
    BY <1>1, <1>3 DEF Coherent, Settled
  <1> QED BY <1>1, <1>2, <1>3, <1>4, OneOrder DEF PageTypes

\* The server settles a paid order; a page that shows it stays right.
LEMMA SettleIInv ==
  ASSUME CheckoutPageIInv, NEW o \in Orders, NEW r \in P!OrderRecord, P!Settle(o, r), UNCHANGED pRazorpay,
         r.status = order[o].status, r.from = order[o].from, r.paid = order[o].paid,
         r.client \in {order[o].client, "told"}, order[o].paid, PageTypes',
         page' = "success" => (page = "success" /\ shown' = shown) \/ shown' = o
  PROVE  CheckoutPageIInv'
  <1> USE CheckoutTypes DEF CheckoutPageIInv
  <1>1. PICK st \in {"CONFIRMED", "REFUNDED"} :
          order' = [order EXCEPT ![o] = [r EXCEPT !.status = st]]
    BY DEF P!Settle
  <1>2. lot' \in LotStates /\ owner' \in Owners
    BY DEF P!Settle, LotStates
  <1> DEFINE q == [r EXCEPT !.status = st]
  <1>3. q \in P!OrderRecord /\ q.status = st /\ q.client = r.client /\ q.paid = r.paid
    BY DEF P!OrderRecord
  <1>4. Coherent(order[o])
    OBVIOUS
  <1>5. Coherent(q) /\ Settled(q)
    BY <1>3, <1>4 DEF Coherent, Settled
  <1> HIDE DEF q
  <1>6. order' = [order EXCEPT ![o] = q]
    BY <1>1 DEF q
  <1> QED BY <1>2, <1>3, <1>5, <1>6, OneOrder

LEMMA WebhookIInv ==
  ASSUME CheckoutPageIInv, NEW o \in Orders, P!Webhook(o)
  PROVE  CheckoutPageIInv'
  <1>1. /\ order[o].paid /\ P!Settle(o, order[o])
        /\ UNCHANGED <<pRazorpay, page, busy, step, pSeats, shown>>
    BY DEF P!Webhook, P!store
  <1>2. order[o] \in P!OrderRecord /\ PageTypes
    BY CheckoutTypes DEF CheckoutPageIInv
  <1>3. PageTypes'
    BY <1>1, <1>2 DEF PageTypes
  <1> QED BY <1>1, <1>2, <1>3, SettleIInv

LEMMA VerifyIInv ==
  ASSUME CheckoutPageIInv, NEW o \in Orders, P!Verify(o)
  PROVE  CheckoutPageIInv'
  <1> USE CheckoutTypes DEF CheckoutPageIInv
  <1> DEFINE old == order[o]
  <1>1. old \in P!OrderRecord /\ Coherent(old) /\ old.client = "verify" /\ old.paid
    BY DEF P!Verify, Coherent
  <1>2. CASE P!Settle(o, [old EXCEPT !.client = "told"]) /\ P!Succeed(o, TRUE)
    <2> DEFINE r == [old EXCEPT !.client = "told"]
    <2>1. r \in P!OrderRecord /\ r.status = old.status /\ r.from = old.from
          /\ r.paid = old.paid /\ r.client = "told"
      BY <1>1 DEF P!OrderRecord
    <2>2. /\ P!Settle(o, r) /\ page' = "success" /\ shown' = o /\ busy' = FALSE /\ step' = 1
          /\ pSeats' = NoLot /\ UNCHANGED pRazorpay
      BY <1>2 DEF P!Succeed, P!Navigate, P!Verify
    <2> HIDE DEF r
    <2>3. PageTypes'
      BY <2>2 DEF PageTypes
    <2> QED BY <1>1, <2>1, <2>2, <2>3, SettleIInv
  <1>3. CASE /\ order' = [order EXCEPT ![o].client = "closed"]
             /\ busy' = FALSE
             /\ UNCHANGED <<page, P!store, P!server, shown>>
    <2> DEFINE r == [old EXCEPT !.client = "closed"]
    <2>1. r \in P!OrderRecord /\ r.status = old.status /\ r.from = old.from
          /\ r.paid = old.paid /\ r.client = "closed"
      BY <1>1 DEF P!OrderRecord
    <2>2. Coherent(r) /\ (Settled(old) => Settled(r))
      BY <1>1, <2>1 DEF Coherent, Settled
    <2>3. /\ order' = [order EXCEPT ![o] = r]
          /\ UNCHANGED <<pRazorpay, page, step, pSeats, lot, owner, shown>>
      BY <1>3 DEF P!store, P!server, P!Verify
    <2>4. PageTypes'
      BY <1>3, <2>3 DEF PageTypes
    <2> HIDE DEF r
    <2> QED BY <2>1, <2>2, <2>3, <2>4, OneOrder
  <1> QED BY <1>2, <1>3 DEF P!Verify

\* Without Razorpay the success page shows a booking the server confirmed; and
\* reached from PaymentPage it never shows one that still waits for its payment,
\* whatever modals and answers were on their way (PaymentPage.tsx, BookingFlow.tsx).
THEOREM CheckoutSettled == P!Spec => [](P!TypeOK /\ P!SuccessIsSettled)
  <1>1. P!Init => CheckoutPageIInv
    <2> SUFFICES ASSUME P!Init PROVE CheckoutPageIInv
      OBVIOUS
    <2>1. order \in [Orders -> P!OrderRecord] /\ \A o \in Orders : Coherent(order[o])
      BY DEF P!Init, P!NewOrder, P!OrderRecord, Coherent
    <2>2. PageTypes /\ lot \in LotStates /\ owner \in Owners /\ pRazorpay \in BOOLEAN
      BY DEF P!Init, PageTypes, LotStates, Owners
    <2>3. page # "success"
      BY DEF P!Init
    <2> QED BY <2>1, <2>2, <2>3, CheckoutTypes DEF CheckoutPageIInv
  <1>2. CheckoutPageIInv /\ [P!Next]_P!vars => CheckoutPageIInv'
    <2> SUFFICES ASSUME CheckoutPageIInv, [P!Next]_P!vars PROVE CheckoutPageIInv'
      OBVIOUS
    <2>1. CASE P!Next
      BY <2>1, CheckoutPagePagesIInv, PayIInv, ServeIInv, AnsweredIInv, InModalIInv,
         WebhookIInv,
         VerifyIInv DEF P!Next
    <2>2. CASE UNCHANGED P!vars
      <3>1. UNCHANGED <<pRazorpay, page, busy, step, pSeats, lot, owner, order, shown>>
        BY <2>2 DEF P!vars
      <3>2. PageTypes' /\ lot' \in LotStates
        BY <3>1, CheckoutTypes DEF CheckoutPageIInv, PageTypes
      <3> QED BY <3>1, <3>2, PagesOnly
    <2> QED BY <2>1, <2>2
  <1>3. CheckoutPageIInv => P!TypeOK /\ P!SuccessIsSettled
    <2> SUFFICES ASSUME CheckoutPageIInv, page = "success", shown \in Orders
                 PROVE  IF pRazorpay
                        THEN order[shown].from = "payment" => order[shown].status # "PENDING"
                        ELSE order[shown].status = "CONFIRMED"
      BY DEF CheckoutPageIInv, P!SuccessIsSettled
    <2>1. Settled(order[shown]) /\ Coherent(order[shown])
      BY DEF CheckoutPageIInv
    <2> QED BY <2>1 DEF Settled, Coherent
  <1> QED BY <1>1, <1>2, <1>3, PTL DEF P!Spec
-----------------------------------------------------------------------------
(***************************************************************************)
(* Proofs about the circuit breaker, for any number of calls, any          *)
(* threshold and any time-out.  Its variables do not say that the last     *)
(* results were failures: the invariant ties the counter to the results,   *)
(* the state to the counter, and "half open" to the time that has passed.  *)
(***************************************************************************)
\* CLOSED means that fewer failures than the threshold are counted.
ClosedBelow == state = "CLOSED" <=> failures < Threshold

\* Below the threshold the counter is the number of failures since a success,
\* which is therefore still among the last results.
SuccessRemembered == failures < Threshold => ended[failures + 1] = "ok"

\* Half open, the latest failure is more than Timeout ago.
HalfOpenLate == state = "HALF_OPEN" => age > Timeout

BreakerIInv == D!TypeOK /\ ClosedBelow /\ SuccessRemembered /\ HalfOpenLate /\ D!ProbeOut
-----------------------------------------------------------------------------
\* A result that is noted moves the others one place on.
LEMMA NoteMoves ==
  ASSUME D!BreakerAssumption, ended \in [1..Threshold -> D!Results],
         NEW result \in D!Results, D!Note(result)
  PROVE  /\ ended' \in [1..Threshold -> D!Results]
         /\ ended'[1] = result
         /\ \A i \in 1..Threshold : i > 1 => ended'[i] = ended[i - 1]
  BY DEF D!BreakerAssumption, D!Note

\* The breaker starts closed, with no failure in sight.
LEMMA BreakerInitIInv ==
  ASSUME D!BreakerAssumption
  PROVE  D!Init => BreakerIInv
  BY DEF D!BreakerAssumption, D!Init, BreakerIInv, D!TypeOK, ClosedBelow, SuccessRemembered,
         HalfOpenLate, D!ProbeOut, D!States, D!Results

\* Steps of a request that is not at the generator change its answer only.
LEMMA BreakerAnswerIInv ==
  ASSUME D!BreakerAssumption, BreakerIInv, NEW c \in Downloads,
         D!NotFound(c) \/ D!Refuse(c) \/ D!Again(c)
  PROVE  BreakerIInv'
  BY DEF D!BreakerAssumption, BreakerIInv, D!TypeOK, ClosedBelow, SuccessRemembered,
         HalfOpenLate, D!ProbeOut, D!NotFound, D!Refuse, D!Again, D!Answer, D!States, D!Results

\* Who passes an open breaker leaves it half open, and is its probe.
LEMMA GenerateIInv ==
  ASSUME D!BreakerAssumption, BreakerIInv, NEW c \in Downloads, D!Generate(c)
  PROVE  BreakerIInv'
  <1>1. D!TypeOK'
    BY DEF BreakerIInv, D!TypeOK, D!Generate, D!LetThrough, D!Answer, D!States
  <1>2. ClosedBelow' /\ SuccessRemembered' /\ HalfOpenLate'
    BY DEF BreakerIInv, D!TypeOK, ClosedBelow, SuccessRemembered, HalfOpenLate,
           D!Generate, D!LetThrough, D!States
  <1>3. dCall'[c] = "generating"
    BY DEF BreakerIInv, D!TypeOK, D!Generate, D!Answer
  <1> QED BY <1>1, <1>2, <1>3 DEF BreakerIInv, D!ProbeOut

\* A success closes the breaker, and is the latest result.
LEMMA SucceedIInv ==
  ASSUME D!BreakerAssumption, BreakerIInv, NEW c \in Downloads, D!Succeed(c)
  PROVE  BreakerIInv'
  <1>1. /\ ended' \in [1..Threshold -> D!Results]
        /\ ended'[1] = "ok"
    BY NoteMoves DEF BreakerIInv, D!TypeOK, D!Succeed, D!Results
  <1>2. D!TypeOK'
    BY <1>1 DEF D!BreakerAssumption, BreakerIInv, D!TypeOK, D!Succeed, D!Answer, D!States
  <1> QED BY <1>1, <1>2 DEF D!BreakerAssumption, BreakerIInv, ClosedBelow, SuccessRemembered,
                            HalfOpenLate, D!ProbeOut, D!Succeed

\* A failure opens the breaker if it is the last one the threshold allows; half
\* open the counter is there already, so that the state cannot stay half open.
LEMMA FailIInv ==
  ASSUME D!BreakerAssumption, BreakerIInv, NEW c \in Downloads, D!Fail(c)
  PROVE  BreakerIInv'
  <1> USE DEF D!BreakerAssumption
  <1>1. /\ ended' \in [1..Threshold -> D!Results]
        /\ \A i \in 1..Threshold : i > 1 => ended'[i] = ended[i - 1]
    BY NoteMoves DEF BreakerIInv, D!TypeOK, D!Fail, D!Results
  <1>2. D!TypeOK'
    BY <1>1 DEF BreakerIInv, D!TypeOK, D!Fail, D!Answer, D!States
  <1>3. ClosedBelow' /\ HalfOpenLate' /\ D!ProbeOut'
    <2>1. state' # "HALF_OPEN"
      BY DEF BreakerIInv, D!TypeOK, ClosedBelow, D!Fail, D!States
    <2>2. ClosedBelow'
      BY DEF BreakerIInv, D!TypeOK, ClosedBelow, D!Fail, D!States
    <2> QED BY <2>1, <2>2 DEF HalfOpenLate, D!ProbeOut
  <1>4. SuccessRemembered'
    <2> SUFFICES ASSUME failures + 1 < Threshold
                 PROVE  ended'[failures + 2] = "ok"
      BY DEF SuccessRemembered, D!Fail, BreakerIInv, D!TypeOK
    <2>1. ended[failures + 1] = "ok"
      BY DEF BreakerIInv, D!TypeOK, SuccessRemembered
    <2>2. failures + 2 \in 1..Threshold /\ failures + 2 > 1
      BY DEF BreakerIInv, D!TypeOK
    <2>3. (failures + 2) - 1 = failures + 1
      BY DEF BreakerIInv, D!TypeOK
    <2> QED BY <1>1, <2>1, <2>2, <2>3
  <1> QED BY <1>2, <1>3, <1>4 DEF BreakerIInv

\* Time passes up to the age that lets a call through.
LEMMA TickIInv ==
  ASSUME D!BreakerAssumption, BreakerIInv, D!Tick
  PROVE  BreakerIInv'
  BY DEF D!BreakerAssumption, BreakerIInv, D!TypeOK, ClosedBelow, SuccessRemembered,
         HalfOpenLate, D!ProbeOut, D!Tick

\* The invariant is inductive.
LEMMA BreakerNextIInv ==
  ASSUME D!BreakerAssumption, BreakerIInv, [D!Next]_D!vars
  PROVE  BreakerIInv'
  <1>1. CASE D!Next
    <2>1. ASSUME NEW c \in Downloads, D!NotFound(c) \/ D!Refuse(c) \/ D!Again(c)
          PROVE  BreakerIInv'
      BY <2>1, BreakerAnswerIInv
    <2>2. ASSUME NEW c \in Downloads, D!Generate(c) PROVE BreakerIInv'
      BY <2>2, GenerateIInv
    <2>3. ASSUME NEW c \in Downloads, D!Succeed(c) PROVE BreakerIInv'
      BY <2>3, SucceedIInv
    <2>4. ASSUME NEW c \in Downloads, D!Fail(c) PROVE BreakerIInv'
      BY <2>4, FailIInv
    <2>5. CASE D!Tick
      BY <2>5, TickIInv
    <2> QED BY <1>1, <2>1, <2>2, <2>3, <2>4, <2>5 DEF D!Next
  <1>2. CASE UNCHANGED D!vars
    BY <1>2 DEF D!vars, BreakerIInv, D!TypeOK, ClosedBelow, SuccessRemembered, HalfOpenLate,
                D!ProbeOut
  <1> QED BY <1>1, <1>2

\* The breaker's variables keep their types, its counter and results agree, and
\* its state says what the counter says (pricing.service.ts 21-46).
THEOREM BreakerInvariant ==
  ASSUME D!BreakerAssumption
  PROVE  D!Spec => []BreakerIInv
  <1>1. D!Init => BreakerIInv
    BY BreakerInitIInv
  <1>2. BreakerIInv /\ [D!Next]_D!vars => BreakerIInv'
    BY BreakerNextIInv
  <1> QED BY <1>1, <1>2, PTL DEF D!Spec

\* A half-open breaker has a call on the way that will close or open it: it is
\* never left half open, where every call gets through.
THEOREM ProbeIsOut ==
  ASSUME D!BreakerAssumption
  PROVE  D!Spec => []D!ProbeOut
  <1>1. BreakerIInv => D!ProbeOut
    BY DEF BreakerIInv
  <1> QED BY <1>1, BreakerInvariant, PTL
-----------------------------------------------------------------------------
\* The one step that starts a generation is Generate.
LEMMA StartIsGenerate ==
  ASSUME BreakerIInv, D!Next, D!Starts
  PROVE  \E c \in Downloads : D!Generate(c)
  <1> USE DEF BreakerIInv, D!TypeOK
  <1>1. PICK s \in Downloads : dCall[s] # "generating" /\ dCall'[s] = "generating"
    BY DEF D!Starts
  <1>2. SUFFICES ASSUME \A c \in Downloads : ~D!Generate(c)
                 PROVE  FALSE
    OBVIOUS
  <1>3. ASSUME NEW c \in Downloads, D!NotFound(c) \/ D!Refuse(c) \/ D!Succeed(c) \/ D!Fail(c) \/ D!Again(c)
        PROVE  FALSE
    <2>1. PICK a \in {"idle", "200", "404", "503"} : D!Answer(c, a)
      BY <1>3 DEF D!NotFound, D!Refuse, D!Succeed, D!Fail, D!Again
    <2> QED BY <1>1, <2>1 DEF D!Answer
  <1>4. CASE D!Tick
    BY <1>1, <1>4 DEF D!Tick
  <1> QED BY <1>2, <1>3, <1>4 DEF D!Next

\* While the last Threshold results are failures, no call starts a generation
\* before the latest failure is more than Timeout ago: whatever order the results
\* of overlapping calls come back in.
THEOREM GeneratorIsSpared ==
  ASSUME D!BreakerAssumption
  PROVE  D!Spec => D!GeneratorSpared
  <1>1. BreakerIInv /\ [D!Next]_D!vars => [D!Starts /\ D!Broken => age > Timeout]_D!vars
    <2> SUFFICES ASSUME BreakerIInv, D!Next, D!Starts, D!Broken
                 PROVE  age > Timeout
      OBVIOUS
    <2>1. PICK c \in Downloads : D!Generate(c)
      BY StartIsGenerate
    <2>2. ~(failures < Threshold)
      <3> SUFFICES ASSUME failures < Threshold PROVE FALSE
        OBVIOUS
      <3>1. failures + 1 \in 1..Threshold
        BY DEF D!BreakerAssumption, BreakerIInv, D!TypeOK
      <3> QED BY <3>1 DEF BreakerIInv, SuccessRemembered, D!Broken
    <2>3. state \in {"OPEN", "HALF_OPEN"}
      BY <2>2 DEF BreakerIInv, D!TypeOK, ClosedBelow, D!States
    <2> QED BY <2>1, <2>3 DEF BreakerIInv, HalfOpenLate, D!Generate, D!LetThrough
  <1> QED BY <1>1, BreakerInvariant, PTL DEF D!Spec, D!GeneratorSpared
-----------------------------------------------------------------------------
(***************************************************************************)
(* What the widget says of its connection is true, for any number of       *)
(* sockets and reconnections.  The handlers do not ask whose event they    *)
(* are given; late events of an earlier socket do no harm because a        *)
(* reconnection is offered only when that socket is closed, which is its   *)
(* last event.                                                             *)
(***************************************************************************)
\* What the state of the widget's socket is called.
Shown == [connecting |-> "connecting", connected |-> "open", disconnected |-> "closed"]

\* The widget has the socket made last, and knows its state; those it had
\* before are closed.
WidgetKnows ==
  widget.open =>
    /\ widget.first \in 1..made /\ widget.ref = made
    /\ client[made] = Shown[widget.connState]
    /\ \A s \in widget.first..(made - 1) : client[s] = "closed"
    /\ widget.ref \in retried \cup {widget.first}

\* Sockets that are not made yet have no end anywhere.
Unmade ==
  \A s \in L!Sockets : s > made => client[s] = "none" /\ s \notin retried

LiveTrackingIInv == L!TypeOK /\ WidgetKnows /\ Unmade /\ L!TrackingHonest

USE DEF L!Sockets, L!States
-----------------------------------------------------------------------------
\* Steps of the server alone: they keep timers and connections together.
LEMMA ServerIInv ==
  ASSUME LiveTrackingIInv, UNCHANGED <<widget, made, client, retried>>,
         serverUp' \in BOOLEAN,
         server' \in [L!Sockets -> {"none", "open", "closed"}],
         timer' \in [L!Sockets -> BOOLEAN], poll' \in [L!Sockets -> BOOLEAN],
         \A s \in L!Sockets : timer'[s] => server'[s] = "open"
  PROVE  LiveTrackingIInv'
  BY DEF LiveTrackingIInv, L!TypeOK, WidgetKnows, Unmade, L!TrackingHonest

LEMMA OpenIInv ==
  ASSUME L!TrackingAssumption, LiveTrackingIInv, L!Open
  PROVE  LiveTrackingIInv'
  <1> USE DEF LiveTrackingIInv, L!Open, L!TrackingAssumption
  <1> DEFINE n == made + 1
  <1>1. made \in Nat /\ n \in L!Sockets /\ n > made
    BY DEF L!TypeOK
  <1>2. /\ widget'.open /\ widget'.first = n /\ widget'.ref = n
        /\ widget'.connState = "connecting" /\ widget'.status = FALSE
    BY DEF L!Gone
  <1>3. \A s \in L!Sockets : client'[s] = IF s = n THEN "connecting" ELSE client[s]
    BY DEF L!TypeOK
  <1>4. L!TypeOK'
    <2>1. widget' \in [open : BOOLEAN, first : L!Sockets \cup {NoSocket},
                       ref : L!Sockets \cup {NoSocket},
                       connState : {"connecting", "connected", "disconnected"},
                       status : BOOLEAN]
      BY <1>1 DEF L!Gone
    <2> QED BY <1>1, <2>1 DEF L!TypeOK
  <1>5. WidgetKnows'
    BY <1>1, <1>2, <1>3 DEF WidgetKnows, Shown
  <1>6. Unmade'
    BY <1>1, <1>3 DEF Unmade
  <1>7. L!TrackingHonest'
    BY <1>1, <1>2, <1>3 DEF L!TrackingHonest
  <1> QED BY <1>4, <1>5, <1>6, <1>7

\* The socket of the closure is closed; another is one of a reconnection.
LEMMA CloseWidgetIInv ==
  ASSUME L!TrackingAssumption, LiveTrackingIInv, L!CloseWidget
  PROVE  LiveTrackingIInv'
  <1> USE DEF LiveTrackingIInv, L!CloseWidget, L!TrackingAssumption
  <1>1. /\ widget' = L!Gone /\ ~widget'.open
        /\ widget' \in [open : BOOLEAN, first : L!Sockets \cup {NoSocket},
                        ref : L!Sockets \cup {NoSocket},
                        connState : {"connecting", "connected", "disconnected"},
                        status : BOOLEAN]
    BY DEF L!Gone
  <1>2. made \in Nat /\ widget.first \in 1..made /\ widget.first \in L!Sockets
    BY DEF L!TypeOK, WidgetKnows
  <1>3. \A s \in L!Sockets :
          client'[s] = IF s = widget.first /\ client[s] \in {"connecting", "open"}
                       THEN "closing" ELSE client[s]
    BY <1>2 DEF L!Closed, L!TypeOK
  <1>4. L!TypeOK'
    BY <1>1, <1>2 DEF L!TypeOK, L!Closed
  <1>5. WidgetKnows' /\ Unmade'
    BY <1>1, <1>2, <1>3 DEF WidgetKnows, Unmade
  <1>6. L!TrackingHonest'
    BY <1>1, <1>2, <1>3 DEF L!TrackingHonest, WidgetKnows, L!TypeOK
  <1> QED BY <1>4, <1>5, <1>6

\* The socket that is replaced has had its last event.
LEMMA ReconnectIInv ==
  ASSUME L!TrackingAssumption, LiveTrackingIInv, L!Reconnect
  PROVE  LiveTrackingIInv'
  <1> USE DEF LiveTrackingIInv, L!Reconnect, L!OffersReconnect, L!TrackingAssumption
  <1> DEFINE n == made + 1
  <1>1. /\ made \in L!Sockets /\ n \in L!Sockets /\ n > made /\ widget.ref = made
        /\ widget.first \in 1..made
    BY DEF L!TypeOK, WidgetKnows
  <1>2. client[made] = "closed"
    BY <1>1 DEF WidgetKnows, Shown
  <1>3. \A s \in L!Sockets : client'[s] = IF s = n THEN "connecting" ELSE client[s]
    BY <1>1, <1>2 DEF L!Closed, L!TypeOK
  <1>4. /\ widget'.open /\ widget'.first = widget.first /\ widget'.ref = n
        /\ widget'.connState = "connecting"
        /\ widget' \in [open : BOOLEAN, first : L!Sockets \cup {NoSocket},
                        ref : L!Sockets \cup {NoSocket},
                        connState : {"connecting", "connected", "disconnected"},
                        status : BOOLEAN]
    BY <1>1 DEF L!TypeOK
  <1>5. L!TypeOK'
    <2>1. client' \in [L!Sockets -> L!States]
      BY <1>1 DEF L!TypeOK, L!Closed
    <2>2. made' \in 0..MaxSockets /\ retried' \subseteq L!Sockets
      BY <1>1 DEF L!TypeOK
    <2> QED BY <1>4, <2>1, <2>2 DEF L!TypeOK
  <1>6. WidgetKnows'
    <2>1. client'[n] = Shown["connecting"]
      BY <1>1, <1>3 DEF Shown
    <2>2. \A s \in widget.first..made : client'[s] = "closed"
      BY <1>1, <1>2, <1>3 DEF WidgetKnows
    <2> QED BY <1>1, <1>4, <2>1, <2>2 DEF WidgetKnows
  <1>7. Unmade'
    BY <1>1, <1>3 DEF Unmade
  <1>8. L!TrackingHonest'
    BY <1>1, <1>2, <1>3, <1>4 DEF L!TrackingHonest
  <1> QED BY <1>5, <1>6, <1>7, <1>8

\* An event of a socket that is not closed is one of the widget's own socket, or
\* of a widget that is gone.
LEMMA EventIInv ==
  ASSUME L!TrackingAssumption, LiveTrackingIInv, NEW s \in L!Sockets,
         NEW now \in {"connected", "disconnected"},
         client[s] \notin {"none", "closed"},
         client' = [client EXCEPT ![s] = Shown[now]],
         L!Handler(s, "connState", now),
         now = "connected" => client[s] = "connecting",
         UNCHANGED <<serverUp, made, server, timer, poll, retried>>
  PROVE  LiveTrackingIInv'
  <1> USE DEF LiveTrackingIInv, L!TrackingAssumption
  <1>1. Shown[now] \in {"open", "closed"}
    BY DEF Shown
  <1>2. \A r \in L!Sockets : client'[r] = IF r = s THEN Shown[now] ELSE client[r]
    BY DEF L!TypeOK
  <1>3. made \in Nat /\ s \in 1..made
    BY DEF Unmade, L!TypeOK
  <1>4. CASE widget.open /\ s >= widget.first
    <2>1. s = made /\ widget.ref = s /\ widget.first \in 1..made
      BY <1>3, <1>4 DEF WidgetKnows
    <2>2. /\ widget'.open /\ widget'.first = widget.first /\ widget'.ref = made
          /\ widget'.connState = now
          /\ widget' \in [open : BOOLEAN, first : L!Sockets \cup {NoSocket},
                          ref : L!Sockets \cup {NoSocket},
                          connState : {"connecting", "connected", "disconnected"},
                          status : BOOLEAN]
      BY <1>4, <2>1 DEF L!Handler, L!TypeOK
    <2>3. L!TypeOK'
      BY <1>1, <2>2 DEF L!TypeOK
    <2>4. WidgetKnows'
      BY <1>2, <1>3, <1>4, <2>1, <2>2 DEF WidgetKnows
    <2>5. Unmade'
      BY <1>2, <1>3 DEF Unmade
    <2>6. L!TrackingHonest'
      BY <1>2, <1>4, <2>1, <2>2 DEF L!TrackingHonest, Shown
    <2> QED BY <2>3, <2>4, <2>5, <2>6
  <1>5. CASE ~(widget.open /\ s >= widget.first)
    <2>1. widget' = widget
      BY <1>5 DEF L!Handler
    <2>2. widget.open => s < widget.first /\ widget.first \in 1..made
      BY <1>3, <1>5 DEF WidgetKnows
    <2>3. L!TypeOK'
      BY <1>1, <2>1 DEF L!TypeOK
    <2>4. WidgetKnows' /\ Unmade'
      BY <1>2, <1>3, <2>1, <2>2 DEF WidgetKnows, Unmade
    <2>5. L!TrackingHonest'
      <3>1. widget.open => widget.ref = made /\ made # s /\ made \in L!Sockets
        BY <1>3, <2>2 DEF WidgetKnows, L!TypeOK
      <3>2. s \in retried \/ client[s] # "connecting"
        BY <3>1 DEF L!TrackingHonest
      <3>3. \A r \in L!Sockets \ retried :
              client'[r] \in {"connecting", "open"} => client[r] = client'[r]
        BY <1>2, <3>2 DEF Shown
      <3> QED BY <1>2, <2>1, <3>1, <3>3 DEF L!TrackingHonest
    <2> QED BY <2>3, <2>4, <2>5
  <1> QED BY <1>4, <1>5

LEMMA OnOpenIInv ==
  ASSUME L!TrackingAssumption, LiveTrackingIInv, NEW s \in L!Sockets, L!OnOpen(s)
  PROVE  LiveTrackingIInv'
  <1>1. Shown["connected"] = "open"
    BY DEF Shown
  <1> QED BY <1>1, EventIInv DEF L!OnOpen

LEMMA OnCloseIInv ==
  ASSUME L!TrackingAssumption, LiveTrackingIInv, NEW s \in L!Sockets, L!OnClose(s)
  PROVE  LiveTrackingIInv'
  <1>1. Shown["disconnected"] = "closed"
    BY DEF Shown
  <1> QED BY <1>1, EventIInv DEF L!OnClose

\* The status that is shown says nothing of the connection.
LEMMA StatusIInv ==
  ASSUME L!TrackingAssumption, LiveTrackingIInv, NEW s \in L!Sockets, L!Status(s)
  PROVE  LiveTrackingIInv'
  <1>1. /\ widget'.open = widget.open /\ widget'.first = widget.first
        /\ widget'.ref = widget.ref /\ widget'.connState = widget.connState
        /\ widget' \in [open : BOOLEAN, first : L!Sockets \cup {NoSocket},
                        ref : L!Sockets \cup {NoSocket},
                        connState : {"connecting", "connected", "disconnected"},
                        status : BOOLEAN]
    BY DEF LiveTrackingIInv, L!TypeOK, L!Status, L!Handler
  <1> QED BY <1>1
          DEF LiveTrackingIInv, L!TypeOK, WidgetKnows, Unmade, L!TrackingHonest, L!Status

LEMMA LiveTrackingNextIInv ==
  ASSUME L!TrackingAssumption, LiveTrackingIInv, L!Next
  PROVE  LiveTrackingIInv'
  <1> USE DEF LiveTrackingIInv, L!TypeOK, L!TrackingHonest
  <1>1. CASE L!Open \/ L!CloseWidget \/ L!Reconnect
    BY <1>1, OpenIInv, CloseWidgetIInv, ReconnectIInv
  <1>2. CASE L!CloseLiveTracking \/ L!SetupLiveTracking
    BY <1>2, ServerIInv DEF L!CloseLiveTracking, L!SetupLiveTracking
  <1>3. ASSUME NEW s \in L!Sockets, L!Connection(s) \/ L!ServerClose(s) \/ L!Poll(s)
        PROVE  LiveTrackingIInv'
    <2>1. /\ server' \in [L!Sockets -> {"none", "open", "closed"}]
          /\ timer' \in [L!Sockets -> BOOLEAN] /\ poll' \in [L!Sockets -> BOOLEAN]
      BY <1>3 DEF L!Connection, L!ServerClose, L!Poll
    <2>2. \A r \in L!Sockets : timer'[r] => server'[r] = "open"
      BY <1>3 DEF L!Connection, L!ServerClose, L!Poll
    <2>3. UNCHANGED <<serverUp, widget, made, client, retried>>
      BY <1>3 DEF L!Connection, L!ServerClose, L!Poll
    <2> QED BY <2>1, <2>2, <2>3, ServerIInv
  <1>4. ASSUME NEW s \in L!Sockets, L!OnOpen(s) \/ L!OnClose(s) \/ L!Status(s)
        PROVE  LiveTrackingIInv'
    BY <1>4, OnOpenIInv, OnCloseIInv, StatusIInv
  <1> QED BY <1>1, <1>2, <1>3, <1>4 DEF L!Next

\* What the widget says of its connection is true of the socket it has now, and
\* no socket but one of a reconnection is live without a widget, nor has a timer
\* at the server without a connection there (LiveTrackingWidget.tsx 32-102,
\* live-tracking-ws.service.ts).
THEOREM TrackingStaysHonest ==
  ASSUME L!TrackingAssumption
  PROVE  L!Spec => [](L!TypeOK /\ L!TrackingHonest)
  <1>1. L!Init => LiveTrackingIInv
    <2> SUFFICES ASSUME L!Init
                 PROVE  LiveTrackingIInv
      OBVIOUS
    <2>1. /\ ~widget.open
          /\ widget \in [open : BOOLEAN, first : L!Sockets \cup {NoSocket},
                         ref : L!Sockets \cup {NoSocket},
                         connState : {"connecting", "connected", "disconnected"},
                         status : BOOLEAN]
      BY DEF L!Init, L!Gone
    <2> QED BY <2>1, L!TrackingAssumption DEF L!Init, LiveTrackingIInv, L!TypeOK, WidgetKnows,
               Unmade, L!TrackingHonest, L!TrackingAssumption
  <1>2. LiveTrackingIInv /\ [L!Next]_L!vars => LiveTrackingIInv'
    <2>1. ASSUME LiveTrackingIInv, UNCHANGED L!vars
          PROVE  LiveTrackingIInv'
      BY <2>1 DEF L!vars, LiveTrackingIInv, L!TypeOK, WidgetKnows, Unmade, L!TrackingHonest
    <2> QED BY <2>1, LiveTrackingNextIInv, L!TrackingAssumption
  <1>3. LiveTrackingIInv => L!TypeOK /\ L!TrackingHonest
    BY DEF LiveTrackingIInv
  <1> QED BY <1>1, <1>2, <1>3, PTL DEF L!Spec

HIDE DEF L!Sockets, L!States
-----------------------------------------------------------------------------
\* Setting up a second factor.
LEMMA MfaAssumed == M!MfaAssumption
  BY PartsAssumption DEF PartsAssumption

Secrets == 0..MaxSetups
Receivers == {"modal", "page", "nobody"}
MfaCall == [pc : {"idle", "setup", "qr", "confirm", "bypass", "enable", "done",
                  "refused"},
            tab : Tabs, code : Secrets, to : Receivers]
Dashboard == [step : M!Steps, loading : BOOLEAN, secret : Secrets,
              mfaActive : BOOLEAN, told : Secrets]

\* A code that was found right is of a secret of its time; when the factor was
\* turned on for it, it is on, or has been turned off by a newer setup.
CodesOfTheirTime ==
  \A c \in Calls :
    /\ mCall[c].pc = "enable" => /\ mCall[c].code \in matched
                                 /\ mCall[c].code <= mfa_secret
    /\ mCall[c].pc = "done" => /\ mCall[c].code <= mfa_secret
                               /\ mfa_enabled \/ mfa_secret > mCall[c].code

ToldOfItsTime == \A t \in Tabs : tab[t].told <= mfa_secret

MfaSetupIInv == M!TypeOK /\ CodesOfTheirTime /\ ToldOfItsTime /\ M!FactorIsConfirmed
-----------------------------------------------------------------------------
LEMMA MfaShapes ==
  /\ M!TypeOK <=> /\ mfa_secret \in Secrets /\ mfa_enabled \in BOOLEAN
                  /\ tab \in [Tabs -> Dashboard] /\ mCall \in [Calls -> MfaCall]
                  /\ matched \subseteq 1..MaxSetups /\ mRaced \in BOOLEAN
  /\ M!Idle \in MfaCall /\ M!Idle.pc = "idle"
  /\ M!Fresh \in Dashboard /\ ~M!Fresh.mfaActive /\ M!Fresh.told = 0
  BY MfaAssumed DEF M!TypeOK, MfaCall, Dashboard, Secrets, Receivers, M!Idle, M!Fresh, M!Steps,
     M!MfaAssumption

\* Whoever waits for an answer, the call is what it was.
LEMMA OrphanedStays ==
  ASSUME mCall \in [Calls -> MfaCall], NEW t \in Tabs, NEW to \in Receivers
  PROVE  /\ M!Orphaned(t, to) \in [Calls -> MfaCall]
         /\ \A c \in Calls : /\ M!Orphaned(t, to)[c].pc = mCall[c].pc
                             /\ M!Orphaned(t, to)[c].code = mCall[c].code
  BY DEF M!Orphaned, MfaCall

\* Steps of dashboards alone: no call gets to "enable" or "done" by them.
LEMMA MfaSetupPagesIInv ==
  ASSUME MfaSetupIInv, UNCHANGED M!Server,
         tab' \in [Tabs -> Dashboard], mCall' \in [Calls -> MfaCall],
         \A t \in Tabs : \/ ~tab'[t].mfaActive /\ tab'[t].told = 0
                         \/ tab'[t].mfaActive = tab[t].mfaActive /\ tab'[t].told = tab[t].told
                         \/ \E c \in Calls : mCall[c].pc = "done" /\ tab'[t].told = mCall[c].code,
         \A c \in Calls : \/ mCall'[c].pc \notin {"enable", "done"}
                          \/ mCall'[c].pc = mCall[c].pc /\ mCall'[c].code = mCall[c].code
  PROVE  MfaSetupIInv'
  <1>1. M!TypeOK'
    BY MfaShapes DEF MfaSetupIInv, M!TypeOK, MfaCall, Dashboard, M!Server, Secrets, Receivers
  <1>2. CodesOfTheirTime'
    BY DEF MfaSetupIInv, CodesOfTheirTime, M!Server
  <1>3. ToldOfItsTime'
    BY MfaShapes DEF MfaSetupIInv, ToldOfItsTime, CodesOfTheirTime, M!Server, Secrets
  <1>4. M!FactorIsConfirmed'
    BY DEF MfaSetupIInv, M!FactorIsConfirmed, CodesOfTheirTime, M!Server
  <1> QED BY <1>1, <1>2, <1>3, <1>4 DEF MfaSetupIInv

LEMMA ModalIInv ==
  ASSUME MfaSetupIInv, NEW t \in Tabs,
         M!OpenModal(t) \/ M!CloseModal(t) \/ M!Reload(t) \/ M!Scanned(t) \/ M!Back(t)
  PROVE  MfaSetupIInv'
  <1> USE MfaShapes DEF MfaSetupIInv
  <1>1. CASE M!OpenModal(t) \/ M!Scanned(t) \/ M!Back(t)
    <2>1. tab' \in [Tabs -> Dashboard]
      BY <1>1 DEF M!OpenModal, M!Scanned, M!Back, Dashboard, M!Steps
    <2>2. \A u \in Tabs : tab'[u].mfaActive = tab[u].mfaActive /\ tab'[u].told = tab[u].told
      BY <1>1 DEF M!OpenModal, M!Scanned, M!Back, Dashboard
    <2> QED BY <1>1, <2>1, <2>2, MfaSetupPagesIInv DEF M!OpenModal, M!Scanned, M!Back
  <1>2. CASE M!CloseModal(t)
    <2>1. tab' \in [Tabs -> Dashboard]
      BY <1>2 DEF M!CloseModal, Dashboard, M!Fresh, M!Steps
    <2>2. \A u \in Tabs : tab'[u].mfaActive = tab[u].mfaActive /\ tab'[u].told = tab[u].told
      BY <1>2 DEF M!CloseModal, Dashboard, M!Fresh
    <2>3. /\ mCall' \in [Calls -> MfaCall]
          /\ \A c \in Calls : mCall'[c].pc = mCall[c].pc /\ mCall'[c].code = mCall[c].code
      BY <1>2, OrphanedStays DEF M!CloseModal, Receivers
    <2> QED BY <1>2, <2>1, <2>2, <2>3, MfaSetupPagesIInv DEF M!CloseModal
  <1>3. CASE M!Reload(t)
    <2>1. tab' \in [Tabs -> Dashboard]
      BY <1>3 DEF M!Reload
    <2>2. \A u \in Tabs : \/ ~tab'[u].mfaActive /\ tab'[u].told = 0
                          \/ tab'[u] = tab[u]
      BY <1>3 DEF M!Reload
    <2>3. /\ mCall' \in [Calls -> MfaCall]
          /\ \A c \in Calls : mCall'[c].pc = mCall[c].pc /\ mCall'[c].code = mCall[c].code
      BY <1>3, OrphanedStays DEF M!Reload, Receivers
    <2> QED BY <1>3, <2>1, <2>2, <2>3, MfaSetupPagesIInv DEF M!Reload
  <1> QED BY <1>1, <1>2, <1>3

LEMMA AskIInv ==
  ASSUME MfaSetupIInv, NEW t \in Tabs, NEW c \in Calls, M!StartSetup(t, c) \/ M!ConfirmSetup(t, c)
  PROVE  MfaSetupIInv'
  <1>1. PICK what \in {"setup", "confirm", "bypass"}, code \in Secrets : M!Ask(t, c, what, code)
    <2>1. 0 \in Secrets /\ tab[t].secret \in Secrets
      BY MfaShapes, MfaAssumed DEF MfaSetupIInv, Dashboard, Secrets, M!MfaAssumption
    <2> QED BY <2>1 DEF M!StartSetup, M!ConfirmSetup
  <1>2. tab' \in [Tabs -> Dashboard]
    BY <1>1, MfaShapes DEF MfaSetupIInv, M!Ask, Dashboard
  <1>3. \A u \in Tabs : tab'[u].mfaActive = tab[u].mfaActive /\ tab'[u].told = tab[u].told
    BY <1>1, MfaShapes DEF MfaSetupIInv, M!Ask, Dashboard
  <1>4. mCall' \in [Calls -> MfaCall]
    BY <1>1, MfaShapes DEF MfaSetupIInv, M!Ask, MfaCall, Receivers
  <1>5. \A d \in Calls : mCall'[d].pc \in {"setup", "confirm", "bypass"} \/ mCall'[d] = mCall[d]
    BY <1>1, MfaShapes DEF MfaSetupIInv, M!Ask
  <1> QED BY <1>1, <1>2, <1>3, <1>4, <1>5, MfaSetupPagesIInv DEF M!Ask

LEMMA AnsweredMfaIInv ==
  ASSUME MfaSetupIInv, NEW c \in Calls, M!Answered(c)
  PROVE  MfaSetupIInv'
  <1> DEFINE t == mCall[c].tab
             activated == mCall[c].pc = "done" /\ mCall[c].to # "nobody"
  <1> USE MfaShapes DEF MfaSetupIInv
  <1>1. t \in Tabs /\ mCall[c].code \in Secrets
    BY DEF MfaCall
  <1>2. UNCHANGED M!Server
    BY DEF M!Answered
  <1>3. mCall' = [IF activated THEN M!Orphaned(t, "page") ELSE mCall EXCEPT ![c] = M!Idle]
    BY DEF M!Answered
  <1>4. /\ mCall' \in [Calls -> MfaCall]
        /\ \A d \in Calls : \/ mCall'[d].pc = "idle"
                            \/ mCall'[d].pc = mCall[d].pc /\ mCall'[d].code = mCall[d].code
    BY <1>1, <1>3, OrphanedStays DEF Receivers
  <1> HIDE DEF t, activated
  <1>5. CASE activated
    <2>1. tab' = [tab EXCEPT ![t] = [M!Fresh EXCEPT !.mfaActive = TRUE, !.told = mCall[c].code]]
      BY <1>5 DEF M!Answered, activated, t
    <2>2. tab' \in [Tabs -> Dashboard]
      BY <1>1, <2>1 DEF Dashboard, M!Fresh
    <2>3. \A u \in Tabs : tab'[u] = tab[u] \/ tab'[u].told = mCall[c].code
      BY <1>1, <2>1 DEF M!Fresh
    <2> QED BY <1>2, <1>4, <1>5, <2>2, <2>3, MfaSetupPagesIInv DEF activated
  <1>6. CASE ~activated
    <2>1. mCall[c].to # "modal" \/ mCall[c].pc = "qr" \/ mCall[c].pc = "refused"
      BY <1>6 DEF M!Answered, activated
    <2>2. PICK d : /\ tab' = [tab EXCEPT ![t] = d]
                   /\ \/ d = tab[t]
                      \/ d = [tab[t] EXCEPT !.loading = FALSE, !.step = "qr",
                                            !.secret = mCall[c].code]
                      \/ d = [tab[t] EXCEPT !.loading = FALSE]
      BY <1>6, <2>1 DEF M!Answered, activated, t
    <2>3. d \in Dashboard /\ d.mfaActive = tab[t].mfaActive /\ d.told = tab[t].told
      <3>1. tab[t] \in Dashboard
        BY <1>1
      <3> QED BY <1>1, <2>2, <3>1 DEF Dashboard, M!Steps
    <2>4. /\ tab' \in [Tabs -> Dashboard]
          /\ \A u \in Tabs : tab'[u].mfaActive = tab[u].mfaActive /\ tab'[u].told = tab[u].told
      BY <1>1, <2>2, <2>3
    <2> QED BY <1>2, <1>4, <2>4, MfaSetupPagesIInv
  <1> QED BY <1>5, <1>6

\* A call that was refused is over.
LEMMA RefusedCall ==
  ASSUME mCall \in [Calls -> MfaCall], NEW c \in Calls, M!Refused(c)
  PROVE  /\ mCall' \in [Calls -> MfaCall]
         /\ \A d \in Calls : mCall'[d].pc = "refused" \/ mCall'[d] = mCall[d]
  <1>1. 0 \in Secrets
    BY MfaAssumed DEF Secrets, M!MfaAssumption
  <1> QED BY <1>1 DEF M!Refused, MfaCall

\* A newer setup makes every code of before an old one.
LEMMA SetupIInv ==
  ASSUME MfaSetupIInv, NEW c \in Calls, M!Setup(c)
  PROVE  MfaSetupIInv'
  <1> USE MfaShapes DEF MfaSetupIInv
  <1>1. M!Refused(c) \/ mCall' = [mCall EXCEPT ![c].pc = "qr", ![c].code = mfa_secret + 1]
    BY DEF M!Setup
  <1>2. mfa_secret' = mfa_secret + 1 /\ mfa_secret' \in Secrets /\ mfa_secret \in Nat
    BY MfaAssumed DEF M!Setup, M!Rewritten, Secrets, M!MfaAssumption
  <1>3. mCall' \in [Calls -> MfaCall]
    BY <1>1, <1>2, RefusedCall DEF MfaCall
  <1>4. M!TypeOK'
    BY <1>2, <1>3 DEF M!Setup, M!Rewritten, M!TypeOK, MfaCall, Dashboard, Secrets, Receivers
  <1>5. \A d \in Calls : mCall'[d].pc \in {"qr", "refused"} \/ mCall'[d] = mCall[d]
    BY <1>1, <1>2, RefusedCall DEF MfaCall
  <1>6. \A d \in Calls : mCall[d].code \in Nat
    BY MfaAssumed DEF MfaCall, Secrets, M!MfaAssumption
  <1>7. CodesOfTheirTime'
    BY <1>2, <1>5, <1>6 DEF CodesOfTheirTime, M!Setup
  <1>8. \A t \in Tabs : tab[t].told \in Nat /\ tab[t].told <= mfa_secret
    <2> TAKE t \in Tabs
    <2>1. tab[t].told \in Secrets
      BY DEF Dashboard
    <2> QED BY <2>1, MfaAssumed DEF ToldOfItsTime, Secrets, M!MfaAssumption
  <1>9. ToldOfItsTime' /\ M!FactorIsConfirmed'
    BY <1>2, <1>8 DEF ToldOfItsTime, M!FactorIsConfirmed, M!Setup, M!Rewritten
  <1> QED BY <1>4, <1>7, <1>9

LEMMA MfaSetupFailsIInv ==
  ASSUME MfaSetupIInv, NEW c \in Calls, M!Fails(c)
  PROVE  MfaSetupIInv'
  <1> USE MfaShapes DEF MfaSetupIInv
  <1>1. M!Refused(c) /\ UNCHANGED <<tab, M!Server>>
    BY DEF M!Fails
  <1> QED BY <1>1, RefusedCall, MfaSetupPagesIInv

LEMMA CompareIInv ==
  ASSUME MfaSetupIInv, NEW c \in Calls, M!Compare(c)
  PROVE  MfaSetupIInv'
  <1> USE MfaShapes DEF MfaSetupIInv
  <1>1. /\ \/ /\ mCall' = [mCall EXCEPT ![c].pc = "enable", ![c].code = mfa_secret]
              /\ mfa_secret # 0 /\ mfa_secret \in matched'
           \/ M!Refused(c)
        /\ matched' \in {matched, matched \cup {mfa_secret}}
        /\ mfa_secret = 0 => UNCHANGED matched
        /\ UNCHANGED <<mfa_secret, mfa_enabled, tab, mRaced>>
    BY DEF M!Compare, M!Accepted
  <1>2. /\ mCall' \in [Calls -> MfaCall]
        /\ \A d \in Calls : \/ mCall'[d].pc = "refused" \/ mCall'[d] = mCall[d]
                            \/ /\ mCall'[d].pc = "enable" /\ mCall'[d].code = mfa_secret
                               /\ mfa_secret \in matched'
    BY <1>1, RefusedCall DEF MfaCall
  <1>3. mfa_secret \in Nat /\ matched' \subseteq 1..MaxSetups
    BY <1>1, MfaAssumed DEF Secrets, M!MfaAssumption
  <1>4. M!TypeOK'
    BY <1>1, <1>2, <1>3 DEF M!TypeOK, MfaCall, Dashboard, Secrets, Receivers
  <1>5. CodesOfTheirTime'
    BY <1>1, <1>2, <1>3 DEF CodesOfTheirTime, MfaCall
  <1>6. ToldOfItsTime' /\ M!FactorIsConfirmed'
    BY <1>1 DEF ToldOfItsTime, M!FactorIsConfirmed
  <1> QED BY <1>4, <1>5, <1>6

LEMMA EnableIInv ==
  ASSUME MfaSetupIInv, NEW c \in Calls, M!Enable(c)
  PROVE  MfaSetupIInv'
  <1> USE MfaShapes DEF MfaSetupIInv
  <1>1. /\ mCall' \in [Calls -> MfaCall]
        /\ \A d \in Calls :
             \/ mCall'[d].pc = "refused" \/ mCall'[d] = mCall[d]
             \/ /\ d = c /\ mCall[d].pc = "enable" /\ mCall'[d].pc = "done"
                /\ mCall'[d].code = mCall[d].code
    BY RefusedCall DEF M!Enable, MfaCall
  <1>2. M!TypeOK'
    BY <1>1, Zenon DEF M!Enable, M!TypeOK, MfaCall, Dashboard, Secrets, Receivers
  <1>3. CodesOfTheirTime'
    BY <1>1 DEF M!Enable, CodesOfTheirTime, MfaCall
  <1>4. ToldOfItsTime'
    BY DEF M!Enable, ToldOfItsTime
  <1>5. mfa_secret \in matched \/ mfa_secret # mCall[c].code
    BY DEF M!Enable, CodesOfTheirTime
  <1>6. M!FactorIsConfirmed'
    BY <1>5 DEF M!Enable, M!FactorIsConfirmed
  <1> QED BY <1>2, <1>3, <1>4, <1>6

\* A factor that is on had a code of its secret, or the bypass code, given for it,
\* and a dashboard that says so is right or was overtaken by a newer setup (auth.routes.ts 562-635).
THEOREM FactorsConfirmed == M!Spec => [](M!TypeOK /\ M!FactorIsConfirmed)
  <1>1. M!Init => MfaSetupIInv
    <2> SUFFICES ASSUME M!Init PROVE MfaSetupIInv
      OBVIOUS
    <2>1. M!TypeOK
      <3>1. tab \in [Tabs -> Dashboard] /\ mCall \in [Calls -> MfaCall]
        BY MfaShapes DEF M!Init
      <3>2. 0 \in Secrets
        BY MfaAssumed DEF Secrets, M!MfaAssumption
      <3> QED BY <3>1, <3>2, MfaShapes, Zenon DEF M!Init
    <2>2. CodesOfTheirTime /\ ToldOfItsTime /\ M!FactorIsConfirmed
      BY MfaShapes DEF M!Init, CodesOfTheirTime, ToldOfItsTime, M!FactorIsConfirmed
    <2> QED BY <2>1, <2>2 DEF MfaSetupIInv
  <1>2. MfaSetupIInv /\ [M!Next]_M!vars => MfaSetupIInv'
    <2> SUFFICES ASSUME MfaSetupIInv, [M!Next]_M!vars PROVE MfaSetupIInv'
      OBVIOUS
    <2>1. CASE M!Next
      BY <2>1, ModalIInv, AskIInv, AnsweredMfaIInv, SetupIInv, MfaSetupFailsIInv,
         CompareIInv, EnableIInv DEF M!Next
    <2>2. CASE UNCHANGED M!vars
      BY <2>2
      DEF M!vars, MfaSetupIInv, M!TypeOK, CodesOfTheirTime, ToldOfItsTime, M!FactorIsConfirmed
    <2> QED BY <2>1, <2>2
  <1>3. MfaSetupIInv => M!TypeOK /\ M!FactorIsConfirmed
    BY DEF MfaSetupIInv
  <1> QED BY <1>1, <1>2, <1>3, PTL DEF M!Spec
-----------------------------------------------------------------------------
\* The registration page.
LEMMA RegisterAssumed == R!RegisterAssumption
  BY PartsAssumption DEF PartsAssumption

\* What the page is about to send: the number in the field, unless it was
\* changed under a verification, and only once it was verified.
SendsVerified ==
  \/ changed
  \/ /\ verifying # NoNumber => verifying = aadhaar
     /\ otpVerified => aadhaar \in passed
     /\ submitting # NoNumber => submitting \in passed

RegisterPageIInv == R!TypeOK /\ SendsVerified /\ R!RegisteredWasVerified

LEMMA FormTypes ==
  ASSUME R!TypeOK, R!Next
  PROVE  R!TypeOK'
  <1> USE DEF R!TypeOK, R!Typed, R!server
  <1>1. ASSUME NEW n \in Numbers, R!Edit(n)
        PROVE  R!TypeOK'
    BY <1>1, RegisterAssumed DEF R!Edit, R!RegisterAssumption
  <1>2. CASE R!SendAadhaarOtp \/ R!Sent \/ R!SendFails \/ R!CooldownEnds
    BY <1>2 DEF R!SendAadhaarOtp, R!Sent, R!SendFails, R!CooldownEnds
  <1>3. CASE R!VerifyAadhaarOtp \/ R!Verified \/ R!VerifyFails
    BY <1>3 DEF R!VerifyAadhaarOtp, R!Verified, R!VerifyFails
  <1>4. CASE R!OnSubmit \/ R!Registered \/ R!RegisterFails
    BY <1>4 DEF R!OnSubmit, R!Registered, R!RegisterFails
  <1> QED BY <1>1, <1>2, <1>3, <1>4 DEF R!Next

LEMMA FormIInv ==
  ASSUME RegisterPageIInv, R!Next
  PROVE  RegisterPageIInv'
  <1>1. R!TypeOK'
    BY FormTypes DEF RegisterPageIInv
  <1> SUFFICES SendsVerified' /\ R!RegisteredWasVerified'
    BY <1>1 DEF RegisterPageIInv
  <1> USE DEF RegisterPageIInv, R!TypeOK, R!Typed, SendsVerified, R!RegisteredWasVerified, R!server
  <1>2. ASSUME NEW n \in Numbers, R!Edit(n)
        PROVE  SendsVerified' /\ R!RegisteredWasVerified'
    BY <1>2 DEF R!Edit, R!Editable
  <1>3. CASE R!SendAadhaarOtp \/ R!Sent \/ R!SendFails \/ R!CooldownEnds
    BY <1>3 DEF R!SendAadhaarOtp, R!Sent, R!SendFails, R!CooldownEnds
  <1>4. CASE R!VerifyAadhaarOtp \/ R!Verified \/ R!VerifyFails
    BY <1>4, RegisterAssumed
    DEF R!VerifyAadhaarOtp, R!Verified, R!VerifyFails, R!RegisterAssumption
  <1>5. CASE R!OnSubmit \/ R!Registered \/ R!RegisterFails
    BY <1>5 DEF R!OnSubmit, R!Registered, R!RegisterFails
  <1> QED BY <1>2, <1>3, <1>4, <1>5 DEF R!Next

\* Whatever answers are lost and however often the form is submitted, an
\* account has a number that was verified, unless the number was changed while
\* a verification was out (Register.tsx 26-178).
THEOREM RegisteredNumbers == R!Spec => [](R!TypeOK /\ R!RegisteredWasVerified)
  <1>1. R!Init => RegisterPageIInv
    <2>1. R!Init => R!TypeOK
      <3> SUFFICES ASSUME R!Init PROVE R!TypeOK
        OBVIOUS
      <3>1. edits \in 0..MaxEdits
        BY RegisterAssumed DEF R!Init, R!RegisterAssumption
      <3>2. {aadhaar, sending, verifying, submitting} \subseteq R!Typed
        BY DEF R!Init, R!Typed
      <3>3. otp \cup passed \cup accounts \subseteq Numbers
        BY DEF R!Init
      <3> QED BY <3>1, <3>2, <3>3, Zenon DEF R!Init, R!TypeOK
    <2>2. R!Init => SendsVerified /\ R!RegisteredWasVerified
      BY DEF R!Init, SendsVerified, R!RegisteredWasVerified
    <2> QED BY <2>1, <2>2 DEF RegisterPageIInv
  <1>2. RegisterPageIInv /\ [R!Next]_R!vars => RegisterPageIInv'
    BY FormIInv
    DEF R!vars, R!server, RegisterPageIInv, R!TypeOK, R!Typed, SendsVerified,
        R!RegisteredWasVerified
  <1>3. RegisterPageIInv => R!TypeOK /\ R!RegisteredWasVerified
    BY DEF RegisterPageIInv
  <1> QED BY <1>1, <1>2, <1>3, PTL DEF R!Spec
-----------------------------------------------------------------------------
(* The composition: a behaviour of the whole is one of every part. *)

LEMMA WaitlistRuns == Spec => W!Spec
  <1>1. Init => W!Init
    BY DEF Init
  <1>2. [Next]_partsVars => [W!Next]_W!vars
    <2> SUFFICES ASSUME [Next]_partsVars PROVE [W!Next]_W!vars
      OBVIOUS
    <2>1. CASE Waiting
      BY <2>1 DEF Waiting
    <2>2. CASE UNCHANGED wVars
      BY <2>2 DEF wVars, W!vars
    <2>3. Waiting \/ UNCHANGED wVars
      BY DEF Next, partsVars, Waiting, Cancelling, Allocating, Selling, Keying, Checkout,
         Balancing, Downloading, Ticketing, Tracking, SettingUp, Registering
    <2> QED BY <2>1, <2>2, <2>3
  <1> QED BY <1>1, <1>2, PTL DEF Spec, W!Spec

LEMMA CancellationRuns == Spec => C!Spec
  <1>1. Init => C!Init
    BY DEF Init
  <1>2. [Next]_partsVars => [C!Next]_C!vars
    <2> SUFFICES ASSUME [Next]_partsVars PROVE [C!Next]_C!vars
      OBVIOUS
    <2>1. CASE Cancelling
      BY <2>1 DEF Cancelling
    <2>2. CASE UNCHANGED cVars
      BY <2>2 DEF cVars, C!vars
    <2>3. Cancelling \/ UNCHANGED cVars
      BY DEF Next, partsVars, Waiting, Cancelling, Allocating, Selling, Keying, Checkout,
         Balancing, Downloading, Ticketing, Tracking, SettingUp, Registering
    <2> QED BY <2>1, <2>2, <2>3
  <1> QED BY <1>1, <1>2, PTL DEF Spec, C!Spec

LEMMA AllocationRuns == Spec => A!Spec
  <1>1. Init => A!Init
    BY DEF Init
  <1>2. [Next]_partsVars => [A!Next]_A!vars
    <2> SUFFICES ASSUME [Next]_partsVars PROVE [A!Next]_A!vars
      OBVIOUS
    <2>1. CASE Allocating
      BY <2>1 DEF Allocating
    <2>2. CASE UNCHANGED aVars
      BY <2>2 DEF aVars, A!vars
    <2>3. Allocating \/ UNCHANGED aVars
      BY DEF Next, partsVars, Waiting, Cancelling, Allocating, Selling, Keying, Checkout,
         Balancing, Downloading, Ticketing, Tracking, SettingUp, Registering
    <2> QED BY <2>1, <2>2, <2>3
  <1> QED BY <1>1, <1>2, PTL DEF Spec, A!Spec

LEMMA EventSeatsRuns == Spec => E!Spec
  <1>1. Init => E!Init
    BY DEF Init
  <1>2. [Next]_partsVars => [E!Next]_E!vars
    <2> SUFFICES ASSUME [Next]_partsVars PROVE [E!Next]_E!vars
      OBVIOUS
    <2>1. CASE Selling
      BY <2>1 DEF Selling
    <2>2. CASE UNCHANGED eVars
      BY <2>2 DEF eVars, E!vars
    <2>3. Selling \/ UNCHANGED eVars
      BY DEF Next, partsVars, Waiting, Cancelling, Allocating, Selling, Keying, Checkout,
         Balancing, Downloading, Ticketing, Tracking, SettingUp, Registering
    <2> QED BY <2>1, <2>2, <2>3
  <1> QED BY <1>1, <1>2, PTL DEF Spec, E!Spec

LEMMA CheckoutKeysRuns == Spec => K!Spec
  <1>1. Init => K!Init
    BY DEF Init
  <1>2. [Next]_partsVars => [K!Next]_K!vars
    <2> SUFFICES ASSUME [Next]_partsVars PROVE [K!Next]_K!vars
      OBVIOUS
    <2>1. CASE Keying
      BY <2>1 DEF Keying
    <2>2. CASE UNCHANGED kVars
      BY <2>2 DEF kVars, K!vars
    <2>3. Keying \/ UNCHANGED kVars
      BY DEF Next, partsVars, Waiting, Cancelling, Allocating, Selling, Keying, Checkout,
         Balancing, Downloading, Ticketing, Tracking, SettingUp, Registering
    <2> QED BY <2>1, <2>2, <2>3
  <1> QED BY <1>1, <1>2, PTL DEF Spec, K!Spec

LEMMA CheckoutPageRuns == Spec => P!Spec
  <1>1. Init => P!Init
    BY DEF Init
  <1>2. [Next]_partsVars => [P!Next]_P!vars
    <2> SUFFICES ASSUME [Next]_partsVars PROVE [P!Next]_P!vars
      OBVIOUS
    <2>1. CASE Checkout
      BY <2>1 DEF Checkout
    <2>2. CASE UNCHANGED pVars
      BY <2>2 DEF pVars, P!vars
    <2>3. Checkout \/ UNCHANGED pVars
      BY DEF Next, partsVars, Waiting, Cancelling, Allocating, Selling, Keying, Checkout,
         Balancing, Downloading, Ticketing, Tracking, SettingUp, Registering
    <2> QED BY <2>1, <2>2, <2>3
  <1> QED BY <1>1, <1>2, PTL DEF Spec, P!Spec

LEMMA BalancesRuns == Spec => B!Spec
  <1>1. Init => B!Init
    BY DEF Init
  <1>2. [Next]_partsVars => [B!Next]_B!vars
    <2> SUFFICES ASSUME [Next]_partsVars PROVE [B!Next]_B!vars
      OBVIOUS
    <2>1. CASE Balancing
      BY <2>1 DEF Balancing
    <2>2. CASE UNCHANGED bVars
      BY <2>2 DEF bVars, B!vars
    <2>3. Balancing \/ UNCHANGED bVars
      BY DEF Next, partsVars, Waiting, Cancelling, Allocating, Selling, Keying, Checkout,
         Balancing, Downloading, Ticketing, Tracking, SettingUp, Registering
    <2> QED BY <2>1, <2>2, <2>3
  <1> QED BY <1>1, <1>2, PTL DEF Spec, B!Spec

LEMMA BreakerRuns == Spec => D!Spec
  <1>1. Init => D!Init
    BY DEF Init
  <1>2. [Next]_partsVars => [D!Next]_D!vars
    <2> SUFFICES ASSUME [Next]_partsVars PROVE [D!Next]_D!vars
      OBVIOUS
    <2>1. CASE Downloading
      BY <2>1 DEF Downloading
    <2>2. CASE UNCHANGED dVars
      BY <2>2 DEF dVars, D!vars
    <2>3. Downloading \/ UNCHANGED dVars
      BY DEF Next, partsVars, Waiting, Cancelling, Allocating, Selling, Keying, Checkout,
         Balancing, Downloading, Ticketing, Tracking, SettingUp, Registering
    <2> QED BY <2>1, <2>2, <2>3
  <1> QED BY <1>1, <1>2, PTL DEF Spec, D!Spec

LEMMA PlatformTicketsRuns == Spec => T!Spec
  <1>1. Init => T!Init
    BY DEF Init
  <1>2. [Next]_partsVars => [T!Next]_T!vars
    <2> SUFFICES ASSUME [Next]_partsVars PROVE [T!Next]_T!vars
      OBVIOUS
    <2>1. CASE Ticketing
      BY <2>1 DEF Ticketing
    <2>2. CASE UNCHANGED tVars
      BY <2>2 DEF tVars, T!vars
    <2>3. Ticketing \/ UNCHANGED tVars
      BY DEF Next, partsVars, Waiting, Cancelling, Allocating, Selling, Keying, Checkout,
         Balancing, Downloading, Ticketing, Tracking, SettingUp, Registering
    <2> QED BY <2>1, <2>2, <2>3
  <1> QED BY <1>1, <1>2, PTL DEF Spec, T!Spec

LEMMA LiveTrackingRuns == Spec => L!Spec
  <1>1. Init => L!Init
    BY DEF Init
  <1>2. [Next]_partsVars => [L!Next]_L!vars
    <2> SUFFICES ASSUME [Next]_partsVars PROVE [L!Next]_L!vars
      OBVIOUS
    <2>1. CASE Tracking
      BY <2>1 DEF Tracking
    <2>2. CASE UNCHANGED lVars
      BY <2>2 DEF lVars, L!vars
    <2>3. Tracking \/ UNCHANGED lVars
      BY DEF Next, partsVars, Waiting, Cancelling, Allocating, Selling, Keying, Checkout,
         Balancing, Downloading, Ticketing, Tracking, SettingUp, Registering
    <2> QED BY <2>1, <2>2, <2>3
  <1> QED BY <1>1, <1>2, PTL DEF Spec, L!Spec

LEMMA MfaSetupRuns == Spec => M!Spec
  <1>1. Init => M!Init
    BY DEF Init
  <1>2. [Next]_partsVars => [M!Next]_M!vars
    <2> SUFFICES ASSUME [Next]_partsVars PROVE [M!Next]_M!vars
      OBVIOUS
    <2>1. CASE SettingUp
      BY <2>1 DEF SettingUp
    <2>2. CASE UNCHANGED mVars
      BY <2>2 DEF mVars, M!vars
    <2>3. SettingUp \/ UNCHANGED mVars
      BY DEF Next, partsVars, Waiting, Cancelling, Allocating, Selling, Keying, Checkout,
         Balancing, Downloading, Ticketing, Tracking, SettingUp, Registering
    <2> QED BY <2>1, <2>2, <2>3
  <1> QED BY <1>1, <1>2, PTL DEF Spec, M!Spec

LEMMA RegisterPageRuns == Spec => R!Spec
  <1>1. Init => R!Init
    BY DEF Init
  <1>2. [Next]_partsVars => [R!Next]_R!vars
    <2> SUFFICES ASSUME [Next]_partsVars PROVE [R!Next]_R!vars
      OBVIOUS
    <2>1. CASE Registering
      BY <2>1 DEF Registering
    <2>2. CASE UNCHANGED rVars
      BY <2>2 DEF rVars, R!vars
    <2>3. Registering \/ UNCHANGED rVars
      BY DEF Next, partsVars, Waiting, Cancelling, Allocating, Selling, Keying, Checkout,
         Balancing, Downloading, Ticketing, Tracking, SettingUp, Registering
    <2> QED BY <2>1, <2>2, <2>3
  <1> QED BY <1>1, <1>2, PTL DEF Spec, R!Spec

\* What holds of every part, whichever of them runs.
LEMMA PartsSound ==
  Spec => /\ [](W!TypeOK /\ W!WaitingInOrder /\ W!RacKeepsItsNumber /\ W!NumberWithinArrivals)
          /\ [](C!TypeOK /\ C!CancellationAddsUp)
          /\ [](A!TypeOK /\ A!NoOrphanLock)
          /\ [](E!TypeOK /\ E!SoldOnce)
          /\ [](K!TypeOK /\ K!OneTicketPerKey)
          /\ [](P!TypeOK /\ P!SuccessIsSettled)
          /\ [](B!TypeOK /\ B!PointsAccounted /\ B!WalletAccounted)
          /\ [](D!TypeOK)
          /\ [](T!TypeOK /\ T!TicketsAreTheirs)
          /\ [](L!TypeOK /\ L!TrackingHonest)
          /\ [](M!TypeOK /\ M!FactorIsConfirmed)
          /\ [](R!TypeOK /\ R!RegisteredWasVerified)
  <1>1. Spec => [](W!TypeOK /\ W!WaitingInOrder /\ W!RacKeepsItsNumber /\ W!NumberWithinArrivals)
    BY WaitlistNumbers, WaitlistRuns, PTL
  <1>2. Spec => [](C!TypeOK /\ C!CancellationAddsUp)
    BY CancellationsAddUp, CancellationRuns, PTL
  <1>3. Spec => [](A!TypeOK /\ A!NoOrphanLock)
    BY LocksHaveOwners, AllocationRuns, PTL
  <1>4. Spec => [](E!TypeOK /\ E!SoldOnce)
    BY EventSeatsSoldOnce, EventSeatsRuns, PTL
  <1>5. Spec => [](K!TypeOK /\ K!OneTicketPerKey)
    <2>1. K!KeysAssumption
      BY PartsAssumption DEF PartsAssumption
    <2>2. K!Spec => [](K!TypeOK /\ K!OneTicketPerKey)
      BY <2>1, OneTicket
    <2> QED BY <2>2, CheckoutKeysRuns, PTL
  <1>6. Spec => [](P!TypeOK /\ P!SuccessIsSettled)
    BY CheckoutSettled, CheckoutPageRuns, PTL
  <1>7. Spec => [](B!TypeOK /\ B!PointsAccounted /\ B!WalletAccounted)
    BY MoneyAddsUp, BalancesRuns, PTL
  <1>8. Spec => [](D!TypeOK)
    <2>1. D!BreakerAssumption
      BY PartsAssumption DEF PartsAssumption
    <2>2. D!Spec => []BreakerIInv
      BY <2>1, BreakerInvariant
    <2>3. BreakerIInv => D!TypeOK
      BY DEF BreakerIInv
    <2> QED BY <2>2, <2>3, BreakerRuns, PTL
  <1>9. Spec => [](T!TypeOK /\ T!TicketsAreTheirs)
    BY TicketsStayTheirs, PlatformTicketsRuns, PTL
  <1>10. Spec => [](L!TypeOK /\ L!TrackingHonest)
    <2>1. L!TrackingAssumption
      BY PartsAssumption DEF PartsAssumption
    <2>2. L!Spec => [](L!TypeOK /\ L!TrackingHonest)
      BY <2>1, TrackingStaysHonest
    <2> QED BY <2>2, LiveTrackingRuns, PTL
  <1>11. Spec => [](M!TypeOK /\ M!FactorIsConfirmed)
    BY FactorsConfirmed, MfaSetupRuns, PTL
  <1>12. Spec => [](R!TypeOK /\ R!RegisteredWasVerified)
    BY RegisteredNumbers, RegisterPageRuns, PTL
  <1> QED BY <1>1, <1>2, <1>3, <1>4, <1>5, <1>6, <1>7, <1>8, <1>9, <1>10, <1>11, <1>12, PTL

\* Every part keeps its types, whichever of them runs.
THEOREM PartsTyped == Spec => []TypeOK
  <1>1. /\ W!TypeOK /\ W!WaitingInOrder /\ W!RacKeepsItsNumber /\ W!NumberWithinArrivals
        /\ C!TypeOK /\ C!CancellationAddsUp
        /\ A!TypeOK /\ A!NoOrphanLock
        /\ E!TypeOK /\ E!SoldOnce
        /\ K!TypeOK /\ K!OneTicketPerKey
        /\ P!TypeOK /\ P!SuccessIsSettled
        /\ B!TypeOK /\ B!PointsAccounted /\ B!WalletAccounted
        /\ D!TypeOK
        /\ T!TypeOK /\ T!TicketsAreTheirs
        /\ L!TypeOK /\ L!TrackingHonest
        /\ M!TypeOK /\ M!FactorIsConfirmed
        /\ R!TypeOK /\ R!RegisteredWasVerified
        => TypeOK
    BY DEF TypeOK
  <1> QED BY <1>1, PartsSound, PTL

\* Those who wait are numbered 1, 2, ... in the order in which they came, until a request
\* writes over what another uses, a promotion mixes classes or loses its resequencing; and
\* whatever overlaps or fails, one who was told RAC keeps a number of the share of the
\* class, and nobody's is higher than his place among all that came
\* (routes/booking.routes.ts 742-873).
THEOREM WaitlistKept == Spec => []NumbersKept
  <1>1. W!TypeOK /\ W!WaitingInOrder /\ W!RacKeepsItsNumber /\ W!NumberWithinArrivals => NumbersKept
    BY DEF NumbersKept
  <1> QED BY <1>1, PartsSound, PTL

\* Fare, refunds and seats of a booking agree with its passengers, however full and
\* partial cancellations overlap and whichever of their statements fails, but for a fare
\* written over another's and a cancellation cut in two (routes/booking.routes.ts 593-739).
THEOREM CancellationKept == Spec => []CancellationAddsUp
  <1>1. C!TypeOK /\ C!CancellationAddsUp => CancellationAddsUp
    BY DEF CancellationAddsUp
  <1> QED BY <1>1, PartsSound, PTL

\* A running lock belongs to an answer its user has got, to a request of the user that
\* still runs, or to one that died on an error (routes/booking.routes.ts 68-230).
THEOREM LocksKept == Spec => []NoOrphanLock
  <1>1. A!TypeOK /\ A!NoOrphanLock => NoOrphanLock
    BY DEF NoOrphanLock
  <1> QED BY <1>1, PartsSound, PTL

\* Among clients that buy once what they locked, a seat of an event is sold once, stays
\* BOOKED, and is counted (services/event.service.ts 55-119).
THEOREM EventsSold == Spec => []SoldOnce
  <1>1. E!TypeOK /\ E!SoldOnce => SoldOnce
    BY DEF SoldOnce
  <1> QED BY <1>1, PartsSound, PTL

\* However often one checkout is sent with its key, one booking at most is CONFIRMED, and
\* the seats carry its number (services/saga.service.ts 30-301).
THEOREM KeysKept == Spec => []OneTicketPerKey
  <1>1. K!TypeOK /\ K!OneTicketPerKey => OneTicketPerKey
    BY DEF OneTicketPerKey
  <1> QED BY <1>1, PartsSound, PTL

\* The success page shows a booking that is confirmed; with Razorpay, after PaymentPage,
\* one that does not wait for its payment any more (CoachSelection.tsx, BookingFlow.tsx,
\* QueuePage.tsx, PaymentPage.tsx).
THEOREM SuccessKept == Spec => []SuccessIsSettled
  <1>1. P!TypeOK /\ P!SuccessIsSettled => SuccessIsSettled
    BY DEF SuccessIsSettled
  <1> QED BY <1>1, PartsSound, PTL

\* Points and wallet add up with their ledgers, with what calls in flight still write,
\* and with what failures kept out (services/loyalty.service.ts 29-96,
\* routes/payment.routes.ts 286-318).
THEOREM MoneyKept == Spec => []MoneyAccounted
  <1>1. B!TypeOK /\ B!PointsAccounted /\ B!WalletAccounted => MoneyAccounted
    BY DEF MoneyAccounted
  <1> QED BY <1>1, PartsSound, PTL

\* A PNR a user was told shows that user's ticket, and no cancellation hits a ticket of
\* somebody else (services/platform-ticket.service.ts).
THEOREM TicketsKept == Spec => []TicketsAreTheirs
  <1>1. T!TypeOK /\ T!TicketsAreTheirs => TicketsAreTheirs
    BY DEF TicketsAreTheirs
  <1> QED BY <1>1, PartsSound, PTL

\* What the widget says of its connection is true of the socket it has now
\* (LiveTrackingWidget.tsx 32-102, live-tracking-ws.service.ts).
THEOREM TrackingKept == Spec => []TrackingHonest
  <1>1. L!TypeOK /\ L!TrackingHonest => TrackingHonest
    BY DEF TrackingHonest
  <1> QED BY <1>1, PartsSound, PTL

\* A factor that is on has a secret that a code of it, or the bypass code, was given
\* for, and the numbers registered were verified, but for the overlaps the two
\* properties name (MfaSetupModal.tsx,
\* routes/auth.routes.ts 562-635, Register.tsx 26-178).
THEOREM EnrolmentKept == Spec => []EnrolmentHonest
  <1>1. M!TypeOK /\ M!FactorIsConfirmed /\ R!TypeOK /\ R!RegisteredWasVerified => EnrolmentHonest
    BY DEF EnrolmentHonest
  <1> QED BY <1>1, PartsSound, PTL

\* An answer names as many different seats as were asked for, each of them locked for
\* the user (routes/booking.routes.ts 68-230).
THEOREM AnswersKept == Spec => AnsweredInFull
  BY AnswersInFull, AllocationRuns, PTL DEF AnsweredInFull

\* While the last Threshold results were failures, no call gets to the generator before
\* the latest of them is more than Timeout ago (services/pricing.service.ts 3-46).
THEOREM GeneratorKept == Spec => GeneratorSpared
  <1>1. D!BreakerAssumption
    BY PartsAssumption DEF PartsAssumption
  <1>2. D!Spec => D!GeneratorSpared
    BY <1>1, GeneratorIsSpared
  <1> QED BY <1>2, BreakerRuns, PTL DEF GeneratorSpared
=============================================================================
