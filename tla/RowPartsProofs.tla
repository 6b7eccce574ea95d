---------------------------- MODULE RowPartsProofs ----------------------------
(***************************************************************************)
(* Proofs about the parts of BookingParts that keep rows of one user or of *)
(* one booking: the cancellation, the waiting list, the platform tickets,  *)
(* the points and the wallet.                                              *)
(***************************************************************************)
EXTENDS BookingParts, FiniteSetTheorems, TLAPS
-----------------------------------------------------------------------------
\* Full and partial cancellation.
LEMMA CancellationAssumed == C!CancellationAssumption
  BY PartsAssumption DEF PartsAssumption

BookingRow == [status : {"CONFIRMED", "CANCELLED"}, pax : 1..Size, price : Nat]
FullCall == [pc : {"cancel", "seats", "audit"}, b : Bookings]
PartialCall == [pc : {"partial"}, b : Bookings, refund : Nat, price : Nat, pax : Nat]
CancellationCall == [pc : {"idle"}] \cup FullCall \cup PartialCall

\* What a partial cancellation will write leaves passengers, and together with
\* what was given back so far is no less than the fare.
PartialFits ==
  \A k \in Calls : cCall[k].pc = "partial" =>
    /\ cCall[k].pax \in 1..Size
    /\ cCall[k].price + cCall[k].refund + refunded[cCall[k].b] >= Price

\* The seats are freed by the full cancellation only, all of them, after the
\* booking is cancelled.
SeatsAfterStatus ==
  /\ \A b \in Bookings : booking[b].status = "CONFIRMED" => seats[b] = Size
  /\ \A k \in Calls : cCall[k].pc = "seats" => booking[cCall[k].b].status = "CANCELLED"

CancellationIInv == /\ C!TypeOK /\ PartialFits /\ SeatsAfterStatus
                    /\ C!FareAndRefundAddUp /\ C!SeatPerPassenger
-----------------------------------------------------------------------------
\* A part of the fare for fewer than all is no more than the fare, rounded.
LEMMA RefundBound ==
  ASSUME NEW p \in Nat, NEW x \in Nat \ {0}, NEW n \in Nat, n < x
  PROVE  LET r == (2 * p * n + x) \div (2 * x) IN r \in Nat /\ r <= p
  <1> DEFINE N == 2 * p * n + x
             d == 2 * x
             r == N \div d
  <1>1. N \in Nat /\ d \in Nat /\ d > 0
    BY SMT
  <1>2. r \in Nat /\ d * r <= N
    <2> HIDE DEF N, d
    <2> QED BY <1>1, SMT
  <1>3. N < d * (p + 1)
    <2>1. p * n <= p * x
      BY SMT
    <2>2. 2 * p * n = 2 * (p * n) /\ d * (p + 1) = 2 * (p * x) + 2 * x
      BY SMT
    <2> QED BY <2>1, <2>2, SMT
  <1>4. r <= p
    <2> HIDE DEF N, d, r
    <2> SUFFICES ASSUME r >= p + 1
                 PROVE  FALSE
      BY <1>2, SMT
    <2>1. d * r >= d * (p + 1)
      BY <1>1, <1>2, SMT
    <2> QED BY <1>1, <1>2, <1>3, <2>1, SMT
  <1> QED BY <1>2, <1>4

LEMMA CancellationTypes ==
  C!TypeOK <=> /\ booking \in [Bookings -> BookingRow] /\ seats \in [Bookings -> {0, Size}]
               /\ cCall \in [Calls -> CancellationCall]
               /\ refunded \in [Bookings -> Nat]
               /\ overwritten \subseteq Bookings /\ halved \subseteq Bookings
  BY DEF C!TypeOK, BookingRow, CancellationCall, FullCall, PartialCall

LEMMA CallShapes ==
  ASSUME C!TypeOK, NEW k \in Calls, cCall[k].pc # "idle"
  PROVE  /\ cCall[k].b \in Bookings
         /\ cCall[k].pc \in {"cancel", "seats", "audit", "partial"}
         /\ cCall[k].pc = "partial" => cCall[k] \in PartialCall
         /\ cCall[k].pc # "partial" => cCall[k] \in FullCall
  BY CancellationTypes DEF CancellationCall, FullCall, PartialCall

\* A step that changes a request but no row.  Who leaves "seats" without having
\* freed them marks the booking.
LEMMA CancellationRowsStay ==
  ASSUME CancellationIInv, NEW k \in Calls, NEW r \in CancellationCall,
         cCall' = [cCall EXCEPT ![k] = r], r.pc # "seats",
         UNCHANGED <<booking, seats, refunded, overwritten>>,
         halved' \subseteq Bookings, halved \subseteq halved',
         cCall[k].pc = "seats" => cCall[k].b \in halved',
         r.pc = "partial" => /\ r.pax \in 1..Size
                             /\ r.price + r.refund + refunded[r.b] >= Price
  PROVE  CancellationIInv'
  <1> USE CancellationTypes DEF CancellationIInv
  <1>1. /\ cCall' \in [Calls -> CancellationCall]
        /\ \A j \in Calls : cCall'[j] = IF j = k THEN r ELSE cCall[j]
    OBVIOUS
  <1>2. C!TypeOK'
    BY <1>1 DEF C!TypeOK, CancellationCall, FullCall, PartialCall
  <1>3. PartialFits' /\ SeatsAfterStatus' /\ C!FareAndRefundAddUp'
    BY <1>1 DEF PartialFits, SeatsAfterStatus, C!FareAndRefundAddUp
  <1>4. C!SeatPerPassenger'
    <2> SUFFICES ASSUME NEW b \in Bookings, booking[b].status = "CANCELLED",
                        seats[b] # 0, b \notin halved'
                 PROVE  \E j \in Calls : cCall'[j].pc = "seats" /\ cCall'[j].b = b
      BY DEF C!SeatPerPassenger
    <2>1. PICK j \in Calls : cCall[j].pc = "seats" /\ cCall[j].b = b
      BY DEF C!SeatPerPassenger
    <2>2. j # k
      BY <2>1
    <2> QED BY <1>1, <2>1, <2>2
  <1> QED BY <1>2, <1>3, <1>4

LEMMA StartsIInv ==
  ASSUME CancellationIInv, NEW k \in Calls, NEW b \in Bookings
  PROVE  /\ C!StartCancel(k, b) => CancellationIInv'
         /\ \A l, n \in 1..Size : C!StartPartial(k, b, l, n) => CancellationIInv'
  <1>0. CancellationIInv => halved \subseteq Bookings
    BY CancellationTypes DEF CancellationIInv
  <1>1. ASSUME C!StartCancel(k, b) PROVE CancellationIInv'
    <2> DEFINE r == [pc |-> "cancel", b |-> b]
    <2>1. r \in CancellationCall /\ r.pc = "cancel"
      BY DEF CancellationCall, FullCall
    <2>2. /\ cCall[k].pc = "idle" /\ cCall' = [cCall EXCEPT ![k] = r]
          /\ UNCHANGED <<booking, seats, refunded, overwritten, halved>>
      BY <1>1 DEF C!StartCancel, C!ReadBooking, C!Goto
    <2> HIDE DEF r
    <2> QED BY <1>0, <2>1, <2>2, CancellationRowsStay
  <1>2. ASSUME NEW l \in 1..Size, NEW n \in 1..Size, C!StartPartial(k, b, l, n)
        PROVE  CancellationIInv'
    <2> DEFINE row == booking[b]
               r == C!Refund(row, l)
               c == [pc |-> "partial", b |-> b, refund |-> r,
                     price |-> row.price - r, pax |-> row.pax - n]
    <2>1. row.pax \in 1..Size /\ row.price \in Nat /\ Size \in Nat
      BY CancellationTypes, CancellationAssumed
      DEF CancellationIInv, BookingRow, C!CancellationAssumption
    <2>2. n \in 1..l /\ l < row.pax /\ C!ReadBooking(k, c)
      BY <1>2 DEF C!StartPartial
    <2>3. /\ l \in Nat /\ row.pax \in Nat \ {0} /\ l < row.pax
          /\ c.pax \in 1..Size
      BY <2>1, <2>2
    <2>4. r = (2 * row.price * l + row.pax) \div (2 * row.pax)
      BY DEF C!Refund
    <2>5. row.price + refunded[b] >= Price
      BY DEF CancellationIInv, C!FareAndRefundAddUp
    <2> HIDE DEF row, r
    <2>6. r \in Nat /\ r <= row.price
      BY <2>1, <2>3, <2>4, RefundBound
    <2>7. /\ c \in PartialCall /\ c.pax \in 1..Size /\ c.pc = "partial"
          /\ c.price + c.refund = row.price /\ c.b = b
      BY <2>1, <2>3, <2>6 DEF PartialCall
    <2>8. /\ cCall[k].pc = "idle" /\ cCall' = [cCall EXCEPT ![k] = c]
          /\ UNCHANGED <<booking, seats, refunded, overwritten, halved>>
      BY <2>2 DEF C!ReadBooking, C!Goto
    <2> HIDE DEF c
    <2>9. c \in CancellationCall /\ c.price + c.refund + refunded[c.b] >= Price
      BY <2>5, <2>7 DEF CancellationCall
    <2> QED BY <1>0, <2>7, <2>8, <2>9, CancellationRowsStay
  <1> QED BY <1>1, <1>2

\* The status goes first and the seats follow, at once or later.
LEMMA CancelsIInv ==
  ASSUME CancellationIInv, NEW k \in Calls
  PROVE  C!CancelKept(k) \/ C!CancelBooking(k) \/ C!CancelSeats(k) => CancellationIInv'
  <1> USE CancellationTypes DEF CancellationIInv
  <1> DEFINE b == cCall[k].b
             Full == [pc |-> "seats", b |-> b]
             Last == [pc |-> "audit", b |-> b]
  <1> SUFFICES ASSUME C!CancelKept(k) \/ C!CancelBooking(k) \/ C!CancelSeats(k) PROVE CancellationIInv'
    OBVIOUS
  <1>1. /\ b \in Bookings /\ UNCHANGED <<refunded, overwritten, halved>>
        /\ cCall[k].pc \in {"cancel", "seats"}
    BY CallShapes DEF C!CancelKept, C!CancelBooking, C!CancelSeats
  <1>2. \/ cCall[k].pc = "cancel" /\ booking' = [booking EXCEPT ![b].status = "CANCELLED"]
        \/ cCall[k].pc = "seats" /\ booking' = booking
    BY DEF C!CancelKept, C!CancelBooking, C!CancelSeats, C!CancelStatus
  <1>3. \/ seats' = [seats EXCEPT ![b] = 0]
        \/ seats' = seats /\ cCall' = [cCall EXCEPT ![k] = Full]
    BY DEF C!CancelKept, C!CancelBooking, C!CancelSeats, C!ReleaseSeats, C!Goto
  <1>4. PICK r \in {C!Idle, Full, Last} : cCall' = [cCall EXCEPT ![k] = r]
    BY DEF C!CancelKept, C!CancelBooking, C!CancelSeats, C!Goto
  <1>5. /\ r \in CancellationCall /\ r.pc # "partial"
        /\ r.pc = "seats" => r.b = b
        /\ Full.pc = "seats" /\ Full.b = b
    BY <1>1 DEF CancellationCall, FullCall, C!Idle
  <1>6. booking[b].status = "CANCELLED" \/ cCall[k].pc = "cancel"
    BY <1>1 DEF SeatsAfterStatus
  <1> HIDE DEF b, Full, Last
  <1>7. /\ booking' \in [Bookings -> BookingRow]
        /\ \A d \in Bookings : /\ booking'[d].pax = booking[d].pax
                               /\ booking'[d].price = booking[d].price
                               /\ d # b => booking'[d] = booking[d]
        /\ booking'[b].status = "CANCELLED"
    BY <1>1, <1>2, <1>6 DEF BookingRow
  <1>8. /\ cCall' \in [Calls -> CancellationCall]
        /\ \A j \in Calls : j # k => cCall'[j] = cCall[j]
        /\ cCall'[k] = r
    BY <1>4, <1>5
  <1>9. /\ seats' \in [Bookings -> {0, Size}]
        /\ \A d \in Bookings : d # b => seats'[d] = seats[d]
        /\ seats'[b] = 0 \/ (cCall'[k].pc = "seats" /\ cCall'[k].b = b)
    BY <1>1, <1>3, <1>5
  <1>10. C!TypeOK'
    BY <1>1, <1>7, <1>8, <1>9
       DEF C!TypeOK, BookingRow, CancellationCall, FullCall, PartialCall
  <1>11. PartialFits' /\ C!FareAndRefundAddUp'
    BY <1>1, <1>5, <1>7, <1>8 DEF PartialFits, C!FareAndRefundAddUp
  <1>12. SeatsAfterStatus'
    <2>1. \A j \in Calls : cCall[j].pc = "seats" => cCall[j].b \in Bookings
      BY CallShapes
    <2>2. \A j \in Calls : cCall'[j].pc = "seats" => booking'[cCall'[j].b].status = "CANCELLED"
      BY <1>5, <1>7, <1>8, <2>1 DEF SeatsAfterStatus
    <2> QED BY <1>7, <1>9, <2>2 DEF SeatsAfterStatus
  <1>13. C!SeatPerPassenger'
    <2>1. ASSUME NEW d \in Bookings, d # b, booking'[d].status = "CANCELLED",
                 seats'[d] # 0, d \notin halved
          PROVE  \E j \in Calls : cCall'[j].pc = "seats" /\ cCall'[j].b = d
      <3>1. PICK j \in Calls : cCall[j].pc = "seats" /\ cCall[j].b = d
        BY <1>7, <1>9, <2>1 DEF C!SeatPerPassenger
      <3>2. j # k
        BY <2>1, <3>1 DEF b
      <3> QED BY <1>8, <3>1, <3>2
    <2>2. \A d \in Bookings : booking'[d].status # "CANCELLED" => seats'[d] >= booking'[d].pax
      BY <1>7, <1>9 DEF C!SeatPerPassenger
    <2> QED BY <1>1, <1>7, <1>8, <1>9, <2>1, <2>2 DEF C!SeatPerPassenger
  <1> QED BY <1>10, <1>11, <1>12, <1>13

\* What is written and what is given back make up what was read; and that is
\* the present fare, or the booking is marked.
LEMMA PartialIInv ==
  ASSUME CancellationIInv, NEW k \in Calls, C!Partial(k)
  PROVE  CancellationIInv'
  <1> DEFINE p == cCall[k]
             b == cCall[k].b
             Last == [pc |-> "audit", b |-> b]
  <1> USE CancellationTypes DEF CancellationIInv
  <1>1. /\ b \in Bookings /\ p.pc = "partial" /\ p \in PartialCall
        /\ booking' = [booking EXCEPT ![b].pax = p.pax, ![b].price = p.price]
        /\ refunded' = [refunded EXCEPT ![b] = @ + p.refund]
        /\ overwritten' = IF p.price + p.refund # booking[b].price
                          THEN overwritten \cup {b} ELSE overwritten
        /\ UNCHANGED <<seats, halved>>
    BY CallShapes DEF C!Partial, C!WritePartial
  <1>2. PICK r \in {C!Idle, Last} : cCall' = [cCall EXCEPT ![k] = r]
    BY DEF C!Partial, C!Goto
  <1>3. r \in CancellationCall /\ r.pc \in {"idle", "audit"}
    BY <1>1 DEF CancellationCall, FullCall, C!Idle
  <1>4. /\ p.pax \in 1..Size /\ p.price \in Nat /\ p.refund \in Nat
        /\ p.price + p.refund + refunded[b] >= Price
    BY <1>1 DEF PartialFits, PartialCall
  <1> HIDE DEF b, p, Last
  <1>5. /\ booking' \in [Bookings -> BookingRow]
        /\ \A d \in Bookings : /\ booking'[d].status = booking[d].status
                               /\ d # b => booking'[d] = booking[d]
        /\ booking'[b].pax = p.pax /\ booking'[b].price = p.price
    BY <1>1, <1>4 DEF BookingRow
  <1>6. /\ cCall' \in [Calls -> CancellationCall]
        /\ \A j \in Calls : cCall'[j] = IF j = k THEN r ELSE cCall[j]
    BY <1>2, <1>3
  <1>7. /\ refunded' \in [Bookings -> Nat]
        /\ \A d \in Bookings : refunded'[d] = IF d = b THEN refunded[d] + p.refund
                                              ELSE refunded[d]
    BY <1>1, <1>4
  <1>8. C!TypeOK'
    BY <1>1, <1>5, <1>6, <1>7 DEF C!TypeOK, BookingRow, CancellationCall, FullCall, PartialCall
  <1>9. PartialFits'
    <2> SUFFICES ASSUME NEW j \in Calls, cCall'[j].pc = "partial"
                 PROVE  /\ cCall'[j].pax \in 1..Size
                        /\ cCall'[j].price + cCall'[j].refund + refunded'[cCall'[j].b] >= Price
      BY DEF PartialFits
    <2>1. j # k /\ cCall'[j] = cCall[j] /\ cCall[j].b \in Bookings /\ cCall[j] \in PartialCall
      BY <1>3, <1>6, CallShapes
    <2>2. /\ cCall[j].price \in Nat /\ cCall[j].refund \in Nat /\ cCall[j].pax \in 1..Size
          /\ cCall[j].price + cCall[j].refund + refunded[cCall[j].b] >= Price
      BY <2>1 DEF PartialFits, PartialCall
    <2>3. /\ refunded[cCall[j].b] \in Nat /\ refunded'[cCall[j].b] \in Nat
          /\ refunded'[cCall[j].b] >= refunded[cCall[j].b]
      BY <1>4, <1>7, <2>1
    <2>4. Price \in Nat
      BY CancellationAssumed DEF C!CancellationAssumption
    <2> QED BY <2>1, <2>2, <2>3, <2>4
  <1>10. C!FareAndRefundAddUp'
    <2> SUFFICES ASSUME NEW d \in Bookings
                 PROVE  /\ booking'[d].price + refunded'[d] >= Price
                        /\ d \notin overwritten' => booking'[d].price + refunded'[d] = Price
      BY DEF C!FareAndRefundAddUp
    <2>1. CASE d # b
      BY <1>1, <1>5, <1>7, <2>1 DEF C!FareAndRefundAddUp
    <2>2. CASE d = b
      <3>1. /\ refunded[b] \in Nat /\ booking[b].price \in Nat
            /\ booking'[b].price = p.price /\ refunded'[b] = refunded[b] + p.refund
        BY <1>1, <1>5, <1>7 DEF BookingRow
      <3>2. b \notin overwritten' => /\ p.price + p.refund = booking[b].price
                                     /\ booking[b].price + refunded[b] = Price
        BY <1>1 DEF C!FareAndRefundAddUp
      <3> QED BY <1>4, <2>2, <3>1, <3>2
    <2> QED BY <2>1, <2>2
  <1>11. SeatsAfterStatus'
    <2>1. \A j \in Calls : cCall'[j].pc = "seats" => /\ cCall'[j] = cCall[j]
                                                   /\ cCall[j].b \in Bookings
      BY <1>3, <1>6, CallShapes
    <2> QED BY <1>1, <1>5, <2>1 DEF SeatsAfterStatus
  <1>12. C!SeatPerPassenger'
    <2>1. \A d \in Bookings : booking'[d].pax \in 1..Size /\ Size \in Nat
      BY <1>5, CancellationAssumed DEF BookingRow, C!CancellationAssumption
    <2>2. \A d \in Bookings : booking'[d].status # "CANCELLED" => seats'[d] >= booking'[d].pax
      BY <1>1, <1>5, <2>1 DEF SeatsAfterStatus, BookingRow
    <2>3. ASSUME NEW d \in Bookings, booking'[d].status = "CANCELLED",
                 seats'[d] # 0, d \notin halved'
          PROVE  \E j \in Calls : cCall'[j].pc = "seats" /\ cCall'[j].b = d
      <3>1. PICK j \in Calls : cCall[j].pc = "seats" /\ cCall[j].b = d
        BY <1>1, <1>5, <2>3 DEF C!SeatPerPassenger
      <3>2. j # k
        BY <1>1, <3>1 DEF p
      <3> QED BY <1>6, <3>1, <3>2
    <2> QED BY <2>2, <2>3 DEF C!SeatPerPassenger
  <1> QED BY <1>8, <1>9, <1>10, <1>11, <1>12

LEMMA EndsIInv ==
  ASSUME CancellationIInv, NEW k \in Calls, C!Audit(k) \/ C!Fails(k)
  PROVE  CancellationIInv'
  <1>1. /\ cCall' = [cCall EXCEPT ![k] = C!Idle]
        /\ UNCHANGED <<booking, seats, refunded, overwritten>>
        /\ cCall[k].pc # "idle"
    BY DEF C!Audit, C!Fails, C!Goto
  <1>2. cCall[k].b \in Bookings /\ halved \subseteq Bookings
    BY <1>1, CallShapes, CancellationTypes DEF CancellationIInv
  <1>3. /\ halved' \subseteq Bookings /\ halved \subseteq halved'
        /\ cCall[k].pc = "seats" => cCall[k].b \in halved'
    BY <1>2 DEF C!Audit, C!Fails
  <1>4. C!Idle \in CancellationCall /\ C!Idle.pc = "idle"
    BY DEF C!Idle, CancellationCall
  <1> QED BY <1>1, <1>3, <1>4, CancellationRowsStay

\* However cancellations overlap, whatever the pool does with their transactions
\* and whichever statement fails: the fare a booking lost is given back, and only
\* a fare written over another's gives back more; a seat is kept for every
\* passenger, and a cancelled booking keeps none but those of a cancellation that
\* is between its statements or has failed there (booking.routes.ts 593-739).
THEOREM CancellationsAddUp == C!Spec => [](C!TypeOK /\ C!CancellationAddsUp)
  <1>1. C!Init => CancellationIInv
    <2> SUFFICES ASSUME C!Init PROVE CancellationIInv
      OBVIOUS
    <2>1. C!TypeOK
      BY CancellationAssumed DEF C!Init, C!TypeOK, C!Idle, C!CancellationAssumption
    <2>2. SeatsAfterStatus /\ C!FareAndRefundAddUp /\ C!SeatPerPassenger
      BY CancellationAssumed
      DEF C!Init, SeatsAfterStatus, C!FareAndRefundAddUp, C!SeatPerPassenger,
         C!CancellationAssumption, C!Idle
    <2>3. PartialFits
      BY DEF C!Init, PartialFits, C!Idle
    <2> QED BY <2>1, <2>2, <2>3 DEF CancellationIInv
  <1>2. CancellationIInv /\ [C!Next]_C!vars => CancellationIInv'
    <2> SUFFICES ASSUME CancellationIInv, [C!Next]_C!vars PROVE CancellationIInv'
      OBVIOUS
    <2>1. CASE C!Next
      BY <2>1, StartsIInv, CancelsIInv, PartialIInv, EndsIInv DEF C!Next
    <2>2. CASE UNCHANGED C!vars
      BY <2>2 DEF C!vars, CancellationIInv, C!TypeOK, PartialFits, SeatsAfterStatus,
         C!FareAndRefundAddUp, C!SeatPerPassenger
    <2> QED BY <2>1, <2>2
  <1>3. CancellationIInv => C!TypeOK /\ C!CancellationAddsUp
    BY DEF CancellationIInv, C!CancellationAddsUp
  <1> QED BY <1>1, <1>2, <1>3, PTL DEF C!Spec
-----------------------------------------------------------------------------
\* The waiting list of one train.
\* The instance's own copies of two library operators are those operators.
LEMMA WaitlistSets ==
  /\ \A S : W!IsFiniteSet(S) <=> IsFiniteSet(S)
  /\ \A S : W!Cardinality(S) = Cardinality(S)
  <1>1. \A S : W!IsFiniteSet(S) <=> IsFiniteSet(S)
    BY DEF W!IsFiniteSet, IsFiniteSet
  <1>2. \A S : W!Cardinality(S) = Cardinality(S)
    BY DEF W!Cardinality, Cardinality
  <1> QED BY <1>1, <1>2

LEMMA WaitlistAssumed == W!WaitlistAssumption
  BY PartsAssumption DEF PartsAssumption

WaitlistEntry == [status : {"none", "WAITLIST", "RAC", "CONFIRMED"}, class : Classes, num : Nat]
CountCall == [pc : {"count"}, class : Classes]
InsertCall == [pc : {"insert"}, class : Classes, num : Nat]
PromoteCall == [pc : {"promote"}, e : Entries, num : Nat]
RenumberCall == [pc : {"renumber"}, num : Nat]

AllWaiting == {e \in Entries : W!Waiting(e)}

\* An entry came once, and no entry of the table did not.
Arrivals ==
  /\ arrived \in Seq(Entries)
  /\ \A i, j \in DOMAIN arrived : arrived[i] = arrived[j] => i = j
  /\ \A e \in Entries : entry[e].status # "none" <=> \E i \in DOMAIN arrived : arrived[i] = e

\* Nothing gives a number below 1, and who is promoted has come.
Positive ==
  /\ \A e \in Entries : W!Waiting(e) => entry[e].num >= 1
  /\ \A k \in Calls : wCall[k].pc \in {"insert", "promote", "renumber"} => wCall[k].num >= 1
  /\ \A k \in Calls : wCall[k].pc = "promote" => entry[wCall[k].e].status # "none"

Renumbering == \E k \in Calls : wCall[k].pc = "renumber"

\* Nobody counts more than came.
Within == \A k \in Calls : wCall[k].pc = "insert" => wCall[k].num <= Len(arrived) + 1

\* While nobody wrote over what another one uses: the numbers count those who
\* came no later; what a request has read is still so; the promoted entry was the
\* first, and while the others, of one class, wait for their new numbers they are
\* one too high.
CallsRight ==
  \A k \in Calls :
    /\ wCall[k].pc = "insert" => wCall[k].num = Cardinality(W!WaitingIn(wCall[k].class)) + 1
    /\ wCall[k].pc = "promote" /\ ~Renumbering =>
         /\ W!Waiting(wCall[k].e) /\ wCall[k].num = 1
         /\ W!UpTo(wCall[k].e) = {wCall[k].e}
    /\ wCall[k].pc = "renumber" => wCall[k].num = 1
OneRenumbers ==
  /\ \A j, k \in Calls : wCall[j].pc = "renumber" /\ wCall[k].pc = "renumber" => j = k
  /\ Renumbering => \A e, f \in AllWaiting : entry[e].class = entry[f].class
Numbered ==
  \A e \in Entries : W!Waiting(e) =>
    entry[e].num = IF Renumbering THEN Cardinality(W!UpTo(e)) + 1 ELSE Cardinality(W!UpTo(e))
Orderly == OneRenumbers /\ CallsRight /\ Numbered

\* The list has run empty, and nobody but k uses what it read before.
Empty(k) == ~(\E e \in Entries : W!Waiting(e)) /\ ~W!Others(k, {"insert", "promote", "renumber"})

WaitlistIInv == /\ W!TypeOK /\ Arrivals /\ Positive /\ Within
                /\ W!RacKeepsItsNumber /\ W!NumberWithinArrivals
                /\ ~disturbed => Orderly
-----------------------------------------------------------------------------
LEMMA WaitlistTypes ==
  W!TypeOK <=> /\ entry \in [Entries -> WaitlistEntry]
               /\ free \in [Classes -> Nat] /\ (\A c \in Classes : free[c] <= Total[c])
               /\ wCall \in [Calls -> W!CallRecord]
               /\ disturbed \in BOOLEAN /\ cancels \in 0..MaxCancels
  BY Zenon DEF W!TypeOK, WaitlistEntry

LEMMA WaitlistCalls ==
  /\ W!CallRecord = [pc : {"idle", "top"}] \cup CountCall \cup InsertCall
                  \cup PromoteCall \cup RenumberCall
  /\ W!Idle \in W!CallRecord /\ W!Idle.pc = "idle"
  BY DEF W!CallRecord, CountCall, InsertCall, PromoteCall, RenumberCall, W!Idle

LEMMA CallKinds ==
  ASSUME NEW r \in W!CallRecord
  PROVE  /\ r.pc \in {"idle", "top", "count", "insert", "promote", "renumber"}
         /\ r.pc = "count" => r \in CountCall
         /\ r.pc = "insert" => r \in InsertCall
         /\ r.pc = "promote" => r \in PromoteCall
         /\ r.pc = "renumber" => r \in RenumberCall
  BY WaitlistCalls DEF CountCall, InsertCall, PromoteCall, RenumberCall

LEMMA RacThresholdType ==
  ASSUME NEW c \in Classes
  PROVE  W!RacThreshold(c) \in Nat
  <1> DEFINE t == Total[c]
  <1>1. t \in Nat
    BY WaitlistAssumed DEF W!WaitlistAssumption
  <1> HIDE DEF t
  <1>2. (t + 4) \div 5 \in Nat
    BY <1>1, SMT
  <1> QED BY <1>2 DEF W!RacThreshold, t

LEMMA CountingEntries ==
  ASSUME NEW S \in SUBSET Entries
  PROVE  /\ IsFiniteSet(S) /\ Cardinality(S) \in Nat
         /\ \A e \in Entries : /\ e \notin S => Cardinality(S \cup {e}) = Cardinality(S) + 1
                               /\ e \in S => Cardinality(S \ {e}) = Cardinality(S) - 1
  <1>1. IsFiniteSet(S) /\ Cardinality(S) \in Nat
    BY WaitlistAssumed, WaitlistSets, FS_Subset, FS_CardinalityType DEF W!WaitlistAssumption
  <1>2. ASSUME NEW e \in Entries, e \notin S PROVE Cardinality(S \cup {e}) = Cardinality(S) + 1
    BY <1>1, <1>2, FS_AddElement
  <1>3. ASSUME NEW e \in Entries, e \in S PROVE Cardinality(S \ {e}) = Cardinality(S) - 1
    BY <1>1, <1>3, FS_RemoveElement
  <1> QED BY <1>1, <1>2, <1>3

LEMMA WaitingSets ==
  /\ AllWaiting \subseteq Entries /\ \A c : W!WaitingIn(c) \subseteq AllWaiting
  /\ \A e \in Entries : W!UpTo(e) \subseteq Entries
  BY DEF AllWaiting, W!UpTo, W!WaitingIn

\* Those who wait have come, each once.
LEMMA WaitersCame ==
  ASSUME Arrivals, NEW c
  PROVE  Cardinality(W!WaitingIn(c)) <= Len(arrived)
  <1> DEFINE n == Len(arrived)
             Ts == {arrived[i] : i \in 1..n}
             g == [i \in 1..n |-> arrived[i]]
  <1>1. n \in Nat /\ DOMAIN arrived = 1..n
    BY DEF Arrivals
  <1>2. IsFiniteSet(1..n) /\ Cardinality(1..n) = n
    <2>1. 1 \in Int /\ n \in Int
      BY <1>1
    <2>2. /\ IsFiniteSet(1..n)
          /\ Cardinality(1..n) = IF 1 > n THEN 0 ELSE n - 1 + 1
      BY <2>1, FS_Interval
    <2> QED BY <1>1, <2>2
  <1>3. g \in Surjection(1..n, Ts)
    BY DEF Surjection
  <1> HIDE DEF g
  <1>4. IsFiniteSet(Ts) /\ Cardinality(Ts) <= n
    BY <1>2, <1>3, FS_Surjection
  <1>5. W!WaitingIn(c) \subseteq Ts
    <2> SUFFICES ASSUME NEW e \in W!WaitingIn(c) PROVE e \in Ts
      OBVIOUS
    <2>1. PICK i \in DOMAIN arrived : arrived[i] = e
      BY DEF W!WaitingIn, W!Waiting, Arrivals
    <2> QED BY <1>1, <2>1
  <1> HIDE DEF Ts
  <1>6. Cardinality(W!WaitingIn(c)) <= Cardinality(Ts)
    BY <1>4, <1>5, FS_Subset
  <1>7. Cardinality(W!WaitingIn(c)) \in Nat /\ Cardinality(Ts) \in Nat
    BY <1>4, WaitingSets, CountingEntries, FS_CardinalityType
  <1> QED BY <1>1, <1>4, <1>6, <1>7

\* The order of arrival is a total order of those who came.
LEMMA ArrivalOrder ==
  ASSUME Arrivals
  PROVE  /\ \A e, f \in AllWaiting : W!CameBefore(e, f) \/ W!CameBefore(f, e)
         /\ \A e, f \in Entries : W!CameBefore(e, f) /\ W!CameBefore(f, e) => e = f
         /\ \A e, f, g \in Entries : W!CameBefore(e, f) /\ W!CameBefore(f, g) => W!CameBefore(e, g)
         /\ \A e \in AllWaiting : e \in W!UpTo(e)
  <1>1. /\ DOMAIN arrived = 1..Len(arrived)
        /\ \A e \in AllWaiting : \E i \in DOMAIN arrived : arrived[i] = e
    BY DEF Arrivals, AllWaiting, W!Waiting
  <1>2. \A e, f \in AllWaiting : W!CameBefore(e, f) \/ W!CameBefore(f, e)
    BY <1>1 DEF W!CameBefore
  <1>3. \A e, f \in Entries : W!CameBefore(e, f) /\ W!CameBefore(f, e) => e = f
    <2> SUFFICES ASSUME NEW e \in Entries, NEW f \in Entries,
                        W!CameBefore(e, f), W!CameBefore(f, e)
                 PROVE  e = f
      OBVIOUS
    <2>1. PICK i, j \in DOMAIN arrived : i <= j /\ arrived[i] = e /\ arrived[j] = f
      BY DEF W!CameBefore
    <2>2. PICK k, l \in DOMAIN arrived : k <= l /\ arrived[k] = f /\ arrived[l] = e
      BY DEF W!CameBefore
    <2>3. j = k /\ i = l
      BY <2>1, <2>2 DEF Arrivals
    <2>4. i = j
      BY <1>1, <2>1, <2>2, <2>3
    <2> QED BY <2>1, <2>4
  <1>4. \A e, f, g \in Entries : W!CameBefore(e, f) /\ W!CameBefore(f, g) => W!CameBefore(e, g)
    <2> SUFFICES ASSUME NEW e \in Entries, NEW f \in Entries, NEW g \in Entries,
                        W!CameBefore(e, f), W!CameBefore(f, g)
                 PROVE  W!CameBefore(e, g)
      OBVIOUS
    <2>1. PICK i, j \in DOMAIN arrived : i <= j /\ arrived[i] = e /\ arrived[j] = f
      BY DEF W!CameBefore
    <2>2. PICK k, l \in DOMAIN arrived : k <= l /\ arrived[k] = f /\ arrived[l] = g
      BY DEF W!CameBefore
    <2>3. j = k
      BY <2>1, <2>2 DEF Arrivals
    <2>4. i <= l
      BY <1>1, <2>1, <2>2, <2>3
    <2> QED BY <2>1, <2>2, <2>4 DEF W!CameBefore
  <1>5. \A e \in AllWaiting : e \in W!UpTo(e)
    <2> SUFFICES ASSUME NEW e \in AllWaiting PROVE e \in W!UpTo(e)
      OBVIOUS
    <2>1. W!CameBefore(e, e)
      BY <1>2
    <2> QED BY <2>1 DEF W!UpTo, W!WaitingIn, AllWaiting
  <1> QED BY <1>2, <1>3, <1>4, <1>5

\* The number of the first one is 1: who has the least number has nobody before.
LEMMA TopIsFirst ==
  ASSUME Arrivals, NEW e \in AllWaiting, W!Top(e), ~Renumbering, Numbered
  PROVE  W!UpTo(e) = {e} /\ entry[e].num = 1
  <1>1. e \in W!UpTo(e) /\ e \in Entries
    BY ArrivalOrder DEF AllWaiting
  <1>2. ASSUME NEW g \in W!UpTo(e), g # e PROVE FALSE
    <2>1. g \in AllWaiting /\ W!CameBefore(g, e) /\ g \in Entries
      BY DEF W!UpTo, W!WaitingIn, AllWaiting
    <2>2. W!UpTo(g) \subseteq W!UpTo(e) \ {e}
      BY <1>1, <1>2, <2>1, ArrivalOrder DEF W!UpTo, W!WaitingIn
    <2>3. Cardinality(W!UpTo(g)) <= Cardinality(W!UpTo(e) \ {e})
      <3>1. IsFiniteSet(W!UpTo(e) \ {e})
        BY WaitingSets, CountingEntries
      <3> QED BY <2>2, <3>1, FS_Subset
    <2>4. /\ Cardinality(W!UpTo(e) \ {e}) = Cardinality(W!UpTo(e)) - 1
          /\ Cardinality(W!UpTo(e)) \in Nat /\ Cardinality(W!UpTo(g)) \in Nat
      BY <1>1, <2>1, WaitingSets, CountingEntries
    <2>5. entry[e].num = Cardinality(W!UpTo(e)) /\ entry[g].num = Cardinality(W!UpTo(g))
      BY <1>1, <2>1 DEF Numbered, AllWaiting
    <2>6. entry[e].num <= entry[g].num
      BY <2>1 DEF W!Top, AllWaiting
    <2> QED BY <2>3, <2>4, <2>5, <2>6
  <1>3. W!UpTo(e) = {e}
    BY <1>1, <1>2
  <1>4. Cardinality({e}) = 1
    BY FS_Singleton
  <1> QED BY <1>1, <1>3, <1>4 DEF Numbered, AllWaiting
-----------------------------------------------------------------------------
\* A step that changes a request but no entry.
LEMMA EntriesStay ==
  ASSUME WaitlistIInv, NEW k \in Calls, NEW r \in W!CallRecord, wCall' = [wCall EXCEPT ![k] = r],
         UNCHANGED <<entry, arrived>>,
         free' \in [Classes -> Nat], \A c \in Classes : free'[c] <= Total[c],
         cancels' \in 0..MaxCancels, disturbed' \in BOOLEAN,
         r.pc \in {"insert", "promote", "renumber"} => r.num >= 1,
         r.pc = "insert" => r.num <= Len(arrived) + 1,
         r.pc = "promote" => entry[r.e].status # "none",
         r.pc # "renumber",
         ~disturbed' => /\ ~disturbed \/ Empty(k)
                        /\ wCall[k].pc # "renumber"
                        /\ r.pc = "insert" => r.num = Cardinality(W!WaitingIn(r.class)) + 1
                        /\ r.pc = "promote" /\ ~Renumbering =>
                             W!Waiting(r.e) /\ r.num = 1 /\ W!UpTo(r.e) = {r.e}
  PROVE  WaitlistIInv'
  <1> USE WaitlistTypes DEF WaitlistIInv
  <1>1. /\ wCall' \in [Calls -> W!CallRecord]
        /\ \A j \in Calls : wCall'[j] = IF j = k THEN r ELSE wCall[j]
    OBVIOUS
  <1>2. W!TypeOK'
    BY <1>1 DEF W!TypeOK
  <1>3. /\ \A e : W!Waiting(e)' <=> W!Waiting(e)
        /\ \A e : W!UpTo(e)' = W!UpTo(e)
        /\ \A c : W!WaitingIn(c)' = W!WaitingIn(c)
        /\ AllWaiting' = AllWaiting
    BY DEF W!Waiting, W!UpTo, W!CameBefore, AllWaiting, W!WaitingIn
  <1>4. Arrivals'
    BY DEF Arrivals
  <1>5. Positive' /\ W!RacKeepsItsNumber' /\ Within' /\ W!NumberWithinArrivals'
    BY <1>1, <1>3
    DEF Positive, W!RacKeepsItsNumber, W!RacThreshold, Within, W!NumberWithinArrivals
  <1>6. ASSUME ~disturbed', Empty(k) PROVE Orderly'
    <2>1. \A j \in Calls : wCall'[j].pc \in {"insert", "promote", "renumber"} => j = k
      BY <1>1, <1>6 DEF Empty, W!Others
    <2>2. ~Renumbering' /\ AllWaiting' = {}
      BY <1>1, <1>3, <1>6, <2>1 DEF Renumbering, Empty, AllWaiting
    <2>3. OneRenumbers' /\ Numbered'
      BY <2>2 DEF OneRenumbers, Numbered, AllWaiting, Renumbering
    <2>4. r.pc = "promote" => entry[r.e].status # "none" /\ ~Renumbering
      BY <1>6 DEF Renumbering, Empty, W!Others
    <2>5. CallsRight'
      BY <1>1, <1>3, <1>6, <2>1, <2>4 DEF CallsRight
    <2> QED BY <2>3, <2>5 DEF Orderly
  <1>7. ASSUME ~disturbed', ~disturbed PROVE Orderly'
    <2>1. Orderly
      BY <1>7
    <2>2. Renumbering' <=> Renumbering
      BY <1>1, <1>7 DEF Renumbering
    <2>3. OneRenumbers'
      BY <1>1, <1>3, <2>1, <2>2 DEF Orderly, OneRenumbers
    <2>4. CallsRight'
      BY <1>1, <1>3, <1>7, <2>1, <2>2 DEF Orderly, CallsRight
    <2>5. Numbered'
      BY <1>3, <2>1, <2>2 DEF Orderly, Numbered
    <2> QED BY <2>3, <2>4, <2>5 DEF Orderly
  <1> QED BY <1>2, <1>4, <1>5, <1>6, <1>7

LEMMA StartsWaiting ==
  ASSUME WaitlistIInv, NEW k \in Calls, NEW c \in Classes, NEW n \in 1..MaxPassengers
  PROVE  /\ W!StartJoin(k, c, n) => WaitlistIInv'
         /\ W!StartPromotion(k, c, n) => WaitlistIInv'
  <1> USE WaitlistTypes, WaitlistCalls DEF WaitlistIInv
  <1>1. ASSUME W!StartJoin(k, c, n) PROVE WaitlistIInv'
    <2> DEFINE r == [pc |-> "count", class |-> c]
    <2>1. /\ wCall[k].pc = "idle" /\ wCall' = [wCall EXCEPT ![k] = r]
          /\ UNCHANGED <<entry, free, cancels, arrived, disturbed>>
      BY <1>1 DEF W!StartJoin, W!Goto
    <2>2. r \in CountCall /\ r.pc = "count" /\ r.class = c
      BY DEF CountCall
    <2> HIDE DEF r
    <2> QED BY <2>1, <2>2, EntriesStay
  <1>2. ASSUME W!StartPromotion(k, c, n) PROVE WaitlistIInv'
    <2> DEFINE r == [pc |-> "top"]
               m == IF free[c] + n <= Total[c] THEN free[c] + n ELSE Total[c]
    <2>1. /\ wCall[k].pc = "idle" /\ wCall' = [wCall EXCEPT ![k] = r]
          /\ cancels < MaxCancels /\ cancels' = cancels + 1
          /\ free' = [free EXCEPT ![c] = m]
          /\ UNCHANGED <<entry, arrived, disturbed>>
      BY <1>2 DEF W!StartPromotion, W!Goto
    <2>2. r \in W!CallRecord /\ r.pc = "top"
      OBVIOUS
    <2>3. Total \in [Classes -> Nat] /\ MaxCancels \in Nat
      BY WaitlistAssumed DEF W!WaitlistAssumption
    <2>4. m \in Nat /\ m <= Total[c]
      BY <2>3
    <2> HIDE DEF r, m
    <2>5. /\ free' \in [Classes -> Nat] /\ \A d \in Classes : free'[d] <= Total[d]
          /\ cancels' \in 0..MaxCancels
      BY <2>1, <2>3, <2>4
    <2> QED BY <2>1, <2>2, <2>5, EntriesStay
  <1> QED BY <1>1, <1>2

\* Who counts when nobody waits or uses a number starts the list afresh.
LEMMA CountsWaiting ==
  ASSUME WaitlistIInv, NEW k \in Calls, W!JoinCount(k)
  PROVE  WaitlistIInv'
  <1> USE WaitlistTypes, WaitlistCalls DEF WaitlistIInv
  <1> DEFINE c == wCall[k].class
             r == [pc |-> "insert", class |-> c, num |-> Cardinality(W!WaitingIn(c)) + 1]
  <1>1. /\ wCall[k].pc = "count" /\ wCall' = [wCall EXCEPT ![k] = r]
        /\ UNCHANGED <<entry, free, cancels, arrived>>
    BY WaitlistSets DEF W!JoinCount, W!Goto, W!Counted
  <1>2. disturbed' \in BOOLEAN /\ (~disturbed' => ~disturbed \/ Empty(k))
    BY DEF W!JoinCount, Empty
  <1>3. c \in Classes
    BY <1>1, CallKinds DEF CountCall
  <1>4. Cardinality(W!WaitingIn(c)) \in Nat
    BY WaitingSets, CountingEntries
  <1>5. /\ r \in InsertCall /\ r.pc = "insert" /\ r.class = c
        /\ r.num = Cardinality(W!WaitingIn(c)) + 1
    BY <1>3, <1>4 DEF InsertCall
  <1>6. Cardinality(W!WaitingIn(c)) <= Len(arrived) /\ Len(arrived) \in Nat
    BY WaitersCame DEF Arrivals
  <1> HIDE DEF r, c
  <1>7. r \in W!CallRecord /\ r.num >= 1 /\ r.num <= Len(arrived) + 1
    BY <1>4, <1>5, <1>6
  <1> QED BY <1>1, <1>2, <1>5, <1>7, EntriesStay

\* The first of those who wait is selected.
LEMMA SelectsFirst ==
  ASSUME WaitlistIInv, NEW k \in Calls, W!PromoteSelect(k)
  PROVE  WaitlistIInv'
  <1> USE WaitlistTypes, WaitlistCalls DEF WaitlistIInv
  <1>1. wCall[k].pc = "top" /\ UNCHANGED <<entry, free, cancels, arrived, disturbed>>
    BY DEF W!PromoteSelect
  <1>2. ASSUME NEW e \in Entries, W!Waiting(e), W!Top(e),
               W!Goto(k, [pc |-> "promote", e |-> e, num |-> entry[e].num])
        PROVE  WaitlistIInv'
    <2> DEFINE r == [pc |-> "promote", e |-> e, num |-> entry[e].num]
    <2>1. r \in PromoteCall /\ r.pc = "promote" /\ r.e = e /\ r.num = entry[e].num
      BY DEF PromoteCall, WaitlistEntry
    <2>2. wCall' = [wCall EXCEPT ![k] = r]
      BY <1>2 DEF W!Goto
    <2> HIDE DEF r
    <2>3. entry[e].num >= 1 /\ entry[e].status # "none"
      BY <1>2 DEF Positive, W!Waiting
    <2>4. ~disturbed /\ ~Renumbering => entry[e].num = 1 /\ W!UpTo(e) = {e}
      BY <1>2, TopIsFirst DEF Orderly, AllWaiting
    <2> QED BY <1>1, <1>2, <2>1, <2>2, <2>3, <2>4, EntriesStay
  <1>3. ASSUME W!Goto(k, W!Idle) PROVE WaitlistIInv'
    <2>1. wCall' = [wCall EXCEPT ![k] = W!Idle]
      BY <1>3 DEF W!Goto
    <2> QED BY <1>1, <2>1, EntriesStay
  <1> QED BY <1>2, <1>3 DEF W!PromoteSelect

\* A request gives up; that of a promotion leaves the numbers as they are.
LEMMA GivesUp ==
  ASSUME WaitlistIInv, NEW k \in Calls, W!Fails(k)
  PROVE  WaitlistIInv'
  <1> USE WaitlistTypes, WaitlistCalls DEF WaitlistIInv
  <1>1. /\ wCall' = [wCall EXCEPT ![k] = W!Idle] /\ disturbed' \in BOOLEAN
        /\ UNCHANGED <<entry, free, cancels, arrived>>
        /\ ~disturbed' => ~disturbed /\ wCall[k].pc # "renumber"
    BY DEF W!Fails, W!Goto
  <1> QED BY <1>1, EntriesStay

LEMMA SellsFree ==
  ASSUME WaitlistIInv, NEW c \in Classes, W!Sell(c)
  PROVE  WaitlistIInv'
  <1> USE WaitlistTypes DEF WaitlistIInv
  <1>1. free' = [free EXCEPT ![c] = 0] /\ UNCHANGED <<entry, wCall, cancels, arrived, disturbed>>
    BY DEF W!Sell
  <1>2. free' \in [Classes -> Nat] /\ \A d \in Classes : free'[d] <= Total[d]
    <2>1. \A d \in Classes : Total[d] \in Nat
      BY WaitlistAssumed DEF W!WaitlistAssumption
    <2>2. free' \in [Classes -> Nat] /\ \A d \in Classes : free'[d] \in {0, free[d]}
      BY <1>1
    <2> QED BY <2>1, <2>2
  <1>3. W!TypeOK'
    BY <1>1, <1>2 DEF W!TypeOK
  <1>4. /\ Arrivals' /\ Positive' /\ W!RacKeepsItsNumber' /\ Within'
        /\ W!NumberWithinArrivals'
    BY <1>1 DEF Arrivals, Positive, W!RacKeepsItsNumber, W!RacThreshold, W!Waiting, Within,
                W!NumberWithinArrivals
  <1>5. /\ \A e : W!Waiting(e)' <=> W!Waiting(e)
        /\ \A e : W!UpTo(e)' = W!UpTo(e)
        /\ \A d : W!WaitingIn(d)' = W!WaitingIn(d)
        /\ AllWaiting' = AllWaiting
        /\ Renumbering' <=> Renumbering
    BY <1>1 DEF W!Waiting, W!UpTo, W!CameBefore, AllWaiting, W!WaitingIn, Renumbering
  <1>6. Orderly => Orderly'
    BY <1>1, <1>5 DEF Orderly, OneRenumbers, CallsRight, Numbered
  <1> QED BY <1>1, <1>3, <1>4, <1>6
-----------------------------------------------------------------------------
\* Who comes now comes after all who came.
LEMMA ComesLast ==
  ASSUME Arrivals, NEW e \in Entries, entry[e].status = "none", arrived' = Append(arrived, e),
         \A f \in Entries : f # e => entry'[f] = entry[f],
         entry'[e].status \in {"WAITLIST", "RAC"}
  PROVE  /\ Arrivals'
         /\ \A f \in Entries : f # e => (W!Waiting(f)' <=> W!Waiting(f)) /\ W!UpTo(f)' = W!UpTo(f)
         /\ ~W!Waiting(e)
         /\ \A c : entry'[e].class = c => W!UpTo(e)' = W!WaitingIn(c) \cup {e}
  <1> DEFINE n == Len(arrived)
  <1>1. /\ n \in Nat /\ DOMAIN arrived = 1..n /\ DOMAIN arrived' = 1..(n + 1)
        /\ arrived'[n + 1] = e /\ arrived' \in Seq(Entries)
        /\ \A i \in 1..n : arrived'[i] = arrived[i] /\ arrived[i] # e
    BY DEF Arrivals
  <1> HIDE DEF n
  <1>2. \A i \in DOMAIN arrived' : i \in 1..n \/ i = n + 1
    BY <1>1
  <1>3. Arrivals'
    <2>1. \A i, j \in DOMAIN arrived' : arrived'[i] = arrived'[j] => i = j
      BY <1>1, <1>2 DEF Arrivals
    <2>2. ASSUME NEW f \in Entries
          PROVE  entry'[f].status # "none" <=> \E i \in DOMAIN arrived' : arrived'[i] = f
      <3>1. CASE f = e
        <4>1. n + 1 \in DOMAIN arrived'
          BY <1>1
        <4> QED BY <1>1, <3>1, <4>1
      <3>2. CASE f # e
        <4>1. 1..n \subseteq DOMAIN arrived'
          BY <1>1
        <4> QED BY <1>1, <1>2, <3>2, <4>1 DEF Arrivals
      <3> QED BY <3>1, <3>2
    <2> QED BY <1>1, <2>1, <2>2 DEF Arrivals
  <1>4. \A f \in Entries : f # e => (W!Waiting(f)' <=> W!Waiting(f))
    BY DEF W!Waiting
  <1>5. W!Waiting(e)' /\ ~W!Waiting(e)
    BY DEF W!Waiting
  <1>6. \A f, g \in Entries : g # e => (W!CameBefore(f, g)' <=> W!CameBefore(f, g))
    <2> SUFFICES ASSUME NEW f \in Entries, NEW g \in Entries, g # e
                 PROVE  W!CameBefore(f, g)' <=> W!CameBefore(f, g)
      OBVIOUS
    <2>1. ASSUME NEW i \in DOMAIN arrived', NEW j \in DOMAIN arrived', i <= j,
                 arrived'[i] = f, arrived'[j] = g
          PROVE  i \in 1..n /\ j \in 1..n /\ arrived[i] = f /\ arrived[j] = g
      <3>1. j \in 1..n
        BY <1>1, <1>2, <2>1
      <3>2. i \in 1..n
        BY <1>1, <1>2, <2>1, <3>1
      <3> QED BY <1>1, <2>1, <3>1, <3>2
    <2>2. W!CameBefore(f, g)' => W!CameBefore(f, g)
      BY <1>1, <2>1 DEF W!CameBefore
    <2>3. ASSUME NEW i \in 1..n, NEW j \in 1..n, i <= j, arrived[i] = f, arrived[j] = g
          PROVE  /\ i \in DOMAIN arrived' /\ j \in DOMAIN arrived'
                 /\ arrived'[i] = f /\ arrived'[j] = g
      BY <1>1, <2>3
    <2>4. W!CameBefore(f, g) => W!CameBefore(f, g)'
      BY <1>1, <2>3 DEF W!CameBefore
    <2> QED BY <2>2, <2>4
  <1>7. \A f \in AllWaiting \cup {e} : W!CameBefore(f, e)'
    <2> SUFFICES ASSUME NEW f \in AllWaiting \cup {e}
                 PROVE  \E i, j \in DOMAIN arrived' : i <= j /\ arrived'[i] = f /\ arrived'[j] = e
      BY DEF W!CameBefore
    <2>1. n + 1 \in DOMAIN arrived' /\ n + 1 <= n + 1
      BY <1>1
    <2>2. CASE f = e
      BY <1>1, <2>1, <2>2
    <2>3. CASE f # e
      <3>1. PICK i \in 1..n : arrived[i] = f
        BY <1>1, <2>3 DEF Arrivals, AllWaiting, W!Waiting
      <3>2. i \in DOMAIN arrived' /\ i <= n + 1 /\ arrived'[i] = f
        BY <1>1, <3>1
      <3> QED BY <1>1, <2>1, <3>2
    <2> QED BY <2>2, <2>3
  <1>9. \A f \in Entries : f # e => W!UpTo(f)' = W!UpTo(f)
    <2> SUFFICES ASSUME NEW f \in Entries, f # e PROVE W!UpTo(f)' = W!UpTo(f)
      OBVIOUS
    <2>1. ~W!CameBefore(e, f)
      BY <1>1 DEF W!CameBefore
    <2>2. ~W!CameBefore(e, f)'
      BY <1>6, <2>1
    <2>3. entry'[f] = entry[f]
      OBVIOUS
    <2> QED BY <1>4, <1>6, <2>1, <2>2, <2>3 DEF W!UpTo, W!WaitingIn
  <1>10. ASSUME NEW c, entry'[e].class = c
         PROVE  W!UpTo(e)' = W!WaitingIn(c) \cup {e}
    <2>1. W!WaitingIn(c)' = W!WaitingIn(c) \cup {e}
      BY <1>4, <1>5, <1>10 DEF W!WaitingIn
    <2>2. W!WaitingIn(c) \subseteq AllWaiting
      BY WaitingSets
    <2>3. W!UpTo(e)' = {f \in W!WaitingIn(c)' : W!CameBefore(f, e)'}
      BY <1>10 DEF W!UpTo
    <2> QED BY <1>7, <2>1, <2>2, <2>3
  <1> QED BY <1>3, <1>4, <1>5, <1>9, <1>10

LEMMA InsertsLast ==
  ASSUME WaitlistIInv, NEW k \in Calls, NEW e \in Entries, W!JoinInsert(k, e)
  PROVE  WaitlistIInv'
  <1> USE WaitlistTypes, WaitlistCalls DEF WaitlistIInv
  <1> DEFINE num == wCall[k].num
             c == wCall[k].class
             row == [status |-> W!JoinStatus(num, c), class |-> c, num |-> num]
  <1>1. /\ wCall[k].pc = "insert" /\ entry[e].status = "none"
        /\ entry' = [entry EXCEPT ![e] = row] /\ arrived' = Append(arrived, e)
        /\ wCall' = [wCall EXCEPT ![k] = W!Idle] /\ UNCHANGED <<free, cancels>>
        /\ disturbed' = (disturbed \/ W!Others(k, {"insert", "renumber"}))
    BY DEF W!JoinInsert, W!Goto
  <1>2. num \in Nat /\ num >= 1 /\ c \in Classes
    BY <1>1, CallKinds DEF InsertCall, Positive
  <1>3. /\ row \in WaitlistEntry /\ row.num = num /\ row.class = c
        /\ row.status \in {"WAITLIST", "RAC"}
        /\ row.status = "RAC" => num \in 1..W!RacThreshold(c)
    BY <1>2, RacThresholdType DEF WaitlistEntry, W!JoinStatus
  <1>4. ~disturbed' => /\ Orderly /\ num = Cardinality(W!WaitingIn(c)) + 1
                       /\ \A j \in Calls \ {k} : wCall[j].pc \notin {"insert", "renumber"}
                       /\ ~Renumbering
    BY <1>1 DEF Orderly, CallsRight, W!Others, Renumbering
  <1> HIDE DEF num, c, row
  <1>5. /\ entry' \in [Entries -> WaitlistEntry] /\ wCall' \in [Calls -> W!CallRecord]
        /\ \A f \in Entries : f # e => entry'[f] = entry[f]
        /\ entry'[e] = row
        /\ \A j \in Calls : wCall'[j] = IF j = k THEN W!Idle ELSE wCall[j]
    BY <1>1, <1>3
  <1>6. W!TypeOK'
    BY <1>1, <1>5 DEF W!TypeOK, WaitlistEntry, W!Others
  <1>7. /\ Arrivals'
        /\ \A f \in Entries : f # e => (W!Waiting(f)' <=> W!Waiting(f)) /\ W!UpTo(f)' = W!UpTo(f)
        /\ ~W!Waiting(e) /\ W!UpTo(e)' = W!WaitingIn(c) \cup {e}
    BY <1>1, <1>3, <1>5, ComesLast
  <1>8. Positive'
    <2>1. \A f \in Entries : W!Waiting(f)' => entry'[f].num >= 1
      BY <1>2, <1>3, <1>5, <1>7 DEF Positive
    <2>2. \A j \in Calls : wCall'[j].pc # "idle" => wCall'[j] = wCall[j]
      BY <1>5
    <2>3. \A j \in Calls : wCall[j].pc = "promote" => wCall[j].e \in Entries
      BY CallKinds DEF PromoteCall
    <2>4. \A f \in Entries : entry[f].status # "none" => entry'[f].status # "none"
      BY <1>1, <1>5
    <2> QED BY <2>1, <2>2, <2>3, <2>4 DEF Positive
  <1>9. W!RacKeepsItsNumber'
    BY <1>3, <1>5 DEF W!RacKeepsItsNumber, W!RacThreshold
  <1>10. Within' /\ W!NumberWithinArrivals'
    <2>1. /\ Len(arrived) \in Nat /\ DOMAIN arrived = 1..Len(arrived)
          /\ Len(arrived') = Len(arrived) + 1 /\ DOMAIN arrived' = 1..(Len(arrived) + 1)
          /\ arrived'[Len(arrived) + 1] = e
          /\ \A i \in 1..Len(arrived) : arrived'[i] = arrived[i] /\ arrived[i] # e
      BY <1>1 DEF Arrivals
    <2>2. num <= Len(arrived) + 1
      BY <1>1 DEF Within, num
    <2>3. ASSUME NEW j \in Calls, wCall'[j].pc = "insert"
          PROVE  wCall'[j].num <= Len(arrived') + 1
      <3>1. wCall'[j] = wCall[j]
        BY <1>5, <2>3
      <3>2. wCall[j].num \in Nat /\ wCall[j].num <= Len(arrived) + 1
        BY <2>3, <3>1, CallKinds DEF Within, InsertCall
      <3> QED BY <2>1, <3>1, <3>2
    <2>4. ASSUME NEW i \in DOMAIN arrived' PROVE entry'[arrived'[i]].num <= i
      <3>1. CASE i = Len(arrived) + 1
        BY <1>3, <1>5, <2>1, <2>2, <3>1
      <3>2. CASE i # Len(arrived) + 1
        <4>1. i \in DOMAIN arrived /\ arrived'[i] = arrived[i] /\ arrived[i] # e
          BY <2>1, <3>2
        <4>2. arrived[i] \in Entries
          BY <4>1 DEF Arrivals
        <4> QED BY <1>5, <4>1, <4>2 DEF W!NumberWithinArrivals
      <3> QED BY <3>1, <3>2
    <2> QED BY <2>3, <2>4 DEF Within, W!NumberWithinArrivals
  <1>11. ASSUME ~disturbed' PROVE Orderly'
    <2>1. /\ \A j \in Calls : wCall'[j].pc \notin {"insert", "renumber"}
          /\ \A j \in Calls : wCall'[j].pc = "promote" => j # k /\ wCall'[j] = wCall[j]
      BY <1>4, <1>5, <1>11
    <2>2. ~Renumbering' /\ OneRenumbers'
      BY <2>1 DEF Renumbering, OneRenumbers
    <2>3. ASSUME NEW j \in Calls, wCall'[j].pc = "promote"
          PROVE  (wCall[j].num = 1 /\ W!Waiting(wCall[j].e) /\ W!UpTo(wCall[j].e) = {wCall[j].e})'
      <3>1. PICK f \in Entries : f = wCall[j].e
        BY <2>1, <2>3, CallKinds DEF PromoteCall
      <3>2. W!Waiting(f) /\ wCall[j].num = 1 /\ W!UpTo(f) = {f}
        BY <1>4, <1>11, <2>1, <2>3, <3>1 DEF Orderly, CallsRight
      <3>3. f # e
        BY <1>7, <3>2
      <3>4. W!Waiting(f)' /\ W!UpTo(f)' = {f}
        BY <1>7, <3>2, <3>3
      <3>5. wCall'[j].e = f /\ wCall'[j].num = 1
        BY <2>1, <2>3, <3>1, <3>2
      <3> QED BY <3>4, <3>5 DEF W!Waiting, W!UpTo
    <2>4. CallsRight'
      BY <2>1, <2>3 DEF CallsRight
    <2>5. Cardinality(W!WaitingIn(c) \cup {e}) = Cardinality(W!WaitingIn(c)) + 1
      <3>1. W!WaitingIn(c) \subseteq Entries /\ e \notin W!WaitingIn(c)
        BY <1>7 DEF W!WaitingIn
      <3> QED BY <3>1, CountingEntries
    <2>6. Numbered'
      <3> SUFFICES ASSUME NEW f \in Entries, W!Waiting(f)'
                   PROVE  entry'[f].num = Cardinality(W!UpTo(f)')
        BY <2>2 DEF Numbered
      <3>1. CASE f = e
        BY <1>3, <1>4, <1>5, <1>7, <1>11, <2>5, <3>1
      <3>2. CASE f # e
        BY <1>4, <1>5, <1>7, <1>11, <3>2 DEF Orderly, Numbered
      <3> QED BY <3>1, <3>2
    <2> QED BY <2>2, <2>4, <2>6 DEF Orderly
  <1> QED BY <1>1, <1>6, <1>7, <1>8, <1>9, <1>10, <1>11

\* The statuses of entries change, not whether they came.
LEMMA ArrivalsStay ==
  ASSUME Arrivals, UNCHANGED arrived,
         \A e \in Entries : entry'[e].status # "none" <=> entry[e].status # "none"
  PROVE  Arrivals' /\ \A e, f : W!CameBefore(e, f)' <=> W!CameBefore(e, f)
  BY DEF Arrivals, W!CameBefore

\* The first leaves: each of the others has one fewer before him.
LEMMA PromotesFirst ==
  ASSUME WaitlistIInv, NEW k \in Calls, W!Promote(k)
  PROVE  WaitlistIInv'
  <1> USE WaitlistTypes, WaitlistCalls DEF WaitlistIInv
  <1> DEFINE num == wCall[k].num
             r == [pc |-> "renumber", num |-> num]
  <1>0. PICK e \in Entries : e = wCall[k].e
    BY CallKinds DEF W!Promote, PromoteCall
  <1>1. /\ wCall[k].pc = "promote" /\ entry' = [entry EXCEPT ![e].status = "CONFIRMED"]
        /\ wCall' = [wCall EXCEPT ![k] = r] /\ UNCHANGED <<free, cancels, arrived>>
        /\ disturbed' = \/ disturbed \/ W!Others(k, {"insert", "promote", "renumber"})
                        \/ W!OtherClassWaits(entry[e].class)
    BY <1>0 DEF W!Promote, W!Goto
  <1>2. num \in Nat /\ num >= 1
    BY <1>1, CallKinds DEF PromoteCall, Positive
  <1>3. r \in W!CallRecord /\ r.pc = "renumber" /\ r.num = num
    BY <1>2 DEF RenumberCall
  <1>4. ~disturbed' => /\ \A j \in Calls \ {k} : wCall[j].pc \notin {"insert", "promote", "renumber"}
                       /\ \A f \in Entries : W!Waiting(f) => entry[f].class = entry[e].class
                       /\ Orderly /\ ~Renumbering
    BY <1>1 DEF W!Others, W!OtherClassWaits, Renumbering
  <1>4a. ~disturbed' => W!Waiting(e) /\ num = 1 /\ W!UpTo(e) = {e}
    BY <1>0, <1>1, <1>4 DEF Orderly, CallsRight
  <1> HIDE DEF num, r
  <1>5. /\ entry' \in [Entries -> WaitlistEntry] /\ wCall' \in [Calls -> W!CallRecord]
        /\ \A f \in Entries : f # e => entry'[f] = entry[f]
        /\ entry'[e].status = "CONFIRMED" /\ entry'[e].num = entry[e].num
        /\ \A f \in Entries : entry'[f].class = entry[f].class
        /\ \A j \in Calls : wCall'[j] = IF j = k THEN r ELSE wCall[j]
    BY <1>1, <1>2, <1>3 DEF WaitlistEntry
  <1>6. W!TypeOK'
    BY <1>1, <1>5 DEF W!TypeOK, WaitlistEntry, W!Others, W!OtherClassWaits
  <1>7. ~W!Waiting(e)' /\ \A f \in Entries : f # e => (W!Waiting(f)' <=> W!Waiting(f))
    BY <1>5 DEF W!Waiting
  <1>8. Positive'
    <2>1. \A f \in Entries : W!Waiting(f)' => entry'[f].num >= 1
      BY <1>5, <1>7 DEF Positive
    <2>2. \A j \in Calls : j # k => wCall'[j] = wCall[j]
      BY <1>5
    <2>3. \A j \in Calls : wCall[j].pc = "promote" => wCall[j].e \in Entries
      BY CallKinds DEF PromoteCall
    <2>4. \A f \in Entries : entry[f].status # "none" => entry'[f].status # "none"
      BY <1>5
    <2> QED BY <1>2, <1>3, <1>5, <2>1, <2>2, <2>3, <2>4 DEF Positive
  <1>9. entry[e].status # "none"
    BY <1>0, <1>1 DEF Positive
  <1>10. Arrivals' /\ \A g, f : W!CameBefore(g, f)' <=> W!CameBefore(g, f)
    BY <1>1, <1>5, <1>9, ArrivalsStay
  <1>11. W!RacKeepsItsNumber'
    BY <1>5 DEF W!RacKeepsItsNumber, W!RacThreshold
  <1>12. Within' /\ W!NumberWithinArrivals'
    <2>1. \A f \in Entries : entry'[f].num = entry[f].num
      BY <1>5
    <2>2. \A i \in DOMAIN arrived : arrived[i] \in Entries
      BY DEF Arrivals
    <2>3. W!NumberWithinArrivals'
      BY <1>1, <2>1, <2>2 DEF W!NumberWithinArrivals
    <2>4. Within'
      BY <1>1, <1>3, <1>5 DEF Within
    <2> QED BY <2>3, <2>4
  <1>13. ASSUME ~disturbed' PROVE Orderly'
    <2>1. /\ \A j \in Calls : wCall'[j].pc \in {"insert", "promote", "renumber"} => j = k
          /\ wCall'[k] = r /\ Renumbering'
      BY <1>3, <1>4, <1>5, <1>13 DEF Renumbering
    <2>2. CallsRight'
      BY <1>3, <1>4a, <1>13, <2>1 DEF CallsRight
    <2>3. AllWaiting' \subseteq AllWaiting
      BY <1>7 DEF AllWaiting
    <2>4. OneRenumbers'
      BY <1>4, <1>5, <1>13, <2>1, <2>3 DEF OneRenumbers, AllWaiting
    <2>5. Numbered'
      <3> SUFFICES ASSUME NEW f \in Entries, W!Waiting(f)'
                   PROVE  entry'[f].num = Cardinality(W!UpTo(f)') + 1
        BY <2>1 DEF Numbered
      <3>1. f # e /\ W!Waiting(f) /\ f \in AllWaiting /\ e \in AllWaiting
        BY <1>4a, <1>7, <1>13 DEF AllWaiting
      <3>2. entry[f].class = entry[e].class
        BY <1>4, <1>13, <3>1
      <3>3. ~W!CameBefore(f, e)
        BY <1>4a, <1>13, <3>1, <3>2 DEF W!UpTo, W!WaitingIn
      <3>4. W!CameBefore(e, f)
        BY <3>1, <3>3, ArrivalOrder
      <3>5. e \in W!UpTo(f)
        BY <3>1, <3>2, <3>4 DEF W!UpTo, W!WaitingIn, AllWaiting
      <3>6. W!WaitingIn(entry[f].class)' = W!WaitingIn(entry[f].class) \ {e}
        BY <1>5, <1>7 DEF W!WaitingIn
      <3>7. W!UpTo(f)' = W!UpTo(f) \ {e}
        BY <1>5, <1>10, <3>6 DEF W!UpTo
      <3>8. /\ Cardinality(W!UpTo(f) \ {e}) = Cardinality(W!UpTo(f)) - 1
            /\ Cardinality(W!UpTo(f)) \in Nat
        BY <3>5, WaitingSets, CountingEntries
      <3>9. entry'[f].num = Cardinality(W!UpTo(f))
        BY <1>4, <1>5, <1>13, <3>1 DEF Orderly, Numbered
      <3> QED BY <3>7, <3>8, <3>9
    <2> QED BY <2>2, <2>4, <2>5 DEF Orderly
  <1> QED BY <1>1, <1>6, <1>8, <1>10, <1>11, <1>12, <1>13

\* Every number above that of the promoted goes down by one.
LEMMA RenumbersRest ==
  ASSUME WaitlistIInv, NEW k \in Calls, W!Renumber(k)
  PROVE  WaitlistIInv'
  <1> USE WaitlistTypes, WaitlistCalls DEF WaitlistIInv
  <1> DEFINE num == wCall[k].num
  <1>1. /\ wCall[k].pc = "renumber" /\ wCall' = [wCall EXCEPT ![k] = W!Idle]
        /\ entry' = [e \in Entries |->
                       IF W!Waiting(e) /\ entry[e].num > num
                       THEN [entry[e] EXCEPT !.num = @ - 1] ELSE entry[e]]
        /\ UNCHANGED <<free, cancels, arrived>>
        /\ disturbed' = (disturbed \/ W!Others(k, {"promote", "renumber"}))
    BY DEF W!Renumber, W!Goto
  <1>2. num \in Nat /\ num >= 1
    BY <1>1, CallKinds DEF RenumberCall, Positive
  <1>3. ~disturbed' => /\ Orderly /\ Renumbering /\ num = 1
                       /\ \A j \in Calls \ {k} : wCall[j].pc \notin {"promote", "renumber"}
    BY <1>1 DEF Orderly, CallsRight, W!Others, Renumbering
  <1> HIDE DEF num
  <1>4. ASSUME NEW e \in Entries
        PROVE  /\ entry'[e] \in WaitlistEntry
               /\ entry'[e].status = entry[e].status /\ entry'[e].class = entry[e].class
               /\ entry'[e].num = IF W!Waiting(e) /\ entry[e].num > num
                                  THEN entry[e].num - 1 ELSE entry[e].num
    <2>1. entry[e] \in WaitlistEntry /\ entry[e].num \in Nat
      BY DEF WaitlistEntry
    <2>2. CASE W!Waiting(e) /\ entry[e].num > num
      <3>1. entry'[e] = [entry[e] EXCEPT !.num = @ - 1] /\ entry[e].num - 1 \in Nat
        BY <1>1, <1>2, <2>1, <2>2
      <3> QED BY <2>1, <2>2, <3>1 DEF WaitlistEntry
    <2>3. CASE ~(W!Waiting(e) /\ entry[e].num > num)
      BY <1>1, <2>1, <2>3
    <2> QED BY <2>2, <2>3
  <1>5. /\ entry' \in [Entries -> WaitlistEntry] /\ wCall' \in [Calls -> W!CallRecord]
        /\ \A j \in Calls : wCall'[j] = IF j = k THEN W!Idle ELSE wCall[j]
        /\ \A e \in Entries : W!Waiting(e)' <=> W!Waiting(e)
    BY <1>1, <1>4 DEF W!Waiting
  <1>6. W!TypeOK'
    BY <1>1, <1>5 DEF W!TypeOK, WaitlistEntry, W!Others
  <1>7. Arrivals' /\ \A g, f : W!CameBefore(g, f)' <=> W!CameBefore(g, f)
    BY <1>1, <1>4, ArrivalsStay
  <1>8. /\ \A c : W!WaitingIn(c)' = W!WaitingIn(c)
        /\ \A e \in Entries : W!UpTo(e)' = W!UpTo(e)
    <2>1. \A c : W!WaitingIn(c)' = W!WaitingIn(c)
      BY <1>4, <1>5 DEF W!WaitingIn
    <2> QED BY <1>4, <1>7, <2>1 DEF W!UpTo
  <1>9. Positive'
    <2>1. ASSUME NEW e \in Entries, W!Waiting(e)' PROVE entry'[e].num >= 1
      <3>1. entry[e].num \in Nat /\ entry[e].num >= 1
        BY <1>5, <2>1 DEF WaitlistEntry, Positive
      <3> QED BY <1>2, <1>4, <3>1
    <2>2. \A j \in Calls : wCall'[j].pc # "idle" => wCall'[j] = wCall[j]
      BY <1>5
    <2>3. \A j \in Calls : wCall[j].pc = "promote" => wCall[j].e \in Entries
      BY CallKinds DEF PromoteCall
    <2> QED BY <1>4, <2>1, <2>2, <2>3 DEF Positive
  <1>10. W!RacKeepsItsNumber'
    <2> SUFFICES ASSUME NEW e \in Entries, entry'[e].status = "RAC"
                 PROVE  entry'[e].num \in 1..W!RacThreshold(entry'[e].class)
      BY DEF W!RacKeepsItsNumber, W!RacThreshold
    <2>1. /\ entry[e].num \in 1..W!RacThreshold(entry[e].class) /\ entry[e].class \in Classes
          /\ entry'[e].class = entry[e].class
      BY <1>4 DEF W!RacKeepsItsNumber, WaitlistEntry
    <2> QED BY <1>2, <1>4, <2>1, RacThresholdType
  <1>11. Within' /\ W!NumberWithinArrivals'
    <2>1. \A i \in DOMAIN arrived : arrived[i] \in Entries /\ i \in Nat
      BY DEF Arrivals
    <2>2. ASSUME NEW i \in DOMAIN arrived PROVE entry'[arrived[i]].num <= i
      <3> DEFINE e == arrived[i]
      <3>1. e \in Entries /\ i \in Nat /\ entry[e].num \in Nat /\ entry[e].num <= i
        BY <2>1 DEF W!NumberWithinArrivals, WaitlistEntry
      <3>2. entry'[e].num \in {entry[e].num, entry[e].num - 1}
        BY <1>4, <3>1
      <3> HIDE DEF e
      <3>3. entry'[e].num <= i
        BY <3>1, <3>2
      <3> QED BY <3>3 DEF e
    <2>3. Within'
      BY <1>1, <1>5 DEF Within
    <2> QED BY <1>1, <2>2, <2>3 DEF W!NumberWithinArrivals
  <1>12. ASSUME ~disturbed' PROVE Orderly'
    <2>1. /\ \A j \in Calls : wCall'[j].pc \notin {"promote", "renumber"}
          /\ \A j \in Calls : wCall'[j].pc = "insert" => wCall'[j] = wCall[j]
      BY <1>3, <1>5, <1>12
    <2>2. ~Renumbering' /\ OneRenumbers' /\ CallsRight'
      <3>1. ~Renumbering' /\ OneRenumbers'
        BY <2>1 DEF Renumbering, OneRenumbers
      <3>2. CallsRight
        BY <1>3, <1>12 DEF Orderly
      <3> QED BY <1>8, <2>1, <3>1, <3>2 DEF CallsRight
    <2>3. Numbered'
      <3> SUFFICES ASSUME NEW e \in Entries, W!Waiting(e)
                   PROVE  entry'[e].num = Cardinality(W!UpTo(e)')
        BY <1>5, <2>2 DEF Numbered
      <3>1. entry[e].num = Cardinality(W!UpTo(e)) + 1
        BY <1>3, <1>12 DEF Orderly, Numbered
      <3>2. e \in W!UpTo(e)
        BY ArrivalOrder DEF AllWaiting
      <3>3. /\ Cardinality(W!UpTo(e) \ {e}) = Cardinality(W!UpTo(e)) - 1
            /\ Cardinality(W!UpTo(e)) \in Nat /\ Cardinality(W!UpTo(e) \ {e}) \in Nat
        <4>1. W!UpTo(e) \subseteq Entries /\ W!UpTo(e) \ {e} \subseteq Entries
          BY WaitingSets
        <4> QED BY <3>2, <4>1, CountingEntries
      <3>4. entry'[e].num = entry[e].num - 1
        BY <1>3, <1>4, <1>12, <3>1, <3>3
      <3> QED BY <1>8, <3>1, <3>3, <3>4
    <2> QED BY <2>2, <2>3 DEF Orderly
  <1> QED BY <1>1, <1>6, <1>7, <1>9, <1>10, <1>11, <1>12

\* The numbers of the waiting list: 1, 2, ... in the order of arrival until a
\* request writes over what another uses; whatever overlaps or fails, one who was
\* told RAC keeps a number within the threshold, and nobody's is higher than his
\* place among all that came (booking.routes.ts 742-873).
THEOREM WaitlistNumbers == W!Spec => [](W!TypeOK /\ W!WaitingInOrder /\ W!RacKeepsItsNumber /\ W!NumberWithinArrivals)
  <1>1. W!Init => WaitlistIInv
    <2> SUFFICES ASSUME W!Init PROVE WaitlistIInv
      OBVIOUS
    <2>1. /\ Classes # {} /\ Total \in [Classes -> Nat] /\ MaxCancels \in Nat
          /\ \A c \in Classes : Total[c] \in Nat
      BY WaitlistAssumed DEF W!WaitlistAssumption
    <2>2. W!NoEntry \in WaitlistEntry /\ W!NoEntry.status = "none"
      BY <2>1 DEF W!NoEntry, WaitlistEntry
    <2>3. W!TypeOK
      <3>1. /\ entry \in [Entries -> WaitlistEntry] /\ free \in [Classes -> Nat]
            /\ wCall \in [Calls -> W!CallRecord] /\ cancels \in 0..MaxCancels
            /\ \A c \in Classes : free[c] <= Total[c]
        BY <2>1, <2>2, WaitlistCalls DEF W!Init
      <3>2. disturbed \in BOOLEAN
        BY DEF W!Init
      <3> QED BY <3>1, <3>2, WaitlistTypes
    <2>4. \A e \in Entries : ~W!Waiting(e) /\ entry[e].status = "none"
      BY <2>2 DEF W!Init, W!Waiting
    <2>5. Arrivals /\ Positive /\ W!RacKeepsItsNumber /\ Within /\ W!NumberWithinArrivals
      BY <2>4 DEF W!Init, Arrivals, Positive, W!RacKeepsItsNumber, Within,
                  W!NumberWithinArrivals, W!Idle
    <2>6. \A k \in Calls : wCall[k].pc = "idle"
      BY DEF W!Init, W!Idle
    <2>7. Orderly
      BY <2>4, <2>6 DEF Orderly, OneRenumbers, CallsRight, Numbered, Renumbering
    <2> QED BY <2>3, <2>5, <2>7 DEF WaitlistIInv
  <1>2. WaitlistIInv /\ [W!Next]_W!vars => WaitlistIInv'
    <2> SUFFICES ASSUME WaitlistIInv, [W!Next]_W!vars PROVE WaitlistIInv'
      OBVIOUS
    <2>1. CASE W!Next
      BY <2>1, StartsWaiting, CountsWaiting, InsertsLast, SelectsFirst, PromotesFirst,
         RenumbersRest, GivesUp, SellsFree DEF W!Next
    <2>2. CASE UNCHANGED W!vars
      <3>1. UNCHANGED <<entry, free, wCall, cancels, arrived, disturbed>>
        BY <2>2 DEF W!vars
      <3>2. /\ \A e : W!Waiting(e)' <=> W!Waiting(e)
            /\ \A e : W!UpTo(e)' = W!UpTo(e)
            /\ \A c : W!WaitingIn(c)' = W!WaitingIn(c)
            /\ AllWaiting' = AllWaiting /\ (Renumbering' <=> Renumbering)
        BY <3>1 DEF W!Waiting, W!UpTo, W!WaitingIn, W!CameBefore, AllWaiting, Renumbering
      <3>3. /\ W!TypeOK' /\ Arrivals' /\ Positive' /\ W!RacKeepsItsNumber'
            /\ Within' /\ W!NumberWithinArrivals'
        BY <3>1, <3>2
        DEF WaitlistIInv, W!TypeOK, Arrivals, Positive, W!RacKeepsItsNumber, W!RacThreshold,
                          Within, W!NumberWithinArrivals
      <3>4. Orderly => Orderly'
        BY <3>1, <3>2 DEF Orderly, OneRenumbers, CallsRight, Numbered
      <3> QED BY <3>1, <3>3, <3>4 DEF WaitlistIInv
    <2> QED BY <2>1, <2>2
  <1>3. WaitlistIInv => W!TypeOK /\ W!WaitingInOrder /\ W!RacKeepsItsNumber /\ W!NumberWithinArrivals
    BY WaitlistSets DEF WaitlistIInv, W!WaitingInOrder, Orderly, Numbered, Renumbering
  <1> QED BY <1>1, <1>2, <1>3, PTL DEF W!Spec
-----------------------------------------------------------------------------
(***************************************************************************)
(* Proofs about platform tickets, for any users, PNRs, calls and number of *)
(* tickets.  A cancellation looks at the owner and updates by the PNR in a *)
(* later statement; it hits its own ticket because a PNR never moves to    *)
(* another ticket: rows are added, with a PNR that is free, and never      *)
(* taken away.                                                             *)
(***************************************************************************)
PlatformTicketsTypes ==
  /\ tickets \in Seq(T!Ticket)
  /\ tCall \in [Calls -> {T!Idle} \cup T!Pending]
  /\ tTold \subseteq T!Note

\* The UNIQUE column.
OnePerPnr ==
  \A i, j \in DOMAIN tickets : tickets[i].pnr = tickets[j].pnr => i = j

\* Ticket i is what c is about to cancel.
Means(c, i) == tickets[i].pnr = tCall[c].pnr /\ tickets[i].user = tCall[c].user

\* A cancellation that has looked at its ticket will find it.
CancelsTheirs ==
  \A c \in Calls : tCall[c].pc = "cancel" => \E i \in DOMAIN tickets : Means(c, i)

PlatformTicketsIInv == PlatformTicketsTypes /\ OnePerPnr /\ CancelsTheirs /\ T!TicketsAreTheirs
-----------------------------------------------------------------------------
\* The rows stay where they are, with their owners and PNRs, and a cancelled
\* one stays cancelled.
PlatformTicketsRowsStay ==
  /\ DOMAIN tickets \subseteq DOMAIN tickets'
  /\ \A i \in DOMAIN tickets :
        /\ tickets'[i].pnr = tickets[i].pnr /\ tickets'[i].user = tickets[i].user
        /\ tickets[i].status = "CANCELLED" => tickets'[i].status = "CANCELLED"

\* What users were told stays true of rows that stay.
LEMMA ToldStays ==
  ASSUME PlatformTicketsRowsStay, NEW t,
         \E i \in DOMAIN tickets :
            /\ tickets[i].pnr = t.pnr /\ tickets[i].user = t.user
            /\ t.what = "cancelled" => tickets[i].status = "CANCELLED"
  PROVE  \E i \in DOMAIN tickets' :
            /\ tickets'[i].pnr = t.pnr /\ tickets'[i].user = t.user
            /\ t.what = "cancelled" => tickets'[i].status = "CANCELLED"
  BY DEF PlatformTicketsRowsStay

\* And so does what cancellations mean.
LEMMA MeaningStays ==
  ASSUME PlatformTicketsRowsStay, NEW c \in Calls, tCall'[c] = tCall[c],
         \E i \in DOMAIN tickets : Means(c, i)
  PROVE  \E i \in DOMAIN tickets' : Means(c, i)'
  BY DEF PlatformTicketsRowsStay, Means

\* Idle is a call that cancels nothing.
LEMMA IdleIsIdle == T!Idle.pc = "idle" /\ T!Idle \notin T!Pending
  <1>1. T!Idle.pc = "idle"
    BY DEF T!Idle
  <1> QED BY <1>1 DEF T!Pending

\* Steps that only start or end a call, and start a cancellation for a ticket
\* that is its user's.
LEMMA CallIInv ==
  ASSUME PlatformTicketsIInv, NEW c \in Calls, NEW x, tCall' = [tCall EXCEPT ![c] = x],
         x = T!Idle \/ x \in T!Pending,
         x.pc = "cancel" => T!Cancellable(x.user, x.pnr),
         UNCHANGED <<tickets, tTold, hit>>
  PROVE  PlatformTicketsIInv'
  <1>1. \A d \in Calls : tCall'[d] = IF d = c THEN x ELSE tCall[d]
    BY DEF PlatformTicketsIInv, PlatformTicketsTypes
  <1>2. PlatformTicketsTypes'
    BY <1>1 DEF PlatformTicketsIInv, PlatformTicketsTypes
  <1>3. CancelsTheirs'
    <2> SUFFICES ASSUME NEW d \in Calls, tCall'[d].pc = "cancel"
                 PROVE  \E i \in DOMAIN tickets : Means(d, i)'
      BY DEF CancelsTheirs
    <2>1. CASE d = c
      BY <1>1, <2>1 DEF T!Cancellable, Means
    <2>2. CASE d # c
      BY <1>1, <2>2 DEF PlatformTicketsIInv, CancelsTheirs, Means
    <2> QED BY <2>1, <2>2
  <1> QED BY <1>2, <1>3 DEF PlatformTicketsIInv, OnePerPnr, T!TicketsAreTheirs

LEMMA StartIInv ==
  ASSUME PlatformTicketsIInv, NEW c \in Calls, NEW u \in Users,
         T!BookPlatformTicket(c, u) \/ T!BookUnreservedTicket(c, u)
  PROVE  PlatformTicketsIInv'
  <1>1. PICK kind \in T!Kinds : T!Book(c, u, kind)
    BY DEF T!BookPlatformTicket, T!BookUnreservedTicket, T!Kinds
  <1>2. PICK p \in Pnrs : tCall' = [tCall EXCEPT ![c] =
                 [pc |-> "insert", user |-> u, pnr |-> p, kind |-> kind]]
    BY <1>1 DEF T!Book
  <1>3. [pc |-> "insert", user |-> u, pnr |-> p, kind |-> kind] \in T!Pending
    BY DEF T!Pending
  <1> QED BY <1>1, <1>2, <1>3, CallIInv DEF T!Book

LEMMA StartCancelIInv ==
  ASSUME PlatformTicketsIInv, NEW c \in Calls, NEW u \in Users, NEW p \in Pnrs, T!CancelTicket(c, u, p)
  PROVE  PlatformTicketsIInv'
  <1> DEFINE x == [T!Idle EXCEPT !.pc = "cancel", !.user = u, !.pnr = p]
  <1>1. x.pc = "cancel" /\ x.user = u /\ x.pnr = p /\ x \in T!Pending
    BY DEF T!Idle, T!Pending, T!Kinds
  <1> QED BY <1>1, CallIInv DEF T!CancelTicket

LEMMA PlatformTicketsFailsIInv ==
  ASSUME PlatformTicketsIInv, NEW c \in Calls, T!BookingFails(c) \/ T!CancelFails(c)
  PROVE  PlatformTicketsIInv'
  <1>1. tCall' = [tCall EXCEPT ![c] = T!Idle] /\ UNCHANGED <<tickets, tTold, hit>>
    BY DEF T!BookingFails, T!CancelFails
  <1> QED BY <1>1, CallIInv, IdleIsIdle

\* The INSERT adds a row, whose PNR no other has.
LEMMA InsertedIInv ==
  ASSUME PlatformTicketsIInv, NEW c \in Calls, T!Inserted(c)
  PROVE  PlatformTicketsIInv'
  <1> DEFINE n == Len(tickets)
             row == [user |-> tCall[c].user, pnr |-> tCall[c].pnr,
                     type |-> tCall[c].kind, status |-> "ACTIVE"]
  <1>1. tCall[c] \in T!Pending
    BY IdleIsIdle DEF PlatformTicketsIInv, PlatformTicketsTypes, T!Inserted
  <1>2. row \in T!Ticket
    BY <1>1 DEF T!Pending, T!Ticket, T!Statuses
  <1>3. /\ tickets' \in Seq(T!Ticket) /\ n \in Nat
        /\ DOMAIN tickets = 1..n /\ DOMAIN tickets' = 1..(n + 1)
        /\ \A i \in 1..n : tickets'[i] = tickets[i]
        /\ tickets'[n + 1] = row
    BY <1>2 DEF PlatformTicketsIInv, PlatformTicketsTypes, T!Inserted
  <1>4. PlatformTicketsRowsStay
    BY <1>3 DEF PlatformTicketsRowsStay
  <1>5. \A d \in Calls : tCall'[d] = IF d = c THEN T!Idle ELSE tCall[d]
    BY DEF PlatformTicketsIInv, PlatformTicketsTypes, T!Inserted
  <1>6. tTold' = tTold \cup {[user |-> tCall[c].user, pnr |-> tCall[c].pnr, what |-> "booked"]}
    BY DEF T!Inserted, T!Tell
  <1>7. PlatformTicketsTypes'
    BY <1>1, <1>3, <1>5, <1>6
    DEF PlatformTicketsIInv, PlatformTicketsTypes, T!Inserted, T!Pending, T!Note
  <1>8. OnePerPnr'
    BY <1>3 DEF PlatformTicketsIInv, OnePerPnr, T!Inserted, T!Taken
  <1>9. CancelsTheirs'
    <2> SUFFICES ASSUME NEW d \in Calls, tCall'[d].pc = "cancel"
                 PROVE  \E i \in DOMAIN tickets' : Means(d, i)'
      BY DEF CancelsTheirs
    <2>1. tCall'[d] = tCall[d]
      BY <1>5, IdleIsIdle
    <2> QED BY <1>4, <2>1, MeaningStays DEF PlatformTicketsIInv, CancelsTheirs
  <1>10. T!TicketsAreTheirs'
    <2>1. ASSUME NEW t \in tTold
          PROVE  \E i \in DOMAIN tickets' :
                    /\ tickets'[i].pnr = t.pnr /\ tickets'[i].user = t.user
                    /\ t.what = "cancelled" => tickets'[i].status = "CANCELLED"
      BY <1>4, ToldStays DEF PlatformTicketsIInv, T!TicketsAreTheirs
    <2>2. n + 1 \in DOMAIN tickets'
      BY <1>3
    <2> QED BY <1>3, <1>6, <2>1, <2>2 DEF PlatformTicketsIInv, T!TicketsAreTheirs, T!Inserted
  <1> QED BY <1>7, <1>8, <1>9, <1>10 DEF PlatformTicketsIInv

\* The UPDATE by the PNR finds the one ticket that was looked at.
LEMMA CancelledIInv ==
  ASSUME PlatformTicketsIInv, NEW c \in Calls, T!Cancelled(c)
  PROVE  PlatformTicketsIInv'
  <1> DEFINE new(i) == IF tickets[i].pnr = tCall[c].pnr
                       THEN [tickets[i] EXCEPT !.status = "CANCELLED"] ELSE tickets[i]
  <1>1. tCall[c] \in T!Pending
    BY IdleIsIdle DEF PlatformTicketsIInv, PlatformTicketsTypes, T!Cancelled
  <1>2. DOMAIN tickets = 1..Len(tickets) /\ Len(tickets) \in Nat
        /\ \A i \in DOMAIN tickets : tickets[i] \in T!Ticket
    BY DEF PlatformTicketsIInv, PlatformTicketsTypes
  <1>3. tickets' = [i \in DOMAIN tickets |-> new(i)]
    BY DEF T!Cancelled
  <1>4. \A i \in DOMAIN tickets :
           /\ new(i) \in T!Ticket /\ new(i).pnr = tickets[i].pnr
           /\ new(i).user = tickets[i].user
           /\ tickets[i].status = "CANCELLED" => new(i).status = "CANCELLED"
           /\ tickets[i].pnr = tCall[c].pnr => new(i).status = "CANCELLED"
    BY <1>2 DEF T!Ticket, T!Statuses
  <1>5. tickets' \in Seq(T!Ticket) /\ DOMAIN tickets' = DOMAIN tickets
    <2>1. tickets' \in [1..Len(tickets) -> T!Ticket]
      BY <1>2, <1>3, <1>4
    <2> QED BY <1>2, <2>1
  <1> HIDE DEF new
  <1>6. PlatformTicketsRowsStay
    BY <1>3, <1>4 DEF PlatformTicketsRowsStay
  <1>7. \A d \in Calls : tCall'[d] = IF d = c THEN T!Idle ELSE tCall[d]
    BY DEF PlatformTicketsIInv, PlatformTicketsTypes, T!Cancelled
  <1>8. tTold' = tTold \cup {[user |-> tCall[c].user, pnr |-> tCall[c].pnr, what |-> "cancelled"]}
    BY DEF T!Cancelled, T!Tell
  <1>9. PICK k \in DOMAIN tickets : Means(c, k)
    BY DEF PlatformTicketsIInv, CancelsTheirs, T!Cancelled
  <1>10. PlatformTicketsTypes'
    BY <1>1, <1>5, <1>7, <1>8
    DEF PlatformTicketsIInv, PlatformTicketsTypes, T!Cancelled, T!Pending, T!Note
  <1>11. OnePerPnr'
    BY <1>3, <1>4, <1>5 DEF PlatformTicketsIInv, OnePerPnr
  <1>12. CancelsTheirs'
    <2> SUFFICES ASSUME NEW d \in Calls, tCall'[d].pc = "cancel"
                 PROVE  \E i \in DOMAIN tickets' : Means(d, i)'
      BY DEF CancelsTheirs
    <2>1. tCall'[d] = tCall[d]
      BY <1>7, IdleIsIdle
    <2> QED BY <1>6, <2>1, MeaningStays DEF PlatformTicketsIInv, CancelsTheirs
  <1>13. hit' = {}
    <2>1. \A i \in DOMAIN tickets : tickets[i].pnr = tCall[c].pnr => i = k
      BY <1>9 DEF PlatformTicketsIInv, OnePerPnr, Means
    <2> QED BY <1>9, <2>1 DEF T!Cancelled, Means, PlatformTicketsIInv, T!TicketsAreTheirs
  <1>14. ASSUME NEW t \in tTold'
         PROVE  \E i \in DOMAIN tickets' :
                   /\ tickets'[i].pnr = t.pnr /\ tickets'[i].user = t.user
                   /\ t.what = "cancelled" => tickets'[i].status = "CANCELLED"
    <2>1. CASE t \in tTold
      BY <1>6, <2>1, ToldStays DEF PlatformTicketsIInv, T!TicketsAreTheirs
    <2>2. CASE t \notin tTold
      <3>1. t.user = tCall[c].user /\ t.pnr = tCall[c].pnr
        BY <1>8, <1>14, <2>2
      <3> QED BY <1>3, <1>4, <1>5, <1>9, <3>1 DEF Means
    <2> QED BY <2>1, <2>2
  <1> QED BY <1>10, <1>11, <1>12, <1>13, <1>14 DEF PlatformTicketsIInv, T!TicketsAreTheirs

\* There is no ticket yet and nobody was told of one.
LEMMA PlatformTicketsInitIInv == T!Init => PlatformTicketsIInv
  <1> SUFFICES ASSUME T!Init PROVE PlatformTicketsIInv
    OBVIOUS
  <1>1. PlatformTicketsTypes
    BY DEF T!Init, PlatformTicketsTypes
  <1> QED BY <1>1, IdleIsIdle
          DEF T!Init, PlatformTicketsIInv, OnePerPnr, CancelsTheirs, T!TicketsAreTheirs

LEMMA PlatformTicketsNextIInv == PlatformTicketsIInv /\ [T!Next]_T!vars => PlatformTicketsIInv'
  <1> SUFFICES ASSUME PlatformTicketsIInv, [T!Next]_T!vars PROVE PlatformTicketsIInv'
    OBVIOUS
  <1>1. CASE UNCHANGED T!vars
    BY <1>1
    DEF T!vars, PlatformTicketsIInv, PlatformTicketsTypes, OnePerPnr, CancelsTheirs, Means,
        T!TicketsAreTheirs
  <1>2. ASSUME NEW c \in Calls, NEW u \in Users,
               T!BookPlatformTicket(c, u) \/ T!BookUnreservedTicket(c, u)
        PROVE  PlatformTicketsIInv'
    BY <1>2, StartIInv
  <1>3. ASSUME NEW c \in Calls, NEW u \in Users, NEW p \in Pnrs, T!CancelTicket(c, u, p)
        PROVE  PlatformTicketsIInv'
    BY <1>3, StartCancelIInv
  <1>4. ASSUME NEW c \in Calls, T!BookingFails(c) \/ T!CancelFails(c) PROVE PlatformTicketsIInv'
    BY <1>4, PlatformTicketsFailsIInv
  <1>5. ASSUME NEW c \in Calls, T!Inserted(c) PROVE PlatformTicketsIInv'
    BY <1>5, InsertedIInv
  <1>6. ASSUME NEW c \in Calls, T!Cancelled(c) PROVE PlatformTicketsIInv'
    BY <1>6, CancelledIInv
  <1> QED BY <1>1, <1>2, <1>3, <1>4, <1>5, <1>6 DEF T!Next

\* A PNR a user was told shows that user's ticket, cancelled if the user was
\* told so, and no cancellation hits a ticket of somebody else
\* (platform-ticket.service.ts 129-155).
THEOREM TicketsStayTheirs == T!Spec => [](T!TypeOK /\ T!TicketsAreTheirs)
  <1>1. T!Spec => []PlatformTicketsIInv
    BY PlatformTicketsInitIInv, PlatformTicketsNextIInv, PTL DEF T!Spec
  <1>2. PlatformTicketsIInv => T!TypeOK /\ T!TicketsAreTheirs
    BY DEF PlatformTicketsIInv, PlatformTicketsTypes, T!TypeOK, T!TicketsAreTheirs
  <1> QED BY <1>1, <1>2, PTL
-----------------------------------------------------------------------------
\* The instance's own copy of a library operator is that operator.
LEMMA BalancesSets == \A S : B!IsFiniteSet(S) <=> IsFiniteSet(S)
  BY DEF B!IsFiniteSet, IsFiniteSet

LEMMA BalancesAssumed == B!BalancesAssumption
  BY PartsAssumption DEF PartsAssumption
\* What MapThenSumSet is: the sum of the calls' amounts over a set of calls.
SumRec(f, S, t) == t = [s \in SUBSET S |-> IF s = {} THEN 0
                         ELSE LET x == CHOOSE x \in s : TRUE IN f[x].n + t[s \ {x}]]
BalancesTotal(f, S) == (CHOOSE t : SumRec(f, S, t))[S]

\* t adds up f over the subsets of S.
Adds(t, f, S) ==
  /\ t \in [SUBSET S -> Int] /\ t[{}] = 0
  /\ \A k \in S : f[k].n \in Int
  /\ \A Ts \in SUBSET S, k \in S : k \notin Ts => t[Ts \cup {k}] = t[Ts] + f[k].n
\* A property of the empty set that sets keep when they get one more is one of
\* every finite set: there is no least set without it.
LEMMA LeastSet ==
  ASSUME NEW S, IsFiniteSet(S), NEW Bad \in SUBSET SUBSET S, Bad # {}
  PROVE  \E Ts \in Bad : \A U \in Bad : ~(U \subseteq Ts /\ U # Ts)
  <1>1. IsWellFoundedOn(StrictSubsetOrdering(S), SUBSET S)
    BY FS_StrictSubsetOrderingWellFounded, FS_FiniteSubsetsOfFinite
  <1>2. \E Ts \in Bad : \A U \in Bad : ~(<<U, Ts>> \in StrictSubsetOrdering(S))
    <2> DEFINE Rs == StrictSubsetOrdering(S)
               PS == SUBSET S
    <2>1. IsWellFoundedOn(Rs, PS) /\ Bad \subseteq PS /\ Bad # {}
      BY <1>1
    <2> HIDE DEF Rs, PS
    <2>2. \E Ts \in Bad : \A U \in Bad : ~(<<U, Ts>> \in Rs)
      BY <2>1, WFMin
    <2> QED BY <2>2 DEF Rs
  <1>3. PICK Ts \in Bad : \A U \in Bad : ~(<<U, Ts>> \in StrictSubsetOrdering(S))
    BY <1>2
  <1>4. ASSUME NEW U \in Bad, U \subseteq Ts, U # Ts PROVE FALSE
    <2>1. U \in SUBSET S /\ Ts \in SUBSET S
      OBVIOUS
    <2>2. <<U, Ts>> \in StrictSubsetOrdering(S)
      BY <1>4, <2>1 DEF StrictSubsetOrdering
    <2> QED BY <1>3, <2>2
  <1> QED BY <1>4

LEMMA AddsUp ==
  ASSUME NEW S, IsFiniteSet(S), NEW f, \A k \in S : f[k].n \in Int
  PROVE  \E t : Adds(t, f, S)
  <1> DEFINE Bad == {Ts \in SUBSET S : ~\E t : Adds(t, f, Ts)}
  <1> SUFFICES ASSUME Bad # {} PROVE FALSE
    OBVIOUS
  <1>1. Bad \in SUBSET SUBSET S
    OBVIOUS
  <1>a. \E Ts \in Bad : \A U \in Bad : ~(U \subseteq Ts /\ U # Ts)
    <2> HIDE DEF Bad
    <2> QED BY <1>1, LeastSet
  <1>2. PICK Ts \in Bad : \A U \in Bad : ~(U \subseteq Ts /\ U # Ts)
    BY <1>a
  <1>3. Ts \subseteq S /\ ~\E t : Adds(t, f, Ts)
    OBVIOUS
  <1>4. Ts # {}
    <2> SUFFICES ASSUME Ts = {} PROVE FALSE
      OBVIOUS
    <2> DEFINE t == [U \in SUBSET Ts |-> 0]
    <2>1. t \in [SUBSET Ts -> Int] /\ t[{}] = 0
      OBVIOUS
    <2> HIDE DEF t
    <2>2. Adds(t, f, Ts)
      BY <1>3, <2>1 DEF Adds
    <2> QED BY <1>3, <2>2
  <1>5. PICK k \in Ts : TRUE
    BY <1>4
  <1> DEFINE Rs == Ts \ {k}
  <1>6. Rs \notin Bad /\ Rs \subseteq S
    BY <1>2, <1>5
  <1>7. PICK r : Adds(r, f, Rs)
    BY <1>6
  <1> DEFINE t == [U \in SUBSET Ts |-> IF k \in U THEN r[U \ {k}] + f[k].n ELSE r[U]]
  <1>8. f[k].n \in Int /\ \A V \in SUBSET Rs : r[V] \in Int
    BY <1>3, <1>5, <1>7 DEF Adds
  <1>9. \A U \in SUBSET Ts : U \ {k} \in SUBSET Rs /\ (k \notin U => U \in SUBSET Rs)
    OBVIOUS
  <1>10. t \in [SUBSET Ts -> Int]
    BY <1>8, <1>9
  <1>11. t[{}] = 0
    BY <1>7 DEF Adds
  <1>12. ASSUME NEW U \in SUBSET Ts, NEW j \in Ts, j \notin U PROVE t[U \cup {j}] = t[U] + f[j].n
    <2>0. U \cup {j} \in SUBSET Ts
      OBVIOUS
    <2>1. CASE j = k
      <3>1. t[U \cup {j}] = r[(U \cup {j}) \ {k}] + f[k].n /\ t[U] = r[U]
        BY <1>12, <2>0, <2>1
      <3>2. (U \cup {j}) \ {k} = U
        BY <1>12, <2>1
      <3> QED BY <2>1, <3>1, <3>2
    <2>2. CASE j # k /\ k \in U
      <3>1. t[U \cup {j}] = r[(U \cup {j}) \ {k}] + f[k].n /\ t[U] = r[U \ {k}] + f[k].n
        BY <2>0, <2>2
      <3>2. (U \cup {j}) \ {k} = (U \ {k}) \cup {j} /\ j \in Rs /\ j \notin U \ {k} /\ U \ {k} \in SUBSET Rs
        BY <1>9, <1>12, <2>2
      <3>3. r[(U \ {k}) \cup {j}] = r[U \ {k}] + f[j].n
        BY <1>7, <3>2 DEF Adds
      <3>4. r[U \ {k}] \in Int /\ f[j].n \in Int /\ f[k].n \in Int
        BY <1>3, <1>8, <3>2
      <3>5. t[U \cup {j}] = (r[U \ {k}] + f[j].n) + f[k].n
        BY <3>1, <3>2, <3>3
      <3> HIDE DEF t, Rs
      <3> QED BY <3>1, <3>4, <3>5
    <2>3. CASE j # k /\ k \notin U
      <3>1. t[U \cup {j}] = r[U \cup {j}] /\ t[U] = r[U]
        BY <2>0, <2>3
      <3>2. j \in Rs /\ U \in SUBSET Rs
        BY <2>3
      <3> QED BY <1>7, <1>12, <3>1, <3>2 DEF Adds
    <2> QED BY <2>1, <2>2, <2>3
  <1> HIDE DEF t
  <1>13. Adds(t, f, Ts)
    BY <1>3, <1>10, <1>11, <1>12 DEF Adds
  <1> QED BY <1>3, <1>13

\* The fold over a set is what adds up.
LEMMA TotalIs ==
  ASSUME NEW S, IsFiniteSet(S), NEW f, NEW t, Adds(t, f, S)
  PROVE  BalancesTotal(f, S) = t[S]
  <1>1. SumRec(f, S, t)
    <2> DEFINE g == [s \in SUBSET S |-> IF s = {} THEN 0
                       ELSE LET x == CHOOSE x \in s : TRUE IN f[x].n + t[s \ {x}]]
    <2>1. ASSUME NEW s \in SUBSET S PROVE t[s] = g[s]
      <3>1. CASE s = {}
        BY <3>1 DEF Adds
      <3>2. CASE s # {}
        <4> DEFINE x == CHOOSE x \in s : TRUE
        <4>1. x \in s
          BY <3>2
        <4>2. g[s] = f[x].n + t[s \ {x}]
          BY <3>2
        <4> HIDE DEF x, g
        <4>3. (s \ {x}) \cup {x} = s /\ s \ {x} \in SUBSET S /\ x \in S
          BY <4>1
        <4> DEFINE r == s \ {x}
        <4>4. r \in SUBSET S /\ x \in S /\ x \notin r /\ r \cup {x} = s
          BY <4>3
        <4> HIDE DEF r
        <4>5. t[r \cup {x}] = t[r] + f[x].n /\ t[r] \in Int /\ t[r \cup {x}] \in Int
          BY <4>4 DEF Adds
        <4>6. f[x].n \in Int
          BY <4>4 DEF Adds
        <4>7. t[s] = t[r] + f[x].n /\ g[s] = f[x].n + t[r]
          BY <4>2, <4>4, <4>5 DEF r
        <4>8. t[r] + f[x].n = f[x].n + t[r]
          BY <4>5, <4>6
        <4> QED BY <4>7, <4>8
      <3> QED BY <3>1, <3>2
    <2>2. t \in [SUBSET S -> Int]
      BY DEF Adds
    <2>3. DOMAIN t = SUBSET S /\ DOMAIN g = SUBSET S
      BY <2>2
    <2>4. t = g
      BY <2>1, <2>2, <2>3
    <2> QED BY <2>4 DEF SumRec
  <1> DEFINE i == CHOOSE i : SumRec(f, S, i)
  <1>2. SumRec(f, S, i)
    BY <1>1
  <1> HIDE DEF i
  <1> DEFINE Bad == {Ts \in SUBSET S : i[Ts] # t[Ts]}
  <1>3. ASSUME Bad # {} PROVE FALSE
    <2>a. Bad \in SUBSET SUBSET S
      OBVIOUS
    <2>b. \E Ts \in Bad : \A U \in Bad : ~(U \subseteq Ts /\ U # Ts)
      <3> HIDE DEF Bad
      <3> QED BY <1>3, <2>a, LeastSet
    <2>1. PICK Ts \in Bad : \A U \in Bad : ~(U \subseteq Ts /\ U # Ts)
      BY <2>b
    <2>2. Ts \in SUBSET S /\ i[Ts] # t[Ts]
      OBVIOUS
    <2>3. Ts # {}
      <3>1. Ts = {} => i[Ts] = 0 /\ t[Ts] = 0
        BY <1>1, <1>2, <2>2 DEF SumRec
      <3> QED BY <2>2, <3>1
    <2> DEFINE x == CHOOSE x \in Ts : TRUE
    <2>4. x \in Ts
      BY <2>3
    <2>5. i[Ts] = f[x].n + i[Ts \ {x}] /\ t[Ts] = f[x].n + t[Ts \ {x}]
      <3>1. ASSUME NEW u, SumRec(f, S, u) PROVE u[Ts] = f[x].n + u[Ts \ {x}]
        BY <2>2, <2>3, <3>1 DEF SumRec
      <3> QED BY <1>1, <1>2, <3>1
    <2> HIDE DEF x
    <2>6. Ts \ {x} \in SUBSET S /\ Ts \ {x} \subseteq Ts /\ Ts \ {x} # Ts
      BY <2>2, <2>4
    <2>7. i[Ts \ {x}] = t[Ts \ {x}]
      BY <2>1, <2>6
    <2> QED BY <2>2, <2>5, <2>7
  <1>4. i[S] = t[S]
    <2>1. S \in SUBSET S
      OBVIOUS
    <2> QED BY <1>3, <2>1
  <1> QED BY <1>4 DEF BalancesTotal, i
LEMMA TotalOfPart ==
  ASSUME NEW S, IsFiniteSet(S), NEW f, NEW t, Adds(t, f, S), NEW Rs \in SUBSET S
  PROVE  BalancesTotal(f, Rs) = t[Rs] /\ t[Rs] \in Int
  <1> DEFINE u == [U \in SUBSET Rs |-> t[U]]
  <1>1. IsFiniteSet(Rs)
    BY FS_Subset
  <1>2. Rs \in SUBSET Rs /\ SUBSET Rs \subseteq SUBSET S /\ {} \in SUBSET Rs
    OBVIOUS
  <1>3. u \in [SUBSET Rs -> Int] /\ \A U \in SUBSET Rs : u[U] = t[U]
    BY <1>2 DEF Adds
  <1>4. ASSUME NEW Ts \in SUBSET Rs, NEW k \in Rs, k \notin Ts PROVE u[Ts \cup {k}] = u[Ts] + f[k].n
    <2>1. Ts \cup {k} \in SUBSET Rs /\ Ts \in SUBSET S /\ k \in S
      OBVIOUS
    <2>2. t[Ts \cup {k}] = t[Ts] + f[k].n
      BY <1>4, <2>1 DEF Adds
    <2> QED BY <1>3, <2>1, <2>2
  <1>5. u[{}] = 0 /\ \A k \in Rs : f[k].n \in Int
    BY <1>2, <1>3 DEF Adds
  <1> HIDE DEF u
  <1>6. Adds(u, f, Rs)
    BY <1>3, <1>4, <1>5 DEF Adds
  <1>7. BalancesTotal(f, Rs) = u[Rs]
    BY <1>1, <1>6, TotalIs
  <1> QED BY <1>2, <1>3, <1>7

LEMMA TotalAdd ==
  ASSUME NEW S, IsFiniteSet(S), NEW f, \A k \in S : f[k].n \in Int, NEW j \in S
  PROVE  /\ BalancesTotal(f, S) = BalancesTotal(f, S \ {j}) + f[j].n
         /\ BalancesTotal(f, S) \in Int /\ BalancesTotal(f, S \ {j}) \in Int
  <1>1. PICK t : Adds(t, f, S)
    BY AddsUp
  <1> DEFINE Rs == S \ {j}
  <1>2. Rs \in SUBSET S /\ S \in SUBSET S /\ j \notin Rs /\ Rs \cup {j} = S
    OBVIOUS
  <1> HIDE DEF Rs
  <1>3. BalancesTotal(f, S) = t[S] /\ t[S] \in Int
    BY <1>1, <1>2, TotalOfPart
  <1>4. BalancesTotal(f, Rs) = t[Rs] /\ t[Rs] \in Int
    BY <1>1, <1>2, TotalOfPart
  <1>5. t[Rs \cup {j}] = t[Rs] + f[j].n
    BY <1>1, <1>2 DEF Adds
  <1>6. BalancesTotal(f, S) = BalancesTotal(f, Rs) + f[j].n
    BY <1>2, <1>3, <1>4, <1>5
  <1> QED BY <1>3, <1>4, <1>6 DEF Rs

LEMMA TotalInt ==
  ASSUME NEW S, IsFiniteSet(S), NEW f, \A k \in S : f[k].n \in Int
  PROVE  BalancesTotal(f, S) \in Int /\ (S = {} => BalancesTotal(f, S) = 0)
  <1>1. PICK t : Adds(t, f, S)
    BY AddsUp
  <1>2. S \in SUBSET S
    OBVIOUS
  <1>3. BalancesTotal(f, S) = t[S] /\ t[S] \in Int
    BY <1>1, <1>2, TotalOfPart
  <1> QED BY <1>1, <1>3 DEF Adds

LEMMA TotalSame ==
  ASSUME NEW S, IsFiniteSet(S), NEW f, NEW g, \A k \in S : f[k].n \in Int,
         \A k \in S : g[k].n = f[k].n
  PROVE  BalancesTotal(g, S) = BalancesTotal(f, S)
  <1>1. PICK t : Adds(t, f, S)
    BY AddsUp
  <1>2. Adds(t, g, S)
    BY <1>1 DEF Adds
  <1>3. BalancesTotal(f, S) = t[S]
    BY <1>1, TotalIs
  <1>4. BalancesTotal(g, S) = t[S]
    BY <1>2, TotalIs
  <1> QED BY <1>3, <1>4

\* The calls of c at one of the statements P, and what a call there writes.
At(Cs, c, Ps) == {k \in Cs : c[k].pc \in Ps}
Writes(x, Ps) == IF x.pc \in Ps THEN x.n ELSE 0

Moved(Cs, c, d, Ps, j) ==
  /\ BalancesTotal(c, At(Cs, c, Ps)) \in Int
  /\ BalancesTotal(d, At(Cs, d, Ps)) = BalancesTotal(c, At(Cs, c, Ps)) - Writes(c[j], Ps) + Writes(d[j], Ps)

LEMMA TotalMoves ==
  ASSUME NEW Cs, IsFiniteSet(Cs), NEW c, NEW d, NEW Ps, NEW j \in Cs,
         \A k \in Cs : c[k].pc \in Ps => c[k].n \in Int,
         d[j].pc \in Ps => d[j].n \in Int,
         \A k \in Cs \ {j} : d[k] = c[k]
  PROVE  Moved(Cs, c, d, Ps, j)
  <1> DEFINE Sc == At(Cs, c, Ps)
             Sd == At(Cs, d, Ps)
             Rs == Sc \ {j}
  <1>1. Sc \subseteq Cs /\ Sd \subseteq Cs /\ Rs \subseteq Cs
    BY DEF At
  <1>2. IsFiniteSet(Sc) /\ IsFiniteSet(Sd) /\ IsFiniteSet(Rs)
    BY <1>1, FS_Subset
  <1>3. \A k \in Sc : c[k].n \in Int
    BY DEF At
  <1>4. \A k \in Sd : d[k].n \in Int
    BY DEF At
  <1>5. Sd \ {j} = Rs
    BY DEF At
  <1>6. \A k \in Rs : c[k].n \in Int /\ d[k].n = c[k].n
    BY <1>3 DEF At
  <1>7. j \in Sc <=> c[j].pc \in Ps
    BY DEF At
  <1>8. j \in Sd <=> d[j].pc \in Ps
    BY DEF At
  <1>9. (j \notin Sc => Sc = Rs) /\ (j \notin Sd => Sd = Rs)
    BY <1>5
  <1>10. Rs = Sc \ {j}
    OBVIOUS
  <1> HIDE DEF Sc, Sd, Rs
  <1>11. BalancesTotal(d, Rs) = BalancesTotal(c, Rs) /\ BalancesTotal(c, Rs) \in Int
    BY <1>2, <1>6, TotalSame, TotalInt
  <1>12. BalancesTotal(c, Sc) \in Int /\ BalancesTotal(c, Sc) = BalancesTotal(c, Rs) + Writes(c[j], Ps)
    <2>1. CASE j \in Sc
      BY <1>2, <1>3, <1>7, <1>10, <2>1, TotalAdd DEF Writes
    <2>2. CASE j \notin Sc
      BY <1>7, <1>9, <1>11, <2>2 DEF Writes
    <2> QED BY <2>1, <2>2
  <1>13. BalancesTotal(d, Sd) = BalancesTotal(d, Rs) + Writes(d[j], Ps)
    <2>1. CASE j \in Sd
      BY <1>2, <1>4, <1>5, <1>8, <2>1, TotalAdd DEF Writes
    <2>2. CASE j \notin Sd
      BY <1>8, <1>9, <1>11, <2>2 DEF Writes
    <2> QED BY <2>1, <2>2
  <1>14. Writes(c[j], Ps) \in Int /\ Writes(d[j], Ps) \in Int
    BY DEF Writes
  <1>15. BalancesTotal(d, Sd) = BalancesTotal(c, Sc) - Writes(c[j], Ps) + Writes(d[j], Ps)
    <2> DEFINE a == BalancesTotal(c, Rs)
               b == Writes(c[j], Ps)
               e == Writes(d[j], Ps)
    <2>1. a \in Int /\ b \in Int /\ e \in Int /\ BalancesTotal(c, Sc) = a + b /\ BalancesTotal(d, Sd) = a + e
      BY <1>11, <1>12, <1>13, <1>14
    <2> HIDE DEF a, b, e
    <2>2. BalancesTotal(d, Sd) = BalancesTotal(c, Sc) - b + e
      BY <2>1
    <2> QED BY <2>2 DEF b, e
  <1> QED BY <1>12, <1>15 DEF Sc, Sd, Moved

Posting == {"tier", "note"}
Due == BalancesTotal(bCall, At(Calls, bCall, Posting))
Owed == BalancesTotal(bCall, At(Calls, bCall, {"credit"}))

LEMMA InFlightIs == B!InFlight({"tier", "note"}) = Due /\ B!InFlight({"credit"}) = Owed
  BY DEF B!InFlight, Due, Owed, At, Posting, BalancesTotal, SumRec, B!Ext!MapThenSumSet,
         B!Ext!MapThenFoldSet

LEMMA Shaped ==
  ASSUME NEW c \in B!CallShapes
  PROVE  /\ c.pc \in {"idle", "create", "read", "add", "tier", "note", "open", "pay", "credit"}
         /\ c.pc = "idle" => c = B!Idle
         /\ c.pc \in {"create", "read"} =>
              c \in [pc : {"create", "read"}, kind : {"earn", "redeem"}, n : Amounts]
         /\ c.pc \in {"add", "tier", "note"} =>
              \/ c \in [pc : {"add", "tier", "note"}, kind : {"earn"}, n : Nat, read : B!AccountRecord]
              \/ c \in [pc : {"add", "note"}, kind : {"redeem"}, n : Int, read : B!AccountRecord]
         /\ c.pc \in {"open", "pay", "credit"} =>
              c \in [pc : {"open", "pay", "credit"}, kind : {"topup"}, n : Amounts]
  BY DEF B!CallShapes, B!Idle

LEMMA Moves ==
  ASSUME bCall \in [Calls -> B!CallShapes], NEW k \in Calls, NEW r \in B!CallShapes, B!Goto(k, r)
  PROVE  /\ bCall' \in [Calls -> B!CallShapes] /\ bCall'[k] = r
         /\ \A j \in Calls : j # k => bCall'[j] = bCall[j]
         /\ Due \in Int /\ Owed \in Int
         /\ Due' = Due - Writes(bCall[k], Posting) + Writes(r, Posting)
         /\ Owed' = Owed - Writes(bCall[k], {"credit"}) + Writes(r, {"credit"})
  <1>1. IsFiniteSet(Calls) /\ Amounts \subseteq Nat
    BY BalancesAssumed, BalancesSets DEF B!BalancesAssumption
  <1>2. \A c \in B!CallShapes : c.pc \in Posting \cup {"credit"} => c.n \in Int
    <2> SUFFICES ASSUME NEW c \in B!CallShapes, c.pc \in {"tier", "note", "credit"} PROVE c.n \in Int
      BY DEF Posting
    <2>1. CASE c.pc \in {"tier", "note"}
      BY <2>1, Shaped
    <2>2. CASE c.pc = "credit"
      <3>1. c.n \in Amounts
        BY <2>2, Shaped
      <3>2. c.n \in Nat
        BY <1>1, <3>1
      <3> QED BY <3>2
    <2> QED BY <2>1, <2>2
  <1>3. /\ bCall' \in [Calls -> B!CallShapes] /\ bCall'[k] = r
        /\ \A j \in Calls : j # k => bCall'[j] = bCall[j]
    BY DEF B!Goto
  <1>4. PICK c : c = bCall
    OBVIOUS
  <1>5. PICK d : d = bCall'
    OBVIOUS
  <1>6. /\ \A j \in Calls : c[j].pc \in Posting \cup {"credit"} => c[j].n \in Int
        /\ d[k].pc \in Posting \cup {"credit"} => d[k].n \in Int
    BY <1>2, <1>3, <1>4, <1>5
  <1>7. \A j \in Calls \ {k} : d[j] = c[j]
    BY <1>3, <1>4, <1>5
  <1>8. /\ Due = BalancesTotal(c, At(Calls, c, Posting)) /\ Owed = BalancesTotal(c, At(Calls, c, {"credit"}))
        /\ Due' = BalancesTotal(d, At(Calls, d, Posting)) /\ Owed' = BalancesTotal(d, At(Calls, d, {"credit"}))
    BY <1>4, <1>5 DEF Due, Owed, At, Posting
  <1>9. c[k] = bCall[k] /\ d[k] = r
    BY <1>3, <1>4, <1>5
  <1>10. ASSUME NEW Ps, Ps \in {Posting, {"credit"}}
         PROVE  Moved(Calls, c, d, Ps, k)
    <2>1. \A j \in Calls : c[j].pc \in Ps => c[j].n \in Int
      BY <1>6, <1>10
    <2>2. d[k].pc \in Ps => d[k].n \in Int
      BY <1>6, <1>10
    <2> QED BY <1>1, <1>7, <2>1, <2>2, TotalMoves
  <1>11. Posting \in {Posting, {"credit"}} /\ {"credit"} \in {Posting, {"credit"}}
    OBVIOUS
  <1>12. Due \in Int /\ Due' = Due - Writes(bCall[k], Posting) + Writes(r, Posting)
    BY <1>8, <1>9, <1>10, <1>11 DEF Moved
  <1>13. Owed \in Int /\ Owed' = Owed - Writes(bCall[k], {"credit"}) + Writes(r, {"credit"})
    BY <1>8, <1>9, <1>10, <1>11 DEF Moved
  <1> QED BY <1>3, <1>12, <1>13

LEMMA Carried ==
  ASSUME NEW a \in Int, NEW b \in Int, NEW c \in Int, NEW n \in Int
  PROVE  a + b + c = a + (b - n) + (c + n) /\ (a + b + c = 0 => n = a + (b + n) + c)
  OBVIOUS

Redeems(j) == bCall[j].pc # "idle" /\ bCall[j].kind = "redeem"

\* Redemptions that do not overlap find the points they have read.
Afforded ==
  ~bRaced => /\ account.points >= 0
             /\ \A i, j \in Calls : Redeems(i) /\ Redeems(j) => i = j
             /\ \A j \in Calls : bCall[j].pc = "add" /\ bCall[j].kind = "redeem" =>
                  account.points + bCall[j].n >= 0

PointsSum == account.points = ledger + Due + lost.points

WalletSum ==
  /\ Len(wallets) = 0 => credits + Owed + lost.wallet = 0
  /\ Len(wallets) = 1 => wallets[1] = credits + Owed + lost.wallet
  /\ \A j \in Calls : bCall[j].pc = "pay" => Len(wallets) > 0

Accounts ==
  /\ account.exists \/ account = B!NoAccount
  /\ \A j \in Calls : bCall[j].pc \in {"read", "add", "tier", "note"} => account.exists

BalancesIInv == B!TypeOK /\ Accounts /\ PointsSum /\ WalletSum /\ Afforded

LEMMA BalancesInitIInv == B!Init => BalancesIInv
  <1> SUFFICES ASSUME B!Init PROVE BalancesIInv
    OBVIOUS
  <1>1. B!TypeOK
    <2>1. account \in B!AccountRecord /\ ledger \in Int /\ credits \in Int
          /\ lost \in [points : Int, wallet : Int] /\ wallets \in Seq(Nat)
      BY DEF B!Init, B!NoAccount, B!AccountRecord
    <2>2. bCall \in [Calls -> B!CallShapes] /\ calls \in 0..MaxCalls
      BY BalancesAssumed DEF B!Init, B!CallShapes, B!BalancesAssumption
    <2>3. bRaced \in BOOLEAN
      BY DEF B!Init
    <2> QED BY <2>1, <2>2, <2>3 DEF B!TypeOK
  <1>2. Due = 0 /\ Owed = 0
    <2>1. At(Calls, bCall, Posting) = {} /\ At(Calls, bCall, {"credit"}) = {}
      BY DEF B!Init, At, Posting, B!Idle
    <2>2. IsFiniteSet({}) /\ \A k \in {} : bCall[k].n \in Int
      BY FS_EmptySet
    <2>3. BalancesTotal(bCall, {}) = 0
      BY <2>2, TotalInt
    <2> QED BY <2>1, <2>3 DEF Due, Owed
  <1>3. \A j \in Calls : bCall[j].pc = "idle"
    BY DEF B!Init, B!Idle
  <1> QED BY <1>1, <1>2, <1>3
      DEF B!Init, BalancesIInv, Accounts, PointsSum, WalletSum, Afforded, B!NoAccount, Redeems

LEMMA BalancesNextIInv == BalancesIInv /\ [B!Next]_B!vars => BalancesIInv'
  <1> SUFFICES ASSUME BalancesIInv, [B!Next]_B!vars PROVE BalancesIInv'
    OBVIOUS
  <1> USE DEF Posting
  <1>0. /\ account \in B!AccountRecord /\ ledger \in Int /\ credits \in Int
        /\ lost \in [points : Int, wallet : Int] /\ wallets \in Seq(Nat)
        /\ bCall \in [Calls -> B!CallShapes] /\ calls \in 0..MaxCalls
    BY DEF BalancesIInv, B!TypeOK
  <1>a. bRaced \in BOOLEAN
    BY DEF BalancesIInv, B!TypeOK
  <1>b. Accounts /\ PointsSum /\ WalletSum /\ Afforded
    BY DEF BalancesIInv
  <1>c. Amounts \subseteq Nat \ {0} /\ MaxCalls \in Nat /\ Silver \in Nat
    BY BalancesAssumed DEF B!BalancesAssumption
  <1>d. B!Idle \in B!CallShapes /\ B!Idle.pc = "idle"
    BY DEF B!CallShapes, B!Idle
  <1>e. account.points \in Int /\ account.exists \in BOOLEAN /\ account.lifetime \in Nat
        /\ account.tier \in {"BRONZE", "SILVER"} /\ lost.points \in Int /\ lost.wallet \in Int
    BY <1>0 DEF B!AccountRecord
  <1>1. ASSUME NEW k \in Calls, NEW a \in Amounts, NEW kind \in {"earn", "redeem"},
               B!StartPoints(k, kind, a)
        PROVE  BalancesIInv'
    <2> DEFINE r == [pc |-> IF account.exists THEN "read" ELSE "create", kind |-> kind, n |-> a]
    <2>1. r \in B!CallShapes /\ r.pc \in {"read", "create"} /\ r.kind = kind
          /\ (r.pc = "read" => account.exists)
      BY DEF B!CallShapes
    <2> HIDE DEF r
    <2>2. B!Goto(k, r) /\ bCall[k].pc = "idle" /\ calls < MaxCalls /\ calls' = calls + 1
      BY <1>1 DEF B!StartPoints, B!Started, r
    <2>3. UNCHANGED <<account, ledger, wallets, credits, lost>>
      BY <1>1 DEF B!StartPoints
    <2>4. /\ bCall' \in [Calls -> B!CallShapes] /\ bCall'[k] = r
          /\ \A j \in Calls : j # k => bCall'[j] = bCall[j]
          /\ Due \in Int /\ Owed \in Int
          /\ Due' = Due - Writes(bCall[k], Posting) + Writes(r, Posting)
          /\ Owed' = Owed - Writes(bCall[k], {"credit"}) + Writes(r, {"credit"})
      BY <1>0, <2>1, <2>2, Moves
    <2>5. Due' = Due /\ Owed' = Owed
      BY <2>1, <2>2, <2>4 DEF Writes
    <2>6. bRaced' = (bRaced \/ (kind = "redeem" /\ \E j \in Calls : Redeems(j)))
      BY <1>1 DEF B!StartPoints, Redeems
    <2>7. bRaced' \in BOOLEAN
      BY <1>a, <2>6
    <2>8. calls' \in 0..MaxCalls
      BY <1>0, <1>c, <2>2
    <2>9. B!TypeOK'
      BY <1>0, <2>3, <2>4, <2>7, <2>8 DEF B!TypeOK
    <2>10. Accounts'
      BY <1>b, <2>1, <2>3, <2>4 DEF Accounts
    <2>11. PointsSum' /\ WalletSum'
      BY <1>b, <2>1, <2>3, <2>4, <2>5 DEF PointsSum, WalletSum
    <2>12. Afforded'
      <3> SUFFICES ASSUME ~bRaced' PROVE Afforded'
        BY DEF Afforded
      <3>1. ~bRaced /\ (kind = "redeem" => \A j \in Calls : ~Redeems(j))
        BY <2>6
      <3>2. /\ account.points >= 0
            /\ \A i, j \in Calls : Redeems(i) /\ Redeems(j) => i = j
            /\ \A j \in Calls : bCall[j].pc = "add" /\ bCall[j].kind = "redeem" =>
                 account.points + bCall[j].n >= 0
        BY <1>b, <3>1 DEF Afforded
      <3>3. \A i, j \in Calls : Redeems(i)' /\ Redeems(j)' => i = j
        BY <2>1, <2>4, <3>1, <3>2 DEF Redeems
      <3>4. \A j \in Calls : bCall'[j].pc = "add" /\ bCall'[j].kind = "redeem" =>
                 account.points + bCall'[j].n >= 0
        BY <2>1, <2>4, <3>2
      <3> QED BY <2>3, <3>2, <3>3, <3>4 DEF Afforded
    <2> QED BY <2>9, <2>10, <2>11, <2>12 DEF BalancesIInv
  <1>2. ASSUME NEW k \in Calls, NEW a \in Amounts, B!StartTopUp(k, a) PROVE BalancesIInv'
    <2> DEFINE r == [pc |-> IF wallets = <<>> THEN "open" ELSE "pay", kind |-> "topup", n |-> a]
    <2>1. r \in B!CallShapes /\ r.pc \in {"open", "pay"} /\ r.kind = "topup"
          /\ (r.pc = "pay" => wallets # <<>>)
      BY DEF B!CallShapes
    <2> HIDE DEF r
    <2>2. B!Goto(k, r) /\ bCall[k].pc = "idle" /\ calls < MaxCalls /\ calls' = calls + 1
      BY <1>2 DEF B!StartTopUp, B!Started, r
    <2>3. UNCHANGED <<account, ledger, wallets, credits, lost, bRaced>>
      BY <1>2 DEF B!StartTopUp
    <2>4. /\ bCall' \in [Calls -> B!CallShapes] /\ bCall'[k] = r
          /\ \A j \in Calls : j # k => bCall'[j] = bCall[j]
          /\ Due \in Int /\ Owed \in Int
          /\ Due' = Due - Writes(bCall[k], Posting) + Writes(r, Posting)
          /\ Owed' = Owed - Writes(bCall[k], {"credit"}) + Writes(r, {"credit"})
      BY <1>0, <2>1, <2>2, Moves
    <2>5. Due' = Due /\ Owed' = Owed
      BY <2>1, <2>2, <2>4 DEF Writes
    <2>8. calls' \in 0..MaxCalls
      BY <1>0, <1>c, <2>2
    <2>9. B!TypeOK'
      BY <1>0, <1>a, <2>3, <2>4, <2>8 DEF B!TypeOK
    <2>10. Accounts'
      BY <1>b, <2>1, <2>3, <2>4 DEF Accounts
    <2>11. PointsSum'
      BY <1>b, <2>3, <2>5 DEF PointsSum
    <2>12. WalletSum'
      <3>1. r.pc = "pay" => Len(wallets) > 0
        BY <1>0, <2>1
      <3> QED BY <1>b, <2>3, <2>4, <2>5, <3>1 DEF WalletSum
    <2>13. Afforded'
      BY <1>b, <2>1, <2>2, <2>3, <2>4 DEF Afforded, Redeems
    <2> QED BY <2>9, <2>10, <2>11, <2>12, <2>13 DEF BalancesIInv
  <1>3. ASSUME NEW k \in Calls, B!CreateAccount(k) PROVE BalancesIInv'
    <2>1. bCall[k].pc = "create" /\ UNCHANGED <<ledger, wallets, credits, calls, lost, bRaced>>
          /\ bCall[k] \in B!CallShapes
      BY <1>0, <1>3 DEF B!CreateAccount
    <2>2. bCall[k] \in [pc : {"create", "read"}, kind : {"earn", "redeem"}, n : Amounts]
      BY <2>1, Shaped
    <2>3. PICK r \in B!CallShapes :
            /\ B!Goto(k, r)
            /\ \/ account.exists /\ account' = account /\ r.pc = "idle"
               \/ /\ ~account.exists /\ account' = [B!NoAccount EXCEPT !.exists = TRUE]
                  /\ r.pc = "read" /\ r.kind = bCall[k].kind
      <3>1. CASE account.exists
        BY <1>3, <1>d, <3>1 DEF B!CreateAccount
      <3>2. CASE ~account.exists
        <4> DEFINE r == [bCall[k] EXCEPT !.pc = "read"]
        <4>1. r \in B!CallShapes /\ r.pc = "read" /\ r.kind = bCall[k].kind
          BY <2>2 DEF B!CallShapes
        <4>2. B!Goto(k, r) /\ account' = [B!NoAccount EXCEPT !.exists = TRUE]
          BY <1>3, <3>2 DEF B!CreateAccount
        <4> HIDE DEF r
        <4> QED BY <3>2, <4>1, <4>2
      <3> QED BY <3>1, <3>2
    <2>4. /\ bCall' \in [Calls -> B!CallShapes] /\ bCall'[k] = r
          /\ \A j \in Calls : j # k => bCall'[j] = bCall[j]
          /\ Due \in Int /\ Owed \in Int
          /\ Due' = Due - Writes(bCall[k], Posting) + Writes(r, Posting)
          /\ Owed' = Owed - Writes(bCall[k], {"credit"}) + Writes(r, {"credit"})
      BY <1>0, <2>2, <2>3, Moves
    <2>5. Due' = Due /\ Owed' = Owed
      BY <2>1, <2>3, <2>4 DEF Writes
    <2>6. account' \in B!AccountRecord /\ account'.points = account.points
          /\ (account'.exists \/ account' = B!NoAccount) /\ (account.exists => account'.exists)
          /\ (r.pc = "read" => account'.exists)
      BY <1>0, <1>b, <2>3 DEF Accounts, B!NoAccount, B!AccountRecord
    <2>9. B!TypeOK'
      BY <1>0, <1>a, <2>1, <2>4, <2>6 DEF B!TypeOK
    <2>10. Accounts'
      BY <1>b, <2>3, <2>4, <2>6 DEF Accounts
    <2>11. PointsSum' /\ WalletSum'
      BY <1>b, <2>1, <2>3, <2>4, <2>5, <2>6 DEF PointsSum, WalletSum
    <2>12. Afforded'
      BY <1>b, <2>1, <2>3, <2>4, <2>6 DEF Afforded, Redeems
    <2> QED BY <2>9, <2>10, <2>11, <2>12 DEF BalancesIInv
  <1>4. ASSUME NEW k \in Calls, B!ReadAccount(k) PROVE BalancesIInv'
    <2>1. bCall[k].pc = "read" /\ UNCHANGED <<account, ledger, wallets, credits, calls, lost, bRaced>>
          /\ bCall[k] \in B!CallShapes
      BY <1>0, <1>4 DEF B!ReadAccount
    <2>2. bCall[k] \in [pc : {"create", "read"}, kind : {"earn", "redeem"}, n : Amounts]
      BY <2>1, Shaped
    <2>a. bCall[k].n \in Nat /\ account.exists
      BY <1>b, <1>c, <2>1, <2>2 DEF Accounts
    <2>3. PICK r \in B!CallShapes :
            /\ B!Goto(k, r)
            /\ \/ r.pc = "idle"
               \/ r.pc = "add" /\ r.kind = "earn"
               \/ r.pc = "add" /\ r.kind = "redeem" /\ bCall[k].kind = "redeem"
                    /\ account.points + r.n >= 0
      <3>1. CASE bCall[k].kind = "earn"
        <4> DEFINE r == [pc |-> "add", kind |-> "earn", n |-> B!Earned(bCall[k].n, account.lifetime),
                         read |-> account]
        <4>1. B!Earned(bCall[k].n, account.lifetime) \in Nat
          BY <2>a DEF B!Earned
        <4>2. r \in [pc : {"add", "tier", "note"}, kind : {"earn"}, n : Nat, read : B!AccountRecord]
          BY <1>0, <4>1
        <4>3. B!Goto(k, r)
          BY <1>4, <3>1 DEF B!ReadAccount
        <4>4. r.pc = "add" /\ r.kind = "earn"
          OBVIOUS
        <4> HIDE DEF r
        <4> QED BY <4>2, <4>3, <4>4 DEF B!CallShapes
      <3>2. CASE bCall[k].kind # "earn" /\ account.points < bCall[k].n
        BY <1>4, <1>d, <3>2 DEF B!ReadAccount
      <3>3. CASE bCall[k].kind # "earn" /\ ~(account.points < bCall[k].n)
        <4> DEFINE r == [pc |-> "add", kind |-> "redeem", n |-> -bCall[k].n, read |-> account]
        <4>1. -bCall[k].n \in Int /\ account.points + (-bCall[k].n) >= 0
          BY <1>e, <2>a, <3>3
        <4>2. r \in [pc : {"add", "note"}, kind : {"redeem"}, n : Int, read : B!AccountRecord]
          BY <1>0, <4>1
        <4>3. B!Goto(k, r)
          BY <1>4, <3>3 DEF B!ReadAccount
        <4>4. r.pc = "add" /\ r.kind = "redeem" /\ account.points + r.n >= 0
          BY <4>1
        <4>5. bCall[k].kind = "redeem"
          BY <2>2, <3>3
        <4> HIDE DEF r
        <4> QED BY <4>2, <4>3, <4>4, <4>5 DEF B!CallShapes
      <3> QED BY <3>1, <3>2, <3>3
    <2>4. /\ bCall' \in [Calls -> B!CallShapes] /\ bCall'[k] = r
          /\ \A j \in Calls : j # k => bCall'[j] = bCall[j]
          /\ Due \in Int /\ Owed \in Int
          /\ Due' = Due - Writes(bCall[k], Posting) + Writes(r, Posting)
          /\ Owed' = Owed - Writes(bCall[k], {"credit"}) + Writes(r, {"credit"})
      BY <1>0, <2>2, <2>3, Moves
    <2>5. Due' = Due /\ Owed' = Owed
      BY <2>1, <2>3, <2>4 DEF Writes
    <2>9. B!TypeOK'
      BY <1>0, <1>a, <2>1, <2>4 DEF B!TypeOK
    <2>10. Accounts'
      BY <1>b, <2>1, <2>3, <2>4, <2>a DEF Accounts
    <2>11. PointsSum' /\ WalletSum'
      BY <1>b, <2>1, <2>3, <2>4, <2>5 DEF PointsSum, WalletSum
    <2>12. Afforded'
      BY <1>b, <2>1, <2>3, <2>4 DEF Afforded, Redeems
    <2> QED BY <2>9, <2>10, <2>11, <2>12 DEF BalancesIInv
  <1>5. ASSUME NEW k \in Calls, B!AddPoints(k) PROVE BalancesIInv'
    <2>1. bCall[k].pc = "add" /\ UNCHANGED <<ledger, wallets, credits, calls, lost, bRaced>>
          /\ bCall[k] \in B!CallShapes /\ bCall[k].n \in Int
          /\ bCall[k].kind \in {"earn", "redeem"} /\ (bCall[k].kind = "earn" => bCall[k].n \in Nat)
          /\ account.exists
      <3>1. bCall[k].pc = "add" /\ UNCHANGED <<ledger, wallets, credits, calls, lost, bRaced>>
            /\ bCall[k] \in B!CallShapes
        BY <1>0, <1>5 DEF B!AddPoints
      <3>2. account.exists
        BY <1>b, <3>1 DEF Accounts
      <3> QED BY <3>1, <3>2, Shaped
    <2> DEFINE r == [bCall[k] EXCEPT !.pc = IF bCall[k].kind = "earn" THEN "tier" ELSE "note"]
    <2>2. r \in B!CallShapes /\ r.pc \in Posting /\ r.n = bCall[k].n /\ r.kind = bCall[k].kind
      <3>1. CASE bCall[k] \in [pc : {"add", "tier", "note"}, kind : {"earn"}, n : Nat, read : B!AccountRecord]
        BY <3>1 DEF B!CallShapes
      <3>2. CASE bCall[k] \in [pc : {"add", "note"}, kind : {"redeem"}, n : Int, read : B!AccountRecord]
        BY <3>2 DEF B!CallShapes
      <3> QED BY <2>1, <3>1, <3>2, Shaped
    <2>3. B!Goto(k, r)
      BY <1>5 DEF B!AddPoints
    <2> HIDE DEF r
    <2>4. /\ bCall' \in [Calls -> B!CallShapes] /\ bCall'[k] = r
          /\ \A j \in Calls : j # k => bCall'[j] = bCall[j]
          /\ Due \in Int /\ Owed \in Int
          /\ Due' = Due - Writes(bCall[k], Posting) + Writes(r, Posting)
          /\ Owed' = Owed - Writes(bCall[k], {"credit"}) + Writes(r, {"credit"})
      BY <1>0, <2>2, <2>3, Moves
    <2>5. Due' = Due + bCall[k].n /\ Owed' = Owed
      BY <2>1, <2>2, <2>4 DEF Writes
    <2>6. account' \in B!AccountRecord /\ account'.points = account.points + bCall[k].n
          /\ account'.exists
      <3> DEFINE x == account.points + bCall[k].n
                 y == IF bCall[k].kind = "earn" THEN account.lifetime + bCall[k].n ELSE account.lifetime
      <3>1. x \in Int /\ y \in Nat
        BY <1>e, <2>1
      <3>2. account' = [account EXCEPT !.points = x, !.lifetime = y]
        BY <1>5 DEF B!AddPoints, B!PointsAfter
      <3> HIDE DEF x, y
      <3>3. account' \in B!AccountRecord /\ account'.points = x /\ account'.exists
        BY <1>0, <2>1, <3>1, <3>2 DEF B!AccountRecord
      <3> QED BY <3>3 DEF x
    <2>9. B!TypeOK'
      BY <1>0, <1>a, <2>1, <2>4, <2>6 DEF B!TypeOK
    <2>10. Accounts'
      BY <2>6 DEF Accounts
    <2>11. PointsSum'
      BY <1>b, <1>0, <1>e, <2>1, <2>4, <2>5, <2>6 DEF PointsSum
    <2>12. WalletSum'
      BY <1>b, <2>1, <2>2, <2>4, <2>5 DEF WalletSum
    <2>13. Afforded'
      <3> SUFFICES ASSUME ~bRaced' PROVE Afforded'
        BY DEF Afforded
      <3>1. /\ account.points >= 0
            /\ \A i, j \in Calls : Redeems(i) /\ Redeems(j) => i = j
            /\ \A j \in Calls : bCall[j].pc = "add" /\ bCall[j].kind = "redeem" =>
                 account.points + bCall[j].n >= 0
        BY <1>b, <2>1 DEF Afforded
      <3>2. \A i, j \in Calls : Redeems(i)' /\ Redeems(j)' => i = j
        BY <2>1, <2>2, <2>4, <3>1 DEF Redeems
      <3>3. CASE bCall[k].kind = "earn"
        <4>1. account'.points >= 0
          BY <1>e, <2>1, <2>6, <3>1, <3>3
        <4>2. ASSUME NEW j \in Calls, bCall'[j].pc = "add", bCall'[j].kind = "redeem"
              PROVE  account'.points + bCall'[j].n >= 0
          <5>1. j # k /\ bCall'[j] = bCall[j]
            BY <2>2, <2>4, <4>2
          <5>2. account.points + bCall[j].n >= 0 /\ bCall[j].n \in Int
            BY <1>0, <3>1, <4>2, <5>1, Shaped
          <5> QED BY <1>e, <2>1, <2>6, <3>3, <5>1, <5>2
        <4> QED BY <3>2, <4>1, <4>2 DEF Afforded
      <3>4. CASE bCall[k].kind = "redeem"
        <4>1. account'.points >= 0
          BY <2>1, <2>6, <3>1, <3>4
        <4>2. \A j \in Calls : ~(bCall'[j].pc = "add" /\ bCall'[j].kind = "redeem")
          BY <2>1, <2>2, <2>4, <3>1, <3>4 DEF Redeems
        <4> QED BY <3>2, <4>1, <4>2 DEF Afforded
      <3> QED BY <2>1, <3>3, <3>4
    <2> QED BY <2>9, <2>10, <2>11, <2>12, <2>13 DEF BalancesIInv
  <1>6. ASSUME NEW k \in Calls, B!SetTier(k) PROVE BalancesIInv'
    <2>1. bCall[k].pc = "tier" /\ UNCHANGED <<ledger, wallets, credits, calls, lost, bRaced>>
          /\ bCall[k] \in [pc : {"add", "tier", "note"}, kind : {"earn"}, n : Nat, read : B!AccountRecord]
          /\ account.exists
      <3>1. bCall[k].pc = "tier" /\ UNCHANGED <<ledger, wallets, credits, calls, lost, bRaced>>
            /\ bCall[k] \in B!CallShapes
        BY <1>0, <1>6 DEF B!SetTier
      <3>2. account.exists
        BY <1>b, <3>1 DEF Accounts
      <3> QED BY <3>1, <3>2, Shaped
    <2> DEFINE r == [bCall[k] EXCEPT !.pc = "note"]
    <2>2. r \in B!CallShapes /\ r.pc = "note" /\ r.n = bCall[k].n /\ r.kind = "earn"
      BY <2>1 DEF B!CallShapes
    <2>3. B!Goto(k, r)
      BY <1>6 DEF B!SetTier
    <2> HIDE DEF r
    <2>4. /\ bCall' \in [Calls -> B!CallShapes] /\ bCall'[k] = r
          /\ \A j \in Calls : j # k => bCall'[j] = bCall[j]
          /\ Due \in Int /\ Owed \in Int
          /\ Due' = Due - Writes(bCall[k], Posting) + Writes(r, Posting)
          /\ Owed' = Owed - Writes(bCall[k], {"credit"}) + Writes(r, {"credit"})
      BY <1>0, <2>2, <2>3, Moves
    <2>5. Due' = Due /\ Owed' = Owed
      BY <2>1, <2>2, <2>4 DEF Writes
    <2>6. account' \in B!AccountRecord /\ account'.points = account.points /\ account'.exists
      <3>1. account' = [account EXCEPT !.tier = B!TierOf(bCall[k].read.lifetime + bCall[k].n)]
        BY <1>6 DEF B!SetTier
      <3> QED BY <1>0, <2>1, <3>1 DEF B!AccountRecord, B!TierOf
    <2>9. B!TypeOK'
      BY <1>0, <1>a, <2>1, <2>4, <2>6 DEF B!TypeOK
    <2>10. Accounts'
      BY <2>6 DEF Accounts
    <2>11. PointsSum' /\ WalletSum'
      BY <1>b, <2>1, <2>2, <2>4, <2>5, <2>6 DEF PointsSum, WalletSum
    <2>12. Afforded'
      BY <1>b, <2>1, <2>2, <2>4, <2>6 DEF Afforded, Redeems
    <2> QED BY <2>9, <2>10, <2>11, <2>12 DEF BalancesIInv
  <1>7. ASSUME NEW k \in Calls, B!NotePoints(k) PROVE BalancesIInv'
    <2>1. bCall[k].pc = "note" /\ UNCHANGED <<account, wallets, credits, calls, lost, bRaced>>
          /\ bCall[k] \in B!CallShapes /\ bCall[k].n \in Int /\ ledger' = ledger + bCall[k].n
      <3>1. bCall[k].pc = "note" /\ UNCHANGED <<account, wallets, credits, calls, lost, bRaced>>
            /\ bCall[k] \in B!CallShapes /\ ledger' = ledger + bCall[k].n
        BY <1>0, <1>7 DEF B!NotePoints
      <3> QED BY <3>1, Shaped
    <2> DEFINE r == B!Idle
    <2>2. r \in B!CallShapes /\ r.pc = "idle"
      BY <1>d
    <2>3. B!Goto(k, r)
      BY <1>7 DEF B!NotePoints
    <2> HIDE DEF r
    <2>4. /\ bCall' \in [Calls -> B!CallShapes] /\ bCall'[k] = r
          /\ \A j \in Calls : j # k => bCall'[j] = bCall[j]
          /\ Due \in Int /\ Owed \in Int
          /\ Due' = Due - Writes(bCall[k], Posting) + Writes(r, Posting)
          /\ Owed' = Owed - Writes(bCall[k], {"credit"}) + Writes(r, {"credit"})
      BY <1>0, <2>2, <2>3, Moves
    <2>5. Due' = Due - bCall[k].n /\ Owed' = Owed
      BY <2>1, <2>2, <2>4 DEF Writes
    <2>6. ledger' \in Int
      BY <1>0, <2>1
    <2>9. B!TypeOK'
      BY <1>0, <1>a, <2>1, <2>4, <2>6 DEF B!TypeOK
    <2>10. Accounts'
      BY <1>b, <2>1, <2>2, <2>4 DEF Accounts
    <2>11. PointsSum'
      BY <1>0, <1>b, <1>e, <2>1, <2>4, <2>5 DEF PointsSum
    <2>12. WalletSum'
      BY <1>b, <2>1, <2>2, <2>4, <2>5 DEF WalletSum
    <2>13. Afforded'
      BY <1>b, <2>1, <2>2, <2>4 DEF Afforded, Redeems
    <2> QED BY <2>9, <2>10, <2>11, <2>12, <2>13 DEF BalancesIInv
  <1>8. ASSUME NEW k \in Calls, B!OpenWallet(k) PROVE BalancesIInv'
    <2>1. bCall[k].pc = "open" /\ UNCHANGED <<account, ledger, credits, calls, lost, bRaced>>
          /\ bCall[k] \in [pc : {"open", "pay", "credit"}, kind : {"topup"}, n : Amounts]
          /\ bCall[k].n \in Nat
      <3>1. bCall[k].pc = "open" /\ UNCHANGED <<account, ledger, credits, calls, lost, bRaced>>
            /\ bCall[k] \in B!CallShapes
        BY <1>0, <1>8 DEF B!OpenWallet
      <3> QED BY <1>c, <3>1, Shaped
    <2> DEFINE r == [bCall[k] EXCEPT !.pc = "credit"]
    <2>2. r \in B!CallShapes /\ r.pc = "credit" /\ r.n = bCall[k].n /\ r.kind = "topup"
      BY <2>1 DEF B!CallShapes
    <2>3. B!Goto(k, r)
      BY <1>8 DEF B!OpenWallet
    <2> HIDE DEF r
    <2>4. /\ bCall' \in [Calls -> B!CallShapes] /\ bCall'[k] = r
          /\ \A j \in Calls : j # k => bCall'[j] = bCall[j]
          /\ Due \in Int /\ Owed \in Int
          /\ Due' = Due - Writes(bCall[k], Posting) + Writes(r, Posting)
          /\ Owed' = Owed - Writes(bCall[k], {"credit"}) + Writes(r, {"credit"})
      BY <1>0, <2>2, <2>3, Moves
    <2>5. Due' = Due /\ Owed' = Owed + bCall[k].n
      BY <2>1, <2>2, <2>4 DEF Writes
    <2>6. wallets' \in Seq(Nat) /\ Len(wallets') = Len(wallets) + 1
          /\ (Len(wallets) = 0 => wallets'[1] = bCall[k].n)
      <3>1. wallets' = Append(wallets, bCall[k].n)
        BY <1>8 DEF B!OpenWallet
      <3> QED BY <1>0, <2>1, <3>1
    <2>9. B!TypeOK'
      BY <1>0, <1>a, <2>1, <2>4, <2>6 DEF B!TypeOK
    <2>10. Accounts'
      BY <1>b, <2>1, <2>2, <2>4 DEF Accounts
    <2>11. PointsSum'
      BY <1>b, <2>1, <2>4, <2>5 DEF PointsSum
    <2>12. WalletSum'
      <3>1. Len(wallets) \in Nat /\ credits' = credits /\ lost' = lost
        BY <1>0, <2>1
      <3>2. Len(wallets') # 0
        BY <2>6, <3>1
      <3>3. Len(wallets') = 1 => wallets'[1] = credits' + Owed' + lost'.wallet
        <4> SUFFICES ASSUME Len(wallets') = 1 PROVE wallets'[1] = credits' + Owed' + lost'.wallet
          OBVIOUS
        <4>1. Len(wallets) = 0
          <5> DEFINE m == Len(wallets)
                     n == Len(wallets')
          <5>1. m \in Nat /\ n = m + 1 /\ n = 1
            BY <2>6, <3>1
          <5> HIDE DEF m, n
          <5>2. m = 0
            BY <5>1
          <5> QED BY <5>2 DEF m
        <4>2. credits + Owed + lost.wallet = 0
          BY <1>b, <4>1 DEF WalletSum
        <4>3. wallets'[1] = bCall[k].n
          BY <2>6, <4>1
        <4>4. bCall[k].n = credits + (Owed + bCall[k].n) + lost.wallet
          <5>1. credits \in Int /\ Owed \in Int /\ lost.wallet \in Int /\ bCall[k].n \in Int
            BY <1>0, <1>e, <2>1, <2>4
          <5> QED BY <4>2, <5>1, Carried
        <4> QED BY <2>5, <3>1, <4>3, <4>4
      <3>4. Len(wallets') > 0
        BY <2>6, <3>1
      <3> QED BY <3>2, <3>3, <3>4 DEF WalletSum
    <2>13. Afforded'
      BY <1>b, <2>1, <2>2, <2>4 DEF Afforded, Redeems
    <2> QED BY <2>9, <2>10, <2>11, <2>12, <2>13 DEF BalancesIInv
  <1>9. ASSUME NEW k \in Calls, B!PayIn(k) PROVE BalancesIInv'
    <2>1. bCall[k].pc = "pay" /\ UNCHANGED <<account, ledger, credits, calls, lost, bRaced>>
          /\ bCall[k] \in [pc : {"open", "pay", "credit"}, kind : {"topup"}, n : Amounts]
          /\ bCall[k].n \in Nat
      <3>1. bCall[k].pc = "pay" /\ UNCHANGED <<account, ledger, credits, calls, lost, bRaced>>
            /\ bCall[k] \in B!CallShapes
        BY <1>0, <1>9 DEF B!PayIn
      <3> QED BY <1>c, <3>1, Shaped
    <2> DEFINE r == [bCall[k] EXCEPT !.pc = "credit"]
    <2>2. r \in B!CallShapes /\ r.pc = "credit" /\ r.n = bCall[k].n /\ r.kind = "topup"
      BY <2>1 DEF B!CallShapes
    <2>3. B!Goto(k, r)
      BY <1>9 DEF B!PayIn
    <2> HIDE DEF r
    <2>4. /\ bCall' \in [Calls -> B!CallShapes] /\ bCall'[k] = r
          /\ \A j \in Calls : j # k => bCall'[j] = bCall[j]
          /\ Due \in Int /\ Owed \in Int
          /\ Due' = Due - Writes(bCall[k], Posting) + Writes(r, Posting)
          /\ Owed' = Owed - Writes(bCall[k], {"credit"}) + Writes(r, {"credit"})
      BY <1>0, <2>2, <2>3, Moves
    <2>5. Due' = Due /\ Owed' = Owed + bCall[k].n
      BY <2>1, <2>2, <2>4 DEF Writes
    <2>6. wallets' \in Seq(Nat) /\ Len(wallets') = Len(wallets)
          /\ (Len(wallets) = 1 => wallets'[1] = wallets[1] + bCall[k].n)
      <3>1. wallets' = [i \in DOMAIN wallets |-> wallets[i] + bCall[k].n]
        BY <1>9 DEF B!PayIn
      <3>2. wallets' = [i \in 1..Len(wallets) |-> wallets[i] + bCall[k].n] /\ Len(wallets) \in Nat
            /\ \A i \in 1..Len(wallets) : wallets[i] + bCall[k].n \in Nat
        BY <1>0, <2>1, <3>1
      <3>3. wallets' \in Seq(Nat) /\ Len(wallets') = Len(wallets)
        BY <3>2
      <3>4. Len(wallets) = 1 => 1 \in 1..Len(wallets)
        OBVIOUS
      <3> QED BY <3>2, <3>3, <3>4
    <2>9. B!TypeOK'
      BY <1>0, <1>a, <2>1, <2>4, <2>6 DEF B!TypeOK
    <2>10. Accounts'
      BY <1>b, <2>1, <2>2, <2>4 DEF Accounts
    <2>11. PointsSum'
      BY <1>b, <2>1, <2>4, <2>5 DEF PointsSum
    <2>12. WalletSum'
      <3>1. Len(wallets) \in Nat /\ credits' = credits /\ lost' = lost /\ Len(wallets) > 0
        BY <1>0, <1>b, <2>1 DEF WalletSum
      <3>2. Len(wallets') # 0 /\ Len(wallets') > 0
        BY <2>6, <3>1
      <3>3. Len(wallets') = 1 => wallets'[1] = credits' + Owed' + lost'.wallet
        <4> SUFFICES ASSUME Len(wallets) = 1 PROVE wallets'[1] = credits' + Owed' + lost'.wallet
          BY <2>6
        <4>1. wallets[1] = credits + Owed + lost.wallet
          BY <1>b DEF WalletSum
        <4> QED BY <1>0, <1>e, <2>1, <2>4, <2>5, <2>6, <3>1, <4>1
      <3> QED BY <3>2, <3>3 DEF WalletSum
    <2>13. Afforded'
      BY <1>b, <2>1, <2>2, <2>4 DEF Afforded, Redeems
    <2> QED BY <2>9, <2>10, <2>11, <2>12, <2>13 DEF BalancesIInv
  <1>10. ASSUME NEW k \in Calls, B!Credit(k) PROVE BalancesIInv'
    <2>1. bCall[k].pc = "credit" /\ UNCHANGED <<account, ledger, wallets, calls, lost, bRaced>>
          /\ bCall[k] \in B!CallShapes /\ bCall[k].n \in Int /\ credits' = credits + bCall[k].n
      <3>1. bCall[k].pc = "credit" /\ UNCHANGED <<account, ledger, wallets, calls, lost, bRaced>>
            /\ bCall[k] \in B!CallShapes /\ credits' = credits + bCall[k].n
        BY <1>0, <1>10 DEF B!Credit
      <3>2. bCall[k].n \in Nat
        BY <1>c, <3>1, Shaped
      <3> QED BY <3>1, <3>2
    <2> DEFINE r == B!Idle
    <2>2. r \in B!CallShapes /\ r.pc = "idle"
      BY <1>d
    <2>3. B!Goto(k, r)
      BY <1>10 DEF B!Credit
    <2> HIDE DEF r
    <2>4. /\ bCall' \in [Calls -> B!CallShapes] /\ bCall'[k] = r
          /\ \A j \in Calls : j # k => bCall'[j] = bCall[j]
          /\ Due \in Int /\ Owed \in Int
          /\ Due' = Due - Writes(bCall[k], Posting) + Writes(r, Posting)
          /\ Owed' = Owed - Writes(bCall[k], {"credit"}) + Writes(r, {"credit"})
      BY <1>0, <2>2, <2>3, Moves
    <2>5. Due' = Due /\ Owed' = Owed - bCall[k].n
      BY <2>1, <2>2, <2>4 DEF Writes
    <2>6. credits' \in Int
      BY <1>0, <2>1
    <2>9. B!TypeOK'
      BY <1>0, <1>a, <2>1, <2>4, <2>6 DEF B!TypeOK
    <2>10. Accounts'
      BY <1>b, <2>1, <2>2, <2>4 DEF Accounts
    <2>11. PointsSum'
      BY <1>b, <2>1, <2>4, <2>5 DEF PointsSum
    <2>12. WalletSum'
      <3>1. credits' + Owed' + lost'.wallet = credits + Owed + lost.wallet
        BY <1>0, <1>e, <2>1, <2>4, <2>5
      <3> QED BY <1>b, <2>1, <2>2, <2>4, <3>1 DEF WalletSum
    <2>13. Afforded'
      BY <1>b, <2>1, <2>2, <2>4 DEF Afforded, Redeems
    <2> QED BY <2>9, <2>10, <2>11, <2>12, <2>13 DEF BalancesIInv
  <1>11. ASSUME NEW k \in Calls, B!Fails(k) PROVE BalancesIInv'
    <2>1. bCall[k].pc \in {"tier", "note", "credit"}
          /\ UNCHANGED <<account, ledger, wallets, credits, calls, bRaced>>
          /\ bCall[k] \in B!CallShapes /\ bCall[k].n \in Int
      <3>1. bCall[k].pc \in {"tier", "note", "credit"}
            /\ UNCHANGED <<account, ledger, wallets, credits, calls, bRaced>>
            /\ bCall[k] \in B!CallShapes
        BY <1>0, <1>11 DEF B!Fails
      <3>2. bCall[k].n \in Int
        <4>1. CASE bCall[k].pc = "credit"
          <5>1. bCall[k].n \in Nat
            BY <1>c, <3>1, <4>1, Shaped
          <5> QED BY <5>1
        <4>2. CASE bCall[k].pc \in {"tier", "note"}
          BY <3>1, <4>2, Shaped
        <4> QED BY <3>1, <4>1, <4>2
      <3> QED BY <3>1, <3>2
    <2> DEFINE r == B!Idle
    <2>2. r \in B!CallShapes /\ r.pc = "idle"
      BY <1>d
    <2>3. B!Goto(k, r)
      BY <1>11 DEF B!Fails
    <2> HIDE DEF r
    <2>4. /\ bCall' \in [Calls -> B!CallShapes] /\ bCall'[k] = r
          /\ \A j \in Calls : j # k => bCall'[j] = bCall[j]
          /\ Due \in Int /\ Owed \in Int
          /\ Due' = Due - Writes(bCall[k], Posting) + Writes(r, Posting)
          /\ Owed' = Owed - Writes(bCall[k], {"credit"}) + Writes(r, {"credit"})
      BY <1>0, <2>2, <2>3, Moves
    <2>5. /\ bCall[k].pc = "credit" => Due' = Due /\ Owed' = Owed - bCall[k].n
          /\ bCall[k].pc # "credit" => Due' = Due - bCall[k].n /\ Owed' = Owed
      BY <2>1, <2>2, <2>4 DEF Writes
    <2>6. /\ lost' \in [points : Int, wallet : Int]
          /\ bCall[k].pc = "credit" => lost'.points = lost.points
                                      /\ lost'.wallet = lost.wallet + bCall[k].n
          /\ bCall[k].pc # "credit" => lost'.points = lost.points + bCall[k].n
                                      /\ lost'.wallet = lost.wallet
      <3>1. CASE bCall[k].pc = "credit"
        <4> DEFINE x == lost.wallet + bCall[k].n
        <4>1. x \in Int /\ lost' = [lost EXCEPT !.wallet = x]
          BY <1>e, <1>11, <2>1, <3>1 DEF B!Fails
        <4> HIDE DEF x
        <4>2. lost' \in [points : Int, wallet : Int] /\ lost'.points = lost.points /\ lost'.wallet = x
          BY <1>0, <4>1
        <4> QED BY <3>1, <4>2 DEF x
      <3>2. CASE bCall[k].pc # "credit"
        <4> DEFINE x == lost.points + bCall[k].n
        <4>1. x \in Int /\ lost' = [lost EXCEPT !.points = x]
          BY <1>e, <1>11, <2>1, <3>2 DEF B!Fails
        <4> HIDE DEF x
        <4>2. lost' \in [points : Int, wallet : Int] /\ lost'.points = x /\ lost'.wallet = lost.wallet
          BY <1>0, <4>1
        <4> QED BY <3>2, <4>2 DEF x
      <3> QED BY <3>1, <3>2
    <2>7. ledger' = ledger /\ credits' = credits /\ wallets' = wallets /\ account' = account
      BY <2>1
    <2>8. ledger + Due + lost.points = ledger' + Due' + lost'.points
      <3>1. CASE bCall[k].pc = "credit"
        BY <1>0, <1>e, <2>1, <2>4, <2>5, <2>6, <2>7, <3>1
      <3>2. CASE bCall[k].pc # "credit"
        <4>1. ledger + Due + lost.points = ledger + (Due - bCall[k].n) + (lost.points + bCall[k].n)
          BY <1>0, <1>e, <2>1, <2>4, Carried
        <4> QED BY <2>5, <2>6, <2>7, <3>2, <4>1
      <3> QED BY <3>1, <3>2
    <2>9. credits + Owed + lost.wallet = credits' + Owed' + lost'.wallet
      <3>1. CASE bCall[k].pc = "credit"
        <4>1. credits + Owed + lost.wallet = credits + (Owed - bCall[k].n) + (lost.wallet + bCall[k].n)
          BY <1>0, <1>e, <2>1, <2>4, Carried
        <4> QED BY <2>5, <2>6, <2>7, <3>1, <4>1
      <3>2. CASE bCall[k].pc # "credit"
        BY <1>0, <1>e, <2>1, <2>4, <2>5, <2>6, <2>7, <3>2
      <3> QED BY <3>1, <3>2
    <2>10. B!TypeOK'
      BY <1>0, <1>a, <2>1, <2>4, <2>6 DEF B!TypeOK
    <2>11. Accounts'
      BY <1>b, <2>1, <2>2, <2>4 DEF Accounts
    <2>12. PointsSum'
      BY <1>b, <2>7, <2>8 DEF PointsSum
    <2>13. WalletSum'
      BY <1>b, <2>2, <2>4, <2>7, <2>9 DEF WalletSum
    <2>14. Afforded'
      BY <1>b, <2>1, <2>2, <2>4 DEF Afforded, Redeems
    <2> QED BY <2>10, <2>11, <2>12, <2>13, <2>14 DEF BalancesIInv
  <1>12. ASSUME UNCHANGED B!vars PROVE BalancesIInv'
    <2>1. UNCHANGED <<account, ledger, wallets, credits, bCall, calls, lost, bRaced>>
      BY <1>12 DEF B!vars
    <2>2. Due' = Due /\ Owed' = Owed
      BY <2>1 DEF Due, Owed, At
    <2>3. B!TypeOK'
      BY <1>0, <1>a, <2>1 DEF B!TypeOK
    <2>4. Accounts' /\ PointsSum' /\ WalletSum'
      BY <1>b, <2>1, <2>2 DEF Accounts, PointsSum, WalletSum
    <2>5. Afforded'
      BY <1>b, <2>1 DEF Afforded, Redeems
    <2> QED BY <2>3, <2>4, <2>5 DEF BalancesIInv
  <1> QED BY <1>1, <1>2, <1>3, <1>4, <1>5, <1>6, <1>7, <1>8, <1>9, <1>10, <1>11, <1>12
          DEF B!Next

\* The points and the wallet (POST /wallet/topup, earnPoints, redeemPoints) add up with
\* their ledgers, whatever fails or overlaps.
THEOREM MoneyAddsUp == B!Spec => [](B!TypeOK /\ B!PointsAccounted /\ B!WalletAccounted)
  <1>1. BalancesIInv => B!TypeOK /\ B!PointsAccounted /\ B!WalletAccounted
    BY InFlightIs
    DEF BalancesIInv, PointsSum, WalletSum, Afforded, B!PointsAccounted, B!WalletAccounted
  <1> QED BY BalancesInitIInv, BalancesNextIInv, <1>1, PTL DEF B!Spec
=============================================================================
