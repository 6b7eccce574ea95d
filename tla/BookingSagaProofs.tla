-------------------------- MODULE BookingSagaProofs --------------------------
(***************************************************************************)
(* Proofs about the checkout saga, for any users, bookings, seats, calls,   *)
(* restarts, failing calls and unsigned webhooks, whichever clients the    *)
(* pool gives: the types, that nothing is booked for money that was        *)
(* neither captured nor claimed to be, and what a transaction that the     *)
(* pool kept guarantees: a saga that fails in one leaves nothing, and a    *)
(* confirmation in one takes nobody's lock.                                *)
(*                                                                         *)
(* The invariant has a part for the tables, which a rollback may turn back *)
(* to what they were, and a part for the calls and the gateway.  It holds  *)
(* across a rollback because a booking and an order never go back: what a  *)
(* table said once about either is true later.                             *)
(***************************************************************************)
EXTENDS BookingSaga, TLAPS

Paid(b) == gateway[b] \in {"captured", "refunded"}

\* Where a booking is before there is an order for it, and once its customer
\* was charged by the simulated gateway.
Early == {"idle", "check", "insert", "attach", "rollback", "pay"}
Charged == {"sbegin", "sbooking", "sseats", "scommit", "snotify", "srollback"}

SagaCall == [pc : SagaPC, user : Users \cup {NoUser},
             want : SUBSET Seats, passengers : 0 .. MaxPassengers,
             todo : SUBSET Seats]
ConfCall == [pc : ConfPC, booking : Bookings \cup {NoBooking}]
CancCall == [pc : CancPC, booking : Bookings \cup {NoBooking}]

\* What the rows of bookings and payments say is backed by calls and orders.
Backed(bookingRows, paymentRows) ==
  \A b \in Bookings :
    /\ bookingRows[b] # "none" => saga[b].pc # "idle"
    /\ bookingRows[b] = "CONFIRMED" => PaidFor(b)
    /\ paymentRows[b] # "none" => gateway[b] # "none"
    /\ paymentRows[b] = "SUCCESS" => PaidFor(b)

\* A seat names a booking that asked for it, and that is paid for if the seat is
\* booked.  No lock's owner is left on a booked seat, so none is attached anew.
Named(rows) ==
  \A s \in Seats :
    /\ rows[s].status = "BOOKED" => rows[s].locked_by = NoUser
    /\ \A b \in Bookings : rows[s].booking_id = b =>
         /\ saga[b].pc # "idle" /\ s \in saga[b].want
         /\ rows[s].status = "BOOKED" => PaidFor(b)

TxInv ==
  /\ tx.owner \in Flow \cup {Nobody}
  /\ tx.owner # Nobody =>
       /\ tx = [owner |-> tx.owner, undo |-> <<tx.undo[1], tx.undo[2], tx.undo[3]>>]
       /\ tx.undo[1] \in [Seats -> SeatRow]
       /\ tx.undo[2] \in [Bookings -> BookingStatus]
       /\ tx.undo[3] \in [Bookings -> PaymentStatus]
       /\ Named(tx.undo[1]) /\ Backed(tx.undo[2], tx.undo[3])

TablesInv ==
  /\ seat \in [Seats -> SeatRow]
  /\ booking \in [Bookings -> BookingStatus]
  /\ payment \in [Bookings -> PaymentStatus]
  /\ Named(seat) /\ Backed(booking, payment)
  /\ TxInv

SagaFits(b) ==
  /\ saga[b].pc # "idle" => saga[b].user \in Users
  /\ saga[b].todo \subseteq saga[b].want
  /\ saga[b].pc \in Early => gateway[b] = "none"
  /\ saga[b].pc = "payinsert" => gateway[b] = "created"
  /\ saga[b].pc \in Charged => Paid(b)

\* A confirmer knows an order, and, unless it still asks, that somebody said it
\* was paid.
ConfFits(c) ==
  /\ conf[c].pc # "idle" => /\ conf[c].booking \in Bookings
                            /\ gateway[conf[c].booking] # "none"
  /\ conf[c].pc \notin {"idle", "fetch", "rejected"} => PaidFor(conf[c].booking)

CancFits(k) ==
  canc[k].pc # "idle" => /\ canc[k].booking \in Bookings
                         /\ saga[canc[k].booking].pc # "idle"

FlowsInv ==
  /\ saga \in [Bookings -> SagaCall] /\ \A b \in Bookings : SagaFits(b)
  /\ conf \in [Confirmers -> ConfCall] /\ \A c \in Confirmers : ConfFits(c)
  /\ canc \in [Cancellers -> CancCall] /\ \A k \in Cancellers : CancFits(k)
  /\ gateway \in [Bookings -> OrderStatus]
  /\ razorpay \in Gateways
  /\ claimed \in [Bookings -> BOOLEAN]
  /\ event \in [Bookings -> BOOLEAN] /\ \A b \in Bookings : event[b] => Paid(b)
  /\ crashes \in 0 .. MaxCrashes

IInv == TablesInv /\ FlowsInv

\* Bookings that have begun stay so with what they want, and orders only go on.
Grows ==
  \A b \in Bookings :
    /\ saga[b].pc # "idle" => saga'[b].pc # "idle" /\ saga'[b].want = saga[b].want
    /\ gateway[b] # "none" => gateway'[b] # "none"
    /\ Paid(b) => Paid(b)'
    /\ PaidFor(b) => PaidFor(b)'

USE DEF BookingStatus, PaymentStatus, OrderStatus
-----------------------------------------------------------------------------
\* Steps on the tables, each for what a statement may do.

LEMMA BackedStays ==
  ASSUME Grows, NEW bk, NEW pm, Backed(bk, pm)
  PROVE  \A b \in Bookings :
            /\ bk[b] # "none" => saga'[b].pc # "idle"
            /\ bk[b] = "CONFIRMED" => PaidFor(b)'
            /\ pm[b] # "none" => gateway'[b] # "none"
            /\ pm[b] = "SUCCESS" => PaidFor(b)'
  BY DEF Grows, Backed

LEMMA NamedStays ==
  ASSUME Grows, NEW rows, Named(rows)
  PROVE  \A s \in Seats :
            /\ rows[s].status = "BOOKED" => rows[s].locked_by = NoUser
            /\ \A b \in Bookings : rows[s].booking_id = b =>
                 /\ saga'[b].pc # "idle" /\ s \in saga'[b].want
                 /\ rows[s].status = "BOOKED" => PaidFor(b)'
  BY DEF Grows, Named

LEMMA TxStays ==
  ASSUME TxInv, Grows, UNCHANGED tx
  PROVE  TxInv'
  <1>1. CASE tx.owner = Nobody
    BY <1>1 DEF TxInv
  <1>2. CASE tx.owner # Nobody
    <2>1. Named(tx.undo[1]) /\ Backed(tx.undo[2], tx.undo[3])
      BY <1>2 DEF TxInv
    <2>2. Named(tx.undo[1])'
      BY <2>1, NamedStays DEF Named
    <2>3. Backed(tx.undo[2], tx.undo[3])'
      BY <2>1, BackedStays DEF Backed
    <2> QED BY <1>2, <2>2, <2>3 DEF TxInv
  <1> QED BY <1>1, <1>2

\* Rows that no statement wrote.
LEMMA SeatsStay ==
  ASSUME TablesInv, Grows, UNCHANGED seat
  PROVE  seat' \in [Seats -> SeatRow] /\ Named(seat)'
  <1>1. Named(seat) /\ seat' = seat
    BY DEF TablesInv
  <1> QED BY <1>1, NamedStays DEF TablesInv, Named

LEMMA RowsStay ==
  ASSUME TablesInv, Grows, UNCHANGED <<booking, payment>>
  PROVE  /\ booking' \in [Bookings -> BookingStatus]
         /\ payment' \in [Bookings -> PaymentStatus]
         /\ Backed(booking, payment)'
  <1>1. Backed(booking, payment) /\ booking' = booking /\ payment' = payment
    BY DEF TablesInv
  <1> QED BY <1>1, BackedStays DEF TablesInv, Backed

LEMMA TablesStay ==
  ASSUME TablesInv, Grows, UNCHANGED <<tables, tx>>
  PROVE  TablesInv'
  BY TxStays, SeatsStay, RowsStay DEF TablesInv, tables

LEMMA SeatsWritten ==
  ASSUME TablesInv, Grows, seat' \in [Seats -> SeatRow], Named(seat)',
         UNCHANGED <<booking, payment, tx>>
  PROVE  TablesInv'
  BY TxStays, RowsStay DEF TablesInv

\* A statement that gives no seat a new booking, and books only what is paid for.
LEMMA NamesStay ==
  ASSUME TablesInv, Grows,
         \A s \in Seats :
           /\ seat'[s].booking_id \in {seat[s].booking_id, NoBooking}
           /\ seat'[s].status = "BOOKED" => seat'[s].locked_by = NoUser
           /\ seat'[s].status = "BOOKED" =>
                \/ seat[s].status = "BOOKED"
                \/ \A b \in Bookings : seat'[s].booking_id = b => PaidFor(b)
  PROVE  Named(seat)'
  <1> SUFFICES ASSUME NEW s \in Seats, NEW b \in Bookings, seat'[s].booking_id = b
               PROVE  /\ saga'[b].pc # "idle" /\ s \in saga'[b].want
                      /\ seat'[s].status = "BOOKED" => PaidFor(b)'
    BY DEF Named
  <1>1. seat[s].booking_id = b
    BY SeatsAssumption
  <1> QED BY <1>1 DEF TablesInv, Named, Grows

LEMMA BookingWritten ==
  ASSUME TablesInv, Grows, NEW b \in Bookings, NEW status \in BookingStatus,
         SetBooking(b, status), UNCHANGED <<seat, payment, tx>>,
         saga'[b].pc # "idle", status = "CONFIRMED" => PaidFor(b)'
  PROVE  TablesInv'
  <1>1. \A d \in Bookings : booking'[d] = IF d = b THEN status ELSE booking[d]
    BY DEF TablesInv, SetBooking
  <1>2. booking' \in [Bookings -> BookingStatus]
    BY DEF TablesInv, SetBooking
  <1>3. Backed(booking, payment)
    BY DEF TablesInv
  <1>4. Backed(booking, payment)'
    BY <1>1, <1>3, BackedStays DEF Backed
  <1> QED BY <1>2, <1>4, TxStays, SeatsStay DEF TablesInv

LEMMA PaymentWritten ==
  ASSUME TablesInv, Grows, NEW b \in Bookings, NEW status \in PaymentStatus,
         SetPayment(b, status), UNCHANGED <<seat, booking, tx>>,
         gateway'[b] # "none", status = "SUCCESS" => PaidFor(b)'
  PROVE  TablesInv'
  <1>1. \A d \in Bookings : payment'[d] = IF d = b THEN status ELSE payment[d]
    BY DEF TablesInv, SetPayment
  <1>2. payment' \in [Bookings -> PaymentStatus]
    BY DEF TablesInv, SetPayment
  <1>3. Backed(booking, payment)
    BY DEF TablesInv
  <1>4. Backed(booking, payment)'
    BY <1>1, <1>3, BackedStays DEF Backed
  <1> QED BY <1>2, <1>4, TxStays, SeatsStay DEF TablesInv

LEMMA BeginTables ==
  ASSUME TablesInv, Grows, NEW f \in Flow, Begin(f)
  PROVE  TablesInv'
  <1>1. CASE tx' = tx
    BY <1>1, TablesStay DEF Begin, tables
  <1>2. CASE tx' = [owner |-> f, undo |-> tables]
    <2>1. /\ tx'.owner = f /\ tx'.undo = <<seat, booking, payment>>
          /\ tx'.undo[1] = seat /\ tx'.undo[2] = booking /\ tx'.undo[3] = payment
      BY <1>2 DEF tables
    <2>2. UNCHANGED <<seat, booking, payment>>
      BY DEF Begin, tables
    <2>3. Backed(tx.undo[2], tx.undo[3])'
      BY <2>1, <2>2, RowsStay DEF Backed
    <2>4. Named(tx.undo[1])'
      BY <2>1, <2>2, SeatsStay DEF Named
    <2>5. TxInv'
      BY <1>2, <2>1, <2>2, <2>3, <2>4 DEF TxInv, TablesInv, tables
    <2> QED BY <2>2, <2>5, SeatsStay, RowsStay DEF TablesInv
  <1> QED BY <1>1, <1>2 DEF Begin

LEMMA CommitTables ==
  ASSUME TablesInv, Grows, Commit
  PROVE  TablesInv'
  <1>1. TxInv'
    BY DEF TxInv, Commit, NoTx
  <1> QED BY <1>1, SeatsStay, RowsStay DEF TablesInv, Commit, tables

LEMMA RollbackTables ==
  ASSUME TablesInv, Grows, Rollback
  PROVE  TablesInv'
  <1>1. TxInv'
    BY DEF TxInv, Rollback, NoTx
  <1>2. CASE tx.owner = Nobody
    BY <1>1, <1>2, SeatsStay, RowsStay DEF TablesInv, Rollback, tables
  <1>3. CASE tx.owner # Nobody
    <2>1. /\ seat' = tx.undo[1] /\ booking' = tx.undo[2] /\ payment' = tx.undo[3]
          /\ Named(tx.undo[1]) /\ Backed(tx.undo[2], tx.undo[3])
      BY <1>3 DEF Rollback, TablesInv, TxInv
    <2>2. Named(seat)'
      BY <2>1, NamedStays DEF Named
    <2>3. Backed(booking, payment)'
      BY <2>1, BackedStays DEF Backed
    <2> QED BY <1>1, <1>3, <2>1, <2>2, <2>3 DEF TablesInv, TxInv
  <1> QED BY <1>2, <1>3

\* A row written over another one: it names no other booking, and it is booked
\* only if it was, or if the booking is paid for.
Tame(new, row, paid) ==
  /\ new \in SeatRow
  /\ new.booking_id \in {row.booking_id, NoBooking}
  /\ new.status = "BOOKED" => new.locked_by = NoUser /\ (row.status = "BOOKED" \/ paid)

LEMMA NewRows ==
  ASSUME NEW row \in SeatRow, row.status = "BOOKED" => row.locked_by = NoUser
  PROVE  /\ Tame(BookRow(row), row, TRUE) /\ Tame(Detach(row), row, FALSE)
         /\ Tame(FreeRow(row), row, FALSE) /\ Tame(DropRow(row), row, FALSE)
         /\ Tame(UnlockRow(row), row, FALSE) /\ Tame(ExpireRow(row), row, FALSE)
         /\ \A u \in Users : Tame(LockRow(row, u, Now + 1), row, FALSE)
  <1> USE SeatsAssumption DEF SeatRow, SeatStatus
  <1>1. Tame(UnlockRow(row), row, FALSE)
    BY DEF UnlockRow, Tame
  <1>2. Tame(FreeRow(row), row, FALSE)
    BY <1>1 DEF FreeRow, Tame
  <1>3. Tame(BookRow(row), row, TRUE)
    BY DEF BookRow, Tame
  <1>4. Tame(Detach(row), row, FALSE)
    BY DEF Detach, Tame
  <1>5. Tame(DropRow(row), row, FALSE)
    BY DEF DropRow, Tame
  <1>6. Tame(ExpireRow(row), row, FALSE)
    BY DEF ExpireRow, Tame
  <1>7. ASSUME NEW u \in Users
        PROVE  Tame(LockRow(row, u, Now + 1), row, FALSE)
    <2>1. Now + 1 \in Nat
      BY DEF Now
    <2> QED BY <2>1 DEF LockRow, Tame
  <1> QED BY <1>1, <1>2, <1>3, <1>4, <1>5, <1>6, <1>7

LEMMA SeatRewritten ==
  ASSUME TablesInv, Grows, NEW s \in Seats, NEW row, Tame(row, seat[s], FALSE),
         seat' = [seat EXCEPT ![s] = row], UNCHANGED <<booking, payment, tx>>
  PROVE  TablesInv'
  <1>1. seat' \in [Seats -> SeatRow]
    BY DEF TablesInv, Tame
  <1>2. Named(seat)'
    BY NamesStay DEF TablesInv, Named, Tame
  <1> QED BY <1>1, <1>2, SeatsWritten

\* UPDATE seats ... WHERE booking_id = b.
LEMMA SeatsOfRewritten ==
  ASSUME TablesInv, Grows, NEW b \in Bookings, NEW new,
         \A s \in Seats : Tame(new[s], seat[s], PaidFor(b)),
         UpdateSeatsOf(b, new), UNCHANGED <<booking, payment, tx>>
  PROVE  TablesInv'
  <1>1. seat' \in [Seats -> SeatRow]
    BY DEF TablesInv, Tame, UpdateSeatsOf
  <1>2. Named(seat)'
    <2>1. \A s \in Seats : /\ seat'[s].booking_id \in {seat[s].booking_id, NoBooking}
                           /\ seat'[s].status = "BOOKED" => seat'[s].locked_by = NoUser
      BY DEF TablesInv, Named, Tame, UpdateSeatsOf
    <2>2. \A s \in Seats : seat'[s].status = "BOOKED" =>
            \/ seat[s].status = "BOOKED"
            \/ \A d \in Bookings : seat'[s].booking_id = d => PaidFor(d)
      BY SeatsAssumption DEF Tame, UpdateSeatsOf
    <2> QED BY <2>1, <2>2, NamesStay
  <1> QED BY <1>1, <1>2, SeatsWritten

LEMMA ExpireTables ==
  ASSUME TablesInv, NEW s \in Seats, Expire(s)
  PROVE  TablesInv'
  <1>1. Grows
    BY DEF Grows, Expire, flows, world, Paid, PaidFor
  <1>2. Tame(ExpireRow(seat[s]), seat[s], FALSE)
    BY NewRows DEF TablesInv, Named
  <1>3. CASE tx' = tx
    BY <1>1, <1>2, <1>3, SeatRewritten DEF Expire
  <1>4. CASE tx.owner # Nobody /\ tx' = [tx EXCEPT !.undo[1][s] = ExpireRow(@)]
    <2>1. /\ tx'.owner = tx.owner
          /\ tx'.undo = <<[tx.undo[1] EXCEPT ![s] = ExpireRow(@)], tx.undo[2], tx.undo[3]>>
          /\ tx' = [owner |-> tx'.owner, undo |-> tx'.undo]
      BY <1>4 DEF TablesInv, TxInv
    <2>2. /\ tx'.undo[1] = [tx.undo[1] EXCEPT ![s] = ExpireRow(@)]
          /\ tx'.undo[2] = tx.undo[2] /\ tx'.undo[3] = tx.undo[3]
      BY <2>1
    <2>3. tx'.undo[1] \in [Seats -> SeatRow] /\ Named(tx.undo[1])'
      <3>1. tx.undo[1] \in [Seats -> SeatRow] /\ Named(tx.undo[1])
        BY <1>4 DEF TablesInv, TxInv
      <3>2. Tame(ExpireRow(tx.undo[1][s]), tx.undo[1][s], FALSE)
        BY <3>1, NewRows DEF Named
      <3>3. UNCHANGED <<saga, gateway, claimed>>
        BY DEF Expire, flows, world
      <3>4. \A x \in Seats :
              /\ tx'.undo[1][x].booking_id \in {tx.undo[1][x].booking_id, NoBooking}
              /\ tx'.undo[1][x].status = "BOOKED" =>
                   tx'.undo[1][x].locked_by = NoUser /\ tx.undo[1][x].status = "BOOKED"
        BY <2>2, <3>1, <3>2 DEF Tame, Named
      <3>5. Named(tx.undo[1])'
        BY <3>1, <3>3, <3>4, SeatsAssumption DEF Named, PaidFor
      <3> QED BY <2>2, <3>1, <3>2, <3>5 DEF Tame
    <2>4. Backed(tx.undo[2], tx.undo[3])'
      BY <1>1, <1>4, <2>2, BackedStays DEF TablesInv, TxInv, Backed
    <2>5. TxInv'
      BY <1>4, <2>1, <2>2, <2>3, <2>4 DEF TablesInv, TxInv
    <2>6. Named(seat)'
      BY <1>1, <1>2, NamesStay DEF Expire, TablesInv, Named, Tame
    <2>7. seat' \in [Seats -> SeatRow]
      BY <1>2 DEF TablesInv, Expire, Tame
    <2> QED BY <1>1, <2>5, <2>6, <2>7, BackedStays DEF TablesInv, Backed, Expire
  <1> QED BY <1>3, <1>4 DEF Expire
-----------------------------------------------------------------------------
\* Steps of the calls.

\* The saga of b goes on, and may move b's order.
SagaMoves(b) ==
  /\ saga' \in [Bookings -> SagaCall]
  /\ \A d \in Bookings \ {b} : saga'[d] = saga[d]
  /\ saga'[b].pc # "idle" /\ SagaFits(b)'
  /\ saga[b].pc # "idle" => saga'[b].want = saga[b].want
  /\ UNCHANGED <<conf, canc, razorpay, event, claimed, crashes>>

LEMMA SagaAndOrder ==
  ASSUME FlowsInv, NEW b \in Bookings, SagaMoves(b), NEW g \in OrderStatus,
         gateway' = [gateway EXCEPT ![b] = g],
         gateway[b] # "none" => g # "none",
         Paid(b) => g \in {"captured", "refunded"}
  PROVE  FlowsInv' /\ Grows
  <1>1. \A d \in Bookings : gateway'[d] = IF d = b THEN g ELSE gateway[d]
    BY DEF FlowsInv
  <1>2. Grows
    BY <1>1 DEF Grows, SagaMoves, Paid, PaidFor
  <1>3. \A d \in Bookings : SagaFits(d)'
    BY <1>1 DEF FlowsInv, SagaMoves, SagaFits, Paid
  <1>4. \A c \in Confirmers : ConfFits(c)'
    BY <1>2 DEF FlowsInv, SagaMoves, ConfFits, Grows
  <1>5. \A k \in Cancellers : CancFits(k)'
    BY <1>2 DEF FlowsInv, SagaMoves, CancFits, Grows
  <1>6. gateway' \in [Bookings -> OrderStatus]
    BY DEF FlowsInv
  <1>7. \A d \in Bookings : event'[d] => Paid(d)'
    BY <1>2 DEF FlowsInv, SagaMoves, Grows
  <1> QED BY <1>2, <1>3, <1>4, <1>5, <1>6, <1>7 DEF FlowsInv, SagaMoves

LEMMA SagaOnly ==
  ASSUME FlowsInv, NEW b \in Bookings, SagaMoves(b), UNCHANGED gateway
  PROVE  FlowsInv' /\ Grows
  <1>1. /\ gateway' = [gateway EXCEPT ![b] = gateway[b]]
        /\ gateway[b] \in OrderStatus
    BY DEF FlowsInv
  <1> QED BY <1>1, SagaAndOrder DEF Paid

\* A saga that has begun takes its user along.
LEMMA SagaGoes ==
  ASSUME FlowsInv, NEW b \in Bookings, NEW pc \in SagaPC, saga[b].pc # "idle",
         pc # "idle",
         SagaGoto(b, pc) \/ SagaLoop(b, pc)
  PROVE  /\ saga' \in [Bookings -> SagaCall]
         /\ \A d \in Bookings \ {b} : saga'[d] = saga[d]
         /\ saga'[b].pc = pc /\ saga'[b].user = saga[b].user /\ saga[b].user \in Users
         /\ saga'[b].want = saga[b].want
         /\ saga'[b].todo \in {saga[b].todo, saga[b].want}
  <1>1. saga \in [Bookings -> SagaCall] /\ saga[b] \in SagaCall /\ saga[b].user \in Users
    BY DEF FlowsInv, SagaFits
  <1>2. CASE SagaGoto(b, pc)
    <2>1. saga' = [saga EXCEPT ![b] = [saga[b] EXCEPT !.pc = pc]]
      BY <1>1, <1>2 DEF SagaGoto
    <2> QED BY <1>1, <2>1 DEF SagaCall
  <1>3. CASE SagaLoop(b, pc)
    <2>1. saga' = [saga EXCEPT ![b] = [saga[b] EXCEPT !.pc = pc, !.todo = saga[b].want]]
      BY <1>1, <1>3 DEF SagaLoop
    <2> QED BY <1>1, <2>1 DEF SagaCall
  <1> QED BY <1>2, <1>3

LEMMA SagaNexts ==
  ASSUME FlowsInv, NEW b \in Bookings, NEW s \in Seats, saga[b].pc # "idle",
         SagaNext(b, s)
  PROVE  /\ saga' \in [Bookings -> SagaCall]
         /\ \A d \in Bookings \ {b} : saga'[d] = saga[d]
         /\ saga'[b].pc = saga[b].pc /\ saga'[b].user = saga[b].user
         /\ saga'[b].want = saga[b].want /\ saga'[b].todo \subseteq saga[b].todo
  BY DEF FlowsInv, SagaCall, SagaNext

\* A confirmer goes on, and may move its booking's order; an event is answered.
LEMMA ConfMoves ==
  ASSUME FlowsInv, NEW c \in Confirmers, NEW x \in ConfCall,
         conf' = [conf EXCEPT ![c] = x], ConfFits(c)',
         Grows, gateway' \in [Bookings -> OrderStatus],
         \A b \in Bookings : gateway'[b] = gateway[b] \/ Paid(b),
         event' \in [Bookings -> BOOLEAN],
         \A b \in Bookings : event'[b] => event[b],
         claimed' \in [Bookings -> BOOLEAN],
         UNCHANGED <<saga, canc, razorpay, crashes>>
  PROVE  FlowsInv'
  <1>1. conf' \in [Confirmers -> ConfCall]
    BY DEF FlowsInv
  <1>2. \A d \in Confirmers : ConfFits(d)'
    BY DEF FlowsInv, ConfFits, Grows
  <1>3. ASSUME NEW b \in Bookings
        PROVE  SagaFits(b)'
    <2>1. SagaFits(b) /\ saga' = saga
      BY DEF FlowsInv
    <2>2. gateway'[b] = gateway[b] \/ (Paid(b) /\ Paid(b)')
      BY DEF Grows
    <2> QED BY <2>1, <2>2 DEF SagaFits, Paid, Early, Charged
  <1>4. \A k \in Cancellers : CancFits(k)'
    BY DEF FlowsInv, CancFits
  <1>5. \A b \in Bookings : event'[b] => Paid(b)'
    BY DEF FlowsInv, Grows
  <1> QED BY <1>1, <1>2, <1>3, <1>4, <1>5 DEF FlowsInv

LEMMA CancMoves ==
  ASSUME FlowsInv, NEW k \in Cancellers, NEW x \in CancCall,
         canc' = [canc EXCEPT ![k] = x], CancFits(k)',
         UNCHANGED <<saga, conf, world>>
  PROVE  FlowsInv' /\ Grows
  <1>1. canc' \in [Cancellers -> CancCall]
    BY DEF FlowsInv
  <1>2. \A d \in Cancellers : CancFits(d)'
    BY DEF FlowsInv, CancFits
  <1>3. \A b \in Bookings : SagaFits(b)' /\ (event'[b] => Paid(b)')
    BY DEF FlowsInv, SagaFits, Paid, world
  <1>4. \A c \in Confirmers : ConfFits(c)'
    BY DEF FlowsInv, ConfFits, PaidFor, world
  <1>5. Grows
    BY DEF Grows, Paid, PaidFor, world
  <1> QED BY <1>1, <1>2, <1>3, <1>4, <1>5 DEF FlowsInv, world
-----------------------------------------------------------------------------
\* One action after the other: executeBookingPayment.

\* Turns of the saga that need no news of the order.
Reaches(b, pc) ==
  /\ saga[b].pc # "idle" /\ pc \in SagaPC \ {"idle", "payinsert"}
  /\ pc \in Early => saga[b].pc \in Early
  /\ pc \in Charged => saga[b].pc \in Charged

LEMMA SagaTurns ==
  ASSUME FlowsInv, NEW b \in Bookings, NEW pc, Reaches(b, pc),
         SagaGoto(b, pc) \/ SagaLoop(b, pc), UNCHANGED <<conf, canc, world>>
  PROVE  FlowsInv' /\ Grows
  <1>1. SagaMoves(b)
    BY SagaGoes DEF Reaches, SagaMoves, SagaFits, FlowsInv, world, Paid
  <1> QED BY <1>1, SagaOnly DEF world

LEMMA SagaTakesNext ==
  ASSUME FlowsInv, NEW b \in Bookings, NEW s \in Seats, saga[b].pc # "idle",
         SagaNext(b, s), UNCHANGED <<conf, canc, world>>
  PROVE  FlowsInv' /\ Grows
  <1>1. SagaMoves(b)
    BY SagaNexts DEF SagaMoves, SagaFits, FlowsInv, world, Paid
  <1> QED BY <1>1, SagaOnly DEF world

LEMMA StartSagaIInv ==
  ASSUME IInv, NEW b \in Bookings, NEW u \in Users, NEW W \in SUBSET Seats,
         NEW n \in 1 .. MaxPassengers, StartSaga(b, u, W, n)
  PROVE  IInv'
  <1>1. SagaMoves(b)
    BY DEF IInv, FlowsInv, StartSaga, SagaMoves, SagaFits, SagaCall, SagaPC, Early,
           Charged, world
  <1>2. FlowsInv' /\ Grows
    BY <1>1, SagaOnly DEF IInv, StartSaga, world
  <1> QED BY <1>2, TablesStay DEF IInv, StartSaga

LEMMA CheckLockIInv ==
  ASSUME IInv, NEW b \in Bookings, NEW s \in Seats, CheckLock(b, s)
  PROVE  IInv'
  <1>1. Reaches(b, "done") /\ saga[b].pc # "idle"
    BY DEF CheckLock, SagaAt, Reaches, SagaPC, Early, Charged
  <1>2. FlowsInv' /\ Grows
    BY <1>1, SagaTurns, SagaTakesNext DEF IInv, CheckLock
  <1> QED BY <1>2, TablesStay DEF IInv, CheckLock

LEMMA SagaBeginIInv ==
  ASSUME IInv, NEW b \in Bookings, SagaBegin(b)
  PROVE  IInv'
  <1>1. PICK pc \in {"insert", "cbooking", "sbooking", "rbooking"} :
          Reaches(b, pc) /\ SagaGoto(b, pc)
    BY DEF SagaBegin, SagaAt, Reaches, SagaPC, Early, Charged
  <1>2. FlowsInv' /\ Grows
    BY <1>1, SagaTurns DEF IInv, SagaBegin
  <1> QED BY <1>2, BeginTables DEF IInv, SagaBegin, Flow

LEMMA InsertBookingIInv ==
  ASSUME IInv, NEW b \in Bookings, InsertBooking(b)
  PROVE  IInv'
  <1>1. Reaches(b, "attach")
    BY DEF InsertBooking, SagaAt, Reaches, SagaPC, Early, Charged
  <1>2. FlowsInv' /\ Grows
    BY <1>1, SagaTurns DEF IInv, InsertBooking
  <1>3. saga'[b].pc # "idle"
    BY <1>1, <1>2 DEF Grows, Reaches
  <1> QED BY <1>2, <1>3, BookingWritten DEF IInv, InsertBooking

LEMMA AttachSeatIInv ==
  ASSUME IInv, NEW b \in Bookings, NEW s \in Seats, AttachSeat(b, s)
  PROVE  IInv'
  <1>1. Reaches(b, "rollback") /\ saga[b].pc # "idle"
    BY DEF AttachSeat, SagaAt, Reaches, SagaPC, Early, Charged
  <1>2. FlowsInv' /\ Grows
    BY <1>1, SagaTurns, SagaTakesNext DEF IInv, AttachSeat
  <1>3. CASE UNCHANGED seat
    BY <1>2, <1>3, TablesStay DEF IInv, AttachSeat, tables
  <1>4. CASE seat[s].locked_by = saga[b].user /\ seat' = [seat EXCEPT ![s].booking_id = b]
    <2>1. /\ seat \in [Seats -> SeatRow] /\ Named(seat)
          /\ saga[b].user \in Users /\ s \in saga[b].want
      BY <1>1 DEF IInv, TablesInv, FlowsInv, SagaFits, AttachSeat
    <2> DEFINE row == [seat[s] EXCEPT !.booking_id = b]
    <2>2. /\ row \in SeatRow /\ row.booking_id = b
          /\ row.status = seat[s].status /\ row.status # "BOOKED"
      BY <1>4, <2>1, SeatsAssumption DEF SeatRow, Named
    <2>3. seat' = [seat EXCEPT ![s] = row]
      BY <1>4
    <2> HIDE DEF row
    <2>4. seat' \in [Seats -> SeatRow]
      BY <2>1, <2>2, <2>3
    <2>5. Named(seat)'
      <3>1. saga'[b].pc # "idle" /\ s \in saga'[b].want
        BY <1>1, <1>2, <2>1 DEF Grows
      <3> QED BY <1>2, <2>1, <2>2, <2>3, <3>1, NamedStays DEF Named
    <2> QED BY <1>2, <2>4, <2>5, SeatsWritten DEF IInv, AttachSeat
  <1> QED BY <1>2, <1>3, <1>4 DEF AttachSeat, IInv

LEMMA SagaCommitIInv ==
  ASSUME IInv, NEW b \in Bookings, SagaCommit(b)
  PROVE  IInv'
  <1>1. PICK pc \in {"pay", "snotify", "done"} : Reaches(b, pc) /\ SagaGoto(b, pc)
    BY DEF SagaCommit, SagaAt, Reaches, SagaPC, Early, Charged
  <1>2. FlowsInv' /\ Grows
    BY <1>1, SagaTurns DEF IInv, SagaCommit
  <1> QED BY <1>2, CommitTables DEF IInv, SagaCommit

LEMMA SagaNotifyIInv ==
  ASSUME IInv, NEW b \in Bookings, SagaNotify(b)
  PROVE  IInv'
  <1>1. PICK pc \in {"done", "srollback"} : Reaches(b, pc) /\ SagaGoto(b, pc)
    BY DEF SagaNotify, SagaAt, Reaches, SagaPC, Early, Charged
  <1>2. FlowsInv' /\ Grows
    BY <1>1, SagaTurns DEF IInv, SagaNotify
  <1> QED BY <1>2, TablesStay DEF IInv, SagaNotify

LEMMA SagaRollbackIInv ==
  ASSUME IInv, NEW b \in Bookings, SagaRollback(b)
  PROVE  IInv'
  <1>1. CASE saga[b].pc = "rollback" /\ SagaGoto(b, "done") /\ UNCHANGED gateway
    <2>1. Reaches(b, "done")
      BY <1>1 DEF Reaches, SagaPC, Early, Charged
    <2> QED BY <1>1, <2>1, SagaTurns, RollbackTables DEF IInv, SagaRollback, world
  <1>2. CASE /\ saga[b].pc = "srollback" /\ SagaGoto(b, "rbegin")
             /\ gateway' = [gateway EXCEPT ![b] = "refunded"]
    <2>1. SagaMoves(b)
      <3>1. SagaFits(b)
        BY DEF IInv, FlowsInv
      <3> QED BY <1>2, <3>1, SagaGoes
          DEF IInv, SagaRollback, SagaMoves, SagaFits, SagaPC, Early, Charged
    <2>2. FlowsInv' /\ Grows
      BY <1>2, <2>1, SagaAndOrder DEF IInv
    <2> QED BY <2>2, RollbackTables DEF IInv, SagaRollback
  <1> QED BY <1>1, <1>2 DEF SagaRollback, SagaAt

LEMMA CreateOrderIInv ==
  ASSUME IInv, NEW b \in Bookings, CreateOrder(b)
  PROVE  IInv'
  <1>1. FlowsInv' /\ Grows
    <2>1. CASE SagaGoto(b, "payinsert") /\ gateway' = [gateway EXCEPT ![b] = "created"]
      <3>1. gateway[b] = "none" /\ gateway'[b] = "created"
        BY <2>1 DEF IInv, FlowsInv, SagaFits, CreateOrder, SagaAt, Early
      <3>2. SagaMoves(b)
        BY <2>1, <3>1, SagaGoes
        DEF IInv, FlowsInv, CreateOrder, SagaAt, SagaMoves, SagaFits, SagaPC, Early, Charged
      <3> QED BY <2>1, <3>1, <3>2, SagaAndOrder DEF IInv, Paid
    <2>2. CASE SagaGoto(b, "cbegin") /\ UNCHANGED gateway
      <3>1. Reaches(b, "cbegin")
        BY DEF CreateOrder, SagaAt, Reaches, SagaPC, Early, Charged
      <3> QED BY <2>2, <3>1, SagaTurns DEF IInv, CreateOrder, world
    <2> QED BY <2>1, <2>2 DEF CreateOrder
  <1> QED BY <1>1, TablesStay DEF IInv, CreateOrder

LEMMA InsertPaymentIInv ==
  ASSUME IInv, NEW b \in Bookings, InsertPayment(b)
  PROVE  IInv'
  <1>1. PICK pc \in {"done", "cbegin"} : Reaches(b, pc) /\ SagaGoto(b, pc)
    BY DEF InsertPayment, SagaAt, Reaches, SagaPC, Early, Charged
  <1>2. gateway[b] = "created"
    BY DEF IInv, FlowsInv, SagaFits, InsertPayment, SagaAt
  <1>3. FlowsInv' /\ Grows
    <2>1. CASE UNCHANGED gateway
      BY <1>1, <2>1, SagaTurns DEF IInv, InsertPayment, world
    <2>2. CASE gateway' = [gateway EXCEPT ![b] = "lost"]
      <3>1. SagaMoves(b)
        BY <1>1, SagaGoes DEF IInv, FlowsInv, InsertPayment, SagaMoves, SagaFits, Reaches,
           Early, Charged
      <3> QED BY <1>2, <2>2, <3>1, SagaAndOrder DEF IInv, Paid
    <2> QED BY <2>1, <2>2 DEF InsertPayment
  <1>4. gateway'[b] # "none"
    BY <1>2, <1>3 DEF Grows
  <1>5. CASE UNCHANGED payment
    BY <1>3, <1>5, TablesStay DEF IInv, InsertPayment, tables
  <1>6. CASE SetPayment(b, "PENDING")
    BY <1>3, <1>4, <1>6, PaymentWritten DEF IInv, InsertPayment
  <1> QED BY <1>5, <1>6 DEF InsertPayment

LEMMA SimulatePaymentIInv ==
  ASSUME IInv, NEW b \in Bookings, SimulatePayment(b)
  PROVE  IInv'
  <1>1. FlowsInv' /\ Grows
    <2>1. CASE SagaGoto(b, "sbegin") /\ gateway' = [gateway EXCEPT ![b] = "captured"]
      <3>1. gateway'[b] = "captured"
        BY <2>1 DEF IInv, FlowsInv
      <3>2. SagaMoves(b)
        BY <2>1, <3>1, SagaGoes
        DEF IInv, FlowsInv, SimulatePayment, SagaAt, SagaMoves, SagaFits, SagaPC, Early, Charged, Paid
      <3> QED BY <2>1, <3>2, SagaAndOrder DEF IInv
    <2>2. CASE SagaGoto(b, "cbegin") /\ UNCHANGED gateway
      <3>1. Reaches(b, "cbegin")
        BY DEF SimulatePayment, SagaAt, Reaches, SagaPC, Early, Charged
      <3> QED BY <2>2, <3>1, SagaTurns DEF IInv, SimulatePayment, world
    <2> QED BY <2>1, <2>2 DEF SimulatePayment
  <1> QED BY <1>1, TablesStay DEF IInv, SimulatePayment

LEMMA SagaSetsBookingIInv ==
  ASSUME IInv, NEW b \in Bookings, SagaSetsBooking(b)
  PROVE  IInv'
  <1>1. PICK pc \in {"cseats", "sseats", "rseats"} : Reaches(b, pc) /\ SagaGoto(b, pc)
    BY DEF SagaSetsBooking, SagaAt, Reaches, SagaPC, Early, Charged
  <1>2. FlowsInv' /\ Grows /\ saga'[b].pc # "idle"
    BY <1>1, SagaTurns DEF IInv, SagaSetsBooking, Grows, Reaches
  <1>3. PICK status \in {"CANCELLED", "CONFIRMED", "REFUNDED"} :
          SetBooking(b, status) /\ (status = "CONFIRMED" => saga[b].pc = "sbooking")
    BY DEF SagaSetsBooking, SagaAt
  <1>4. status = "CONFIRMED" => PaidFor(b)'
    BY <1>2, <1>3 DEF IInv, FlowsInv, SagaFits, Charged, Grows, Paid, PaidFor
  <1> QED BY <1>2, <1>3, <1>4, BookingWritten DEF IInv, SagaSetsBooking

LEMMA SimulatedBookSeatsIInv ==
  ASSUME IInv, NEW b \in Bookings, SimulatedBookSeats(b)
  PROVE  IInv'
  <1>1. PICK pc \in {"srollback", "scommit"} : Reaches(b, pc) /\ SagaGoto(b, pc)
    BY DEF SimulatedBookSeats, SagaAt, Reaches, SagaPC, Early, Charged
  <1>2. FlowsInv' /\ Grows
    BY <1>1, SagaTurns DEF IInv, SimulatedBookSeats
  <1>3. PaidFor(b)
    BY DEF IInv, FlowsInv, SagaFits, SimulatedBookSeats, SagaAt, Charged, Paid, PaidFor
  <1>4. \A s \in Seats : Tame(BookRow(seat[s]), seat[s], PaidFor(b))
    BY <1>3, NewRows DEF IInv, TablesInv, Named, Tame
  <1> QED BY <1>2, <1>4, SeatsOfRewritten DEF IInv, SimulatedBookSeats

LEMMA CompensateSeatsIInv ==
  ASSUME IInv, NEW b \in Bookings, CompensateSeats(b)
  PROVE  IInv'
  <1>1. PICK pc \in {"crelease", "rcommit"} :
          Reaches(b, pc) /\ (SagaGoto(b, pc) \/ SagaLoop(b, pc))
    BY DEF CompensateSeats, SagaAt, Reaches, SagaPC, Early, Charged
  <1>2. FlowsInv' /\ Grows
    BY <1>1, SagaTurns DEF IInv, CompensateSeats
  <1>3. \A s \in Seats : /\ Tame(Detach(seat[s]), seat[s], PaidFor(b))
                         /\ Tame(FreeRow(seat[s]), seat[s], PaidFor(b))
    BY NewRows DEF IInv, TablesInv, Named, Tame
  <1> QED BY <1>2, <1>3, SeatsOfRewritten DEF IInv, CompensateSeats

LEMMA CompensateReleaseIInv ==
  ASSUME IInv, NEW b \in Bookings, NEW s \in Seats, CompensateRelease(b, s)
  PROVE  IInv'
  <1> DEFINE pc == IF saga[b].todo = {s} THEN "ccommit" ELSE saga[b].pc
  <1>1. saga \in [Bookings -> SagaCall] /\ SagaFits(b) /\ saga[b].pc = "crelease"
    BY DEF IInv, FlowsInv, CompensateRelease, SagaAt
  <1>2. saga' = [saga EXCEPT ![b] = [saga[b] EXCEPT !.todo = saga[b].todo \ {s}, !.pc = pc]]
    BY <1>1 DEF CompensateRelease, SagaCall
  <1>3. [saga[b] EXCEPT !.todo = saga[b].todo \ {s}, !.pc = pc] \in SagaCall
    BY <1>1 DEF SagaCall, SagaPC
  <1>4. SagaMoves(b)
    <2>1. /\ saga' \in [Bookings -> SagaCall]
          /\ \A d \in Bookings \ {b} : saga'[d] = saga[d]
      BY <1>1, <1>2, <1>3
    <2>2. saga'[b].pc \in {"crelease", "ccommit"} /\ saga'[b].user = saga[b].user
      BY <1>1, <1>2 DEF SagaCall
    <2> QED BY <1>1, <2>1, <2>2
        DEF CompensateRelease, SagaMoves, SagaFits, Early, Charged, world
  <1>5. FlowsInv' /\ Grows
    BY <1>4, SagaOnly DEF IInv, CompensateRelease, world
  <1>6. Tame(UnlockRow(seat[s]), seat[s], FALSE)
    BY NewRows DEF IInv, TablesInv, Named
  <1> QED BY <1>5, <1>6, SeatRewritten, TablesStay DEF IInv, CompensateRelease, tables
-----------------------------------------------------------------------------
\* Confirmations.

Events ==
  event' \in [Bookings -> BOOLEAN] /\ \A b \in Bookings : event'[b] => event[b]

\* A confirmer whose order was paid goes on.
Asking == {"idle", "fetch", "rejected"}
Confirms(c, pc) == conf[c].pc \notin Asking /\ pc \in ConfPC \ Asking

LEMMA EventsStay == ASSUME FlowsInv, UNCHANGED event PROVE Events
  BY DEF FlowsInv, Events

LEMMA EventAnswered ==
  ASSUME FlowsInv, NEW c \in Confirmers, Answered(c)
  PROVE  Events
  BY DEF FlowsInv, Events, Answered

LEMMA WorldStays == ASSUME UNCHANGED <<saga, gateway, claimed>> PROVE Grows
  BY DEF Grows, Paid, PaidFor

LEMMA ConfTurns ==
  ASSUME FlowsInv, NEW c \in Confirmers, NEW pc, Confirms(c, pc), ConfGoto(c, pc),
         Grows, gateway' \in [Bookings -> OrderStatus],
         \A b \in Bookings : gateway'[b] = gateway[b] \/ Paid(b),
         Events, UNCHANGED <<saga, canc, razorpay, claimed, crashes>>
  PROVE  FlowsInv'
  <1> DEFINE x == [conf[c] EXCEPT !.pc = pc]
  <1>1. /\ conf \in [Confirmers -> ConfCall] /\ x \in ConfCall
        /\ x.pc = pc /\ x.booking = conf[c].booking
    BY DEF FlowsInv, ConfCall, Confirms
  <1>2. conf' = [conf EXCEPT ![c] = x] /\ conf'[c] = x
    BY <1>1 DEF ConfGoto
  <1>3. ConfFits(c)'
    BY <1>1, <1>2 DEF FlowsInv, ConfFits, Confirms, Asking, Grows
  <1>4. event' \in [Bookings -> BOOLEAN] /\ claimed' \in [Bookings -> BOOLEAN]
    BY DEF FlowsInv, Events
  <1> HIDE DEF x
  <1> QED BY <1>1, <1>2, <1>3, <1>4, ConfMoves DEF Events

LEMMA ConfEnds ==
  ASSUME FlowsInv, NEW c \in Confirmers, ConfDone(c), Events,
         UNCHANGED <<saga, canc, gateway, razorpay, claimed, crashes>>
  PROVE  FlowsInv' /\ Grows
  <1>1. IdleTask \in ConfCall /\ conf' = [conf EXCEPT ![c] = IdleTask]
    BY DEF IdleTask, ConfCall, ConfPC, ConfDone
  <1>2. ConfFits(c)'
    BY <1>1 DEF FlowsInv, ConfFits, IdleTask
  <1> QED BY <1>1, <1>2, ConfMoves, WorldStays DEF Events, FlowsInv

\* What a confirmer whose order was paid knows of its booking.
LEMMA ConfKnows ==
  ASSUME FlowsInv, NEW c \in Confirmers, conf[c].pc \notin Asking
  PROVE  LET b == conf[c].booking IN
         /\ b \in Bookings /\ PaidFor(b) /\ gateway[b] # "none"
         /\ saga[b].pc # "idle"
  BY DEF FlowsInv, ConfFits, SagaFits, Asking, Early

LEMMA WebhookIInv ==
  ASSUME IInv, NEW c \in Confirmers, NEW b \in Bookings,
         SignedWebhook(c, b) \/ UnsignedWebhook(c, b)
  PROVE  IInv'
  <1>1. [pc |-> "read", booking |-> b] \in ConfCall
    BY DEF ConfCall, ConfPC
  <1>2. /\ \A d \in Bookings : claimed[d] => claimed'[d]
        /\ claimed' \in [Bookings -> BOOLEAN]
        /\ event[b] \/ claimed'[b]
    BY DEF IInv, FlowsInv, SignedWebhook, UnsignedWebhook
  <1>3. Grows /\ Webhook(c, b)
    BY <1>2 DEF Grows, Paid, PaidFor, Webhook, SignedWebhook, UnsignedWebhook
  <1>4. gateway[b] # "none" /\ PaidFor(b)'
    BY <1>2, <1>3 DEF IInv, TablesInv, Backed, FlowsInv, Webhook, Paid, PaidFor
  <1>5. ConfFits(c)'
    BY <1>3, <1>4 DEF IInv, FlowsInv, Webhook, ConfFits
  <1>6. FlowsInv'
    BY <1>1, <1>2, <1>3, <1>5, ConfMoves DEF IInv, FlowsInv, Webhook
  <1> QED BY <1>3, <1>6, TablesStay DEF IInv, Webhook

LEMMA VerifyIInv ==
  ASSUME IInv, NEW c \in Confirmers, NEW b \in Bookings, Verify(c, b)
  PROVE  IInv'
  <1> DEFINE x == [pc |-> IF payment[b] = "PENDING" THEN "fetch" ELSE "read", booking |-> b]
  <1>1. x \in ConfCall /\ x.booking = b /\ conf' = [conf EXCEPT ![c] = x]
    BY DEF ConfCall, ConfPC, Verify
  <1>2. /\ gateway[b] # "none"
        /\ x.pc = "read" => PaidFor(b)
        /\ x.pc \in {"fetch", "read"}
    BY DEF IInv, TablesInv, Backed, Verify
  <1>3. ConfFits(c)'
    BY <1>1, <1>2 DEF IInv, FlowsInv, Verify, ConfFits, PaidFor, world
  <1>4. FlowsInv' /\ Grows
    BY <1>1, <1>3, ConfMoves, WorldStays, EventsStay
    DEF IInv, FlowsInv, Verify, world, Events
  <1> QED BY <1>4, TablesStay DEF IInv, Verify

LEMMA FetchOrderIInv ==
  ASSUME IInv, NEW c \in Confirmers, FetchOrder(c)
  PROVE  IInv'
  <1>1. Grows /\ Events
    BY WorldStays, EventsStay DEF IInv, FetchOrder, world
  <1>2. CASE ConfGoto(c, IF gateway[conf[c].booking] \in {"captured", "refunded"}
                        THEN "verified" ELSE "rejected")
    <2> DEFINE x == [conf[c] EXCEPT !.pc =
                       IF gateway[conf[c].booking] \in {"captured", "refunded"}
                       THEN "verified" ELSE "rejected"]
    <2>1. /\ conf[c] \in ConfCall /\ x \in ConfCall /\ x.booking = conf[c].booking
          /\ conf' = [conf EXCEPT ![c] = x] /\ conf'[c] = x
      BY <1>2 DEF IInv, FlowsInv, ConfCall, ConfPC, ConfGoto
    <2>2. /\ conf[c].booking \in Bookings /\ gateway[conf[c].booking] # "none"
          /\ gateway[conf[c].booking] \in OrderStatus
      BY DEF IInv, FlowsInv, ConfFits, FetchOrder, ConfAt
    <2>3. ConfFits(c)'
      BY <2>1, <2>2 DEF FetchOrder, ConfFits, ConfCall, PaidFor, world
    <2>4. FlowsInv'
      BY <1>1, <2>1, <2>3, ConfMoves DEF IInv, FlowsInv, FetchOrder, world, Events
    <2> QED BY <1>1, <2>4, TablesStay DEF IInv, FetchOrder
  <1>3. CASE ConfDone(c)
    BY <1>1, <1>3, ConfEnds, TablesStay DEF IInv, FetchOrder, world
  <1> QED BY <1>2, <1>3 DEF FetchOrder

LEMMA RecordVerdictIInv ==
  ASSUME IInv, NEW c \in Confirmers, RecordVerdict(c)
  PROVE  IInv'
  <1>1. Grows /\ Events
    BY WorldStays, EventsStay DEF IInv, RecordVerdict, world
  <1>2. CASE /\ conf[c].pc = "verified" /\ SetPayment(conf[c].booking, "SUCCESS")
             /\ ConfGoto(c, "read")
    <2>1. FlowsInv'
      BY <1>1, <1>2, ConfTurns DEF IInv, FlowsInv, RecordVerdict, Confirms, Asking, ConfPC, world
    <2> QED BY <1>1, <1>2, <2>1, ConfKnows, PaymentWritten
        DEF IInv, RecordVerdict, Asking, world, Grows
  <1>3. CASE /\ conf[c].pc = "rejected" /\ SetPayment(conf[c].booking, "FAILED")
             /\ ConfDone(c)
    <2>1. conf[c].booking \in Bookings /\ gateway'[conf[c].booking] # "none"
      BY <1>3 DEF IInv, FlowsInv, ConfFits, RecordVerdict, world
    <2>2. FlowsInv'
      BY <1>1, <1>3, ConfEnds DEF IInv, RecordVerdict, world
    <2> QED BY <1>1, <1>3, <2>1, <2>2, PaymentWritten DEF IInv, RecordVerdict
  <1> QED BY <1>2, <1>3 DEF RecordVerdict, ConfAt

LEMMA ReadBookingIInv ==
  ASSUME IInv, NEW c \in Confirmers, ReadBooking(c)
  PROVE  IInv'
  <1>1. Grows
    BY WorldStays DEF ReadBooking
  <1>2. CASE ConfDone(c) /\ Answered(c)
    BY <1>1, <1>2, EventAnswered, ConfEnds, TablesStay DEF IInv, ReadBooking
  <1>3. CASE ConfGoto(c, "paid") /\ UNCHANGED event
    <2>1. Confirms(c, "paid")
      BY DEF ReadBooking, ConfAt, Confirms, Asking, ConfPC
    <2>2. FlowsInv'
      BY <1>1, <1>3, <2>1, EventsStay, ConfTurns DEF IInv, FlowsInv, ReadBooking
    <2> QED BY <1>1, <2>2, TablesStay DEF IInv, ReadBooking
  <1> QED BY <1>2, <1>3 DEF ReadBooking

\* Steps of a confirmer that only go on, or write a table.
LEMMA ConfGoesOn ==
  ASSUME FlowsInv, NEW c \in Confirmers, NEW pc, Confirms(c, pc), ConfGoto(c, pc),
         UNCHANGED <<saga, canc, world>>
  PROVE  FlowsInv' /\ Grows
  BY WorldStays, EventsStay, ConfTurns DEF FlowsInv, world

LEMMA SetPaidIInv ==
  ASSUME IInv, NEW c \in Confirmers, SetPaid(c)
  PROVE  IInv'
  <1>1. Confirms(c, "begin")
    BY DEF SetPaid, ConfAt, Confirms, Asking, ConfPC
  <1>2. FlowsInv' /\ Grows
    BY <1>1, ConfGoesOn DEF IInv, SetPaid
  <1> QED BY <1>1, <1>2, ConfKnows, PaymentWritten DEF IInv, SetPaid, Confirms, Grows

LEMMA ConfBeginIInv ==
  ASSUME IInv, NEW c \in Confirmers, ConfBegin(c)
  PROVE  IInv'
  <1>1. Confirms(c, "validate")
    BY DEF ConfBegin, ConfAt, Confirms, Asking, ConfPC
  <1>2. FlowsInv' /\ Grows
    BY <1>1, ConfGoesOn DEF IInv, ConfBegin
  <1> QED BY <1>2, BeginTables DEF IInv, ConfBegin, Flow

LEMMA ValidateIInv ==
  ASSUME IInv, NEW c \in Confirmers, Validate(c)
  PROVE  IInv'
  <1>1. PICK pc \in {"booking", "rollback"} : Confirms(c, pc) /\ ConfGoto(c, pc)
    BY DEF Validate, ConfAt, Confirms, Asking, ConfPC
  <1>2. FlowsInv' /\ Grows
    BY <1>1, ConfGoesOn DEF IInv, Validate
  <1> QED BY <1>2, TablesStay DEF IInv, Validate

\* The booking that a confirmer writes is paid for.
LEMMA ConfirmBookingIInv ==
  ASSUME IInv, NEW c \in Confirmers, ConfirmBooking(c)
  PROVE  IInv'
  <1>1. Confirms(c, "seats")
    BY DEF ConfirmBooking, ConfAt, Confirms, Asking, ConfPC
  <1>2. FlowsInv' /\ Grows
    BY <1>1, ConfGoesOn DEF IInv, ConfirmBooking
  <1> QED BY <1>1, <1>2, ConfKnows, BookingWritten
      DEF IInv, ConfirmBooking, Confirms, Grows

LEMMA BookSeatsIInv ==
  ASSUME IInv, NEW c \in Confirmers, BookSeats(c)
  PROVE  IInv'
  <1>1. Confirms(c, "commit")
    BY DEF BookSeats, ConfAt, Confirms, Asking, ConfPC
  <1>2. FlowsInv' /\ Grows
    BY <1>1, ConfGoesOn DEF IInv, BookSeats
  <1>3. conf[c].booking \in Bookings /\ PaidFor(conf[c].booking)
    BY <1>1, ConfKnows DEF IInv, Confirms
  <1>4. \A s \in Seats : Tame(BookRow(seat[s]), seat[s], PaidFor(conf[c].booking))
    BY <1>3, NewRows DEF IInv, TablesInv, Named, Tame
  <1> DEFINE new == [s \in Seats |-> BookRow(seat[s])]
  <1>5. \A s \in Seats : Tame(new[s], seat[s], PaidFor(conf[c].booking))
    BY <1>4
  <1>6. UpdateSeatsOf(conf[c].booking, new)
    BY DEF BookSeats
  <1> HIDE DEF new
  <1> QED BY <1>2, <1>3, <1>5, <1>6, SeatsOfRewritten DEF IInv, BookSeats

LEMMA ConfCommitIInv ==
  ASSUME IInv, NEW c \in Confirmers, ConfCommit(c)
  PROVE  IInv'
  <1>1. Confirms(c, "notify")
    BY DEF ConfCommit, ConfAt, Confirms, Asking, ConfPC
  <1>2. FlowsInv' /\ Grows
    BY <1>1, ConfGoesOn DEF IInv, ConfCommit
  <1> QED BY <1>2, CommitTables DEF IInv, ConfCommit

LEMMA ConfNotifyIInv ==
  ASSUME IInv, NEW c \in Confirmers, ConfNotify(c)
  PROVE  IInv'
  <1>1. CASE ConfDone(c) /\ Answered(c)
    BY <1>1, EventAnswered, ConfEnds, TablesStay DEF IInv, ConfNotify
  <1>2. CASE ConfGoto(c, "rollback") /\ UNCHANGED event
    <2>1. Confirms(c, "rollback")
      BY DEF ConfNotify, ConfAt, Confirms, Asking, ConfPC
    <2>2. FlowsInv' /\ Grows
      BY <1>2, <2>1, ConfGoesOn DEF IInv, ConfNotify, world
    <2> QED BY <2>2, TablesStay DEF IInv, ConfNotify
  <1> QED BY <1>1, <1>2 DEF ConfNotify

LEMMA ConfRollbackIInv ==
  ASSUME IInv, NEW c \in Confirmers, ConfRollback(c)
  PROVE  IInv'
  <1>1. Confirms(c, "refund")
    BY DEF ConfRollback, ConfAt, Confirms, Asking, ConfPC
  <1>2. FlowsInv' /\ Grows
    BY <1>1, ConfGoesOn DEF IInv, ConfRollback
  <1> QED BY <1>2, RollbackTables DEF IInv, ConfRollback

LEMMA RefundReadsIInv ==
  ASSUME IInv, NEW c \in Confirmers, RefundReads(c)
  PROVE  IInv'
  <1>1. PICK pc \in {"gwrefund", "compbooking"} : Confirms(c, pc) /\ ConfGoto(c, pc)
    BY DEF RefundReads, ConfAt, Confirms, Asking, ConfPC
  <1>2. FlowsInv' /\ Grows
    BY <1>1, ConfGoesOn DEF IInv, RefundReads
  <1> QED BY <1>2, TablesStay DEF IInv, RefundReads

LEMMA GatewayRefundsIInv ==
  ASSUME IInv, NEW c \in Confirmers, GatewayRefunds(c)
  PROVE  IInv'
  <1> DEFINE b == conf[c].booking
  <1>1. CASE /\ gateway[b] = "captured" /\ gateway' = [gateway EXCEPT ![b] = "refunded"]
             /\ ConfGoto(c, "payrefund")
    <2>1. Confirms(c, "payrefund")
      BY DEF GatewayRefunds, ConfAt, Confirms, Asking, ConfPC
    <2>2. \A d \in Bookings : gateway'[d] = IF d = b THEN "refunded" ELSE gateway[d]
      BY <1>1 DEF IInv, FlowsInv
    <2>3. gateway' \in [Bookings -> OrderStatus] /\ Grows
      BY <1>1, <2>2 DEF IInv, FlowsInv, Grows, Paid, PaidFor, GatewayRefunds
    <2>4. FlowsInv'
      <3>1. \A d \in Bookings : gateway'[d] = gateway[d] \/ Paid(d)
        BY <1>1, <2>2 DEF Paid
      <3>2. Events /\ UNCHANGED <<saga, canc, razorpay, claimed, crashes>>
        BY EventsStay DEF IInv, GatewayRefunds
      <3> QED BY <1>1, <2>1, <2>3, <3>1, <3>2, ConfTurns DEF IInv
    <2> QED BY <2>3, <2>4, TablesStay DEF IInv, GatewayRefunds
  <1>2. CASE UNCHANGED gateway /\ ConfGoto(c, "compbooking")
    <2>1. Confirms(c, "compbooking")
      BY DEF GatewayRefunds, ConfAt, Confirms, Asking, ConfPC
    <2>2. FlowsInv' /\ Grows
      BY <1>2, <2>1, ConfGoesOn DEF IInv, GatewayRefunds, world
    <2> QED BY <2>2, TablesStay DEF IInv, GatewayRefunds
  <1> QED BY <1>1, <1>2 DEF GatewayRefunds

LEMMA RecordRefundIInv ==
  ASSUME IInv, NEW c \in Confirmers, RecordRefund(c)
  PROVE  IInv'
  <1>1. Confirms(c, "compbooking")
    BY DEF RecordRefund, ConfAt, Confirms, Asking, ConfPC
  <1>2. FlowsInv' /\ Grows
    BY <1>1, ConfGoesOn DEF IInv, RecordRefund
  <1> QED BY <1>1, <1>2, ConfKnows, PaymentWritten DEF IInv, RecordRefund, Confirms, Grows

LEMMA ConfCompensateBookingIInv ==
  ASSUME IInv, NEW c \in Confirmers, ConfCompensateBooking(c)
  PROVE  IInv'
  <1>1. Confirms(c, "compseats")
    BY DEF ConfCompensateBooking, ConfAt, Confirms, Asking, ConfPC
  <1>2. FlowsInv' /\ Grows
    BY <1>1, ConfGoesOn DEF IInv, ConfCompensateBooking
  <1> QED BY <1>1, <1>2, ConfKnows, BookingWritten
      DEF IInv, ConfCompensateBooking, Confirms, Grows

LEMMA ConfCompensateSeatsIInv ==
  ASSUME IInv, NEW c \in Confirmers, ConfCompensateSeats(c)
  PROVE  IInv'
  <1>1. FlowsInv' /\ Grows
    BY EventAnswered, ConfEnds DEF IInv, ConfCompensateSeats
  <1>2. conf[c].booking \in Bookings
    BY ConfKnows DEF IInv, ConfCompensateSeats, ConfAt, Asking
  <1>3. \A s \in Seats : Tame(DropRow(seat[s]), seat[s], PaidFor(conf[c].booking))
    BY NewRows DEF IInv, TablesInv, Named, Tame
  <1> QED BY <1>1, <1>2, <1>3, SeatsOfRewritten DEF IInv, ConfCompensateSeats

-----------------------------------------------------------------------------
\* Cancellations, locks, the customer, and a restart.

LEMMA CancTurns ==
  ASSUME FlowsInv, NEW k \in Cancellers, NEW pc \in CancPC, canc[k].pc # "idle",
         CancGoto(k, pc), UNCHANGED <<saga, conf, world>>
  PROVE  FlowsInv' /\ Grows
  <1> DEFINE x == [canc[k] EXCEPT !.pc = pc]
  <1>1. /\ canc \in [Cancellers -> CancCall] /\ x \in CancCall
        /\ x.booking = canc[k].booking
    BY DEF FlowsInv, CancCall
  <1>2. canc' = [canc EXCEPT ![k] = x] /\ canc'[k] = x
    BY <1>1 DEF CancGoto
  <1>3. CancFits(k)'
    BY <1>1, <1>2 DEF FlowsInv, CancFits
  <1> QED BY <1>1, <1>2, <1>3, CancMoves

LEMMA StartCancelIInv ==
  ASSUME IInv, NEW k \in Cancellers, NEW b \in Bookings, StartCancel(k, b)
  PROVE  IInv'
  <1>1. [pc |-> "begin", booking |-> b] \in CancCall
    BY DEF CancCall, CancPC
  <1>2. CancFits(k)'
    BY DEF IInv, TablesInv, Backed, FlowsInv, StartCancel, CancFits
  <1>3. FlowsInv' /\ Grows
    BY <1>1, <1>2, CancMoves DEF IInv, StartCancel
  <1> QED BY <1>3, TablesStay DEF IInv, StartCancel

LEMMA CancelBeginIInv ==
  ASSUME IInv, NEW k \in Cancellers, CancelBegin(k)
  PROVE  IInv'
  <1>1. FlowsInv' /\ Grows
    BY CancTurns DEF IInv, CancelBegin, CancAt, CancPC
  <1> QED BY <1>1, BeginTables DEF IInv, CancelBegin, Flow

LEMMA CancelBookingIInv ==
  ASSUME IInv, NEW k \in Cancellers, CancelBooking(k)
  PROVE  IInv'
  <1>1. FlowsInv' /\ Grows
    BY CancTurns DEF IInv, CancelBooking, CancAt, CancPC
  <1>2. canc[k].booking \in Bookings /\ saga[canc[k].booking].pc # "idle"
    BY DEF IInv, FlowsInv, CancFits, CancelBooking, CancAt
  <1> QED BY <1>1, <1>2, BookingWritten DEF IInv, CancelBooking

LEMMA CancelSeatsIInv ==
  ASSUME IInv, NEW k \in Cancellers, CancelSeats(k)
  PROVE  IInv'
  <1>1. FlowsInv' /\ Grows
    BY CancTurns DEF IInv, CancelSeats, CancAt, CancPC
  <1>2. canc[k].booking \in Bookings
    BY DEF IInv, FlowsInv, CancFits, CancelSeats, CancAt
  <1>3. \A s \in Seats : Tame(FreeRow(seat[s]), seat[s], PaidFor(canc[k].booking))
    BY NewRows DEF IInv, TablesInv, Named, Tame
  <1> QED BY <1>1, <1>2, <1>3, SeatsOfRewritten DEF IInv, CancelSeats

LEMMA CancelCommitIInv ==
  ASSUME IInv, NEW k \in Cancellers, CancelCommit(k)
  PROVE  IInv'
  <1>1. IdleTask \in CancCall
    BY DEF IdleTask, CancCall, CancPC
  <1>2. CancFits(k)'
    BY DEF IInv, FlowsInv, CancFits, CancelCommit, IdleTask
  <1>3. FlowsInv' /\ Grows
    BY <1>1, <1>2, CancMoves DEF IInv, CancelCommit
  <1> QED BY <1>3, CommitTables DEF IInv, CancelCommit

LEMMA LockingIInv ==
  ASSUME IInv, NEW s \in Seats,
         (\E u \in Users : LockSeat(u, s)) \/ Expire(s) \/ CleanSeat(s)
  PROVE  IInv'
  <1>1. UNCHANGED <<flows, world>>
    BY DEF LockSeat, Expire, CleanSeat
  <1>2. FlowsInv' /\ Grows
    BY <1>1 DEF IInv, FlowsInv, SagaFits, ConfFits, CancFits, Grows, Paid, PaidFor, flows, world
  <1>3. CASE Expire(s)
    BY <1>2, <1>3, ExpireTables DEF IInv
  <1>4. CASE (\E u \in Users : LockSeat(u, s)) \/ CleanSeat(s)
    <2>1. /\ Tame(UnlockRow(seat[s]), seat[s], FALSE)
          /\ \A u \in Users : Tame(LockRow(seat[s], u, Now + 1), seat[s], FALSE)
      BY NewRows DEF IInv, TablesInv, Named
    <2> QED BY <1>2, <1>4, <2>1, SeatRewritten DEF IInv, LockSeat, CleanSeat
  <1> QED BY <1>3, <1>4

LEMMA CaptureIInv ==
  ASSUME IInv, NEW b \in Bookings, Capture(b)
  PROVE  IInv'
  <1>1. /\ \A d \in Bookings : gateway'[d] = IF d = b THEN "captured" ELSE gateway[d]
        /\ gateway' \in [Bookings -> OrderStatus]
        /\ \A d \in Bookings : event'[d] = IF d = b THEN TRUE ELSE event[d]
        /\ event' \in [Bookings -> BOOLEAN]
    BY DEF IInv, FlowsInv, Capture
  <1>2. Grows
    BY <1>1 DEF Grows, Paid, PaidFor, Capture, flows
  <1>3. \A d \in Bookings : SagaFits(d)' /\ (event'[d] => Paid(d)')
    BY <1>1, <1>2 DEF IInv, FlowsInv, SagaFits, Grows, Paid, Capture, flows
  <1>4. \A c \in Confirmers : ConfFits(c)'
    BY <1>2 DEF IInv, FlowsInv, ConfFits, Grows, Capture, flows
  <1>5. \A k \in Cancellers : CancFits(k)'
    BY DEF IInv, FlowsInv, CancFits, Capture, flows
  <1>6. FlowsInv'
    BY <1>1, <1>3, <1>4, <1>5 DEF IInv, FlowsInv, Capture, flows
  <1> QED BY <1>2, <1>6, TablesStay DEF IInv, Capture

\* What a restart ends had no part in what the tables say.
LEMMA CrashIInv ==
  ASSUME IInv, Crash
  PROVE  IInv'
  <1>1. \A b \in Bookings :
          /\ saga'[b] \in SagaCall
          /\ saga'[b].user = saga[b].user /\ saga'[b].want = saga[b].want
          /\ saga'[b].pc = IF saga[b].pc = "idle" THEN "idle" ELSE "done"
          /\ saga'[b].todo \subseteq saga[b].todo
    <2> TAKE b \in Bookings
    <2>1. saga[b] \in SagaCall
      BY DEF IInv, FlowsInv
    <2>2. saga'[b] = IF saga[b].pc = "idle" THEN saga[b]
                     ELSE [saga[b] EXCEPT !.pc = "done", !.todo = {}]
      BY DEF Crash
    <2>3. CASE saga[b].pc = "idle"
      <3>1. saga'[b] = saga[b]
        BY <2>2, <2>3
      <3> QED BY <2>1, <2>3, <3>1
    <2>4. CASE saga[b].pc # "idle"
      <3>1. saga'[b] = [saga[b] EXCEPT !.pc = "done", !.todo = {}]
        BY <2>2, <2>4
      <3>2. "done" \in SagaPC
        BY DEF SagaPC
      <3> QED BY <2>1, <2>4, <3>1, <3>2 DEF SagaCall
    <2> QED BY <2>3, <2>4
  <1>2. /\ saga' \in [Bookings -> SagaCall]
        /\ gateway' = gateway /\ razorpay' = razorpay /\ event' = event
        /\ claimed' = claimed
        /\ crashes < MaxCrashes /\ crashes' = crashes + 1
    BY <1>1 DEF Crash
  <1>3. Grows
    BY <1>1, <1>2 DEF Grows, Paid, PaidFor
  <1>4. \A b \in Bookings : SagaFits(b)' /\ (event'[b] => Paid(b)')
    BY <1>1, <1>2 DEF IInv, FlowsInv, SagaFits, Paid, Early, Charged
  <1>5. conf' \in [Confirmers -> ConfCall] /\ canc' \in [Cancellers -> CancCall]
    BY DEF Crash, IdleTask, ConfCall, CancCall, ConfPC, CancPC
  <1>6. /\ \A c \in Confirmers : ConfFits(c)'
        /\ \A k \in Cancellers : CancFits(k)'
    BY DEF Crash, IdleTask, ConfFits, CancFits
  <1>7. crashes' \in 0 .. MaxCrashes
    BY <1>2, SagaAssumption DEF IInv, FlowsInv
  <1>8. FlowsInv'
    BY <1>2, <1>4, <1>5, <1>6, <1>7 DEF IInv, FlowsInv
  <1> QED BY <1>3, <1>8, RollbackTables DEF IInv, Crash
-----------------------------------------------------------------------------
LEMMA InitIInv ==
  ASSUME Init
  PROVE  IInv
  <1>1. seat \in [Seats -> SeatRow] /\ Backed(booking, payment) /\ TxInv
    BY DEF Init, FreshRow, SeatRow, SeatStatus, Backed, TxInv, NoTx
  <1>2. saga \in [Bookings -> SagaCall] /\ \A b \in Bookings : SagaFits(b)
    BY SagaAssumption DEF Init, IdleSaga, SagaCall, SagaPC, SagaFits, Charged
  <1>3. conf \in [Confirmers -> ConfCall] /\ \A c \in Confirmers : ConfFits(c)
    BY DEF Init, IdleTask, ConfCall, ConfPC, ConfFits
  <1>4. canc \in [Cancellers -> CancCall] /\ \A k \in Cancellers : CancFits(k)
    BY DEF Init, IdleTask, CancCall, CancPC, CancFits
  <1>5. crashes \in 0 .. MaxCrashes
    BY SagaAssumption DEF Init
  <1>6. Named(seat)
    BY SeatsAssumption DEF Init, FreshRow, Named
  <1> QED BY <1>1, <1>2, <1>3, <1>4, <1>5, <1>6 DEF Init, IInv, TablesInv, FlowsInv

LEMMA NextIInv ==
  ASSUME IInv, Next
  PROVE  IInv'
  <1>1. ASSUME NEW b \in Bookings, SagaStep(b)
        PROVE  IInv'
    BY <1>1, CheckLockIInv, AttachSeatIInv, CompensateReleaseIInv, SagaBeginIInv,
       InsertBookingIInv, SagaCommitIInv, SagaNotifyIInv, SagaRollbackIInv, CreateOrderIInv,
       InsertPaymentIInv, SimulatePaymentIInv, SagaSetsBookingIInv,
       SimulatedBookSeatsIInv, CompensateSeatsIInv DEF SagaStep
  <1>2. ASSUME NEW c \in Confirmers, ConfStep(c)
        PROVE  IInv'
    BY <1>2, FetchOrderIInv, RecordVerdictIInv, ReadBookingIInv, SetPaidIInv,
       ConfBeginIInv, ValidateIInv, ConfirmBookingIInv, BookSeatsIInv, ConfCommitIInv, ConfNotifyIInv,
       ConfRollbackIInv, RefundReadsIInv, GatewayRefundsIInv, RecordRefundIInv,
       ConfCompensateBookingIInv, ConfCompensateSeatsIInv DEF ConfStep
  <1>3. ASSUME NEW k \in Cancellers, CancStep(k)
        PROVE  IInv'
    BY <1>3, CancelBeginIInv, CancelBookingIInv, CancelSeatsIInv, CancelCommitIInv
    DEF CancStep
  <1>4. CASE Calls
    BY <1>4, StartSagaIInv, WebhookIInv, VerifyIInv, StartCancelIInv, CaptureIInv DEF Calls
  <1>5. CASE Locking
    BY <1>5, LockingIInv DEF Locking
  <1> QED BY <1>1, <1>2, <1>3, <1>4, <1>5, CrashIInv DEF Next

LEMMA StepIInv ==
  ASSUME IInv, [Next]_vars
  PROVE  IInv'
  <1>1. CASE UNCHANGED vars
    <2>1. Grows
      BY <1>1 DEF Grows, Paid, PaidFor, vars, flows, world
    <2>2. FlowsInv'
      BY <1>1 DEF IInv, FlowsInv, SagaFits, ConfFits, CancFits, Paid, PaidFor, vars, flows, world
    <2> QED BY <1>1, <2>1, <2>2, TablesStay DEF IInv, vars
  <1> QED BY <1>1, NextIInv

LEMMA SpecIInv == Spec => []IInv
  <1>1. Init => IInv
    BY InitIInv
  <1>2. IInv /\ [Next]_vars => IInv'
    BY StepIInv
  <1> QED BY <1>1, <1>2, PTL DEF Spec

\* Rows, transactions and calls keep their types, and a booking that has a row
\* has a user (saga.service.ts, payment.service.ts, booking.routes.ts 699-722).
THEOREM SagaTypeCorrect == Spec => []TypeOK
  <1>1. IInv => TypeOK
    BY DEF IInv, TablesInv, TxInv, Backed, FlowsInv, SagaFits, TypeOK, SagaCall,
           ConfCall, CancCall
  <1> QED BY <1>1, SpecIInv, PTL

\* A booking is confirmed, and a seat booked, only for money that was captured or
\* that an unsigned event claimed, and only a seat that was asked for: by
\* whichever way the outcome comes, in whatever order, with transactions or
\* without (payment.routes.ts 111-119 and 148-178, saga.service.ts 303-401).
THEOREM PaidTickets == Spec => []NoTicketForFree
  <1>1. IInv => NoTicketForFree
    BY DEF IInv, TablesInv, Backed, Named, NoTicketForFree
  <1> QED BY <1>1, SpecIInv, PTL
-----------------------------------------------------------------------------
\* What a saga that fails leaves.  Until its INSERT, nothing names a booking; and
\* when the pool keeps its transaction, from its BEGIN until its COMMIT or
\* ROLLBACK what a rollback brings back does not name the booking either.

Unwritten == {"idle", "check", "insert"}
Inserting == {"insert", "attach", "rollback"}

Blank(b, rows, bookingRows) ==
  bookingRows[b] = "none" /\ \A s \in Seats : rows[s].booking_id # b

BlankUntilInsert ==
  \A b \in Bookings : saga[b].pc \in Unwritten =>
    /\ Blank(b, seat, booking)
    /\ tx.owner # Nobody => Blank(b, tx.undo[1], tx.undo[2])

InsertsInTx ==
  \A b \in Bookings : saga[b].pc \in Inserting /\ tx.owner = b =>
    Blank(b, tx.undo[1], tx.undo[2])

CancelsWritten ==
  \A k \in Cancellers : canc[k].pc # "idle" => saga[canc[k].booking].pc \notin Unwritten

BlankInv == BlankUntilInsert /\ InsertsInTx /\ CancelsWritten

\* No saga goes back, and cancellers stay with their bookings.
Onward ==
  /\ \A b \in Bookings : saga'[b].pc \in Unwritten => saga[b].pc \in Unwritten
  /\ CancelsWritten'

\* A statement writes only rows of bookings that are inserted.
WritesInserted ==
  \A b \in Bookings : saga'[b].pc \in Unwritten =>
    /\ booking'[b] = booking[b]
    /\ \A s \in Seats : seat'[s].booking_id = b => seat[s].booking_id = b

LEMMA BlankStays ==
  ASSUME BlankInv, Onward, WritesInserted, UNCHANGED tx,
         \A b \in Bookings : saga'[b].pc \in Inserting => saga[b].pc \in Inserting
  PROVE  BlankInv'
  <1>1. BlankUntilInsert'
    BY DEF BlankInv, BlankUntilInsert, Onward, WritesInserted, Blank
  <1>2. InsertsInTx'
    BY DEF BlankInv, InsertsInTx, Blank
  <1> QED BY <1>1, <1>2 DEF BlankInv, Onward

LEMMA BlankBegins ==
  ASSUME BlankInv, Onward, NEW f \in Flow, May(f), Begin(f),
         \A b \in Bookings : saga'[b].pc \in Inserting =>
            saga[b].pc \in Inserting \/ (b = f /\ saga[b].pc \in Unwritten),
         f \in Bookings => saga[f].pc \notin Inserting \/ saga[f].pc \in Unwritten
  PROVE  BlankInv'
  <1>0. UNCHANGED <<seat, booking>>
    BY DEF Begin, tables
  <1>1. CASE UNCHANGED tx
    <2>1. ASSUME NEW b \in Bookings, saga'[b].pc \in Inserting, tx.owner = b
          PROVE  Blank(b, tx.undo[1], tx.undo[2])
      BY <2>1, SagaAssumption DEF BlankInv, InsertsInTx, BlankUntilInsert
    <2>2. BlankUntilInsert'
      BY <1>0, <1>1 DEF BlankInv, BlankUntilInsert, Onward, Blank
    <2> QED BY <1>1, <2>1, <2>2 DEF BlankInv, InsertsInTx, Onward, Blank
  <1>2. CASE tx' = [owner |-> f, undo |-> tables]
    <2>1. tx'.owner = f /\ tx'.undo[1] = seat /\ tx'.undo[2] = booking
      BY <1>2 DEF tables
    <2>2. BlankUntilInsert'
      BY <1>0, <2>1 DEF BlankInv, BlankUntilInsert, Onward, Blank
    <2>3. ASSUME NEW b \in Bookings, saga'[b].pc \in Inserting, b = f
          PROVE  Blank(b, seat, booking)
      BY <2>3 DEF BlankInv, BlankUntilInsert
    <2>4. InsertsInTx'
      BY <2>1, <2>3 DEF InsertsInTx, Blank
    <2> QED BY <2>2, <2>4 DEF BlankInv, Onward
  <1> QED BY <1>1, <1>2 DEF Begin

\* A transaction ends, and what the tables say is what they said or, after a
\* rollback, what they said before it.
LEMMA BlankEnds ==
  ASSUME BlankInv, Onward, Commit \/ Rollback
  PROVE  BlankInv'
  <1>1. tx'.owner = Nobody
    BY DEF Commit, Rollback, NoTx
  <1>2. InsertsInTx'
    BY <1>1, SagaAssumption DEF InsertsInTx
  <1>3. CASE UNCHANGED <<seat, booking>>
    BY <1>1, <1>2, <1>3 DEF BlankInv, BlankUntilInsert, Onward, Blank
  <1>4. CASE tx.owner # Nobody /\ seat' = tx.undo[1] /\ booking' = tx.undo[2]
    BY <1>1, <1>2, <1>4 DEF BlankInv, BlankUntilInsert, Onward, Blank
  <1> QED BY <1>3, <1>4 DEF Commit, Rollback, tables

LEMMA NamesKept ==
  ASSUME NEW r \in SeatRow
  PROVE  /\ BookRow(r).booking_id = r.booking_id /\ Detach(r).booking_id = NoBooking
         /\ FreeRow(r).booking_id = NoBooking /\ DropRow(r).booking_id = NoBooking
         /\ UnlockRow(r).booking_id = r.booking_id
         /\ ExpireRow(r).booking_id = r.booking_id
         /\ \A u, e : LockRow(r, u, e).booking_id = r.booking_id
  <1>1. UnlockRow(r).booking_id = r.booking_id
    BY DEF UnlockRow, SeatRow
  <1>2. FreeRow(r).booking_id = NoBooking
    BY DEF FreeRow, UnlockRow, SeatRow
  <1>3. BookRow(r).booking_id = r.booking_id
    BY DEF BookRow, SeatRow
  <1>4. Detach(r).booking_id = NoBooking
    BY DEF Detach, SeatRow
  <1>5. DropRow(r).booking_id = NoBooking
    BY DEF DropRow, SeatRow
  <1>6. ExpireRow(r).booking_id = r.booking_id
    BY DEF ExpireRow, SeatRow
  <1>7. \A u, e : LockRow(r, u, e).booking_id = r.booking_id
    BY DEF LockRow, SeatRow
  <1> QED BY <1>1, <1>2, <1>3, <1>4, <1>5, <1>6, <1>7

\* The statements on a booking's seats write no booking's name anew.
LEMMA NoNewNames ==
  ASSUME IInv, NEW b,
         \/ UpdateSeatsOf(b, [s \in Seats |-> BookRow(seat[s])])
         \/ UpdateSeatsOf(b, [s \in Seats |-> Detach(seat[s])])
         \/ UpdateSeatsOf(b, [s \in Seats |-> FreeRow(seat[s])])
         \/ UpdateSeatsOf(b, [s \in Seats |-> DropRow(seat[s])])
  PROVE  \A d \in Bookings : \A s \in Seats :
            seat'[s].booking_id = d => seat[s].booking_id = d
  <1>1. seat \in [Seats -> SeatRow]
    BY DEF IInv, TablesInv
  <1>2. ASSUME NEW new, UpdateSeatsOf(b, new),
               \A s \in Seats : new[s].booking_id \in {seat[s].booking_id, NoBooking}
        PROVE  \A d \in Bookings : \A s \in Seats :
                  seat'[s].booking_id = d => seat[s].booking_id = d
    BY <1>1, <1>2, SeatsAssumption DEF UpdateSeatsOf
  <1> DEFINE booked == [s \in Seats |-> BookRow(seat[s])]
             detached == [s \in Seats |-> Detach(seat[s])]
             freed == [s \in Seats |-> FreeRow(seat[s])]
             dropped == [s \in Seats |-> DropRow(seat[s])]
  <1>3. \A s \in Seats :
          /\ booked[s].booking_id = seat[s].booking_id
          /\ detached[s].booking_id = NoBooking
          /\ freed[s].booking_id = NoBooking
          /\ dropped[s].booking_id = NoBooking
    BY <1>1, NamesKept
  <1>4. \/ UpdateSeatsOf(b, booked) \/ UpdateSeatsOf(b, detached)
        \/ UpdateSeatsOf(b, freed) \/ UpdateSeatsOf(b, dropped)
    OBVIOUS
  <1> HIDE DEF booked, detached, freed, dropped
  <1> QED BY <1>2, <1>3, <1>4

\* The saga of b goes from one statement to another.
SagaGone(b) ==
  /\ \A d \in Bookings \ {b} : saga'[d] = saga[d]
  /\ saga'[b].pc \in Unwritten => saga[b].pc \in Unwritten
  /\ UNCHANGED canc

LEMMA SagaOnward ==
  ASSUME IInv, BlankInv, NEW b \in Bookings, SagaGone(b)
  PROVE  Onward
  <1>1. CancelsWritten'
    BY DEF BlankInv, CancelsWritten, SagaGone, IInv, FlowsInv, CancFits
  <1> QED BY <1>1 DEF Onward, SagaGone

\* A statement of a saga that neither opens nor ends a transaction.
LEMMA SagaWrites ==
  ASSUME IInv, BlankInv, NEW b \in Bookings, SagaGone(b), UNCHANGED tx,
         saga'[b].pc \in Inserting => saga[b].pc \in Inserting,
         \A d \in Bookings \ {b} :
            /\ booking'[d] = booking[d]
            /\ \A s \in Seats : seat'[s].booking_id = d => seat[s].booking_id = d,
         saga'[b].pc \in Unwritten => UNCHANGED <<seat, booking>>
  PROVE  BlankInv'
  <1>1. WritesInserted
    BY DEF WritesInserted
  <1>2. \A d \in Bookings : saga'[d].pc \in Inserting => saga[d].pc \in Inserting
    BY DEF SagaGone
  <1> QED BY <1>1, <1>2, SagaOnward, BlankStays

\* Where the saga is after a statement that only moves it.
LEMMA SagaGotoGone ==
  ASSUME IInv, NEW b \in Bookings, NEW pc \in SagaPC \ {"idle"}, saga[b].pc # "idle",
         SagaGoto(b, pc) \/ SagaLoop(b, pc), UNCHANGED canc,
         pc \in Unwritten => saga[b].pc \in Unwritten
  PROVE  SagaGone(b) /\ saga'[b].pc = pc
  BY SagaGoes DEF IInv, SagaGone

LEMMA SagaNextGone ==
  ASSUME IInv, NEW b \in Bookings, NEW s \in Seats, saga[b].pc # "idle",
         SagaNext(b, s), UNCHANGED canc
  PROVE  SagaGone(b) /\ saga'[b].pc = saga[b].pc
  BY SagaNexts DEF IInv, SagaGone

LEMMA CheckLockBlank ==
  ASSUME IInv, BlankInv, NEW b \in Bookings, NEW s \in Seats, CheckLock(b, s)
  PROVE  BlankInv'
  <1>1. SagaGone(b) /\ saga'[b].pc \in {"check", "done"} /\ saga[b].pc = "check"
    <2>1. saga[b].pc = "check" /\ canc' = canc
      BY DEF CheckLock, SagaAt
    <2>2. CASE SagaNext(b, s)
      BY <2>1, <2>2, SagaNextGone
    <2>3. CASE SagaGoto(b, "done")
      BY <2>1, <2>3, SagaGotoGone DEF SagaPC, Unwritten
    <2> QED BY <2>2, <2>3 DEF CheckLock
  <1> QED BY <1>1, SagaWrites DEF CheckLock, tables, Inserting, Unwritten

LEMMA InsertBookingBlank ==
  ASSUME IInv, BlankInv, NEW b \in Bookings, InsertBooking(b)
  PROVE  BlankInv'
  <1>1. SagaGone(b) /\ saga'[b].pc = "attach" /\ saga[b].pc = "insert"
    BY SagaGotoGone DEF InsertBooking, SagaAt, SagaPC, Unwritten
  <1>2. \A d \in Bookings \ {b} : booking'[d] = booking[d]
    BY DEF InsertBooking, SetBooking, IInv, TablesInv
  <1> QED BY <1>1, <1>2, SagaWrites DEF InsertBooking, Inserting, Unwritten

LEMMA AttachSeatBlank ==
  ASSUME IInv, BlankInv, NEW b \in Bookings, NEW s \in Seats, AttachSeat(b, s)
  PROVE  BlankInv'
  <1>1. SagaGone(b) /\ saga'[b].pc \in {"attach", "rollback"} /\ saga[b].pc = "attach"
    <2>1. saga[b].pc = "attach" /\ canc' = canc
      BY DEF AttachSeat, SagaAt
    <2>2. CASE SagaNext(b, s)
      BY <2>1, <2>2, SagaNextGone
    <2>3. CASE SagaGoto(b, "rollback")
      BY <2>1, <2>3, SagaGotoGone DEF SagaPC, Unwritten
    <2> QED BY <2>2, <2>3 DEF AttachSeat
  <1>2. \A d \in Bookings \ {b} : \A r \in Seats :
          seat'[r].booking_id = d => seat[r].booking_id = d
    <2>1. CASE seat' = seat
      BY <2>1
    <2>2. CASE seat' = [seat EXCEPT ![s].booking_id = b]
      BY <2>2 DEF IInv, TablesInv, SeatRow
    <2> QED BY <2>1, <2>2 DEF AttachSeat
  <1> QED BY <1>1, <1>2, SagaWrites DEF AttachSeat, Inserting, Unwritten

LEMMA PayBlank ==
  ASSUME IInv, BlankInv, NEW b \in Bookings,
         \/ CreateOrder(b) \/ InsertPayment(b) \/ SimulatePayment(b)
         \/ SagaNotify(b)
  PROVE  BlankInv'
  <1>1. PICK pc \in {"payinsert", "cbegin", "done", "sbegin", "srollback"} :
          SagaGoto(b, pc) /\ saga[b].pc \in {"pay", "payinsert", "snotify"}
    BY DEF CreateOrder, InsertPayment, SimulatePayment, SagaNotify, SagaAt
  <1>2. SagaGone(b) /\ saga'[b].pc = pc
    BY <1>1, SagaGotoGone DEF SagaPC, Unwritten, CreateOrder, InsertPayment, SimulatePayment,
       SagaNotify
  <1>3. UNCHANGED <<seat, booking, tx>>
    BY DEF CreateOrder, InsertPayment, SimulatePayment, SagaNotify, tables
  <1> QED BY <1>2, <1>3, SagaWrites DEF Inserting, Unwritten

LEMMA SagaSetsBookingBlank ==
  ASSUME IInv, BlankInv, NEW b \in Bookings, SagaSetsBooking(b)
  PROVE  BlankInv'
  <1>1. PICK pc \in {"cseats", "sseats", "rseats"} :
          SagaGoto(b, pc) /\ saga[b].pc \in {"cbooking", "sbooking", "rbooking"}
    BY DEF SagaSetsBooking, SagaAt
  <1>2. SagaGone(b) /\ saga'[b].pc = pc
    BY <1>1, SagaGotoGone DEF SagaPC, Unwritten, SagaSetsBooking
  <1>3. \A d \in Bookings \ {b} : booking'[d] = booking[d]
    BY DEF SagaSetsBooking, SetBooking, IInv, TablesInv
  <1> QED BY <1>2, <1>3, SagaWrites DEF SagaSetsBooking, Inserting, Unwritten

LEMMA SagaSeatsBlank ==
  ASSUME IInv, BlankInv, NEW b \in Bookings, SimulatedBookSeats(b) \/ CompensateSeats(b)
  PROVE  BlankInv'
  <1>1. PICK pc \in {"srollback", "scommit", "crelease", "rcommit"} :
          /\ SagaGoto(b, pc) \/ SagaLoop(b, pc)
          /\ saga[b].pc \in {"sseats", "cseats", "rseats"}
    BY DEF SimulatedBookSeats, CompensateSeats, SagaAt
  <1>2. SagaGone(b) /\ saga'[b].pc = pc
    BY <1>1, SagaGotoGone DEF SagaPC, Unwritten, SimulatedBookSeats, CompensateSeats
  <1>3. \A d \in Bookings : \A s \in Seats :
          seat'[s].booking_id = d => seat[s].booking_id = d
    BY NoNewNames DEF SimulatedBookSeats, CompensateSeats
  <1> QED BY <1>2, <1>3, SagaWrites
          DEF SimulatedBookSeats, CompensateSeats, Inserting, Unwritten

LEMMA CompensateReleaseBlank ==
  ASSUME IInv, BlankInv, NEW b \in Bookings, NEW s \in Seats, CompensateRelease(b, s)
  PROVE  BlankInv'
  <1>1. SagaGone(b) /\ saga'[b].pc \in {"crelease", "ccommit"}
    <2> DEFINE pc == IF saga[b].todo = {s} THEN "ccommit" ELSE saga[b].pc
    <2>1. saga[b] \in SagaCall /\ saga \in [Bookings -> SagaCall] /\ saga[b].pc = "crelease"
      BY DEF IInv, FlowsInv, CompensateRelease, SagaAt
    <2>2. saga' = [saga EXCEPT ![b] = [saga[b] EXCEPT !.todo = saga[b].todo \ {s}, !.pc = pc]]
      BY <2>1 DEF CompensateRelease, SagaCall
    <2>3. /\ \A d \in Bookings \ {b} : saga'[d] = saga[d]
          /\ saga'[b].pc = pc
      BY <2>1, <2>2 DEF SagaCall
    <2> QED BY <2>1, <2>3 DEF SagaGone, Unwritten, CompensateRelease
  <1>2. \A r \in Seats : seat'[r].booking_id = seat[r].booking_id
    BY NamesKept DEF CompensateRelease, IInv, TablesInv
  <1> QED BY <1>1, <1>2, SagaWrites DEF CompensateRelease, Inserting, Unwritten

LEMMA SagaBeginBlank ==
  ASSUME IInv, BlankInv, NEW b \in Bookings, SagaBegin(b)
  PROVE  BlankInv'
  <1>1. PICK pc \in {"insert", "cbooking", "sbooking", "rbooking"} :
          /\ SagaGoto(b, pc) /\ May(b)
          /\ saga[b].pc \in {"check", "cbegin", "sbegin", "rbegin"}
          /\ pc = "insert" => saga[b].pc = "check"
    BY DEF SagaBegin, SagaAt
  <1>2. SagaGone(b) /\ saga'[b].pc = pc
    BY <1>1, SagaGotoGone DEF SagaPC, Unwritten, SagaBegin
  <1>3. \A d \in Bookings : saga'[d].pc \in Inserting =>
          saga[d].pc \in Inserting \/ (d = b /\ saga[d].pc \in Unwritten)
    BY <1>1, <1>2 DEF SagaGone, Inserting, Unwritten
  <1>4. saga[b].pc \notin Inserting \/ saga[b].pc \in Unwritten
    BY <1>1 DEF Inserting, Unwritten
  <1>5. Onward
    BY <1>2, SagaOnward DEF SagaBegin
  <1>6. b \in Flow /\ May(b) /\ Begin(b)
    BY <1>1 DEF SagaBegin, Flow
  <1> QED BY <1>3, <1>4, <1>5, <1>6, BlankBegins

LEMMA SagaEndsBlank ==
  ASSUME IInv, BlankInv, NEW b \in Bookings, SagaCommit(b) \/ SagaRollback(b)
  PROVE  BlankInv'
  <1>1. PICK pc \in {"pay", "done", "snotify", "rbegin"} :
          SagaGoto(b, pc) /\ saga[b].pc # "idle"
    BY DEF SagaCommit, SagaRollback, SagaAt
  <1>2. SagaGone(b)
    BY <1>1, SagaGotoGone DEF SagaPC, Unwritten, SagaCommit, SagaRollback
  <1> QED BY <1>2, SagaOnward, BlankEnds DEF SagaCommit, SagaRollback

\* A confirmer's booking has an order, so it was inserted long ago.
LEMMA ConfInserted ==
  ASSUME IInv, NEW c \in Confirmers, conf[c].pc # "idle"
  PROVE  /\ conf[c].booking \in Bookings
         /\ saga[conf[c].booking].pc \notin Unwritten \cup Inserting
  BY DEF IInv, FlowsInv, ConfFits, SagaFits, Early, Unwritten, Inserting

LEMMA StillOnward ==
  ASSUME BlankInv, UNCHANGED <<saga, canc>>
  PROVE  Onward
  BY DEF BlankInv, Onward, CancelsWritten

\* A statement of another flow on a booking that was inserted.
LEMMA OthersWrite ==
  ASSUME BlankInv, Onward, UNCHANGED <<saga, tx>>, NEW b, saga[b].pc \notin Unwritten,
         \A d \in Bookings \ {b} :
            /\ booking'[d] = booking[d]
            /\ \A s \in Seats : seat'[s].booking_id = d => seat[s].booking_id = d
  PROVE  BlankInv'
  <1>1. WritesInserted
    BY DEF WritesInserted
  <1> QED BY <1>1, BlankStays

LEMMA ConfWritesBlank ==
  ASSUME IInv, BlankInv, NEW c \in Confirmers,
         \/ FetchOrder(c) \/ RecordVerdict(c) \/ ReadBooking(c) \/ SetPaid(c)
         \/ Validate(c) \/ ConfirmBooking(c) \/ BookSeats(c) \/ RefundReads(c)
         \/ GatewayRefunds(c) \/ RecordRefund(c) \/ ConfCompensateBooking(c)
         \/ ConfCompensateSeats(c) \/ ConfNotify(c)
  PROVE  BlankInv'
  <1> DEFINE b == conf[c].booking
  <1>1. conf[c].pc # "idle" /\ UNCHANGED <<saga, canc, tx>>
    BY DEF FetchOrder, ConfNotify, RecordVerdict, ReadBooking, SetPaid, Validate, ConfirmBooking,
           BookSeats, RefundReads, GatewayRefunds, RecordRefund, ConfCompensateBooking,
           ConfCompensateSeats, ConfAt
  <1>2. \A d \in Bookings \ {b} : booking'[d] = booking[d]
    <2>1. CASE UNCHANGED booking
      BY <2>1
    <2>2. CASE \E status : SetBooking(b, status)
      BY <2>2 DEF SetBooking, IInv, TablesInv
    <2> QED BY <2>1, <2>2
        DEF FetchOrder, ConfNotify, RecordVerdict, ReadBooking, SetPaid, Validate, ConfirmBooking,
            BookSeats, RefundReads, GatewayRefunds, RecordRefund, ConfCompensateBooking,
            ConfCompensateSeats, tables
  <1>3. \A d \in Bookings : \A s \in Seats : seat'[s].booking_id = d => seat[s].booking_id = d
    <2>1. CASE UNCHANGED seat
      BY <2>1
    <2>2. CASE BookSeats(c) \/ ConfCompensateSeats(c)
      BY <2>2, NoNewNames DEF BookSeats, ConfCompensateSeats
    <2> QED BY <2>1, <2>2
        DEF FetchOrder, ConfNotify, RecordVerdict, ReadBooking, SetPaid, Validate, ConfirmBooking,
            RefundReads, GatewayRefunds, RecordRefund, ConfCompensateBooking, tables
  <1> QED BY <1>1, <1>2, <1>3, ConfInserted, StillOnward, OthersWrite

LEMMA ConfTxBlank ==
  ASSUME IInv, BlankInv, NEW c \in Confirmers,
         ConfBegin(c) \/ ConfCommit(c) \/ ConfRollback(c)
  PROVE  BlankInv'
  <1>1. May(c) /\ UNCHANGED <<saga, canc>> /\ c \in Flow /\ c \notin Bookings
    BY SagaAssumption DEF ConfBegin, ConfCommit, ConfRollback, ConfAt, Flow
  <1>2. Onward
    BY <1>1, StillOnward
  <1> QED BY <1>1, <1>2, BlankBegins, BlankEnds DEF ConfBegin, ConfCommit, ConfRollback

\* A canceller goes on with a booking that was inserted.
LEMMA CancOnward ==
  ASSUME IInv, BlankInv, NEW k \in Cancellers, UNCHANGED saga,
         \A j \in Cancellers \ {k} : canc'[j] = canc[j],
         \/ canc'[k].pc = "idle"
         \/ canc[k].pc # "idle" /\ canc'[k].booking = canc[k].booking
         \/ saga[canc'[k].booking].pc \notin Unwritten
  PROVE  Onward
  BY DEF BlankInv, CancelsWritten, Onward

LEMMA CancGotoOnward ==
  ASSUME IInv, BlankInv, NEW k \in Cancellers, NEW pc, UNCHANGED saga,
         canc[k].pc # "idle", CancGoto(k, pc)
  PROVE  Onward
  <1>1. canc \in [Cancellers -> CancCall] /\ canc[k] \in CancCall
    BY DEF IInv, FlowsInv
  <1>2. /\ canc'[k].booking = canc[k].booking
        /\ \A j \in Cancellers \ {k} : canc'[j] = canc[j]
    BY <1>1 DEF CancGoto, CancCall
  <1> QED BY <1>2, CancOnward

LEMMA CancBlank ==
  ASSUME IInv, BlankInv, NEW k \in Cancellers, CancStep(k)
  PROVE  BlankInv'
  <1> DEFINE b == canc[k].booking
  <1>0. /\ canc[k].pc # "idle" /\ May(k) /\ UNCHANGED saga
        /\ k \in Flow /\ k \notin Bookings
        /\ b \in Bookings /\ saga[b].pc \notin Unwritten
    <2>1. canc[k].pc # "idle" /\ May(k) /\ UNCHANGED saga
      BY DEF CancStep, CancelBegin, CancelBooking, CancelSeats, CancelCommit, CancAt
    <2> QED BY <2>1, SagaAssumption DEF Flow, BlankInv, CancelsWritten, IInv, FlowsInv, CancFits
  <1>1. CASE CancelBegin(k)
    BY <1>0, <1>1, CancGotoOnward, BlankBegins DEF CancelBegin
  <1>2. CASE CancelBooking(k)
    <2>1. \A d \in Bookings \ {b} : booking'[d] = booking[d]
      BY <1>2 DEF CancelBooking, SetBooking, IInv, TablesInv
    <2>2. Onward
      BY <1>0, <1>2, CancGotoOnward DEF CancelBooking
    <2> QED BY <1>0, <1>2, <2>1, <2>2, OthersWrite DEF CancelBooking
  <1>3. CASE CancelSeats(k)
    <2>1. \A d \in Bookings : \A s \in Seats :
            seat'[s].booking_id = d => seat[s].booking_id = d
      BY <1>3, NoNewNames DEF CancelSeats
    <2>2. Onward
      BY <1>0, <1>3, CancGotoOnward DEF CancelSeats
    <2> QED BY <1>0, <1>3, <2>1, <2>2, OthersWrite DEF CancelSeats
  <1>4. CASE CancelCommit(k)
    <2>1. /\ canc'[k].pc = "idle"
          /\ \A j \in Cancellers \ {k} : canc'[j] = canc[j]
      BY <1>4 DEF CancelCommit, IdleTask, IInv, FlowsInv
    <2>2. Onward
      BY <1>0, <2>1, CancOnward
    <2> QED BY <1>4, <2>2, BlankEnds DEF CancelCommit
  <1> QED BY <1>1, <1>2, <1>3, <1>4 DEF CancStep

LEMMA StartSagaBlank ==
  ASSUME IInv, BlankInv, NEW b \in Bookings, NEW u, NEW W, NEW n, StartSaga(b, u, W, n)
  PROVE  BlankInv'
  <1>1. /\ saga'[b].pc = "check" /\ saga[b].pc = "idle"
        /\ \A d \in Bookings \ {b} : saga'[d] = saga[d]
    BY DEF StartSaga, IInv, FlowsInv
  <1>2. SagaGone(b)
    BY <1>1 DEF SagaGone, StartSaga, Unwritten
  <1> QED BY <1>1, <1>2, SagaWrites DEF StartSaga, tables, Inserting

LEMMA StartCancelBlank ==
  ASSUME IInv, BlankInv, NEW k \in Cancellers, NEW b \in Bookings, StartCancel(k, b)
  PROVE  BlankInv'
  <1>1. saga[b].pc \notin Unwritten
    BY DEF StartCancel, BlankInv, BlankUntilInsert, Blank
  <1>2. /\ canc'[k].booking = b
        /\ \A j \in Cancellers \ {k} : canc'[j] = canc[j]
    BY DEF StartCancel, IInv, FlowsInv
  <1>3. Onward
    BY <1>1, <1>2, CancOnward DEF StartCancel
  <1> QED BY <1>3, BlankStays DEF StartCancel, tables, WritesInserted

LEMMA RestBlank ==
  ASSUME IInv, BlankInv,
         \/ \E c \in Confirmers, b \in Bookings :
              SignedWebhook(c, b) \/ UnsignedWebhook(c, b) \/ Verify(c, b)
         \/ \E b \in Bookings : Capture(b)
         \/ \E s \in Seats : (\E u \in Users : LockSeat(u, s)) \/ CleanSeat(s)
         \/ UNCHANGED vars
  PROVE  BlankInv'
  <1>1. UNCHANGED <<booking, saga, canc, tx>>
    BY DEF SignedWebhook, UnsignedWebhook, Webhook, Verify, Capture, LockSeat, CleanSeat, vars, tables, flows
  <1>2. \A r \in Seats : seat'[r].booking_id = seat[r].booking_id
    <2>1. ASSUME NEW s \in Seats, NEW u \in Users, LockSeat(u, s)
          PROVE  \A r \in Seats : seat'[r].booking_id = seat[r].booking_id
      BY <2>1, NamesKept DEF LockSeat, IInv, TablesInv
    <2>2. ASSUME NEW s \in Seats, CleanSeat(s)
          PROVE  \A r \in Seats : seat'[r].booking_id = seat[r].booking_id
      BY <2>2, NamesKept DEF CleanSeat, IInv, TablesInv
    <2>3. ASSUME UNCHANGED seat
          PROVE  \A r \in Seats : seat'[r].booking_id = seat[r].booking_id
      BY <2>3
    <2> QED BY <2>1, <2>2, <2>3 DEF SignedWebhook, UnsignedWebhook, Webhook, Verify, Capture, vars,
                                    tables
  <1> QED BY <1>1, <1>2, StillOnward, BlankStays DEF WritesInserted

LEMMA ExpireBlank ==
  ASSUME IInv, BlankInv, NEW s \in Seats, Expire(s)
  PROVE  BlankInv'
  <1>1. UNCHANGED <<booking, saga, canc>>
    BY DEF Expire, flows
  <1>2. \A r \in Seats : seat'[r].booking_id = seat[r].booking_id
    BY NamesKept DEF Expire, IInv, TablesInv
  <1>3. /\ tx'.owner = tx.owner
        /\ tx.owner # Nobody =>
             /\ tx'.undo[2] = tx.undo[2]
             /\ \A r \in Seats : tx'.undo[1][r].booking_id = tx.undo[1][r].booking_id
    <2>1. CASE tx' = tx
      BY <2>1
    <2>2. CASE tx.owner # Nobody /\ tx' = [tx EXCEPT !.undo[1][s] = ExpireRow(@)]
      <3>1. /\ tx'.owner = tx.owner
            /\ tx'.undo = <<[tx.undo[1] EXCEPT ![s] = ExpireRow(@)], tx.undo[2], tx.undo[3]>>
        BY <2>2 DEF IInv, TablesInv, TxInv
      <3>2. tx.undo[1] \in [Seats -> SeatRow]
        BY <2>2 DEF IInv, TablesInv, TxInv
      <3>3. /\ tx'.undo[1] = [tx.undo[1] EXCEPT ![s] = ExpireRow(@)]
            /\ tx'.undo[2] = tx.undo[2]
        BY <3>1
      <3> QED BY <3>1, <3>2, <3>3, NamesKept
    <2> QED BY <2>1, <2>2 DEF Expire
  <1>4. Nobody \notin Bookings
    BY SagaAssumption
  <1>5. BlankUntilInsert' /\ InsertsInTx' /\ CancelsWritten'
    BY <1>1, <1>2, <1>3, <1>4
    DEF BlankInv, BlankUntilInsert, InsertsInTx, CancelsWritten, Blank
  <1> QED BY <1>5 DEF BlankInv

LEMMA CrashBlank ==
  ASSUME IInv, BlankInv, Crash
  PROVE  BlankInv'
  <1>1. \A b \in Bookings : saga'[b].pc = IF saga[b].pc = "idle" THEN "idle" ELSE "done"
    BY DEF Crash, IInv, FlowsInv, SagaCall
  <1>2. Onward
    <2>1. \A k \in Cancellers : canc'[k].pc = "idle"
      BY DEF Crash, IdleTask
    <2>2. \A b \in Bookings : saga'[b].pc \in Unwritten => saga[b].pc \in Unwritten
      BY <1>1 DEF Unwritten
    <2> QED BY <2>1, <2>2 DEF Onward, CancelsWritten
  <1> QED BY <1>2, BlankEnds DEF Crash

LEMMA StepBlank ==
  ASSUME IInv, BlankInv, [Next]_vars
  PROVE  BlankInv'
  <1>1. ASSUME NEW b \in Bookings, SagaStep(b)
        PROVE  BlankInv'
    BY <1>1, CheckLockBlank, InsertBookingBlank, AttachSeatBlank, PayBlank,
       SagaSetsBookingBlank, SagaSeatsBlank, CompensateReleaseBlank, SagaBeginBlank,
       SagaEndsBlank DEF SagaStep
  <1>2. ASSUME NEW c \in Confirmers, ConfStep(c)
        PROVE  BlankInv'
    BY <1>2, ConfWritesBlank, ConfTxBlank DEF ConfStep
  <1>3. CASE Calls
    BY <1>3, StartSagaBlank, StartCancelBlank, RestBlank DEF Calls
  <1>4. CASE Locking \/ UNCHANGED vars
    BY <1>4, RestBlank, ExpireBlank DEF Locking
  <1> QED BY <1>1, <1>2, <1>3, <1>4, CancBlank, CrashBlank DEF Next

LEMMA InitBlank ==
  ASSUME Init
  PROVE  BlankInv
  <1>1. BlankUntilInsert
    BY SeatsAssumption DEF Init, BlankUntilInsert, Blank, FreshRow, NoTx
  <1>2. InsertsInTx /\ CancelsWritten
    BY DEF Init, InsertsInTx, CancelsWritten, IdleSaga, IdleTask, Inserting
  <1> QED BY <1>1, <1>2 DEF BlankInv

\* A saga leaves its failure by its own rollback, or by a restart's.
LEMMA FailsByRollback ==
  ASSUME IInv, [Next]_vars, NEW b \in Bookings,
         saga[b].pc = "rollback", saga'[b].pc = "done"
  PROVE  Rollback
  <1>1. ASSUME NEW d \in Bookings, SagaStep(d)
        PROVE  Rollback
    <2>1. saga'[b] # saga[b]
      OBVIOUS
    <2>2. d = b
      <3>1. \A e \in Bookings \ {d} : saga'[e] = saga[e]
        BY <1>1 DEF SagaStep, CheckLock, AttachSeat, CompensateRelease, SagaBegin,
           InsertBooking, SagaCommit, SagaRollback, CreateOrder, InsertPayment,
           SimulatePayment, SagaSetsBooking, SimulatedBookSeats, CompensateSeats,
           SagaNotify, SagaGoto, SagaLoop, SagaNext, IInv, FlowsInv
      <3> QED BY <2>1, <3>1
    <2> QED BY <1>1, <2>2
        DEF SagaStep, CheckLock, AttachSeat, CompensateRelease, SagaBegin,
            InsertBooking, SagaCommit, SagaRollback, CreateOrder, InsertPayment,
            SimulatePayment, SagaSetsBooking, SimulatedBookSeats, CompensateSeats,
            SagaNotify, SagaAt
  <1>2. ASSUME \/ \E c \in Confirmers : ConfStep(c)
               \/ \E k \in Cancellers : CancStep(k)
               \/ Locking \/ UNCHANGED vars
        PROVE  UNCHANGED saga
    BY <1>2 DEF ConfStep, FetchOrder, RecordVerdict, ReadBooking, SetPaid, ConfBegin,
       Validate, ConfirmBooking, BookSeats, ConfCommit, ConfNotify, ConfRollback, RefundReads,
       GatewayRefunds, RecordRefund, ConfCompensateBooking, ConfCompensateSeats,
       CancStep, CancelBegin, CancelBooking, CancelSeats, CancelCommit,
       Locking, LockSeat, Expire, CleanSeat, vars, flows
  <1>3. ASSUME Calls
        PROVE  saga'[b] = saga[b]
    <2>1. ASSUME NEW d \in Bookings, NEW u, NEW W, NEW n, StartSaga(d, u, W, n)
          PROVE  saga'[b] = saga[b]
      BY <2>1 DEF StartSaga, IInv, FlowsInv
    <2> QED BY <1>3, <2>1 DEF Calls, SignedWebhook, UnsignedWebhook, Webhook, Verify, StartCancel, Capture, flows
  <1> QED BY <1>1, <1>2, <1>3 DEF Next, Crash

\* A saga that could not attach all its seats leaves neither a booking nor a
\* seat that names one, if the pool kept its transaction: whatever statements of
\* other calls, kept or split, restarts and locks that run out come between its
\* own (saga.service.ts 102-152).
THEOREM FailureLeavesNothing == Spec => FailedSagaLeavesNothing
  <1>1. IInv /\ BlankInv /\ [Next]_vars =>
          [\A b \in Bookings :
             saga[b].pc = "rollback" /\ tx.owner = b /\ saga'[b].pc = "done"
               => booking'[b] = "none" /\ \A s \in Seats : seat'[s].booking_id # b]_vars
    <2> SUFFICES ASSUME IInv, BlankInv, [Next]_vars, NEW b \in Bookings,
                        saga[b].pc = "rollback", tx.owner = b, saga'[b].pc = "done"
                 PROVE  booking'[b] = "none" /\ \A s \in Seats : seat'[s].booking_id # b
      OBVIOUS
    <2>1. tx.owner # Nobody /\ Blank(b, tx.undo[1], tx.undo[2])
      BY SagaAssumption DEF BlankInv, InsertsInTx, Inserting
    <2> QED BY <2>1, FailsByRollback DEF Rollback, Blank
  <1>2. Init => BlankInv
    BY InitBlank
  <1>3. IInv /\ BlankInv /\ [Next]_vars => BlankInv'
    BY StepBlank
  <1> QED BY <1>1, <1>2, <1>3, SpecIInv, PTL DEF Spec, FailedSagaLeavesNothing
-----------------------------------------------------------------------------
\* What a kept transaction of a confirmation sees of the locks.  Nobody locks a
\* seat while it is open, so what Validate found about the owners holds until
\* the seats are booked, and a rollback books no seat that is locked.

Validated ==
  \A c \in Confirmers : tx.owner = c /\ conf[c].pc \in {"booking", "seats"} =>
    \A s \in Seats :
      seat[s].booking_id = conf[c].booking /\ seat[s].status = "LOCKED" =>
        seat[s].locked_by = saga[conf[c].booking].user

LockedBefore ==
  tx.owner # Nobody => \A s \in Seats :
    seat[s].status = "LOCKED" => tx.undo[1][s].status = "LOCKED"

LockInv == Validated /\ LockedBefore

NoNewLock == \A s \in Seats : seat'[s].status = "LOCKED" => seat[s].status = "LOCKED"

\* What a step may do to the locks, the transaction being c's: nothing is booked.
NoTaking(c) ==
  tx.owner = c => \A s \in Seats :
    seat[s].status = "LOCKED" => seat'[s].status # "BOOKED"

Harmless == LockInv' /\ \A c \in Confirmers : NoTaking(c)

LEMMA NoTransaction ==
  ASSUME tx.owner = Nobody, tx'.owner = Nobody
  PROVE  Harmless
  BY SagaAssumption DEF Harmless, LockInv, Validated, LockedBefore, NoTaking

LEMMA EndsHarmless ==
  ASSUME LockInv, Commit \/ Rollback
  PROVE  Harmless
  <1>1. LockInv'
    BY SagaAssumption DEF LockInv, Validated, LockedBefore, Commit, Rollback, NoTx
  <1>2. ASSUME NEW c \in Confirmers
        PROVE  NoTaking(c)
    BY SagaAssumption
    DEF LockInv, LockedBefore, Commit, Rollback, tables, NoTaking
  <1> QED BY <1>1, <1>2 DEF Harmless

LEMMA BeginsHarmless ==
  ASSUME LockInv, NEW f \in Flow, May(f), Begin(f),
         f \in Confirmers => conf'[f].pc = "validate"
  PROVE  Harmless
  <1>1. seat' = seat
    BY DEF Begin, tables
  <1>2. tx'.owner \in {f, Nobody} /\ Nobody \notin Confirmers
    <2>1. tx' = tx \/ tx' = [owner |-> f, undo |-> tables]
      BY DEF Begin
    <2> QED BY <2>1, SagaAssumption DEF May
  <1>3. Validated'
    BY <1>2 DEF Validated
  <1>4. LockedBefore'
    <2>1. CASE UNCHANGED tx
      BY <1>1, <2>1 DEF LockInv, LockedBefore
    <2>2. CASE tx' = [owner |-> f, undo |-> tables]
      <3>1. tx'.undo[1] = seat
        BY <2>2 DEF tables
      <3> QED BY <1>1, <3>1 DEF LockedBefore
    <2> QED BY <2>1, <2>2 DEF Begin
  <1>5. \A c \in Confirmers : NoTaking(c)
    BY <1>1 DEF NoTaking
  <1> QED BY <1>3, <1>4, <1>5 DEF Harmless, LockInv

\* A statement of a flow that is no confirmer.
LEMMA OthersHarmless ==
  ASSUME LockInv, NEW f \in Flow \ Confirmers, May(f), UNCHANGED tx, NoNewLock
  PROVE  Harmless
  <1>1. tx.owner \in {f, Nobody} /\ Nobody \notin Confirmers
    BY SagaAssumption DEF May
  <1>2. LockInv'
    BY <1>1 DEF LockInv, Validated, LockedBefore, NoNewLock
  <1> QED BY <1>1, <1>2 DEF Harmless, NoTaking

\* A step that leaves the seats and the transaction, and takes no confirmer to
\* where it confirms.
LEMMA LocksLeft ==
  ASSUME LockInv, UNCHANGED <<seat, tx>>,
         \A c \in Confirmers : tx.owner = c /\ conf'[c].pc \in {"booking", "seats"} =>
            /\ conf[c].pc \in {"booking", "seats"} /\ conf'[c].booking = conf[c].booking
            /\ saga'[conf[c].booking].user = saga[conf[c].booking].user
  PROVE  Harmless
  <1>1. LockInv'
    BY DEF LockInv, Validated, LockedBefore
  <1> QED BY <1>1 DEF Harmless, NoTaking

LEMMA SagaHarmless ==
  ASSUME IInv, LockInv, NEW b \in Bookings, SagaStep(b)
  PROVE  Harmless
  <1>1. b \in Flow \ Confirmers /\ seat \in [Seats -> SeatRow]
    BY SagaAssumption DEF Flow, IInv, TablesInv
  <1>2. CASE SagaBegin(b)
    <2>1. May(b) /\ Begin(b)
      BY <1>2 DEF SagaBegin, SagaAt
    <2> QED BY <1>1, <2>1, BeginsHarmless
  <1>3. CASE SagaCommit(b) \/ SagaRollback(b)
    BY <1>3, EndsHarmless DEF SagaCommit, SagaRollback
  <1>4. CASE \/ \E s \in Seats : CheckLock(b, s)
             \/ InsertBooking(b) \/ SagaNotify(b) \/ CreateOrder(b) \/ InsertPayment(b)
             \/ SimulatePayment(b) \/ SagaSetsBooking(b)
    <2>1. May(b) /\ UNCHANGED <<seat, tx>>
      BY <1>4 DEF CheckLock, InsertBooking, SagaNotify, CreateOrder, InsertPayment,
                  SimulatePayment, SagaSetsBooking, SagaAt, tables
    <2> QED BY <1>1, <2>1, OthersHarmless DEF NoNewLock
  <1>5. CASE \E s \in Seats : AttachSeat(b, s) \/ CompensateRelease(b, s)
    <2>1. May(b) /\ UNCHANGED tx
      BY <1>5 DEF AttachSeat, CompensateRelease, SagaAt
    <2>2. NoNewLock
      <3>1. ASSUME NEW s \in Seats, AttachSeat(b, s)
            PROVE  NoNewLock
        BY <1>1, <3>1 DEF AttachSeat, NoNewLock, SeatRow
      <3>2. ASSUME NEW s \in Seats, CompensateRelease(b, s)
            PROVE  NoNewLock
        <4>1. \A r \in Seats : seat'[r] \in {seat[r], UnlockRow(seat[r])}
          BY <1>1, <3>2 DEF CompensateRelease
        <4> QED BY <1>1, <4>1 DEF UnlockRow, NoNewLock, SeatRow
      <3> QED BY <1>5, <3>1, <3>2
    <2> QED BY <1>1, <2>1, <2>2, OthersHarmless
  <1>6. CASE SimulatedBookSeats(b) \/ CompensateSeats(b)
    <2>1. May(b) /\ UNCHANGED tx
      BY <1>6 DEF SimulatedBookSeats, CompensateSeats, SagaAt
    <2>2. NoNewLock
      <3>1. \A s \in Seats :
              seat'[s] \in {seat[s], BookRow(seat[s]), Detach(seat[s]), FreeRow(seat[s])}
        BY <1>6 DEF SimulatedBookSeats, CompensateSeats, UpdateSeatsOf
      <3> QED BY <1>1, <3>1 DEF NoNewLock, BookRow, Detach, FreeRow, UnlockRow, SeatRow
    <2> QED BY <1>1, <2>1, <2>2, OthersHarmless
  <1> QED BY <1>2, <1>3, <1>4, <1>5, <1>6 DEF SagaStep

LEMMA CancHarmless ==
  ASSUME IInv, LockInv, NEW k \in Cancellers \ Confirmers, CancStep(k)
  PROVE  Harmless
  <1>1. k \in Flow \ Confirmers /\ seat \in [Seats -> SeatRow]
    BY DEF Flow, IInv, TablesInv
  <1>2. CASE CancelBegin(k)
    BY <1>1, <1>2, BeginsHarmless DEF CancelBegin, CancAt
  <1>3. CASE CancelBooking(k)
    BY <1>1, <1>3, OthersHarmless DEF CancelBooking, CancAt, NoNewLock
  <1>4. CASE CancelSeats(k)
    <2>1. NoNewLock
      BY <1>1, <1>4 DEF CancelSeats, UpdateSeatsOf, NoNewLock, FreeRow, UnlockRow, SeatRow
    <2> QED BY <1>1, <1>4, <2>1, OthersHarmless DEF CancelSeats, CancAt
  <1>5. CASE CancelCommit(k)
    BY <1>5, EndsHarmless DEF CancelCommit
  <1> QED BY <1>2, <1>3, <1>4, <1>5 DEF CancStep

LEMMA ConfGoes ==
  ASSUME FlowsInv, NEW c \in Confirmers, NEW pc, ConfGoto(c, pc)
  PROVE  /\ conf'[c].pc = pc /\ conf'[c].booking = conf[c].booking
         /\ \A d \in Confirmers \ {c} : conf'[d] = conf[d]
  BY DEF FlowsInv, ConfCall, ConfGoto

LEMMA ConfIdles ==
  ASSUME FlowsInv, NEW c \in Confirmers, ConfDone(c)
  PROVE  conf'[c].pc = "idle"
  BY DEF FlowsInv, IdleTask, ConfDone

\* A step of c that takes it nowhere near a confirmation.
LEMMA ConfElsewhere ==
  ASSUME LockInv, NEW c \in Confirmers, May(c), UNCHANGED tx, NoNewLock,
         conf'[c].pc \notin {"booking", "seats"},
         \A s \in Seats : seat'[s].status = "BOOKED" => seat[s].status = "BOOKED"
  PROVE  Harmless
  <1>1. tx.owner \in {c, Nobody} /\ Nobody \notin Confirmers
    BY SagaAssumption DEF May
  <1>2. LockInv'
    BY <1>1 DEF LockInv, Validated, LockedBefore, NoNewLock
  <1>3. ASSUME NEW d \in Confirmers
        PROVE  NoTaking(d)
    BY DEF NoTaking
  <1> QED BY <1>2, <1>3 DEF Harmless

LEMMA ConfHarmless ==
  ASSUME IInv, LockInv, NEW c \in Confirmers, ConfStep(c), ~BookSeats(c)
  PROVE  Harmless
  <1>1. FlowsInv /\ seat \in [Seats -> SeatRow] /\ c \in Flow
    BY DEF Flow, IInv, TablesInv
  <1>2. CASE ConfBegin(c)
    BY <1>1, <1>2, ConfGoes, BeginsHarmless DEF ConfBegin, ConfAt
  <1>3. CASE ConfCommit(c) \/ ConfRollback(c)
    BY <1>3, EndsHarmless DEF ConfCommit, ConfRollback
  <1>4. CASE \/ FetchOrder(c) \/ RecordVerdict(c) \/ ReadBooking(c) \/ SetPaid(c)
             \/ ConfNotify(c) \/ RefundReads(c) \/ GatewayRefunds(c) \/ RecordRefund(c)
             \/ ConfCompensateBooking(c)
    <2>1. May(c) /\ UNCHANGED <<seat, tx>>
      BY <1>4 DEF FetchOrder, RecordVerdict, ReadBooking, SetPaid, ConfNotify, RefundReads,
                  GatewayRefunds, RecordRefund, ConfCompensateBooking, ConfAt, tables
    <2>2. \/ ConfDone(c)
          \/ \E pc \in {"verified", "rejected", "read", "paid", "begin", "rollback",
                        "gwrefund", "compbooking", "payrefund", "compseats"} :
               ConfGoto(c, pc)
      BY <1>4 DEF FetchOrder, RecordVerdict, ReadBooking, SetPaid, ConfNotify, RefundReads,
                  GatewayRefunds, RecordRefund, ConfCompensateBooking
    <2>3. conf'[c].pc \notin {"booking", "seats"}
      BY <1>1, <2>2, ConfGoes, ConfIdles
    <2> QED BY <2>1, <2>3, ConfElsewhere DEF NoNewLock
  <1>5. CASE ConfCompensateSeats(c)
    <2>1. /\ NoNewLock
          /\ \A s \in Seats : seat'[s].status = "BOOKED" => seat[s].status = "BOOKED"
      BY <1>1, <1>5 DEF ConfCompensateSeats, UpdateSeatsOf, DropRow, NoNewLock, SeatRow
    <2> QED BY <1>1, <1>5, <2>1, ConfIdles, ConfElsewhere DEF ConfCompensateSeats, ConfAt
  <1>6. CASE Validate(c)
    <2>1. May(c) /\ UNCHANGED <<seat, tx, saga>>
      BY <1>6 DEF Validate, ConfAt, tables
    <2>2. CASE ~SeatsValid(conf[c].booking)
      <3>1. conf'[c].pc = "rollback"
        BY <1>1, <1>6, <2>2, ConfGoes DEF Validate
      <3> QED BY <2>1, <3>1, ConfElsewhere DEF NoNewLock
    <2>3. CASE SeatsValid(conf[c].booking)
      <3>1. conf'[c].pc = "booking" /\ conf'[c].booking = conf[c].booking
        BY <1>1, <1>6, <2>3, ConfGoes DEF Validate
      <3>2. tx.owner \in {c, Nobody} /\ Nobody \notin Confirmers
        BY <2>1, SagaAssumption DEF May
      <3>3. \A s \in Seats :
              seat[s].booking_id = conf[c].booking /\ seat[s].status = "LOCKED" =>
                seat[s].locked_by = saga[conf[c].booking].user
        BY <2>3 DEF SeatsValid, SeatsOf
      <3>4. Validated'
        BY <2>1, <3>1, <3>2, <3>3 DEF Validated
      <3>5. LockedBefore'
        BY <2>1 DEF LockInv, LockedBefore
      <3> QED BY <2>1, <3>4, <3>5 DEF Harmless, LockInv, NoTaking
    <2> QED BY <2>2, <2>3
  <1>7. CASE ConfirmBooking(c)
    <2>1. May(c) /\ conf[c].pc = "booking" /\ UNCHANGED <<seat, tx, saga>>
      BY <1>7 DEF ConfirmBooking, ConfAt
    <2>2. tx.owner \in {c, Nobody} /\ Nobody \notin Confirmers
      BY <2>1, SagaAssumption DEF May
    <2>3. conf'[c].booking = conf[c].booking
      BY <1>1, <1>7, ConfGoes DEF ConfirmBooking
    <2> QED BY <2>1, <2>2, <2>3, LocksLeft
  <1> QED BY <1>2, <1>3, <1>4, <1>5, <1>6, <1>7 DEF ConfStep

\* The one step that books seats in a confirmation's transaction.
LEMMA BookingSeats ==
  ASSUME IInv, LockInv, NEW c \in Confirmers, BookSeats(c)
  PROVE  /\ LockInv'
         /\ \A d \in Confirmers, s \in Seats :
              tx.owner = d /\ seat[s].status = "LOCKED" /\ seat'[s].status = "BOOKED" =>
                saga[conf[d].booking].user = seat[s].locked_by
  <1>1. FlowsInv /\ seat \in [Seats -> SeatRow]
    BY DEF IInv, TablesInv
  <1>2. /\ conf[c].pc = "seats" /\ UNCHANGED tx
        /\ tx.owner \in {c, Nobody} /\ Nobody \notin Confirmers
    BY SagaAssumption DEF BookSeats, ConfAt, May
  <1>3. conf'[c].pc = "commit"
    BY <1>1, ConfGoes DEF BookSeats
  <1>4. NoNewLock
    BY <1>1 DEF BookSeats, UpdateSeatsOf, BookRow, NoNewLock, SeatRow
  <1>5. LockInv'
    BY <1>2, <1>3, <1>4 DEF LockInv, Validated, LockedBefore, NoNewLock
  <1>6. ASSUME NEW d \in Confirmers, NEW s \in Seats,
               tx.owner = d, seat[s].status = "LOCKED", seat'[s].status = "BOOKED"
        PROVE  saga[conf[d].booking].user = seat[s].locked_by
    <2>1. d = c
      BY <1>2, <1>6
    <2>2. seat[s].booking_id = conf[c].booking
      BY <1>1, <1>6 DEF BookSeats, UpdateSeatsOf
    <2> QED BY <1>2, <1>6, <2>1, <2>2 DEF LockInv, Validated
  <1> QED BY <1>5, <1>6

LEMMA CallsHarmless ==
  ASSUME IInv, LockInv, Calls
  PROVE  Harmless
  <1>1. FlowsInv
    BY DEF IInv
  <1>2. ASSUME NEW b \in Bookings, NEW u, NEW W, NEW n, StartSaga(b, u, W, n)
        PROVE  Harmless
    <2>1. \A d \in Bookings \ {b} : saga'[d] = saga[d]
      BY <1>1, <1>2 DEF StartSaga, FlowsInv
    <2>2. \A c \in Confirmers : conf[c].pc # "idle" => conf[c].booking \in Bookings \ {b}
      BY <1>2, ConfInserted DEF StartSaga, Unwritten
    <2> QED BY <1>2, <2>1, <2>2, LocksLeft DEF StartSaga, tables
  <1>3. ASSUME NEW c \in Confirmers, NEW b \in Bookings,
               SignedWebhook(c, b) \/ UnsignedWebhook(c, b) \/ Verify(c, b)
        PROVE  Harmless
    <2>1. May(c) /\ UNCHANGED <<seat, tx>>
      BY <1>3 DEF SignedWebhook, UnsignedWebhook, Webhook, Verify, ConfAt, tables
    <2>2. conf'[c].pc \in {"read", "fetch"}
      BY <1>1, <1>3 DEF SignedWebhook, UnsignedWebhook, Webhook, Verify, FlowsInv
    <2> QED BY <2>1, <2>2, ConfElsewhere DEF NoNewLock
  <1>4. ASSUME NEW b \in Bookings, (\E k \in Cancellers : StartCancel(k, b)) \/ Capture(b)
        PROVE  Harmless
    BY <1>4, LocksLeft DEF StartCancel, Capture, tables, flows
  <1> QED BY <1>2, <1>3, <1>4 DEF Calls

LEMMA ExpireHarmless ==
  ASSUME IInv, LockInv, NEW s \in Seats, Expire(s)
  PROVE  Harmless
  <1>1. seat \in [Seats -> SeatRow] /\ UNCHANGED <<conf, saga>>
    BY DEF IInv, TablesInv, Expire, flows
  <1>2. \A r \in Seats : /\ seat'[r].status = seat[r].status
                         /\ seat'[r].locked_by = seat[r].locked_by
                         /\ seat'[r].booking_id = seat[r].booking_id
    BY <1>1 DEF Expire, ExpireRow, SeatRow
  <1>3. /\ tx'.owner = tx.owner
        /\ tx.owner # Nobody =>
             \A r \in Seats : tx'.undo[1][r].status = tx.undo[1][r].status
    <2>1. CASE tx' = tx
      BY <2>1
    <2>2. CASE tx.owner # Nobody /\ tx' = [tx EXCEPT !.undo[1][s] = ExpireRow(@)]
      <3>1. /\ tx'.owner = tx.owner
            /\ tx'.undo = <<[tx.undo[1] EXCEPT ![s] = ExpireRow(@)], tx.undo[2], tx.undo[3]>>
        BY <2>2 DEF IInv, TablesInv, TxInv
      <3>2. tx.undo[1] \in [Seats -> SeatRow]
        BY <2>2 DEF IInv, TablesInv, TxInv
      <3>3. tx'.undo[1] = [tx.undo[1] EXCEPT ![s] = ExpireRow(@)]
        BY <3>1
      <3> QED BY <3>1, <3>2, <3>3 DEF ExpireRow, SeatRow
    <2> QED BY <2>1, <2>2 DEF Expire
  <1>4. LockInv'
    BY <1>1, <1>2, <1>3 DEF LockInv, Validated, LockedBefore
  <1> QED BY <1>2, <1>4 DEF Harmless, NoTaking

LEMMA RestHarmless ==
  ASSUME IInv, LockInv, Locking \/ Crash \/ UNCHANGED vars
  PROVE  Harmless
  <1>1. ASSUME NEW s \in Seats, (\E u \in Users : LockSeat(u, s)) \/ CleanSeat(s)
        PROVE  Harmless
    BY <1>1, NoTransaction DEF LockSeat, CleanSeat, May
  <1>2. CASE UNCHANGED vars
    BY <1>2, LocksLeft DEF vars, tables, flows
  <1>3. CASE Crash
    BY <1>3, EndsHarmless DEF Crash
  <1> QED BY <1>1, <1>2, <1>3, ExpireHarmless DEF Locking

\* A confirmation whose transaction the pool kept books no seat that somebody
\* else has locked: whatever splits, restarts and failing calls there are, and
\* however many confirmations (saga.service.ts 327-364).
THEOREM LocksRespected == Spec => ConfirmRespectsLocks
  <1> DEFINE Respects ==
        \A c \in Confirmers, s \in Seats :
          tx.owner = c /\ LiveLock(seat[s]) /\ seat'[s].status = "BOOKED"
            => saga[conf[c].booking].user = seat[s].locked_by
  <1>1. ASSUME IInv, LockInv, [Next]_vars
        PROVE  LockInv' /\ Respects
    <2>1. CASE Harmless
      BY <2>1 DEF Harmless, NoTaking, LiveLock
    <2>2. CASE \E c \in Confirmers : BookSeats(c)
      BY <1>1, <2>2, BookingSeats DEF LiveLock
    <2>3. Harmless \/ \E c \in Confirmers : BookSeats(c)
      <3>1. \A k \in Cancellers : k \notin Confirmers
        BY SagaAssumption
      <3> QED BY <1>1, <3>1, SagaHarmless, ConfHarmless, CancHarmless, CallsHarmless,
                 RestHarmless DEF Next
    <2> QED BY <2>1, <2>2, <2>3
  <1>2. Init => LockInv
    BY SagaAssumption DEF Init, LockInv, Validated, LockedBefore, NoTx
  <1>3. IInv /\ LockInv /\ [Next]_vars => [Respects]_vars
    BY <1>1
  <1>4. IInv /\ LockInv /\ [Next]_vars => LockInv'
    BY <1>1
  <1> QED BY <1>2, <1>3, <1>4, SpecIInv, PTL DEF Spec, ConfirmRespectsLocks
=============================================================================
