------------------------------ MODULE EventSeats ------------------------------
(***************************************************************************)
(* Seats of events (services/event.service.ts 55-119): lockSeats locks     *)
(* seats one statement after the other and frees them when one is taken;   *)
(* confirmBooking sells seats without a look at their locks.  A lock has   *)
(* an expiry that nothing compares and nothing cleans up.                  *)
(*                                                                         *)
(* History variables: "told" is what lockSeats answered and the user has   *)
(* not bought yet; "rude" becomes TRUE when somebody buys seats that       *)
(* lockSeats did not tell him to hold, or buys them twice.                 *)
(***************************************************************************)
EXTENDS Integers, Sequences, FiniteSets

CONSTANTS Users, Seats, NoUser,
          MaxBookings       \* bound of the bookings of the event

EventAssumption ==
  NoUser \notin Users /\ IsFiniteSet(Seats) /\ MaxBookings \in Nat

VARIABLES seat,        \* rows of event_seats
          available,   \* events.available_seats
          sold,        \* rows of event_bookings: the seats of each
          call,        \* call[u]: the request of u in flight
          told, rude

vars == <<seat, available, sold, call, told, rude>>

Idle == [pc |-> "idle"]
FreeSeat == [status |-> "AVAILABLE", locked_by |-> NoUser]

Init ==
  /\ seat = [s \in Seats |-> FreeSeat]
  /\ available = Cardinality(Seats)
  /\ sold = <<>>
  /\ call = [u \in Users |-> Idle]
  /\ told = [u \in Users |-> {}]
  /\ rude = FALSE
-----------------------------------------------------------------------------
(* lockSeats *)

StartLock(u, want) ==
  /\ call[u].pc = "idle"
  /\ call' = [call EXCEPT ![u] = [pc |-> "lock", want |-> want, locked |-> {}]]
  /\ UNCHANGED <<seat, available, sold, told, rude>>

\* UPDATE ... WHERE status = 'AVAILABLE', in the order of the request.
LockOne(u) ==
  LET c == call[u] IN
  /\ c.pc = "lock" /\ c.want # {}
  /\ \E s \in c.want :
       IF seat[s].status = "AVAILABLE"
       THEN /\ seat' = [seat EXCEPT ![s] = [status |-> "LOCKED", locked_by |-> u]]
            /\ call' = [call EXCEPT ![u] = [c EXCEPT !.want = @ \ {s}, !.locked = @ \cup {s}]]
       ELSE /\ call' = [call EXCEPT ![u] = [pc |-> "free", locked |-> c.locked]]
            /\ UNCHANGED seat
  /\ UNCHANGED <<available, sold, told, rude>>

LockAnswer(u) ==
  /\ call[u].pc = "lock" /\ call[u].want = {}
  /\ told' = [told EXCEPT ![u] = @ \cup call[u].locked]
  /\ call' = [call EXCEPT ![u] = Idle]
  /\ UNCHANGED <<seat, available, sold, rude>>

\* Mutant of Undo: all the seats that were asked for are freed.
UndoAll(c) == Seats

\* for (const r of locked)
Undo(c) == c.locked

\* The seats locked so far are freed, by number alone.
LockFails(u) ==
  LET c == call[u] IN
  /\ c.pc = "free"
  /\ seat' = [s \in Seats |-> IF s \in Undo(c) THEN FreeSeat ELSE seat[s]]
  /\ call' = [call EXCEPT ![u] = Idle]
  /\ UNCHANGED <<available, sold, told, rude>>
-----------------------------------------------------------------------------
(* confirmBooking *)

\* available_seats - n
LeftAfter(S) == available - Cardinality(S)

\* The transaction.
Confirm(u, S) ==
  /\ call[u].pc = "idle"
  /\ Len(sold) < MaxBookings
  /\ sold' = Append(sold, S)
  /\ seat' = [s \in Seats |->
       IF s \in S THEN [status |-> "BOOKED", locked_by |-> NoUser] ELSE seat[s]]
  /\ available' = LeftAfter(S)
  /\ rude' = (rude \/ ~(S \subseteq told[u]))
  /\ told' = [told EXCEPT ![u] = @ \ S]
  /\ UNCHANGED call
-----------------------------------------------------------------------------
Next ==
  \E u \in Users :
    \/ \E S \in SUBSET Seats \ {{}} : StartLock(u, S) \/ Confirm(u, S)
    \/ LockOne(u)
    \/ LockAnswer(u)
    \/ LockFails(u)

Spec == Init /\ [][Next]_vars
-----------------------------------------------------------------------------
TypeOK ==
  /\ seat \in [Seats -> [status : {"AVAILABLE", "LOCKED", "BOOKED"},
                         locked_by : Users \cup {NoUser}]]
  /\ available \in Int
  /\ sold \in Seq(SUBSET Seats)
  /\ told \in [Users -> SUBSET Seats]
  /\ rude \in BOOLEAN
  /\ \A u \in Users : call[u].pc \in {"idle", "lock", "free"}

\* Among clients that buy once what they locked, a seat is sold once, a sold
\* seat stays BOOKED, and the event's counter is the number of seats not
\* sold - although a confirmation asks neither for lock nor for status.
SoldOnce ==
  ~rude =>
    /\ \A i, j \in DOMAIN sold : i # j => sold[i] \cap sold[j] = {}
    /\ \A i \in DOMAIN sold : \A s \in sold[i] : seat[s].status = "BOOKED"
    /\ available = Cardinality({s \in Seats : seat[s].status # "BOOKED"})
=============================================================================
