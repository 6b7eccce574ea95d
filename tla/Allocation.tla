------------------------------ MODULE Allocation ------------------------------
(***************************************************************************)
(* POST /bookings/lock and POST /bookings/allocate                         *)
(* (routes/booking.routes.ts 68-230): several seats of a coach are locked  *)
(* one after the other, with substitutes for what is taken, and given back *)
(* when one is missing.  acquireSeatLock and releaseSeatLock are one step  *)
(* each here; SeatLock has them in full.                                   *)
(*                                                                         *)
(* History variables: told[s] is the user whom an answer told to hold s,   *)
(* leftBy[s] the user whose request ended in an error while it held s.     *)
(***************************************************************************)
EXTENDS SeatTable, Sequences, FiniteSets

CONSTANTS Seats,        \* seat numbers of one coach, from 1
          Requests,     \* requests in flight
          Wanted,       \* lists of seats a user asks for by number
          MaxSeats      \* seats asked for by count (6 in the schema)

AllocationAssumption ==
  /\ Seats \subseteq Nat /\ IsFiniteSet(Seats) /\ MaxSeats \in Nat
  /\ \A want \in Wanted : want \in Seq(Seats)

VARIABLES seat, req, told, leftBy

vars == <<seat, req, told, leftBy>>

\* The schedule is short against the 180 s of a lock: instants are 1 for a
\* lock that runs and 0 for one that ran out.
Now == 1
Live(s) == seat[s].status = "LOCKED" /\ ~ExpiredAt(seat[s], Now)
Available == {s \in Seats : seat[s].status = "AVAILABLE"}

Idle == [pc |-> "idle"]

Init ==
  /\ seat = [s \in Seats |-> FreshRow]
  /\ req = [r \in Requests |-> Idle]
  /\ told = [s \in Seats |-> NoUser]
  /\ leftBy = [s \in Seats |-> NoUser]

Goto(r, q) == req' = [req EXCEPT ![r] = q]

\* acquireSeatLock(s) for u.
Acquired(s, u) == seat' = [seat EXCEPT ![s] = LockRow(seat[s], u, Now)]
CanAcquire(s) == Lockable(seat[s], Now)

\* The seats of n with least ABS(seat_number - n) in S.
Distance(a, b) == IF a < b THEN b - a ELSE a - b
Nearest(S, n) == {s \in S : \A t \in S : Distance(s, n) <= Distance(t, n)}
-----------------------------------------------------------------------------
(* POST /lock *)

StartLock(r, u, want) ==
  /\ req[r].pc = "idle"
  /\ Goto(r, [pc |-> "lock", user |-> u, asked |-> want, next |-> 1, got |-> {}])
  /\ UNCHANGED <<seat, told, leftBy>>

\* Mutant of Push: the seat that was asked for is noted, not the substitute.
PushRequested(q, s) ==
  [pc |-> "lock", user |-> q.user, asked |-> q.asked, next |-> q.next + 1,
   got |-> q.got \cup {q.asked[q.next]}]

\* lockedSeats.push(allocatedSeat)
Push(q, s) ==
  [pc |-> "lock", user |-> q.user, asked |-> q.asked, next |-> q.next + 1,
   got |-> q.got \cup {s}]

\* The next seat is locked, or the seats that are AVAILABLE now are read.
LockNext(r) ==
  LET q == req[r] IN
  /\ q.pc = "lock"
  /\ q.next <= Len(q.asked)
  /\ LET s == q.asked[q.next] IN
     IF CanAcquire(s)
     THEN Acquired(s, q.user) /\ Goto(r, Push(q, s))
     ELSE /\ Goto(r, [pc |-> "substitute", user |-> q.user, asked |-> q.asked,
                      next |-> q.next, got |-> q.got, alts |->
                        {a \in Available : a \notin q.got
                           /\ \A i \in DOMAIN q.asked : q.asked[i] # a}])
          /\ UNCHANGED seat
  /\ UNCHANGED <<told, leftBy>>

\* The nearest that is left is tried; when none is, all are given back.
Substitute(r) ==
  LET q == req[r] IN
  /\ q.pc = "substitute"
  /\ \/ \E a \in Nearest(q.alts, q.asked[q.next]) :
          IF CanAcquire(a)
          THEN Acquired(a, q.user) /\ Goto(r, Push(q, a))
          ELSE /\ Goto(r, [q EXCEPT !.alts = @ \ {a}])
               /\ UNCHANGED seat
     \/ /\ q.alts = {}
        /\ Goto(r, [pc |-> "release", user |-> q.user, got |-> q.got])
        /\ UNCHANGED seat
  /\ UNCHANGED <<told, leftBy>>
-----------------------------------------------------------------------------
(* POST /allocate *)

\* The first n seats that are AVAILABLE, or 409.
StartAllocate(r, u, n) ==
  /\ req[r].pc = "idle"
  /\ Cardinality(Available) >= n
  /\ \E S \in SUBSET Available :
       /\ Cardinality(S) = n
       /\ \A s \in S, a \in Available \ S : s < a
       /\ Goto(r, [pc |-> "allocate", user |-> u, n |-> n, todo |-> S, got |-> {}])
  /\ UNCHANGED <<seat, told, leftBy>>

\* They are locked in order, and those that are taken by now left out.
AllocateNext(r) ==
  LET q == req[r] IN
  /\ q.pc = "allocate"
  /\ \E s \in q.todo :
       /\ \A t \in q.todo : s <= t
       /\ IF CanAcquire(s)
          THEN /\ Acquired(s, q.user)
               /\ Goto(r, [q EXCEPT !.todo = @ \ {s}, !.got = @ \cup {s}])
          ELSE /\ Goto(r, [q EXCEPT !.todo = @ \ {s}])
               /\ UNCHANGED seat
  /\ UNCHANGED <<told, leftBy>>

AllocateShort(r) ==
  LET q == req[r] IN
  /\ q.pc = "allocate"
  /\ q.todo = {}
  /\ Cardinality(q.got) < q.n
  /\ Goto(r, [pc |-> "release", user |-> q.user, got |-> q.got])
  /\ UNCHANGED <<seat, told, leftBy>>

\* Mutant of Complete: the number of locks is not compared.
CompleteShort(q) ==
  \/ q.pc = "lock" /\ q.next > Len(q.asked)
  \/ q.pc = "allocate" /\ q.todo = {}

\* 200 with the seats.
Complete(q) ==
  \/ q.pc = "lock" /\ q.next > Len(q.asked)
  \/ q.pc = "allocate" /\ q.todo = {} /\ Cardinality(q.got) >= q.n

Answer(r) ==
  LET q == req[r] IN
  /\ Complete(q)
  /\ told' = [s \in Seats |-> IF s \in q.got THEN q.user ELSE told[s]]
  /\ Goto(r, Idle)
  /\ UNCHANGED <<seat, leftBy>>

\* releaseSeatLock of one seat locked so far; then 409.
Release(r) ==
  LET q == req[r] IN
  /\ q.pc = "release"
  /\ \/ \E s \in q.got :
          /\ seat' = IF LockedBy(seat[s], q.user)
                     THEN [seat EXCEPT ![s] = UnlockRow(seat[s])] ELSE seat
          /\ Goto(r, [q EXCEPT !.got = @ \ {s}])
     \/ q.got = {} /\ Goto(r, Idle) /\ UNCHANGED seat
  /\ UNCHANGED <<told, leftBy>>
-----------------------------------------------------------------------------
(* The catch of both handlers: next(error), and nothing is given back. *)

Leaves(r, S) ==
  /\ leftBy' = [s \in Seats |-> IF s \in S THEN req[r].user ELSE leftBy[s]]
  /\ Goto(r, Idle)
  /\ UNCHANGED told

\* acquireSeatLock, releaseSeatLock, the SELECT of the alternatives or the INSERT
\* into audit_logs throws.
Fails(r) ==
  /\ req[r].pc # "idle"
  /\ Leaves(r, req[r].got)
  /\ UNCHANGED seat

\* The seats that acquireSeatLock may be called for next.
Tried(q) ==
  CASE q.pc = "lock" /\ q.next <= Len(q.asked) -> {q.asked[q.next]}
    [] q.pc = "substitute" -> Nearest(q.alts, q.asked[q.next])
    [] q.pc = "allocate" -> {s \in q.todo : \A t \in q.todo : s <= t}
    [] OTHER -> {}

\* acquireSeatLock throws when the seat is locked: addSeatExpiryJob failed.
LocksAndFails(r) ==
  \E s \in Tried(req[r]) :
    /\ CanAcquire(s)
    /\ Acquired(s, req[r].user)
    /\ Leaves(r, req[r].got \cup {s})
-----------------------------------------------------------------------------
(* What else happens to a seat.  A seat that is BOOKED is no different here *)
(* from one whose lock somebody keeps, so the sale is left out.            *)

InFlight(s) == \E r \in Requests : req[r].pc # "idle" /\ s \in req[r].got

\* 180 s pass; a request is shorter than that.
Expire(s) ==
  /\ Live(s) /\ ~InFlight(s)
  /\ seat' = [seat EXCEPT ![s].lock_expires_at = 0]
  /\ told' = [told EXCEPT ![s] = NoUser]
  /\ leftBy' = [leftBy EXCEPT ![s] = NoUser]
  /\ UNCHANGED req

\* The cleaner.
Free(s) ==
  /\ ExpiredAt(seat[s], Now)
  /\ seat' = [seat EXCEPT ![s] = FreeRow(seat[s])]
  /\ UNCHANGED <<req, told, leftBy>>
-----------------------------------------------------------------------------
Next ==
  \/ \E r \in Requests :
       \/ \E u \in Users, want \in Wanted : StartLock(r, u, want)
       \/ LockNext(r)
       \/ Substitute(r)
       \/ \E u \in Users, n \in 1..MaxSeats : StartAllocate(r, u, n)
       \/ AllocateNext(r)
       \/ AllocateShort(r)
       \/ Answer(r)
       \/ Release(r)
       \/ Fails(r)
       \/ LocksAndFails(r)
  \/ \E s \in Seats : Expire(s) \/ Free(s)

Spec == Init /\ [][Next]_vars
-----------------------------------------------------------------------------
Request ==
  [pc : {"idle"}]
  \cup [pc : {"lock"}, user : Users, asked : Wanted, next : Nat, got : SUBSET Seats]
  \cup [pc : {"substitute"}, user : Users, asked : Wanted, next : Nat,
        got : SUBSET Seats, alts : SUBSET Seats]
  \cup [pc : {"allocate"}, user : Users, n : Nat, todo : SUBSET Seats,
        got : SUBSET Seats]
  \cup [pc : {"release"}, user : Users, got : SUBSET Seats]

TypeOK ==
  /\ seat \in [Seats -> SeatRow]
  /\ req \in [Requests -> Request]
  /\ told \in [Seats -> Users \cup {NoUser}]
  /\ leftBy \in [Seats -> Users \cup {NoUser}]

\* A running lock belongs to an answer its user has got, to a request of the user
\* that still runs, or to one that died on an error (its lock waits for the
\* expiry).  No request that was refused, with or without substitutes, leaves a
\* lock that nobody knows of.
NoOrphanLock ==
  \A s \in Seats : Live(s) =>
    \/ seat[s].locked_by \in {told[s], leftBy[s]}
    \/ \E r \in Requests : /\ req[r].pc # "idle"
                           /\ s \in req[r].got
                           /\ req[r].user = seat[s].locked_by

\* An answer names as many different seats as were asked for, each of them
\* locked for the user, also when a number is asked for twice.
AnsweredInFull ==
  [][\A r \in Requests : Answer(r) =>
       LET q == req[r] IN
       /\ Cardinality(q.got) = IF q.pc = "lock" THEN Len(q.asked) ELSE q.n
       /\ \A s \in q.got : LockedBy(seat[s], q.user)]_vars
=============================================================================
