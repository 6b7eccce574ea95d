--------------------------- MODULE SeatPartsProofs ---------------------------
(***************************************************************************)
(* Proofs about the parts of BookingParts that give out seats: the allocation *)
(* of several, the event seats, the keys of a checkout.                    *)
(***************************************************************************)
EXTENDS BookingParts, FiniteSetTheorems, TLAPS
-----------------------------------------------------------------------------
\* Several seats of a coach at once.
\* The instance's own copies of two library operators are those operators.
LEMMA AllocationSets ==
  /\ \A S : A!IsFiniteSet(S) <=> IsFiniteSet(S)
  /\ \A S : A!Cardinality(S) = Cardinality(S)
  <1>1. \A S : A!IsFiniteSet(S) <=> IsFiniteSet(S)
    BY DEF A!IsFiniteSet, IsFiniteSet
  <1>2. \A S : A!Cardinality(S) = Cardinality(S)
    BY DEF A!Cardinality, Cardinality
  <1> QED BY <1>1, <1>2

LEMMA AllocationAssumed == A!AllocationAssumption
  BY PartsAssumption DEF PartsAssumption

LockRequest == [pc : {"lock"}, user : Users, asked : Wanted, next : Nat, got : SUBSET Seats]
SubstituteRequest == [pc : {"substitute"}, user : Users, asked : Wanted, next : Nat,
                      got : SUBSET Seats, alts : SUBSET Seats]
AllocateRequest == [pc : {"allocate"}, user : Users, n : Nat, todo : SUBSET Seats,
                    got : SUBSET Seats]
ReleaseRequest == [pc : {"release"}, user : Users, got : SUBSET Seats]

\* What a request has locked and not given back.
Got(q) == IF q.pc = "idle" THEN {} ELSE q.got

\* One seat is locked for every position of the list that is done; no more
\* seats are locked or still to be tried than were to be allocated.
Fits(q) ==
  /\ q.pc \in {"lock", "substitute"} =>
       /\ Cardinality(q.got) = q.next - 1
       /\ q.next \in 1..(Len(q.asked) + 1)
       /\ q.pc = "substitute" => q.next <= Len(q.asked)
  /\ q.pc = "allocate" => Cardinality(q.got) + Cardinality(q.todo) <= q.n

\* A seat that a request has got is locked for its user, and no other request
\* has got it.
Holds(r) == \A s \in Got(req[r]) : A!LockedBy(seat[s], req[r].user) /\ A!Live(s)
GotApart == \A r, q \in Requests : r # q => Got(req[r]) \cap Got(req[q]) = {}

AllocationIInv == /\ A!TypeOK
                  /\ \A r \in Requests : Fits(req[r]) /\ Holds(r)
                  /\ GotApart /\ A!NoOrphanLock
-----------------------------------------------------------------------------
LEMMA RequestShapes ==
  A!Request = [pc : {"idle"}] \cup LockRequest \cup SubstituteRequest
            \cup AllocateRequest \cup ReleaseRequest
  BY DEF A!Request, LockRequest, SubstituteRequest, AllocateRequest, ReleaseRequest

LEMMA RequestTypes ==
  ASSUME NEW q \in A!Request
  PROVE  /\ Got(q) \subseteq Seats /\ (q.pc # "idle" => q.user \in Users /\ Got(q) = q.got)
         /\ q.pc \in {"lock", "substitute"} => q.asked \in Seq(Seats) /\ q.next \in Nat
         /\ q.pc = "lock" => q \in LockRequest
         /\ q.pc = "substitute" => q \in SubstituteRequest
         /\ q.pc = "allocate" => q \in AllocateRequest
         /\ q.pc = "release" => q \in ReleaseRequest
  BY RequestShapes, AllocationAssumed DEF Got, A!AllocationAssumption, LockRequest,
     SubstituteRequest, AllocateRequest, ReleaseRequest

LEMMA AllocationTypes ==
  A!TypeOK <=> /\ seat \in [Seats -> A!SeatRow] /\ req \in [Requests -> A!Request]
               /\ told \in [Seats -> Users \cup {NoUser}]
               /\ leftBy \in [Seats -> Users \cup {NoUser}]
  BY DEF A!TypeOK

LEMMA Counting ==
  ASSUME NEW S \in SUBSET Seats, NEW s \in Seats
  PROVE  /\ IsFiniteSet(S) /\ Cardinality(S) \in Nat
         /\ s \notin S => Cardinality(S \cup {s}) = Cardinality(S) + 1
         /\ s \in S => Cardinality(S \ {s}) = Cardinality(S) - 1
  BY AllocationAssumed, AllocationSets, FS_Subset, FS_CardinalityType, FS_AddElement,
     FS_RemoveElement
  DEF A!AllocationAssumption

LEMMA AllocationRows ==
  ASSUME NEW row \in A!SeatRow, NEW u \in Users
  PROVE  LET l == A!LockRow(row, u, A!Now)
             f == A!UnlockRow(row) IN
         /\ l \in A!SeatRow /\ l.status = "LOCKED" /\ l.locked_by = u /\ l.lock_expires_at = 1
         /\ f \in A!SeatRow /\ f.status = "AVAILABLE"
         /\ A!FreeRow(row) \in A!SeatRow /\ A!FreeRow(row).status = "AVAILABLE"
  BY DEF A!LockRow, A!UnlockRow, A!FreeRow, A!SeatRow, A!SeatStatus, A!Now

LEMMA LiveMeans ==
  \A s : A!Live(s) <=> seat[s].status = "LOCKED" /\ ~(seat[s].lock_expires_at < 1)
  BY DEF A!Live, A!ExpiredAt, A!Now

\* A seat that can be locked is nobody's.
LEMMA LockableIsFree ==
  ASSUME AllocationIInv, NEW s \in Seats, A!CanAcquire(s)
  PROVE  ~A!Live(s) /\ \A r \in Requests : s \notin Got(req[r])
  <1>1. ~A!Live(s)
    BY DEF A!Live, A!CanAcquire, A!Lockable, A!ExpiredAt
  <1> QED BY <1>1 DEF AllocationIInv, Holds

\* A request goes on and locks nothing: it has got what it had.
LEMMA GoesOn ==
  ASSUME AllocationIInv, NEW r \in Requests, NEW d \in A!Request, Fits(d),
         req' = [req EXCEPT ![r] = d], UNCHANGED <<seat, told, leftBy>>,
         Got(d) = Got(req[r]), Got(d) # {} => d.user = req[r].user
  PROVE  AllocationIInv'
  <1> USE AllocationTypes DEF AllocationIInv
  <1>1. /\ req' \in [Requests -> A!Request]
        /\ \A q \in Requests : /\ req'[q] = IF q = r THEN d ELSE req[q]
                               /\ Got(req'[q]) = Got(req[q])
    OBVIOUS
  <1>2. A!TypeOK'
    BY <1>1 DEF A!TypeOK
  <1>3. \A q \in Requests : Fits(req'[q])
    BY <1>1
  <1>4. \A s : A!Live(s)' <=> A!Live(s)
    BY DEF A!Live
  <1>5. \A q \in Requests : Holds(q)'
    BY <1>1, <1>4 DEF Holds
  <1>6. GotApart'
    BY <1>1 DEF GotApart
  <1>7. A!NoOrphanLock'
    <2> SUFFICES ASSUME NEW s \in Seats, A!Live(s), seat[s].locked_by \notin {told[s], leftBy[s]}
                 PROVE  \E q \in Requests : /\ req'[q].pc # "idle" /\ s \in req'[q].got
                                            /\ req'[q].user = seat[s].locked_by
      BY <1>4 DEF A!NoOrphanLock
    <2>1. PICK q \in Requests : /\ s \in Got(req[q]) /\ req[q].user = seat[s].locked_by
      BY DEF A!NoOrphanLock, Got
    <2>2. s \in Got(req'[q]) /\ req'[q].user = seat[s].locked_by
      BY <1>1, <2>1
    <2> QED BY <2>2 DEF Got
  <1> QED BY <1>2, <1>3, <1>5, <1>6, <1>7 DEF Fits

\* It locks a seat that was nobody's, and has got it.
LEMMA Gets ==
  ASSUME AllocationIInv, NEW r \in Requests, NEW s \in Seats, NEW d \in A!Request, Fits(d),
         req[r].pc # "idle", d.pc # "idle", d.user = req[r].user,
         d.got = req[r].got \cup {s}, A!CanAcquire(s), A!Acquired(s, req[r].user),
         req' = [req EXCEPT ![r] = d], UNCHANGED <<told, leftBy>>
  PROVE  AllocationIInv'
  <1> USE AllocationTypes DEF AllocationIInv
  <1> DEFINE u == req[r].user
             l == A!LockRow(seat[s], u, A!Now)
  <1>1. u \in Users /\ Got(d) = Got(req[r]) \cup {s}
    BY RequestTypes DEF Got
  <1>2. /\ l \in A!SeatRow /\ l.status = "LOCKED" /\ l.locked_by = u /\ l.lock_expires_at = 1
        /\ seat' = [seat EXCEPT ![s] = l]
    BY <1>1, AllocationRows DEF A!Acquired
  <1> HIDE DEF l
  <1>3. /\ seat' \in [Seats -> A!SeatRow] /\ req' \in [Requests -> A!Request]
        /\ \A t \in Seats : seat'[t] = IF t = s THEN l ELSE seat[t]
        /\ \A q \in Requests : /\ req'[q] = IF q = r THEN d ELSE req[q]
                               /\ Got(req'[q]) = IF q = r THEN Got(req[q]) \cup {s}
                                                 ELSE Got(req[q])
                               /\ Got(req[q]) # {} => req'[q].user = req[q].user
                               /\ Got(req[q]) \subseteq Seats
    BY <1>1, <1>2, RequestTypes
  <1>4. A!TypeOK'
    BY <1>3 DEF A!TypeOK
  <1>5. \A q \in Requests : s \notin Got(req[q])
    BY LockableIsFree
  <1>6. \A t \in Seats : A!Live(t)' <=> t = s \/ A!Live(t)
    BY <1>2, <1>3 DEF A!Live, A!ExpiredAt, A!Now
  <1>7. \A q \in Requests : Holds(q)'
    <2> SUFFICES ASSUME NEW q \in Requests, NEW t \in Got(req'[q])
                 PROVE  A!LockedBy(seat'[t], req'[q].user) /\ A!Live(t)'
      BY DEF Holds
    <2>1. CASE t \in Got(req[q])
      <3>1. t \in Seats /\ t # s /\ req'[q].user = req[q].user /\ seat'[t] = seat[t]
        BY <1>3, <1>5, <2>1
      <3> QED BY <1>6, <2>1, <3>1 DEF Holds
    <2>2. CASE t \notin Got(req[q])
      <3>1. t = s /\ q = r
        BY <1>3, <2>2
      <3> QED BY <1>2, <1>3, <1>6, <3>1 DEF A!LockedBy
    <2> QED BY <2>1, <2>2
  <1>8. GotApart'
    <2> SUFFICES ASSUME NEW p \in Requests, NEW q \in Requests, p # q,
                        NEW t \in Got(req'[p]), t \in Got(req'[q])
                 PROVE  FALSE
      BY DEF GotApart
    <2>1. t \in Got(req[p]) \/ (t = s /\ p = r)
      BY <1>3
    <2>2. t \in Got(req[q]) \/ (t = s /\ q = r)
      BY <1>3
    <2> QED BY <1>5, <2>1, <2>2 DEF GotApart
  <1>9. A!NoOrphanLock'
    <2> SUFFICES ASSUME NEW t \in Seats, A!Live(t)', seat'[t].locked_by \notin {told[t], leftBy[t]}
                 PROVE  \E q \in Requests : /\ req'[q].pc # "idle" /\ t \in req'[q].got
                                            /\ req'[q].user = seat'[t].locked_by
      BY DEF A!NoOrphanLock
    <2>1. CASE t = s
      <3>1. req'[r].pc # "idle" /\ s \in req'[r].got /\ req'[r].user = seat'[s].locked_by
        BY <1>2, <1>3
      <3> QED BY <2>1, <3>1
    <2>2. CASE t # s
      <3>1. PICK q \in Requests : t \in Got(req[q]) /\ req[q].user = seat[t].locked_by
        BY <1>3, <1>6, <2>2 DEF A!NoOrphanLock, Got
      <3>2. t \in Got(req'[q]) /\ req'[q].user = seat'[t].locked_by
        BY <1>3, <2>2, <3>1
      <3> QED BY <3>2 DEF Got
    <2> QED BY <2>1, <2>2
  <1>10. \A q \in Requests : Fits(req'[q])
    BY <1>3
  <1> QED BY <1>4, <1>7, <1>8, <1>9, <1>10 DEF Fits

\* A seat that no request has got, or only r who lets go of it, stops being live.
LEMMA LetsGo ==
  ASSUME AllocationIInv, NEW s \in Seats, NEW row \in A!SeatRow, seat' = [seat EXCEPT ![s] = row],
         ~(row.status = "LOCKED" /\ ~(row.lock_expires_at < 1)),
         req' \in [Requests -> A!Request],
         \A q \in Requests : /\ Got(req'[q]) = Got(req[q]) \ {s}
                             /\ Got(req'[q]) # {} => req'[q].user = req[q].user
                             /\ Fits(req'[q]),
         told' \in [Seats -> Users \cup {NoUser}], leftBy' \in [Seats -> Users \cup {NoUser}],
         \A t \in Seats : t # s => told'[t] = told[t] /\ leftBy'[t] = leftBy[t]
  PROVE  AllocationIInv'
  <1> USE AllocationTypes DEF AllocationIInv
  <1>1. /\ seat' \in [Seats -> A!SeatRow]
        /\ \A t \in Seats : seat'[t] = IF t = s THEN row ELSE seat[t]
    OBVIOUS
  <1>2. A!TypeOK'
    BY <1>1 DEF A!TypeOK
  <1>3. \A t \in Seats : A!Live(t)' <=> t # s /\ A!Live(t)
    BY <1>1 DEF A!Live, A!ExpiredAt, A!Now
  <1>4. \A q \in Requests : Got(req[q]) \subseteq Seats
    BY RequestTypes
  <1>5. \A q \in Requests : Holds(q)'
    BY <1>1, <1>3, <1>4 DEF Holds, A!LockedBy
  <1>6. GotApart'
    BY DEF GotApart
  <1>7. A!NoOrphanLock'
    <2> SUFFICES ASSUME NEW t \in Seats, A!Live(t)', seat'[t].locked_by \notin {told'[t], leftBy'[t]}
                 PROVE  \E q \in Requests : /\ req'[q].pc # "idle" /\ t \in req'[q].got
                                            /\ req'[q].user = seat'[t].locked_by
      BY DEF A!NoOrphanLock
    <2>1. t # s /\ A!Live(t) /\ seat[t].locked_by \notin {told[t], leftBy[t]}
      BY <1>1, <1>3
    <2>2. PICK q \in Requests : t \in Got(req[q]) /\ req[q].user = seat[t].locked_by
      BY <2>1 DEF A!NoOrphanLock, Got
    <2>3. t \in Got(req'[q]) /\ req'[q].user = seat'[t].locked_by
      BY <1>1, <2>1, <2>2
    <2> QED BY <2>3 DEF Got
  <1> QED BY <1>2, <1>5, <1>6, <1>7 DEF Fits
-----------------------------------------------------------------------------
LEMMA LockIInv ==
  ASSUME AllocationIInv, NEW r \in Requests
  PROVE  /\ \A u \in Users, want \in Wanted : A!StartLock(r, u, want) => AllocationIInv'
         /\ A!LockNext(r) => AllocationIInv'
         /\ A!Substitute(r) => AllocationIInv'
  <1> USE AllocationTypes, RequestShapes DEF AllocationIInv
  <1>1. ASSUME NEW u \in Users, NEW want \in Wanted, A!StartLock(r, u, want) PROVE AllocationIInv'
    <2> DEFINE d == [pc |-> "lock", user |-> u, asked |-> want, next |-> 1, got |-> {}]
    <2>1. d \in A!Request
      BY DEF LockRequest
    <2>2. want \in Seq(Seats)
      BY AllocationAssumed DEF A!AllocationAssumption
    <2>3. Fits(d) /\ Got(d) = {} /\ Got(req[r]) = {}
      BY <1>1, <2>2, FS_EmptySet DEF Fits, Got, A!StartLock
    <2> HIDE DEF d
    <2>4. req' = [req EXCEPT ![r] = d] /\ UNCHANGED <<seat, told, leftBy>>
      BY <1>1 DEF A!StartLock, A!Goto, d
    <2> QED BY <2>1, <2>3, <2>4, GoesOn
  <1> DEFINE q == req[r]
  <1>2. ASSUME NEW s \in Seats, s \notin q.got, q.pc \in {"lock", "substitute"},
               q.next <= Len(q.asked)
        PROVE  LET d == A!Push(q, s) IN
               /\ d \in A!Request /\ Fits(d) /\ d.pc # "idle" /\ d.user = q.user
               /\ d.got = q.got \cup {s}
    <2> DEFINE d == A!Push(q, s)
    <2>1. q \in A!Request /\ q.got \subseteq Seats /\ q.user \in Users /\ q.asked \in Wanted
          /\ q.next \in Nat /\ q.asked \in Seq(Seats)
      BY <1>2, RequestTypes DEF LockRequest, SubstituteRequest
    <2>2. d \in LockRequest /\ d.pc = "lock" /\ d.user = q.user /\ d.got = q.got \cup {s}
          /\ d.next = q.next + 1 /\ d.asked = q.asked
      BY <1>2, <2>1 DEF A!Push, LockRequest
    <2>3. Cardinality(q.got) = q.next - 1 /\ q.next \in 1..(Len(q.asked) + 1)
      BY <1>2 DEF Fits
    <2> HIDE DEF d, q
    <2>4. Cardinality(d.got) = q.next
      <3>1. Cardinality(q.got \cup {s}) = Cardinality(q.got) + 1
        BY <1>2, <2>1, Counting
      <3> QED BY <2>1, <2>2, <2>3, <3>1
    <2>5. Fits(d)
      BY <1>2, <2>1, <2>2, <2>3, <2>4 DEF Fits
    <2> QED BY <2>2, <2>5 DEF d, q
  <1>3. ASSUME NEW s \in Seats, q.pc \in {"lock", "substitute"}, q.next <= Len(q.asked),
               A!CanAcquire(s), A!Acquired(s, q.user), A!Goto(r, A!Push(q, s)), UNCHANGED <<told, leftBy>>
        PROVE  AllocationIInv'
    <2>1. s \notin q.got
      BY <1>3, LockableIsFree DEF Got
    <2> DEFINE d == A!Push(q, s)
    <2>2. /\ d \in A!Request /\ Fits(d) /\ d.pc # "idle" /\ d.user = q.user
          /\ d.got = q.got \cup {s}
      BY <1>2, <1>3, <2>1
    <2> HIDE DEF d
    <2>3. req' = [req EXCEPT ![r] = d]
      BY <1>3 DEF A!Goto, d
    <2> QED BY <1>3, <2>2, <2>3, Gets
  <1>4. ASSUME A!LockNext(r) PROVE AllocationIInv'
    <2>1. q.pc = "lock" /\ q.next <= Len(q.asked) /\ UNCHANGED <<told, leftBy>> /\ q \in LockRequest
          /\ q.asked \in Seq(Seats) /\ q.next \in 1..(Len(q.asked) + 1)
      BY <1>4, RequestTypes DEF A!LockNext, Fits
    <2>2. q.asked[q.next] \in Seats
      BY <2>1
    <2>3. CASE A!CanAcquire(q.asked[q.next])
      BY <1>3, <1>4, <2>1, <2>2, <2>3 DEF A!LockNext
    <2>4. CASE ~A!CanAcquire(q.asked[q.next])
      <3> DEFINE d == [pc |-> "substitute", user |-> q.user, asked |-> q.asked,
                       next |-> q.next, got |-> q.got, alts |->
                         {a \in A!Available : a \notin q.got
                            /\ \A i \in DOMAIN q.asked : q.asked[i] # a}]
      <3>1. d \in SubstituteRequest
        BY <2>1 DEF LockRequest, SubstituteRequest, A!Available
      <3>2. Cardinality(q.got) = q.next - 1
        BY <2>1 DEF Fits
      <3>3. Fits(d) /\ Got(d) = q.got /\ d.user = q.user /\ Got(q) = q.got
        BY <2>1, <3>2 DEF Fits, Got
      <3>4. req' = [req EXCEPT ![r] = d] /\ UNCHANGED seat
        BY <1>4, <2>4 DEF A!LockNext, A!Goto
      <3> HIDE DEF d
      <3> QED BY <2>1, <3>1, <3>3, <3>4, GoesOn
    <2> QED BY <2>3, <2>4
  <1>5. ASSUME A!Substitute(r) PROVE AllocationIInv'
    <2>1. q.pc = "substitute" /\ UNCHANGED <<told, leftBy>> /\ q \in SubstituteRequest
          /\ q.next <= Len(q.asked) /\ Fits(q) /\ Got(q) = q.got
      BY <1>5, RequestTypes DEF A!Substitute, Fits
    <2>2. ASSUME NEW a \in A!Nearest(q.alts, q.asked[q.next]),
                 IF A!CanAcquire(a) THEN A!Acquired(a, q.user) /\ A!Goto(r, A!Push(q, a))
                 ELSE /\ A!Goto(r, [q EXCEPT !.alts = @ \ {a}])
                      /\ UNCHANGED seat
          PROVE  AllocationIInv'
      <3>1. a \in Seats
        BY <2>1 DEF A!Nearest, SubstituteRequest
      <3>2. CASE A!CanAcquire(a)
        BY <1>3, <2>1, <2>2, <3>1, <3>2
      <3>3. CASE ~A!CanAcquire(a)
        <4> DEFINE d == [q EXCEPT !.alts = @ \ {a}]
        <4>1. d \in SubstituteRequest /\ d.pc = q.pc /\ d.got = q.got /\ d.next = q.next
              /\ d.asked = q.asked /\ d.user = q.user
          BY <2>1 DEF SubstituteRequest
        <4>2. req' = [req EXCEPT ![r] = d] /\ UNCHANGED seat
          BY <2>2, <3>3 DEF A!Goto
        <4> HIDE DEF d
        <4>3. Fits(d) /\ Got(d) = q.got
          BY <2>1, <4>1 DEF Fits, Got
        <4> QED BY <2>1, <4>1, <4>2, <4>3, GoesOn
      <3> QED BY <3>2, <3>3
    <2>3. ASSUME A!Goto(r, [pc |-> "release", user |-> q.user, got |-> q.got]), UNCHANGED seat
          PROVE  AllocationIInv'
      <3> DEFINE d == [pc |-> "release", user |-> q.user, got |-> q.got]
      <3>1. d \in ReleaseRequest
        BY <2>1 DEF SubstituteRequest, ReleaseRequest
      <3>2. Fits(d) /\ Got(d) = q.got /\ d.user = q.user
        BY DEF Fits, Got
      <3>3. req' = [req EXCEPT ![r] = d]
        BY <2>3 DEF A!Goto
      <3> HIDE DEF d
      <3> QED BY <2>1, <2>3, <3>1, <3>2, <3>3, GoesOn
    <2> QED BY <1>5, <2>2, <2>3 DEF A!Substitute
  <1> QED BY <1>1, <1>4, <1>5

LEMMA AllocateIInv ==
  ASSUME AllocationIInv, NEW r \in Requests
  PROVE  /\ \A u \in Users, n \in 1..MaxSeats : A!StartAllocate(r, u, n) => AllocationIInv'
         /\ A!AllocateNext(r) => AllocationIInv'
         /\ A!AllocateShort(r) => AllocationIInv'
  <1> USE AllocationTypes, RequestShapes DEF AllocationIInv
  <1> DEFINE q == req[r]
  <1>1. ASSUME NEW u \in Users, NEW n \in 1..MaxSeats, A!StartAllocate(r, u, n) PROVE AllocationIInv'
    <2>1. PICK S \in SUBSET A!Available :
            /\ Cardinality(S) = n
            /\ A!Goto(r, [pc |-> "allocate", user |-> u, n |-> n, todo |-> S, got |-> {}])
      BY <1>1, AllocationSets DEF A!StartAllocate
    <2> DEFINE d == [pc |-> "allocate", user |-> u, n |-> n, todo |-> S, got |-> {}]
    <2>2. S \subseteq Seats /\ n \in Nat
      BY DEF A!Available
    <2>3. d \in AllocateRequest
      BY <2>2 DEF AllocateRequest
    <2>4. Fits(d) /\ Got(d) = {} /\ Got(q) = {}
      BY <1>1, <2>1, <2>2, FS_EmptySet DEF Fits, Got, A!StartAllocate
    <2>5. req' = [req EXCEPT ![r] = d] /\ UNCHANGED <<seat, told, leftBy>>
      BY <1>1, <2>1 DEF A!StartAllocate, A!Goto
    <2> HIDE DEF d
    <2> QED BY <2>3, <2>4, <2>5, GoesOn
  <1>2. ASSUME A!AllocateNext(r) PROVE AllocationIInv'
    <2>1. q.pc = "allocate" /\ UNCHANGED <<told, leftBy>> /\ q \in AllocateRequest /\ Got(q) = q.got
      BY <1>2, RequestTypes DEF A!AllocateNext
    <2>2. PICK s \in q.todo :
            IF A!CanAcquire(s)
            THEN /\ A!Acquired(s, q.user)
                 /\ A!Goto(r, [q EXCEPT !.todo = @ \ {s}, !.got = @ \cup {s}])
            ELSE /\ A!Goto(r, [q EXCEPT !.todo = @ \ {s}])
                 /\ UNCHANGED seat
      BY <1>2 DEF A!AllocateNext
    <2>3. s \in Seats /\ q.todo \subseteq Seats /\ q.got \subseteq Seats /\ q.n \in Nat
          /\ Cardinality(q.got) + Cardinality(q.todo) <= q.n
      BY <2>1 DEF AllocateRequest, Fits
    <2>4. /\ Cardinality(q.todo \ {s}) = Cardinality(q.todo) - 1
          /\ Cardinality(q.got) \in Nat /\ Cardinality(q.todo) \in Nat
      <3>1. s \in q.todo
        OBVIOUS
      <3> HIDE DEF q
      <3> QED BY <2>3, <3>1, Counting
    <2>5. CASE A!CanAcquire(s)
      <3> DEFINE d == [q EXCEPT !.todo = @ \ {s}, !.got = @ \cup {s}]
      <3>1. d \in AllocateRequest /\ d.pc = "allocate" /\ d.user = q.user /\ d.n = q.n
            /\ d.got = q.got \cup {s} /\ d.todo = q.todo \ {s}
        BY <2>1, <2>3 DEF AllocateRequest
      <3>2. A!Acquired(s, q.user) /\ req' = [req EXCEPT ![r] = d]
        BY <2>2, <2>5 DEF A!Goto
      <3>3. s \notin q.got
        BY <2>1, <2>3, <2>5, LockableIsFree
      <3> HIDE DEF d
      <3>4. Fits(d)
        <4> HIDE DEF q
        <4>1. Cardinality(q.got \cup {s}) = Cardinality(q.got) + 1
          BY <2>3, <3>3, Counting
        <4> QED BY <2>3, <2>4, <3>1, <4>1 DEF Fits
      <3> QED BY <2>1, <2>3, <2>5, <3>1, <3>2, <3>4, Gets
    <2>6. CASE ~A!CanAcquire(s)
      <3> DEFINE d == [q EXCEPT !.todo = @ \ {s}]
      <3>1. d \in AllocateRequest /\ d.pc = "allocate" /\ d.user = q.user /\ d.n = q.n
            /\ d.got = q.got /\ d.todo = q.todo \ {s}
        BY <2>1, <2>3 DEF AllocateRequest
      <3>2. UNCHANGED seat /\ req' = [req EXCEPT ![r] = d]
        BY <2>2, <2>6 DEF A!Goto
      <3> HIDE DEF d
      <3>3. Fits(d) /\ Got(d) = q.got
        BY <2>3, <2>4, <3>1 DEF Fits, Got
      <3> QED BY <2>1, <3>1, <3>2, <3>3, GoesOn
    <2> QED BY <2>5, <2>6
  <1>3. ASSUME A!AllocateShort(r) PROVE AllocationIInv'
    <2> DEFINE d == [pc |-> "release", user |-> q.user, got |-> q.got]
    <2>1. q.pc = "allocate" /\ UNCHANGED <<seat, told, leftBy>> /\ q \in AllocateRequest
          /\ Got(q) = q.got /\ req' = [req EXCEPT ![r] = d]
      BY <1>3, RequestTypes DEF A!AllocateShort, A!Goto
    <2>2. d \in ReleaseRequest
      BY <2>1 DEF AllocateRequest, ReleaseRequest
    <2>3. Fits(d) /\ Got(d) = q.got /\ d.user = q.user
      BY DEF Fits, Got
    <2> HIDE DEF d
    <2> QED BY <2>1, <2>2, <2>3, GoesOn
  <1> QED BY <1>1, <1>2, <1>3

\* The seats of a complete request are told to its user, who locked them.
LEMMA AllocationAnswerIInv ==
  ASSUME AllocationIInv, NEW r \in Requests, A!Answer(r)
  PROVE  AllocationIInv'
  <1> USE AllocationTypes, RequestShapes DEF AllocationIInv
  <1> DEFINE q == req[r]
  <1>1. /\ q.pc \in {"lock", "allocate"} /\ UNCHANGED <<seat, leftBy>> /\ req' = [req EXCEPT ![r] = A!Idle]
        /\ told' = [s \in Seats |-> IF s \in q.got THEN q.user ELSE told[s]]
    BY DEF A!Answer, A!Complete, A!Goto
  <1>2. q \in A!Request /\ q.user \in Users /\ Got(q) = q.got
    BY <1>1, RequestTypes
  <1>3. /\ req' \in [Requests -> A!Request] /\ told' \in [Seats -> Users \cup {NoUser}]
        /\ Got(A!Idle) = {} /\ Fits(A!Idle)
        /\ \A p \in Requests : req'[p] = IF p = r THEN A!Idle ELSE req[p]
    BY <1>1, <1>2 DEF A!Idle, Got, Fits
  <1>4. A!TypeOK'
    BY <1>1, <1>3 DEF A!TypeOK
  <1>5. \A s : A!Live(s)' <=> A!Live(s)
    BY <1>1 DEF A!Live
  <1>6. \A p \in Requests : Fits(req'[p]) /\ Holds(p)'
    BY <1>1, <1>3, <1>5 DEF Holds
  <1>7. GotApart'
    BY <1>3 DEF GotApart
  <1>8. A!NoOrphanLock'
    <2> SUFFICES ASSUME NEW s \in Seats, A!Live(s), seat[s].locked_by \notin {told'[s], leftBy[s]}
                 PROVE  \E p \in Requests : /\ req'[p].pc # "idle" /\ s \in req'[p].got
                                            /\ req'[p].user = seat[s].locked_by
      BY <1>1, <1>5 DEF A!NoOrphanLock
    <2>1. s \notin Got(q)
      BY <1>1, <1>2 DEF Holds, A!LockedBy
    <2>2. told'[s] = told[s]
      BY <1>1, <1>2, <2>1
    <2>3. PICK p \in Requests : s \in Got(req[p]) /\ req[p].user = seat[s].locked_by
      BY <2>2 DEF A!NoOrphanLock, Got
    <2>4. p # r
      BY <2>1, <2>3
    <2> QED BY <1>3, <2>3, <2>4 DEF Got
  <1> QED BY <1>4, <1>6, <1>7, <1>8 DEF Fits

LEMMA ReleaseIInv ==
  ASSUME AllocationIInv, NEW r \in Requests, A!Release(r)
  PROVE  AllocationIInv'
  <1> USE AllocationTypes, RequestShapes DEF AllocationIInv
  <1> DEFINE q == req[r]
  <1>1. q.pc = "release" /\ q \in ReleaseRequest /\ Got(q) = q.got /\ UNCHANGED <<told, leftBy>>
    BY RequestTypes DEF A!Release
  <1>2. ASSUME NEW s \in q.got,
               seat' = IF A!LockedBy(seat[s], q.user)
                       THEN [seat EXCEPT ![s] = A!UnlockRow(seat[s])] ELSE seat,
               A!Goto(r, [q EXCEPT !.got = @ \ {s}])
        PROVE  AllocationIInv'
    <2> DEFINE d == [q EXCEPT !.got = @ \ {s}]
               row == A!UnlockRow(seat[s])
    <2>1. s \in Seats /\ A!LockedBy(seat[s], q.user) /\ q.user \in Users
      BY <1>1 DEF ReleaseRequest, Holds
    <2>2. seat' = [seat EXCEPT ![s] = row] /\ row \in A!SeatRow /\ row.status = "AVAILABLE"
      BY <1>2, <2>1, AllocationRows
    <2>3. d \in ReleaseRequest /\ d.pc = "release" /\ d.got = q.got \ {s} /\ d.user = q.user
      BY <1>1 DEF ReleaseRequest
    <2>4. req' = [req EXCEPT ![r] = d]
      BY <1>2 DEF A!Goto
    <2> HIDE DEF d, row
    <2>5. Fits(d) /\ Got(d) = Got(q) \ {s}
      BY <1>1, <2>3 DEF Fits, Got
    <2>6. \A p \in Requests : p # r => Got(req[p]) \ {s} = Got(req[p])
      BY <1>1 DEF GotApart
    <2>7. req' \in [Requests -> A!Request]
      BY <2>3, <2>4
    <2>8. \A p \in Requests : /\ Got(req'[p]) = Got(req[p]) \ {s}
                              /\ Got(req'[p]) # {} => req'[p].user = req[p].user
                              /\ Fits(req'[p])
      BY <2>3, <2>4, <2>5, <2>6
    <2> QED BY <1>1, <2>1, <2>2, <2>7, <2>8, LetsGo
  <1>3. ASSUME q.got = {}, A!Goto(r, A!Idle), UNCHANGED seat
        PROVE  AllocationIInv'
    <2>1. A!Idle \in A!Request /\ Fits(A!Idle) /\ Got(A!Idle) = {}
      BY DEF A!Idle, Fits, Got
    <2> QED BY <1>1, <1>3, <2>1, GoesOn DEF A!Goto
  <1> QED BY <1>2, <1>3 DEF A!Release

\* A request that ends in an error leaves its seats, and perhaps the one it has
\* just locked, to its user's name.
LEMMA AllocationFailsIInv ==
  ASSUME AllocationIInv, NEW r \in Requests, A!Fails(r) \/ A!LocksAndFails(r)
  PROVE  AllocationIInv'
  <1> USE AllocationTypes, RequestShapes DEF AllocationIInv
  <1> DEFINE q == req[r]
             u == req[r].user
  <1>1. /\ q \in A!Request /\ u \in Users /\ Got(q) = q.got /\ q.got \subseteq Seats
        /\ UNCHANGED told /\ req' = [req EXCEPT ![r] = A!Idle]
    <2>1. q \in A!Request /\ UNCHANGED told /\ req' = [req EXCEPT ![r] = A!Idle] /\ q.pc # "idle"
      BY DEF A!Fails, A!LocksAndFails, A!Leaves, A!Goto, A!Tried
    <2> QED BY <2>1, RequestTypes
  <1>2. PICK S \in SUBSET Seats :
          /\ q.got \subseteq S
          /\ leftBy' = [s \in Seats |-> IF s \in S THEN u ELSE leftBy[s]]
          /\ \A s \in S \ q.got : A!CanAcquire(s)
          /\ \A s \in Seats :
               IF s \in S \ q.got THEN seat'[s] = A!LockRow(seat[s], u, A!Now)
               ELSE seat'[s] = seat[s]
          /\ seat' \in [Seats -> A!SeatRow]
    <2>1. CASE A!Fails(r)
      BY <1>1, <2>1 DEF A!Fails, A!Leaves
    <2>2. CASE A!LocksAndFails(r)
      <3>1. PICK s \in A!Tried(q) : /\ A!CanAcquire(s) /\ A!Acquired(s, u)
                                    /\ A!Leaves(r, q.got \cup {s})
        BY <2>2 DEF A!LocksAndFails
      <3>2. s \in Seats
        <4>1. CASE q.pc = "lock" /\ q.next <= Len(q.asked)
          <5>1. q.asked \in Seq(Seats) /\ q.next \in 1..Len(q.asked)
            BY <1>1, <4>1, RequestTypes DEF Fits
          <5> QED BY <3>1, <4>1, <5>1 DEF A!Tried
        <4>2. CASE q.pc = "substitute"
          <5>1. q \in SubstituteRequest
            BY <1>1, <4>2, RequestTypes
          <5> QED BY <3>1, <4>2, <5>1 DEF A!Tried, A!Nearest, SubstituteRequest
        <4>3. CASE q.pc = "allocate"
          <5>1. q \in AllocateRequest
            BY <1>1, <4>3, RequestTypes
          <5> QED BY <3>1, <4>3, <5>1 DEF A!Tried, AllocateRequest
        <4> QED BY <3>1, <4>1, <4>2, <4>3 DEF A!Tried
      <3>3. A!LockRow(seat[s], u, A!Now) \in A!SeatRow
        BY <1>1, <3>2, AllocationRows
      <3>4. s \notin q.got
        BY <1>1, <3>1, <3>2, LockableIsFree
      <3> DEFINE S == q.got \cup {s}
      <3>5. /\ S \in SUBSET Seats /\ q.got \subseteq S
            /\ \A t : t \in S \ q.got <=> t = s
        BY <1>1, <3>2, <3>4
      <3>6. leftBy' = [t \in Seats |-> IF t \in S THEN u ELSE leftBy[t]]
        BY <3>1 DEF A!Leaves
      <3>7. seat' = [seat EXCEPT ![s] = A!LockRow(seat[s], u, A!Now)] /\ A!CanAcquire(s)
        BY <3>1 DEF A!Acquired
      <3>8. seat \in [Seats -> A!SeatRow]
        BY DEF A!TypeOK
      <3>9. /\ seat' \in [Seats -> A!SeatRow]
            /\ \A t \in Seats : seat'[t] = IF t = s THEN A!LockRow(seat[s], u, A!Now)
                                           ELSE seat[t]
        BY <3>2, <3>3, <3>7, <3>8
      <3> HIDE DEF S, q, u
      <3> QED BY <3>2, <3>5, <3>6, <3>7, <3>9
    <2> QED BY <2>1, <2>2
  <1>3. /\ req' \in [Requests -> A!Request] /\ leftBy' \in [Seats -> Users \cup {NoUser}]
        /\ Got(A!Idle) = {} /\ Fits(A!Idle)
        /\ \A p \in Requests : req'[p] = IF p = r THEN A!Idle ELSE req[p]
    BY <1>1, <1>2 DEF A!Idle, Got, Fits
  <1>4. A!TypeOK'
    BY <1>1, <1>2, <1>3 DEF A!TypeOK
  <1>5. ASSUME NEW s \in S \ q.got
        PROVE  seat'[s].locked_by = u /\ \A p \in Requests : s \notin Got(req[p])
    <2>1. A!CanAcquire(s) /\ seat'[s] = A!LockRow(seat[s], u, A!Now) /\ s \in Seats
      BY <1>2
    <2>2. A!LockRow(seat[s], u, A!Now).locked_by = u
      BY <1>1, <2>1, AllocationRows
    <2> QED BY <2>1, <2>2, LockableIsFree
  <1>6. \A s \in Seats : s \notin S \ q.got => seat'[s] = seat[s] /\ (A!Live(s)' <=> A!Live(s))
    BY <1>2 DEF A!Live
  <1>7. \A p \in Requests : Fits(req'[p]) /\ Holds(p)'
    <2>1. ASSUME NEW p \in Requests, NEW t \in Got(req'[p])
          PROVE  A!LockedBy(seat'[t], req'[p].user) /\ A!Live(t)'
      <3>1. p # r /\ req'[p] = req[p] /\ t \in Seats
        BY <1>3, <2>1, RequestTypes
      <3>2. t \notin S \ q.got
        BY <1>5, <2>1, <3>1
      <3> QED BY <1>6, <2>1, <3>1, <3>2 DEF Holds
    <2> QED BY <1>3, <2>1 DEF Holds
  <1>8. GotApart'
    BY <1>3 DEF GotApart
  <1>9. A!NoOrphanLock'
    <2> SUFFICES ASSUME NEW s \in Seats, A!Live(s)', seat'[s].locked_by \notin {told[s], leftBy'[s]}
                 PROVE  \E p \in Requests : /\ req'[p].pc # "idle" /\ s \in req'[p].got
                                            /\ req'[p].user = seat'[s].locked_by
      BY <1>1 DEF A!NoOrphanLock
    <2>1. s \notin S
      <3>1. ASSUME s \in S PROVE seat'[s].locked_by = u
        <4>1. CASE s \in q.got
          BY <1>1, <1>6, <4>1 DEF Holds, A!LockedBy
        <4> QED BY <1>5, <3>1, <4>1
      <3> QED BY <1>2, <3>1
    <2>2. A!Live(s) /\ seat'[s] = seat[s] /\ leftBy'[s] = leftBy[s]
      BY <1>2, <1>6, <2>1
    <2>3. PICK p \in Requests : s \in Got(req[p]) /\ req[p].user = seat[s].locked_by
      BY <2>2 DEF A!NoOrphanLock, Got
    <2>4. p # r
      BY <1>1, <1>2, <2>1, <2>3
    <2> QED BY <1>3, <2>2, <2>3, <2>4 DEF Got
  <1> QED BY <1>4, <1>7, <1>8, <1>9 DEF Fits

LEMMA TimeIInv ==
  ASSUME AllocationIInv, NEW s \in Seats, A!Expire(s) \/ A!Free(s)
  PROVE  AllocationIInv'
  <1> USE AllocationTypes, RequestShapes DEF AllocationIInv
  <1>1. /\ UNCHANGED req /\ \A r \in Requests : s \notin Got(req[r])
        /\ told' \in {told, [told EXCEPT ![s] = NoUser]}
        /\ leftBy' \in {leftBy, [leftBy EXCEPT ![s] = NoUser]}
    <2>1. CASE A!Expire(s)
      BY <2>1 DEF A!Expire, A!InFlight, Got
    <2>2. CASE A!Free(s)
      <3>1. ~A!Live(s)
        BY <2>2 DEF A!Free, A!Live
      <3> QED BY <2>2, <3>1 DEF A!Free, Holds
    <2> QED BY <2>1, <2>2
  <1>2. PICK row \in A!SeatRow : /\ seat' = [seat EXCEPT ![s] = row]
                                 /\ ~(row.status = "LOCKED" /\ ~(row.lock_expires_at < 1))
    <2>1. CASE A!Expire(s)
      <3> DEFINE row == [seat[s] EXCEPT !.lock_expires_at = 0]
      <3>1. row \in A!SeatRow /\ row.lock_expires_at = 0
        BY DEF A!SeatRow
      <3>2. seat' = [seat EXCEPT ![s] = row]
        BY <2>1 DEF A!Expire
      <3>3. row.lock_expires_at < 1
        BY <3>1
      <3> HIDE DEF row
      <3> QED BY <3>1, <3>2, <3>3, Zenon
    <2>2. CASE A!Free(s)
      <3> DEFINE row == A!FreeRow(seat[s])
      <3>1. row \in A!SeatRow /\ row.status = "AVAILABLE"
        BY DEF A!FreeRow, A!UnlockRow, A!SeatRow, A!SeatStatus
      <3>2. seat' = [seat EXCEPT ![s] = row]
        BY <2>2 DEF A!Free
      <3> HIDE DEF row
      <3> QED BY <3>1, <3>2
    <2> QED BY <2>1, <2>2
  <1>3. \A p \in Requests : /\ Got(req'[p]) = Got(req[p]) \ {s}
                            /\ req'[p].user = req[p].user /\ Fits(req'[p])
    BY <1>1
  <1> QED BY <1>1, <1>2, <1>3, LetsGo

LEMMA AllocationInitially == A!Init => AllocationIInv
  <1> SUFFICES ASSUME A!Init PROVE AllocationIInv
    OBVIOUS
  <1>1. A!FreshRow \in A!SeatRow /\ A!FreshRow.status = "AVAILABLE" /\ A!Idle \in A!Request
        /\ Fits(A!Idle) /\ Got(A!Idle) = {}
    BY RequestShapes DEF A!FreshRow, A!SeatRow, A!SeatStatus, A!Idle, Fits, Got
  <1>2. A!TypeOK
    BY <1>1 DEF A!Init, A!TypeOK
  <1>3. \A s \in Seats : ~A!Live(s)
    BY <1>1 DEF A!Init, A!Live
  <1> QED BY <1>1, <1>2, <1>3 DEF A!Init, AllocationIInv, Holds, GotApart, A!NoOrphanLock

LEMMA AllocationSteps == AllocationIInv /\ [A!Next]_A!vars => AllocationIInv'
  <1> SUFFICES ASSUME AllocationIInv, [A!Next]_A!vars PROVE AllocationIInv'
    OBVIOUS
  <1>1. CASE A!Next
    BY <1>1, LockIInv, AllocateIInv, AllocationAnswerIInv, ReleaseIInv, AllocationFailsIInv,
       TimeIInv DEF A!Next
  <1>2. CASE UNCHANGED A!vars
    <2>1. UNCHANGED <<seat, req, told, leftBy>>
      BY <1>2 DEF A!vars
    <2>2. \A s : A!Live(s)' <=> A!Live(s)
      BY <2>1 DEF A!Live
    <2> QED BY <2>1, <2>2
            DEF AllocationIInv, A!TypeOK, Fits, Holds, GotApart, A!NoOrphanLock, Got
  <1> QED BY <1>1, <1>2

\* A running lock belongs to an answer its user has got, to a request that still
\* runs, or to one that an error ended: none that was refused leaves one behind
\* (booking.routes.ts 68-230).
THEOREM LocksHaveOwners == A!Spec => [](A!TypeOK /\ A!NoOrphanLock)
  <1>1. AllocationIInv => A!TypeOK /\ A!NoOrphanLock
    BY DEF AllocationIInv
  <1> QED BY <1>1, AllocationInitially, AllocationSteps, PTL DEF A!Spec

\* An answer names as many different seats as were asked for, each locked for
\* the user, also when one number is asked for twice.
THEOREM AnswersInFull == A!Spec => A!AnsweredInFull
  <1>1. ASSUME AllocationIInv, NEW r \in Requests, A!Answer(r)
        PROVE  LET q == req[r] IN
               /\ Cardinality(q.got) = IF q.pc = "lock" THEN Len(q.asked) ELSE q.n
               /\ \A s \in q.got : A!LockedBy(seat[s], q.user)
    <2> DEFINE q == req[r]
    <2>1. q \in A!Request /\ Fits(q) /\ A!Complete(q)
      BY <1>1, AllocationTypes DEF AllocationIInv, A!Answer
    <2>2. \A s \in q.got : A!LockedBy(seat[s], q.user)
      BY <1>1, <2>1 DEF AllocationIInv, Holds, Got, A!Complete
    <2>3. CASE q.pc = "lock"
      <3>1. q.asked \in Seq(Seats) /\ q.next \in Nat
        BY <2>1, <2>3, RequestTypes
      <3> QED BY <2>1, <2>2, <2>3, <3>1 DEF Fits, A!Complete
    <2>4. CASE q.pc = "allocate"
      <3>1. q \in AllocateRequest
        BY <2>1, <2>4, RequestTypes
      <3>2. q.got \subseteq Seats /\ q.n \in Nat
        BY <3>1 DEF AllocateRequest
      <3>3. Cardinality(q.got) \in Nat
        BY <3>2, AllocationAssumed, AllocationSets, FS_Subset, FS_CardinalityType
        DEF A!AllocationAssumption
      <3>4. q.todo = {} /\ Cardinality(q.got) >= q.n
        BY <2>1, <2>4, AllocationSets DEF A!Complete
      <3>5. Cardinality(q.todo) = 0
        BY <3>4, FS_EmptySet
      <3>6. Cardinality(q.got) + Cardinality(q.todo) <= q.n
        BY <2>1, <2>4 DEF Fits
      <3> QED BY <2>2, <2>4, <3>2, <3>3, <3>4, <3>5, <3>6
    <2> QED BY <2>1, <2>2, <2>3, <2>4 DEF A!Complete
  <1>2. AllocationIInv /\ [A!Next]_A!vars =>
          [\A r \in Requests : A!Answer(r) =>
             LET q == req[r] IN
             /\ A!Cardinality(q.got) = IF q.pc = "lock" THEN Len(q.asked) ELSE q.n
             /\ \A s \in q.got : A!LockedBy(seat[s], q.user)]_A!vars
    BY <1>1, AllocationSets
  <1> QED BY <1>2, AllocationInitially, AllocationSteps, PTL DEF A!Spec, A!AnsweredInFull
-----------------------------------------------------------------------------
\* Seats of events.
\* The instance's own copies of two library operators are those operators.
LEMMA EventSeatsSets ==
  /\ \A S : E!IsFiniteSet(S) <=> IsFiniteSet(S)
  /\ \A S : E!Cardinality(S) = Cardinality(S)
  <1>1. \A S : E!IsFiniteSet(S) <=> IsFiniteSet(S)
    BY DEF E!IsFiniteSet, IsFiniteSet
  <1>2. \A S : E!Cardinality(S) = Cardinality(S)
    BY DEF E!Cardinality, Cardinality
  <1> QED BY <1>1, <1>2

LEMMA EventAssumed == E!EventAssumption
  BY PartsAssumption DEF PartsAssumption

EventSeat == [status : {"AVAILABLE", "LOCKED", "BOOKED"}, locked_by : Users \cup {NoUser}]
Locking == [pc : {"lock"}, want : SUBSET Places, locked : SUBSET Places]
Undoing == [pc : {"free"}, locked : SUBSET Places]
EventCall == [pc : {"idle"}] \cup Locking \cup Undoing

\* The seats a request has locked so far.
Grasp(u) == IF eCall[u].pc = "idle" THEN {} ELSE eCall[u].locked

\* What users hold, as the answers told them or as requests in flight know,
\* is LOCKED and nobody else's, and no request holds what its user was told.
HeldLocked == \A u \in Users : \A s \in eTold[u] \cup Grasp(u) : eSeat[s].status = "LOCKED"
HeldOnce ==
  /\ \A u \in Users : eTold[u] \cap Grasp(u) = {}
  /\ \A u, v \in Users : u # v => (eTold[u] \cup Grasp(u)) \cap (eTold[v] \cup Grasp(v)) = {}

SoldApart == \A i, j \in DOMAIN sold : i # j => sold[i] \cap sold[j] = {}
SoldBooked == \A i \in DOMAIN sold : \A s \in sold[i] : eSeat[s].status = "BOOKED"
Unsold == {s \in Places : eSeat[s].status # "BOOKED"}

Polite == HeldLocked /\ HeldOnce /\ SoldApart /\ SoldBooked /\ available = Cardinality(Unsold)

EventSeatsIInv == E!TypeOK /\ eCall \in [Users -> EventCall] /\ (~rude => Polite)
-----------------------------------------------------------------------------
LEMMA EventTypes ==
  E!TypeOK => /\ eSeat \in [Places -> EventSeat] /\ eTold \in [Users -> SUBSET Places]
              /\ sold \in Seq(SUBSET Places) /\ available \in Int /\ rude \in BOOLEAN
  BY DEF E!TypeOK, EventSeat

\* A step that changes nobody's status to or from BOOKED, and sells nothing.
LEMMA UnsoldSame ==
  ASSUME UNCHANGED <<sold, available>>,
         \A s \in Places : (eSeat'[s].status = "BOOKED") <=> (eSeat[s].status = "BOOKED"),
         E!TypeOK, SoldApart, SoldBooked, available = Cardinality(Unsold)
  PROVE  (SoldApart /\ SoldBooked /\ available = Cardinality(Unsold))'
  <1>1. Unsold' = Unsold
    BY DEF Unsold
  <1>2. \A i \in DOMAIN sold : sold[i] \subseteq Places
    BY EventTypes
  <1> QED BY <1>1, <1>2 DEF SoldApart, SoldBooked

LEMMA EventStart ==
  ASSUME EventSeatsIInv, NEW u \in Users, NEW Ws \in SUBSET Places, E!StartLock(u, Ws)
  PROVE  EventSeatsIInv'
  <1> USE EventTypes DEF EventSeatsIInv
  <1>1. /\ eCall[u].pc = "idle" /\ UNCHANGED <<eSeat, available, sold, eTold, rude>>
        /\ eCall' = [eCall EXCEPT ![u] = [pc |-> "lock", want |-> Ws, locked |-> {}]]
    BY DEF E!StartLock
  <1>2. eCall' \in [Users -> EventCall]
    BY <1>1 DEF EventCall, Locking
  <1>3. E!TypeOK'
    BY <1>1, <1>2 DEF E!TypeOK, EventCall, Locking, Undoing
  <1>4. \A v \in Users : Grasp(v)' = Grasp(v)
    BY <1>1 DEF Grasp
  <1>5. ~rude => Polite'
    BY <1>1, <1>4, UnsoldSame DEF Polite, HeldLocked, HeldOnce
  <1> QED BY <1>1, <1>2, <1>3, <1>5

\* A seat that is AVAILABLE is held by nobody.
LEMMA EventLockOne ==
  ASSUME EventSeatsIInv, NEW u \in Users, E!LockOne(u)
  PROVE  EventSeatsIInv'
  <1> USE EventTypes DEF EventSeatsIInv
  <1> DEFINE c == eCall[u]
  <1>1. c \in Locking /\ UNCHANGED <<available, sold, eTold, rude>>
    BY DEF E!LockOne, EventCall, Locking, Undoing
  <1>2. PICK s \in c.want :
          IF eSeat[s].status = "AVAILABLE"
          THEN /\ eSeat' = [eSeat EXCEPT ![s] = [status |-> "LOCKED", locked_by |-> u]]
               /\ eCall' = [eCall EXCEPT ![u] =
                             [c EXCEPT !.want = @ \ {s}, !.locked = @ \cup {s}]]
          ELSE /\ eCall' = [eCall EXCEPT ![u] = [pc |-> "free", locked |-> c.locked]]
               /\ UNCHANGED eSeat
    BY DEF E!LockOne
  <1>3. s \in Places /\ Grasp(u) = c.locked /\ c.locked \subseteq Places /\ c.pc = "lock"
    BY <1>1 DEF Locking, Grasp
  <1>4. CASE eSeat[s].status = "AVAILABLE"
    <2> DEFINE d == [c EXCEPT !.want = @ \ {s}, !.locked = @ \cup {s}]
               e == [status |-> "LOCKED", locked_by |-> u]
    <2>1. d \in Locking /\ d.locked = c.locked \cup {s} /\ d.pc = "lock" /\ e \in EventSeat
      BY <1>1, <1>3 DEF Locking, EventSeat
    <2>2. eCall' = [eCall EXCEPT ![u] = d] /\ eSeat' = [eSeat EXCEPT ![s] = e]
      BY <1>2, <1>4
    <2>3. e.status = "LOCKED"
      OBVIOUS
    <2> HIDE DEF c, d, e
    <2>4. eCall' \in [Users -> EventCall] /\ eSeat' \in [Places -> EventSeat]
      BY <1>3, <2>1, <2>2 DEF EventCall
    <2>5. E!TypeOK'
      BY <1>1, <2>4 DEF E!TypeOK, EventCall, Locking, Undoing, EventSeat
    <2>6. \A v \in Users : Grasp(v)' = IF v = u THEN Grasp(u) \cup {s} ELSE Grasp(v)
      BY <1>3, <2>1, <2>2 DEF Grasp
    <2>7. \A t \in Places : eSeat'[t].status = IF t = s THEN "LOCKED" ELSE eSeat[t].status
      BY <1>3, <2>2, <2>3
    <2>8. ASSUME ~rude PROVE Polite'
      <3>1. \A v \in Users : s \notin eTold[v] \cup Grasp(v)
        BY <1>4, <2>8 DEF Polite, HeldLocked
      <3>2. HeldLocked'
        <4>1. \A v \in Users : eTold[v] \cup Grasp(v) \subseteq Places
          BY DEF Grasp, EventCall, Locking, Undoing
        <4> QED BY <1>1, <1>3, <2>6, <2>7, <2>8, <4>1 DEF Polite, HeldLocked
      <3>3. HeldOnce'
        BY <1>1, <2>6, <2>8, <3>1 DEF Polite, HeldOnce
      <3>4. \A t \in Places : (eSeat'[t].status = "BOOKED") <=> (eSeat[t].status = "BOOKED")
        BY <1>4, <2>7
      <3> QED BY <1>1, <2>8, <3>2, <3>3, <3>4, UnsoldSame DEF Polite
    <2> QED BY <1>1, <2>4, <2>5, <2>8
  <1>5. CASE eSeat[s].status # "AVAILABLE"
    <2>1. eCall' = [eCall EXCEPT ![u] = [pc |-> "free", locked |-> c.locked]] /\ UNCHANGED eSeat
      BY <1>2, <1>5
    <2>2. [pc |-> "free", locked |-> c.locked] \in Undoing
      BY <1>3 DEF Undoing
    <2>3. eCall' \in [Users -> EventCall]
      BY <2>1, <2>2 DEF EventCall
    <2>4. E!TypeOK'
      BY <1>1, <2>1, <2>3 DEF E!TypeOK, EventCall, Locking, Undoing
    <2>5. \A v \in Users : Grasp(v)' = Grasp(v)
      BY <1>3, <2>1 DEF Grasp
    <2>6. ~rude => Polite'
      BY <1>1, <2>1, <2>5, UnsoldSame DEF Polite, HeldLocked, HeldOnce
    <2> QED BY <1>1, <2>3, <2>4, <2>6
  <1> QED BY <1>4, <1>5

\* What the request held, its user is told.
LEMMA EventLockAnswer ==
  ASSUME EventSeatsIInv, NEW u \in Users, E!LockAnswer(u)
  PROVE  EventSeatsIInv'
  <1> USE EventTypes DEF EventSeatsIInv
  <1>1. /\ eCall[u].pc = "lock" /\ eCall' = [eCall EXCEPT ![u] = E!Idle]
        /\ eTold' = [eTold EXCEPT ![u] = @ \cup eCall[u].locked]
        /\ UNCHANGED <<eSeat, available, sold, rude>>
    BY DEF E!LockAnswer
  <1>2. eCall' \in [Users -> EventCall] /\ eCall[u].locked \subseteq Places
    BY <1>1 DEF EventCall, Locking, Undoing, E!Idle
  <1>3. E!TypeOK'
    BY <1>1, <1>2 DEF E!TypeOK, EventCall, Locking, Undoing
  <1>4. \A v \in Users : Grasp(v)' = IF v = u THEN {} ELSE Grasp(v)
    BY <1>1 DEF Grasp, E!Idle
  <1>5. /\ eTold'[u] = eTold[u] \cup Grasp(u)
        /\ \A v \in Users : v # u => eTold'[v] = eTold[v]
    BY <1>1 DEF Grasp
  <1>6. ASSUME ~rude PROVE Polite'
    <2>1. HeldLocked' /\ HeldOnce'
      BY <1>1, <1>4, <1>5, <1>6 DEF Polite, HeldLocked, HeldOnce
    <2> QED BY <1>1, <1>6, <2>1, UnsoldSame DEF Polite
  <1> QED BY <1>1, <1>2, <1>3, <1>6

\* What is freed was this request's and nobody was told to hold it.
LEMMA EventLockFails ==
  ASSUME EventSeatsIInv, NEW u \in Users, E!LockFails(u)
  PROVE  EventSeatsIInv'
  <1> USE EventTypes DEF EventSeatsIInv
  <1>1. /\ eCall[u].pc = "free" /\ eCall' = [eCall EXCEPT ![u] = E!Idle]
        /\ eSeat' = [s \in Places |-> IF s \in Grasp(u) THEN E!FreeSeat ELSE eSeat[s]]
        /\ UNCHANGED <<available, sold, eTold, rude>>
    BY DEF E!LockFails, E!Undo, Grasp
  <1>2. eCall' \in [Users -> EventCall] /\ eSeat' \in [Places -> EventSeat]
        /\ E!FreeSeat.status = "AVAILABLE"
    BY <1>1 DEF EventCall, Locking, Undoing, E!Idle, E!FreeSeat, EventSeat
  <1>3. E!TypeOK'
    BY <1>1, <1>2 DEF E!TypeOK, EventCall, Locking, Undoing, EventSeat
  <1>4. \A v \in Users : Grasp(v)' = IF v = u THEN {} ELSE Grasp(v)
    BY <1>1 DEF Grasp, E!Idle
  <1>5. \A v \in Users : eTold[v] \cup Grasp(v) \subseteq Places
    BY DEF Grasp, EventCall, Locking, Undoing
  <1>6. \A t \in Places : t \notin Grasp(u) => eSeat'[t] = eSeat[t]
    BY <1>1
  <1>7. ASSUME ~rude PROVE Polite'
    <2>1. HeldOnce'
      BY <1>1, <1>4, <1>7 DEF Polite, HeldOnce
    <2>2. HeldLocked'
      <3> SUFFICES ASSUME NEW v \in Users, NEW s \in eTold'[v] \cup Grasp(v)'
                   PROVE  eSeat'[s].status = "LOCKED"
        BY DEF HeldLocked
      <3>1. s \in eTold[v] \cup Grasp(v) /\ s \notin Grasp(u)
        BY <1>1, <1>4, <1>7 DEF Polite, HeldOnce
      <3> QED BY <1>5, <1>6, <1>7, <3>1 DEF Polite, HeldLocked
    <2>3. \A t \in Places : (eSeat'[t].status = "BOOKED") <=> (eSeat[t].status = "BOOKED")
      BY <1>1, <1>2, <1>6, <1>7 DEF Polite, HeldLocked
    <2> QED BY <1>1, <1>7, <2>1, <2>2, <2>3, UnsoldSame DEF Polite
  <1> QED BY <1>1, <1>2, <1>3, <1>7

\* A confirmation sells what its user was told, which nobody has bought.
LEMMA EventConfirm ==
  ASSUME EventSeatsIInv, NEW u \in Users, NEW S \in SUBSET Places, E!Confirm(u, S)
  PROVE  EventSeatsIInv'
  <1> USE EventTypes DEF EventSeatsIInv
  <1> DEFINE b == [status |-> "BOOKED", locked_by |-> NoUser]
  <1>1. /\ eCall[u].pc = "idle" /\ sold' = Append(sold, S) /\ UNCHANGED eCall
        /\ eSeat' = [s \in Places |-> IF s \in S THEN b ELSE eSeat[s]]
        /\ available' = available - Cardinality(S)
        /\ rude' = (rude \/ ~(S \subseteq eTold[u]))
        /\ eTold' = [eTold EXCEPT ![u] = @ \ S]
    BY EventSeatsSets DEF E!Confirm, E!LeftAfter
  <1>2. b \in EventSeat /\ b.status = "BOOKED"
    BY DEF EventSeat
  <1> HIDE DEF b
  <1>3. IsFiniteSet(Places) /\ IsFiniteSet(S) /\ Cardinality(S) \in Nat
    BY EventAssumed, EventSeatsSets, FS_Subset, FS_CardinalityType DEF E!EventAssumption
  <1>4. E!TypeOK'
    <2>1. eSeat' \in [Places -> EventSeat]
      BY <1>1, <1>2
    <2>2. sold' \in Seq(SUBSET Places) /\ available' \in Int /\ eTold' \in [Users -> SUBSET Places]
      BY <1>1, <1>3
    <2>3. rude' \in BOOLEAN
      BY <1>1
    <2> QED BY <1>1, <2>1, <2>2, <2>3 DEF E!TypeOK, EventSeat
  <1>5. ASSUME ~rude' PROVE Polite'
    <2>1. ~rude /\ S \subseteq eTold[u] /\ Polite
      BY <1>1, <1>5
    <2>2. \A v \in Users : /\ Grasp(v)' = Grasp(v)
                           /\ eTold'[v] = IF v = u THEN eTold[u] \ S ELSE eTold[v]
                           /\ eTold[v] \cup Grasp(v) \subseteq Places
      BY <1>1 DEF Grasp, EventCall, Locking, Undoing
    <2>3. \A t \in Places : /\ t \in S => eSeat'[t].status = "BOOKED"
                            /\ t \notin S => eSeat'[t] = eSeat[t]
      BY <1>1, <1>2
    <2>4. HeldOnce'
      BY <2>1, <2>2 DEF Polite, HeldOnce
    <2>5. HeldLocked'
      <3> SUFFICES ASSUME NEW v \in Users, NEW s \in eTold'[v] \cup Grasp(v)'
                   PROVE  eSeat'[s].status = "LOCKED"
        BY DEF HeldLocked
      <3>1. s \in eTold[v] \cup Grasp(v) /\ s \notin S
        BY <2>1, <2>2 DEF Polite, HeldOnce
      <3> QED BY <2>1, <2>2, <2>3, <3>1 DEF Polite, HeldLocked
    <2>6. /\ DOMAIN sold = 1..Len(sold) /\ DOMAIN sold' = 1..(Len(sold) + 1)
          /\ sold'[Len(sold) + 1] = S /\ \A i \in DOMAIN sold : sold'[i] = sold[i]
          /\ \A i \in DOMAIN sold : sold[i] \subseteq Places
      BY <1>1
    <2>7. \A i \in DOMAIN sold : sold[i] \cap S = {}
      BY <2>1 DEF Polite, SoldBooked, HeldLocked
    <2>8. SoldApart'
      <3> SUFFICES ASSUME NEW i \in DOMAIN sold', NEW j \in DOMAIN sold', i # j
                   PROVE  sold'[i] \cap sold'[j] = {}
        BY DEF SoldApart
      <3>1. i \in DOMAIN sold \/ i = Len(sold) + 1
        BY <2>6
      <3>2. j \in DOMAIN sold \/ j = Len(sold) + 1
        BY <2>6
      <3>3. \A k, l \in DOMAIN sold : k # l => sold[k] \cap sold[l] = {}
        BY <2>1 DEF Polite, SoldApart
      <3> QED BY <2>6, <2>7, <3>1, <3>2, <3>3
    <2>9. SoldBooked'
      <3> SUFFICES ASSUME NEW i \in DOMAIN sold', NEW s \in sold'[i]
                   PROVE  eSeat'[s].status = "BOOKED"
        BY DEF SoldBooked
      <3>1. i \in DOMAIN sold \/ i = Len(sold) + 1
        BY <2>6
      <3> QED BY <2>1, <2>3, <2>6, <3>1 DEF Polite, SoldBooked
    <2>10. Unsold' = Unsold \ S /\ S \subseteq Unsold
      BY <2>1, <2>3 DEF Unsold, Polite, HeldLocked
    <2>11. available' = Cardinality(Unsold')
      <3>1. IsFiniteSet(Unsold)
        BY <1>3, FS_Subset DEF Unsold
      <3>2. Unsold \cap S = S
        BY <2>10
      <3>3. Cardinality(Unsold \ S) = Cardinality(Unsold) - Cardinality(S)
        BY <1>3, <3>1, <3>2, FS_Difference
      <3> QED BY <1>1, <2>1, <2>10, <3>3 DEF Polite
    <2> QED BY <2>4, <2>5, <2>8, <2>9, <2>11 DEF Polite
  <1> QED BY <1>1, <1>4, <1>5

\* Among clients who buy once what they locked, a seat of an event is sold
\* once, stays BOOKED, and the counter is the number of seats not sold
\* (event.service.ts 55-119).
THEOREM EventSeatsSoldOnce == E!Spec => [](E!TypeOK /\ E!SoldOnce)
  <1>1. E!Init => EventSeatsIInv
    <2> SUFFICES ASSUME E!Init PROVE EventSeatsIInv
      OBVIOUS
    <2>1. eCall \in [Users -> EventCall]
      BY DEF E!Init, E!Idle, EventCall
    <2>2. Cardinality(Places) \in Nat /\ rude \in BOOLEAN
      BY EventAssumed, EventSeatsSets, FS_CardinalityType DEF E!EventAssumption, E!Init
    <2>3. E!TypeOK
      BY <2>2, EventSeatsSets DEF E!Init, E!TypeOK, E!Idle, E!FreeSeat
    <2>4. Unsold = Places
      BY DEF E!Init, Unsold, E!FreeSeat
    <2>5. Polite
      BY <2>4, EventSeatsSets
      DEF E!Init, Polite, HeldLocked, HeldOnce, SoldApart, SoldBooked, Grasp, E!Idle
    <2> QED BY <2>1, <2>3, <2>5 DEF EventSeatsIInv
  <1>2. EventSeatsIInv /\ [E!Next]_E!vars => EventSeatsIInv'
    <2> SUFFICES ASSUME EventSeatsIInv, [E!Next]_E!vars PROVE EventSeatsIInv'
      OBVIOUS
    <2>1. CASE E!Next
      BY <2>1, EventStart, EventConfirm, EventLockOne, EventLockAnswer, EventLockFails
      DEF E!Next
    <2>2. CASE UNCHANGED E!vars
      BY <2>2
      DEF E!vars, EventSeatsIInv, E!TypeOK, Polite, HeldLocked, HeldOnce, SoldApart, SoldBooked,
         Grasp, Unsold
    <2> QED BY <2>1, <2>2
  <1>3. EventSeatsIInv => E!TypeOK /\ E!SoldOnce
    BY EventSeatsSets DEF EventSeatsIInv, Polite, E!SoldOnce, SoldApart, SoldBooked, Unsold
  <1> QED BY <1>1, <1>2, <1>3, PTL DEF E!Spec
-----------------------------------------------------------------------------
(***************************************************************************)
(* A checkout sent any number of times with one idempotency key makes one  *)
(* ticket at most.  The key does not see to that: two attempts may both    *)
(* find it unset, and Redis may lose it.  What does is the number on the   *)
(* seats: a booking is confirmed only while the seats name it, and once    *)
(* they are BOOKED no attempt takes them over.                             *)
(***************************************************************************)
Statuses == {"AVAILABLE", "LOCKED", "BOOKED"}

SeatRow == kSeat \in [status : Statuses, booking : Attempts \cup {NoAttempt}]

\* Which gateway an attempt goes through does not change on its way.
OneGateway ==
  \A a \in Attempts :
    /\ pc[a] = "initiate" => kRazorpay
    /\ pc[a] \in {"simulate", "confirm", "compensate"} => ~kRazorpay

\* Only an attempt that is past its own failures is paid for or confirmed, so
\* none that gives up takes a ticket with it.
PastFailure ==
  \A a \in Attempts :
    /\ payment = a => kRazorpay /\ pc[a] \in {"savekey", "done"}
    /\ kBooking[a] = "CONFIRMED" => pc[a] \in {"savekey", "compensate", "done"}

CheckoutKeysIInv == K!TypeOK /\ SeatRow /\ OneGateway /\ PastFailure /\ K!OneTicketPerKey

USE DEF Statuses
-----------------------------------------------------------------------------
\* No attempt has a ticket while the seats are not sold.
LEMMA NoTicketYet ==
  ASSUME K!OneTicketPerKey, kSeat.status # "BOOKED", NEW a \in Attempts
  PROVE  kBooking[a] # "CONFIRMED"
  BY DEF K!OneTicketPerKey

\* Steps of one attempt that touch neither seats nor bookings nor payments.
LEMMA MoveIInv ==
  ASSUME CheckoutKeysIInv, NEW a \in Attempts, NEW l,
         pc' = [pc EXCEPT ![a] = l],
         l \in {"locks", "open", "savekey", "undo", "confirm", "compensate", "done"},
         pc[a] \notin {"savekey", "compensate", "done"} \/ l \in {"compensate", "done"},
         l \in {"confirm", "compensate"} => ~kRazorpay,
         answer' \in [Attempts -> Attempts \cup {NoAttempt}],
         sagaKey' \in Attempts \cup {NoAttempt},
         UNCHANGED <<kRazorpay, payKey, payment, kBooking, kSeat>>
  PROVE  CheckoutKeysIInv'
  <1> USE DEF CheckoutKeysIInv
  <1>1. K!TypeOK' /\ SeatRow'
    BY DEF K!TypeOK, SeatRow
  <1>2. OneGateway'
    BY DEF K!TypeOK, OneGateway
  <1>3. PastFailure'
    BY DEF K!TypeOK, OneGateway, PastFailure
  <1>4. K!OneTicketPerKey'
    BY DEF K!OneTicketPerKey
  <1> QED BY <1>1, <1>2, <1>3, <1>4

LEMMA CheckKeyIInv ==
  ASSUME CheckoutKeysIInv, NEW a \in Attempts, K!CheckKey(a)
  PROVE  CheckoutKeysIInv'
  <1> USE DEF CheckoutKeysIInv, K!TypeOK, K!CheckKey, K!Goto, K!Return
  <1>1. CASE pc' = [pc EXCEPT ![a] = "done"] /\ answer' = [answer EXCEPT ![a] = sagaKey]
    BY <1>1, MoveIInv
  <1>2. CASE pc' = [pc EXCEPT ![a] = "locks"] /\ UNCHANGED answer
    BY <1>2, MoveIInv
  <1> QED BY <1>1, <1>2

LEMMA VerifyLocksIInv ==
  ASSUME CheckoutKeysIInv, NEW a \in Attempts, K!VerifyLocks(a)
  PROVE  CheckoutKeysIInv'
  <1> USE DEF CheckoutKeysIInv, K!TypeOK, K!VerifyLocks, K!Goto, K!Return
  <1>1. CASE pc' = [pc EXCEPT ![a] = "open"] /\ UNCHANGED answer
    BY <1>1, MoveIInv
  <1>2. CASE pc' = [pc EXCEPT ![a] = "done"] /\ answer' = [answer EXCEPT ![a] = NoAttempt]
    BY <1>2, MoveIInv
  <1> QED BY <1>1, <1>2

\* The seats are LOCKED, so no attempt has a ticket that could lose them.
LEMMA OpenBookingIInv ==
  ASSUME CheckoutKeysIInv, NEW a \in Attempts, K!OpenBooking(a)
  PROVE  CheckoutKeysIInv'
  <1>1. CASE kSeat.status = "LOCKED"
    <2> USE <1>1 DEF CheckoutKeysIInv, K!OpenBooking, K!Goto, K!SetBooking
    <2>1. K!TypeOK' /\ SeatRow'
      BY DEF K!TypeOK, SeatRow
    <2>2. OneGateway' /\ PastFailure'
      BY DEF K!TypeOK, OneGateway, PastFailure
    <2>3. K!OneTicketPerKey'
      BY NoTicketYet DEF K!TypeOK, K!OneTicketPerKey
    <2> QED BY <2>1, <2>2, <2>3
  <1>2. CASE kSeat.status # "LOCKED"
    BY <1>2, MoveIInv DEF CheckoutKeysIInv, K!TypeOK, K!OpenBooking, K!Goto, K!Return
  <1> QED BY <1>1, <1>2

\* An order is recorded for one attempt only, which goes on to its end.
LEMMA InitiateIInv ==
  ASSUME CheckoutKeysIInv, NEW a \in Attempts, K!Initiate(a)
  PROVE  CheckoutKeysIInv'
  <1>1. CASE payment' = a
    <2> USE <1>1 DEF CheckoutKeysIInv, K!Initiate, K!Goto
    <2>1. pc' = [pc EXCEPT ![a] = "savekey"] /\ kRazorpay
      BY DEF OneGateway, PastFailure, K!TypeOK
    <2>2. K!TypeOK' /\ SeatRow'
      BY DEF K!TypeOK, SeatRow
    <2>3. OneGateway' /\ PastFailure'
      BY <2>1 DEF K!TypeOK, OneGateway, PastFailure
    <2>4. K!OneTicketPerKey'
      BY DEF K!OneTicketPerKey
    <2> QED BY <2>2, <2>3, <2>4
  <1>2. CASE UNCHANGED <<payKey, payment>>
    BY <1>2, MoveIInv DEF CheckoutKeysIInv, K!TypeOK, K!Initiate, K!Goto
  <1> QED BY <1>1, <1>2 DEF K!Initiate

LEMMA SimulateIInv ==
  ASSUME CheckoutKeysIInv, NEW a \in Attempts, K!Simulate(a)
  PROVE  CheckoutKeysIInv'
  <1>1. ~kRazorpay
    BY DEF CheckoutKeysIInv, OneGateway, K!Simulate
  <1>2. CASE pc' = [pc EXCEPT ![a] = "confirm"]
    BY <1>1, <1>2, MoveIInv DEF CheckoutKeysIInv, K!TypeOK, K!Simulate
  <1>3. CASE pc' = [pc EXCEPT ![a] = "undo"]
    BY <1>3, MoveIInv DEF CheckoutKeysIInv, K!TypeOK, K!Simulate
  <1> QED BY <1>2, <1>3 DEF K!Simulate, K!Goto

\* An attempt that gives up has no ticket, and takes no other's number off.
LEMMA UndoOpenIInv ==
  ASSUME CheckoutKeysIInv, NEW a \in Attempts, K!UndoOpen(a)
  PROVE  CheckoutKeysIInv'
  <1> USE DEF CheckoutKeysIInv, K!UndoOpen, K!Return, K!Goto, K!SetBooking
  <1>1. K!TypeOK' /\ SeatRow'
    BY DEF K!TypeOK, SeatRow
  <1>2. OneGateway' /\ PastFailure'
    BY DEF K!TypeOK, OneGateway, PastFailure
  <1>3. K!OneTicketPerKey'
    <2> SUFFICES ASSUME NEW b \in Attempts, kBooking'[b] = "CONFIRMED"
                 PROVE  /\ kSeat' = [status |-> "BOOKED", booking |-> b]
                        /\ \A d \in Attempts \ {b} : kBooking'[d] # "CONFIRMED"
      BY DEF K!OneTicketPerKey
    <2>1. b # a /\ kBooking[b] = "CONFIRMED"
      BY DEF K!TypeOK
    <2>2. kSeat = [status |-> "BOOKED", booking |-> b]
      BY <2>1 DEF K!OneTicketPerKey
    <2>3. \A d \in Attempts \ {b} : kBooking'[d] # "CONFIRMED"
      BY <2>1 DEF K!OneTicketPerKey, K!TypeOK
    <2> QED BY <2>1, <2>2, <2>3
  <1> QED BY <1>1, <1>2, <1>3

\* The seats name this attempt, so no other has a ticket.
LEMMA ConfirmIInv ==
  ASSUME CheckoutKeysIInv, NEW a \in Attempts, K!Confirm(a)
  PROVE  CheckoutKeysIInv'
  <1>1. CASE K!Owns(a)
    <2> USE <1>1 DEF CheckoutKeysIInv, K!Confirm, K!Goto, K!SetBooking
    <2>1. K!TypeOK' /\ SeatRow'
      BY DEF K!TypeOK, SeatRow
    <2>2. OneGateway' /\ PastFailure'
      BY DEF K!TypeOK, OneGateway, PastFailure
    <2>3. \A b \in Attempts \ {a} : kBooking[b] # "CONFIRMED"
      BY DEF K!OneTicketPerKey, K!Owns
    <2>4. kSeat' = [status |-> "BOOKED", booking |-> a]
      BY DEF SeatRow, K!Owns
    <2>5. K!OneTicketPerKey'
      BY <2>3, <2>4 DEF K!TypeOK, K!OneTicketPerKey
    <2> QED BY <2>1, <2>2, <2>5
  <1>2. CASE ~K!Owns(a)
    BY <1>2, MoveIInv DEF CheckoutKeysIInv, K!TypeOK, OneGateway, K!Confirm, K!Goto
  <1> QED BY <1>1, <1>2

LEMMA SaveKeyIInv ==
  ASSUME CheckoutKeysIInv, NEW a \in Attempts, K!SaveKey(a)
  PROVE  CheckoutKeysIInv'
  <1> USE DEF CheckoutKeysIInv, K!TypeOK, K!SaveKey, K!Goto, K!Return
  <1>1. CASE pc' = [pc EXCEPT ![a] = "done"]
    <2>1. answer' \in [Attempts -> Attempts \cup {NoAttempt}]
      BY <1>1
    <2> QED BY <1>1, <2>1, MoveIInv
  <1>2. CASE pc' = [pc EXCEPT ![a] = "compensate"] /\ ~kRazorpay /\ UNCHANGED <<sagaKey, answer>>
    BY <1>2, MoveIInv
  <1> QED BY <1>1, <1>2

\* A ticket that is taken back takes its own number off the seats only.
LEMMA CompensateIInv ==
  ASSUME CheckoutKeysIInv, NEW a \in Attempts, K!Compensate(a)
  PROVE  CheckoutKeysIInv'
  <1> USE DEF CheckoutKeysIInv, K!Compensate, K!Return, K!Goto, K!SetBooking
  <1>1. K!TypeOK' /\ SeatRow'
    BY DEF K!TypeOK, SeatRow
  <1>2. OneGateway' /\ PastFailure'
    BY DEF K!TypeOK, OneGateway, PastFailure
  <1>3. K!OneTicketPerKey'
    BY DEF K!TypeOK, K!OneTicketPerKey, K!Owns
  <1> QED BY <1>1, <1>2, <1>3

\* The booking that is paid is confirmed only if the seats are still locked, and
\* for it.
LEMMA PaidIInv ==
  ASSUME CheckoutKeysIInv, K!Paid
  PROVE  CheckoutKeysIInv'
  <1>1. payment \in Attempts
    BY DEF CheckoutKeysIInv, K!TypeOK, K!Paid
  <1>2. CASE K!Owns(payment) /\ kSeat.status = "LOCKED"
    <2> USE <1>1, <1>2 DEF CheckoutKeysIInv, K!Paid, K!SetBooking
    <2>1. K!TypeOK' /\ SeatRow'
      BY DEF K!TypeOK, SeatRow
    <2>2. OneGateway' /\ PastFailure'
      BY DEF K!TypeOK, OneGateway, PastFailure
    <2>3. kSeat' = [status |-> "BOOKED", booking |-> payment]
      BY DEF SeatRow, K!Owns
    <2>4. K!OneTicketPerKey'
      BY <2>3, NoTicketYet DEF K!TypeOK, K!OneTicketPerKey
    <2> QED BY <2>1, <2>2, <2>4
  <1>3. CASE ~(K!Owns(payment) /\ kSeat.status = "LOCKED")
    <2> USE <1>1, <1>3 DEF CheckoutKeysIInv, K!Paid, K!SetBooking
    <2>1. K!TypeOK' /\ SeatRow'
      BY DEF K!TypeOK, SeatRow
    <2>2. OneGateway' /\ PastFailure'
      BY DEF K!TypeOK, OneGateway, PastFailure
    <2>3. K!OneTicketPerKey'
      BY DEF K!TypeOK, K!OneTicketPerKey
    <2> QED BY <2>1, <2>2, <2>3
  <1> QED BY <1>2, <1>3

\* However often the checkout is sent, and however its attempts overlap, one
\* booking at most is CONFIRMED, and the seats are booked for it
\* (saga.service.ts 73-301, payment.service.ts 16-101).
THEOREM OneTicket ==
  ASSUME K!KeysAssumption
  PROVE  K!Spec => [](K!TypeOK /\ K!OneTicketPerKey)
  <1>1. K!Init => CheckoutKeysIInv
    BY K!KeysAssumption
    DEF K!Init, CheckoutKeysIInv, K!TypeOK, SeatRow, OneGateway, PastFailure,
                          K!OneTicketPerKey, K!KeysAssumption
  <1>2. CheckoutKeysIInv /\ [K!Next]_K!vars => CheckoutKeysIInv'
    <2> SUFFICES ASSUME CheckoutKeysIInv, [K!Next]_K!vars
                 PROVE  CheckoutKeysIInv'
      OBVIOUS
    <2>1. CASE K!Next
      BY <2>1, CheckKeyIInv, VerifyLocksIInv, OpenBookingIInv, InitiateIInv,
         SimulateIInv, UndoOpenIInv, ConfirmIInv, SaveKeyIInv, CompensateIInv,
         PaidIInv DEF K!Next
    <2>2. CASE UNCHANGED K!vars
      BY <2>2
      DEF K!vars, CheckoutKeysIInv, K!TypeOK, SeatRow, OneGateway, PastFailure,
          K!OneTicketPerKey
    <2> QED BY <2>1, <2>2
  <1>3. CheckoutKeysIInv => K!TypeOK /\ K!OneTicketPerKey
    BY DEF CheckoutKeysIInv
  <1> QED BY <1>1, <1>2, <1>3, PTL DEF K!Spec

HIDE DEF Statuses
=============================================================================
