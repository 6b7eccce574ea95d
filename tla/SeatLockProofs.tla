---------------------------- MODULE SeatLockProofs ----------------------------
(***************************************************************************)
(* Theorems about SeatLock, for any number of users, seats, requests and   *)
(* jobs, any TTL and any bound of the clock.                               *)
(***************************************************************************)
EXTENDS SeatLock, TLAPS

(***************************************************************************)
(* The statements on rows.                                                 *)
(***************************************************************************)

\* Every UPDATE of table seats yields a row of the table's type.
LEMMA RowTypes ==
  ASSUME NEW row \in SeatRow, NEW u \in Users, NEW e \in Nat
  PROVE  /\ LockRow(row, u, e) \in SeatRow
         /\ UnlockRow(row) \in SeatRow
         /\ BookRow(row) \in SeatRow
         /\ FreeRow(row) \in SeatRow
BY DEF SeatRow, SeatStatus, LockRow, UnlockRow, BookRow, FreeRow

\* The status and the owner of the row each UPDATE leaves.
LEMMA RowValues ==
  ASSUME NEW row \in SeatRow, NEW u \in Users, NEW e \in Nat
  PROVE  /\ LockRow(row, u, e).status = "LOCKED"
         /\ LockRow(row, u, e).locked_by = u
         /\ LockRow(row, u, e).lock_expires_at = e
         /\ UnlockRow(row).status = "AVAILABLE"
         /\ UnlockRow(row).locked_by = NoUser
         /\ UnlockRow(row).lock_expires_at = 0
         /\ BookRow(row).status = "BOOKED"
         /\ BookRow(row).locked_by = NoUser
         /\ BookRow(row).lock_expires_at = 0
         /\ FreeRow(row).status = "AVAILABLE"
         /\ FreeRow(row).locked_by = NoUser
         /\ FreeRow(row).lock_expires_at = 0
BY DEF SeatRow, LockRow, UnlockRow, BookRow, FreeRow

\* The seats change only by these six statements; every other step leaves the
\* table as it is.
LEMMA SeatChanges ==
  ASSUME TypeOK, [Next]_vars
  PROVE  \/ UNCHANGED seat
         \/ \E r \in Requests : UpdateLocks(r) \/ ReleaseUpdate(r)
         \/ CleanRows
         \/ \E j \in jobs, b \in BOOLEAN : RunSeatExpiryJob(j, b)
         \/ \E s \in Seats : \/ \E u \in Users : BookSeat(u, s)
                             \/ CancelSeat(s)
BY DEF Next, vars, Acquire, Release, Clean, SeatExpiryWorker, Environment,
       StartAcquire, SetNX, GetOwner, Refuse, PassSelect, RedisFails,
       UpdateMisses, AddSeatExpiryJob, AddJobFails, StartRelease, ReleaseGet,
       ReleaseDel, CleanStart, CleanKeys, CleanProbe, CleanDel, EvictKey,
       EvictJob, RedisFlips, Tick

\* The clock moves by Tick alone.
LEMMA NowChanges ==
  ASSUME TypeOK, [Next]_vars
  PROVE  UNCHANGED now \/ Tick
BY DEF Next, vars, Acquire, Release, Clean, SeatExpiryWorker, Environment,
       StartAcquire, SetNX, GetOwner, Refuse, PassSelect, RedisFails,
       UpdateLocks, UpdateMisses, AddSeatExpiryJob, AddJobFails, StartRelease,
       ReleaseGet, ReleaseDel, ReleaseUpdate, CleanStart, CleanRows, CleanKeys,
       CleanProbe, CleanDel, RunSeatExpiryJob, BookSeat, CancelSeat, EvictKey,
       EvictJob, RedisFlips

(***************************************************************************)
(* Type correctness.                                                       *)
(***************************************************************************)

LEMMA InitTypeOK == Init => TypeOK
<1> SUFFICES ASSUME Init PROVE TypeOK
  OBVIOUS
<1>1. FreshRow \in SeatRow /\ BookRow(FreshRow) \in SeatRow
  BY DEF FreshRow, SeatRow, SeatStatus, BookRow
<1>2. \A s \in Seats :
        /\ seat[s] \in SeatRow
        /\ seat[s].status = "LOCKED" <=> seat[s].locked_by # NoUser
        /\ seat[s].lock_expires_at =< now + TTL
  BY <1>1, SeatLockAssumption DEF Init, FreshRow, BookRow, SeatRow
<1>3. seat \in [Seats -> SeatRow]
  BY <1>2 DEF Init
<1>4. req \in [Requests -> ActiveRequest \cup {IdleRequest}]
  BY DEF Init
<1>5. cleaner \in [pc : CleanerPC, t : Nat, todo : SUBSET Seats,
                   cur : Seats \cup {NoSeat}]
  BY DEF Init, IdleCleaner, CleanerPC
<1>6. QED
  BY <1>2, <1>3, <1>4, <1>5
  DEF Init, TypeOK, NoKey, RedisKey, IdleRequest, IdleCleaner, Job

\* The part of TypeOK about the table and the clock, kept by every step.
LEMMA SeatTypeStep ==
  ASSUME TypeOK, [Next]_vars
  PROVE  /\ now' \in Nat /\ now' >= now
         /\ seat' \in [Seats -> SeatRow]
         /\ \A s \in Seats :
              /\ seat'[s].status = "LOCKED" <=> seat'[s].locked_by # NoUser
              /\ seat'[s].lock_expires_at =< now' + TTL
<1> DEFINE Good(row) == /\ row \in SeatRow
                        /\ row.status = "LOCKED" <=> row.locked_by # NoUser
                        /\ row.lock_expires_at =< now + TTL
<1>1. now' \in Nat /\ (now' = now \/ now' = now + 1)
  BY NowChanges DEF TypeOK, Tick
<1>2. \A s \in Seats : Good(seat[s])
  BY DEF TypeOK
<1>3. ASSUME NEW row \in SeatRow
      PROVE  Good(UnlockRow(row)) /\ Good(BookRow(row)) /\ Good(FreeRow(row))
  <2>1. UnlockRow(row) \in SeatRow /\ BookRow(row) \in SeatRow
        /\ FreeRow(row) \in SeatRow
    BY DEF SeatRow, SeatStatus, UnlockRow, BookRow, FreeRow
  <2>2. /\ UnlockRow(row).status = "AVAILABLE"
        /\ UnlockRow(row).locked_by = NoUser
        /\ UnlockRow(row).lock_expires_at = 0
        /\ BookRow(row).status = "BOOKED"
        /\ BookRow(row).locked_by = NoUser
        /\ BookRow(row).lock_expires_at = 0
        /\ FreeRow(row).status = "AVAILABLE"
        /\ FreeRow(row).locked_by = NoUser
        /\ FreeRow(row).lock_expires_at = 0
    BY DEF SeatRow, UnlockRow, BookRow, FreeRow
  <2>3. 0 =< now + TTL
    BY SeatLockAssumption DEF TypeOK
  <2>4. QED
    BY <2>1, <2>2, <2>3
<1>4. ASSUME NEW row \in SeatRow, NEW u \in Users, NEW e \in Nat,
             e =< now + TTL
      PROVE  Good(LockRow(row, u, e))
  BY <1>4, RowTypes, RowValues, SeatsAssumption
<1>5. seat' \in [Seats -> SeatRow] /\ \A s \in Seats : Good(seat'[s])
  <2> HIDE DEF Good
  <2>1. CASE UNCHANGED seat
    BY <2>1, <1>2 DEF TypeOK
  <2>2. ASSUME NEW r \in Requests, UpdateLocks(r)
        PROVE  seat' \in [Seats -> SeatRow] /\ \A s \in Seats : Good(seat'[s])
    <3>1. req[r] \in ActiveRequest /\ req[r].t0 =< now
      BY <2>2 DEF TypeOK, UpdateLocks, IdleRequest
    <3>2. Good(LockRow(seat[req[r].seat], req[r].user, req[r].t0 + TTL))
          /\ LockRow(seat[req[r].seat], req[r].user, req[r].t0 + TTL) \in SeatRow
      <4>1. /\ req[r].user \in Users /\ req[r].t0 + TTL \in Nat
            /\ req[r].t0 + TTL =< now + TTL
            /\ seat[req[r].seat] \in SeatRow
        BY <3>1, SeatLockAssumption DEF ActiveRequest, TypeOK
      <4>2. QED
        BY <4>1, <1>4, RowTypes
    <3>3. QED
      BY <1>2, <2>2, <3>1, <3>2 DEF UpdateLocks, TypeOK
  <2>3. ASSUME NEW r \in Requests, ReleaseUpdate(r)
        PROVE  seat' \in [Seats -> SeatRow] /\ \A s \in Seats : Good(seat'[s])
    <3>1. req[r].seat \in Seats
      BY <2>3 DEF TypeOK, ReleaseUpdate, IdleRequest, ActiveRequest
    <3>2. Good(UnlockRow(seat[req[r].seat]))
          /\ UnlockRow(seat[req[r].seat]) \in SeatRow
      BY <3>1, <1>3 DEF TypeOK, Good
    <3>3. QED
      BY <1>2, <2>3, <3>1, <3>2 DEF ReleaseUpdate, TypeOK
  <2>4. CASE CleanRows
    <3>1. \A s \in Seats : Good(UnlockRow(seat[s]))
                           /\ UnlockRow(seat[s]) \in SeatRow
      BY <1>3 DEF TypeOK, Good
    <3>2. QED
      BY <1>2, <2>4, <3>1 DEF CleanRows, TypeOK
  <2>5. ASSUME NEW j \in jobs, NEW b \in BOOLEAN, RunSeatExpiryJob(j, b)
        PROVE  seat' \in [Seats -> SeatRow] /\ \A s \in Seats : Good(seat'[s])
    <3>1. j.seat \in Seats
      BY DEF TypeOK, Job
    <3>2. Good(UnlockRow(seat[j.seat])) /\ UnlockRow(seat[j.seat]) \in SeatRow
      BY <3>1, <1>3 DEF TypeOK, Good
    <3>3. QED
      BY <1>2, <2>5, <3>1, <3>2 DEF RunSeatExpiryJob, TypeOK
  <2>6. ASSUME NEW s \in Seats, NEW u \in Users, BookSeat(u, s)
        PROVE  seat' \in [Seats -> SeatRow] /\ \A x \in Seats : Good(seat'[x])
    <3>1. Good(BookRow(seat[s])) /\ BookRow(seat[s]) \in SeatRow
      BY <1>3 DEF TypeOK, Good
    <3>2. QED
      BY <1>2, <2>6, <3>1 DEF BookSeat, TypeOK
  <2>7. ASSUME NEW s \in Seats, CancelSeat(s)
        PROVE  seat' \in [Seats -> SeatRow] /\ \A x \in Seats : Good(seat'[x])
    <3>1. Good(FreeRow(seat[s])) /\ FreeRow(seat[s]) \in SeatRow
      BY <1>3 DEF TypeOK, Good
    <3>2. QED
      BY <1>2, <2>7, <3>1 DEF CancelSeat, TypeOK
  <2>8. QED
    BY <2>1, <2>2, <2>3, <2>4, <2>5, <2>6, <2>7, SeatChanges
<1>6. \A s \in Seats : seat'[s].lock_expires_at \in Nat
  BY <1>5 DEF Good, SeatRow
<1>7. QED
  BY <1>1, <1>5, <1>6, SeatLockAssumption DEF TypeOK

(***************************************************************************)
(* The rest of TypeOK, apart from the table and the clock.                 *)
(***************************************************************************)
RequestsOK == /\ req \in [Requests -> ActiveRequest \cup {IdleRequest}]
              /\ \A r \in Requests : req[r].t0 =< now

CleanerOK == /\ cleaner \in [pc : CleanerPC, t : Nat, todo : SUBSET Seats,
                             cur : Seats \cup {NoSeat}]
             /\ cleaner.pc = "del" => cleaner.cur \in Seats
             /\ cleaner.t =< now

\* A request that is not idle carries a user and a seat.
LEMMA Active ==
  ASSUME TypeOK, NEW r \in Requests, req[r].pc # "idle"
  PROVE  /\ req[r] \in ActiveRequest
         /\ req[r].user \in Users /\ req[r].seat \in Seats
         /\ req[r].t0 \in Nat
BY DEF TypeOK, IdleRequest, ActiveRequest

\* A call that goes on keeps the type of req.
LEMMA GotoOK ==
  ASSUME TypeOK, NEW r \in Requests, req[r].pc # "idle",
         NEW pc \in AcquirePC \cup ReleasePC, Goto(r, pc), now' >= now,
         now' \in Nat
  PROVE  RequestsOK'
<1>1. req[r] \in ActiveRequest
  BY Active
<1>2. [req[r] EXCEPT !.pc = pc] \in ActiveRequest
      /\ [req[r] EXCEPT !.pc = pc].t0 = req[r].t0
  BY <1>1 DEF ActiveRequest
<1>3. req' = [req EXCEPT ![r] = [req[r] EXCEPT !.pc = pc]]
  BY DEF Goto, TypeOK
<1>4. \A q \in Requests : req[q].t0 \in Nat
  BY DEF TypeOK, ActiveRequest, IdleRequest
<1>5. QED
  BY <1>2, <1>3, <1>4 DEF RequestsOK, TypeOK

\* A call that starts with a record of the type keeps it.
LEMMA StartOK ==
  ASSUME TypeOK, NEW r \in Requests, NEW rec \in ActiveRequest,
         rec.t0 =< now, req' = [req EXCEPT ![r] = rec], now' = now
  PROVE  RequestsOK'
<1>1. \A q \in Requests : req'[q] = IF q = r THEN rec ELSE req[q]
  BY DEF TypeOK
<1>2. req' \in [Requests -> ActiveRequest \cup {IdleRequest}]
  BY DEF TypeOK
<1>3. QED
  BY <1>1, <1>2 DEF RequestsOK, TypeOK

\* A call that ends keeps it too.
LEMMA FinishOK ==
  ASSUME TypeOK, NEW r \in Requests, Finish(r), now' = now
  PROVE  RequestsOK'
BY DEF TypeOK, RequestsOK, Finish, IdleRequest

\* Telling a user about a seat keeps the type of held.
LEMMA TellOK ==
  ASSUME TypeOK, NEW u \in Users, NEW s \in Seats, NEW e \in Nat, Tell(u, s, e)
  PROVE  held' \in [Users -> [Seats -> Nat]]
BY DEF TypeOK, Tell

LEMMA RequestsStep ==
  ASSUME TypeOK, [Next]_vars
  PROVE  RequestsOK'
<1>1. now' \in Nat /\ now' >= now
  BY SeatTypeStep
<1>2. CASE UNCHANGED req
  <2>1. \A q \in Requests : req[q].t0 \in Nat
    BY DEF TypeOK, ActiveRequest, IdleRequest
  <2>2. QED
    BY <1>1, <1>2, <2>1 DEF TypeOK, RequestsOK
<1>3. ASSUME NEW r \in Requests, Acquire(r)
      PROVE  RequestsOK'
  <2>1. ASSUME NEW u \in Users, NEW s \in Seats, StartAcquire(r, u, s)
        PROVE  RequestsOK'
    <3> DEFINE rec == [pc |-> IF up THEN "setnx" ELSE "update",
             user |-> u, seat |-> s, t0 |-> now]
    <3>1. rec \in ActiveRequest /\ rec.t0 =< now
      BY DEF TypeOK, ActiveRequest, AcquirePC
    <3>2. req' = [req EXCEPT ![r] = rec] /\ now' = now
      BY <2>1 DEF StartAcquire
    <3> HIDE DEF rec
    <3>3. QED
      BY <3>1, <3>2, StartOK
  <2>2. CASE SetNX(r)
    BY <1>1, <2>2, GotoOK DEF SetNX, AcquirePC
  <2>3. CASE GetOwner(r)
    BY <1>1, <2>3, GotoOK DEF GetOwner, AcquirePC
  <2>4. CASE Refuse(r)
    BY <2>4, FinishOK DEF Refuse
  <2>5. CASE PassSelect(r)
    BY <1>1, <2>5, GotoOK DEF PassSelect, AcquirePC
  <2>6. CASE RedisFails(r)
    BY <1>1, <2>6, GotoOK DEF RedisFails, AcquirePC
  <2>7. CASE UpdateLocks(r)
    BY <1>1, <2>7, GotoOK, FinishOK DEF UpdateLocks, AcquirePC
  <2>8. CASE UpdateMisses(r)
    BY <2>8, FinishOK DEF UpdateMisses
  <2>9. CASE AddSeatExpiryJob(r)
    BY <2>9, FinishOK DEF AddSeatExpiryJob
  <2>10. CASE AddJobFails(r)
    BY <2>10, FinishOK DEF AddJobFails
  <2>11. QED
    BY <1>3, <2>1, <2>2, <2>3, <2>4, <2>5, <2>6, <2>7, <2>8, <2>9, <2>10
    DEF Acquire
<1>4. ASSUME NEW r \in Requests, Release(r)
      PROVE  RequestsOK'
  <2>1. ASSUME NEW u \in Users, NEW s \in Seats, StartRelease(r, u, s)
        PROVE  RequestsOK'
    <3> DEFINE rec == [pc |-> IF up THEN "relget" ELSE "relupdate",
             user |-> u, seat |-> s, t0 |-> 0]
    <3>1. rec \in ActiveRequest /\ rec.t0 =< now
      BY DEF TypeOK, ActiveRequest, ReleasePC
    <3>2. req' = [req EXCEPT ![r] = rec] /\ now' = now
      BY <2>1 DEF StartRelease
    <3> HIDE DEF rec
    <3>3. QED
      BY <3>1, <3>2, StartOK
  <2>2. CASE ReleaseGet(r)
    BY <1>1, <2>2, GotoOK DEF ReleaseGet, ReleasePC
  <2>3. CASE ReleaseDel(r)
    BY <1>1, <2>3, GotoOK DEF ReleaseDel, ReleasePC
  <2>4. CASE ReleaseUpdate(r)
    BY <2>4, FinishOK DEF ReleaseUpdate
  <2>5. QED
    BY <1>4, <2>1, <2>2, <2>3, <2>4 DEF Release
<1>5. \/ UNCHANGED req
      \/ \E r \in Requests : Acquire(r) \/ Release(r)
  BY DEF Next, vars, Clean, SeatExpiryWorker, Environment, CleanStart,
         CleanRows, CleanKeys, CleanProbe, CleanDel, RunSeatExpiryJob,
         BookSeat, CancelSeat, EvictKey, EvictJob, RedisFlips, Tick
<1>6. QED
  BY <1>2, <1>3, <1>4, <1>5

\* The next iteration of the cleaner's loop keeps its type.
LEMMA CleanOnOK ==
  ASSUME TypeOK, NEW todo \in SUBSET Seats, CleanOn(todo), now' = now
  PROVE  CleanerOK'
<1> DEFINE next == [cleaner EXCEPT !.pc = "probe", !.todo = todo, !.cur = NoSeat]
<1>1. next \in [pc : CleanerPC, t : Nat, todo : SUBSET Seats,
               cur : Seats \cup {NoSeat}]
      /\ next.pc = "probe" /\ next.t = cleaner.t
  BY DEF TypeOK, CleanerPC
<1>2. CASE todo = {}
  BY <1>2 DEF CleanOn, TypeOK, CleanerOK, IdleCleaner, CleanerPC
<1>3. CASE todo # {}
  <2>1. cleaner' = next
    BY <1>3 DEF CleanOn
  <2> HIDE DEF next
  <2>2. QED
    BY <1>1, <2>1 DEF TypeOK, CleanerOK
<1>4. QED
  BY <1>2, <1>3

LEMMA CleanerStep ==
  ASSUME TypeOK, [Next]_vars
  PROVE  CleanerOK'
<1>1. CASE UNCHANGED cleaner
  BY <1>1, SeatTypeStep DEF TypeOK, CleanerOK
<1>2. CASE CleanStart
  <2>1. cleaner' = [pc |-> "rows", t |-> now, todo |-> {}, cur |-> NoSeat]
        /\ now' = now
    BY <1>2 DEF CleanStart, IdleCleaner
  <2>2. QED
    BY <2>1 DEF TypeOK, CleanerOK, CleanerPC
<1>3. CASE CleanRows
  BY <1>3 DEF CleanRows, TypeOK, CleanerOK, IdleCleaner, CleanerPC
<1>4. CASE CleanKeys
  BY <1>4, CleanOnOK DEF CleanKeys
<1>5. ASSUME NEW s \in Seats, CleanProbe(s)
      PROVE  CleanerOK'
  <2>1. CASE seat[s].status = "LOCKED"
    BY <1>5, <2>1, CleanOnOK DEF CleanProbe, TypeOK
  <2>2. CASE seat[s].status # "LOCKED"
    <3> DEFINE next == [cleaner EXCEPT !.pc = "del", !.cur = s]
    <3>1. next \in [pc : CleanerPC, t : Nat, todo : SUBSET Seats,
                   cur : Seats \cup {NoSeat}]
          /\ next.cur = s /\ next.t = cleaner.t
      BY DEF TypeOK, CleanerPC
    <3>2. cleaner' = next /\ now' = now
      BY <1>5, <2>2 DEF CleanProbe
    <3> HIDE DEF next
    <3>3. QED
      BY <3>1, <3>2 DEF TypeOK, CleanerOK
  <2>3. QED
    BY <2>1, <2>2
<1>6. CASE CleanDel
  <2>1. CASE cleaner' = IdleCleaner
    BY <1>6, <2>1 DEF CleanDel, TypeOK, CleanerOK, IdleCleaner, CleanerPC
  <2>2. CASE CleanOn(cleaner.todo \ {cleaner.cur})
    BY <1>6, <2>2, CleanOnOK DEF CleanDel, TypeOK
  <2>3. QED
    BY <1>6, <2>1, <2>2 DEF CleanDel
<1>7. UNCHANGED cleaner \/ Clean
  BY DEF Next, vars, Acquire, Release, SeatExpiryWorker, Environment,
         StartAcquire, SetNX, GetOwner, Refuse, PassSelect, RedisFails,
         UpdateLocks, UpdateMisses, AddSeatExpiryJob, AddJobFails,
         StartRelease, ReleaseGet, ReleaseDel, ReleaseUpdate, RunSeatExpiryJob,
         BookSeat, CancelSeat, EvictKey, EvictJob, RedisFlips, Tick
<1>8. QED
  BY <1>1, <1>2, <1>3, <1>4, <1>5, <1>6, <1>7 DEF Clean

LEMMA RedisStep ==
  ASSUME TypeOK, [Next]_vars
  PROVE  redis' \in [Seats -> RedisKey]
<1>1. NoKey \in RedisKey
  BY DEF NoKey, RedisKey
<1>2. CASE UNCHANGED redis
  BY <1>2 DEF TypeOK
<1>3. ASSUME NEW r \in Requests, SetNX(r)
      PROVE  redis' \in [Seats -> RedisKey]
  <2>1. req[r].user \in Users /\ now + TTL \in Nat
    BY <1>3, Active, SeatLockAssumption DEF SetNX, TypeOK
  <2>2. [owner |-> req[r].user, until |-> now + TTL] \in RedisKey
    BY <2>1 DEF RedisKey
  <2>3. QED
    BY <1>3, <2>2 DEF SetNX, TypeOK
<1>4. ASSUME NEW r \in Requests, ReleaseDel(r)
      PROVE  redis' \in [Seats -> RedisKey]
  BY <1>1, <1>4 DEF ReleaseDel, TypeOK
<1>5. CASE CleanDel
  BY <1>1, <1>5 DEF CleanDel, TypeOK
<1>6. ASSUME NEW s \in Seats, EvictKey(s)
      PROVE  redis' \in [Seats -> RedisKey]
  BY <1>1, <1>6 DEF EvictKey, TypeOK
<1>7. CASE Tick
  BY <1>1, <1>7 DEF Tick, TypeOK
<1>8. \/ UNCHANGED redis
      \/ \E r \in Requests : SetNX(r) \/ ReleaseDel(r)
      \/ CleanDel \/ Tick
      \/ \E s \in Seats : EvictKey(s)
  BY DEF Next, vars, Acquire, Release, Clean, SeatExpiryWorker, Environment,
         StartAcquire, GetOwner, Refuse, PassSelect, RedisFails, UpdateLocks,
         UpdateMisses, AddSeatExpiryJob, AddJobFails, StartRelease, ReleaseGet,
         ReleaseUpdate, CleanStart, CleanRows, CleanKeys, CleanProbe,
         RunSeatExpiryJob, BookSeat, CancelSeat, EvictJob, RedisFlips
<1>9. QED
  BY <1>2, <1>3, <1>4, <1>5, <1>6, <1>7, <1>8

LEMMA JobsStep ==
  ASSUME TypeOK, [Next]_vars
  PROVE  jobs' \subseteq Job
<1>1. ASSUME NEW r \in Requests, AddSeatExpiryJob(r)
      PROVE  jobs' \subseteq Job
  <2>1. /\ req[r].user \in Users /\ req[r].seat \in Seats
        /\ now + TTL \in Nat
    BY <1>1, Active, SeatLockAssumption DEF AddSeatExpiryJob, TypeOK
  <2>2. [seat |-> req[r].seat, user |-> req[r].user, due |-> now + TTL] \in Job
    BY <2>1 DEF Job
  <2>3. QED
    BY <1>1, <2>2 DEF AddSeatExpiryJob, TypeOK
<1>2. jobs' \subseteq jobs \/ \E r \in Requests : AddSeatExpiryJob(r)
  BY DEF Next, vars, Acquire, Release, Clean, SeatExpiryWorker, Environment,
         StartAcquire, SetNX, GetOwner, Refuse, PassSelect, RedisFails,
         UpdateLocks, UpdateMisses, AddJobFails, StartRelease, ReleaseGet,
         ReleaseDel, ReleaseUpdate, CleanStart, CleanRows, CleanKeys,
         CleanProbe, CleanDel, RunSeatExpiryJob, BookSeat, CancelSeat,
         EvictKey, EvictJob, RedisFlips, Tick
<1>3. QED
  BY <1>1, <1>2 DEF TypeOK

LEMMA HeldStep ==
  ASSUME TypeOK, [Next]_vars
  PROVE  held' \in [Users -> [Seats -> Nat]]
<1>1. CASE UNCHANGED held
  BY <1>1 DEF TypeOK
<1>2. ASSUME NEW r \in Requests,
             UpdateLocks(r) \/ AddSeatExpiryJob(r) \/ ReleaseUpdate(r)
      PROVE  held' \in [Users -> [Seats -> Nat]]
  <2>1. req[r].pc # "idle"
    BY <1>2 DEF UpdateLocks, AddSeatExpiryJob, ReleaseUpdate
  <2>2. req[r].user \in Users /\ req[r].seat \in Seats
        /\ req[r].t0 + TTL \in Nat
    BY <2>1, Active, SeatLockAssumption
  <2>3. QED
    BY <1>1, <1>2, <2>2, TellOK DEF UpdateLocks, AddSeatExpiryJob, ReleaseUpdate
<1>3. ASSUME NEW s \in Seats, NEW u \in Users, BookSeat(u, s)
      PROVE  held' \in [Users -> [Seats -> Nat]]
  BY <1>3, TellOK DEF BookSeat
<1>4. CASE Tick
  BY <1>4 DEF Tick, TypeOK
<1>5. \/ UNCHANGED held
      \/ \E r \in Requests : UpdateLocks(r) \/ AddSeatExpiryJob(r)
                             \/ ReleaseUpdate(r)
      \/ \E s \in Seats, u \in Users : BookSeat(u, s)
      \/ Tick
  BY DEF Next, vars, Acquire, Release, Clean, SeatExpiryWorker, Environment,
         StartAcquire, SetNX, GetOwner, Refuse, PassSelect, RedisFails,
         UpdateMisses, AddJobFails, StartRelease, ReleaseGet, ReleaseDel,
         CleanStart, CleanRows, CleanKeys, CleanProbe, CleanDel,
         RunSeatExpiryJob, CancelSeat, EvictKey, EvictJob, RedisFlips
<1>6. QED
  BY <1>1, <1>2, <1>3, <1>4, <1>5

LEMMA UpStep ==
  ASSUME TypeOK, [Next]_vars
  PROVE  up' \in BOOLEAN
<1>1. CASE UNCHANGED up
  BY <1>1 DEF TypeOK
<1>2. CASE RedisFlips
  BY <1>2 DEF RedisFlips
<1>3. UNCHANGED up \/ RedisFlips
  BY DEF Next, vars, Acquire, Release, Clean, SeatExpiryWorker, Environment,
         StartAcquire, SetNX, GetOwner, Refuse, PassSelect, RedisFails,
         UpdateLocks, UpdateMisses, AddSeatExpiryJob, AddJobFails,
         StartRelease, ReleaseGet, ReleaseDel, ReleaseUpdate, CleanStart,
         CleanRows, CleanKeys, CleanProbe, CleanDel, RunSeatExpiryJob,
         BookSeat, CancelSeat, EvictKey, EvictJob, Tick
<1>4. QED
  BY <1>1, <1>2, <1>3

\* TypeOK is inductive: no interleaving of calls, cleaner, jobs, Redis
\* failures and evictions leaves a row without its owner or its expiry.
THEOREM TypeCorrect == Spec => []TypeOK
<1>1. Init => TypeOK
  BY InitTypeOK
<1>2. ASSUME TypeOK, [Next]_vars
      PROVE  TypeOK'
  <2>1. now' >= 1
    BY <1>2, SeatTypeStep DEF TypeOK
  <2>2. QED
    BY <1>2, <2>1, SeatTypeStep, RequestsStep, CleanerStep, RedisStep,
       JobsStep, HeldStep, UpStep
    DEF TypeOK, RequestsOK, CleanerOK
<1>3. QED
  BY <1>1, <1>2, PTL DEF Spec

(***************************************************************************)
(* A lock that runs ends by its owner.                                     *)
(***************************************************************************)

\* What each statement does to one row, and to whom it belongs.
LEMMA SeatStep ==
  ASSUME TypeOK, [Next]_vars, NEW s \in Seats, seat'[s] # seat[s]
  PROVE  \/ \E r \in Requests :
              /\ UpdateLocks(r)
              /\ req[r].seat = s
              /\ Lockable(seat[s], req[r].t0)
              /\ seat'[s] = LockRow(seat[s], req[r].user, req[r].t0 + TTL)
         \/ \E r \in Requests :
              /\ ReleaseUpdate(r)
              /\ req[r].pc = "relupdate"
              /\ req[r].seat = s
              /\ LockedBy(seat[s], req[r].user)
              /\ seat'[s] = UnlockRow(seat[s])
         \/ /\ CleanRows
            /\ ExpiredAt(seat[s], cleaner.t)
            /\ seat'[s] = UnlockRow(seat[s])
         \/ \E j \in jobs, b \in BOOLEAN :
              /\ RunSeatExpiryJob(j, b)
              /\ j.due =< now
              /\ j.seat = s
              /\ LockedBy(seat[s], j.user)
              /\ seat'[s] = UnlockRow(seat[s])
         \/ \E u \in Users :
              /\ BookSeat(u, s)
              /\ seat'[s] = BookRow(seat[s])
         \/ /\ CancelSeat(s)
            /\ seat[s].status = "BOOKED"
            /\ seat'[s] = FreeRow(seat[s])
<1>1. seat \in [Seats -> SeatRow]
  BY DEF TypeOK
<1>2. ASSUME NEW r \in Requests, UpdateLocks(r)
      PROVE  /\ req[r].seat = s
             /\ Lockable(seat[s], req[r].t0)
             /\ seat'[s] = LockRow(seat[s], req[r].user, req[r].t0 + TTL)
  BY <1>1, <1>2 DEF UpdateLocks
<1>3. ASSUME NEW r \in Requests, ReleaseUpdate(r)
      PROVE  /\ req[r].pc = "relupdate"
             /\ req[r].seat = s
             /\ LockedBy(seat[s], req[r].user)
             /\ seat'[s] = UnlockRow(seat[s])
  BY <1>1, <1>3 DEF ReleaseUpdate
<1>4. CASE CleanRows
  BY <1>1, <1>4 DEF CleanRows
<1>5. ASSUME NEW j \in jobs, NEW b \in BOOLEAN, RunSeatExpiryJob(j, b)
      PROVE  /\ j.due =< now
             /\ j.seat = s
             /\ LockedBy(seat[s], j.user)
             /\ seat'[s] = UnlockRow(seat[s])
  BY <1>1, <1>5 DEF RunSeatExpiryJob
<1>6. ASSUME NEW x \in Seats, NEW u \in Users, BookSeat(u, x)
      PROVE  x = s /\ seat'[s] = BookRow(seat[s])
  BY <1>1, <1>6 DEF BookSeat
<1>7. ASSUME NEW x \in Seats, CancelSeat(x)
      PROVE  /\ x = s /\ seat[s].status = "BOOKED"
             /\ seat'[s] = FreeRow(seat[s])
  BY <1>1, <1>7 DEF CancelSeat
<1>8. QED
  BY <1>2, <1>3, <1>4, <1>5, <1>6, <1>7, SeatChanges

\* No instant that a call or the cleaner read before its awaits, and nothing
\* Redis lost or kept, ends a lock that still runs.
THEOREM LiveLockEnds == Spec => LiveLockEndsByOwner
<1> DEFINE Ends(s) ==
      Live(s) /\ seat'[s] # seat[s] =>
         \/ seat'[s].status = "BOOKED"
         \/ \E r \in Requests : /\ req[r].pc = "relupdate"
                                /\ req[r].user = seat[s].locked_by
                                /\ req[r].seat = s
         \/ \E j \in jobs : /\ j.user = seat[s].locked_by
                            /\ j.seat = s
                            /\ j.due =< now
<1>1. ASSUME TypeOK, [Next]_vars
      PROVE  [\A s \in Seats : Ends(s)]_vars
  <2> SUFFICES ASSUME NEW s \in Seats, Live(s), seat'[s] # seat[s]
               PROVE  Ends(s)
    OBVIOUS
  <2>1. seat[s] \in SeatRow /\ now \in Nat /\ seat[s].lock_expires_at \in Nat
    BY <1>1 DEF TypeOK, SeatRow
  <2>2. ASSUME NEW t \in Nat, t =< now
        PROVE  ~ExpiredAt(seat[s], t) /\ ~Lockable(seat[s], t)
    BY <2>1, <2>2 DEF Live, ExpiredAt, Lockable
  <2>3. cleaner.t \in Nat /\ cleaner.t =< now
    BY <1>1 DEF TypeOK
  <2>4. ASSUME NEW r \in Requests, UpdateLocks(r)
        PROVE  req[r].t0 \in Nat /\ req[r].t0 =< now
    BY <1>1, <2>4, Active DEF UpdateLocks, TypeOK
  <2>5. BookRow(seat[s]).status = "BOOKED"
    BY <2>1 DEF BookRow, SeatRow
  <2>6. seat[s].status = "LOCKED"
    BY DEF Live
  <2>7. QED
    BY <1>1, <2>2, <2>3, <2>4, <2>5, <2>6, SeatStep DEF LockedBy
<1>2. QED
  BY <1>1, TypeCorrect, PTL DEF Spec, LiveLockEndsByOwner

(***************************************************************************)
(* Without a job queue, what a user was told is true.                      *)
(***************************************************************************)

\* The strengthening: no job exists, and no call is about to add one.
NoJobs == /\ jobs = {}
          /\ \A r \in Requests : req[r].pc # "addjob"

HeldInv == TypeOK /\ NoJobs /\ HeldIsLocked

LEMMA NoJobsStep ==
  ASSUME BullMQ = FALSE, TypeOK, NoJobs, [Next]_vars
  PROVE  NoJobs'
<1>1. ASSUME NEW r \in Requests, NEW pc, pc # "addjob", Goto(r, pc)
      PROVE  \A q \in Requests : req'[q].pc # "addjob"
  <2>1. [req[r] EXCEPT !.pc = pc].pc = pc
    BY DEF TypeOK, ActiveRequest, IdleRequest
  <2>2. req' = [req EXCEPT ![r] = [req[r] EXCEPT !.pc = pc]]
    BY <1>1 DEF Goto, TypeOK
  <2>3. QED
    BY <1>1, <2>1, <2>2 DEF NoJobs, TypeOK
<1>2. ASSUME NEW r \in Requests, Finish(r)
      PROVE  \A q \in Requests : req'[q].pc # "addjob"
  BY <1>2 DEF Finish, IdleRequest, NoJobs, TypeOK
<1>3. ASSUME NEW r \in Requests, NEW rec, rec.pc # "addjob",
             req' = [req EXCEPT ![r] = rec]
      PROVE  \A q \in Requests : req'[q].pc # "addjob"
  BY <1>3 DEF NoJobs, TypeOK
<1>4. \A q \in Requests : req'[q].pc # "addjob"
  <2>1. CASE UNCHANGED req
    BY <2>1 DEF NoJobs
  <2>2. ASSUME NEW r \in Requests, Acquire(r)
        PROVE  \A q \in Requests : req'[q].pc # "addjob"
    <3>1. ASSUME NEW u \in Users, NEW s \in Seats, StartAcquire(r, u, s)
          PROVE  \A q \in Requests : req'[q].pc # "addjob"
      BY <1>3, <3>1 DEF StartAcquire
    <3>2. CASE SetNX(r) \/ GetOwner(r) \/ PassSelect(r) \/ RedisFails(r)
      BY <1>1, <3>2 DEF SetNX, GetOwner, PassSelect, RedisFails
    <3>3. CASE Refuse(r) \/ UpdateMisses(r) \/ AddJobFails(r)
      BY <1>2, <3>3 DEF Refuse, UpdateMisses, AddJobFails
    <3>4. CASE UpdateLocks(r)
      BY <1>2, <3>4 DEF UpdateLocks
    <3>5. CASE AddSeatExpiryJob(r)
      BY <3>5 DEF AddSeatExpiryJob, NoJobs
    <3>6. QED
      BY <2>2, <3>1, <3>2, <3>3, <3>4, <3>5 DEF Acquire
  <2>3. ASSUME NEW r \in Requests, Release(r)
        PROVE  \A q \in Requests : req'[q].pc # "addjob"
    <3>1. ASSUME NEW u \in Users, NEW s \in Seats, StartRelease(r, u, s)
          PROVE  \A q \in Requests : req'[q].pc # "addjob"
      BY <1>3, <3>1 DEF StartRelease
    <3>2. CASE ReleaseGet(r) \/ ReleaseDel(r)
      BY <1>1, <3>2 DEF ReleaseGet, ReleaseDel
    <3>3. CASE ReleaseUpdate(r)
      BY <1>2, <3>3 DEF ReleaseUpdate
    <3>4. QED
      BY <2>3, <3>1, <3>2, <3>3 DEF Release
  <2>4. \/ UNCHANGED req
        \/ \E r \in Requests : Acquire(r) \/ Release(r)
    BY DEF Next, vars, Clean, SeatExpiryWorker, Environment, CleanStart,
           CleanRows, CleanKeys, CleanProbe, CleanDel, RunSeatExpiryJob,
           BookSeat, CancelSeat, EvictKey, EvictJob, RedisFlips, Tick
  <2>5. QED
    BY <2>1, <2>2, <2>3, <2>4
<1>5. jobs' = {}
  BY DEF NoJobs, Next, vars, Acquire, Release, Clean, SeatExpiryWorker,
         Environment, StartAcquire, SetNX, GetOwner, Refuse, PassSelect,
         RedisFails, UpdateLocks, UpdateMisses, AddSeatExpiryJob, AddJobFails,
         StartRelease, ReleaseGet, ReleaseDel, ReleaseUpdate, CleanStart,
         CleanRows, CleanKeys, CleanProbe, CleanDel, RunSeatExpiryJob,
         BookSeat, CancelSeat, EvictKey, EvictJob, RedisFlips, Tick
<1>6. QED
  BY <1>4, <1>5 DEF NoJobs

\* A row that a user rightly believes in is not lockable at an earlier instant.
LEMMA BelievedNotLockable ==
  ASSUME TypeOK, HeldIsLocked, NEW u \in Users, NEW s \in Seats, Believes(u, s),
         NEW t \in Nat, t =< now
  PROVE  /\ LockedBy(seat[s], u)
         /\ ~Lockable(seat[s], t)
         /\ ~ExpiredAt(seat[s], t)
<1>1. /\ held[u][s] \in Nat /\ now \in Nat
      /\ seat[s].lock_expires_at \in Nat
  BY DEF TypeOK, SeatRow
<1>2. QED
  BY <1>1 DEF HeldIsLocked, Believes, LockedBy, Lockable, ExpiredAt

LEMMA HeldIsLockedStep ==
  ASSUME BullMQ = FALSE, TypeOK, NoJobs, HeldIsLocked, [Next]_vars
  PROVE  HeldIsLocked'
<1> SUFFICES ASSUME NEW u \in Users, NEW s \in Seats, held'[u][s] > now'
             PROVE  LockedBy(seat'[s], u) /\ held'[u][s] =< seat'[s].lock_expires_at
  BY DEF HeldIsLocked, Believes, LockedBy
<1>0. held[u][s] \in Nat /\ now \in Nat /\ seat[s] \in SeatRow
  BY DEF TypeOK
<1>1. ASSUME NEW r \in Requests, UpdateLocks(r), req[r].user = u, req[r].seat = s
      PROVE  LockedBy(seat'[s], u) /\ held'[u][s] =< seat'[s].lock_expires_at
  <2>1. req[r].t0 + TTL \in Nat
    BY <1>1, Active, SeatLockAssumption DEF UpdateLocks
  <2>2. seat'[s] = LockRow(seat[s], u, req[r].t0 + TTL)
    BY <1>1 DEF UpdateLocks, TypeOK
  <2>3. held'[u][s] = req[r].t0 + TTL \/ held'[u][s] = 0
    BY <1>1 DEF UpdateLocks, Tell, TypeOK
  <2>4. QED
    BY <1>0, <2>1, <2>2, <2>3, RowValues DEF LockedBy
<1>2. ASSUME ~\E r \in Requests : UpdateLocks(r) /\ req[r].user = u
                                   /\ req[r].seat = s
      PROVE  held'[u][s] = held[u][s] /\ Believes(u, s)
  <2>1. ASSUME NEW r \in Requests, UpdateLocks(r)
        PROVE  held'[u][s] = held[u][s] /\ now' = now
    <3>1. req[r].user # u \/ req[r].seat # s
      BY <1>2, <2>1
    <3>2. CASE UNCHANGED held
      BY <2>1, <3>2 DEF UpdateLocks
    <3>3. CASE Tell(req[r].user, req[r].seat, req[r].t0 + TTL)
      BY <2>1, <3>1, <3>3 DEF UpdateLocks, Tell, TypeOK
    <3>4. QED
      BY <2>1, <3>2, <3>3 DEF UpdateLocks
  <2>2. ASSUME NEW r \in Requests, ReleaseUpdate(r)
        PROVE  held'[u][s] = held[u][s] /\ now' = now
    BY <1>0, <2>2 DEF ReleaseUpdate, Tell, TypeOK
  <2>3. ASSUME NEW v \in Users, NEW x \in Seats, BookSeat(v, x)
        PROVE  held'[u][s] = held[u][s] /\ now' = now
    BY <1>0, <2>3 DEF BookSeat, Tell, TypeOK
  <2>4. CASE Tick
    <3>1. now' = now + 1 /\ held'[u][s] = held[u][s]
      BY <1>0, <2>4 DEF Tick, TypeOK
    <3>2. QED
      BY <1>0, <3>1 DEF Believes
  <2>5. ASSUME NEW r \in Requests, AddSeatExpiryJob(r)
        PROVE  FALSE
    BY <2>5 DEF AddSeatExpiryJob, NoJobs
  <2>6. \/ UNCHANGED <<held, now>>
        \/ \E r \in Requests : UpdateLocks(r) \/ AddSeatExpiryJob(r)
                               \/ ReleaseUpdate(r)
        \/ \E x \in Seats, v \in Users : BookSeat(v, x)
        \/ Tick
    BY DEF Next, vars, Acquire, Release, Clean, SeatExpiryWorker, Environment,
           StartAcquire, SetNX, GetOwner, Refuse, PassSelect, RedisFails,
           UpdateMisses, AddJobFails, StartRelease, ReleaseGet, ReleaseDel,
           CleanStart, CleanRows, CleanKeys, CleanProbe, CleanDel,
           RunSeatExpiryJob, CancelSeat, EvictKey, EvictJob, RedisFlips
  <2>7. QED
    BY <2>1, <2>2, <2>3, <2>4, <2>5, <2>6 DEF Believes
<1>3. ASSUME ~\E r \in Requests : UpdateLocks(r) /\ req[r].user = u
                                   /\ req[r].seat = s
      PROVE  seat'[s] = seat[s]
  <2> SUFFICES ASSUME seat'[s] # seat[s] PROVE FALSE
    OBVIOUS
  <2>1. LockedBy(seat[s], u) /\ Believes(u, s) /\ held'[u][s] = held[u][s]
    BY <1>2, <1>3 DEF HeldIsLocked
  <2>2. \A t \in Nat : t =< now => ~Lockable(seat[s], t)
                                  /\ ~ExpiredAt(seat[s], t)
    BY <2>1, BelievedNotLockable
  <2>3. ASSUME NEW r \in Requests, UpdateLocks(r), Lockable(seat[s], req[r].t0)
        PROVE  FALSE
    BY <2>2, <2>3, Active DEF UpdateLocks, TypeOK
  <2>4. ASSUME NEW r \in Requests, ReleaseUpdate(r), req[r].seat = s,
               LockedBy(seat[s], req[r].user)
        PROVE  FALSE
    <3>1. req[r].user = u
      BY <2>1, <2>4 DEF LockedBy
    <3>2. held'[u][s] = 0
      BY <1>0, <2>4, <3>1 DEF ReleaseUpdate, Tell, TypeOK
    <3>3. QED
      BY <1>0, <2>1, <3>2 DEF Believes
  <2>5. ~ExpiredAt(seat[s], cleaner.t)
    BY <2>2 DEF TypeOK
  <2>6. ASSUME NEW v \in Users, BookSeat(v, s)
        PROVE  FALSE
    <3>1. v = u
      BY <2>1, <2>6 DEF BookSeat, LockedBy
    <3>2. held'[u][s] = 0
      BY <1>0, <2>6, <3>1 DEF BookSeat, Tell, TypeOK
    <3>3. QED
      BY <1>0, <2>1, <3>2 DEF Believes
  <2>7. jobs = {} /\ seat[s].status # "BOOKED"
    BY <2>1 DEF NoJobs, LockedBy
  <2>8. QED
    BY <2>3, <2>4, <2>5, <2>6, <2>7, SeatStep
<1>4. QED
  BY <1>1, <1>2, <1>3 DEF HeldIsLocked

\* With the queue off, a user who was told to hold a seat does, until then.
THEOREM HeldWithoutJobs ==
  ASSUME BullMQ = FALSE
  PROVE  Spec => []HeldIsLocked
<1>1. Init => HeldInv
  <2> SUFFICES ASSUME Init PROVE HeldInv
    OBVIOUS
  <2>1. NoJobs
    BY DEF Init, NoJobs, IdleRequest
  <2>2. HeldIsLocked
    BY DEF Init, HeldIsLocked, Believes
  <2>3. QED
    BY <2>1, <2>2, InitTypeOK DEF HeldInv
<1>2. NoJobs /\ HeldIsLocked /\ TypeOK /\ [Next]_vars => (NoJobs /\ HeldIsLocked)'
  BY NoJobsStep, HeldIsLockedStep
<1>3. QED
  BY <1>1, <1>2, TypeCorrect, PTL DEF Spec, HeldInv

\* So no two users are told to hold one seat at the same time.
THEOREM OneHolderWithoutJobs ==
  ASSUME BullMQ = FALSE
  PROVE  Spec => []NoTwoHolders
<1>1. HeldIsLocked => NoTwoHolders
  BY DEF HeldIsLocked, NoTwoHolders, LockedBy
<1>2. QED
  BY <1>1, HeldWithoutJobs, PTL

(***************************************************************************)
(* The service implements the lease.                                       *)
(***************************************************************************)

\* What each statement on a row is in terms of leases.
LEMMA LeaseOfRows ==
  ASSUME NEW row \in SeatRow, NEW u \in Users, NEW e \in Nat
  PROVE  /\ LeaseOf(LockRow(row, u, e)) = L!HeldBy(u, e)
         /\ LeaseOf(UnlockRow(row)) = L!Free
         /\ LeaseOf(BookRow(row)) = L!Sold
         /\ LeaseOf(FreeRow(row)) = L!Free
         /\ row.status = "AVAILABLE" => LeaseOf(row) = L!Free
         /\ row.status = "BOOKED" => LeaseOf(row) = L!Sold
         /\ row.status = "LOCKED" =>
              LeaseOf(row) = L!HeldBy(row.locked_by, row.lock_expires_at)
BY RowValues DEF LeaseOf, L!HeldBy, L!Free, L!Sold, SeatRow, SeatStatus

\* A step that changes no seat is a stutter, or a tick of the lease's clock.
LEMMA LeaseQuiet ==
  ASSUME TypeOK, [Next]_vars, UNCHANGED seat
  PROVE  [L!Next]_(L!leaseVars)
<1>1. leaseOf' = leaseOf
  BY DEF leaseOf
<1>2. now' = now \/ now' = now + 1
  BY NowChanges DEF Tick
<1>3. QED
  BY <1>1, <1>2 DEF L!Next, L!Advance, L!leaseVars

\* A step that changes the row of one seat changes its lease alone.
LEMMA LeaseOfOne ==
  ASSUME TypeOK, NEW s \in Seats, NEW row,
         seat' = [seat EXCEPT ![s] = row]
  PROVE  /\ leaseOf' = [leaseOf EXCEPT ![s] = LeaseOf(row)]
         /\ leaseOf[s] = LeaseOf(seat[s])
BY DEF TypeOK, leaseOf

LEMMA LeaseStep ==
  ASSUME TypeOK, [Next]_vars
  PROVE  [L!Next]_(L!leaseVars)
<1>1. CASE UNCHANGED seat
  BY <1>1, LeaseQuiet
<1>2. ASSUME NEW r \in Requests, UpdateLocks(r)
      PROVE  L!Next
  <2> DEFINE s == req[r].seat  u == req[r].user  e == req[r].t0 + TTL
  <2>1. /\ s \in Seats /\ u \in Users /\ e \in Nat /\ e =< now + TTL
        /\ req[r].t0 \in Nat /\ req[r].t0 =< now
        /\ seat[s] \in SeatRow /\ seat[s].lock_expires_at \in Nat
        /\ now \in Nat /\ now + TTL \in Nat
    BY <1>2, Active, SeatLockAssumption DEF UpdateLocks, TypeOK, SeatRow
  <2>2. /\ seat' = [seat EXCEPT ![s] = LockRow(seat[s], u, e)]
        /\ Lockable(seat[s], req[r].t0)
        /\ now' = now
    BY <1>2 DEF UpdateLocks
  <2> HIDE DEF s, u, e
  <2>3. leaseOf' = [leaseOf EXCEPT ![s] = L!HeldBy(u, e)]
        /\ leaseOf[s] = LeaseOf(seat[s])
    <3>1. LeaseOf(LockRow(seat[s], u, e)) = L!HeldBy(u, e)
      BY <2>1, LeaseOfRows
    <3> DEFINE row == LockRow(seat[s], u, e)
    <3> HIDE DEF row
    <3>2. seat' = [seat EXCEPT ![s] = row]
      BY <2>2 DEF row
    <3>3. leaseOf' = [leaseOf EXCEPT ![s] = LeaseOf(row)]
          /\ leaseOf[s] = LeaseOf(seat[s])
      BY <2>1, <3>2, LeaseOfOne
    <3>4. QED
      BY <3>1, <3>3 DEF row
  <2>4. L!Takeable(s)
    <3>1. CASE seat[s].status = "AVAILABLE"
      BY <2>1, <2>3, <3>1, LeaseOfRows DEF L!Takeable
    <3>2. CASE ExpiredAt(seat[s], req[r].t0)
      <4>1. leaseOf[s] = L!HeldBy(seat[s].locked_by, seat[s].lock_expires_at)
            /\ seat[s].lock_expires_at < now
        BY <2>1, <2>3, <3>2, LeaseOfRows DEF ExpiredAt
      <4>2. QED
        BY <4>1 DEF L!Takeable, L!HeldBy
    <3>3. QED
      BY <2>2, <3>1, <3>2 DEF Lockable
  <2>5. e \in 0 .. now + TTL
    BY <2>1
  <2>6. L!Grant(s, u, e)
    BY <2>1, <2>2, <2>3, <2>4 DEF L!Grant
  <2>7. QED
    BY <2>1, <2>5, <2>6 DEF L!Next
<1>3. ASSUME NEW s \in Seats, seat[s].status = "LOCKED",
             seat' = [seat EXCEPT ![s] = UnlockRow(seat[s])], now' = now
      PROVE  L!Next
  <2>1. seat[s] \in SeatRow
    BY DEF TypeOK
  <2>2. /\ leaseOf' = [leaseOf EXCEPT ![s] = L!Free]
        /\ leaseOf[s].state = "held"
    <3>1. leaseOf[s] = L!HeldBy(seat[s].locked_by, seat[s].lock_expires_at)
          /\ leaseOf' = [leaseOf EXCEPT ![s] = LeaseOf(UnlockRow(seat[s]))]
      BY <1>3, <2>1, LeaseOfOne DEF LeaseOf, L!HeldBy
    <3>2. LeaseOf(UnlockRow(seat[s])) = L!Free
      BY <2>1 DEF LeaseOf, L!Free, UnlockRow, SeatRow
    <3>3. QED
      BY <3>1, <3>2 DEF L!HeldBy
  <2>3. L!GiveBack(s)
    BY <1>3, <2>2 DEF L!GiveBack
  <2>4. QED
    BY <2>3 DEF L!Next
<1>4. ASSUME NEW r \in Requests, ReleaseUpdate(r)
      PROVE  [L!Next]_(L!leaseVars)
  <2>1. req[r].seat \in Seats /\ now' = now
    BY <1>4, Active DEF ReleaseUpdate
  <2>2. CASE LockedBy(seat[req[r].seat], req[r].user)
    BY <1>3, <1>4, <2>1, <2>2 DEF ReleaseUpdate, LockedBy
  <2>3. CASE ~LockedBy(seat[req[r].seat], req[r].user)
    BY <1>1, <1>4, <2>3 DEF ReleaseUpdate
  <2>4. QED
    BY <2>2, <2>3
<1>5. CASE CleanRows
  <2> DEFINE S == {s \in Seats : ExpiredAt(seat[s], cleaner.t)}
  <2>1. \A s \in Seats : /\ seat[s] \in SeatRow
                        /\ seat[s].lock_expires_at \in Nat
    BY DEF TypeOK, SeatRow
  <2>2. cleaner.t \in Nat /\ now \in Nat /\ cleaner.t =< now
    BY DEF TypeOK
  <2>3. ASSUME NEW s \in S
        PROVE  leaseOf[s].state = "held" /\ L!Takeable(s)
    <3>1. leaseOf[s] = L!HeldBy(seat[s].locked_by, seat[s].lock_expires_at)
          /\ seat[s].lock_expires_at < now
      BY <2>1, <2>2, <2>3 DEF ExpiredAt, leaseOf, LeaseOf, L!HeldBy
    <3>2. QED
      BY <3>1 DEF L!Takeable, L!HeldBy
  <2>4. leaseOf' = [s \in Seats |-> IF s \in S THEN L!Free ELSE leaseOf[s]]
    <3>1. \A s \in Seats : LeaseOf(UnlockRow(seat[s])) = L!Free
      BY <2>1 DEF LeaseOf, L!Free, UnlockRow, SeatRow
    <3>2. \A s \in Seats : seat'[s] = IF s \in S THEN UnlockRow(seat[s])
                                     ELSE seat[s]
      BY <1>5 DEF CleanRows
    <3>3. leaseOf' = [s \in Seats |-> LeaseOf(seat'[s])]
      BY DEF leaseOf
    <3>4. \A s \in Seats : leaseOf[s] = LeaseOf(seat[s])
      BY DEF leaseOf
    <3> HIDE DEF S
    <3>5. \A s \in Seats : LeaseOf(seat'[s]) = IF s \in S THEN L!Free
                                              ELSE leaseOf[s]
      BY <3>1, <3>2, <3>4
    <3>6. QED
      BY <3>3, <3>5
  <2>5. S \in SUBSET {s \in Seats : leaseOf[s].state = "held" /\ L!Takeable(s)}
    BY <2>3
  <2>6. now' = now
    BY <1>5 DEF CleanRows
  <2> HIDE DEF S
  <2>7. QED
    BY <2>4, <2>5, <2>6 DEF L!Next, L!Reclaim
<1>6. ASSUME NEW j \in jobs, NEW b \in BOOLEAN, RunSeatExpiryJob(j, b)
      PROVE  [L!Next]_(L!leaseVars)
  <2>1. j.seat \in Seats /\ now' = now
    BY <1>6 DEF TypeOK, Job, RunSeatExpiryJob
  <2>2. CASE LockedBy(seat[j.seat], j.user)
    BY <1>3, <1>6, <2>1, <2>2 DEF RunSeatExpiryJob, LockedBy
  <2>3. CASE ~LockedBy(seat[j.seat], j.user)
    BY <1>1, <1>6, <2>3 DEF RunSeatExpiryJob
  <2>4. QED
    BY <2>2, <2>3
<1>7. ASSUME NEW s \in Seats, NEW u \in Users, BookSeat(u, s)
      PROVE  L!Next
  <2>1. seat[s] \in SeatRow
    BY DEF TypeOK
  <2>2. /\ seat' = [seat EXCEPT ![s] = BookRow(seat[s])] /\ now' = now
        /\ seat[s].status = "LOCKED" /\ seat[s].lock_expires_at > now
    BY <1>7 DEF BookSeat, LockedBy
  <2>3. LeaseOf(BookRow(seat[s])) = L!Sold
    BY <2>1 DEF LeaseOf, L!Sold, BookRow, SeatRow
  <2>4. leaseOf' = [leaseOf EXCEPT ![s] = L!Sold]
        /\ leaseOf[s] = L!HeldBy(seat[s].locked_by, seat[s].lock_expires_at)
    BY <2>2, <2>3, LeaseOfOne DEF LeaseOf, L!HeldBy
  <2>5. L!Sell(s)
    BY <2>2, <2>4 DEF L!Sell, L!HeldBy
  <2>6. QED
    BY <2>5 DEF L!Next
<1>8. ASSUME NEW s \in Seats, CancelSeat(s)
      PROVE  L!Next
  <2>1. seat[s] \in SeatRow
    BY DEF TypeOK
  <2>2. /\ seat' = [seat EXCEPT ![s] = FreeRow(seat[s])] /\ now' = now
        /\ seat[s].status = "BOOKED"
    BY <1>8 DEF CancelSeat
  <2>3. LeaseOf(FreeRow(seat[s])) = L!Free
    BY <2>1 DEF LeaseOf, L!Free, FreeRow, UnlockRow, SeatRow
  <2>4. leaseOf' = [leaseOf EXCEPT ![s] = L!Free] /\ leaseOf[s] = L!Sold
    BY <2>2, <2>3, LeaseOfOne DEF LeaseOf, L!Sold
  <2>5. L!TakeBack(s)
    BY <2>2, <2>4 DEF L!TakeBack
  <2>6. QED
    BY <2>5 DEF L!Next
<1>9. QED
  BY <1>1, <1>2, <1>4, <1>5, <1>6, <1>7, <1>8, SeatChanges

\* Whatever Redis, the job queue and the cleaner do, the rows of table seats
\* behave as leases: granted when free or run out, sold while they run.
THEOREM LeaseRefinement == Spec => ImplementsLease
<1>1. Init => L!Init
  <2> SUFFICES ASSUME Init PROVE L!Init
    OBVIOUS
  <2>1. \A s \in Seats : seat[s] = BookRow(FreshRow) \/ seat[s] = FreshRow
    BY DEF Init
  <2>2. LeaseOf(FreshRow) = L!Free /\ LeaseOf(BookRow(FreshRow)) = L!Sold
    BY DEF LeaseOf, FreshRow, BookRow, L!Free, L!Sold
  <2>3. QED
    BY <2>1, <2>2 DEF Init, L!Init, leaseOf
<1>2. TypeOK /\ [Next]_vars => [L!Next]_(L!leaseVars)
  BY LeaseStep
<1>3. QED
  BY <1>1, <1>2, TypeCorrect, PTL DEF Spec, ImplementsLease, L!Spec
=============================================================================
