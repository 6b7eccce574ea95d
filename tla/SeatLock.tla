------------------------------- MODULE SeatLock -------------------------------
(***************************************************************************)
(* The seat lock service (services/lock.service.ts): acquireSeatLock,      *)
(* releaseSeatLock and cleanupExpiredLocks, each split at its awaits, with *)
(* the Redis keys it sets beside the database rows, the BullMQ             *)
(* "seat-expiry" jobs (services/queue.service.ts) and a clock.             *)
(*                                                                         *)
(* The checkout appears here as one step that turns a live lock into a     *)
(* booking, and cancellation as one that frees a booked seat.              *)
(*                                                                         *)
(* "held" is a history variable: what the API has told a user, "you hold   *)
(* this seat until t".  Nothing in the code reads it.                      *)
(***************************************************************************)
EXTENDS SeatTable, FiniteSets

CONSTANTS Seats,      \* the seats, (train, coach, number) in the code
          Requests,   \* calls in flight
          NoSeat,
          TTL,        \* 180 s, of the row, of the key and of the job's delay
          MaxTime,    \* bound of the clock
          MaxJobs,    \* bound of the jobs waiting at once
          BullMQ      \* isBullMQCompatible(): is there a job queue at all

ASSUME SeatLockAssumption == /\ NoSeat \notin Seats
                             /\ TTL \in Nat \ {0}
                             /\ MaxTime \in Nat
                             /\ MaxJobs \in Nat
                             /\ BullMQ \in BOOLEAN

VARIABLES
  now,       \* Date.now()
  seat,      \* seat[s]: the row of table seats
  redis,     \* redis[s]: the key seatlock:<s> and the instant it expires
  up,        \* isRedisReady()
  jobs,      \* the delayed "release-seat" jobs
  req,       \* req[r]: where call r is, for whom and on which seat
  cleaner,   \* where cleanupExpiredLocks is
  held       \* held[u][s]: until when u was told to hold s (0: never)

vars == <<now, seat, redis, up, jobs, req, cleaner, held>>

Job == [seat : Seats, user : Users, due : Nat]

NoKey == [owner |-> NoUser, until |-> 0]
RedisKey == [owner : Users \cup {NoUser}, until : Nat]

AcquirePC == {"setnx", "getowner", "select", "update", "addjob"}
ReleasePC == {"relget", "reldel", "relupdate"}
IdleRequest == [pc |-> "idle", user |-> NoUser, seat |-> NoSeat, t0 |-> 0]
ActiveRequest == [pc : AcquirePC \cup ReleasePC, user : Users, seat : Seats,
                  t0 : Nat]

CleanerPC == {"idle", "rows", "keys", "probe", "del"}
IdleCleaner == [pc |-> "idle", t |-> 0, todo |-> {}, cur |-> NoSeat]

KeyLive(s) == redis[s].until > now

Live(s) == seat[s].status = "LOCKED" /\ seat[s].lock_expires_at >= now

\* u was told, and may still believe, that s is locked for u.
Believes(u, s) == held[u][s] > now

Init ==
  /\ now = 1
  /\ \E B \in SUBSET Seats :
        seat = [s \in Seats |-> IF s \in B THEN BookRow(FreshRow) ELSE FreshRow]
  /\ redis = [s \in Seats |-> NoKey]
  /\ up \in BOOLEAN
  /\ jobs = {}
  /\ req = [r \in Requests |-> IdleRequest]
  /\ cleaner = IdleCleaner
  /\ held = [u \in Users |-> [s \in Seats |-> 0]]
-----------------------------------------------------------------------------
(* acquireSeatLock *)

Goto(r, pc) == req' = [req EXCEPT ![r].pc = pc]
Finish(r) == req' = [req EXCEPT ![r] = IdleRequest]

\* expiresAt and now are computed once, before the first await on Redis.
StartAcquire(r, u, s) ==
  /\ req[r].pc = "idle"
  /\ req' = [req EXCEPT ![r] =
                [pc |-> IF up THEN "setnx" ELSE "update",
                 user |-> u, seat |-> s, t0 |-> now]]
  /\ UNCHANGED <<now, seat, redis, up, jobs, cleaner, held>>

\* SET key user EX 180 NX.
SetNX(r) ==
  LET s == req[r].seat IN
  /\ req[r].pc = "setnx"
  /\ up
  /\ \/ /\ ~KeyLive(s)
        /\ redis' = [redis EXCEPT ![s] =
                        [owner |-> req[r].user, until |-> now + TTL]]
        /\ Goto(r, "update")
     \/ /\ KeyLive(s)
        /\ UNCHANGED redis
        /\ Goto(r, "getowner")
  /\ UNCHANGED <<now, seat, up, jobs, cleaner, held>>

\* The key was there: whose is it (now)?
GetOwner(r) ==
  LET s == req[r].seat IN
  /\ req[r].pc = "getowner"
  /\ up
  /\ Goto(r, IF KeyLive(s) /\ redis[s].owner # req[r].user
             THEN "select" ELSE "update")
  /\ UNCHANGED <<now, seat, redis, up, jobs, cleaner, held>>

\* Another user's key: refuse if the row says LOCKED, whatever its expiry.
Refuse(r) ==
  /\ req[r].pc = "select"
  /\ seat[req[r].seat].status = "LOCKED"
  /\ Finish(r)
  /\ UNCHANGED <<now, seat, redis, up, jobs, cleaner, held>>

PassSelect(r) ==
  /\ req[r].pc = "select"
  /\ seat[req[r].seat].status # "LOCKED"
  /\ Goto(r, "update")
  /\ UNCHANGED <<now, seat, redis, up, jobs, cleaner, held>>

\* The catch block: a Redis command fails, and the database decides alone.
RedisFails(r) ==
  /\ req[r].pc \in {"setnx", "getowner"}
  /\ ~up
  /\ Goto(r, "update")
  /\ UNCHANGED <<now, seat, redis, up, jobs, cleaner, held>>

\* What the reply says is worth nothing once e has passed.
Tell(u, s, e) ==
  held' = [held EXCEPT ![u] = [@ EXCEPT ![s] = IF e > now THEN e ELSE 0]]

\* The locking UPDATE finds the row; without a job to add, reply true.
UpdateLocks(r) ==
  LET s == req[r].seat
      u == req[r].user
      e == req[r].t0 + TTL
  IN /\ req[r].pc = "update"
     /\ Lockable(seat[s], req[r].t0)
     /\ seat' = [seat EXCEPT ![s] = LockRow(seat[s], u, e)]
     /\ \/ /\ up /\ BullMQ
           /\ Goto(r, "addjob")
           /\ UNCHANGED held
        \/ /\ ~(up /\ BullMQ)
           /\ Finish(r)
           /\ Tell(u, s, e)
     /\ UNCHANGED <<now, redis, up, jobs, cleaner>>

UpdateMisses(r) ==
  /\ req[r].pc = "update"
  /\ ~Lockable(seat[req[r].seat], req[r].t0)
  /\ Finish(r)
  /\ UNCHANGED <<now, seat, redis, up, jobs, cleaner, held>>

\* addSeatExpiryJob: the delay of 180 s counts from here, not from t0.
AddSeatExpiryJob(r) ==
  LET s == req[r].seat
      u == req[r].user
  IN /\ req[r].pc = "addjob"
     /\ up
     /\ Cardinality(jobs) < MaxJobs
     /\ jobs' = jobs \cup {[seat |-> s, user |-> u, due |-> now + TTL]}
     /\ Tell(u, s, req[r].t0 + TTL)
     /\ Finish(r)
     /\ UNCHANGED <<now, seat, redis, up, cleaner>>

\* q.add throws: the row stays locked, the user gets an error, no job exists.
AddJobFails(r) ==
  /\ req[r].pc = "addjob"
  /\ ~up
  /\ Finish(r)
  /\ UNCHANGED <<now, seat, redis, up, jobs, cleaner, held>>
-----------------------------------------------------------------------------
(* releaseSeatLock, called for a seat that the same user has locked *)

StartRelease(r, u, s) ==
  /\ req[r].pc = "idle"
  /\ Believes(u, s)
  /\ req' = [req EXCEPT ![r] =
                [pc |-> IF up THEN "relget" ELSE "relupdate",
                 user |-> u, seat |-> s, t0 |-> 0]]
  /\ UNCHANGED <<now, seat, redis, up, jobs, cleaner, held>>

ReleaseGet(r) ==
  LET s == req[r].seat IN
  /\ req[r].pc = "relget"
  /\ Goto(r, IF up /\ KeyLive(s) /\ redis[s].owner = req[r].user
             THEN "reldel" ELSE "relupdate")
  /\ UNCHANGED <<now, seat, redis, up, jobs, cleaner, held>>

\* DEL does not look at the owner again.
ReleaseDel(r) ==
  /\ req[r].pc = "reldel"
  /\ redis' = IF up THEN [redis EXCEPT ![req[r].seat] = NoKey] ELSE redis
  /\ Goto(r, "relupdate")
  /\ UNCHANGED <<now, seat, up, jobs, cleaner, held>>

\* From here the user knows that the lock is gone.
ReleaseUpdate(r) ==
  LET s == req[r].seat
      u == req[r].user
  IN /\ req[r].pc = "relupdate"
     /\ seat' = IF LockedBy(seat[s], u)
                THEN [seat EXCEPT ![s] = UnlockRow(seat[s])] ELSE seat
     /\ Tell(u, s, 0)
     /\ Finish(r)
     /\ UNCHANGED <<now, redis, up, jobs, cleaner>>
-----------------------------------------------------------------------------
(* cleanupExpiredLocks, every 10 s and before a seat map is served *)

CleanStart ==
  /\ cleaner.pc = "idle"
  /\ cleaner' = [IdleCleaner EXCEPT !.pc = "rows", !.t = now]
  /\ UNCHANGED <<now, seat, redis, up, jobs, req, held>>

\* Mutant of CleanRows: the comparison with the expiry is missing.
CleanRowsAll ==
  /\ cleaner.pc = "rows"
  /\ seat' = [s \in Seats |-> IF seat[s].status = "LOCKED"
                              THEN UnlockRow(seat[s]) ELSE seat[s]]
  /\ cleaner' = IF up THEN [IdleCleaner EXCEPT !.pc = "keys"] ELSE IdleCleaner
  /\ UNCHANGED <<now, redis, up, jobs, req, held>>

\* Mutant of CleanRows: only locks with a key are cleaned up, so none is
\* while Redis is away.
CleanRowsWithKey ==
  /\ cleaner.pc = "rows"
  /\ seat' = [s \in Seats |-> IF ExpiredAt(seat[s], cleaner.t) /\ up /\ KeyLive(s)
                              THEN UnlockRow(seat[s]) ELSE seat[s]]
  /\ cleaner' = IF up THEN [IdleCleaner EXCEPT !.pc = "keys"] ELSE IdleCleaner
  /\ UNCHANGED <<now, redis, up, jobs, req, held>>

CleanRows ==
  /\ cleaner.pc = "rows"
  /\ seat' = [s \in Seats |-> IF ExpiredAt(seat[s], cleaner.t)
                              THEN UnlockRow(seat[s]) ELSE seat[s]]
  /\ cleaner' = IF up THEN [IdleCleaner EXCEPT !.pc = "keys"] ELSE IdleCleaner
  /\ UNCHANGED <<now, redis, up, jobs, req, held>>

\* The next key of the list, or the end of the loop.
CleanOn(todo) ==
  cleaner' = IF todo = {} THEN IdleCleaner
             ELSE [cleaner EXCEPT !.pc = "probe", !.todo = todo, !.cur = NoSeat]

\* KEYS seatlock:*
CleanKeys ==
  /\ cleaner.pc = "keys"
  /\ CleanOn(IF up THEN {s \in Seats : KeyLive(s)} ELSE {})
  /\ UNCHANGED <<now, seat, redis, up, jobs, req, held>>

CleanProbe(s) ==
  /\ cleaner.pc = "probe"
  /\ s \in cleaner.todo
  /\ IF seat[s].status = "LOCKED"
     THEN CleanOn(cleaner.todo \ {s})
     ELSE cleaner' = [cleaner EXCEPT !.pc = "del", !.cur = s]
  /\ UNCHANGED <<now, seat, redis, up, jobs, req, held>>

\* The row was not LOCKED when probed; it may be by now.  An error of DEL
\* leaves the loop.
CleanDel ==
  /\ cleaner.pc = "del"
  /\ \/ /\ up
        /\ redis' = [redis EXCEPT ![cleaner.cur] = NoKey]
        /\ CleanOn(cleaner.todo \ {cleaner.cur})
     \/ /\ ~up
        /\ UNCHANGED redis
        /\ cleaner' = IdleCleaner
  /\ UNCHANGED <<now, seat, up, jobs, req, held>>
-----------------------------------------------------------------------------
(* The "seat-expiry" worker.  BullMQ delivers a job at least once: a worker *)
(* that dies before it reports the end of a job has the job run again.      *)

RunSeatExpiryJob(j, reported) ==
  /\ up
  /\ j \in jobs
  /\ j.due =< now
  /\ seat' = IF LockedBy(seat[j.seat], j.user)
             THEN [seat EXCEPT ![j.seat] = UnlockRow(seat[j.seat])] ELSE seat
  /\ jobs' = IF reported THEN jobs \ {j} ELSE jobs
  /\ UNCHANGED <<now, redis, up, req, cleaner, held>>

-----------------------------------------------------------------------------
(* The rest of the system *)

\* The checkout books a seat whose lock the user still holds.  The client
\* waits for the reply to its lock call before it checks out.
BookSeat(u, s) ==
  /\ \A r \in Requests : ~(req[r].user = u /\ req[r].seat = s)
  /\ LockedBy(seat[s], u)
  /\ seat[s].lock_expires_at > now
  /\ seat' = [seat EXCEPT ![s] = BookRow(seat[s])]
  /\ Tell(u, s, 0)
  /\ UNCHANGED <<now, redis, up, jobs, req, cleaner>>

\* A cancellation frees a booked seat.
CancelSeat(s) ==
  /\ seat[s].status = "BOOKED"
  /\ seat' = [seat EXCEPT ![s] = FreeRow(seat[s])]
  /\ UNCHANGED <<now, redis, up, jobs, req, cleaner, held>>

\* Redis comes and goes; its contents survive.
RedisFlips == /\ up' = ~up
              /\ UNCHANGED <<now, seat, redis, jobs, req, cleaner, held>>

\* maxmemory-policy allkeys-lru: any key may be evicted, a job's too.
EvictKey(s) ==
  /\ up /\ KeyLive(s)
  /\ redis' = [redis EXCEPT ![s] = NoKey]
  /\ UNCHANGED <<now, seat, up, jobs, req, cleaner, held>>

EvictJob(j) ==
  /\ up /\ j \in jobs
  /\ jobs' = jobs \ {j}
  /\ UNCHANGED <<now, seat, redis, up, req, cleaner, held>>

\* A key whose time has come disappears, and so does what a user was told.
Tick ==
  /\ now < MaxTime
  /\ now' = now + 1
  /\ redis' = [s \in Seats |-> IF redis[s].until > now + 1 THEN redis[s] ELSE NoKey]
  /\ held' = [u \in Users |-> [s \in Seats |->
                IF held[u][s] > now + 1 THEN held[u][s] ELSE 0]]
  /\ UNCHANGED <<seat, up, jobs, req, cleaner>>
-----------------------------------------------------------------------------
Acquire(r) ==
  \/ \E u \in Users, s \in Seats : StartAcquire(r, u, s)
  \/ SetNX(r) \/ GetOwner(r) \/ Refuse(r) \/ PassSelect(r) \/ RedisFails(r)
  \/ UpdateLocks(r) \/ UpdateMisses(r)
  \/ AddSeatExpiryJob(r) \/ AddJobFails(r)

Release(r) ==
  \/ \E u \in Users, s \in Seats : StartRelease(r, u, s)
  \/ ReleaseGet(r) \/ ReleaseDel(r) \/ ReleaseUpdate(r)

Clean == \/ CleanStart \/ CleanRows \/ CleanKeys
         \/ \E s \in Seats : CleanProbe(s)
         \/ CleanDel

SeatExpiryWorker ==
  \E j \in jobs : \E reported \in BOOLEAN : RunSeatExpiryJob(j, reported)

Environment ==
  \/ \E s \in Seats : \/ \E u \in Users : BookSeat(u, s)
                      \/ CancelSeat(s)
                      \/ EvictKey(s)
  \/ \E j \in jobs : EvictJob(j)
  \/ RedisFlips
  \/ Tick

Next == \/ \E r \in Requests : Acquire(r) \/ Release(r)
        \/ Clean
        \/ SeatExpiryWorker
        \/ Environment

Spec == Init /\ [][Next]_vars

\* setInterval starts the cleaner again and again, and its statements return.
FairSpec == Spec /\ WF_vars(Clean)
-----------------------------------------------------------------------------
(* What must hold of it *)

\* Every variable has its type; a row is LOCKED exactly when it has an owner,
\* with an expiry at most TTL ahead, as the CHECK and the UPDATEs of table
\* seats intend; no call or cleaner carries an instant of the future.
TypeOK ==
  /\ now \in Nat /\ now >= 1
  /\ seat \in [Seats -> SeatRow]
  /\ \A s \in Seats :
        /\ seat[s].status = "LOCKED" <=> seat[s].locked_by # NoUser
        /\ seat[s].lock_expires_at =< now + TTL
  /\ redis \in [Seats -> RedisKey]
  /\ up \in BOOLEAN
  /\ jobs \subseteq Job
  /\ req \in [Requests -> ActiveRequest \cup {IdleRequest}]
  /\ \A r \in Requests : req[r].t0 =< now
  /\ cleaner \in [pc : CleanerPC, t : Nat, todo : SUBSET Seats,
                  cur : Seats \cup {NoSeat}]
  /\ cleaner.pc = "del" => cleaner.cur \in Seats
  /\ cleaner.t =< now
  /\ held \in [Users -> [Seats -> Nat]]

\* A lock that still runs is taken from its owner only by the owner's own
\* release or by a due expiry job of the owner: neither a cleaner nor a call
\* working with an instant it read before its awaits, nor a Redis key that was
\* lost, evicted or left behind, ends or moves it (lock.service.ts 42-51,
\* 81-87, 96-101; queue.service.ts 90-95).
LiveLockEndsByOwner ==
  [][\A s \in Seats :
       Live(s) /\ seat'[s] # seat[s] =>
         \/ seat'[s].status = "BOOKED"
         \/ \E r \in Requests : /\ req[r].pc = "relupdate"
                                /\ req[r].user = seat[s].locked_by
                                /\ req[r].seat = s
         \/ \E j \in jobs : /\ j.user = seat[s].locked_by
                            /\ j.seat = s
                            /\ j.due =< now]_vars

\* A user who was told to hold a seat until an instant to come, and has not
\* given it back, is the one the row is locked for, until that instant or later
\* (the reply of POST /lock, booking.routes.ts 140-148).
HeldIsLocked ==
  \A u \in Users, s \in Seats :
     Believes(u, s) => /\ LockedBy(seat[s], u)
                       /\ held[u][s] =< seat[s].lock_expires_at

\* Two users are never told at once to hold the same seat.
NoTwoHolders ==
  \A u, v \in Users : \A s \in Seats :
     Believes(u, s) /\ Believes(v, s) => u = v

\* The lock service implements the lease: requests, Redis, jobs and cleaner
\* are not visible through the rows.
LeaseOf(row) ==
  CASE row.status = "LOCKED" -> [state |-> "held", holder |-> row.locked_by,
                                 until |-> row.lock_expires_at]
    [] row.status = "BOOKED" -> [state |-> "sold"]
    [] OTHER -> [state |-> "free"]

leaseOf == [s \in Seats |-> LeaseOf(seat[s])]

L == INSTANCE Lease WITH clock <- now, lease <- leaseOf

ImplementsLease == L!Spec

\* An expired lock does not stay, with Redis and its jobs lost or not: the
\* cleaner, or another user's call, ends it (index.ts 298-305).
ExpiredLockReclaimed ==
  \A s \in Seats : ExpiredAt(seat[s], now) ~> ~ExpiredAt(seat[s], now)
=============================================================================
