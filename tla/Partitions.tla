------------------------------- MODULE Partitions -------------------------------
(***************************************************************************)
(* The partitions of bookings_partitioned and audit_logs_partitioned: what *)
(* the migrations 013 and 014 make of them, and the daily cycle of         *)
(* services/partition-maintainer.service.ts in every worker process, which *)
(* makes those of the next months and years and detaches old ones.         *)
(*                                                                         *)
(* Time is the month, counted from January of the year of the migration.   *)
(* A cycle reads the month for its partitions, and reads it again for what *)
(* is old.                                                                 *)
(***************************************************************************)
EXTENDS Integers

CONSTANTS Workers,
          Starts,      \* the months the migration may run in
          MaxMonth     \* bound of the clock

PartitionsAssumption ==
  Starts \subseteq 0..11 /\ MaxMonth \in Nat /\ MaxMonth >= 36

VARIABLES now,
          parts,       \* partitions of bookings: first month, and the one after
          detached,    \* those that were taken off
          audits,      \* years of audit_logs
          ensured,     \* the latest month a cycle has made partitions for
          cycle        \* where the cycle of a worker is

vars == <<now, parts, detached, audits, ensured, cycle>>

BOOKINGS_PREMAKE_MONTHS == 3
AUDIT_PREMAKE_YEARS == 2
BOOKINGS_RETENTION_MONTHS == 36

\* Mutant of CatchAll: a year too many.
CatchAllFour == [from |-> 0, to |-> 48]

\* 013: one partition for the year of the migration and the next two.
CatchAll == [from |-> 0, to |-> 36]

Month(m) == [from |-> m, to |-> m + 1]
Overlap(p, q) == p.from < q.to /\ q.from < p.to
Idle == [pc |-> "idle", month |-> 0, i |-> 0, old |-> {}]
At(w, l) == cycle[w].pc = l
-----------------------------------------------------------------------------
Init ==
  /\ now \in Starts
  /\ parts = {CatchAll}
  /\ detached = {}
  /\ audits = 0..AUDIT_PREMAKE_YEARS
  /\ ensured = now
  /\ cycle = [w \in Workers |-> Idle]

\* Every 24 hours, and when the worker starts.
runMaintenanceCycle(w) ==
  /\ At(w, "idle")
  /\ cycle' = [cycle EXCEPT ![w] = [Idle EXCEPT !.pc = "bookings", !.month = now]]
  /\ UNCHANGED <<now, parts, detached, audits, ensured>>

\* CREATE TABLE IF NOT EXISTS ... PARTITION OF: nothing if the name is taken,
\* a warning if a partition has some of the month already.
ensureBookingsPartitions(w) ==
  LET p == Month(cycle[w].month + cycle[w].i)  last == cycle[w].i = BOOKINGS_PREMAKE_MONTHS IN
  /\ At(w, "bookings")
  /\ parts' = IF p \in detached \/ \E q \in parts : Overlap(p, q) THEN parts
              ELSE parts \cup {p}
  /\ cycle' = IF last THEN [cycle EXCEPT ![w].pc = "audit"] ELSE [cycle EXCEPT ![w].i = @ + 1]
  /\ ensured' = IF last /\ cycle[w].month > ensured THEN cycle[w].month ELSE ensured
  /\ UNCHANGED <<now, detached, audits>>

ensureAuditLogPartitions(w) ==
  LET year == cycle[w].month \div 12 IN
  /\ At(w, "audit")
  /\ audits' = audits \cup year..year + AUDIT_PREMAKE_YEARS
  /\ cycle' = [cycle EXCEPT ![w].pc = "list"]
  /\ UNCHANGED <<now, parts, detached, ensured>>

\* The partitions that begin before the same day of the month, 36 months ago.
listOldPartitions(w) ==
  /\ At(w, "list")
  /\ cycle' = [cycle EXCEPT ![w].pc = "detach",
                 ![w].old = {p \in parts : p.from <= now - BOOKINGS_RETENTION_MONTHS}]
  /\ UNCHANGED <<now, parts, detached, audits, ensured>>

\* DETACH PARTITION, one by one; it fails if another worker was first.
archiveOldBookingsPartitions(w) ==
  /\ At(w, "detach")
  /\ \/ \E p \in cycle[w].old :
          /\ parts' = parts \ {p}
          /\ detached' = detached \cup {p}
          /\ cycle' = [cycle EXCEPT ![w].old = @ \ {p}]
     \/ /\ cycle[w].old = {}
        /\ cycle' = [cycle EXCEPT ![w] = Idle]
        /\ UNCHANGED <<parts, detached>>
  /\ UNCHANGED <<now, audits, ensured>>

\* The worker stops within its cycle.
Crash(w) ==
  /\ ~At(w, "idle")
  /\ cycle' = [cycle EXCEPT ![w] = Idle]
  /\ UNCHANGED <<now, parts, detached, audits, ensured>>

\* A month passes; a cycle takes less than one.
Tick ==
  /\ now < MaxMonth
  /\ \A w \in Workers : At(w, "idle") \/ cycle[w].month = now
  /\ now' = now + 1
  /\ UNCHANGED <<parts, detached, audits, ensured, cycle>>

Next ==
  \/ Tick
  \/ \E w \in Workers :
       \/ runMaintenanceCycle(w) \/ ensureBookingsPartitions(w)
       \/ ensureAuditLogPartitions(w) \/ listOldPartitions(w)
       \/ archiveOldBookingsPartitions(w) \/ Crash(w)

Spec == Init /\ [][Next]_vars
-----------------------------------------------------------------------------
TypeOK ==
  /\ now \in 0..MaxMonth /\ ensured \in 0..MaxMonth
  /\ \A p \in parts \cup detached : p.from \in 0..MaxMonth + 3 /\ p.to \in 1..MaxMonth + 12
  /\ audits \subseteq 0..MaxMonth \div 12 + AUDIT_PREMAKE_YEARS
  /\ cycle \in [Workers ->
       [pc : {"idle", "bookings", "audit", "list", "detach"}, month : 0..MaxMonth,
        i : 0..BOOKINGS_PREMAKE_MONTHS, old : SUBSET (parts \cup detached)]]

\* The present month has its partition, up to three months after the last
\* cycle that came through: the migration's partition of three years, which
\* keeps the cycles from making theirs, is followed by theirs without a gap,
\* and is not taken off while it is the one for the present.
MonthCovered ==
  now <= ensured + BOOKINGS_PREMAKE_MONTHS =>
    \E p \in parts : p.from <= now /\ now < p.to
=============================================================================
