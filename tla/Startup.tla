-------------------------------- MODULE Startup --------------------------------
(***************************************************************************)
(* What every worker process does before it is of use (index.ts 220-360):  *)
(* the schema's migrations (migrations/index.ts), then the first rows      *)
(* (config/db.ts 137-393).  The workers start together, and one that dies  *)
(* is forked again.  An error in a migration ends the worker's migrations, *)
(* an error in a section of the rows ends that section; both are logged    *)
(* and the worker goes on to serve.                                        *)
(*                                                                         *)
(* A section of rows has two: the first, and what comes after it.          *)
(***************************************************************************)
EXTENDS Naturals, Sequences, Schema

CONSTANTS Workers,
          Sections,     \* the sections of rows, in their order
          Mortals,      \* the workers that may die
          MaxCrashes    \* bound of their deaths

StartupAssumption ==
  /\ Sections \in Seq(STRING) /\ Len(Sections) > 0
  /\ \A m, n \in 1..Len(Sections) : Sections[m] = Sections[n] => m = n
  /\ Mortals \subseteq Workers /\ MaxCrashes \in Nat

VARIABLES built,      \* what is in the database
          applied,    \* rows of schema_migrations
          rows,       \* rows[s][k]: how many copies of row k of section s
          worker,     \* where a worker is
          crashes,
          disturbed   \* sections with a crash, an overlap or an error

vars == <<built, applied, rows, worker, crashes, disturbed>>
-----------------------------------------------------------------------------
Ids == 1..Len(Migrations)
Made == [i \in Ids |-> {Migrations[i][k][1] : k \in 1..Len(Migrations[i])}]

\* 013 returns at once if its parent table is there.
Guarded(i) == "bookings_partitioned" \in Made[i]
-----------------------------------------------------------------------------
(* The rows *)

\* Rows that a UNIQUE constraint, a foreign key or a SELECT asks for.
Unique(s) == s \in {"users", "trains", "stations", "train_routes", "coupons", "train_coaches"}
Needs(s, k) ==
  CASE s = "wallets" -> {<<"users", 2>>}
    [] s = "bookings" -> {<<"users", 2>>, <<"trains", 1>>}
    [] s \in {"train_routes", "live_train_status"} -> {<<"trains", k>>} \cup {<<"stations", j>> : j \in 1..2}
    [] s = "train_coaches" -> {<<"trains", k>>}
    [] OTHER -> {}

SectionSet == {Sections[n] : n \in 1..Len(Sections)}

\* Mutant of IsEmpty: the rows are inserted without a look.
IsEmptyUnasked(s) == TRUE

\* SELECT COUNT(*) = 0
IsEmpty(s) == \A k \in 1..2 : rows[s][k] = 0
-----------------------------------------------------------------------------
Fresh == [pc |-> "select", i |-> 1, k |-> 1]
Seeding(n) == [pc |-> "count", i |-> n, k |-> 1]
Serving == [pc |-> "serve", i |-> 1, k |-> 1]

Init ==
  /\ built = {} /\ applied = {}
  /\ rows = [s \in SectionSet |-> [k \in 1..2 |-> 0]]
  /\ worker = [w \in Workers |-> Fresh]
  /\ crashes = 0
  /\ disturbed = {}

Goto(w, r) == worker' = [worker EXCEPT ![w] = r]
At(w, l) == worker[w].pc = l
NextSection(w, n) == Goto(w, IF n < Len(Sections) THEN Seeding(n + 1) ELSE Serving)

\* Mutant of Finished: the last statement is not waited for.
FinishedEarly(i, k) == k + 1 >= Len(Migrations[i])

\* up() has returned after k statements
Finished(i, k) == k >= Len(Migrations[i])

\* The first migration from i on that is not applied.
NextUp(i) == CHOOSE j \in i..Len(Migrations) + 1 : j \notin applied /\ i..(j - 1) \subseteq applied

\* SELECT id FROM schema_migrations, once for each; what is applied stays so,
\* and the ones that are skipped are one step.
Select(w) ==
  LET i == NextUp(worker[w].i) IN
  /\ At(w, "select")
  /\ Goto(w, IF i \notin Ids THEN Seeding(1)
             ELSE [pc |-> IF Guarded(i) /\ "bookings_partitioned" \in built THEN "record" ELSE "up",
                   i |-> i, k |-> 1])
  /\ UNCHANGED <<built, applied, rows, crashes, disturbed>>

\* One statement of up(); a table it refers to may not be there.
Up(w) ==
  LET i == worker[w].i  k == worker[w].k  stmt == Migrations[i][k] IN
  /\ At(w, "up")
  /\ IF stmt[2] \subseteq built
     THEN /\ built' = built \cup {stmt[1]}
          /\ Goto(w, IF Finished(i, k) THEN [worker[w] EXCEPT !.pc = "record"]
                     ELSE [worker[w] EXCEPT !.k = k + 1])
     ELSE Goto(w, Seeding(1)) /\ UNCHANGED built
  /\ UNCHANGED <<applied, rows, crashes, disturbed>>

\* IF NOT EXISTS does not protect two that create at once: v fails.
UpCollides(w, v) ==
  LET i == worker[w].i  k == worker[w].k  stmt == Migrations[i][k] IN
  /\ w # v /\ At(w, "up") /\ worker[v] = worker[w]
  /\ stmt[1] \notin built /\ stmt[2] \subseteq built
  /\ built' = built \cup {stmt[1]}
  /\ worker' = [worker EXCEPT ![v] = Seeding(1),
                  ![w] = IF Finished(i, k) THEN [@ EXCEPT !.pc = "record"]
                         ELSE [@ EXCEPT !.k = k + 1]]
  /\ UNCHANGED <<applied, rows, crashes, disturbed>>

\* INSERT INTO schema_migrations: the primary key fails the second.
Record(w) ==
  LET i == worker[w].i IN
  /\ At(w, "record")
  /\ applied' = applied \cup {i}
  /\ Goto(w, IF i \in applied THEN Seeding(1)
             ELSE [worker[w] EXCEPT !.pc = "select", !.i = i + 1])
  /\ UNCHANGED <<built, rows, crashes, disturbed>>

\* SELECT COUNT(*) of a section's table, which may not be there.
Count(w) ==
  LET n == worker[w].i  s == Sections[n] IN
  /\ At(w, "count")
  /\ IF s \in built /\ IsEmpty(s)
     THEN Goto(w, [worker[w] EXCEPT !.pc = "insert", !.k = 1])
     ELSE NextSection(w, n)
  /\ disturbed' = IF \E v \in Workers \ {w} : At(v, "insert") /\ worker[v].i = n
                  THEN disturbed \cup {s} ELSE disturbed
  /\ UNCHANGED <<built, applied, rows, crashes>>

\* INSERT of the rows; "stations" has ON CONFLICT DO NOTHING.
Insert(w) ==
  LET n == worker[w].i  k == worker[w].k  s == Sections[n]
      there == Unique(s) /\ rows[s][k] > 0
      fails == \/ \E r \in Needs(s, k) : r[1] \in SectionSet /\ rows[r[1]][r[2]] = 0
               \/ there /\ s # "stations" IN
  /\ At(w, "insert")
  /\ rows' = IF fails \/ there THEN rows ELSE [rows EXCEPT ![s][k] = @ + 1]
  /\ IF fails \/ k = 2 THEN NextSection(w, n) ELSE Goto(w, [worker[w] EXCEPT !.k = 2])
  /\ disturbed' = IF fails THEN disturbed \cup {s} ELSE disturbed
  /\ UNCHANGED <<built, applied, crashes>>

\* The worker dies and cluster.on('exit') forks another.
Crash(w) ==
  /\ w \in Mortals /\ crashes < MaxCrashes
  /\ crashes' = crashes + 1
  /\ Goto(w, Fresh)
  /\ disturbed' = IF At(w, "insert") THEN disturbed \cup {Sections[worker[w].i]}
                  ELSE disturbed
  /\ UNCHANGED <<built, applied, rows>>

Step(w) == Select(w) \/ Up(w) \/ Record(w) \/ Count(w) \/ Insert(w)

Next == \/ \E w \in Workers : Step(w) \/ Crash(w)
        \/ \E w, v \in Workers : UpCollides(w, v)

Spec == Init /\ [][Next]_vars /\ \A w \in Workers : WF_vars(Step(w))
-----------------------------------------------------------------------------
TypeOK ==
  /\ built \subseteq UNION {Made[i] : i \in Ids}
  /\ applied \subseteq Ids
  /\ rows \in [SectionSet -> [1..2 -> Nat]]
  /\ worker \in [Workers -> [pc : {"select", "up", "record", "count", "insert", "serve"},
                             i : Nat, k : Nat]]
  /\ \A w \in Workers : /\ worker[w].pc \in {"up", "record"} => worker[w].i \in Ids
                        /\ worker[w].pc \in {"count", "insert"} =>
                             worker[w].i \in DOMAIN Sections /\ worker[w].k \in 1..2
  /\ crashes \in 0..MaxCrashes
  /\ disturbed \subseteq SectionSet

\* What schema_migrations calls applied is there: a worker that dies within a
\* migration, or loses a race, leaves it to be done again.  Except 013: its
\* guard (migrations/index.ts 322-329) takes the parent table for the whole.
AppliedMeansBuilt == \A i \in applied : Guarded(i) \/ Made[i] \subseteq built

\* However the workers collide and die, in the end every migration is applied:
\* of two that collide one goes on, and who is forked again starts over.
SchemaCompletes == <>[](applied = Ids)

\* The first rows of a table are there once, all or none, whatever restarts:
\* only a worker that dies within the section, two workers in it, or an INSERT
\* that fails leave some of them, or two copies.
SeedsWhole ==
  \A s \in SectionSet \ disturbed :
    \/ \E w \in Workers : At(w, "insert") /\ Sections[worker[w].i] = s
    \/ \E n \in 0..1 : rows[s] = [k \in 1..2 |-> n]
=============================================================================
