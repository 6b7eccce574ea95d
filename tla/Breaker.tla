------------------------------- MODULE Breaker -------------------------------
(***************************************************************************)
(* The circuit breaker (services/pricing.service.ts 3-46) around its one   *)
(* user, the download of an e-ticket (routes/booking.routes.ts 542-592).   *)
(* A worker is single-threaded, so everything between two awaits is one    *)
(* step; but the generator is awaited, so calls overlap: results of calls  *)
(* let through before the breaker opened come back while it is open, and   *)
(* everybody gets through while it is half open.  Every worker has a map   *)
(* of breakers of its own: this is one worker's breaker 'pdf-generation'.  *)
(***************************************************************************)
EXTENDS Naturals

CONSTANTS Calls,        \* requests for a PDF
          Threshold,    \* THRESHOLD
          Timeout,      \* TIMEOUT_MS
          MaxFailures   \* bound of the counter

BreakerAssumption ==
  /\ Threshold \in Nat \ {0} /\ Timeout \in Nat /\ MaxFailures \in Nat

VARIABLES state, failures,
          age,          \* Date.now() - lastFailure, counted up to Timeout + 1
          call,
          ended         \* history: the last Threshold results, latest first

vars == <<state, failures, age, call, ended>>

States == {"CLOSED", "OPEN", "HALF_OPEN"}
Results == {"ok", "failed"}

Init ==
  /\ state = "CLOSED" /\ failures = 0
  /\ age = Timeout + 1        \* lastFailure is 0
  /\ call = [c \in Calls |-> "idle"]
  /\ ended = [i \in 1..Threshold |-> "ok"]

Answer(c, told) == call' = [call EXCEPT ![c] = told]

\* No booking of that PNR, or its SELECT throws.
NotFound(c) ==
  /\ call[c] = "idle"
  /\ \E told \in {"404", "503"} : Answer(c, told)
  /\ UNCHANGED <<state, failures, age, ended>>

\* OPEN and not for longer than TIMEOUT_MS: the fallback, which throws.
Refuse(c) ==
  /\ call[c] = "idle"
  /\ state = "OPEN" /\ age <= Timeout
  /\ Answer(c, "503")
  /\ UNCHANGED <<state, failures, age, ended>>

\* Mutant of LetThrough: any failure of the past is long enough ago.
LetThroughAlways == state' = IF state = "OPEN" THEN "HALF_OPEN" ELSE state

LetThrough ==
  /\ state = "OPEN" => age > Timeout
  /\ state' = IF state = "OPEN" THEN "HALF_OPEN" ELSE state

Generate(c) ==
  /\ call[c] = "idle"
  /\ LetThrough
  /\ Answer(c, "generating")
  /\ UNCHANGED <<failures, age, ended>>

Note(result) ==
  ended' = [i \in 1..Threshold |-> IF i = 1 THEN result ELSE ended[i - 1]]

Succeed(c) ==
  /\ call[c] = "generating"
  /\ failures' = 0 /\ state' = "CLOSED"
  /\ Answer(c, "200")
  /\ Note("ok")
  /\ UNCHANGED age

\* Whatever the state is by now: a late failure counts, too.
Fail(c) ==
  /\ call[c] = "generating"
  /\ failures < MaxFailures
  /\ failures' = failures + 1
  /\ age' = 0
  /\ state' = IF failures + 1 >= Threshold THEN "OPEN" ELSE state
  /\ Answer(c, "503")
  /\ Note("failed")

\* The user asks again.
Again(c) ==
  /\ call[c] \in {"200", "404", "503"}
  /\ Answer(c, "idle")
  /\ UNCHANGED <<state, failures, age, ended>>

Tick ==
  /\ age <= Timeout
  /\ age' = age + 1
  /\ UNCHANGED <<state, failures, call, ended>>

Next ==
  \/ \E c \in Calls : \/ NotFound(c) \/ Refuse(c) \/ Generate(c)
                      \/ Succeed(c) \/ Fail(c) \/ Again(c)
  \/ Tick

Spec == Init /\ [][Next]_vars
-----------------------------------------------------------------------------
TypeOK ==
  /\ state \in States /\ failures \in 0..MaxFailures
  /\ age \in 0..(Timeout + 1)
  /\ call \in [Calls -> {"idle", "generating", "200", "404", "503"}]
  /\ ended \in [1..Threshold -> Results]

\* The generator is spared: while the last Threshold results were failures,
\* no call gets to it before the latest of them is more than Timeout ago;
\* whatever order the results of overlapping calls come back in.
Broken == \A i \in 1..Threshold : ended[i] = "failed"
Starts == \E c \in Calls : call[c] # "generating" /\ call'[c] = "generating"
GeneratorSpared == [][Starts /\ Broken => age > Timeout]_vars

\* Somebody is on the way to close a half-open breaker or to open it again:
\* it is never left half open, where it protects nobody.
ProbeOut == state = "HALF_OPEN" => \E c \in Calls : call[c] = "generating"
=============================================================================
