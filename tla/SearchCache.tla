------------------------------ MODULE SearchCache ------------------------------
(***************************************************************************)
(* The cache of answers (services/cache.service.ts) under the handlers     *)
(* that read through it: a memory in every worker, and Redis behind it.    *)
(* Seen from one key: a handler asks for it, computes the value if it is   *)
(* not there, and stores it.  The train search asks for two in turn, its   *)
(* own and the list of trains, each under a key of its own.                *)
(*                                                                         *)
(* Time is relative: "age" is how long ago the data of a value was read,   *)
(* "left" what is left of its life, 0 for none.  An expired entry of a     *)
(* memory is as good as none.                                              *)
(***************************************************************************)
EXTENDS Naturals

CONSTANTS Workers, Requests,
          Ttl,        \* the time to live of an entry
          Flight      \* bound of the time a request takes

CacheAssumption == Workers # {} /\ Ttl \in Nat \ {0} /\ Flight \in Nat \ {0}

VARIABLES store,   \* store[w]: the entry in the Map of worker w
          redis,   \* the entry in Redis, and what is left of its EX
          req      \* the requests under way

vars == <<store, redis, req>>

None == [age |-> 0, left |-> 0]
Gone == [entry |-> None, ex |-> 0]
Idle == [pc |-> "idle", worker |-> CHOOSE w \in Workers : TRUE, value |-> None, since |-> 0]
At(q, l) == req[q].pc = l
Goto(q, l) == req' = [req EXCEPT ![q].pc = l]
Has(q, v) == req' = [req EXCEPT ![q].pc = "answer", ![q].value = v]
-----------------------------------------------------------------------------
Init ==
  /\ store = [w \in Workers |-> None]
  /\ redis = Gone
  /\ req = [q \in Requests |-> Idle]

\* A request for the key reaches worker w.
Ask(q, w) ==
  /\ At(q, "idle")
  /\ req' = [req EXCEPT ![q] = [Idle EXCEPT !.pc = "get", !.worker = w]]
  /\ UNCHANGED <<store, redis>>

\* get: the worker's memory, then Redis if isRedisReady().
Get(q) ==
  LET v == store[req[q].worker] IN
  /\ At(q, "get")
  /\ \/ v.left > 0 /\ Has(q, v)
     \/ v.left = 0 /\ \E l \in {"redis", "source"} : Goto(q, l)
  /\ UNCHANGED <<store, redis>>

\* Mutant of Promoted: the copy of an entry gets a life of its own.
PromotedAfresh(v) == [v EXCEPT !.left = Ttl + 1]

\* What the memory takes over of an entry of Redis: all of it, its end too.
Promoted(v) == v

\* The entry in Redis, if it is there, has not ended, and Redis answers.
GetRedis(q) ==
  LET v == redis.entry IN
  /\ At(q, "redis")
  /\ \/ /\ v.left > 0 /\ Has(q, v)
        /\ store' = [store EXCEPT ![req[q].worker] = Promoted(v)]
     \/ /\ v.left = 0 /\ Goto(q, IF redis.ex > 0 THEN "del" ELSE "source")
        /\ UNCHANGED store
     \/ Goto(q, "source") /\ UNCHANGED store
  /\ UNCHANGED redis

\* DEL of an ended entry, whatever is under the key by now; it may fail.
Del(q) ==
  /\ At(q, "del")
  /\ redis' \in {redis, Gone}
  /\ Goto(q, "source")
  /\ UNCHANGED store
-----------------------------------------------------------------------------
(* What the handlers do for a value that is not cached *)

\* The source is read, and the value made from it goes to be stored.
Read(q) ==
  /\ At(q, "source")
  /\ req' = [req EXCEPT ![q].pc = "set", ![q].value = None]
  /\ UNCHANGED <<store, redis>>

\* The source has nothing, or fails: the client is told, nothing is cached.
Nothing(q) ==
  /\ At(q, "source")
  /\ req' = [req EXCEPT ![q] = Idle]
  /\ UNCHANGED <<store, redis>>

\* The seats of the trains of the list.
GetSearch(q) == Read(q) \/ Nothing(q)

\* The list of trains: from the railway's API if there is a key for it, a
\* token of the bucket and an answer; from the database otherwise.
GetTrainsBetweenStations(q) == Read(q) \/ Nothing(q)

\* As the list; a train without live status, a PNR without answer is a 404.
GetLiveStatus(q) == Read(q) \/ Nothing(q)
GetPnrStatus(q) == Read(q) \/ Nothing(q)

\* From the database; an unknown train, or no train there, is a 404.
GetDetails(q) == Read(q) \/ Nothing(q)
GetSchedule(q) == Read(q) \/ Nothing(q)
GetFareEnquiry(q) == Read(q) \/ Nothing(q)

\* From the database; an empty list is an answer, and cached.
GetCalendar(q) == Read(q) \/ Nothing(q)
GetVikalp(q) == Read(q) \/ Nothing(q)
GetAnalytics(q) == Read(q) \/ Nothing(q)

\* Constants, and figures of the worker's own process.
GetMethods(q) == Read(q)
GetServiceHealth(q) == Read(q)

Handler(q) ==
  \/ GetSearch(q) \/ GetTrainsBetweenStations(q) \/ GetLiveStatus(q)
  \/ GetPnrStatus(q) \/ GetDetails(q) \/ GetSchedule(q) \/ GetFareEnquiry(q)
  \/ GetCalendar(q) \/ GetVikalp(q) \/ GetAnalytics(q)
  \/ GetMethods(q) \/ GetServiceHealth(q)

\* set: the memory at once, Redis if it is ready.
Set(q) ==
  LET v == [req[q].value EXCEPT !.left = Ttl + 1] IN
  /\ At(q, "set")
  /\ store' = [store EXCEPT ![req[q].worker] = v]
  /\ \E l \in {"set redis", "answer"} : req' = [req EXCEPT ![q].pc = l, ![q].value = v]
  /\ UNCHANGED redis

\* SET key entry EX ttl, which may fail.
SetRedis(q) ==
  /\ At(q, "set redis")
  /\ redis' \in {redis, [entry |-> req[q].value, ex |-> Ttl + 1]}
  /\ Goto(q, "answer")
  /\ UNCHANGED store

\* res.json, in the same turn as the last step.
Answer(q) ==
  /\ At(q, "answer")
  /\ req' = [req EXCEPT ![q] = Idle]
  /\ UNCHANGED <<store, redis>>
-----------------------------------------------------------------------------
Less(n) == IF n = 0 THEN 0 ELSE n - 1

\* Mutant of Older: an entry that has ended stays.
OlderKept(v) == [age |-> v.age + 1, left |-> Less(v.left)]

\* An entry one unit of time later; one that has ended is forgotten, by the
\* next get or by the worker's timer.
Older(v) == IF v.left <= 1 THEN None ELSE [age |-> v.age + 1, left |-> v.left - 1]

Tick ==
  /\ \A q \in Requests : At(q, "idle") \/ (~At(q, "answer") /\ req[q].since < Flight)
  /\ store' = [w \in Workers |-> Older(store[w])]
  /\ redis' = IF redis.ex <= 1 THEN Gone
              ELSE [entry |-> Older(redis.entry), ex |-> redis.ex - 1]
  /\ req' = [q \in Requests |-> IF At(q, "idle") THEN req[q]
               ELSE [req[q] EXCEPT !.since = @ + 1,
                       !.value = [age |-> @.age + 1, left |-> Less(@.left)]]]

\* The worker dies, is forked again, and starts with an empty Map.
Restart(w) ==
  /\ store' = [store EXCEPT ![w] = None]
  /\ req' = [q \in Requests |-> IF req[q].worker = w THEN Idle ELSE req[q]]
  /\ UNCHANGED redis

Next ==
  \/ Tick
  \/ \E w \in Workers : Restart(w)
  \/ \E q \in Requests :
       \/ \E w \in Workers : Ask(q, w)
       \/ Get(q) \/ GetRedis(q) \/ Del(q) \/ Handler(q)
       \/ Set(q) \/ SetRedis(q) \/ Answer(q)

Spec == Init /\ [][Next]_vars
-----------------------------------------------------------------------------
Values == [age : 0..2 * (Ttl + Flight), left : 0..Ttl + 1]

TypeOK ==
  /\ store \in [Workers -> Values]
  /\ redis \in [entry : Values, ex : 0..Ttl + 1]
  /\ req \in [Requests ->
       [pc : {"idle", "get", "redis", "del", "source", "set", "set redis", "answer"},
        worker : Workers, value : Values, since : 0..Flight]]

\* An answer is no older than its time to live and the time of one request,
\* however the workers, their memories and Redis hand it on: a copy that a
\* memory takes from Redis does not start a life of its own.  Of a search this
\* holds for the seats it counts; the trains, cached twice, are twice as old.
AnswerAge == \A q \in Requests : At(q, "answer") => req[q].value.age <= Ttl + Flight
=============================================================================
