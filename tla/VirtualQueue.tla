----------------------------- MODULE VirtualQueue -----------------------------
(***************************************************************************)
(* The virtual booking queue (class QueueService of                        *)
(* services/queue.service.ts, routes/queue.routes.ts), one step per        *)
(* statement that the code awaits: join and status calls                   *)
(* (getOrCreateQueueToken), the check of the booking routes                *)
(* (verifyBookingAccess), bans, and the server's start, which empties the  *)
(* table.                                                                  *)
(*                                                                         *)
(* Any number of calls may be in flight for one user and for one token:    *)
(* two tabs of a browser have the same token, and a check of access works  *)
(* on all tokens of its user.                                              *)
(*                                                                         *)
(* Time is relative, so that no clock is bounded: a window is the time it  *)
(* has left, negative once it is over, and a call knows how long ago it    *)
(* read the clock, and its rows.  A window that is over for longer than a  *)
(* call may last is over for every call, and is not counted further        *)
(* (Floor).                                                                *)
(***************************************************************************)
EXTENDS Integers, FiniteSets

CONSTANTS Users,
          Tokens,     \* the hashes of user, address and device
          Owner,      \* Owner[k]: the user in the hash k
          Processes,  \* the workers of the cluster, one ban registry each
          Calls,      \* the calls a worker may serve at a time
          Worker,     \* Worker[c]: the worker of call c
          None,       \* no user, no process, no token
          Null,       \* booking_window_expires_at IS NULL
          Window,     \* 5 minutes
          MaxLag,        \* bound of the time for which a call works with what it read
          MaxGrants,  \* grants per second, 10 in the code
          MaxSeq,     \* bound of the positions handed out
          Stayers,    \* the tokens whose page stays open, and polls
          Movers      \* the tokens whose network address may change

ASSUME QueueAssumption == /\ Owner \in [Tokens -> Users]
                          /\ Worker \in [Calls -> Processes]
                          /\ None \notin Users \cup Tokens
                          /\ Window \in Nat \ {0}
                          /\ MaxLag \in Nat /\ 2 * MaxLag =< Window
                          /\ MaxGrants \in Nat \ {0}
                          /\ MaxSeq \in Nat
                          /\ Null \notin Int
                          /\ Stayers \subseteq Tokens
                          /\ Movers \subseteq Tokens

VARIABLES
  row,     \* row[k]: the row of table queue_tokens; its pos is 0 if there is none,
           \* and born, for its created_at, tells apart the rows k has had
  seq,     \* the sequence queue_position_seq
  call,    \* call[c]: where call c is, and what it has read
  banned,  \* banned[p]: queueBanRegistry of process p
  grants   \* the Redis counter queue:grants:<second>

vars == <<row, seq, call, banned, grants>>

Floor == -(MaxLag + 1)
Windows == {Null} \cup Floor .. Window
Row == [pos : Nat, window : Windows, born : Nat]
NoRow == [pos |-> 0, window |-> Null, born |-> 0]
NewRow(n) == [pos |-> n, window |-> Null, born |-> n]

CallPC == {"idle", "select", "nextval", "insert", "reselect", "count", "delete",
           "incr", "grant", "wait", "selectall", "bandelete"}

CallState == [pc : CallPC, user : Users \cup {None}, token : Tokens \cup {None},
              read : Row, lag : 0 .. MaxLag, age : 0 .. MaxLag, verify : BOOLEAN,
              todo : SUBSET (Tokens \X Row)]

Idle == [pc |-> "idle", user |-> None, token |-> None,
         read |-> NoRow, lag |-> 0, age |-> 0, verify |-> FALSE, todo |-> {}]

Exists(k) == row[k].pos # 0
Waits(k) == Exists(k) /\ row[k].window = Null
Live(k) == Exists(k) /\ row[k].window # Null /\ row[k].window > 0

TokensOf(u) == {k \in Tokens : Owner[k] = u}

Init ==
  /\ row = [k \in Tokens |-> NoRow]
  /\ seq = 1
  /\ call = [c \in Calls |-> Idle]
  /\ banned = [p \in Processes |-> {}]
  /\ grants = 0
-----------------------------------------------------------------------------
(* Calls *)

At(c, pc) == call[c].pc = pc
Goto(c, pc) == call' = [call EXCEPT ![c].pc = pc]
Answer(c) == call' = [call EXCEPT ![c] = Idle]

Send(c, u, k, pc) ==
  call' = [call EXCEPT ![c] = [Idle EXCEPT !.pc = pc, !.user = u, !.token = k]]
-----------------------------------------------------------------------------
(* getOrCreateQueueToken *)

\* The ban is looked up in the registry of the process that serves the call.
Join(c, k) ==
  /\ At(c, "idle")
  /\ Owner[k] \notin banned[Worker[c]]
  /\ Send(c, Owner[k], k, "select")
  /\ UNCHANGED <<row, seq, banned, grants>>

\* The row as it is now goes to processTokenState, which reads the clock.
Read(c, k) ==
  call' = [call EXCEPT ![c] =
             [@ EXCEPT !.pc = "count", !.token = k, !.read = row[k], !.lag = 0, !.age = 0]]

Select(c) ==
  /\ At(c, "select")
  /\ \/ Exists(call[c].token) /\ Read(c, call[c].token)
     \/ ~Exists(call[c].token) /\ Goto(c, "nextval")
  /\ UNCHANGED <<row, seq, banned, grants>>

\* Mutant of NextVal: the length of the queue instead of a sequence.
NextValCounts(c) ==
  /\ At(c, "nextval")
  /\ \/ /\ seq =< MaxSeq
        /\ call' = [call EXCEPT ![c].pc = "insert",
                      ![c].read = NewRow(Cardinality({k \in Tokens : Exists(k)}) + 1)]
        /\ seq' = seq + 1
     \/ seq > MaxSeq /\ Answer(c) /\ UNCHANGED seq
  /\ UNCHANGED <<row, banned, grants>>

\* nextval('queue_position_seq'); the bound ends the call, no code does.
NextVal(c) ==
  /\ At(c, "nextval")
  /\ \/ /\ seq =< MaxSeq
        /\ call' = [call EXCEPT ![c] =
                      [@ EXCEPT !.pc = "insert", !.read = NewRow(seq)]]
        /\ seq' = seq + 1
     \/ seq > MaxSeq /\ Answer(c) /\ UNCHANGED seq
  /\ UNCHANGED <<row, banned, grants>>

\* INSERT ... ON CONFLICT (token) DO NOTHING.
Insert(c) ==
  LET k == call[c].token IN
  /\ At(c, "insert")
  /\ row' = IF Exists(k) THEN row ELSE [row EXCEPT ![k] = call[c].read]
  /\ Goto(c, "reselect")
  /\ UNCHANGED <<seq, banned, grants>>

\* Mutant of Reselect: the row is taken to be there.
ReselectUnchecked(c) ==
  /\ At(c, "reselect")
  /\ Read(c, call[c].token)
  /\ UNCHANGED <<row, seq, banned, grants>>

\* "Failed to create queue token": the row is gone again.
Reselect(c) ==
  /\ At(c, "reselect")
  /\ \/ Exists(call[c].token) /\ Read(c, call[c].token)
     \/ ~Exists(call[c].token) /\ Answer(c)
  /\ UNCHANGED <<row, seq, banned, grants>>
-----------------------------------------------------------------------------
(* processTokenState *)

\* Is a row in the queue, for a clock read lag ago?
InQueue(k, lag) == Exists(k) /\ (row[k].window = Null \/ row[k].window > -lag)

Ahead(c) ==
  {k \in Tokens \ {call[c].token} :
     InQueue(k, call[c].lag) /\ row[k].pos < call[c].read.pos}

\* The next of the rows read, processed with a clock read now; or no access.
Proceed(c, todo) ==
  \/ \E t \in todo : call' = [call EXCEPT ![c] =
                        [@ EXCEPT !.pc = "count", !.token = t[1], !.read = t[2],
                                  !.lag = 0, !.todo = todo \ {t}]]
  \/ todo = {} /\ Answer(c)

\* The end of a call to processTokenState: a verification goes on to the next
\* token of the user, or gives access if the window is open.
Processed(c, window) ==
  IF call[c].verify /\ (window = Null \/ window =< 0)
  THEN Proceed(c, call[c].todo) ELSE Answer(c)

\* The number of tokens ahead, from the rows as they are now; the token's own
\* row is the one that was read before.
Count(c) ==
  LET w == call[c].read.window IN
  /\ At(c, "count")
  /\ \/ Ahead(c) # {} /\ Goto(c, "wait")
     \/ Ahead(c) = {} /\ w = Null /\ Goto(c, "incr")
     \/ Ahead(c) = {} /\ w # Null /\ w < 0 /\ Goto(c, "delete")
     \/ Ahead(c) = {} /\ w # Null /\ w >= 0 /\ Processed(c, w)
  /\ UNCHANGED <<row, seq, banned, grants>>

\* The window is over: DELETE, and an error.
Delete(c) ==
  /\ At(c, "delete")
  /\ row' = [row EXCEPT ![call[c].token] = NoRow]
  /\ Processed(c, Null)
  /\ UNCHANGED <<seq, banned, grants>>

\* Mutant of Incr: without an answer of Redis, no window.
IncrDenies(c) ==
  /\ At(c, "incr")
  /\ \/ grants < MaxGrants /\ grants' = grants + 1 /\ Goto(c, "grant")
     \/ Processed(c, Null) /\ UNCHANGED grants
  /\ UNCHANGED <<row, seq, banned>>

\* At most MaxGrants a second, but any number while Redis is away.
Incr(c) ==
  /\ At(c, "incr")
  /\ \/ grants < MaxGrants /\ grants' = grants + 1 /\ Goto(c, "grant")
     \/ grants >= MaxGrants /\ Processed(c, Null) /\ UNCHANGED grants
     \/ Goto(c, "grant") /\ UNCHANGED grants
  /\ UNCHANGED <<row, seq, banned>>

\* UPDATE the row, if there still is one; the answer has the window anyway.
Update(c, window) ==
  LET k == call[c].token IN
  row' = IF Exists(k) THEN [row EXCEPT ![k].pos = call[c].read.pos, ![k].window = window]
         ELSE row

Grant(c) ==
  /\ At(c, "grant")
  /\ Update(c, Window)
  /\ Processed(c, Window)
  /\ UNCHANGED <<seq, banned, grants>>

\* Mutant of Wait: the current position becomes the position.
WaitMovesUp(c) ==
  LET k == call[c].token IN
  /\ At(c, "wait")
  /\ row' = IF Exists(k) THEN [row EXCEPT ![k].pos = Cardinality(Ahead(c)) + 1]
            ELSE row
  /\ Processed(c, Null)
  /\ UNCHANGED <<seq, banned, grants>>

\* Mutant of Wait: whoever waits has no window.
WaitClears(c) ==
  /\ At(c, "wait")
  /\ Update(c, Null)
  /\ Processed(c, Null)
  /\ UNCHANGED <<seq, banned, grants>>

\* The UPDATE of a waiting token leaves its window alone.
Wait(c) ==
  LET k == call[c].token IN
  /\ At(c, "wait")
  /\ row' = IF Exists(k) THEN [row EXCEPT ![k].pos = call[c].read.pos] ELSE row
  /\ Processed(c, Null)
  /\ UNCHANGED <<seq, banned, grants>>
-----------------------------------------------------------------------------
(* verifyBookingAccess, of the booking routes *)

\* POST /lock or /allocate, which any tab may send at any time.
StartVerify(c, u) ==
  /\ At(c, "idle")
  /\ call' = [call EXCEPT ![c] =
        [Idle EXCEPT !.pc = "selectall", !.user = u, !.verify = TRUE]]
  /\ UNCHANGED <<row, seq, banned, grants>>

SelectAll(c) ==
  /\ At(c, "selectall")
  /\ Proceed(c, {<<k, row[k]>> : k \in {k \in TokensOf(call[c].user) : Exists(k)}})
  /\ UNCHANGED <<row, seq, banned, grants>>
-----------------------------------------------------------------------------
(* Bans *)

\* A status call whose token does not match the address it comes from.
Tamper(c, k) ==
  /\ At(c, "idle")
  /\ Exists(k) /\ k \in Movers
  /\ banned' = [banned EXCEPT ![Worker[c]] = @ \cup {Owner[k]}]
  /\ Send(c, Owner[k], None, "bandelete")
  /\ UNCHANGED <<row, seq, grants>>

BanDelete(c) ==
  /\ At(c, "bandelete")
  /\ row' = [k \in Tokens |-> IF Owner[k] = call[c].user THEN NoRow ELSE row[k]]
  /\ Answer(c)
  /\ UNCHANGED <<seq, banned, grants>>

BanEnds(p, u) ==
  /\ u \in banned[p]
  /\ banned' = [banned EXCEPT ![p] = @ \ {u}]
  /\ UNCHANGED <<row, seq, call, grants>>
-----------------------------------------------------------------------------
(* Time and restarts *)

Aged(w) == IF w = Null \/ w = Floor THEN w ELSE w - 1

AgedRow(r) == [r EXCEPT !.window = Aged(@)]

\* Does the call work with rows and a clock that it has read?
HasRead(c) == call[c].pc \in {"count", "delete", "incr", "grant", "wait"}

\* A second, and more, passes for every row and for what the calls have read.
Tick ==
  /\ \A c \in Calls : HasRead(c) => call[c].age < MaxLag
  /\ row' = [k \in Tokens |-> AgedRow(row[k])]
  /\ call' = [c \in Calls |->
        IF ~HasRead(c) THEN call[c]
        ELSE [call[c] EXCEPT !.lag = @ + 1, !.age = @ + 1, !.read = AgedRow(@),
                             !.todo = {<<t[1], AgedRow(t[2])>> : t \in @}]]
  /\ grants' = 0
  /\ UNCHANGED <<seq, banned>>

\* A worker starts, in place of one that died: it forgets its calls and bans,
\* and empties the queue of all workers.
Restart(p) ==
  /\ row' = [k \in Tokens |-> NoRow]
  /\ call' = [c \in Calls |-> IF Worker[c] = p THEN Idle ELSE call[c]]
  /\ banned' = [banned EXCEPT ![p] = {}]
  /\ UNCHANGED <<seq, grants>>
-----------------------------------------------------------------------------
Step(c) ==
  \/ Select(c) \/ NextVal(c) \/ Insert(c) \/ Reselect(c)
  \/ Count(c) \/ Delete(c) \/ Incr(c) \/ Grant(c) \/ Wait(c)
  \/ SelectAll(c) \/ BanDelete(c)

Poll(k) == \E c \in Calls : Join(c, k)

Next == \/ \E c \in Calls : Step(c)
        \/ \E k \in Tokens : Poll(k) \/ \E c \in Calls : Tamper(c, k)
        \/ \E u \in Users, c \in Calls : StartVerify(c, u)
        \/ \E p \in Processes : Restart(p) \/ \E u \in Users : BanEnds(p, u)
        \/ Tick

Spec == Init /\ [][Next]_vars

\* Statements return, time passes, bans end, and the pages that stay poll.
FairSpec == /\ Spec
            /\ \A c \in Calls : WF_vars(Step(c))
            /\ WF_vars(Tick)
            /\ \A p \in Processes : WF_vars(\E u \in Users : BanEnds(p, u))
            /\ \A k \in Stayers : SF_vars(Poll(k))
-----------------------------------------------------------------------------
(* What must hold of it *)

\* The types; and a call that works on a row knows its position, and has read
\* the clock no earlier than its rows.
TypeOK ==
  /\ row \in [Tokens -> Row]
  /\ \A k \in Tokens : ~Exists(k) => row[k] = NoRow
  /\ seq \in 1 .. MaxSeq + 1
  /\ call \in [Calls -> CallState]
  /\ \A c \in Calls :
       /\ call[c].pc \notin {"idle", "selectall", "bandelete"}
            => call[c].token \in Tokens
       /\ call[c].pc \in {"insert", "count", "delete", "incr", "grant", "wait"}
            => call[c].read.pos > 0
       /\ \A t \in call[c].todo : t[2].pos > 0
       /\ call[c].lag =< call[c].age
  /\ banned \in [Processes -> SUBSET Users]
  /\ grants \in 0 .. MaxGrants

\* No two tokens have the same position, whatever calls overlap: each position
\* is given out once, and a call that works with a row it read before its
\* awaits writes back no position of another token (queue.service.ts 161-172,
\* 271-274).
UniquePositions ==
  \A j, k \in Tokens : Exists(j) /\ Exists(k) /\ row[j].pos = row[k].pos => j = k

\* The positions that token k has: in its row, and in the calls that drew one
\* for it or have read its row, whatever has become of the row since; 0 is none.
Claims(k) ==
  {row[k].pos}
    \cup {call[c].read.pos : c \in {c \in Calls : call[c].token = k}}
    \cup UNION {{t[2].pos : t \in {t \in call[c].todo : t[1] = k}} : c \in Calls}

\* The tokens that have a position below n, and so are or may come ahead of it.
Before(n) == {k \in Tokens : \E m \in Claims(k) : 0 < m /\ m < n}

\* Nobody gets ahead of a token that is in the queue and stays there but with a
\* position that was its own before: not by polling from several tabs, queueing
\* again or drawing while another draws.  Nor does the token's own position
\* become one that it was not given (queue.service.ts 160-172, 240-243, 269-272).
NoOvertaking ==
  [][\A k \in Tokens :
       Exists(k) /\ row'[k].pos # 0
         => \E n \in Claims(k) : row'[k].pos = n /\ Before(n)' \subseteq Before(n)]_vars

\* A booking window that is open is open until its time is over, unless its
\* owner is banned, the server restarts, or the DELETE of a call that has read an
\* earlier row of the token takes it: no call that has read the row itself
\* takes the window away or shortens it, how many of them there may be, and
\* none writes NULL over it (queue.service.ts 200-252, 269-272).
WindowKept ==
  [][\A k \in Tokens :
       Live(k) /\ ~(row'[k].window # Null /\ row'[k].window >= row[k].window - 1)
         => \/ \E p \in Processes : Restart(p)
            \/ \E c \in Calls : At(c, "bandelete") /\ call[c].user = Owner[k]
            \/ \E c \in Calls : /\ At(c, "delete") /\ call[c].token = k
                                /\ call[c].read.born # row[k].born]_vars

\* A token whose page stays open gets its window, or leaves the queue.
EveryStayerServed == \A k \in Stayers : Waits(k) ~> ~Waits(k)
=============================================================================
