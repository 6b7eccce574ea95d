-------------------------- MODULE VirtualQueueProofs --------------------------
(***************************************************************************)
(* Theorems about VirtualQueue, for any number of users, tokens, workers   *)
(* and calls, and any length of a window.                                  *)
(***************************************************************************)
EXTENDS VirtualQueue, TLAPS

Working == {"insert", "count", "delete", "incr", "grant", "wait"}
Tokenless == {"idle", "selectall", "bandelete"}

\* What TypeOK says of one call.
Sound(x) ==
  /\ x \in CallState
  /\ x.pc \notin Tokenless => x.token \in Tokens
  /\ x.pc \in Working => x.read.pos > 0
  /\ \A t \in x.todo : t[2].pos > 0
  /\ x.lag =< x.age

\* What TypeOK says of the rows.
SoundRows(r) == /\ r \in [Tokens -> Row]
                /\ \A k \in Tokens : r[k].pos = 0 => r[k] = NoRow

\* TypeOK is about each row and each call on its own.
LEMMA TypeOKParts ==
  TypeOK <=> /\ SoundRows(row)
             /\ seq \in 1 .. MaxSeq + 1
             /\ call \in [Calls -> CallState]
             /\ \A c \in Calls : Sound(call[c])
             /\ banned \in [Processes -> SUBSET Users]
             /\ grants \in 0 .. MaxGrants
BY DEF TypeOK, SoundRows, Sound, Working, Tokenless, Exists

LEMMA NoRowIsRow == NoRow \in Row
BY DEF NoRow, Row, Windows

LEMMA IdleIsSound == Sound(Idle)
BY NoRowIsRow, QueueAssumption
DEF Sound, Idle, CallState, CallPC, Tokenless, Working

\* A row that is read for a token makes the call one that works with it.
LEMMA ReadIsSound ==
  ASSUME NEW x, Sound(x), NEW k \in Tokens, NEW r \in Row, r.pos > 0,
         NEW age \in 0 .. MaxLag,
         NEW todo \in SUBSET (Tokens \X Row), \A t \in todo : t[2].pos > 0
  PROVE  Sound([x EXCEPT !.pc = "count", !.token = k, !.read = r, !.lag = 0,
                         !.age = age, !.todo = todo])
<1> DEFINE y == [x EXCEPT !.pc = "count", !.token = k, !.read = r, !.lag = 0,
                          !.age = age, !.todo = todo]
<1>1. x \in CallState
  BY DEF Sound
<1>2. y.pc = "count" /\ y.token = k /\ y.read = r /\ y.todo = todo
      /\ y.lag = 0 /\ y.age = age /\ age >= 0
  BY <1>1, QueueAssumption DEF CallState
<1>3. 0 \in 0 .. MaxLag /\ "count" \in CallPC
  BY QueueAssumption DEF CallPC
<1>4. y \in CallState
  BY <1>1, <1>3 DEF CallState
<1>5. y.pc \notin Tokenless
  BY <1>2 DEF Tokenless
<1> QED BY <1>2, <1>4 DEF Sound

\* A call that becomes x leaves the others alone.
LEMMA CallBecomes ==
  ASSUME TypeOK, NEW c \in Calls, NEW x, Sound(x), call' = [call EXCEPT ![c] = x]
  PROVE  /\ call' \in [Calls -> CallState]
         /\ \A d \in Calls : Sound(call'[d])
<1>1. call \in [Calls -> CallState] /\ x \in CallState
  BY TypeOKParts DEF Sound
<1>2. \A d \in Calls : call'[d] = IF d = c THEN x ELSE call[d]
  BY <1>1
<1> QED BY <1>1, <1>2, TypeOKParts

\* The steps that answer, or that go on with another token of the user.
LEMMA ProceedIsSound ==
  ASSUME TypeOK, NEW c \in Calls,
         NEW todo \in SUBSET (Tokens \X Row), \A t \in todo : t[2].pos > 0,
         Proceed(c, todo)
  PROVE  \E x : Sound(x) /\ call' = [call EXCEPT ![c] = x]
<1>1. CASE \E t \in todo : call' = [call EXCEPT ![c] =
                        [@ EXCEPT !.pc = "count", !.token = t[1], !.read = t[2],
                                  !.lag = 0, !.todo = todo \ {t}]]
  <2>1. PICK t \in todo : call' = [call EXCEPT ![c] =
                        [@ EXCEPT !.pc = "count", !.token = t[1], !.read = t[2],
                                  !.lag = 0, !.todo = todo \ {t}]]
    BY <1>1
  <2>2. t[1] \in Tokens /\ t[2] \in Row /\ t[2].pos > 0
    OBVIOUS
  <2>3. Sound(call[c]) /\ call[c] \in CallState /\ call[c].age \in 0 .. MaxLag
    BY TypeOKParts DEF Sound, CallState
  <2>4. Sound([call[c] EXCEPT !.pc = "count", !.token = t[1], !.read = t[2],
                              !.lag = 0, !.age = call[c].age, !.todo = todo \ {t}])
    BY <2>2, <2>3, ReadIsSound
  <2>5. [call[c] EXCEPT !.pc = "count", !.token = t[1], !.read = t[2],
                        !.lag = 0, !.age = call[c].age, !.todo = todo \ {t}]
        = [call[c] EXCEPT !.pc = "count", !.token = t[1], !.read = t[2],
                          !.lag = 0, !.todo = todo \ {t}]
    BY <2>3 DEF CallState
  <2> QED BY <2>1, <2>4, <2>5
<1>2. CASE Answer(c)
  BY <1>2, IdleIsSound DEF Answer
<1> QED BY <1>1, <1>2 DEF Proceed

LEMMA ProcessedIsSound ==
  ASSUME TypeOK, NEW c \in Calls, NEW w, Processed(c, w)
  PROVE  \E x : Sound(x) /\ call' = [call EXCEPT ![c] = x]
<1>1. call[c].todo \in SUBSET (Tokens \X Row) /\ \A t \in call[c].todo : t[2].pos > 0
  BY TypeOKParts DEF Sound, CallState
<1>2. CASE Proceed(c, call[c].todo)
  BY <1>1, <1>2, ProceedIsSound
<1>3. CASE Answer(c)
  BY <1>3, IdleIsSound DEF Answer
<1> QED BY <1>2, <1>3 DEF Processed

\* A call that moves to another place of the same work.
LEMMA GotoIsSound ==
  ASSUME NEW x, Sound(x), NEW pc \in CallPC,
         pc \notin Tokenless => x.token \in Tokens,
         pc \in Working => x.read.pos > 0
  PROVE  Sound([x EXCEPT !.pc = pc])
<1> DEFINE y == [x EXCEPT !.pc = pc]
<1>1. x \in CallState
  BY DEF Sound
<1>2. y \in CallState /\ y.pc = pc /\ y.token = x.token /\ y.read = x.read
      /\ y.todo = x.todo /\ y.lag = x.lag /\ y.age = x.age
  BY <1>1 DEF CallState
<1> QED BY <1>2 DEF Sound

\* One row is set to a row of the table.
LEMMA SetRow ==
  ASSUME TypeOK, NEW k \in Tokens, NEW r \in Row, r.pos > 0 \/ r = NoRow
  PROVE  SoundRows([row EXCEPT ![k] = r])
BY TypeOKParts DEF SoundRows, Row

\* Each step of a call leaves calls of the right type.
LEMMA StepCalls ==
  ASSUME TypeOK, NEW c \in Calls, Step(c)
  PROVE  \E x : Sound(x) /\ call' = [call EXCEPT ![c] = x]
<1>0. /\ Sound(call[c]) /\ call[c] \in CallState
      /\ SoundRows(row) /\ seq \in 1 .. MaxSeq + 1
  BY TypeOKParts DEF Sound
<1>1. ASSUME NEW pc \in CallPC, Goto(c, pc),
             pc \notin Tokenless => call[c].token \in Tokens,
             pc \in Working => call[c].read.pos > 0
      PROVE  \E x : Sound(x) /\ call' = [call EXCEPT ![c] = x]
  <2>1. call' = [call EXCEPT ![c] = [call[c] EXCEPT !.pc = pc]]
    BY <1>1 DEF Goto
  <2> QED BY <2>1, <1>0, <1>1, GotoIsSound
<1>2. ASSUME Answer(c)
      PROVE  \E x : Sound(x) /\ call' = [call EXCEPT ![c] = x]
  BY <1>2, IdleIsSound DEF Answer
<1>3. ASSUME call[c].token \in Tokens, Exists(call[c].token), Read(c, call[c].token)
      PROVE  \E x : Sound(x) /\ call' = [call EXCEPT ![c] = x]
  <2> DEFINE k == call[c].token
  <2>1. row[k] \in Row /\ row[k].pos > 0
    BY <1>0, <1>3 DEF SoundRows, Exists, Row
  <2>2. /\ call[c].todo \in SUBSET (Tokens \X Row)
        /\ \A t \in call[c].todo : t[2].pos > 0
    BY <1>0 DEF Sound, CallState
  <2>3. Sound([call[c] EXCEPT !.pc = "count", !.token = k, !.read = row[k], !.lag = 0,
                              !.age = 0, !.todo = call[c].todo])
    <3>1. 0 \in 0 .. MaxLag
      BY QueueAssumption
    <3> HIDE DEF k
    <3> QED BY <1>0, <1>3, <2>1, <2>2, <3>1, ReadIsSound DEF k
  <2>4. [call[c] EXCEPT !.pc = "count", !.token = k, !.read = row[k], !.lag = 0,
                        !.age = 0, !.todo = call[c].todo]
        = [call[c] EXCEPT !.pc = "count", !.token = k, !.read = row[k], !.lag = 0,
                          !.age = 0]
    BY <1>0 DEF CallState
  <2> QED BY <1>3, <2>3, <2>4 DEF Read
<1>4. CASE Select(c)
  <2>1. call[c].token \in Tokens
    BY <1>0, <1>4 DEF Select, At, Sound, Tokenless
  <2>2. CASE Goto(c, "nextval")
    BY <2>1, <2>2, <1>1 DEF CallPC, Working
  <2> QED BY <2>1, <2>2, <1>3, <1>4 DEF Select
<1>5. CASE NextVal(c)
  <2>1. call[c].token \in Tokens
    BY <1>0, <1>5 DEF NextVal, At, Sound, Tokenless
  <2>2. CASE call' = [call EXCEPT ![c] =
                      [@ EXCEPT !.pc = "insert", !.read = NewRow(seq)]]
    <3> DEFINE x == [call[c] EXCEPT !.pc = "insert",
                                    !.read = NewRow(seq)]
    <3>0. seq \in Nat /\ seq > 0 /\ NewRow(seq) \in Row /\ NewRow(seq).pos = seq
      BY <1>0, QueueAssumption DEF Row, Windows, NewRow
    <3>1. x \in CallState /\ x.pc = "insert" /\ x.token = call[c].token
          /\ x.read = NewRow(seq) /\ x.todo = call[c].todo
          /\ x.lag = call[c].lag /\ x.age = call[c].age
      BY <1>0, <3>0 DEF CallState, CallPC
    <3>2. Sound(x)
      <4> HIDE DEF x
      <4> QED BY <3>0, <3>1, <2>1, <1>0 DEF Sound
    <3> QED BY <2>2, <3>2
  <2> QED BY <2>2, <1>2, <1>5 DEF NextVal
<1>6. CASE Insert(c)
  BY <1>0, <1>1, <1>6 DEF Insert, At, Sound, Tokenless, Working, CallPC
<1>7. CASE Reselect(c)
  <2>1. call[c].token \in Tokens
    BY <1>0, <1>7 DEF Reselect, At, Sound, Tokenless
  <2> QED BY <2>1, <1>2, <1>3, <1>7 DEF Reselect
<1>8. CASE Count(c)
  <2>1. call[c].token \in Tokens /\ call[c].read.pos > 0
    BY <1>0, <1>8 DEF Count, At, Sound, Tokenless, Working
  <2>2. ASSUME NEW pc \in {"wait", "incr", "delete"}, Goto(c, pc)
        PROVE  \E x : Sound(x) /\ call' = [call EXCEPT ![c] = x]
    BY <2>1, <2>2, <1>1 DEF CallPC
  <2> QED BY <2>2, <1>8, ProcessedIsSound DEF Count
<1>9. CASE Delete(c) \/ Grant(c) \/ Wait(c)
  BY <1>9, ProcessedIsSound DEF Delete, Grant, Wait
<1>10. CASE Incr(c)
  <2>1. call[c].token \in Tokens /\ call[c].read.pos > 0
    BY <1>0, <1>10 DEF Incr, At, Sound, Tokenless, Working
  <2>2. CASE Goto(c, "grant")
    BY <2>1, <2>2, <1>1 DEF CallPC
  <2> QED BY <2>2, <1>10, ProcessedIsSound DEF Incr
<1>11. CASE SelectAll(c)
  <2> DEFINE todo == {<<k, row[k]>> : k \in {k \in TokensOf(call[c].user) : Exists(k)}}
  <2>1. todo \in SUBSET (Tokens \X Row)
    BY <1>0 DEF TokensOf, SoundRows
  <2>2. \A t \in todo : t[2].pos > 0
    BY <1>0 DEF TokensOf, SoundRows, Exists, Row
  <2> QED BY <2>1, <2>2, <1>11, ProceedIsSound DEF SelectAll
<1>12. CASE BanDelete(c)
  BY <1>2, <1>12 DEF BanDelete
<1> QED BY <1>4, <1>5, <1>6, <1>7, <1>8, <1>9, <1>10, <1>11, <1>12 DEF Step

\* Each step of a call leaves the rows and the counters of the right type.
LEMMA StepRows ==
  ASSUME TypeOK, NEW c \in Calls, Step(c)
  PROVE  /\ SoundRows(row')
         /\ seq' \in 1 .. MaxSeq + 1
         /\ grants' \in 0 .. MaxGrants
         /\ UNCHANGED banned
<1>0. /\ Sound(call[c]) /\ call[c] \in CallState
      /\ SoundRows(row) /\ seq \in 1 .. MaxSeq + 1 /\ grants \in 0 .. MaxGrants
  BY TypeOKParts DEF Sound
<1>1. ASSUME call[c].token \in Tokens, call[c].read.pos > 0,
             NEW w \in Windows, NEW k, k = call[c].token,
             row' = IF Exists(k)
                    THEN [row EXCEPT ![k].pos = call[c].read.pos, ![k].window = w]
                    ELSE row
      PROVE  SoundRows(row')
  <2> DEFINE r == [row[k] EXCEPT !.pos = call[c].read.pos, !.window = w]
  <2>1. row[k] \in Row /\ call[c].read.pos \in Nat
    BY <1>0, <1>1 DEF SoundRows, CallState, Row
  <2>2. r \in Row /\ r.pos > 0
    BY <1>1, <2>1 DEF Row
  <2>3. CASE Exists(k)
    <3>1. row' = [row EXCEPT ![k] = r]
      BY <1>1, <2>3
    <3> HIDE DEF r
    <3> QED BY <1>1, <2>2, <3>1, SetRow
  <2>4. CASE ~Exists(k)
    BY <1>0, <1>1, <2>4
  <2> QED BY <2>3, <2>4
<1>2. CASE Select(c) \/ Reselect(c) \/ Count(c) \/ SelectAll(c)
  BY <1>0, <1>2 DEF Select, Reselect, Count, SelectAll
<1>3. CASE NextVal(c)
  BY <1>0, <1>3, QueueAssumption DEF NextVal
<1>4. CASE Insert(c)
  <2>1. call[c].token \in Tokens /\ call[c].read.pos > 0
    BY <1>0, <1>4 DEF Insert, At, Sound, Tokenless, Working
  <2>2. call[c].read \in Row
    BY <1>0 DEF CallState
  <2> QED BY <1>0, <1>4, <2>1, <2>2, SetRow DEF Insert
<1>5. CASE Delete(c)
  <2>1. call[c].token \in Tokens
    BY <1>0, <1>5 DEF Delete, At, Sound, Tokenless
  <2> QED BY <1>0, <1>5, <2>1, SetRow, NoRowIsRow DEF Delete
<1>6. CASE Incr(c)
  BY <1>0, <1>6, QueueAssumption DEF Incr
<1>7. CASE Grant(c)
  <2>1. call[c].token \in Tokens /\ call[c].read.pos > 0
    BY <1>0, <1>7 DEF Grant, At, Sound, Tokenless, Working
  <2>2. Window \in Windows
    BY QueueAssumption DEF Windows, Floor
  <2>3. SoundRows(row')
    BY <1>1, <1>7, <2>1, <2>2 DEF Grant, Update
  <2> QED BY <1>0, <1>7, <2>3 DEF Grant
<1>8. CASE Wait(c)
  <2> DEFINE k == call[c].token
  <2>1. k \in Tokens /\ call[c].read.pos \in Nat /\ call[c].read.pos > 0
    BY <1>0, <1>8 DEF Wait, At, Sound, Tokenless, Working, CallState, Row
  <2>2. [row[k] EXCEPT !.pos = call[c].read.pos] \in Row
    BY <1>0, <2>1 DEF SoundRows, Row
  <2>3. [row[k] EXCEPT !.pos = call[c].read.pos].pos > 0
    BY <1>0, <2>1 DEF SoundRows, Row
  <2>4. CASE Exists(k)
    BY <1>0, <1>8, <2>1, <2>2, <2>3, <2>4, SetRow DEF Wait
  <2>5. CASE ~Exists(k)
    BY <1>0, <1>8, <2>5 DEF Wait
  <2> QED BY <2>4, <2>5
<1>9. CASE BanDelete(c)
  BY <1>0, <1>9, NoRowIsRow DEF BanDelete, SoundRows
<1> QED BY <1>2, <1>3, <1>4, <1>5, <1>6, <1>7, <1>8, <1>9 DEF Step

\* A row grows older and stays a row.
LEMMA AgedRows ==
  ASSUME NEW r \in Row
  PROVE  AgedRow(r) \in Row /\ AgedRow(r).pos = r.pos
<1>1. r.window \in Windows
  BY DEF Row
<1>2. Floor \in Int /\ Window \in Int /\ Null \notin Int
  BY QueueAssumption DEF Floor
<1>3. CASE r.window = Null \/ r.window = Floor
  BY <1>1, <1>3 DEF AgedRow, Aged, Row
<1>4. CASE r.window # Null /\ r.window # Floor
  <2>1. r.window \in Floor .. Window
    BY <1>1, <1>4 DEF Windows
  <2>2. r.window - 1 \in Floor .. Window
    BY <1>2, <1>4, <2>1
  <2>3. r.window - 1 \in Windows
    BY <2>2 DEF Windows
  <2> QED BY <1>4, <2>3 DEF AgedRow, Aged, Row
<1> QED BY <1>3, <1>4

\* No row.
LEMMA NoRowAges == AgedRow(NoRow) = NoRow
BY DEF AgedRow, Aged, NoRow

\* What a call has read when time passes.
AgedCall(x) ==
  [x EXCEPT !.lag = @ + 1, !.age = @ + 1, !.read = AgedRow(@),
            !.todo = {<<t[1], AgedRow(t[2])>> : t \in @}]

LEMMA AgedCallIsSound ==
  ASSUME NEW x, Sound(x), x.age < MaxLag
  PROVE  Sound(AgedCall(x))
<1> DEFINE todo == {<<t[1], AgedRow(t[2])>> : t \in x.todo}
           y == AgedCall(x)
<1>1. x \in CallState /\ x.lag \in 0 .. MaxLag /\ x.age \in 0 .. MaxLag /\ x.read \in Row
      /\ x.todo \in SUBSET (Tokens \X Row)
  BY DEF Sound, CallState
<1>2. \A u \in todo : u \in Tokens \X Row /\ u[2].pos > 0
  <2>1. TAKE u \in todo
  <2>2. PICK t \in x.todo : u = <<t[1], AgedRow(t[2])>>
    OBVIOUS
  <2>3. t[1] \in Tokens /\ t[2] \in Row /\ t[2].pos > 0
    BY <1>1 DEF Sound
  <2> QED BY <2>2, <2>3, AgedRows
<1>3. x.lag + 1 \in 0 .. MaxLag /\ x.age + 1 \in 0 .. MaxLag /\ x.lag + 1 =< x.age + 1
  BY <1>1, QueueAssumption DEF Sound
<1>4. y = [x EXCEPT !.lag = x.lag + 1, !.age = x.age + 1,
                    !.read = AgedRow(x.read), !.todo = todo]
  BY <1>1 DEF AgedCall, CallState
<1>5. AgedRow(x.read) \in Row /\ AgedRow(x.read).pos = x.read.pos
  BY <1>1, AgedRows
<1> HIDE DEF todo, y
<1>6. todo \in SUBSET (Tokens \X Row)
  BY <1>2
<1>7. y \in CallState /\ y.pc = x.pc /\ y.token = x.token
      /\ y.read.pos = x.read.pos /\ y.todo = todo
      /\ y.lag = x.lag + 1 /\ y.age = x.age + 1
  BY <1>1, <1>3, <1>4, <1>5, <1>6 DEF CallState
<1> QED BY <1>2, <1>3, <1>7 DEF Sound, y

\* A call that is sent, with the token of its user or none.
LEMMA SentIsSound ==
  ASSUME NEW u \in Users, NEW k \in Tokens \cup {None}, NEW pc \in CallPC,
         pc \notin Working, pc \notin Tokenless => k \in Tokens
  PROVE  Sound([Idle EXCEPT !.pc = pc, !.user = u, !.token = k])
<1> DEFINE x == [Idle EXCEPT !.pc = pc, !.user = u, !.token = k]
<1>1. Idle \in CallState /\ Idle.todo = {} /\ Idle.lag =< Idle.age
  BY IdleIsSound DEF Sound, Idle
<1>2. x \in CallState /\ x.pc = pc /\ x.token = k /\ x.todo = {} /\ x.lag =< x.age
  BY <1>1 DEF CallState
<1> QED BY <1>2 DEF Sound

LEMMA VerifyIsSound ==
  ASSUME NEW u \in Users
  PROVE  Sound([Idle EXCEPT !.pc = "selectall", !.user = u, !.verify = TRUE])
<1> DEFINE x == [Idle EXCEPT !.pc = "selectall", !.user = u, !.verify = TRUE]
<1>1. Idle \in CallState /\ Idle.todo = {} /\ Idle.lag =< Idle.age
  BY IdleIsSound DEF Sound, Idle
<1>2. x \in CallState /\ x.pc = "selectall" /\ x.todo = {} /\ x.lag =< x.age
  BY <1>1 DEF CallState, CallPC
<1> QED BY <1>2 DEF Sound, Tokenless, Working

\* The steps that send a call.
LEMMA SendCalls ==
  ASSUME TypeOK, NEW c \in Calls,
         \/ \E k \in Tokens : Join(c, k) \/ Tamper(c, k)
         \/ \E u \in Users : StartVerify(c, u)
  PROVE  \E x : Sound(x) /\ call' = [call EXCEPT ![c] = x]
<1>1. ASSUME NEW k \in Tokens, Join(c, k)
      PROVE  \E x : Sound(x) /\ call' = [call EXCEPT ![c] = x]
  <2> DEFINE x == [Idle EXCEPT !.pc = "select", !.user = Owner[k], !.token = k]
  <2>2. Owner[k] \in Users
    BY QueueAssumption
  <2>3. Sound(x)
    BY <2>2, SentIsSound DEF CallPC, Working, Tokenless
  <2> QED BY <1>1, <2>3 DEF Join, Send
<1>2. ASSUME NEW k \in Tokens, Tamper(c, k)
      PROVE  \E x : Sound(x) /\ call' = [call EXCEPT ![c] = x]
  <2> DEFINE x == [Idle EXCEPT !.pc = "bandelete", !.user = Owner[k], !.token = None]
  <2>2. Owner[k] \in Users
    BY QueueAssumption
  <2>3. Sound(x)
    BY <2>2, SentIsSound DEF CallPC, Working, Tokenless
  <2> QED BY <1>2, <2>3 DEF Tamper, Send
<1>3. ASSUME NEW u \in Users, StartVerify(c, u)
      PROVE  \E x : Sound(x) /\ call' = [call EXCEPT ![c] = x]
  BY <1>3, VerifyIsSound DEF StartVerify
<1> QED BY <1>1, <1>2, <1>3

LEMMA InitTypes == Init => TypeOK
<1> SUFFICES ASSUME Init PROVE TypeOK
  OBVIOUS
<1>1. call \in [Calls -> CallState] /\ \A c \in Calls : Sound(call[c])
  BY IdleIsSound DEF Init, Sound
<1>2. SoundRows(row)
  BY NoRowIsRow DEF Init, SoundRows
<1> QED BY <1>1, <1>2, QueueAssumption, TypeOKParts DEF Init

LEMMA NextTypes == TypeOK /\ [Next]_vars => TypeOK'
<1> SUFFICES ASSUME TypeOK, [Next]_vars PROVE TypeOK'
  OBVIOUS
<1>0. /\ SoundRows(row) /\ seq \in 1 .. MaxSeq + 1
      /\ call \in [Calls -> CallState] /\ \A c \in Calls : Sound(call[c])
      /\ banned \in [Processes -> SUBSET Users] /\ grants \in 0 .. MaxGrants
  BY TypeOKParts
<1> DEFINE Parts == /\ SoundRows(row')
                    /\ seq' \in 1 .. MaxSeq + 1
                    /\ call' \in [Calls -> CallState]
                    /\ \A c \in Calls : Sound(call'[c])
                    /\ banned' \in [Processes -> SUBSET Users]
                    /\ grants' \in 0 .. MaxGrants
<1>1. ASSUME NEW c \in Calls, Step(c) PROVE Parts
  <2>1. PICK x : Sound(x) /\ call' = [call EXCEPT ![c] = x]
    BY <1>1, StepCalls
  <2>2. call' \in [Calls -> CallState] /\ \A d \in Calls : Sound(call'[d])
    BY <2>1, CallBecomes
  <2> QED BY <1>0, <1>1, <2>2, StepRows
<1>2. ASSUME NEW c \in Calls,
             \/ \E k \in Tokens : Join(c, k) \/ Tamper(c, k)
             \/ \E u \in Users : StartVerify(c, u)
      PROVE  Parts
  <2>1. PICK x : Sound(x) /\ call' = [call EXCEPT ![c] = x]
    BY <1>2, SendCalls
  <2>2. call' \in [Calls -> CallState] /\ \A d \in Calls : Sound(call'[d])
    BY <2>1, CallBecomes
  <2>3. UNCHANGED <<row, seq, grants>>
    BY <1>2 DEF Join, Tamper, StartVerify
  <2>4. banned' \in [Processes -> SUBSET Users]
    <3>1. UNCHANGED banned \/ \E k \in Tokens :
             banned' = [banned EXCEPT ![Worker[c]] = @ \cup {Owner[k]}]
      BY <1>2 DEF Join, Tamper, StartVerify
    <3>2. \A k \in Tokens : Owner[k] \in Users
      BY QueueAssumption
    <3> QED BY <1>0, <3>1, <3>2
  <2> QED BY <1>0, <2>2, <2>3, <2>4
<1>3. ASSUME NEW p \in Processes, Restart(p) PROVE Parts
  <2>1. SoundRows(row')
    BY <1>3, NoRowIsRow DEF Restart, SoundRows
  <2>2. \A c \in Calls : call'[c] = Idle \/ call'[c] = call[c]
    BY <1>0, <1>3 DEF Restart
  <2>3. call' \in [Calls -> CallState] /\ \A c \in Calls : Sound(call'[c])
    <3>1. \A c \in Calls : Sound(call'[c])
      BY <1>0, <2>2, IdleIsSound
    <3> QED BY <1>3, <3>1 DEF Restart, Sound
  <2> QED BY <1>0, <1>3, <2>1, <2>3 DEF Restart
<1>4. ASSUME NEW p \in Processes, NEW u \in Users, BanEnds(p, u) PROVE Parts
  BY <1>0, <1>4 DEF BanEnds
<1>5. ASSUME Tick PROVE Parts
  <2>1. SoundRows(row')
    BY <1>0, <1>5, AgedRows, NoRowAges DEF Tick, SoundRows
  <2>2. ASSUME NEW c \in Calls PROVE Sound(call'[c])
    <3>1. CASE HasRead(c)
      <4>1. call'[c] = AgedCall(call[c])
        BY <1>0, <1>5, <3>1 DEF Tick, AgedCall
      <4>2. call[c].age < MaxLag
        BY <1>5, <3>1 DEF Tick
      <4> QED BY <1>0, <4>1, <4>2, AgedCallIsSound
    <3>2. CASE ~HasRead(c)
      BY <1>0, <1>5, <3>2 DEF Tick
    <3> QED BY <3>1, <3>2
  <2>3. call' \in [Calls -> CallState]
    BY <1>5, <2>2 DEF Tick, Sound
  <2>4. grants' = 0 /\ UNCHANGED <<seq, banned>>
    BY <1>5, Zenon DEF Tick
  <2>5. 0 \in 0 .. MaxGrants
    BY QueueAssumption
  <2> QED BY <1>0, <2>1, <2>2, <2>3, <2>4, <2>5
<1>6. ASSUME UNCHANGED vars PROVE Parts
  <2>1. UNCHANGED <<row, seq, call, banned, grants>>
    BY <1>6 DEF vars
  <2> QED BY <1>0, <2>1
<1>7. Parts
  <2> HIDE DEF Parts
  <2> QED BY <1>1, <1>2, <1>3, <1>4, <1>5, <1>6 DEF Next, Poll
<1>8. TypeOK' <=> Parts
  BY DEF TypeOK, SoundRows, Sound, Working, Tokenless, Exists
<1> QED BY <1>7, <1>8

\* Every call carries the data its place needs, in every reachable state.
THEOREM QueueTypeCorrect == Spec => []TypeOK
BY InitTypes, NextTypes, PTL DEF Spec

(***************************************************************************)
(* Positions.  A token lays claim to a position by its row, and by what a  *)
(* call has read of it and may yet write back.                             *)
(***************************************************************************)

Carries(x, k, n) == \/ x.token = k /\ x.read.pos = n
                    \/ \E t \in x.todo : t[1] = k /\ t[2].pos = n

Claim(k, n) == \/ row[k].pos = n
               \/ \E c \in Calls : Carries(call[c], k, n)

\* Each position is claimed by one token, and was given out by the sequence.
PositionsInv ==
  /\ TypeOK
  /\ \A k \in Tokens : \A n \in Nat \ {0} : Claim(k, n) => n < seq
  /\ \A j, k \in Tokens : \A n \in Nat \ {0} : Claim(j, n) /\ Claim(k, n) => j = k

\* A call becomes x, which carries only what was claimed before.
Backed(x) == \A k \in Tokens : \A n \in Nat \ {0} : Carries(x, k, n) => Claim(k, n)

LEMMA IdleIsBacked == Backed(Idle)
<1>1. Idle.read.pos = 0 /\ Idle.todo = {}
  BY DEF Idle, NoRow
<1> QED BY <1>1 DEF Backed, Carries

LEMMA ProceedIsBacked ==
  ASSUME TypeOK, NEW c \in Calls,
         NEW todo \in SUBSET (Tokens \X Row), Proceed(c, todo),
         \A t \in todo : \A n \in Nat \ {0} : t[2].pos = n => Claim(t[1], n)
  PROVE  \E x : Backed(x) /\ call' = [call EXCEPT ![c] = x]
<1>1. CASE \E t \in todo : call' = [call EXCEPT ![c] =
                        [@ EXCEPT !.pc = "count", !.token = t[1], !.read = t[2],
                                  !.lag = 0, !.todo = todo \ {t}]]
  <2>1. PICK t \in todo : call' = [call EXCEPT ![c] =
                        [@ EXCEPT !.pc = "count", !.token = t[1], !.read = t[2],
                                  !.lag = 0, !.todo = todo \ {t}]]
    BY <1>1
  <2> DEFINE x == [call[c] EXCEPT !.pc = "count", !.token = t[1], !.read = t[2],
                                  !.lag = 0, !.todo = todo \ {t}]
  <2>2. x.token = t[1] /\ x.read = t[2] /\ x.todo = todo \ {t}
    BY TypeOKParts DEF CallState
  <2> HIDE DEF x
  <2>3. Backed(x)
    BY <2>2 DEF Backed, Carries
  <2> QED BY <2>1, <2>3 DEF x
<1>2. CASE Answer(c)
  BY <1>2, IdleIsBacked DEF Answer
<1> QED BY <1>1, <1>2 DEF Proceed

\* Whatever a call carries is claimed by it.
LEMMA CarriedIsClaimed ==
  ASSUME NEW c \in Calls PROVE Backed(call[c])
BY DEF Backed, Claim

LEMMA ProcessedIsBacked ==
  ASSUME TypeOK, NEW c \in Calls, NEW w, Processed(c, w)
  PROVE  \E x : Backed(x) /\ call' = [call EXCEPT ![c] = x]
<1>1. call[c].todo \in SUBSET (Tokens \X Row)
  BY TypeOKParts DEF CallState
<1>2. \A t \in call[c].todo : \A n \in Nat \ {0} : t[2].pos = n => Claim(t[1], n)
  BY <1>1 DEF Claim, Carries
<1>3. CASE Proceed(c, call[c].todo)
  BY <1>1, <1>2, <1>3, ProceedIsBacked
<1>4. CASE Answer(c)
  BY <1>4, IdleIsBacked DEF Answer
<1> QED BY <1>3, <1>4 DEF Processed

\* No step of a call but NextVal makes it carry a new position.
LEMMA StepIsBacked ==
  ASSUME TypeOK, NEW c \in Calls, Step(c), ~NextVal(c)
  PROVE  \E x : Backed(x) /\ call' = [call EXCEPT ![c] = x]
<1>0. call[c] \in CallState /\ row \in [Tokens -> Row]
  BY TypeOKParts DEF SoundRows
<1>1. ASSUME NEW pc, Goto(c, pc)
      PROVE  \E x : Backed(x) /\ call' = [call EXCEPT ![c] = x]
  <2> DEFINE x == [call[c] EXCEPT !.pc = pc]
  <2>1. x.token = call[c].token /\ x.read = call[c].read /\ x.todo = call[c].todo
    BY <1>0 DEF CallState
  <2>2. Backed(x)
    <3> HIDE DEF x
    <3> QED BY <2>1, CarriedIsClaimed DEF Backed, Carries
  <2> QED BY <1>1, <2>2 DEF Goto
<1>2. ASSUME Answer(c)
      PROVE  \E x : Backed(x) /\ call' = [call EXCEPT ![c] = x]
  BY <1>2, IdleIsBacked DEF Answer
<1>3. ASSUME Read(c, call[c].token)
      PROVE  \E x : Backed(x) /\ call' = [call EXCEPT ![c] = x]
  <2> DEFINE k == call[c].token
             x == [call[c] EXCEPT !.pc = "count", !.token = k, !.read = row[k], !.lag = 0,
                                  !.age = 0]
  <2>1. x.token = k /\ x.read = row[k] /\ x.todo = call[c].todo
    BY <1>0 DEF CallState
  <2>2. Backed(x)
    <3> HIDE DEF x
    <3> QED BY <2>1 DEF Backed, Carries, Claim
  <2> QED BY <1>3, <2>2 DEF Read
<1>4. CASE Select(c) \/ Reselect(c)
  BY <1>1, <1>2, <1>3, <1>4 DEF Select, Reselect
<1>5. CASE Insert(c)
  BY <1>1, <1>5 DEF Insert
<1>6. CASE Count(c) \/ Incr(c)
  BY <1>1, <1>6, ProcessedIsBacked DEF Count, Incr
<1>7. CASE Delete(c) \/ Grant(c) \/ Wait(c)
  BY <1>7, ProcessedIsBacked DEF Delete, Grant, Wait
<1>8. CASE SelectAll(c)
  <2> DEFINE todo == {<<k, row[k]>> : k \in {k \in TokensOf(call[c].user) : Exists(k)}}
  <2>1. todo \in SUBSET (Tokens \X Row)
    BY <1>0 DEF TokensOf
  <2>2. \A t \in todo : \A n \in Nat \ {0} : t[2].pos = n => Claim(t[1], n)
    BY DEF Claim
  <2> QED BY <2>1, <2>2, <1>8, ProceedIsBacked DEF SelectAll
<1>9. CASE BanDelete(c)
  BY <1>2, <1>9 DEF BanDelete
<1> QED BY <1>4, <1>5, <1>6, <1>7, <1>8, <1>9 DEF Step

(* What is claimed after a step was claimed before it. *)

NoNewClaims == \A k \in Tokens : \A n \in Nat \ {0} : Claim(k, n)' => Claim(k, n)

RowsAreBacked == \A k \in Tokens : \A n \in Nat \ {0} : row'[k].pos = n => Claim(k, n)

LEMMA CallKeepsClaims ==
  ASSUME TypeOK, RowsAreBacked, NEW c \in Calls,
         \E x : Backed(x) /\ call' = [call EXCEPT ![c] = x]
  PROVE  NoNewClaims
<1>1. PICK x : Backed(x) /\ call' = [call EXCEPT ![c] = x]
  OBVIOUS
<1>2. \A d \in Calls : call'[d] = IF d = c THEN x ELSE call[d]
  BY <1>1, TypeOKParts
<1>3. ASSUME NEW k \in Tokens, NEW n \in Nat \ {0}, NEW d \in Calls, Carries(call'[d], k, n)
      PROVE  Claim(k, n)
  <2>1. CASE d = c
    BY <1>1, <1>2, <1>3, <2>1 DEF Backed
  <2>2. CASE d # c
    BY <1>2, <1>3, <2>2 DEF Claim
  <2> QED BY <2>1, <2>2
<1>4. ASSUME NEW k \in Tokens, NEW n \in Nat \ {0}, Claim(k, n)' PROVE Claim(k, n)
  <2>1. row'[k].pos = n \/ \E d \in Calls : Carries(call'[d], k, n)
    BY <1>4 DEF Claim, Carries
  <2> QED BY <1>3, <2>1 DEF RowsAreBacked
<1> QED BY <1>4 DEF NoNewClaims

\* A step that hands out no position keeps the invariant.
LEMMA ClaimsSuffice ==
  ASSUME PositionsInv, TypeOK', NoNewClaims, UNCHANGED seq
  PROVE  PositionsInv'
<1>1. \A k \in Tokens : \A n \in Nat \ {0} : Claim(k, n)' => n < seq'
  BY DEF PositionsInv, NoNewClaims
<1>2. \A j, k \in Tokens : \A n \in Nat \ {0} : Claim(j, n)' /\ Claim(k, n)' => j = k
  BY DEF PositionsInv, NoNewClaims
<1> QED BY <1>1, <1>2 DEF PositionsInv

\* A row that a statement writes has the position that its call carries.
LEMMA StepRowsAreBacked ==
  ASSUME TypeOK, NEW c \in Calls, Step(c)
  PROVE  RowsAreBacked
<1>0. row \in [Tokens -> Row]
  BY TypeOKParts DEF SoundRows
<1>1. ASSUME NEW k \in Tokens, NEW n \in Nat \ {0}, row'[k].pos = n
      PROVE  Claim(k, n)
  <2>1. \/ row'[k].pos = row[k].pos
        \/ row'[k].pos = 0
        \/ k = call[c].token /\ row'[k].pos = call[c].read.pos
    <3>1. CASE Select(c) \/ NextVal(c) \/ Reselect(c) \/ Count(c) \/ Incr(c) \/ SelectAll(c)
      BY <3>1 DEF Select, NextVal, Reselect, Count, Incr, SelectAll
    <3>2. CASE Insert(c)
      BY <1>0, <3>2 DEF Insert
    <3>3. CASE Delete(c)
      BY <1>0, <3>3 DEF Delete, NoRow
    <3>4. CASE Grant(c)
      BY <1>0, <3>4 DEF Grant, Update
    <3>5. CASE Wait(c)
      <4>1. row' = row \/ row' = [row EXCEPT ![call[c].token].pos = call[c].read.pos]
        BY <3>5, Zenon DEF Wait
      <4> QED BY <1>0, <4>1 DEF Row
    <3>6. CASE BanDelete(c)
      BY <1>0, <3>6 DEF BanDelete, NoRow
    <3> QED BY <3>1, <3>2, <3>3, <3>4, <3>5, <3>6 DEF Step
  <2>2. row[k].pos = n => Claim(k, n)
    BY DEF Claim
  <2>3. k = call[c].token /\ call[c].read.pos = n => Claim(k, n)
    BY DEF Claim, Carries
  <2> QED BY <1>1, <2>1, <2>2, <2>3
<1> QED BY <1>1 DEF RowsAreBacked

\* nextval hands out the next position, and nothing else is new.
LEMMA NextValClaims ==
  ASSUME PositionsInv, NEW c \in Calls, NextVal(c)
  PROVE  \/ NoNewClaims /\ UNCHANGED seq
         \/ /\ seq' = seq + 1
            /\ \A k \in Tokens : \A n \in Nat \ {0} :
                 Claim(k, n)' => Claim(k, n) \/ (k = call[c].token /\ n = seq)
<1>0. TypeOK /\ call[c] \in CallState /\ call \in [Calls -> CallState]
  BY TypeOKParts DEF PositionsInv
<1>1. CASE Answer(c) /\ UNCHANGED seq
  <2>1. RowsAreBacked
    BY <1>0, StepRowsAreBacked DEF Step
  <2> QED BY <1>0, <1>1, <2>1, IdleIsBacked, CallKeepsClaims DEF Answer
<1>2. CASE /\ call' = [call EXCEPT ![c] =
                      [@ EXCEPT !.pc = "insert", !.read = NewRow(seq)]]
           /\ seq' = seq + 1
  <2> DEFINE x == [call[c] EXCEPT !.pc = "insert", !.read = NewRow(seq)]
  <2>1. x.token = call[c].token /\ x.read.pos = seq /\ x.todo = call[c].todo
    BY <1>0 DEF CallState, NewRow
  <2>2. call' = [call EXCEPT ![c] = x]
    BY <1>2
  <2> HIDE DEF x
  <2>3. \A d \in Calls : call'[d] = IF d = c THEN x ELSE call[d]
    BY <1>0, <2>2
  <2>4. row' = row
    BY DEF NextVal
  <2>5. ASSUME NEW k \in Tokens, NEW n \in Nat \ {0}, NEW d \in Calls,
               Carries(call'[d], k, n)
        PROVE  Claim(k, n) \/ (k = call[c].token /\ n = seq)
    <3>1. CASE d = c
      BY <2>1, <2>3, <2>5, <3>1 DEF Carries, Claim
    <3>2. CASE d # c
      BY <2>3, <2>5, <3>2 DEF Claim
    <3> QED BY <3>1, <3>2
  <2>6. ASSUME NEW k \in Tokens, NEW n \in Nat \ {0}, Claim(k, n)'
        PROVE  Claim(k, n) \/ (k = call[c].token /\ n = seq)
    <3>1. row'[k].pos = n \/ \E d \in Calls : Carries(call'[d], k, n)
      BY <2>6 DEF Claim, Carries
    <3> QED BY <2>4, <2>5, <3>1 DEF Claim
  <2> QED BY <1>2, <2>6
<1> QED BY <1>1, <1>2 DEF NextVal

\* That position is nobody's.
LEMMA NextValKeepsPositions ==
  ASSUME PositionsInv, TypeOK', NEW c \in Calls, NextVal(c)
  PROVE  PositionsInv'
<1> DEFINE Given == /\ seq' = seq + 1
                    /\ \A k \in Tokens : \A n \in Nat \ {0} :
                         Claim(k, n)' => Claim(k, n) \/ (k = call[c].token /\ n = seq)
<1>1. CASE NoNewClaims /\ UNCHANGED seq
  BY <1>1, ClaimsSuffice
<1>2. CASE Given
  <2>0. seq \in Nat
    BY TypeOKParts DEF PositionsInv
  <2>1. \A k \in Tokens : \A n \in Nat \ {0} : Claim(k, n) => n < seq
    BY DEF PositionsInv
  <2>2. \A k \in Tokens : \A n \in Nat \ {0} : Claim(k, n)' => n < seq'
    BY <1>2, <2>0, <2>1
  <2>3. \A j, k \in Tokens : \A n \in Nat \ {0} : Claim(j, n)' /\ Claim(k, n)' => j = k
    <3>1. SUFFICES ASSUME NEW j \in Tokens, NEW k \in Tokens, NEW n \in Nat \ {0},
                          Claim(j, n)', Claim(k, n)'
                   PROVE  j = k
      OBVIOUS
    <3>2. CASE n = seq
      BY <1>2, <2>0, <2>1, <3>1, <3>2
    <3>3. CASE n # seq
      BY <1>2, <3>1, <3>3 DEF PositionsInv
    <3> QED BY <3>2, <3>3
  <2> QED BY <2>2, <2>3 DEF PositionsInv
<1> QED BY <1>1, <1>2, NextValClaims

\* A call that is sent has no position yet.
LEMMA SentIsBacked ==
  ASSUME TypeOK, NEW c \in Calls,
         \/ \E k \in Tokens : Join(c, k) \/ Tamper(c, k)
         \/ \E u \in Users : StartVerify(c, u)
  PROVE  \E x : Backed(x) /\ call' = [call EXCEPT ![c] = x]
<1>1. ASSUME NEW x, x.read.pos = 0, x.todo = {} PROVE Backed(x)
  BY <1>1 DEF Backed, Carries
<1>2. Idle \in CallState /\ Idle.read.pos = 0 /\ Idle.todo = {}
  BY IdleIsSound DEF Sound, Idle, NoRow
<1>3. ASSUME NEW u, NEW k, NEW pc, Send(c, u, k, pc)
      PROVE  \E x : Backed(x) /\ call' = [call EXCEPT ![c] = x]
  <2> DEFINE x == [Idle EXCEPT !.pc = pc, !.user = u, !.token = k]
  <2>1. x.read = Idle.read /\ x.todo = Idle.todo
    BY <1>2 DEF CallState
  <2>2. Backed(x)
    <3> HIDE DEF x
    <3> QED BY <1>1, <1>2, <2>1
  <2> QED BY <1>3, <2>2 DEF Send
<1>4. ASSUME NEW u \in Users, StartVerify(c, u)
      PROVE  \E x : Backed(x) /\ call' = [call EXCEPT ![c] = x]
  <2> DEFINE x == [Idle EXCEPT !.pc = "selectall", !.user = u, !.verify = TRUE]
  <2>1. x.read = Idle.read /\ x.todo = Idle.todo
    BY <1>2 DEF CallState
  <2>2. Backed(x)
    <3> HIDE DEF x
    <3> QED BY <1>1, <1>2, <2>1
  <2> QED BY <1>4, <2>2 DEF StartVerify
<1> QED BY <1>3, <1>4 DEF Join, Tamper

\* Restarts, bans and time give nobody a position.
LEMMA RestartKeepsClaims ==
  ASSUME TypeOK, NEW p \in Processes, Restart(p) PROVE NoNewClaims
<1>1. \A k \in Tokens : row'[k].pos = 0
  BY DEF Restart, NoRow
<1>2. \A d \in Calls : call'[d] = Idle \/ call'[d] = call[d]
  BY DEF Restart
<1>3. ASSUME NEW k \in Tokens, NEW n \in Nat \ {0}, Claim(k, n)' PROVE Claim(k, n)
  <2>1. row'[k].pos = n \/ \E d \in Calls : Carries(call'[d], k, n)
    BY <1>3 DEF Claim, Carries
  <2>2. ASSUME NEW d \in Calls, Carries(call'[d], k, n) PROVE Claim(k, n)
    BY <1>2, <2>2, IdleIsBacked DEF Claim, Backed
  <2> QED BY <1>1, <2>1, <2>2
<1> QED BY <1>3 DEF NoNewClaims

LEMMA TickKeepsClaims ==
  ASSUME TypeOK, Tick PROVE NoNewClaims
<1>0. row \in [Tokens -> Row] /\ \A c \in Calls : Sound(call[c])
  BY TypeOKParts DEF SoundRows
<1>1. \A k \in Tokens : row'[k].pos = row[k].pos
  BY <1>0, AgedRows DEF Tick
<1>2. ASSUME NEW d \in Calls, NEW k \in Tokens, NEW n \in Nat \ {0}, Carries(call'[d], k, n)
      PROVE  Carries(call[d], k, n)
  <2> DEFINE x == call[d]
             y == AgedCall(x)
  <2>1. CASE ~HasRead(d)
    BY <1>2, <2>1 DEF Tick
  <2>2. CASE HasRead(d)
    <3>1. call'[d] = y
      BY <2>2 DEF Tick, AgedCall
    <3>2. x \in CallState /\ x.read \in Row /\ x.todo \in SUBSET (Tokens \X Row)
      BY <1>0 DEF Sound, CallState
    <3>3. y.token = x.token /\ y.read = AgedRow(x.read)
          /\ y.todo = {<<t[1], AgedRow(t[2])>> : t \in x.todo}
      BY <3>2 DEF AgedCall, CallState
    <3> HIDE DEF x, y
    <3>4. Carries(y, k, n)
      BY <1>2, <3>1
    <3>5. CASE y.token = k /\ y.read.pos = n
      BY <3>2, <3>3, <3>5, AgedRows DEF Carries, x
    <3>6. CASE \E u \in y.todo : u[1] = k /\ u[2].pos = n
      <4>1. PICK t \in x.todo : t[1] = k /\ AgedRow(t[2]).pos = n
        BY <3>3, <3>6
      <4>2. t[2] \in Row
        BY <3>2, <4>1
      <4>3. t[2].pos = n
        BY <4>1, <4>2, AgedRows
      <4> QED BY <4>1, <4>3 DEF Carries, x
    <3> QED BY <3>4, <3>5, <3>6 DEF Carries
  <2> QED BY <2>1, <2>2
<1>3. ASSUME NEW k \in Tokens, NEW n \in Nat \ {0}, Claim(k, n)' PROVE Claim(k, n)
  <2>1. row'[k].pos = n \/ \E d \in Calls : Carries(call'[d], k, n)
    BY <1>3 DEF Claim, Carries
  <2> QED BY <1>1, <1>2, <2>1 DEF Claim
<1> QED BY <1>3 DEF NoNewClaims

LEMMA InitPositions == Init => PositionsInv
<1> SUFFICES ASSUME Init PROVE PositionsInv
  OBVIOUS
<1>1. ASSUME NEW k \in Tokens, NEW n \in Nat \ {0} PROVE ~Claim(k, n)
  BY DEF Init, Claim, Carries, Idle, NoRow
<1> QED BY <1>1, InitTypes DEF PositionsInv

LEMMA NextPositions == PositionsInv /\ [Next]_vars => PositionsInv'
<1> SUFFICES ASSUME PositionsInv, [Next]_vars PROVE PositionsInv'
  OBVIOUS
<1>0. TypeOK /\ TypeOK'
  BY NextTypes DEF PositionsInv
<1>1. ASSUME NEW c \in Calls, Step(c), ~NextVal(c) PROVE PositionsInv'
  <2>1. NoNewClaims
    BY <1>0, <1>1, StepRowsAreBacked, StepIsBacked, CallKeepsClaims
  <2>2. UNCHANGED seq
    BY <1>1 DEF Step, Select, Insert, Reselect, Count, Delete, Incr, Grant, Wait,
                SelectAll, BanDelete
  <2> QED BY <1>0, <2>1, <2>2, ClaimsSuffice
<1>2. ASSUME NEW c \in Calls, NextVal(c) PROVE PositionsInv'
  BY <1>0, <1>2, NextValKeepsPositions
<1>3. ASSUME NEW c \in Calls,
             \/ \E k \in Tokens : Join(c, k) \/ Tamper(c, k)
             \/ \E u \in Users : StartVerify(c, u)
      PROVE  PositionsInv'
  <2>1. UNCHANGED <<row, seq>>
    BY <1>3 DEF Join, Tamper, StartVerify
  <2>2. RowsAreBacked
    BY <2>1 DEF RowsAreBacked, Claim
  <2>3. NoNewClaims
    BY <1>0, <1>3, <2>2, SentIsBacked, CallKeepsClaims
  <2> QED BY <1>0, <2>1, <2>3, ClaimsSuffice
<1>4. ASSUME NEW p \in Processes, Restart(p) PROVE PositionsInv'
  BY <1>0, <1>4, RestartKeepsClaims, ClaimsSuffice DEF Restart
<1>5. ASSUME UNCHANGED <<row, seq, call>> PROVE PositionsInv'
  <2>1. NoNewClaims
    BY <1>5 DEF NoNewClaims, Claim, Carries
  <2> QED BY <1>0, <1>5, <2>1, ClaimsSuffice
<1>6. ASSUME Tick PROVE PositionsInv'
  <2>1. UNCHANGED seq
    BY <1>6, Zenon DEF Tick
  <2> QED BY <1>0, <1>6, <2>1, TickKeepsClaims, ClaimsSuffice
<1>7. CASE UNCHANGED vars
  BY <1>5, <1>7 DEF vars
<1>8. CASE \E p \in Processes, u \in Users : BanEnds(p, u)
  BY <1>5, <1>8 DEF BanEnds
<1> QED BY <1>1, <1>2, <1>3, <1>4, <1>6, <1>7, <1>8 DEF Next, Poll

LEMMA PositionsAreUnique == PositionsInv => UniquePositions
<1> SUFFICES ASSUME PositionsInv, NEW j \in Tokens, NEW k \in Tokens,
                    Exists(j), Exists(k), row[j].pos = row[k].pos
             PROVE  j = k
  BY DEF UniquePositions
<1>1. row[k].pos \in Nat \ {0}
  BY TypeOKParts DEF PositionsInv, SoundRows, Row, Exists
<1>2. Claim(j, row[k].pos) /\ Claim(k, row[k].pos)
  BY DEF Claim
<1> QED BY <1>1, <1>2 DEF PositionsInv

\* No two tokens of the queue have the same position, however many calls
\* overlap and write back what they read before (queue.service.ts 161-183).
THEOREM QueuePositions == Spec => []UniquePositions
<1>1. Spec => []PositionsInv
  BY InitPositions, NextPositions, PTL DEF Spec
<1> QED BY <1>1, PositionsAreUnique, PTL

(***************************************************************************)
(* Nobody overtakes.                                                       *)
(***************************************************************************)

\* The set of the positions that are claimed, of the module's property.
LEMMA ClaimsAreClaimed ==
  ASSUME NEW k \in Tokens, NEW n \in Nat \ {0}
  PROVE  /\ n \in Claims(k) <=> Claim(k, n)
         /\ n \in Claims(k)' <=> Claim(k, n)'
<1>1. n \in Claims(k) <=> Claim(k, n)
  BY DEF Claims, Claim, Carries
<1>2. n \in Claims(k)' <=> Claim(k, n)'
  BY DEF Claims, Claim, Carries
<1> QED BY <1>1, <1>2

LEMMA NatClaims ==
  ASSUME NEW k \in Tokens
  PROVE  TypeOK' => Claims(k)' \subseteq Nat
<1> SUFFICES ASSUME TypeOK' PROVE Claims(k)' \subseteq Nat
  OBVIOUS
<1>1. row'[k].pos \in Nat /\ \A c \in Calls : call'[c].read.pos \in Nat
  BY DEF TypeOK, Row, CallState
<1>2. \A c \in Calls : \A t \in call'[c].todo : t[2].pos \in Nat
  BY DEF TypeOK, Row, CallState
<1> QED BY <1>1, <1>2 DEF Claims

\* What is claimed after a step was so before, or has just been given out; and
\* the rows have positions that their tokens laid claim to.
LEMMA NextClaims ==
  ASSUME PositionsInv, [Next]_vars
  PROVE  /\ RowsAreBacked
         /\ \A k \in Tokens : \A n \in Nat \ {0} : Claim(k, n)' => Claim(k, n) \/ n = seq
<1>0. TypeOK /\ row \in [Tokens -> Row]
  BY TypeOKParts DEF PositionsInv, SoundRows
<1> DEFINE Drawn == \A k \in Tokens : \A n \in Nat \ {0} :
                      Claim(k, n)' => Claim(k, n) \/ n = seq
<1>1. NoNewClaims => Drawn
  BY DEF NoNewClaims
<1>2. ASSUME row' = row PROVE RowsAreBacked
  BY <1>2 DEF RowsAreBacked, Claim
<1>3. ASSUME NEW c \in Calls, Step(c) PROVE RowsAreBacked /\ Drawn
  <2>1. RowsAreBacked
    BY <1>0, <1>3, StepRowsAreBacked
  <2>2. CASE ~NextVal(c)
    <3>1. NoNewClaims
      BY <1>0, <1>3, <2>1, <2>2, StepIsBacked, CallKeepsClaims
    <3> QED BY <1>1, <2>1, <3>1
  <2>3. CASE NextVal(c)
    <3>1. Drawn
      BY <1>1, <2>3, NextValClaims
    <3> QED BY <2>1, <3>1
  <2> QED BY <2>1, <2>2, <2>3
<1>4. ASSUME NEW c \in Calls,
             \/ \E k \in Tokens : Join(c, k) \/ Tamper(c, k)
             \/ \E u \in Users : StartVerify(c, u)
      PROVE  RowsAreBacked /\ Drawn
  <2>1. RowsAreBacked
    BY <1>2, <1>4 DEF Join, Tamper, StartVerify
  <2>2. NoNewClaims
    BY <1>0, <1>4, <2>1, SentIsBacked, CallKeepsClaims
  <2> QED BY <1>1, <2>1, <2>2
<1>5. ASSUME NEW p \in Processes, Restart(p) PROVE RowsAreBacked /\ Drawn
  <2>1. \A k \in Tokens : row'[k].pos = 0
    BY <1>5 DEF Restart, NoRow
  <2> QED BY <1>0, <1>1, <1>5, <2>1, RestartKeepsClaims DEF RowsAreBacked
<1>6. ASSUME Tick PROVE RowsAreBacked /\ Drawn
  <2>1. \A k \in Tokens : row'[k].pos = row[k].pos
    BY <1>0, <1>6, AgedRows DEF Tick
  <2>2. RowsAreBacked
    BY <2>1 DEF RowsAreBacked, Claim
  <2> QED BY <1>0, <1>1, <1>6, <2>2, TickKeepsClaims
<1>7. ASSUME UNCHANGED <<row, call>> PROVE RowsAreBacked /\ Drawn
  <2>1. NoNewClaims
    BY <1>7 DEF NoNewClaims, Claim, Carries
  <2> QED BY <1>1, <1>2, <1>7, <2>1
<1> HIDE DEF Drawn
<1>8. ASSUME UNCHANGED vars PROVE RowsAreBacked /\ Drawn
  BY <1>7, <1>8 DEF vars
<1>9. ASSUME \E p \in Processes, u \in Users : BanEnds(p, u) PROVE RowsAreBacked /\ Drawn
  BY <1>7, <1>9 DEF BanEnds
<1>10. RowsAreBacked /\ Drawn
  BY <1>3, <1>4, <1>5, <1>6, <1>8, <1>9 DEF Next, Poll
<1> QED BY <1>10 DEF Drawn

\* A token that stays has a position of its own, and nobody is new before it.
LEMMA NextOvertakesNobody ==
  ASSUME PositionsInv, [Next]_vars, NEW k \in Tokens, Exists(k), row'[k].pos # 0
  PROVE  \E n \in Claims(k) : row'[k].pos = n /\ Before(n)' \subseteq Before(n)
<1>0. TypeOK /\ TypeOK'
  BY NextTypes DEF PositionsInv
<1>1. PICK n \in Nat \ {0} : row'[k].pos = n
  BY <1>0 DEF TypeOK, Row
<1>2. Claim(k, n)
  BY <1>1, NextClaims DEF RowsAreBacked
<1>3. n \in Claims(k) /\ n < seq /\ seq \in Nat
  BY <1>0, <1>1, <1>2, ClaimsAreClaimed DEF PositionsInv, TypeOK
<1>4. ASSUME NEW j \in Tokens, NEW m \in Claims(j)', 0 < m, m < n
      PROVE  j \in Before(n)
  <2>1. m \in Nat \ {0}
    <3>1. Claims(j)' \subseteq Nat
      BY <1>0, NatClaims
    <3> QED BY <1>4, <3>1
  <2>2. Claim(j, m) \/ m = seq
    BY <1>4, <2>1, ClaimsAreClaimed, NextClaims
  <2>3. m \in Claims(j)
    BY <1>1, <1>3, <1>4, <2>1, <2>2, ClaimsAreClaimed
  <2> QED BY <1>4, <2>3 DEF Before
<1>5. Before(n)' \subseteq Before(n)
  BY <1>4 DEF Before
<1> QED BY <1>1, <1>3, <1>5

LEMMA SpecPositions == Spec => []PositionsInv
BY InitPositions, NextPositions, PTL DEF Spec

\* Nobody gets ahead of a token that stays in the queue, but with a position of
\* its own, however many calls of however many tabs overlap (queue.service.ts
\* 161-172, 226-274).
THEOREM NobodyOvertakes == Spec => NoOvertaking
<1>1. PositionsInv /\ [Next]_vars
        => [\A k \in Tokens :
              Exists(k) /\ row'[k].pos # 0
                => \E n \in Claims(k) : row'[k].pos = n /\ Before(n)' \subseteq Before(n)]_vars
  BY NextOvertakesNobody
<1> QED BY <1>1, SpecPositions, PTL DEF Spec, NoOvertaking

(***************************************************************************)
(* Windows.  Several calls may work with one row, each with what it read   *)
(* of it.                                                                  *)
(***************************************************************************)

Reading == {"count", "delete", "incr", "grant", "wait"}

\* The row with birth n is one that the call has read, or is about to insert.
Bears(x, n) == \/ x.pc \in Working /\ x.read.born = n
               \/ \E t \in x.todo : t[2].born = n

\* What a call that read row e of token k, age ago, may rely on if the rows are r.
\* Where there was no window, one may have opened since.  As long as the row has
\* not been replaced, a window that was there is there still, unless one that
\* had been young was opened anew.
Entry(k, e, age, r) ==
  /\ e.window = Null => r[k].window = Null \/ r[k].window >= Window - age
  /\ e.window # Null /\ r[k].pos # 0 /\ r[k].born = e.born
       => /\ r[k].window # Null
          /\ r[k].window = e.window \/ e.window >= Window - MaxLag - age

Entries(x, r) == /\ x.pc \in Reading => Entry(x.token, x.read, x.age, r)
                 /\ \A t \in x.todo : Entry(t[1], t[2], x.age, r)

\* What brought the call to its place.
Placed(x) == /\ x.pc \notin Reading => x.todo = {}
             /\ x.pc \in {"insert", "incr", "grant"} => x.read.window = Null
             /\ x.pc = "delete" => x.read.window # Null /\ x.read.window < 0

\* Each row has a birth of its own, which nobody knows before it is inserted.
Unborn(n, r) == /\ n > 0
                /\ \A k \in Tokens : r[k].born # n

BirthInv ==
  /\ \A k \in Tokens : row[k].born < seq
  /\ \A c \in Calls : \A n \in Nat : Bears(call[c], n) => n < seq
  /\ \A d \in Calls : At(d, "insert") =>
       /\ Unborn(call[d].read.born, row)
       /\ \A c \in Calls \ {d} : ~Bears(call[c], call[d].read.born)

WindowInv == /\ TypeOK
             /\ BirthInv
             /\ \A c \in Calls : Placed(call[c]) /\ Entries(call[c], row)

\* The data of a call, in the types of its place.
LEMMA CallFacts ==
  ASSUME TypeOK, NEW c \in Calls
  PROVE  /\ row \in [Tokens -> Row] /\ \A k \in Tokens : row[k].pos = 0 => row[k] = NoRow
         /\ call \in [Calls -> CallState] /\ call[c] \in CallState /\ Sound(call[c])
         /\ call[c].pc \notin Tokenless => call[c].token \in Tokens
         /\ call[c].pc \in Working => call[c].read.pos > 0
         /\ call[c].read \in Row /\ call[c].todo \in SUBSET (Tokens \X Row)
         /\ call[c].age \in 0 .. MaxLag /\ seq \in Nat \ {0}
BY TypeOKParts, QueueAssumption DEF SoundRows, Sound, CallState

\* Windows are integers, and a window still fresh is not over.
LEMMA WindowFacts ==
  /\ Null \notin Int /\ Window \in Int /\ MaxLag \in Nat /\ Floor \in Int /\ Floor < 0
  /\ 2 * MaxLag =< Window
  /\ \A r \in Row : r.window = Null \/ r.window \in Floor .. Window
  /\ Null # Window
BY QueueAssumption DEF Floor, Row, Windows

\* What a statement of call c may do to the row of k: nothing; delete it; insert
\* one; open its window; or set its position.
RowMoves(c, k) ==
  \/ row'[k] = row[k]
  \/ row'[k] = NoRow
  \/ At(c, "insert") /\ call[c].token = k /\ row'[k] = call[c].read
  \/ /\ At(c, "grant") /\ call[c].token = k /\ Exists(k)
     /\ row'[k].window = Window /\ row'[k].born = row[k].born
  \/ /\ Exists(k)
     /\ row'[k].window = row[k].window /\ row'[k].born = row[k].born

LEMMA StepMoves ==
  ASSUME TypeOK, NEW c \in Calls, Step(c), NEW k \in Tokens
  PROVE  RowMoves(c, k)
<1>0. row \in [Tokens -> Row] /\ row[k] \in Row
  BY CallFacts
<1>1. CASE Select(c) \/ NextVal(c) \/ Reselect(c) \/ Count(c) \/ Incr(c) \/ SelectAll(c)
  BY <1>1 DEF Select, NextVal, Reselect, Count, Incr, SelectAll, RowMoves
<1>2. CASE Insert(c)
  BY <1>0, <1>2 DEF Insert, RowMoves
<1>3. CASE Delete(c)
  BY <1>0, <1>3 DEF Delete, RowMoves
<1>4. CASE Grant(c)
  <2>1. CASE k = call[c].token /\ Exists(k)
    <3>1. row'[k] = [row[k] EXCEPT !.pos = call[c].read.pos, !.window = Window]
      BY <1>0, <1>4, <2>1 DEF Grant, Update
    <3>2. row'[k].window = Window /\ row'[k].born = row[k].born
      BY <1>0, <3>1 DEF Row
    <3> QED BY <1>4, <2>1, <3>2 DEF Grant, RowMoves
  <2>2. CASE ~(k = call[c].token /\ Exists(k))
    BY <1>0, <1>4, <2>2 DEF Grant, Update, RowMoves
  <2> QED BY <2>1, <2>2
<1>5. CASE Wait(c)
  <2>1. CASE k = call[c].token /\ Exists(k)
    <3>1. row'[k] = [row[k] EXCEPT !.pos = call[c].read.pos]
      BY <1>0, <1>5, <2>1 DEF Wait
    <3>2. row'[k].window = row[k].window /\ row'[k].born = row[k].born
      BY <1>0, <3>1 DEF Row
    <3> QED BY <2>1, <3>2 DEF RowMoves
  <2>2. CASE ~(k = call[c].token /\ Exists(k))
    BY <1>0, <1>5, <2>2 DEF Wait, RowMoves
  <2> QED BY <2>1, <2>2
<1>6. CASE BanDelete(c)
  BY <1>6 DEF BanDelete, RowMoves
<1> QED BY <1>1, <1>2, <1>3, <1>4, <1>5, <1>6 DEF Step

\* A statement of any call leaves what another entry says true, unless it
\* inserts the very row that the entry is of.
LEMMA EntryStays ==
  ASSUME WindowInv, NEW c \in Calls, Step(c),
         NEW k \in Tokens, NEW e \in Row, NEW age \in 0 .. MaxLag, Entry(k, e, age, row),
         At(c, "insert") => e.born # call[c].read.born
  PROVE  Entry(k, e, age, row')
<1> USE WindowFacts
<1>0. /\ RowMoves(c, k) /\ row[k] \in Row /\ call[c].read \in Row
      /\ call[c].age \in 0 .. MaxLag
      /\ Placed(call[c]) /\ Entries(call[c], row)
  BY StepMoves, CallFacts DEF WindowInv
<1>1. CASE row'[k] = row[k]
  BY <1>1 DEF Entry
<1>2. CASE row'[k] = NoRow
  BY <1>2 DEF Entry, NoRow
<1>3. CASE At(c, "insert") /\ call[c].token = k /\ row'[k] = call[c].read
  BY <1>0, <1>3 DEF Entry, Placed, At
<1>4. CASE /\ At(c, "grant") /\ call[c].token = k /\ Exists(k)
           /\ row'[k].window = Window /\ row'[k].born = row[k].born
  <2>1. Entry(k, call[c].read, call[c].age, row) /\ call[c].read.window = Null
    BY <1>0, <1>4 DEF Entries, Placed, At, Reading
  <2>2. row[k].window # Null => row[k].window >= Window - call[c].age
    BY <2>1 DEF Entry
  <2>3. row[k].window = Null \/ row[k].window \in Int
    BY <1>0
  <2>4. e.window # Null /\ row[k].born = e.born => e.window >= Window - MaxLag - age
    BY <1>0, <1>4, <2>2, <2>3 DEF Entry, Exists
  <2> QED BY <1>4, <2>4 DEF Entry
<1>5. CASE /\ Exists(k)
           /\ row'[k].window = row[k].window /\ row'[k].born = row[k].born
  BY <1>5 DEF Entry, Exists
<1> QED BY <1>0, <1>1, <1>2, <1>3, <1>4, <1>5 DEF RowMoves

\* What a call reads now is as it is.
LEMMA EntryNow ==
  ASSUME NEW k, NEW r, NEW age \in 0 .. MaxLag
  PROVE  Entry(k, r[k], age, r)
BY DEF Entry

\* What call c may become, but by drawing a position.
Fits(c, x) ==
  /\ Placed(x) /\ Entries(x, row')
  /\ x.pc # "insert"
  /\ \A n \in Nat : Bears(x, n) => Bears(call[c], n) \/ \E k \in Tokens : row[k].born = n

LEMMA IdleFits ==
  ASSUME NEW c \in Calls PROVE Fits(c, Idle)
<1>1. Idle.pc = "idle" /\ Idle.todo = {}
  BY DEF Idle
<1> QED BY <1>1 DEF Fits, Placed, Entries, Bears, Reading, Working

\* A verification goes on with what it read of the next token, or answers.
LEMMA ProceedFits ==
  ASSUME TypeOK, NEW c \in Calls, NEW todo \in SUBSET (Tokens \X Row),
         \A t \in todo : Entry(t[1], t[2], call[c].age, row'),
         \A t \in todo : \/ t \in call[c].todo
                         \/ \E k \in Tokens : row[k].born = t[2].born,
         Proceed(c, todo)
  PROVE  \E x : call' = [call EXCEPT ![c] = x] /\ Fits(c, x)
<1>1. CASE \E t \in todo : call' = [call EXCEPT ![c] =
                        [@ EXCEPT !.pc = "count", !.token = t[1], !.read = t[2],
                                  !.lag = 0, !.todo = todo \ {t}]]
  <2>1. PICK t \in todo : call' = [call EXCEPT ![c] =
                        [@ EXCEPT !.pc = "count", !.token = t[1], !.read = t[2],
                                  !.lag = 0, !.todo = todo \ {t}]]
    BY <1>1
  <2> DEFINE x == [call[c] EXCEPT !.pc = "count", !.token = t[1], !.read = t[2],
                                  !.lag = 0, !.todo = todo \ {t}]
  <2>2. /\ x.pc = "count" /\ x.token = t[1] /\ x.read = t[2]
        /\ x.todo = todo \ {t} /\ x.age = call[c].age
    BY CallFacts DEF CallState
  <2>3. call' = [call EXCEPT ![c] = x]
    BY <2>1
  <2> HIDE DEF x
  <2>4. Placed(x)
    BY <2>2 DEF Placed, Reading
  <2>5. Entries(x, row')
    BY <2>2 DEF Entries
  <2>6. ASSUME NEW n \in Nat, Bears(x, n)
        PROVE  Bears(call[c], n) \/ \E k \in Tokens : row[k].born = n
    <3>1. PICK s \in todo : s[2].born = n
      BY <2>2, <2>6 DEF Bears
    <3> QED BY <3>1 DEF Bears
  <2> QED BY <2>2, <2>3, <2>4, <2>5, <2>6 DEF Fits
<1>2. CASE Answer(c)
  BY <1>2, IdleFits DEF Answer
<1> QED BY <1>1, <1>2 DEF Proceed

LEMMA ProcessedFits ==
  ASSUME WindowInv, NEW c \in Calls, Step(c), ~At(c, "insert"), NEW w, Processed(c, w)
  PROVE  \E x : call' = [call EXCEPT ![c] = x] /\ Fits(c, x)
<1> DEFINE todo == call[c].todo
<1>1. TypeOK /\ todo \in SUBSET (Tokens \X Row) /\ call[c].age \in 0 .. MaxLag
  BY CallFacts DEF WindowInv
<1>2. ASSUME NEW t \in todo PROVE Entry(t[1], t[2], call[c].age, row')
  <2>1. t[1] \in Tokens /\ t[2] \in Row
    BY <1>1
  <2>2. Entry(t[1], t[2], call[c].age, row)
    BY DEF WindowInv, Entries
  <2> QED BY <1>1, <2>1, <2>2, EntryStays
<1>3. CASE Proceed(c, todo)
  BY <1>1, <1>2, <1>3, ProceedFits
<1>4. CASE Answer(c)
  BY <1>4, IdleFits DEF Answer
<1> QED BY <1>3, <1>4 DEF Processed

\* Every statement but the drawing leaves its call at a place it fits.
LEMMA StepFits ==
  ASSUME WindowInv, NEW c \in Calls, Step(c), ~NextVal(c)
  PROVE  \E x : call' = [call EXCEPT ![c] = x] /\ Fits(c, x)
<1> DEFINE k == call[c].token
           Goal == \E x : call' = [call EXCEPT ![c] = x] /\ Fits(c, x)
<1>0. /\ TypeOK /\ row \in [Tokens -> Row] /\ call[c] \in CallState
      /\ call[c].pc \notin Tokenless => k \in Tokens
      /\ call[c].age \in 0 .. MaxLag /\ 0 \in 0 .. MaxLag
      /\ Placed(call[c]) /\ Entries(call[c], row)
  BY CallFacts, QueueAssumption DEF WindowInv
<1>1. ASSUME NEW pc, Goto(c, pc), row' = row, pc # "insert",
             pc \in Reading <=> call[c].pc \in Reading, pc \notin {"grant", "incr"},
             pc = "delete" => call[c].read.window # Null /\ call[c].read.window < 0
      PROVE  Goal
  <2> DEFINE x == [call[c] EXCEPT !.pc = pc]
  <2>1. /\ x.pc = pc /\ x.token = k /\ x.read = call[c].read
        /\ x.todo = call[c].todo /\ x.age = call[c].age
    BY <1>0 DEF CallState
  <2>2. call' = [call EXCEPT ![c] = x]
    BY <1>1 DEF Goto
  <2> HIDE DEF x
  <2>3. Placed(x) /\ Entries(x, row')
    BY <1>0, <1>1, <2>1 DEF Placed, Entries
  <2>4. \A n : Bears(x, n) => Bears(call[c], n)
    BY <1>1, <2>1 DEF Bears, Working, Reading
  <2> QED BY <1>1, <2>1, <2>2, <2>3, <2>4 DEF Fits
<1>2. ASSUME NEW pc \in {"grant", "incr"}, Goto(c, pc), row' = row,
             call[c].pc \in Reading, call[c].read.window = Null
      PROVE  Goal
  <2> DEFINE x == [call[c] EXCEPT !.pc = pc]
  <2>1. /\ x.pc = pc /\ x.token = k /\ x.read = call[c].read
        /\ x.todo = call[c].todo /\ x.age = call[c].age
    BY <1>0 DEF CallState
  <2>2. call' = [call EXCEPT ![c] = x]
    BY <1>2 DEF Goto
  <2> HIDE DEF x
  <2>3. Placed(x) /\ Entries(x, row')
    BY <1>0, <1>2, <2>1 DEF Placed, Entries, Reading
  <2>4. \A n : Bears(x, n) => Bears(call[c], n)
    BY <1>2, <2>1 DEF Bears, Working, Reading
  <2> QED BY <1>2, <2>1, <2>2, <2>3, <2>4 DEF Fits
<1>3. ASSUME Answer(c) PROVE Goal
  BY <1>3, IdleFits DEF Answer
<1>4. ASSUME Read(c, k), row' = row, call[c].pc \in {"select", "reselect"} PROVE Goal
  <2> DEFINE x == [call[c] EXCEPT !.pc = "count", !.token = k, !.read = row[k], !.lag = 0,
                                  !.age = 0]
  <2>1. /\ x.pc = "count" /\ x.token = k /\ x.read = row[k]
        /\ x.todo = call[c].todo /\ x.age = 0
    BY <1>0 DEF CallState
  <2>2. call' = [call EXCEPT ![c] = x]
    BY <1>4 DEF Read
  <2>3. k \in Tokens /\ call[c].todo = {}
    BY <1>0, <1>4 DEF Tokenless, Placed, Reading
  <2> HIDE DEF x, k
  <2>4. Placed(x) /\ x.pc # "insert"
    BY <2>1 DEF Placed, Reading
  <2>5. Entries(x, row')
    BY <1>0, <1>4, <2>1, <2>3, EntryNow DEF Entries
  <2>6. \A n : Bears(x, n) => row[k].born = n
    BY <2>1, <2>3 DEF Bears
  <2> QED BY <2>2, <2>3, <2>4, <2>5, <2>6 DEF Fits
<1>5. CASE Select(c) \/ Reselect(c)
  <2>1. row' = row /\ call[c].pc \in {"select", "reselect"}
    BY <1>5 DEF Select, Reselect, At
  <2>2. CASE Goto(c, "nextval")
    BY <1>1, <2>1, <2>2 DEF Reading
  <2> QED BY <1>3, <1>4, <1>5, <2>1, <2>2 DEF Select, Reselect
<1>6. CASE Insert(c)
  <2>1. call[c].pc = "insert" /\ Goto(c, "reselect")
    BY <1>6 DEF Insert, At
  <2> DEFINE x == [call[c] EXCEPT !.pc = "reselect"]
  <2>2. x.pc = "reselect" /\ x.todo = call[c].todo
    BY <1>0 DEF CallState
  <2>3. call' = [call EXCEPT ![c] = x]
    BY <2>1 DEF Goto
  <2>4. call[c].todo = {}
    BY <1>0, <2>1 DEF Placed, Reading
  <2> HIDE DEF x
  <2>5. Fits(c, x)
    BY <2>2, <2>4 DEF Fits, Placed, Entries, Bears, Reading, Working
  <2> QED BY <2>3, <2>5
<1>7. CASE Count(c) \/ Incr(c)
  <2>1. row' = row /\ call[c].pc \in {"count", "incr"} /\ ~At(c, "insert")
    BY <1>7 DEF Count, Incr, At
  <2>2. Goto(c, "wait") => Goal
    BY <1>1, <2>1 DEF Reading
  <2>3. call[c].read.window = Null => (Goto(c, "incr") \/ Goto(c, "grant") => Goal)
    BY <1>2, <2>1 DEF Reading
  <2>4. call[c].read.window # Null /\ call[c].read.window < 0 /\ Goto(c, "delete") => Goal
    BY <1>1, <2>1 DEF Reading
  <2>5. \A w : Processed(c, w) => Goal
    BY <2>1, ProcessedFits
  <2>6. Incr(c) => call[c].read.window = Null
    BY <1>0 DEF Incr, At, Placed
  <2> HIDE DEF Goal
  <2>7. Goal
    BY <1>7, <2>2, <2>3, <2>4, <2>5, <2>6 DEF Count, Incr
  <2> QED BY <2>7 DEF Goal
<1>8. CASE Delete(c) \/ Grant(c) \/ Wait(c)
  BY <1>8, ProcessedFits DEF Delete, Grant, Wait, At
<1>9. CASE SelectAll(c)
  <2> DEFINE todo == {<<j, row[j]>> : j \in {j \in TokensOf(call[c].user) : Exists(j)}}
  <2>1. row' = row /\ Proceed(c, todo)
    BY <1>9 DEF SelectAll
  <2>2. \A t \in todo : t[1] \in Tokens /\ t[2] = row[t[1]]
    BY DEF TokensOf
  <2>3. todo \in SUBSET (Tokens \X Row)
    BY <1>0 DEF TokensOf
  <2> HIDE DEF todo
  <2>4. \A t \in todo : Entry(t[1], t[2], call[c].age, row')
    BY <1>0, <2>1, <2>2, EntryNow
  <2>5. \A t \in todo : \E j \in Tokens : row[j].born = t[2].born
    BY <2>2
  <2> QED BY <1>0, <2>1, <2>3, <2>4, <2>5, ProceedFits
<1>10. CASE BanDelete(c)
  BY <1>3, <1>10 DEF BanDelete
<1> QED BY <1>5, <1>6, <1>7, <1>8, <1>9, <1>10 DEF Step

\* The births that rows have after a statement of call c.
RowBirths(c) ==
  \A k \in Tokens : \/ row'[k].born = row[k].born
                    \/ row'[k].born = 0
                    \/ At(c, "insert") /\ row'[k].born = call[c].read.born

LEMMA StepBirths ==
  ASSUME TypeOK, NEW c \in Calls, Step(c)
  PROVE  RowBirths(c)
<1> SUFFICES ASSUME NEW k \in Tokens
             PROVE  \/ row'[k].born = row[k].born
                    \/ row'[k].born = 0
                    \/ At(c, "insert") /\ row'[k].born = call[c].read.born
  BY DEF RowBirths
<1> QED BY StepMoves DEF RowMoves, NoRow

\* A call that becomes what fits keeps the invariant.
LEMMA FitsKept ==
  ASSUME WindowInv, TypeOK', NEW c \in Calls, RowBirths(c), UNCHANGED seq,
         \A d \in Calls \ {c} : Entries(call[d], row'),
         NEW x, call' = [call EXCEPT ![c] = x], Fits(c, x)
  PROVE  WindowInv'
<1>0. /\ TypeOK /\ call \in [Calls -> CallState] /\ seq \in Nat
      /\ \A d \in Calls : call[d].read.born \in Nat
  BY CallFacts, TypeOKParts DEF WindowInv, Row, CallState
<1>1. \A d \in Calls : call'[d] = IF d = c THEN x ELSE call[d]
  BY <1>0
<1>2. \A d \in Calls : Placed(call'[d]) /\ Entries(call'[d], row')
  BY <1>1 DEF WindowInv, Fits
<1>3. At(c, "insert") => Bears(call[c], call[c].read.born)
  BY DEF At, Bears, Working
<1>4. \A k \in Tokens : row'[k].born < seq'
  <2>1. seq > 0
    BY <1>0 DEF TypeOK
  <2> QED BY <1>0, <1>3, <2>1 DEF WindowInv, BirthInv, RowBirths
<1>5. \A d \in Calls : \A n \in Nat : Bears(call'[d], n) => n < seq'
  BY <1>1 DEF WindowInv, BirthInv, Fits
<1>6. ASSUME NEW d \in Calls, call'[d].pc = "insert"
      PROVE  /\ Unborn(call'[d].read.born, row')
             /\ \A e \in Calls \ {d} : ~Bears(call'[e], call'[d].read.born)
  <2> DEFINE n == call[d].read.born
  <2>1. d # c /\ call'[d] = call[d] /\ At(d, "insert") /\ n \in Nat
    BY <1>0, <1>1, <1>6 DEF Fits, At
  <2>2. Unborn(n, row) /\ \A e \in Calls \ {d} : ~Bears(call[e], n)
    BY <2>1 DEF WindowInv, BirthInv
  <2>3. At(c, "insert") => call[c].read.born # n
    BY <1>3, <2>1, <2>2
  <2> HIDE DEF n
  <2>4. \A k \in Tokens : row'[k].born # n
    BY <2>2, <2>3 DEF RowBirths, Unborn
  <2>5. \A e \in Calls \ {d} : ~Bears(call'[e], n)
    BY <1>1, <2>1, <2>2 DEF Fits, Unborn
  <2> QED BY <2>1, <2>2, <2>4, <2>5 DEF Unborn, n
<1>7. BirthInv'
  BY <1>4, <1>5, <1>6 DEF BirthInv, At
<1> QED BY <1>2, <1>7 DEF WindowInv

\* What other calls have read stays true.
LEMMA OthersStay ==
  ASSUME WindowInv, NEW c \in Calls, Step(c), NEW d \in Calls \ {c}
  PROVE  Entries(call[d], row')
<1> DEFINE x == call[d]
<1>1. /\ TypeOK /\ Entries(x, row) /\ x.age \in 0 .. MaxLag /\ x.read \in Row
      /\ x.pc \notin Tokenless => x.token \in Tokens
      /\ x.todo \in SUBSET (Tokens \X Row)
  BY CallFacts DEF WindowInv
<1>2. At(c, "insert") => ~Bears(x, call[c].read.born)
  BY DEF WindowInv, BirthInv
<1> HIDE DEF x
<1>3. x.pc \in Reading => Entry(x.token, x.read, x.age, row')
  <2> HAVE x.pc \in Reading
  <2>1. x.token \in Tokens /\ Entry(x.token, x.read, x.age, row)
    BY <1>1 DEF Reading, Tokenless, Entries
  <2>2. At(c, "insert") => x.read.born # call[c].read.born
    BY <1>2 DEF Bears, Reading, Working
  <2> QED BY <1>1, <2>1, <2>2, EntryStays
<1>4. ASSUME NEW t \in x.todo PROVE Entry(t[1], t[2], x.age, row')
  <2>1. t[1] \in Tokens /\ t[2] \in Row /\ Entry(t[1], t[2], x.age, row)
    BY <1>1 DEF Entries
  <2>2. At(c, "insert") => t[2].born # call[c].read.born
    BY <1>2 DEF Bears
  <2> QED BY <1>1, <2>1, <2>2, EntryStays
<1> QED BY <1>3, <1>4 DEF Entries, x

\* A row that is to be inserted is a new one.
LEMMA NextValKeepsWindows ==
  ASSUME WindowInv, TypeOK', NEW c \in Calls, NextVal(c)
  PROVE  WindowInv'
<1>0. /\ TypeOK /\ call \in [Calls -> CallState] /\ call[c] \in CallState
      /\ seq \in Nat \ {0} /\ Step(c) /\ row' = row
      /\ \A d \in Calls : call[d].read.born \in Nat
  BY CallFacts DEF WindowInv, Step, NextVal, Row, CallState
<1>1. CASE Answer(c) /\ UNCHANGED seq
  <2>1. call' = [call EXCEPT ![c] = Idle]
    BY <1>1 DEF Answer
  <2> QED BY <1>0, <1>1, <2>1, IdleFits, OthersStay, StepBirths, FitsKept
<1>2. CASE /\ call' = [call EXCEPT ![c] =
                      [@ EXCEPT !.pc = "insert", !.read = NewRow(seq)]]
           /\ seq' = seq + 1
  <2> DEFINE x == [call[c] EXCEPT !.pc = "insert", !.read = NewRow(seq)]
  <2>1. x.pc = "insert" /\ x.read.born = seq /\ x.read.window = Null /\ x.todo = {}
    <3>1. call[c].todo = {}
      BY <1>0 DEF WindowInv, Placed, NextVal, At, Reading
    <3> QED BY <1>0, <3>1 DEF CallState, NewRow
  <2>2. call' = [call EXCEPT ![c] = x]
    BY <1>2
  <2> HIDE DEF x
  <2>3. \A d \in Calls : call'[d] = IF d = c THEN x ELSE call[d]
    BY <1>0, <2>2
  <2>4. \A d \in Calls : Placed(call'[d]) /\ Entries(call'[d], row')
    BY <1>0, <2>1, <2>3 DEF WindowInv, Placed, Entries, Reading
  <2>5. /\ \A k \in Tokens : row[k].born < seq /\ row[k].born # seq
        /\ \A d \in Calls : \A n \in Nat : Bears(call[d], n) => n < seq /\ n # seq
    BY <1>0 DEF WindowInv, BirthInv, TypeOK, Row
  <2>6. \A n \in Nat : Bears(x, n) => n = seq
    BY <2>1 DEF Bears
  <2>7. ASSUME NEW d \in Calls, call'[d].pc = "insert"
        PROVE  /\ Unborn(call'[d].read.born, row')
               /\ \A e \in Calls \ {d} : ~Bears(call'[e], call'[d].read.born)
    <3>1. CASE d = c
      BY <1>0, <2>1, <2>3, <2>5, <3>1 DEF Unborn
    <3>2. CASE d # c
      <4>1. At(d, "insert") /\ call'[d] = call[d]
        BY <2>3, <2>7, <3>2 DEF At
      <4>2. Bears(call[d], call[d].read.born)
        BY <4>1 DEF Bears, At, Working
      <4>3. call[d].read.born # seq
        BY <1>0, <2>5, <4>2
      <4>4. /\ Unborn(call[d].read.born, row)
            /\ \A e \in Calls \ {d} : ~Bears(call[e], call[d].read.born)
        BY <4>1 DEF WindowInv, BirthInv
      <4> QED BY <1>0, <2>3, <2>6, <4>1, <4>3, <4>4 DEF Unborn
    <3> QED BY <3>1, <3>2
  <2>8. \A k \in Tokens : row'[k].born < seq'
    BY <1>0, <1>2, <2>5 DEF TypeOK, Row
  <2>9. \A d \in Calls : \A n \in Nat : Bears(call'[d], n) => n < seq'
    BY <1>0, <1>2, <2>3, <2>5, <2>6
  <2>10. BirthInv'
    BY <2>7, <2>8, <2>9 DEF BirthInv, At
  <2> QED BY <2>4, <2>10 DEF WindowInv
<1> QED BY <1>1, <1>2 DEF NextVal

\* Time passes for the rows and for what was read of them alike.
LEMMA EntryAges ==
  ASSUME TypeOK, NEW k \in Tokens, NEW e \in Row, NEW age \in 0 .. MaxLag, age < MaxLag,
         Entry(k, e, age, row), row'[k] = AgedRow(row[k])
  PROVE  Entry(k, AgedRow(e), age + 1, row')
<1> USE WindowFacts
<1>0. row[k] \in Row
  BY CallFacts, TypeOKParts DEF SoundRows
<1>1. \A r \in Row : /\ AgedRow(r).window = Aged(r.window)
                     /\ AgedRow(r).pos = r.pos /\ AgedRow(r).born = r.born
  BY DEF AgedRow, Row
<1>2. \A r \in Row : r.window # Null =>
         /\ Aged(r.window) # Null
         /\ r.window > Floor => Aged(r.window) = r.window - 1
  BY DEF Aged
<1>3. Aged(Null) = Null
  BY DEF Aged
<1>4. e.window = Null => AgedRow(e).window = Null
  BY <1>1, <1>3
<1>5. AgedRow(e).window = Null => e.window = Null
  BY <1>1, <1>2
<1>6. e.window = Null => Aged(row[k].window) = Null \/ Aged(row[k].window) >= Window - (age + 1)
  <2> HAVE e.window = Null
  <2>1. row[k].window # Null => row[k].window > Floor /\ row[k].window >= Window - age
    BY <1>0 DEF Entry
  <2> QED BY <1>0, <1>2, <1>3, <2>1
<1>7. ASSUME e.window # Null, row[k].pos # 0, row[k].born = e.born
      PROVE  /\ Aged(row[k].window) # Null
             /\ \/ Aged(row[k].window) = Aged(e.window)
                \/ Aged(e.window) >= Window - MaxLag - (age + 1)
  <2>1. row[k].window # Null
    BY <1>7 DEF Entry
  <2>2. CASE row[k].window = e.window
    BY <1>0, <1>2, <2>1, <2>2
  <2>3. CASE e.window >= Window - MaxLag - age
    <3>1. e.window \in Int /\ e.window > Floor
      BY <1>7, <2>3
    <3>2. Aged(e.window) = e.window - 1
      BY <1>2, <1>7, <3>1
    <3> QED BY <1>0, <1>2, <2>1, <2>3, <3>1, <3>2
  <2> QED BY <1>7, <2>2, <2>3 DEF Entry
<1>8. row'[k].window = Aged(row[k].window) /\ row'[k].pos = row[k].pos
      /\ row'[k].born = row[k].born
  BY <1>0, <1>1
<1>9. AgedRow(e).window = Aged(e.window) /\ AgedRow(e).born = e.born
  BY <1>1
<1>10. AgedRow(e).window = Null
         => row'[k].window = Null \/ row'[k].window >= Window - (age + 1)
  BY <1>5, <1>6, <1>8
<1>11. AgedRow(e).window # Null /\ row'[k].pos # 0 /\ row'[k].born = AgedRow(e).born
         => /\ row'[k].window # Null
            /\ \/ row'[k].window = AgedRow(e).window
               \/ AgedRow(e).window >= Window - MaxLag - (age + 1)
  BY <1>4, <1>7, <1>8, <1>9
<1> QED BY <1>10, <1>11, Zenon DEF Entry

\* A window that is over stays over.
LEMMA AgedOver ==
  ASSUME NEW r \in Row, r.window # Null, r.window < 0
  PROVE  AgedRow(r).window # Null /\ AgedRow(r).window < 0
<1>1. r.window \in Int /\ Null \notin Int /\ r.window \in Windows
  BY QueueAssumption DEF Row, Windows, Floor
<1>2. AgedRow(r).window = Aged(r.window)
  BY DEF AgedRow, Row
<1> QED BY <1>1, <1>2 DEF Aged

LEMMA TickKeepsWindows ==
  ASSUME WindowInv, TypeOK', Tick
  PROVE  WindowInv'
<1>0. /\ TypeOK /\ row \in [Tokens -> Row] /\ seq' = seq
      /\ \A k \in Tokens : row'[k] = AgedRow(row[k])
  BY TypeOKParts, Zenon DEF WindowInv, SoundRows, Tick
<1>1. \A r \in Row : AgedRow(r).born = r.born
  BY DEF AgedRow, Row
<1>2. ASSUME NEW c \in Calls
      PROVE  /\ Placed(call'[c]) /\ Entries(call'[c], row')
             /\ call'[c].pc = call[c].pc
             /\ call[c].pc = "insert" => call'[c] = call[c]
             /\ \A n : Bears(call'[c], n) => Bears(call[c], n)
  <2> DEFINE x == call[c]
             y == AgedCall(x)
  <2>1. /\ x \in CallState /\ x.read \in Row /\ x.todo \in SUBSET (Tokens \X Row)
        /\ x.pc \notin Tokenless => x.token \in Tokens
        /\ x.age \in 0 .. MaxLag
        /\ Placed(x) /\ Entries(x, row)
    BY <1>0, CallFacts DEF WindowInv
  <2>2. CASE ~HasRead(c)
    <3>1. call'[c] = x
      BY <2>2 DEF Tick
    <3>2. Entries(x, row')
      BY <2>1, <2>2 DEF Entries, Placed, HasRead, Reading
    <3> QED BY <2>1, <3>1, <3>2
  <2>3. CASE HasRead(c)
    <3>1. call'[c] = y /\ x.age < MaxLag
      BY <2>3 DEF Tick, AgedCall
    <3>2. /\ y.pc = x.pc /\ y.token = x.token /\ y.read = AgedRow(x.read)
          /\ y.age = x.age + 1
          /\ y.todo = {<<t[1], AgedRow(t[2])>> : t \in x.todo}
      BY <2>1 DEF AgedCall, CallState
    <3>3. x.pc \in Reading /\ x.token \in Tokens
      BY <2>1, <2>3 DEF HasRead, Reading, Tokenless
    <3> HIDE DEF x, y
    <3>4. Entry(y.token, y.read, y.age, row')
      <4>1. Entry(x.token, x.read, x.age, row)
        BY <2>1, <3>3 DEF Entries
      <4> QED BY <1>0, <2>1, <3>1, <3>2, <3>3, <4>1, EntryAges
    <3>5. ASSUME NEW u \in y.todo
          PROVE  Entry(u[1], u[2], y.age, row') /\ \E t \in x.todo : u[2].born = t[2].born
      <4>1. PICK t \in x.todo : u = <<t[1], AgedRow(t[2])>>
        BY <3>2
      <4>2. t[1] \in Tokens /\ t[2] \in Row /\ Entry(t[1], t[2], x.age, row)
        BY <2>1, <4>1 DEF Entries
      <4>3. Entry(t[1], AgedRow(t[2]), x.age + 1, row')
        BY <1>0, <2>1, <3>1, <4>2, EntryAges
      <4> QED BY <1>1, <3>2, <4>1, <4>2, <4>3
    <3>6. Entries(y, row')
      BY <3>4, <3>5 DEF Entries
    <3>7. Placed(y)
      <4>1. x.read.window = Null => y.read.window = Null
        BY <2>1, <3>2 DEF AgedRow, Aged, Row
      <4>2. x.read.window # Null /\ x.read.window < 0
              => y.read.window # Null /\ y.read.window < 0
        BY <2>1, <3>2, AgedOver
      <4> QED BY <2>1, <3>2, <3>3, <4>1, <4>2 DEF Placed
    <3>8. \A n : Bears(y, n) => Bears(x, n)
      BY <1>1, <2>1, <3>2, <3>5 DEF Bears
    <3>9. x.pc # "insert"
      BY <3>3 DEF Reading
    <3> QED BY <3>1, <3>2, <3>6, <3>7, <3>8, <3>9 DEF x
  <2> QED BY <2>2, <2>3
<1>3. \A k \in Tokens : row'[k].born = row[k].born
  BY <1>0, <1>1
<1>4. \A d \in Calls : call[d].read.born \in Nat
  BY <1>0 DEF TypeOK, CallState, Row
<1>5. ASSUME NEW d \in Calls, call'[d].pc = "insert"
      PROVE  /\ Unborn(call'[d].read.born, row')
             /\ \A e \in Calls \ {d} : ~Bears(call'[e], call'[d].read.born)
  <2>1. At(d, "insert") /\ call'[d] = call[d]
    BY <1>2, <1>5 DEF At
  <2>2. /\ Unborn(call[d].read.born, row)
        /\ \A e \in Calls \ {d} : ~Bears(call[e], call[d].read.born)
    BY <2>1 DEF WindowInv, BirthInv
  <2> QED BY <1>2, <1>3, <2>1, <2>2 DEF Unborn
<1>6. BirthInv'
  <2>1. \A k \in Tokens : row'[k].born < seq'
    BY <1>0, <1>3 DEF WindowInv, BirthInv
  <2>2. \A c \in Calls : \A n \in Nat : Bears(call'[c], n) => n < seq'
    BY <1>0, <1>2 DEF WindowInv, BirthInv
  <2> QED BY <1>5, <2>1, <2>2 DEF BirthInv, At
<1> QED BY <1>2, <1>6 DEF WindowInv

\* The steps that send a call.
LEMMA SendKeepsWindows ==
  ASSUME WindowInv, TypeOK', NEW c \in Calls,
         \/ \E k \in Tokens : Join(c, k) \/ Tamper(c, k)
         \/ \E u \in Users : StartVerify(c, u)
  PROVE  WindowInv'
<1>0. /\ row' = row /\ seq' = seq /\ RowBirths(c)
      /\ \A d \in Calls \ {c} : Entries(call[d], row')
      /\ Idle \in CallState /\ Idle.todo = {}
  BY IdleIsSound DEF Join, Tamper, StartVerify, WindowInv, RowBirths, Sound, Idle
<1>1. ASSUME NEW x, call' = [call EXCEPT ![c] = x], x.todo = {},
             x.pc \in {"select", "bandelete", "selectall"}
      PROVE  WindowInv'
  <2>1. Fits(c, x)
    BY <1>1 DEF Fits, Placed, Entries, Bears, Reading, Working
  <2> QED BY <1>0, <1>1, <2>1, FitsKept
<1>2. ASSUME NEW u, NEW k, NEW pc \in {"select", "bandelete"}, Send(c, u, k, pc)
      PROVE  WindowInv'
  <2> DEFINE x == [Idle EXCEPT !.pc = pc, !.user = u, !.token = k]
  <2>1. x.pc = pc /\ x.todo = {} /\ call' = [call EXCEPT ![c] = x]
    BY <1>0, <1>2 DEF Send, CallState
  <2> HIDE DEF x
  <2> QED BY <1>1, <2>1
<1>3. ASSUME NEW u \in Users, StartVerify(c, u) PROVE WindowInv'
  <2> DEFINE x == [Idle EXCEPT !.pc = "selectall", !.user = u, !.verify = TRUE]
  <2>1. x.pc = "selectall" /\ x.todo = {} /\ call' = [call EXCEPT ![c] = x]
    BY <1>0, <1>3 DEF StartVerify, CallState
  <2> HIDE DEF x
  <2> QED BY <1>1, <2>1
<1> QED BY <1>2, <1>3 DEF Join, Tamper

LEMMA RestartKeepsWindows ==
  ASSUME WindowInv, TypeOK', NEW p \in Processes, Restart(p) PROVE WindowInv'
<1>1. /\ \A k \in Tokens : row'[k] = NoRow
      /\ \A d \in Calls : call'[d] = Idle \/ call'[d] = call[d]
      /\ seq' = seq /\ TypeOK /\ seq \in Nat \ {0}
  BY TypeOKParts, QueueAssumption DEF Restart, WindowInv
<1>2. /\ Placed(Idle) /\ Idle.pc = "idle" /\ \A n : ~Bears(Idle, n)
  BY DEF Idle, Placed, Bears, Reading, Working
<1>3. ASSUME NEW d \in Calls
      PROVE  /\ Placed(call'[d]) /\ Entries(call'[d], row')
             /\ \A n : Bears(call'[d], n) => Bears(call[d], n)
             /\ call'[d].pc = "insert" => call'[d] = call[d]
  <2>1. call[d].pc \notin Tokenless => call[d].token \in Tokens
    BY <1>1, CallFacts
  <2>2. call[d].todo \in SUBSET (Tokens \X Row)
    BY <1>1, CallFacts
  <2>3. \A k \in Tokens : \A e, age : Entry(k, e, age, row')
    BY <1>1 DEF Entry, NoRow
  <2>4. Entries(call[d], row')
    BY <2>1, <2>2, <2>3 DEF Entries, Reading, Tokenless
  <2>5. Entries(Idle, row')
    BY DEF Entries, Idle, Reading
  <2> QED BY <1>1, <1>2, <2>4, <2>5 DEF WindowInv
<1>4. NoRow.born = 0
  BY DEF NoRow
<1>5. ASSUME NEW d \in Calls, call'[d].pc = "insert"
      PROVE  /\ Unborn(call'[d].read.born, row')
             /\ \A e \in Calls \ {d} : ~Bears(call'[e], call'[d].read.born)
  <2>1. At(d, "insert") /\ call'[d] = call[d]
    BY <1>3, <1>5 DEF At
  <2>2. /\ Unborn(call[d].read.born, row)
        /\ \A e \in Calls \ {d} : ~Bears(call[e], call[d].read.born)
    BY <2>1 DEF WindowInv, BirthInv
  <2>3. call[d].read.born \in Nat
    BY <1>1 DEF TypeOK, CallState, Row
  <2> QED BY <1>1, <1>3, <1>4, <2>1, <2>2, <2>3 DEF Unborn
<1>6. BirthInv'
  <2>1. \A k \in Tokens : row'[k].born < seq'
    BY <1>1, <1>4
  <2>2. \A c \in Calls : \A n \in Nat : Bears(call'[c], n) => n < seq'
    BY <1>1, <1>3 DEF WindowInv, BirthInv
  <2> QED BY <1>5, <2>1, <2>2 DEF BirthInv, At
<1> QED BY <1>3, <1>6 DEF WindowInv

LEMMA InitWindows == Init => WindowInv
<1> SUFFICES ASSUME Init PROVE WindowInv
  OBVIOUS
<1>1. \A c \in Calls : call[c] = Idle
  BY DEF Init
<1>2. /\ Placed(Idle) /\ Entries(Idle, row) /\ Idle.pc = "idle" /\ \A n : ~Bears(Idle, n)
  BY DEF Idle, Placed, Entries, Bears, Reading, Working
<1>3. \A k \in Tokens : row[k].born < seq
  BY DEF Init, NoRow
<1> QED BY <1>1, <1>2, <1>3, InitTypes DEF WindowInv, BirthInv, At

LEMMA NextWindows == WindowInv /\ [Next]_vars => WindowInv'
<1> SUFFICES ASSUME WindowInv, [Next]_vars PROVE WindowInv'
  OBVIOUS
<1>0. TypeOK'
  BY NextTypes DEF WindowInv
<1>1. ASSUME NEW c \in Calls, Step(c), ~NextVal(c) PROVE WindowInv'
  <2>1. PICK x : call' = [call EXCEPT ![c] = x] /\ Fits(c, x)
    BY <1>1, StepFits
  <2>2. UNCHANGED seq
    BY <1>1 DEF Step, Select, Insert, Reselect, Count, Delete, Incr, Grant, Wait,
                SelectAll, BanDelete
  <2>3. RowBirths(c)
    BY <1>1, StepBirths DEF WindowInv
  <2>4. \A d \in Calls \ {c} : Entries(call[d], row')
    BY <1>1, OthersStay
  <2> QED BY <1>0, <2>1, <2>2, <2>3, <2>4, FitsKept
<1>2. ASSUME UNCHANGED <<row, seq, call>> PROVE WindowInv'
  BY <1>0, <1>2 DEF WindowInv, BirthInv, At
<1>3. CASE UNCHANGED vars
  BY <1>2, <1>3 DEF vars
<1>4. CASE \E p \in Processes, u \in Users : BanEnds(p, u)
  BY <1>2, <1>4 DEF BanEnds
<1> QED BY <1>0, <1>1, <1>3, <1>4, NextValKeepsWindows, SendKeepsWindows, RestartKeepsWindows,
           TickKeepsWindows DEF Next, Poll

LEMMA SpecWindows == Spec => []WindowInv
BY InitWindows, NextWindows, PTL DEF Spec

\* A window that is open closes by its time, by a ban, a restart, or the DELETE
\* of a call that has read an earlier row.
LEMMA NextKeepsWindows ==
  ASSUME WindowInv, [Next]_vars, NEW k \in Tokens, Live(k),
         ~(row'[k].window # Null /\ row'[k].window >= row[k].window - 1)
  PROVE  \/ \E p \in Processes : Restart(p)
         \/ \E c \in Calls : At(c, "bandelete") /\ call[c].user = Owner[k]
         \/ \E c \in Calls : /\ At(c, "delete") /\ call[c].token = k
                             /\ call[c].read.born # row[k].born
<1> DEFINE w == row[k].window
           Excused == \/ \E c \in Calls : At(c, "bandelete") /\ call[c].user = Owner[k]
                      \/ \E c \in Calls : /\ At(c, "delete") /\ call[c].token = k
                                          /\ call[c].read.born # row[k].born
<1>0. row[k] \in Row /\ w \in 1 .. Window /\ w # Null /\ Window # Null
  <2>1. row \in [Tokens -> Row]
    BY TypeOKParts DEF WindowInv, SoundRows
  <2> QED BY <2>1, QueueAssumption DEF Row, Windows, Live, Floor
<1>1. row'[k] # row[k]
  BY <1>0
<1>2. ASSUME NEW c \in Calls, Step(c) PROVE Excused
  <2>0. /\ TypeOK /\ row \in [Tokens -> Row]
        /\ Placed(call[c]) /\ Entries(call[c], row)
        /\ call[c].read \in Row /\ call[c].age \in 0 .. MaxLag
    BY CallFacts DEF WindowInv
  <2>4. CASE Delete(c)
    <3>1. At(c, "delete") /\ call[c].token = k
      BY <1>1, <2>0, <2>4 DEF Delete
    <3>2. ASSUME call[c].read.born = row[k].born PROVE FALSE
      <4>1. /\ call[c].read.window # Null /\ call[c].read.window < 0
            /\ Entry(k, call[c].read, call[c].age, row)
        BY <2>0, <3>1 DEF Placed, Entries, At, Reading
      <4>2. \/ row[k].window = call[c].read.window
            \/ call[c].read.window >= Window - MaxLag - call[c].age
        BY <3>2, <4>1 DEF Entry, Live, Exists
      <4>3. call[c].read.window \in Int /\ Window - MaxLag - call[c].age >= 0
        BY <2>0, <4>1, WindowFacts
      <4> QED BY <1>0, <2>0, <4>1, <4>2, <4>3, WindowFacts
    <3> QED BY <3>1, <3>2
  <2>5. CASE BanDelete(c)
    BY <1>1, <2>5 DEF BanDelete
  <2>6. CASE Select(c) \/ NextVal(c) \/ Reselect(c) \/ Count(c) \/ Incr(c) \/ SelectAll(c)
    BY <1>1, <2>6 DEF Select, NextVal, Reselect, Count, Incr, SelectAll
  <2>7. CASE Insert(c)
    BY <1>1, <2>0, <2>7 DEF Insert, Live
  <2>8. CASE Grant(c)
    <3>1. row'[k] = row[k] \/ row'[k] = [row[k] EXCEPT !.pos = call[c].read.pos,
                                                       !.window = Window]
      BY <2>0, <2>8 DEF Grant, Update
    <3>2. [row[k] EXCEPT !.pos = call[c].read.pos, !.window = Window].window = Window
      BY <1>0 DEF Row
    <3>3. row'[k].window = Window
      BY <1>1, <3>1, <3>2
    <3> QED BY <1>0, <3>3, QueueAssumption
  <2>9. CASE Wait(c)
    <3>1. row'[k] = row[k] \/ row'[k] = [row[k] EXCEPT !.pos = call[c].read.pos]
      BY <2>0, <2>9 DEF Wait
    <3>2. [row[k] EXCEPT !.pos = call[c].read.pos].window = row[k].window
      BY <1>0 DEF Row
    <3>3. row'[k].window = row[k].window
      BY <3>1, <3>2
    <3> QED BY <1>0, <3>3
  <2> QED BY <1>2, <2>4, <2>5, <2>6, <2>7, <2>8, <2>9 DEF Step
<1>3. ~Tick
  <2>1. ASSUME Tick PROVE FALSE
    <3>1. row'[k] = AgedRow(row[k])
      BY <2>1 DEF Tick
    <3>2. row'[k].window = Aged(w)
      BY <1>0, <3>1 DEF AgedRow, Row
    <3>3. w # Floor
      BY <1>0, QueueAssumption DEF Floor
    <3>4. row'[k].window = w - 1
      BY <1>0, <3>2, <3>3 DEF Aged
    <3> QED BY <1>0, <3>4, QueueAssumption
  <2> QED BY <2>1
<1>4. ~UNCHANGED row
  BY <1>1
<1> HIDE DEF Excused
<1>5. Excused \/ \E p \in Processes : Restart(p)
  BY <1>2, <1>3, <1>4
     DEF Next, vars, Poll, Join, Tamper, StartVerify, BanEnds
<1> QED BY <1>5 DEF Excused

\* No poll or check takes away or shortens an open window of a row that it has
\* read, although each of any number of them works with a row from before its
\* awaits (queue.service.ts 204-252).
THEOREM WindowsKept == Spec => WindowKept
<1>1. WindowInv /\ [Next]_vars
        => [\A k \in Tokens :
              Live(k) /\ ~(row'[k].window # Null /\ row'[k].window >= row[k].window - 1)
                => \/ \E p \in Processes : Restart(p)
                   \/ \E c \in Calls : At(c, "bandelete") /\ call[c].user = Owner[k]
                   \/ \E c \in Calls : /\ At(c, "delete") /\ call[c].token = k
                                       /\ call[c].read.born # row[k].born]_vars
  BY NextKeepsWindows
<1> QED BY <1>1, SpecWindows, PTL DEF Spec, WindowKept
=============================================================================
