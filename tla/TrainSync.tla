------------------------------- MODULE TrainSync -------------------------------
(***************************************************************************)
(* The train search's copying of trains it learns of from the railway's    *)
(* API into the database (routes/train.routes.ts 88-205): for a train that *)
(* is not there, an INSERT of the train, one of its coaches and one of its *)
(* seats, outside any transaction, in several searches at a time.          *)
(***************************************************************************)
EXTENDS Naturals, Sequences

CONSTANTS Searches, Trains,
          Lists      \* the lists of trains the API may answer with

SyncAssumption == \A list \in Lists : list \in Seq(Trains) /\ Len(list) > 0

VARIABLES stations,              \* which ends of the journey are there
          trains, coaches, seats,   \* the trains with rows in each table
          search,                \* where a search is, and at which train
          cut                    \* trains whose rows were cut short

vars == <<stations, trains, coaches, seats, search, cut>>

Idle == [pc |-> "idle", list |-> <<>>, i |-> 1]
At(q, l) == search[q].pc = l
Goto(q, l) == search' = [search EXCEPT ![q].pc = l]
Train(q) == search[q].list[search[q].i]

\* q is between the INSERTs of train t.
Syncing(q, t) == search[q].pc \in {"coaches", "seats"} /\ Train(q) = t

\* From l, the next train of the list, or the stage after the last.
Onward(q, l, after) ==
  search' = [search EXCEPT ![q] =
    IF search[q].i < Len(search[q].list) THEN [search[q] EXCEPT !.pc = l, !.i = search[q].i + 1]
    ELSE [search[q] EXCEPT !.pc = after, !.i = 1]]
-----------------------------------------------------------------------------
Init ==
  /\ stations = {} /\ trains = {} /\ coaches = {} /\ seats = {}
  /\ search = [q \in Searches |-> Idle]
  /\ cut = {}

\* The answer is not cached, and the API sends a list.
Begin(q, list) ==
  /\ At(q, "idle")
  /\ search' = [search EXCEPT ![q] = [Idle EXCEPT !.pc = "from", !.list = list]]
  /\ UNCHANGED <<stations, trains, coaches, seats, cut>>

\* INSERT INTO stations ... ON CONFLICT DO NOTHING, for either end.
Stations(q) ==
  /\ \/ At(q, "from") /\ stations' = stations \cup {"from"} /\ Goto(q, "to")
     \/ At(q, "to") /\ stations' = stations \cup {"to"} /\ Goto(q, "select")
  /\ UNCHANGED <<trains, coaches, seats, cut>>

\* SELECT * FROM trains WHERE train_number = ?
Select(q) ==
  /\ At(q, "select")
  /\ IF Train(q) \in trains THEN Onward(q, "select", "results") ELSE Goto(q, "train")
  /\ UNCHANGED <<stations, trains, coaches, seats, cut>>

\* INSERT INTO trains: the number is UNIQUE, and who comes second gets a 500.
InsertTrain(q) ==
  /\ At(q, "train")
  /\ IF Train(q) \in trains THEN search' = [search EXCEPT ![q] = Idle]
     ELSE Goto(q, "coaches")
  /\ trains' = trains \cup {Train(q)}
  /\ UNCHANGED <<stations, coaches, seats, cut>>

\* INSERT INTO train_coaches ... ON CONFLICT DO NOTHING
InsertCoaches(q) ==
  /\ At(q, "coaches")
  /\ coaches' = coaches \cup {Train(q)}
  /\ Goto(q, "seats")
  /\ UNCHANGED <<stations, trains, seats, cut>>

\* Mutant of Seated: the rows are made for the first train of the list.
SeatedFirst(q) == search[q].list[1]

\* The train the rows of the bulk INSERT are for.
Seated(q) == Train(q)

\* INSERT INTO seats ... ON CONFLICT DO NOTHING
InsertSeats(q) ==
  /\ At(q, "seats")
  /\ seats' = seats \cup {Seated(q)}
  /\ Onward(q, "select", "results")
  /\ UNCHANGED <<stations, trains, coaches, cut>>

\* The rows of a train and of its seats, for the answer.
Results(q) ==
  /\ At(q, "results")
  /\ Onward(q, "results", "idle")
  /\ UNCHANGED <<stations, trains, coaches, seats, cut>>

\* A statement fails, or the worker dies.
Fail(q) ==
  /\ ~At(q, "idle")
  /\ cut' = cut \cup {t \in Trains : Syncing(q, t)}
  /\ search' = [search EXCEPT ![q] = Idle]
  /\ UNCHANGED <<stations, trains, coaches, seats>>

Next == \E q \in Searches :
  \/ \E list \in Lists : Begin(q, list)
  \/ Stations(q) \/ Select(q) \/ InsertTrain(q) \/ InsertCoaches(q)
  \/ InsertSeats(q) \/ Results(q) \/ Fail(q)

Spec == Init /\ [][Next]_vars
-----------------------------------------------------------------------------
TypeOK ==
  /\ stations \subseteq {"from", "to"}
  /\ trains \subseteq Trains /\ coaches \subseteq Trains /\ seats \subseteq Trains
  /\ cut \subseteq Trains
  /\ search \in [Searches ->
       [pc : {"idle", "from", "to", "select", "train", "coaches", "seats", "results"},
        list : Lists \cup {<<>>}, i : Nat]]
  /\ \A q \in Searches : ~At(q, "idle") =>
       search[q].list # <<>> /\ search[q].i \in 1..Len(search[q].list)

\* A train that can be found can be booked: it has its coaches and seats,
\* unless a search is about to insert them, or one was cut short and left it
\* without, for good: every later search finds the train and goes on.
SeatsComeWithTrain ==
  \A t \in trains \ cut : t \in coaches \cap seats \/ \E q \in Searches : Syncing(q, t)
=============================================================================
