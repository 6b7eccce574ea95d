------------------------------- MODULE Waitlist -------------------------------
(***************************************************************************)
(* The waiting list of one train (routes/booking.routes.ts 742-873): the   *)
(* join, and the promotion that a cancellation starts and does not wait    *)
(* for, one step per statement that another request can fall in front of.  *)
(*                                                                         *)
(* History variables: "arrived" is the order of the INSERTs; "disturbed"   *)
(* becomes TRUE when a request writes over what another one has read and   *)
(* still uses, when a promotion finds two classes waiting, or when its     *)
(* resequencing fails; and FALSE again once the list has run empty.        *)
(***************************************************************************)
EXTENDS Integers, Sequences, FiniteSets

CONSTANTS Entries,      \* rows that may come into booking_waitlist
          Classes,      \* coach classes
          Calls,        \* requests in flight
          Total,        \* seats of each class
          MaxPassengers,
          MaxCancels    \* bound of the cancellations

WaitlistAssumption == /\ IsFiniteSet(Entries) /\ Classes # {}
                      /\ Total \in [Classes -> Nat]
                      /\ MaxPassengers \in Nat
                      /\ MaxCancels \in Nat

VARIABLES entry,      \* booking_waitlist
          free,       \* seats of a class that are not BOOKED
          call,       \* requests in flight
          cancels,    \* cancellations so far
          arrived, disturbed

vars == <<entry, free, call, cancels, arrived, disturbed>>

NoEntry == [status |-> "none", class |-> CHOOSE c \in Classes : TRUE, num |-> 0]
Idle == [pc |-> "idle"]

Waiting(e) == entry[e].status \in {"WAITLIST", "RAC"}
WaitingIn(c) == {e \in Entries : Waiting(e) /\ entry[e].class = c}

\* Math.ceil(total * 0.2)
RacThreshold(c) == (Total[c] + 4) \div 5

Init ==
  /\ entry = [e \in Entries |-> NoEntry]
  /\ free = [c \in Classes |-> 0]
  /\ call = [k \in Calls |-> Idle]
  /\ cancels = 0
  /\ arrived = <<>>
  /\ disturbed = FALSE

Goto(k, r) == call' = [call EXCEPT ![k] = r]

\* Is another request at one of these places, with a count or a number read?
Others(k, pcs) == \E j \in Calls \ {k} : call[j].pc \in pcs
OtherClassWaits(c) == \E e \in Entries : Waiting(e) /\ entry[e].class # c
-----------------------------------------------------------------------------
(* POST /waitlist *)

\* The seats are counted; with enough of them not BOOKED nobody has to wait.
StartJoin(k, c, passengers) ==
  /\ call[k].pc = "idle"
  /\ free[c] < passengers
  /\ Cardinality({e \in Entries : entry[e].status = "none"}) >
       Cardinality({j \in Calls : call[j].pc \in {"count", "insert"}})
  /\ Goto(k, [pc |-> "count", class |-> c])
  /\ UNCHANGED <<entry, free, cancels, arrived, disturbed>>

\* Mutant of Counted: "status IN ('WAITLIST', 'RAC')" is missing.
CountedEver(c) == {e \in Entries : entry[e].status # "none" /\ entry[e].class = c}

\* SELECT COUNT(*) of those who wait in the class.
Counted(c) == WaitingIn(c)

JoinCount(k) ==
  /\ call[k].pc = "count"
  /\ Goto(k, [pc |-> "insert", class |-> call[k].class,
              num |-> Cardinality(Counted(call[k].class)) + 1])
  /\ disturbed' = (disturbed /\ (\/ \E e \in Entries : Waiting(e)
                                 \/ Others(k, {"insert", "promote", "renumber"})))
  /\ UNCHANGED <<entry, free, cancels, arrived>>

\* Mutant of JoinStatus: one too many is told RAC.
JoinStatusOffByOne(num, c) == IF num <= RacThreshold(c) + 1 THEN "RAC" ELSE "WAITLIST"

JoinStatus(num, c) == IF num <= RacThreshold(c) THEN "RAC" ELSE "WAITLIST"

JoinInsert(k, e) ==
  /\ call[k].pc = "insert"
  /\ entry[e].status = "none"
  /\ entry' = [entry EXCEPT ![e] =
       [status |-> JoinStatus(call[k].num, call[k].class),
        class |-> call[k].class, num |-> call[k].num]]
  /\ arrived' = Append(arrived, e)
  /\ Goto(k, Idle)
  /\ disturbed' = (disturbed \/ Others(k, {"insert", "renumber"}))
  /\ UNCHANGED <<free, cancels>>
-----------------------------------------------------------------------------
(* The promotion started by POST /cancel/:pnr *)

\* A booking of n seats of class c was cancelled and its seats freed.
StartPromotion(k, c, n) ==
  /\ call[k].pc = "idle"
  /\ cancels < MaxCancels
  /\ cancels' = cancels + 1
  /\ free' = [free EXCEPT ![c] = IF @ + n <= Total[c] THEN @ + n ELSE Total[c]]
  /\ Goto(k, [pc |-> "top"])
  /\ UNCHANGED <<entry, arrived, disturbed>>

\* ORDER BY waitlist_number LIMIT 1: any of those with the least number.
Top(e) == \A f \in Entries : Waiting(f) => entry[e].num <= entry[f].num

PromoteSelect(k) ==
  /\ call[k].pc = "top"
  /\ \/ \E e \in Entries : /\ Waiting(e) /\ Top(e)
                           /\ Goto(k, [pc |-> "promote", e |-> e, num |-> entry[e].num])
     \/ /\ \A e \in Entries : ~Waiting(e)
        /\ Goto(k, Idle)
  /\ UNCHANGED <<entry, free, cancels, arrived, disturbed>>

Promote(k) ==
  /\ call[k].pc = "promote"
  /\ entry' = [entry EXCEPT ![call[k].e].status = "CONFIRMED"]
  /\ Goto(k, [pc |-> "renumber", num |-> call[k].num])
  /\ disturbed' = \/ disturbed
                  \/ Others(k, {"insert", "promote", "renumber"})
                  \/ OtherClassWaits(entry[call[k].e].class)
  /\ UNCHANGED <<free, cancels, arrived>>

Renumber(k) ==
  /\ call[k].pc = "renumber"
  /\ entry' = [e \in Entries |->
       IF Waiting(e) /\ entry[e].num > call[k].num
       THEN [entry[e] EXCEPT !.num = @ - 1] ELSE entry[e]]
  /\ Goto(k, Idle)
  /\ disturbed' = (disturbed \/ Others(k, {"promote", "renumber"}))
  /\ UNCHANGED <<free, cancels, arrived>>

\* A statement fails: a join answers an error, a promotion says nothing, and no
\* transaction takes its earlier statement back.
Fails(k) ==
  /\ call[k].pc # "idle"
  /\ Goto(k, Idle)
  /\ disturbed' = (disturbed \/ call[k].pc = "renumber")
  /\ UNCHANGED <<entry, free, cancels, arrived>>

\* The checkouts of other users sell what is free.
Sell(c) ==
  /\ free[c] > 0
  /\ free' = [free EXCEPT ![c] = 0]
  /\ UNCHANGED <<entry, call, cancels, arrived, disturbed>>
-----------------------------------------------------------------------------
Next ==
  \/ \E k \in Calls :
       \/ \E c \in Classes, n \in 1..MaxPassengers : StartJoin(k, c, n)
       \/ JoinCount(k)
       \/ \E e \in Entries : JoinInsert(k, e)
       \/ \E c \in Classes, n \in 1..MaxPassengers : StartPromotion(k, c, n)
       \/ PromoteSelect(k)
       \/ Promote(k)
       \/ Renumber(k)
       \/ Fails(k)
  \/ \E c \in Classes : Sell(c)

Spec == Init /\ [][Next]_vars
-----------------------------------------------------------------------------
CallRecord ==
  [pc : {"idle", "top"}] \cup [pc : {"count"}, class : Classes]
  \cup [pc : {"insert"}, class : Classes, num : Nat]
  \cup [pc : {"promote"}, e : Entries, num : Nat]
  \cup [pc : {"renumber"}, num : Nat]

\* The types; no more seats are free than the class has.
TypeOK ==
  /\ entry \in [Entries -> [status : {"none", "WAITLIST", "RAC", "CONFIRMED"},
                            class : Classes, num : Nat]]
  /\ free \in [Classes -> Nat] /\ \A c \in Classes : free[c] <= Total[c]
  /\ call \in [Calls -> CallRecord]
  /\ disturbed \in BOOLEAN
  /\ cancels \in 0..MaxCancels

\* e and those who came before e and wait in its class.
CameBefore(f, e) == \E i, j \in DOMAIN arrived : i <= j /\ arrived[i] = f /\ arrived[j] = e
UpTo(e) == {f \in WaitingIn(entry[e].class) : CameBefore(f, e)}

\* However requests overlap, those who wait in a class are numbered 1, 2, ... in
\* the order in which they came (count + 1 at the INSERT, - 1 for all behind a
\* promoted entry), until one writes over what another uses, a promotion mixes
\* classes or is not followed by its resequencing.
WaitingInOrder ==
  (~disturbed /\ \A k \in Calls : call[k].pc # "renumber") =>
    \A e \in Entries : Waiting(e) => entry[e].num = Cardinality(UpTo(e))

\* Whatever overlaps or fails, one who was told RAC ("boarding guaranteed") keeps
\* a number from 1 to the threshold: numbers never rise and stop at 1.
RacKeepsItsNumber ==
  \A e \in Entries : entry[e].status = "RAC" =>
    entry[e].num \in 1..RacThreshold(entry[e].class)

\* Whatever overlaps or fails, nobody's number is higher than his place among
\* all that ever came.
NumberWithinArrivals ==
  \A i \in DOMAIN arrived : entry[arrived[i]].num <= i
=============================================================================
