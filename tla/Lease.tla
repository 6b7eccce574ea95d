-------------------------------- MODULE Lease --------------------------------
(***************************************************************************)
(* What the seat lock service promises, without Redis, requests or job     *)
(* queues: a seat is free, sold, or leased to one holder until an instant. *)
(* A lease goes to a new holder only from a free seat or after the old     *)
(* lease has run out, and only a seat whose lease is still running is sold.*)
(***************************************************************************)
EXTENDS Integers

CONSTANTS Seats, Users, TTL

VARIABLES clock,   \* the time
          lease    \* lease[s]: the state of seat s

leaseVars == <<clock, lease>>

Free == [state |-> "free"]
Sold == [state |-> "sold"]
HeldBy(u, e) == [state |-> "held", holder |-> u, until |-> e]

Takeable(s) ==
  \/ lease[s] = Free
  \/ /\ lease[s].state = "held"
     /\ lease[s].until < clock

Init == /\ clock \in Nat
        /\ lease \in [Seats -> {Free, Sold}]

\* The lease starts at most TTL before it ends, so it may be short but
\* never longer than promised.
Grant(s, u, e) ==
  /\ Takeable(s)
  /\ e \in Nat /\ e =< clock + TTL
  /\ lease' = [lease EXCEPT ![s] = HeldBy(u, e)]
  /\ UNCHANGED clock

\* The holder, or somebody on the holder's behalf, gives the lease back.
GiveBack(s) ==
  /\ lease[s].state = "held"
  /\ lease' = [lease EXCEPT ![s] = Free]
  /\ UNCHANGED clock

\* Any number of leases that have run out are taken back at once.
Reclaim ==
  /\ \E S \in SUBSET {s \in Seats : lease[s].state = "held" /\ Takeable(s)} :
        lease' = [s \in Seats |-> IF s \in S THEN Free ELSE lease[s]]
  /\ UNCHANGED clock

Sell(s) ==
  /\ lease[s].state = "held"
  /\ lease[s].until > clock
  /\ lease' = [lease EXCEPT ![s] = Sold]
  /\ UNCHANGED clock

TakeBack(s) ==
  /\ lease[s] = Sold
  /\ lease' = [lease EXCEPT ![s] = Free]
  /\ UNCHANGED clock

Advance == /\ clock' = clock + 1
           /\ UNCHANGED lease

Next ==
  \/ \E s \in Seats : \/ \E u \in Users : \E e \in 0 .. clock + TTL :
                           Grant(s, u, e)
                      \/ GiveBack(s)
                      \/ Sell(s)
                      \/ TakeBack(s)
  \/ Reclaim
  \/ Advance

Spec == Init /\ [][Next]_leaseVars
=============================================================================
