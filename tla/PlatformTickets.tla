--------------------------- MODULE PlatformTickets ---------------------------
(***************************************************************************)
(* Platform and unreserved tickets (services/platform-ticket.service.ts,   *)
(* routes/platform.routes.ts).  A PNR is drawn at random and only the      *)
(* UNIQUE of the column keeps two tickets apart (migrations/index.ts 692): *)
(* a draw that is taken fails the INSERT and is not drawn again.  A        *)
(* cancellation reads the ticket by its PNR, looks at its owner and its    *)
(* status, and updates by the PNR alone in a later statement.              *)
(***************************************************************************)
EXTENDS Naturals, Sequences

CONSTANTS Users, NoUser, Pnrs, Calls,
          MaxTickets    \* bound of the tickets

TicketsAssumption == NoUser \notin Users /\ MaxTickets \in Nat

VARIABLES tickets,  \* the rows in the order of their ids
          call,
          told,     \* what users have been told: [user, pnr, what]
          hit       \* history: tickets a cancellation of another user hit

vars == <<tickets, call, told, hit>>

Kinds == {"PLATFORM", "UNRESERVED"}
Statuses == {"ACTIVE", "CANCELLED"}
Idle == [pc |-> "idle", user |-> NoUser, pnr |-> CHOOSE p \in Pnrs : TRUE,
         kind |-> "PLATFORM"]

Init ==
  /\ tickets = <<>>
  /\ call = [c \in Calls |-> Idle]
  /\ told = {}
  /\ hit = {}

Tell(u, p, what) == told' = told \cup {[user |-> u, pnr |-> p, what |-> what]}

\* The PNR is drawn first, and the stations are looked up.
Book(c, u, kind) ==
  /\ call[c] = Idle
  /\ \E p \in Pnrs :
        call' = [call EXCEPT ![c] = [pc |-> "insert", user |-> u, pnr |-> p, kind |-> kind]]
  /\ UNCHANGED <<tickets, told, hit>>

BookPlatformTicket(c, u) == Book(c, u, "PLATFORM")

\* Two lookups: both stations have to be there.
BookUnreservedTicket(c, u) == Book(c, u, "UNRESERVED")

\* Mutant of Taken: the column is not UNIQUE.
TakenNever(p) == FALSE

Taken(p) == \E i \in DOMAIN tickets : tickets[i].pnr = p

Inserted(c) ==
  /\ call[c].pc = "insert" /\ ~Taken(call[c].pnr)
  /\ Len(tickets) < MaxTickets
  /\ tickets' = Append(tickets, [user |-> call[c].user, pnr |-> call[c].pnr,
                                 type |-> call[c].kind, status |-> "ACTIVE"])
  /\ Tell(call[c].user, call[c].pnr, "booked")
  /\ call' = [call EXCEPT ![c] = Idle]
  /\ UNCHANGED hit

\* No such station, the PNR is taken, or the database fails: nothing is sold.
BookingFails(c) ==
  /\ call[c].pc = "insert"
  /\ call' = [call EXCEPT ![c] = Idle]
  /\ UNCHANGED <<tickets, told, hit>>

\* A ticket of that PNR which is the user's own and active.  Everything else is
\* an answer with no effect: not found, Access Denied, already cancelled.
Cancellable(u, p) ==
  \E i \in DOMAIN tickets :
     tickets[i].pnr = p /\ tickets[i].user = u /\ tickets[i].status = "ACTIVE"

CancelTicket(c, u, p) ==
  /\ call[c] = Idle
  /\ Cancellable(u, p)
  /\ call' = [call EXCEPT ![c] = [Idle EXCEPT !.pc = "cancel", !.user = u, !.pnr = p]]
  /\ UNCHANGED <<tickets, told, hit>>

\* UPDATE ... WHERE pnr: whatever is there by now.
Cancelled(c) ==
  /\ call[c].pc = "cancel"
  /\ tickets' = [i \in DOMAIN tickets |->
       IF tickets[i].pnr = call[c].pnr
       THEN [tickets[i] EXCEPT !.status = "CANCELLED"] ELSE tickets[i]]
  /\ hit' = hit \cup {i \in DOMAIN tickets :
       tickets[i].pnr = call[c].pnr /\ tickets[i].user # call[c].user}
  /\ Tell(call[c].user, call[c].pnr, "cancelled")
  /\ call' = [call EXCEPT ![c] = Idle]

\* The UPDATE throws: 500.
CancelFails(c) ==
  /\ call[c].pc = "cancel"
  /\ call' = [call EXCEPT ![c] = Idle]
  /\ UNCHANGED <<tickets, told, hit>>

Next ==
  \E c \in Calls :
     \/ \E u \in Users : \/ BookPlatformTicket(c, u) \/ BookUnreservedTicket(c, u)
                         \/ \E p \in Pnrs : CancelTicket(c, u, p)
     \/ Inserted(c) \/ BookingFails(c) \/ Cancelled(c)
     \/ CancelFails(c)

Spec == Init /\ [][Next]_vars
-----------------------------------------------------------------------------
Ticket == [user : Users, pnr : Pnrs, type : Kinds, status : Statuses]
Pending == [pc : {"insert", "cancel"}, user : Users, pnr : Pnrs, kind : Kinds]
Note == [user : Users, pnr : Pnrs, what : {"booked", "cancelled"}]

TypeOK ==
  /\ tickets \in Seq(Ticket)
  /\ call \in [Calls -> {Idle} \cup Pending]
  /\ told \subseteq Note
  /\ hit \subseteq 1..MaxTickets

\* A PNR a user was told shows that user's ticket, cancelled if the user was
\* told so, and no cancellation hits a ticket of somebody else; though PNRs
\* collide, calls overlap and the cancellation names no user.
TicketsAreTheirs ==
  /\ hit = {}
  /\ \A t \in told : \E i \in DOMAIN tickets :
        /\ tickets[i].pnr = t.pnr /\ tickets[i].user = t.user
        /\ t.what = "cancelled" => tickets[i].status = "CANCELLED"
=============================================================================
