----------------------------- MODULE Notifications -----------------------------
(***************************************************************************)
(* A notification (services/notification.service.ts): a send that is asked *)
(* for once, its row, and the timer of every worker process that retries   *)
(* the FAILED rows, each time later, three times at most.                  *)
(*                                                                         *)
(* send looks up the user's preferences first, in a table no migration     *)
(* makes: it always fails there, and it is the timers that deliver.  Their *)
(* delivery is simulated by a pause and cannot fail; the statements after  *)
(* it can.  A timer takes the rows that are due as it reads them and works *)
(* from that copy.                                                         *)
(***************************************************************************)
EXTENDS Naturals

CONSTANTS Notes, Workers,
          MaxFaults     \* bound of the statements that fail and of crashes

NotesAssumption == MaxFaults \in Nat

VARIABLES sender,    \* where the send() of each notification is
          row,       \* its row of notifications
          batch,     \* batch[w]: the counts the timer of w read, by row
          faults

vars == <<sender, row, batch, faults>>

MAX_RETRIES == 3
NoRow == [status |-> "none", count |-> 0, due |-> "never"]
Unread == MAX_RETRIES      \* not in the batch
Empty == [n \in Notes |-> Unread]
Fault == faults < MaxFaults /\ faults' = faults + 1
-----------------------------------------------------------------------------
Init ==
  /\ sender = [n \in Notes |-> "new"]
  /\ row = [n \in Notes |-> NoRow]
  /\ batch = [w \in Workers |-> Empty]
  /\ faults = 0

\* SELECT * FROM notification_preferences: there is no such table.
Send(n) ==
  /\ sender[n] = "new"
  /\ sender' = [sender EXCEPT ![n] = "failed"]
  /\ UNCHANGED <<row, batch, faults>>

\* INSERT ... 'FAILED', to be retried later; if it fails too, nothing is left.
RecordFailure(n) ==
  /\ sender[n] = "failed"
  /\ sender' = [sender EXCEPT ![n] = "done"]
  /\ \/ /\ row' = [row EXCEPT ![n] = [NoRow EXCEPT !.status = "FAILED", !.due = "later"]]
        /\ UNCHANGED faults
     \/ Fault /\ UNCHANGED row
  /\ UNCHANGED batch

\* next_retry_at passes.
Due(n) ==
  /\ row[n].due = "later"
  /\ row' = [row EXCEPT ![n].due = "now"]
  /\ UNCHANGED <<sender, batch, faults>>

\* The rows the timer of w finds.
IsDue(n) == row[n].status = "FAILED" /\ row[n].count < MAX_RETRIES /\ row[n].due = "now"

SelectDue(w) ==
  /\ batch[w] = Empty
  /\ \E n \in Notes : IsDue(n)
  /\ batch' = [batch EXCEPT ![w] = [n \in Notes |-> IF IsDue(n) THEN row[n].count ELSE Unread]]
  /\ UNCHANGED <<sender, row, faults>>

\* Mutant of Rescheduled: the time of the next try is lost.
RescheduledNever(r, count) == [r EXCEPT !.count = count, !.due = "never"]

\* The row after a failed try: another one later, or none if it was the last.
Rescheduled(r, count) ==
  [r EXCEPT !.count = count, !.due = IF count >= MAX_RETRIES THEN "never" ELSE "later"]

\* One row of the batch of w: the pause, and UPDATE ... 'SENT'.  If that
\* fails, the UPDATE that reschedules; if that fails, the rest is left.
Retry(w, n) ==
  /\ batch[w][n] # Unread
  /\ \/ /\ row' = [row EXCEPT ![n] = [status |-> "SENT", count |-> @.count + 1, due |-> "never"]]
        /\ batch' = [batch EXCEPT ![w][n] = Unread]
        /\ UNCHANGED faults
     \/ /\ Fault
        /\ row' = [row EXCEPT ![n] = Rescheduled(@, batch[w][n] + 1)]
        /\ batch' = [batch EXCEPT ![w][n] = Unread]
     \/ /\ faults + 2 <= MaxFaults /\ faults' = faults + 2
        /\ batch' = [batch EXCEPT ![w] = Empty]
        /\ UNCHANGED row
  /\ UNCHANGED sender

\* A worker dies, with a send of its own or with a batch.
Crash ==
  /\ Fault
  /\ \/ /\ \E n \in Notes : sender[n] = "failed" /\ sender' = [sender EXCEPT ![n] = "done"]
        /\ UNCHANGED batch
     \/ /\ \E w \in Workers : batch[w] # Empty /\ batch' = [batch EXCEPT ![w] = Empty]
        /\ UNCHANGED sender
  /\ UNCHANGED row

\* The timer of w, every five minutes.
Timer(w) == SelectDue(w) \/ \E n \in Notes : Retry(w, n)

Next ==
  \/ Crash
  \/ \E n \in Notes : Send(n) \/ RecordFailure(n) \/ Due(n)
  \/ \E w \in Workers : Timer(w)

Spec == Init /\ [][Next]_vars
        /\ \A n \in Notes : WF_vars(Due(n))
        /\ \A w \in Workers : WF_vars(Timer(w))
-----------------------------------------------------------------------------
TypeOK ==
  /\ sender \in [Notes -> {"new", "failed", "done"}]
  /\ row \in [Notes -> [status : {"none", "SENT", "FAILED"},
                        count : Nat,
                        due : {"never", "later", "now"}]]
  /\ batch \in [Workers -> [Notes -> 0..Unread]]
  /\ faults \in 0..MaxFaults

\* A notification recorded as FAILED does not stay so unattended: in the end
\* it is sent, or its three retries are used up.  Timers that hold old copies
\* of a row may lose each other's counts, but never leave it without a time.
NotificationSettles ==
  \A n \in Notes :
    row[n].status = "FAILED" ~> row[n].status = "SENT" \/ row[n].count >= MAX_RETRIES
=============================================================================
