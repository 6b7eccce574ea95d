----------------------------- MODULE ServiceParts -----------------------------
(***************************************************************************)
(* Seven parts of the services, one at a time: they share no variable, so  *)
(* "focus" picks at the start which of them runs, and every behaviour is   *)
(* one of that part's, the others being at rest.  Startup, the largest, is *)
(* extended and not instantiated, which TLC is quicker at.                 *)
(***************************************************************************)
EXTENDS Integers, Startup

CONSTANTS
  Requests,                               \* of the pages, and of their callers
  Calls, MaxCodes, MaxClock, MaxFlips,    \* OneTimeCodes
  No, MaxAttempts, MaxTries,              \* Session
  Ttl, Flight,                            \* SearchCache
  Trains, Lists,                          \* TrainSync
  Notes, MaxFaults,                       \* Notifications
  Starts, MaxMonth                        \* Partitions

VARIABLES focus,
          ready, flips, clock, registered, issued, slot, oCall, accepted, oRaced,
          token, shown, sReq, tries, strikes, locked, fails, overlapped,
          store, redis, cReq,
          stations, trains, coaches, seats, search, cut,
          sender, row, batch, faults,
          now, parts, detached, audits, ensured, cycle

oVars == <<ready, flips, clock, registered, issued, slot, oCall, accepted, oRaced>>
sVars == <<token, shown, sReq, tries, strikes, locked, fails, overlapped>>
cVars == <<store, redis, cReq>>
tVars == <<stations, trains, coaches, seats, search, cut>>
nVars == <<sender, row, batch, faults>>
pVars == <<now, parts, detached, audits, ensured, cycle>>

O == INSTANCE OneTimeCodes WITH call <- oCall, raced <- oRaced
S == INSTANCE Session WITH req <- sReq
C == INSTANCE SearchCache WITH req <- cReq
T == INSTANCE TrainSync WITH Searches <- Requests
N == INSTANCE Notifications
P == INSTANCE Partitions

ASSUME PartsAssumption ==
  /\ O!CodesAssumption /\ S!SessionAssumption /\ StartupAssumption
  /\ C!CacheAssumption /\ T!SyncAssumption /\ N!NotesAssumption
  /\ P!PartitionsAssumption

PartsInit ==
        /\ focus \in {"O", "S", "U", "C", "T", "N", "P"}
        /\ O!Init /\ S!Init /\ Init /\ C!Init /\ T!Init /\ N!Init /\ P!Init
        /\ focus # "O" => ready

Codes ==
  /\ focus = "O" /\ O!Next
  /\ UNCHANGED <<sVars, vars, cVars, tVars, nVars, pVars>>

Sessions ==
  /\ focus = "S" /\ S!Next
  /\ UNCHANGED <<oVars, vars, cVars, tVars, nVars, pVars>>

Starting ==
  /\ focus = "U" /\ Next
  /\ UNCHANGED <<oVars, sVars, cVars, tVars, nVars, pVars>>

Caching ==
  /\ focus = "C" /\ C!Next
  /\ UNCHANGED <<oVars, sVars, vars, tVars, nVars, pVars>>

Syncing ==
  /\ focus = "T" /\ T!Next
  /\ UNCHANGED <<oVars, sVars, vars, cVars, nVars, pVars>>

Notifying ==
  /\ focus = "N" /\ N!Next
  /\ UNCHANGED <<oVars, sVars, vars, cVars, tVars, pVars>>

Pruning ==
  /\ focus = "P" /\ P!Next
  /\ UNCHANGED <<oVars, sVars, vars, cVars, tVars, nVars>>

PartsNext ==
        /\ UNCHANGED focus
        /\ \/ Codes \/ Sessions \/ Starting \/ Caching
           \/ Syncing \/ Notifying \/ Pruning

partsVars ==
  <<focus, oVars, sVars, vars, cVars, tVars, nVars, pVars>>

\* The fairness of the part that runs, as its own Spec states it.
PartsSpec ==
  /\ PartsInit /\ [][PartsNext]_partsVars
  /\ \A w \in Workers : WF_vars(focus = "U" /\ Step(w))
  /\ \A n \in Notes : WF_nVars(focus = "N" /\ N!Due(n))
  /\ \A w \in Workers : WF_nVars(focus = "N" /\ N!Timer(w))
-----------------------------------------------------------------------------
\* The part that runs keeps its types.
PartsTypeOK ==
  /\ focus = "O" => O!TypeOK
  /\ focus = "S" => S!TypeOK
  /\ focus = "U" => TypeOK
  /\ focus = "C" => C!TypeOK
  /\ focus = "T" => T!TypeOK
  /\ focus = "N" => N!TypeOK
  /\ focus = "P" => P!TypeOK

\* The properties of the parts, each stated and explained in its module.
SignInCounts == /\ focus = "O" => O!CodesUsedOnce
                /\ focus = "S" => S!StrikesCounted
StartupWhole == focus = "U" => AppliedMeansBuilt /\ SeedsWhole
SchemaDone == focus = "U" => SchemaCompletes
AnswerAge == focus = "C" => C!AnswerAge
SeatsComeWithTrain == focus = "T" => T!SeatsComeWithTrain
NotificationSettles == focus = "N" => N!NotificationSettles
MonthCovered == focus = "P" => P!MonthCovered
=============================================================================
