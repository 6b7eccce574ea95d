----------------------------- MODULE OneTimeCodes -----------------------------
(***************************************************************************)
(* The codes an account is verified with (routes/auth.routes.ts 29-341 and *)
(* 487-517, routes/webauthn.routes.ts): a phone's and an Aadhaar number's  *)
(* OTP, in Redis while it is ready and in pending_otps otherwise; the      *)
(* token of the verification e-mail and the challenge of a WebAuthn        *)
(* ceremony, columns of the user.  A verification reads the code, compares *)
(* it, and takes it away in a later statement, by its key.                 *)
(*                                                                         *)
(* A code is the number of its issue: two issues never draw the same one.  *)
(***************************************************************************)
EXTENDS Naturals, Sequences

CONSTANTS Calls,
          MaxCodes,     \* bound of the codes issued
          MaxClock,     \* bound of the clock
          MaxFlips      \* bound of Redis coming and going

CodesAssumption == MaxCodes \in Nat \ {0} /\ MaxClock \in Nat /\ MaxFlips \in Nat

VARIABLES ready,      \* isRedisReady()
          flips,
          clock,
          registered, \* the row of the user is there
          issued,     \* issued[c]: the kind of code c
          slot,       \* slot[store][kind]
          call,
          accepted,   \* accepted[c]: how many verifications code c has passed
          raced       \* codes that two verifications had compared at once

vars == <<ready, flips, clock, registered, issued, slot, call, accepted, raced>>

Otps == {"phone", "aadhaar"}
Kinds == Otps \cup {"email", "challenge"}
Stores == {"redis", "db"}
Codes == 1..MaxCodes
NoCode == [code |-> 0, till |-> 0]
Never == MaxClock + 9
Idle == [pc |-> "idle", code |-> 0, kind |-> "phone", store |-> "db"]

\* An OTP lives for 5 minutes, the token for a day, a challenge for ever.
Till(kind) == CASE kind \in Otps -> clock + 1
                [] kind = "email" -> clock + 2
                [] OTHER -> Never
-----------------------------------------------------------------------------
Init ==
  /\ ready \in BOOLEAN /\ flips = 0 /\ clock = 0
  /\ registered = FALSE
  /\ issued = <<>>
  /\ slot = [s \in Stores |-> [k \in Kinds |-> NoCode]]
  /\ call = [r \in Calls |-> Idle]
  /\ accepted = [c \in Codes |-> 0]
  /\ raced = {}

Store(kind) == IF kind \in Otps /\ ready THEN "redis" ELSE "db"

\* setex, the upsert into pending_otps, or the column: the last one counts.
Issue(kind) ==
  /\ Len(issued) < MaxCodes
  /\ issued' = Append(issued, kind)
  /\ slot' = [slot EXCEPT ![Store(kind)][kind] =
                [code |-> Len(issued) + 1, till |-> Till(kind)]]
  /\ UNCHANGED <<ready, flips, clock, call, accepted, raced>>

\* With an e-mail address its token is sent; the phone's OTP comes after it.
RegisterByEmail == ~registered /\ registered' = TRUE /\ Issue("email")

RegisterByPhone == ~registered /\ registered' = TRUE /\ Issue("phone")

SendOtp == registered /\ Issue("phone") /\ UNCHANGED registered

AadhaarSendOtp == Issue("aadhaar") /\ UNCHANGED registered

AuthOptions == registered /\ Issue("challenge") /\ UNCHANGED registered

\* The ceremony of a new credential has the same column for its challenge.
RegisterOptions == registered /\ Issue("challenge") /\ UNCHANGED registered

\* Redis drops a key when its time is up, the table's row is good at it.
Live(s, k) ==
  /\ slot[s][k] # NoCode
  /\ IF s = "redis" THEN clock < slot[s][k].till ELSE clock <= slot[s][k].till

\* A verification finds its code; one that does not is refused.
Compare(r, kind) ==
  /\ call[r] = Idle
  /\ Live(Store(kind), kind)
  /\ LET c == slot[Store(kind)][kind].code IN
     /\ call' = [call EXCEPT ![r] = [pc |-> "match", code |-> c, kind |-> kind,
                                     store |-> Store(kind)]]
     /\ raced' = IF \E q \in Calls \ {r} : call[q].code = c THEN raced \cup {c} ELSE raced
  /\ UNCHANGED <<ready, flips, clock, registered, issued, slot, accepted>>

VerifyOtp(r) == registered /\ Compare(r, "phone")
VerifyAadhaarOtp(r) == Compare(r, "aadhaar")
VerifyEmail(r) == registered /\ Compare(r, "email")
AuthVerify(r) == registered /\ Compare(r, "challenge")
RegisterVerify(r) == registered /\ Compare(r, "challenge")

\* Mutant of TakenFrom: isRedisReady() is asked again for the deletion.
TakenFromAskedAgain(r) == Store(call[r].kind)

\* The deletion goes where the code was read.
TakenFrom(r) == call[r].store

\* DEL by the key, DELETE by the key, or the column set to NULL: whatever
\* code is there now.
Consume(r) ==
  /\ call[r].pc = "match"
  /\ slot' = [slot EXCEPT ![TakenFrom(r)][call[r].kind] = NoCode]
  /\ accepted' = [accepted EXCEPT ![call[r].code] = @ + 1]
  /\ call' = [call EXCEPT ![r] = Idle]
  /\ UNCHANGED <<ready, flips, clock, registered, issued, raced>>

\* The deletion throws: 500, and the code stays.
ConsumeFails(r) ==
  /\ call[r].pc = "match"
  /\ call' = [call EXCEPT ![r] = Idle]
  /\ UNCHANGED <<ready, flips, clock, registered, issued, slot, accepted, raced>>

Tick ==
  /\ clock < MaxClock
  /\ clock' = clock + 1
  /\ UNCHANGED <<ready, flips, registered, issued, slot, call, accepted, raced>>

\* Redis goes, with its keys or without, and comes back.
Flip ==
  /\ flips < MaxFlips
  /\ flips' = flips + 1
  /\ ready' = ~ready
  /\ \/ UNCHANGED slot
     \/ ready /\ slot' = [slot EXCEPT !["redis"] = [k \in Kinds |-> NoCode]]
  /\ UNCHANGED <<clock, registered, issued, call, accepted, raced>>

Next ==
  \/ RegisterByEmail \/ RegisterByPhone \/ SendOtp \/ AadhaarSendOtp \/ AuthOptions
  \/ RegisterOptions
  \/ \E r \in Calls : \/ VerifyOtp(r) \/ VerifyAadhaarOtp(r) \/ VerifyEmail(r)
                      \/ AuthVerify(r) \/ RegisterVerify(r)
                      \/ Consume(r) \/ ConsumeFails(r)
  \/ Tick \/ Flip

Spec == Init /\ [][Next]_vars
-----------------------------------------------------------------------------
TypeOK ==
  /\ ready \in BOOLEAN /\ flips \in 0..MaxFlips /\ clock \in 0..MaxClock
  /\ registered \in BOOLEAN
  /\ issued \in Seq(Kinds) /\ Len(issued) <= MaxCodes
  /\ slot \in [Stores -> [Kinds -> [code : 0..MaxCodes, till : 0..Never]]]
  /\ call \in [Calls -> [pc : {"idle", "match"}, code : 0..MaxCodes, kind : Kinds,
                         store : Stores]]
  /\ accepted \in [Codes -> Nat]
  /\ raced \subseteq Codes

\* A code passes one verification, though the store changes between Redis and
\* the table while it is out, newer codes replace it and deletions fail;
\* except one that two verifications had compared before either deleted it.
CodesUsedOnce == \A c \in Codes \ raced : accepted[c] <= 1
=============================================================================
