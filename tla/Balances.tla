------------------------------- MODULE Balances -------------------------------
(***************************************************************************)
(* What one user has in loyalty points (services/loyalty.service.ts 29-96) *)
(* and in the wallet (routes/payment.routes.ts 286-318), with the two      *)
(* ledgers that list every change.  A balance and its ledger are changed   *)
(* by two statements outside any transaction.                              *)
(*                                                                         *)
(* History variables: "lost" sums up changes whose ledger row was never    *)
(* written; "raced" becomes TRUE when two redemptions overlap.             *)
(***************************************************************************)
EXTENDS Integers, Sequences, FiniteSets

Ext == INSTANCE FiniteSetsExt

CONSTANTS Calls,        \* requests in flight
          Amounts,      \* rupees of a booking or of a top-up, points to redeem
          Silver,       \* lifetime points of the next tier
          MaxCalls      \* bound of the calls that start

BalancesAssumption == /\ Amounts \subseteq Nat \ {0}
                      /\ Silver \in Nat /\ MaxCalls \in Nat
                      /\ IsFiniteSet(Calls)

VARIABLES account,      \* loyalty_accounts, or nothing yet
          ledger,       \* sum of loyalty_transactions
          wallets,      \* balances of the user's rows in wallets
          credits,      \* sum of wallet_transactions
          call, calls, lost, raced

vars == <<account, ledger, wallets, credits, call, calls, lost, raced>>

Idle == [pc |-> "idle"]
NoAccount == [exists |-> FALSE, points |-> 0, lifetime |-> 0, tier |-> "BRONZE"]

\* getTier; two tiers stand for the four.
TierOf(lifetime) == IF lifetime >= Silver THEN "SILVER" ELSE "BRONZE"
Earned(amount, lifetime) == IF TierOf(lifetime) = "SILVER" THEN 2 * amount ELSE amount

Init ==
  /\ account = NoAccount
  /\ ledger = 0 /\ wallets = <<>> /\ credits = 0
  /\ call = [k \in Calls |-> Idle]
  /\ calls = 0
  /\ lost = [points |-> 0, wallet |-> 0]
  /\ raced = FALSE

Goto(k, r) == call' = [call EXCEPT ![k] = r]
Started(k) == call[k].pc = "idle" /\ calls < MaxCalls /\ calls' = calls + 1
-----------------------------------------------------------------------------
(* Loyalty points *)

\* earnPoints or redeemPoints begins: SELECT of getOrCreateAccount.
StartPoints(k, kind, a) ==
  /\ Started(k)
  /\ Goto(k, [pc |-> IF account.exists THEN "read" ELSE "create", kind |-> kind, n |-> a])
  /\ raced' = (raced \/ (kind = "redeem" /\ \E j \in Calls :
                  call[j].pc # "idle" /\ call[j].kind = "redeem"))
  /\ UNCHANGED <<account, ledger, wallets, credits, lost>>

\* INSERT INTO loyalty_accounts: UNIQUE(user_id) fails the second of two.
CreateAccount(k) ==
  /\ call[k].pc = "create"
  /\ IF account.exists THEN Goto(k, Idle) /\ UNCHANGED account
     ELSE account' = [NoAccount EXCEPT !.exists = TRUE] /\ Goto(k, [call[k] EXCEPT !.pc = "read"])
  /\ UNCHANGED <<ledger, wallets, credits, calls, lost, raced>>

\* The row is read; too few points end a redemption.
ReadAccount(k) ==
  LET c == call[k] IN
  /\ c.pc = "read"
  /\ IF c.kind = "earn"
     THEN Goto(k, [pc |-> "add", kind |-> "earn", n |-> Earned(c.n, account.lifetime),
                   read |-> account])
     ELSE IF account.points < c.n THEN Goto(k, Idle)
     ELSE Goto(k, [pc |-> "add", kind |-> "redeem", n |-> -c.n, read |-> account])
  /\ UNCHANGED <<account, ledger, wallets, credits, calls, lost, raced>>

\* Mutant of PointsAfter: the points that were read are written back.
PointsAfterRead(c) == c.read.points + c.n

\* points = points + n
PointsAfter(c) == account.points + c.n

AddPoints(k) ==
  LET c == call[k] IN
  /\ c.pc = "add"
  /\ account' = [account EXCEPT !.points = PointsAfter(c),
                                !.lifetime = IF c.kind = "earn" THEN @ + c.n ELSE @]
  /\ Goto(k, [c EXCEPT !.pc = IF c.kind = "earn" THEN "tier" ELSE "note"])
  /\ UNCHANGED <<ledger, wallets, credits, calls, lost, raced>>

\* The tier that follows from what was read before the UPDATE.
SetTier(k) ==
  LET c == call[k] IN
  /\ c.pc = "tier"
  /\ account' = [account EXCEPT !.tier = TierOf(c.read.lifetime + c.n)]
  /\ Goto(k, [c EXCEPT !.pc = "note"])
  /\ UNCHANGED <<ledger, wallets, credits, calls, lost, raced>>

NotePoints(k) ==
  /\ call[k].pc = "note"
  /\ ledger' = ledger + call[k].n
  /\ Goto(k, Idle)
  /\ UNCHANGED <<account, wallets, credits, calls, lost, raced>>
-----------------------------------------------------------------------------
(* POST /wallet/topup *)

StartTopUp(k, a) ==
  /\ Started(k)
  /\ Goto(k, [pc |-> IF wallets = <<>> THEN "open" ELSE "pay", kind |-> "topup", n |-> a])
  /\ UNCHANGED <<account, ledger, wallets, credits, lost, raced>>

\* Mutant of OpenWallet: a row that came in between is overwritten.
OpenWalletAgain(k) ==
  /\ call[k].pc = "open"
  /\ wallets' = <<call[k].n>>
  /\ Goto(k, [call[k] EXCEPT !.pc = "credit"])
  /\ UNCHANGED <<account, ledger, credits, calls, lost, raced>>

\* INSERT INTO wallets, which has no UNIQUE(user_id).
OpenWallet(k) ==
  /\ call[k].pc = "open"
  /\ wallets' = Append(wallets, call[k].n)
  /\ Goto(k, [call[k] EXCEPT !.pc = "credit"])
  /\ UNCHANGED <<account, ledger, credits, calls, lost, raced>>

\* UPDATE wallets SET balance = balance + n WHERE user_id: every row.
PayIn(k) ==
  /\ call[k].pc = "pay"
  /\ wallets' = [i \in DOMAIN wallets |-> wallets[i] + call[k].n]
  /\ Goto(k, [call[k] EXCEPT !.pc = "credit"])
  /\ UNCHANGED <<account, ledger, credits, calls, lost, raced>>

Credit(k) ==
  /\ call[k].pc = "credit"
  /\ credits' = credits + call[k].n
  /\ Goto(k, Idle)
  /\ UNCHANGED <<account, ledger, wallets, calls, lost, raced>>

\* A statement after the balance's fails, or the worker dies before it; so
\* does the subquery of a credit that finds two wallets.
Fails(k) ==
  LET c == call[k] IN
  /\ c.pc \in {"tier", "note", "credit"}
  /\ lost' = IF c.pc = "credit" THEN [lost EXCEPT !.wallet = @ + c.n]
             ELSE [lost EXCEPT !.points = @ + c.n]
  /\ Goto(k, Idle)
  /\ UNCHANGED <<account, ledger, wallets, credits, calls, raced>>
-----------------------------------------------------------------------------
Next ==
  \E k \in Calls :
    \/ \E a \in Amounts : \/ \E kind \in {"earn", "redeem"} : StartPoints(k, kind, a)
                          \/ StartTopUp(k, a)
    \/ CreateAccount(k) \/ ReadAccount(k) \/ AddPoints(k) \/ SetTier(k) \/ NotePoints(k)
    \/ OpenWallet(k) \/ PayIn(k) \/ Credit(k) \/ Fails(k)

Spec == Init /\ [][Next]_vars
-----------------------------------------------------------------------------
AccountRecord == [exists : BOOLEAN, points : Int, lifetime : Nat,
                  tier : {"BRONZE", "SILVER"}]

CallShapes ==
  {Idle}
  \cup [pc : {"create", "read"}, kind : {"earn", "redeem"}, n : Amounts]
  \cup [pc : {"add", "tier", "note"}, kind : {"earn"}, n : Nat, read : AccountRecord]
  \cup [pc : {"add", "note"}, kind : {"redeem"}, n : Int, read : AccountRecord]
  \cup [pc : {"open", "pay", "credit"}, kind : {"topup"}, n : Amounts]

TypeOK ==
  /\ account \in AccountRecord
  /\ ledger \in Int /\ credits \in Int
  /\ lost \in [points : Int, wallet : Int]
  /\ wallets \in Seq(Nat)
  /\ call \in [Calls -> CallShapes]
  /\ calls \in 0..MaxCalls
  /\ raced \in BOOLEAN

\* What the calls that have reached one of the statements pcs still write.
InFlight(pcs) ==
  Ext!MapThenSumSet(LAMBDA k : call[k].n, {k \in Calls : call[k].pc \in pcs})

\* No update of the points is lost: whatever overlaps, they are the sum of
\* the ledger, of the rows that calls in flight still write to it, and of
\* those that failures kept out.  Without two redemptions at once the user
\* never has less than none.
PointsAccounted ==
  /\ account.points = ledger + InFlight({"tier", "note"}) + lost.points
  /\ ~raced => account.points >= 0

\* As long as first top-ups did not overlap, the same holds of the wallet.
WalletAccounted ==
  Len(wallets) = 1 => wallets[1] = credits + InFlight({"credit"}) + lost.wallet
=============================================================================
