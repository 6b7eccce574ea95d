----------------------------- MODULE BookingParts -----------------------------
(***************************************************************************)
(* Twelve parts, of the booking side and the pages, side by side.  They    *)
(* share no variable, so "focus" picks at the start which of them runs,    *)
(* and every behaviour is one of that part's, the others being at rest:    *)
(* an interleaving of two of them shows nothing that each alone does not.  *)
(***************************************************************************)
EXTENDS Integers, Sequences, TLC

CONSTANTS
  Calls,                                        \* requests in flight
  Users, NoUser,
  Entries, Classes, Total, MaxPassengers, MaxCancels,     \* Waitlist
  Bookings, Price, Size,                                  \* Cancellation
  Rows, NoBooking, Seats, Requests, Wanted, MaxSeats,     \* Allocation
  Places, MaxBookings,                                    \* EventSeats
  Attempts, NoAttempt,                                    \* CheckoutKeys
  Lots, Stray, NoLot, Orders, NoOrder,                    \* CheckoutPage
  Amounts, Silver, MaxCalls,                              \* Balances
  Downloads, Threshold, Timeout, MaxFailures,             \* Breaker
  Pnrs, MaxTickets,                                       \* PlatformTickets
  NoSocket, MaxSockets,                                   \* LiveTracking
  Tabs, MaxSetups,                                        \* MfaSetup
  Numbers, NoNumber, MaxEdits                             \* RegisterPage

VARIABLES focus,
          entry, free, wCall, cancels, arrived, disturbed,
          booking, seats, cCall, refunded, overwritten, halved,
          seat, req, told, leftBy,
          eSeat, available, sold, eCall, eTold, rude,
          kRazorpay, sagaKey, payKey, payment, kBooking, kSeat, pc, answer,
          pRazorpay, page, busy, step, pSeats, lot, owner, order, shown,
          account, ledger, wallets, credits, bCall, calls, lost, bRaced,
          state, failures, age, dCall, ended,
          tickets, tCall, tTold, hit,
          serverUp, widget, made, client, server, timer, poll, retried,
          mfa_secret, mfa_enabled, tab, mCall, matched, mRaced,
          aadhaar, edits, otpSent, otpVerified, cooldown, sending, verifying,
          submitting, onPage, otp, passed, changed, accounts

wVars == <<entry, free, wCall, cancels, arrived, disturbed>>
cVars == <<booking, seats, cCall, refunded, overwritten, halved>>
aVars == <<seat, req, told, leftBy>>
eVars == <<eSeat, available, sold, eCall, eTold, rude>>
kVars == <<kRazorpay, sagaKey, payKey, payment, kBooking, kSeat, pc, answer>>
pVars == <<pRazorpay, page, busy, step, pSeats, lot, owner, order, shown>>
bVars == <<account, ledger, wallets, credits, bCall, calls, lost, bRaced>>
dVars == <<state, failures, age, dCall, ended>>
tVars == <<tickets, tCall, tTold, hit>>
lVars == <<serverUp, widget, made, client, server, timer, poll, retried>>
mVars == <<mfa_secret, mfa_enabled, tab, mCall, matched, mRaced>>
rVars == <<aadhaar, edits, otpSent, otpVerified, cooldown, sending, verifying,
           submitting, onPage, otp, passed, changed, accounts>>

W == INSTANCE Waitlist WITH call <- wCall
C == INSTANCE Cancellation WITH call <- cCall
A == INSTANCE Allocation WITH Bookings <- Rows
E == INSTANCE EventSeats WITH
       seat <- eSeat, call <- eCall, told <- eTold, Seats <- Places
K == INSTANCE CheckoutKeys WITH
       razorpay <- kRazorpay, booking <- kBooking, seat <- kSeat
P == INSTANCE CheckoutPage WITH razorpay <- pRazorpay, seats <- pSeats
B == INSTANCE Balances WITH call <- bCall, raced <- bRaced
D == INSTANCE Breaker WITH call <- dCall, Calls <- Downloads
T == INSTANCE PlatformTickets WITH call <- tCall, told <- tTold
L == INSTANCE LiveTracking
M == INSTANCE MfaSetup WITH call <- mCall, raced <- mRaced
R == INSTANCE RegisterPage

ASSUME PartsAssumption ==
  /\ W!WaitlistAssumption /\ C!CancellationAssumption /\ A!AllocationAssumption
  /\ A!SeatsAssumption /\ E!EventAssumption /\ K!KeysAssumption
  /\ P!PageAssumption /\ B!BalancesAssumption /\ D!BreakerAssumption
  /\ T!TicketsAssumption /\ L!TrackingAssumption /\ M!MfaAssumption
  /\ R!RegisterAssumption

Init == /\ focus \in {"W", "C", "A", "E", "K", "P", "B", "D", "T", "L", "M", "R"}
        /\ W!Init /\ C!Init /\ A!Init /\ E!Init /\ K!Init /\ P!Init /\ B!Init
        /\ D!Init /\ T!Init /\ L!Init /\ M!Init /\ R!Init
        /\ focus # "K" => ~kRazorpay
        /\ focus # "P" => ~pRazorpay

Waiting ==
  /\ focus = "W" /\ W!Next
  /\ UNCHANGED <<cVars, aVars, eVars, kVars, pVars, bVars,
                 dVars, tVars, lVars, mVars, rVars>>

Cancelling ==
  /\ focus = "C" /\ C!Next
  /\ UNCHANGED <<wVars, aVars, eVars, kVars, pVars, bVars,
                 dVars, tVars, lVars, mVars, rVars>>

Allocating ==
  /\ focus = "A" /\ A!Next
  /\ UNCHANGED <<wVars, cVars, eVars, kVars, pVars, bVars,
                 dVars, tVars, lVars, mVars, rVars>>

Selling ==
  /\ focus = "E" /\ E!Next
  /\ UNCHANGED <<wVars, cVars, aVars, kVars, pVars, bVars,
                 dVars, tVars, lVars, mVars, rVars>>

Keying ==
  /\ focus = "K" /\ K!Next
  /\ UNCHANGED <<wVars, cVars, aVars, eVars, pVars, bVars,
                 dVars, tVars, lVars, mVars, rVars>>

Checkout ==
  /\ focus = "P" /\ P!Next
  /\ UNCHANGED <<wVars, cVars, aVars, eVars, kVars, bVars,
                 dVars, tVars, lVars, mVars, rVars>>

Balancing ==
  /\ focus = "B" /\ B!Next
  /\ UNCHANGED <<wVars, cVars, aVars, eVars, kVars, pVars, dVars,
                 tVars, lVars, mVars, rVars>>

Downloading ==
  /\ focus = "D" /\ D!Next
  /\ UNCHANGED <<wVars, cVars, aVars, eVars, kVars, pVars, bVars,
                 tVars, lVars, mVars, rVars>>

Ticketing ==
  /\ focus = "T" /\ T!Next
  /\ UNCHANGED <<wVars, cVars, aVars, eVars, kVars, pVars, bVars,
                 dVars, lVars, mVars, rVars>>

Tracking ==
  /\ focus = "L" /\ L!Next
  /\ UNCHANGED <<wVars, cVars, aVars, eVars, kVars, pVars, bVars,
                 dVars, tVars, mVars, rVars>>

SettingUp ==
  /\ focus = "M" /\ M!Next
  /\ UNCHANGED <<wVars, cVars, aVars, eVars, kVars, pVars, bVars,
                 dVars, tVars, lVars, rVars>>

Registering ==
  /\ focus = "R" /\ R!Next
  /\ UNCHANGED <<wVars, cVars, aVars, eVars, kVars, pVars, bVars,
                 dVars, tVars, lVars, mVars>>

Next ==
  /\ UNCHANGED focus
  /\ \/ Waiting \/ Cancelling \/ Allocating \/ Selling \/ Keying \/ Checkout
     \/ Balancing \/ Downloading \/ Ticketing \/ Tracking \/ SettingUp
     \/ Registering

partsVars == <<focus, wVars, cVars, aVars, eVars, kVars, pVars, bVars, dVars, tVars,
               lVars, mVars, rVars>>

Spec == Init /\ [][Next]_partsVars
-----------------------------------------------------------------------------
\* The part that runs keeps its types.
TypeOK ==
  /\ focus = "W" => W!TypeOK
  /\ focus = "C" => C!TypeOK
  /\ focus = "A" => A!TypeOK
  /\ focus = "E" => E!TypeOK
  /\ focus = "K" => K!TypeOK
  /\ focus = "P" => P!TypeOK
  /\ focus = "B" => B!TypeOK
  /\ focus = "D" => D!TypeOK
  /\ focus = "T" => T!TypeOK
  /\ focus = "L" => L!TypeOK
  /\ focus = "M" => M!TypeOK
  /\ focus = "R" => R!TypeOK

\* The properties of the parts, each stated and explained in its module.
NumbersKept ==
  focus = "W" => W!WaitingInOrder /\ W!RacKeepsItsNumber /\ W!NumberWithinArrivals
CancellationAddsUp == focus = "C" => C!CancellationAddsUp
NoOrphanLock == focus = "A" => A!NoOrphanLock
AnsweredInFull == A!AnsweredInFull
SoldOnce == focus = "E" => E!SoldOnce
OneTicketPerKey == focus = "K" => K!OneTicketPerKey
SuccessIsSettled == focus = "P" => P!SuccessIsSettled
MoneyAccounted == focus = "B" => B!PointsAccounted /\ B!WalletAccounted
GeneratorSpared == D!GeneratorSpared
TicketsAreTheirs == focus = "T" => T!TicketsAreTheirs
TrackingHonest == focus = "L" => L!TrackingHonest
EnrolmentHonest == /\ focus = "M" => M!FactorIsConfirmed
                   /\ focus = "R" => R!RegisteredWasVerified
=============================================================================
