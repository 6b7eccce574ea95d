----------------------------- MODULE RegisterPage -----------------------------
(***************************************************************************)
(* The registration page (Register.tsx 26-178 and the conditions of its    *)
(* form, 216-349): an Aadhaar number is verified by an OTP, and then the   *)
(* account is registered with the number that is in the field.  The number *)
(* can be changed until it is verified, while requests about an earlier    *)
(* one are out; POST /register (auth.routes.ts 160-229) does not ask for a *)
(* verified number, so the page alone ties the two together.               *)
(***************************************************************************)
EXTENDS Naturals

CONSTANTS Numbers,      \* Aadhaar numbers, as typed
          NoNumber,     \* an empty field, no request
          MaxEdits      \* bound of the changes of the field

RegisterAssumption == NoNumber \notin Numbers /\ MaxEdits \in Nat

VARIABLES aadhaar, edits,
          otpSent, otpVerified, cooldown,
          sending,      \* the number of the request in flight, or NoNumber
          verifying,
          submitting,
          onPage,
          otp,          \* numbers an OTP is out for
          passed,       \* history: numbers whose OTP was verified
          changed,      \* history: the number was changed while being verified
          accounts      \* registered numbers

vars == <<aadhaar, edits, otpSent, otpVerified, cooldown, sending, verifying,
          submitting, onPage, otp, passed, changed, accounts>>
server == <<otp, passed, accounts>>

Init ==
  /\ aadhaar = NoNumber /\ edits = 0
  /\ otpSent = FALSE /\ otpVerified = FALSE /\ cooldown = FALSE
  /\ sending = NoNumber /\ verifying = NoNumber /\ submitting = NoNumber
  /\ onPage = TRUE
  /\ otp = {} /\ passed = {} /\ changed = FALSE
  /\ accounts = {}

\* Mutant of Editable: the field stays open.
EditableAlways == onPage

\* disabled={otpVerified}
Editable == onPage /\ ~otpVerified

Edit(n) ==
  /\ Editable /\ n # aadhaar /\ edits < MaxEdits
  /\ aadhaar' = n /\ edits' = edits + 1
  /\ changed' = (changed \/ verifying # NoNumber)
  /\ UNCHANGED <<otpSent, otpVerified, cooldown, sending, verifying, submitting,
                 onPage, server>>

\* The button is gone once the number is verified, and rests for 30 seconds.
SendAadhaarOtp ==
  /\ onPage /\ ~otpVerified /\ ~cooldown /\ sending = NoNumber
  /\ aadhaar # NoNumber
  /\ sending' = aadhaar
  /\ UNCHANGED <<aadhaar, edits, otpSent, otpVerified, cooldown, verifying,
                 submitting, onPage, changed, server>>

\* POST /aadhaar/send-otp, and its answer.
Sent ==
  /\ sending # NoNumber
  /\ otp' = otp \cup {sending}
  /\ otpSent' = TRUE /\ cooldown' = TRUE
  /\ sending' = NoNumber
  /\ UNCHANGED <<aadhaar, edits, otpVerified, verifying, submitting, onPage,
                 changed, passed, accounts>>

SendFails ==
  /\ sending # NoNumber /\ sending' = NoNumber
  /\ UNCHANGED <<aadhaar, edits, otpSent, otpVerified, cooldown, verifying,
                 submitting, onPage, changed, server>>

CooldownEnds ==
  /\ cooldown /\ cooldown' = FALSE
  /\ UNCHANGED <<aadhaar, edits, otpSent, otpVerified, sending, verifying,
                 submitting, onPage, changed, server>>

\* The number is taken from the field as it is now, not as the OTP was sent for.
VerifyAadhaarOtp ==
  /\ onPage /\ otpSent /\ ~otpVerified /\ verifying = NoNumber
  /\ aadhaar # NoNumber
  /\ verifying' = aadhaar
  /\ UNCHANGED <<aadhaar, edits, otpSent, otpVerified, cooldown, sending,
                 submitting, onPage, changed, server>>

\* POST /aadhaar/verify-otp: a code that is good is used up.
Verified ==
  /\ verifying \in otp
  /\ otp' = otp \ {verifying} /\ passed' = passed \cup {verifying}
  /\ otpVerified' = TRUE
  /\ verifying' = NoNumber
  /\ UNCHANGED <<aadhaar, edits, otpSent, cooldown, sending, submitting, onPage,
                 changed, accounts>>

\* A wrong code, an OTP that is over, or no answer, though the code was used.
VerifyFails ==
  /\ verifying # NoNumber
  /\ verifying' = NoNumber
  /\ \/ UNCHANGED <<otp, passed>>
     \/ /\ verifying \in otp
        /\ otp' = otp \ {verifying} /\ passed' = passed \cup {verifying}
  /\ UNCHANGED <<aadhaar, edits, otpSent, otpVerified, cooldown, sending,
                 submitting, onPage, changed, accounts>>

\* handleSubmit lets a number of 12 digits through only.
OnSubmit ==
  /\ onPage /\ otpVerified /\ submitting = NoNumber
  /\ aadhaar # NoNumber
  /\ submitting' = aadhaar
  /\ UNCHANGED <<aadhaar, edits, otpSent, otpVerified, cooldown, sending,
                 verifying, onPage, changed, server>>

\* POST /register, and on to the login page.
Registered ==
  /\ submitting # NoNumber /\ submitting \notin accounts
  /\ accounts' = accounts \cup {submitting}
  /\ submitting' = NoNumber /\ onPage' = FALSE
  /\ UNCHANGED <<aadhaar, edits, otpSent, otpVerified, cooldown, sending,
                 verifying, changed, otp, passed>>

\* The number is taken, a field is refused, or the answer is lost, though the
\* account may be there.
RegisterFails ==
  /\ submitting # NoNumber
  /\ submitting' = NoNumber
  /\ accounts' \in {accounts, accounts \cup {submitting}}
  /\ UNCHANGED <<aadhaar, edits, otpSent, otpVerified, cooldown, sending,
                 verifying, onPage, changed, otp, passed>>

Next ==
  \/ \E n \in Numbers : Edit(n)
  \/ SendAadhaarOtp \/ Sent \/ SendFails \/ CooldownEnds
  \/ VerifyAadhaarOtp \/ Verified \/ VerifyFails
  \/ OnSubmit \/ Registered \/ RegisterFails

Spec == Init /\ [][Next]_vars
-----------------------------------------------------------------------------
Typed == Numbers \cup {NoNumber}

TypeOK ==
  /\ {aadhaar, sending, verifying, submitting} \subseteq Typed
  /\ edits \in 0..MaxEdits
  /\ otpSent \in BOOLEAN /\ otpVerified \in BOOLEAN /\ cooldown \in BOOLEAN
  /\ onPage \in BOOLEAN /\ changed \in BOOLEAN
  /\ otp \cup passed \cup accounts \subseteq Numbers

\* The numbers registered were verified, unless the number was changed while a
\* verification was out; though answers are lost and forms submitted again.
RegisteredWasVerified == changed \/ accounts \subseteq passed
=============================================================================
