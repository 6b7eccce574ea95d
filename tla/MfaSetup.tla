------------------------------- MODULE MfaSetup -------------------------------
(***************************************************************************)
(* Setting up a second factor: the dashboard's modal (MfaSetupModal.tsx,   *)
(* Dashboard.tsx 255-260) over POST /mfa/setup and /mfa/confirm            *)
(* (routes/auth.routes.ts 562-635).  A setup overwrites the secret and     *)
(* turns the factor off in one UPDATE; a confirmation reads the user,      *)
(* compares the code and turns it on in a later UPDATE, of whatever secret *)
(* is there by then.  A bypass code (MFA_BYPASS_CODE, 123456 by default)   *)
(* confirms any secret.  Answers reach the dashboard after their modal was *)
(* closed, and perhaps opened again.                                       *)
(*                                                                         *)
(* A secret is the number of its setup, a code is the secret it was made   *)
(* from, 0 being a code of none.                                           *)
(***************************************************************************)
EXTENDS Naturals

CONSTANTS Tabs, Calls,
          MaxSetups     \* bound of the setups

MfaAssumption == MaxSetups \in Nat /\ Tabs # {}

VARIABLES mfa_secret, mfa_enabled,
          tab,          \* a dashboard: its modal and what it says
          call,
          matched,      \* history: secrets a code of theirs, or the bypass code,
                        \* was accepted for
          raced         \* history: the factor was turned on for a secret that
                        \* a setup had replaced since the comparison

vars == <<mfa_secret, mfa_enabled, tab, call, matched, raced>>

Steps == {"closed", "idle", "qr", "verify"}
Fresh == [step |-> "closed", loading |-> FALSE, secret |-> 0,
          mfaActive |-> FALSE, told |-> 0]
Idle == [pc |-> "idle", tab |-> CHOOSE t \in Tabs : TRUE, code |-> 0, to |-> "modal"]

Init ==
  /\ mfa_secret = 0 /\ mfa_enabled = FALSE
  /\ tab = [t \in Tabs |-> Fresh]
  /\ call = [c \in Calls |-> Idle]
  /\ matched = {} /\ raced = FALSE

Server == <<mfa_secret, mfa_enabled, matched, raced>>

\* What is left of those who wait for the answers to a dashboard's calls: of a
\* modal that is gone the page, of a page that is gone nobody.
Orphaned(t, to) == [c \in Calls |->
  IF call[c].pc # "idle" /\ call[c].tab = t /\ call[c].to # "nobody"
  THEN [call[c] EXCEPT !.to = to] ELSE call[c]]

OpenModal(t) ==
  /\ tab[t].step = "closed" /\ ~tab[t].mfaActive
  /\ tab' = [tab EXCEPT ![t].step = "idle"]
  /\ UNCHANGED <<call, Server>>

CloseModal(t) ==
  /\ tab[t].step # "closed"
  /\ tab' = [tab EXCEPT ![t] = [Fresh EXCEPT !.mfaActive = tab[t].mfaActive,
                                            !.told = tab[t].told]]
  /\ call' = Orphaned(t, "page")
  /\ UNCHANGED Server

\* The dashboard does not ask whether the factor is on.
Reload(t) ==
  /\ tab[t] # Fresh
  /\ tab' = [tab EXCEPT ![t] = Fresh]
  /\ call' = Orphaned(t, "nobody")
  /\ UNCHANGED Server

Ask(t, c, what, code) ==
  /\ call[c] = Idle /\ ~tab[t].loading
  /\ call' = [call EXCEPT ![c] = [pc |-> what, tab |-> t, code |-> code, to |-> "modal"]]
  /\ tab' = [tab EXCEPT ![t].loading = TRUE]
  /\ UNCHANGED Server

StartSetup(t, c) == tab[t].step = "idle" /\ Ask(t, c, "setup", 0)

\* Mutant of Rewritten: the factor stays on with the new secret.
RewrittenOn == mfa_secret' = mfa_secret + 1 /\ UNCHANGED mfa_enabled

Rewritten == mfa_secret' = mfa_secret + 1 /\ mfa_enabled' = FALSE

\* An answer that is no success.
Refused(c) == call' = [call EXCEPT ![c].pc = "refused", ![c].code = 0]

\* POST /mfa/setup.  The audit row or the QR code may fail after the UPDATE.
Setup(c) ==
  /\ call[c].pc = "setup" /\ mfa_secret < MaxSetups
  /\ Rewritten /\ raced' = FALSE
  /\ Refused(c) \/ call' = [call EXCEPT ![c].pc = "qr", ![c].code = mfa_secret + 1]
  /\ UNCHANGED <<tab, matched>>

\* A statement before the last UPDATE throws.
Fails(c) ==
  /\ call[c].pc \in {"setup", "confirm", "bypass", "enable"}
  /\ Refused(c)
  /\ UNCHANGED <<tab, Server>>

Scanned(t) ==
  /\ tab[t].step = "qr"
  /\ tab' = [tab EXCEPT ![t].step = "verify"]
  /\ UNCHANGED <<call, Server>>

Back(t) ==
  /\ tab[t].step = "verify"
  /\ tab' = [tab EXCEPT ![t].step = "qr"]
  /\ UNCHANGED <<call, Server>>

\* The code of the secret that was scanned, a wrong one, or the bypass code.
ConfirmSetup(t, c) ==
  /\ tab[t].step = "verify"
  /\ \/ \E code \in {0, tab[t].secret} : Ask(t, c, "confirm", code)
     \/ Ask(t, c, "bypass", 0)

\* POST /mfa/confirm reads the user and compares.
Accepted(c) == /\ mfa_secret # 0
               /\ call[c].pc = "confirm" => call[c].code = mfa_secret

Compare(c) ==
  /\ call[c].pc \in {"confirm", "bypass"}
  /\ \/ /\ Accepted(c)
        /\ call' = [call EXCEPT ![c].pc = "enable", ![c].code = mfa_secret]
        /\ matched' = matched \cup {mfa_secret}
     \/ ~Accepted(c) /\ Refused(c) /\ UNCHANGED matched
  /\ UNCHANGED <<mfa_secret, mfa_enabled, tab, raced>>

\* The audit row may fail after the UPDATE.
Enable(c) ==
  /\ call[c].pc = "enable"
  /\ mfa_enabled' = TRUE
  /\ raced' = (raced \/ mfa_secret # call[c].code)
  /\ Refused(c) \/ call' = [call EXCEPT ![c].pc = "done"]
  /\ UNCHANGED <<mfa_secret, tab, matched>>

\* setState of a modal that is gone does nothing; onActivated is the
\* dashboard's and closes whatever modal is open.
Answered(c) ==
  /\ call[c].pc \in {"qr", "refused", "done"}
  /\ LET t == call[c].tab
         activated == call[c].pc = "done" /\ call[c].to # "nobody" IN
     /\ tab' = [tab EXCEPT ![t] =
          CASE activated -> [Fresh EXCEPT !.mfaActive = TRUE, !.told = call[c].code]
            [] ~activated /\ call[c].to # "modal" -> @
            [] call[c].to = "modal" /\ call[c].pc = "qr" ->
                 [@ EXCEPT !.loading = FALSE, !.step = "qr", !.secret = call[c].code]
            [] call[c].to = "modal" /\ call[c].pc = "refused" ->
                 [@ EXCEPT !.loading = FALSE]]
     /\ call' = [IF activated THEN Orphaned(t, "page") ELSE call EXCEPT ![c] = Idle]
  /\ UNCHANGED Server

Next ==
  \/ \E t \in Tabs : \/ OpenModal(t) \/ CloseModal(t) \/ Reload(t) \/ Scanned(t) \/ Back(t)
                     \/ \E c \in Calls : StartSetup(t, c) \/ ConfirmSetup(t, c)
  \/ \E c \in Calls : \/ Setup(c) \/ Fails(c) \/ Compare(c) \/ Enable(c)
                      \/ Answered(c)

Spec == Init /\ [][Next]_vars
-----------------------------------------------------------------------------
TypeOK ==
  /\ mfa_secret \in 0..MaxSetups /\ mfa_enabled \in BOOLEAN
  /\ tab \in [Tabs -> [step : Steps, loading : BOOLEAN, secret : 0..MaxSetups,
                       mfaActive : BOOLEAN, told : 0..MaxSetups]]
  /\ call \in [Calls -> [pc : {"idle", "setup", "qr", "confirm", "bypass", "enable",
                               "done", "refused"},
                         tab : Tabs, code : 0..MaxSetups, to : {"modal", "page", "nobody"}]]
  /\ matched \subseteq 1..MaxSetups /\ raced \in BOOLEAN

\* A factor that is on has a secret a code of its own, or the bypass code, was
\* given for, unless the setup of this very secret came between the comparison
\* and the UPDATE that turned the factor on; and a dashboard that calls the factor
\* active is right, or a newer setup has turned it off since.
FactorIsConfirmed ==
  /\ mfa_enabled => mfa_secret \in matched \/ raced
  /\ \A t \in Tabs :
        tab[t].mfaActive => mfa_enabled \/ mfa_secret > tab[t].told
=============================================================================
