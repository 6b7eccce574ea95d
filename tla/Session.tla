-------------------------------- MODULE Session --------------------------------
(***************************************************************************)
(* Signing in, the strikes of wrong passwords (middleware/accountLockout)  *)
(* and how the browser keeps its session (api/client.ts, authStore.ts):    *)
(* after a 401 the interceptor posts /auth/refresh with plain axios, which *)
(* sends no x-csrf-token and is answered 403 (middleware/csrf.ts), so that *)
(* every 401 forgets the token, whichever it is by then, and loads the     *)
(* page anew at /login.                                                    *)
(*                                                                         *)
(* A worker signs with a pair of keys it makes at its start, and refuses   *)
(* the tokens of the others: a token is the name of its worker, and No if  *)
(* there is none, it is too old, or its keys are gone.  One browser, one   *)
(* account.                                                                *)
(***************************************************************************)
EXTENDS Naturals

CONSTANTS Workers, Requests, No,
          MaxAttempts,   \* MAX_ATTEMPTS
          MaxTries       \* bound of the requests the user starts

SessionAssumption ==
  No \notin Workers /\ MaxAttempts \in Nat \ {0} /\ MaxTries \in Nat

VARIABLES token,     \* localStorage.accessToken
          shown,     \* isAuthenticated
          req,       \* a request: where it is, what it is, whether its page
                     \* is still there
          tries,
          strikes,   \* users.failed_attempts
          locked,    \* users.locked_until: none, ahead or past
          fails,     \* failed attempts since the last reset
          overlapped \* two attempts counted from one reading

vars == <<token, shown, req, tries, strikes, locked, fails, overlapped>>
account == <<strikes, locked, fails, overlapped>>
browser == <<token, shown>>

SignIns == {"login", "mfa", "other"}
Idle == [pc |-> "idle", kind |-> "api", right |-> FALSE, here |-> TRUE, n |-> No]
Goto(q, l) == req' = [req EXCEPT ![q].pc = l]
End(q) == req' = [req EXCEPT ![q] = Idle]
Kind(q) == req[q].kind
-----------------------------------------------------------------------------
Init ==
  /\ token = No /\ shown = FALSE
  /\ req = [q \in Requests |-> Idle]
  /\ tries = 0
  /\ strikes = 0 /\ locked = "none" /\ fails = 0 /\ overlapped = FALSE

\* The user does something; n is the token an API call carries.
Send(q, kind, right) ==
  /\ req[q] = Idle /\ tries < MaxTries
  /\ req' = [req EXCEPT ![q] = [pc |-> "sent", kind |-> kind, right |-> right,
                                here |-> TRUE,
                                n |-> IF kind = "api" THEN token ELSE No]]
  /\ tries' = tries + 1
  /\ UNCHANGED <<browser, account>>

\* jwt.verify with the worker's own key.
Verified(w, k) == k = w

\* The interceptor: a 401 leads to POST /auth/refresh.
Answer401(q) == IF req[q].here THEN Goto(q, "refresh") ELSE End(q)

\* A call behind authenticate.
Api(q, w) ==
  /\ req[q].pc = "sent" /\ Kind(q) = "api"
  /\ IF Verified(w, req[q].n) THEN End(q) ELSE Answer401(q)
  /\ UNCHANGED <<browser, tries, account>>

\* csrfProtection answers 403: the token there is now goes, the page is loaded
\* anew, and the server works on for nobody.
RefreshRefused(q) ==
  /\ req[q].pc = "refresh"
  /\ token' = No /\ shown' = FALSE
  /\ req' = [p \in Requests |->
               IF req[p].pc \in {"idle", "refresh"} THEN Idle
               ELSE [req[p] EXCEPT !.here = FALSE]]
  /\ UNCHANGED <<tries, account>>

\* The answer of a sign-in: setAuth, if the page is still there.
SignedIn(q, w) ==
  /\ IF req[q].here THEN token' = w /\ shown' = TRUE
     ELSE UNCHANGED browser
  /\ End(q)

PhoneLogin(q, w) ==
  /\ req[q].pc = "sent" /\ Kind(q) = "other"
  /\ IF req[q].right THEN SignedIn(q, w) ELSE Answer401(q) /\ UNCHANGED browser
  /\ UNCHANGED <<tries, account>>

\* The user is found by its Google id, or by its e-mail, or is inserted.
SocialLogin(q, w) ==
  /\ req[q].pc = "sent" /\ Kind(q) = "other"
  /\ IF req[q].right THEN SignedIn(q, w) ELSE Answer401(q) /\ UNCHANGED browser
  /\ UNCHANGED <<tries, account>>
-----------------------------------------------------------------------------
(* Password and authenticator *)

\* SELECT of checkAccountLockout.
CheckAccountLockout(q) ==
  /\ req[q].pc = "sent" /\ Kind(q) = "login"
  /\ CASE locked = "ahead" -> End(q)
       [] locked = "past" -> Goto(q, "reset")
       [] locked = "none" -> Goto(q, "compare")
  /\ UNCHANGED <<browser, tries, account>>

\* Somebody is between reading the strikes and writing them.
Counting(q) == \E p \in Requests \ {q} : req[p].pc = "write"

Zero(q) ==
  /\ strikes' = 0 /\ locked' = "none" /\ fails' = 0
  /\ overlapped' = Counting(q)

\* Its UPDATE, when the lock is over.
ResetStrikes(q) ==
  /\ req[q].pc = "reset" /\ Zero(q) /\ Goto(q, "compare")
  /\ UNCHANGED <<browser, tries>>

\* The password; the authenticator's code is compared with no look at the lock.
Compare(q) ==
  /\ \/ req[q].pc = "compare"
     \/ req[q].pc = "sent" /\ Kind(q) = "mfa"
  /\ Goto(q, IF req[q].right THEN "clear" ELSE "count")
  /\ UNCHANGED <<browser, tries, account>>

\* SELECT and UPDATE of recordFailedAttempt.
CountAttempt(q) ==
  /\ req[q].pc = "count"
  /\ req' = [req EXCEPT ![q].pc = "write", ![q].n = strikes]
  /\ UNCHANGED <<browser, tries, account>>

\* Mutant of Locks: one strike too many is let through.
LocksLate(n) == n > MaxAttempts

Locks(n) == n >= MaxAttempts

RecordFailedAttempt(q) ==
  /\ req[q].pc = "write"
  /\ strikes' = req[q].n + 1
  /\ locked' = IF Locks(req[q].n + 1) THEN "ahead" ELSE locked
  /\ fails' = fails + 1
  /\ overlapped' = (overlapped \/ Counting(q))
  /\ IF Kind(q) = "login" THEN Answer401(q) ELSE End(q)
  /\ UNCHANGED <<browser, tries>>

\* clearFailedAttempts and the answer; an account with MFA gets no session
\* for its password alone.
Login(q, w) ==
  /\ req[q].pc = "clear"
  /\ Zero(q)
  /\ \/ SignedIn(q, w)
     \/ Kind(q) # "mfa" /\ End(q) /\ UNCHANGED browser
  /\ UNCHANGED <<tries>>

\* LOCKOUT_DURATION_MS is over.
LockEnds ==
  /\ locked = "ahead" /\ locked' = "past"
  /\ UNCHANGED <<browser, req, tries, strikes, fails, overlapped>>
-----------------------------------------------------------------------------
\* The button in the header: no call to the server.
Logout ==
  /\ shown
  /\ token' = No /\ shown' = FALSE
  /\ UNCHANGED <<req, tries, account>>

TokenExpires ==
  /\ token # No /\ token' = No
  /\ UNCHANGED <<shown, req, tries, account>>

\* generateKeyPairSync of a worker that is forked again.
Restart(w) ==
  LET Without(k) == IF k = w THEN No ELSE k IN
  /\ token' = Without(token)
  /\ req' = [q \in Requests |->
               IF req[q].pc = "write" THEN req[q] ELSE [req[q] EXCEPT !.n = Without(@)]]
  /\ UNCHANGED <<shown, tries, account>>

Step(q) ==
  \/ \E w \in Workers : \/ Api(q, w) \/ PhoneLogin(q, w) \/ SocialLogin(q, w)
                        \/ Login(q, w)
  \/ RefreshRefused(q) \/ CheckAccountLockout(q) \/ ResetStrikes(q) \/ Compare(q) \/ CountAttempt(q)
  \/ RecordFailedAttempt(q)

Next ==
  \/ \E q \in Requests :
       \/ \E kind \in SignIns, right \in BOOLEAN : Send(q, kind, right)
       \/ Send(q, "api", FALSE) \/ Step(q)
  \/ Logout \/ TokenExpires \/ LockEnds
  \/ \E w \in Workers : Restart(w)

Spec == Init /\ [][Next]_vars
-----------------------------------------------------------------------------
TypeOK ==
  /\ token \in Workers \cup {No} /\ shown \in BOOLEAN
  /\ req \in [Requests ->
       [pc : {"idle", "sent", "refresh", "reset", "compare", "count", "write", "clear"},
        kind : SignIns \cup {"api"}, right : BOOLEAN, here : BOOLEAN,
        n : Workers \cup {No} \cup Nat]]
  /\ tries \in 0..MaxTries
  /\ strikes \in Nat /\ locked \in {"none", "ahead", "past"}
  /\ fails \in Nat /\ overlapped \in BOOLEAN

\* The strikes of an account are its failed attempts since the last success or
\* the last lock's end, by whichever of the two ways to fail and by however
\* many tabs, and there is a lock exactly when they reach the limit; only
\* attempts that overlap within recordFailedAttempt are counted as one, and they
\* too leave no account at the limit without its lock.
StrikesCounted ==
  /\ strikes >= MaxAttempts => locked # "none"
  /\ overlapped \/ (strikes = fails /\ (locked # "none" <=> strikes >= MaxAttempts))
=============================================================================
