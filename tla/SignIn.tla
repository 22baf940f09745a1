-------------------------------- MODULE SignIn --------------------------------
(***************************************************************************)
(* Signing in with a password, and the second factor: verify_credentials   *)
(* with its count of failures and its lock, login, and the four routes     *)
(* under /auth/2fa.                                                        *)
(*                                                                         *)
(* A code is right for a secret or it is wrong, which the user decides at  *)
(* the moment it is checked.  SQLAlchemy writes the columns whose value is *)
(* another than the one the session has loaded, and no others.             *)
(***************************************************************************)
EXTENDS Accounts

VARIABLES
  locked,   \* the counts of failures whose lock_until is in the future
  verified  \* for the properties: the secrets that a right code was given for

signVars == <<locked, verified>>

SecondFactor == {"setup", "enable", "disable", "verify"}

-----------------------------------------------------------------------------
(* login                                                                    *)

\* Mutant: the lock is not looked at.
LoginLocked(c, s, u) ==
  /\ Begin(c, "login", s, u, None, "password")
  /\ UNCHANGED <<users, counter, events, signVars>>

\* verify_credentials: a locked name is refused before anything is counted.
Login(c, s, u) ==
  /\ Logins(s, u) \notin locked
  /\ Begin(c, "login", s, u, None, "password")
  /\ UNCHANGED <<users, counter, events, signVars>>

\* The configured administrator with the configured password.
AdminPassword(c) ==
  /\ At(c, {"login"}, "password")
  /\ call[c].name = Admin
  /\ MoveTo(c, "adminReset")
  /\ UNCHANGED <<users, counter, events, signVars>>

\* The password of the row, which for the administrator may be another than the
\* configured one; an account of an identity provider has none, which bcrypt
\* answers with an exception.
Password(c) ==
  /\ At(c, {"login"}, "password")
  /\ Taken(call[c].name)
  /\ IF users[call[c].name].password THEN MoveTo(c, "reset") ELSE End(c)
  /\ UNCHANGED <<users, counter, events, signVars>>

\* A wrong password, or no such user.
WrongPassword(c) ==
  LET u == call[c].name IN
  /\ At(c, {"login"}, "password")
  /\ Taken(u) => users[u].password
  /\ MoveTo(c, "wrong")
  /\ Happens(Logins(call[c].store, u))
  /\ UNCHANGED <<users, counter, signVars>>

\* increment_login_attempts.
ReadFailures(c) ==
  /\ At(c, {"login"}, "wrong")
  /\ ReadCount(c, Logins(call[c].store, call[c].name))
  /\ UNCHANGED <<users, counter, events, signVars>>

\* What is written back holds a lock only when the count has reached the limit.
WriteFailures(c) ==
  LET k == Logins(call[c].store, call[c].name) IN
  /\ At(c, {"login"}, "count")
  /\ WriteCount(c, k)
  /\ locked' = IF call[c].n + 1 >= MaxFailures THEN locked \cup {k} ELSE locked \ {k}
  /\ End(c)
  /\ UNCHANGED <<users, events, verified>>

\* reset_login_attempts: the count and the lock are one entry.
Forget(k) ==
  /\ counter' = [counter EXCEPT ![k] = 0]
  /\ events' = [events EXCEPT ![k] = 0]
  /\ locked' = locked \ {k}

Reset(c) ==
  /\ At(c, {"login"}, "reset")
  /\ Forget(Logins(call[c].store, call[c].name))
  /\ MoveTo(c, "factor")
  /\ UNCHANGED <<users, verified>>

AdminReset(c) ==
  /\ At(c, {"login"}, "adminReset")
  /\ Forget(Logins(call[c].store, call[c].name))
  /\ MoveTo(c, "adminLookup")
  /\ UNCHANGED <<users, verified>>

\* The administrator is created when the seed has not done it.
AdminLookup(c) ==
  /\ At(c, {"login"}, "adminLookup")
  /\ MoveTo(c, IF Taken(Admin) THEN "factor" ELSE "adminCreate")
  /\ UNCHANGED <<users, counter, events, signVars>>

AdminCreate(c) ==
  /\ At(c, {"login"}, "adminCreate")
  /\ IF Taken(Admin) THEN End(c) /\ UNCHANGED users
     ELSE MoveTo(c, "factor") /\ Insert(Admin, None, TRUE)
  /\ UNCHANGED <<counter, events, signVars>>

\* Without a second factor the tokens are issued; with one and without a code
\* the answer is requires_2fa.
AskForFactor(c) ==
  LET u == call[c].name IN
  /\ At(c, {"login"}, "factor")
  /\ \/ End(c)
     \/ users[u].on /\ MoveTo(c, "code")
  /\ UNCHANGED <<users, counter, events, signVars>>

\* verify_2fa reads the row again.
LoginCode(c) ==
  /\ At(c, {"login"}, "code")
  /\ End(c)
  /\ UNCHANGED <<users, counter, events, signVars>>

-----------------------------------------------------------------------------
(* The second factor                                                        *)

\* setup_2fa, up to session.get; the access token names a user.
SetUp(c, u) ==
  /\ Taken(u)
  /\ call[c].pc = "idle"
  /\ call' = [call EXCEPT ![c] = [Idle EXCEPT !.kind = "setup", !.pc = "write",
                !.name = u, !.secret = users[u].secret, !.on = users[u].on]]
  /\ UNCHANGED <<users, counter, events, signVars>>

\* Mutant: set-up leaves the factor on.
WriteSetUpOn(c) ==
  LET u == call[c].name IN
  /\ At(c, {"setup"}, "write")
  /\ users' = [users EXCEPT ![u].secret = c]
  /\ End(c)
  /\ UNCHANGED <<counter, events, signVars>>

\* The new secret, and is_2fa_enabled if it was on when it was loaded.
WriteSetUp(c) ==
  LET u == call[c].name IN
  /\ At(c, {"setup"}, "write")
  /\ users' = [users EXCEPT ![u].secret = c,
                            ![u].on = IF call[c].on THEN FALSE ELSE @]
  /\ End(c)
  /\ UNCHANGED <<counter, events, signVars>>

\* _check_2fa_rate, which enable, disable and verify begin with.
CheckRate(c, k, s, u) ==
  /\ k \in SecondFactor \ {"setup"}
  /\ Taken(u)
  /\ counter[Codes(s, u)] < MaxCodes
  /\ call[c].pc = "idle"
  /\ call' = [call EXCEPT ![c] = [Idle EXCEPT !.kind = k, !.pc = "count",
                !.store = s, !.name = u, !.n = counter[Codes(s, u)]]]
  /\ UNCHANGED <<users, counter, events, signVars>>

WriteRate(c) ==
  /\ At(c, SecondFactor, "count")
  /\ WriteCount(c, Codes(call[c].store, call[c].name))
  /\ MoveTo(c, "code")
  /\ UNCHANGED <<users, events, signVars>>

\* enable_2fa checks the code against the secret it has read; disable_2fa and
\* verify_2fa ask that the factor is on too.
RightCode(c) ==
  LET r == users[call[c].name] IN
  /\ At(c, SecondFactor, "code")
  /\ r.secret # None
  /\ call[c].kind = "enable" \/ r.on
  /\ verified' = verified \cup {r.secret}
  /\ IF call[c].kind = "verify" THEN End(c) ELSE MoveTo(c, "load")
  /\ Happens(Codes(call[c].store, call[c].name))
  /\ UNCHANGED <<users, counter, locked>>

WrongCode(c) ==
  /\ At(c, SecondFactor, "code")
  /\ Happens(Codes(call[c].store, call[c].name))
  /\ End(c)
  /\ UNCHANGED <<users, counter, signVars>>

\* session.get, in a session of its own.
Load(c) ==
  LET r == users[call[c].name] IN
  /\ At(c, {"enable", "disable"}, "load")
  /\ call' = [call EXCEPT ![c].pc = "write", ![c].secret = r.secret, ![c].on = r.on]
  /\ UNCHANGED <<users, counter, events, signVars>>

WriteEnable(c) ==
  LET u == call[c].name IN
  /\ At(c, {"enable"}, "write")
  /\ users' = [users EXCEPT ![u].on = IF call[c].on THEN @ ELSE TRUE]
  /\ End(c)
  /\ UNCHANGED <<counter, events, signVars>>

WriteDisable(c) ==
  LET u == call[c].name IN
  /\ At(c, {"disable"}, "write")
  /\ users' = [users EXCEPT
                 ![u].secret = IF call[c].secret = None THEN @ ELSE None,
                 ![u].on = IF call[c].on THEN FALSE ELSE @]
  /\ End(c)
  /\ UNCHANGED <<counter, events, signVars>>

-----------------------------------------------------------------------------
SignBegins(c) ==
  \E u \in Asked :
    \/ SetUp(c, u)
    \/ \E s \in Store :
         Login(c, s, u) \/ \E k \in SecondFactor : CheckRate(c, k, s, u)

SignStep(c) ==
  \/ AdminPassword(c) \/ Password(c) \/ WrongPassword(c)
  \/ ReadFailures(c) \/ WriteFailures(c)
  \/ Reset(c) \/ AdminReset(c) \/ AdminLookup(c) \/ AdminCreate(c)
  \/ AskForFactor(c) \/ LoginCode(c)
  \/ WriteSetUp(c) \/ WriteRate(c) \/ RightCode(c) \/ WrongCode(c)
  \/ Load(c) \/ WriteEnable(c) \/ WriteDisable(c)
=============================================================================
