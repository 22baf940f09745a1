------------------------------ MODULE WebSession ------------------------------
(***************************************************************************)
(* A tab of the web client and its session: the access token that it keeps *)
(* in memory, the refresh token in the browser's cookie, and the three     *)
(* places that exchange the cookie for a new pair - the interceptor of     *)
(* axios for requests that were answered 401 (services/api.ts), init when  *)
(* the page or its header is mounted (store/authStore.ts), and the chat,   *)
(* whose fetch passes the interceptor by (services/chatService.ts).        *)
(*                                                                         *)
(* The server's side of an exchange is in RefreshTokens, command by        *)
(* command; here it is a look at the token and its replacement.  A request *)
(* is on its way from the call to the client's handling of the answer.     *)
(***************************************************************************)
EXTENDS Naturals

CONSTANTS
  MaxOpen,     \* bound: requests that are open at the same time
  MaxStarts,   \* bound: requests that the user causes
  MaxMishaps   \* bound: network errors and ends of tokens by themselves

ASSUME BoundAssumption == {MaxOpen, MaxStarts, MaxMishaps} \subseteq Nat

VARIABLES
  \* The browser:
  cookie,      \* the refresh token, NoToken without one
  access,      \* accessToken
  refreshing,  \* isRefreshing
  page,        \* the login page, or one of the others
  auth,        \* isAuthenticated
  req,         \* the requests
  \* The server:
  live,        \* the refresh tokens that it has stored
  expired,     \* the access tokens whose time is over
  revoked,     \* the access tokens on the blacklist
  \* Counted, and remembered for the properties:
  starts,
  failures,
  ends,
  disturbed,   \* two exchanges have met, or the network has failed
  out          \* the user has logged out, and nothing came between

clientVars == <<cookie, access, refreshing, page, auth>>
serverVars == <<live, expired, revoked>>
boundVars  == <<starts, failures, ends>>
vars       == <<clientVars, req, serverVars, boundVars, disturbed, out>>

\* A refresh token and an access token that are issued together have one
\* number; what nobody holds any more is forgotten, and its number used again.
NoToken == 0
Token   == Nat \ {NoToken}

Request == 1..MaxOpen

Idle == [kind |-> "none", pc |-> "idle", bare |-> FALSE, again |-> FALSE,
         bearer |-> NoToken, given |-> NoToken, new |-> NoToken]

At(r, l)    == req[r].pc = l
Is(r, k)    == req[r].kind = k
Good(t)     == t # NoToken /\ t \notin expired \cup revoked
Queue       == {r \in Request : At(r, "queued")}
Refresh(r)  == req[r].pc \in {"asked", "verified", "renewed", "denied"}

HeldRefresh == {cookie} \cup UNION {{req[r].given, req[r].new} : r \in Request}
HeldAccess  == {access} \cup UNION {{req[r].bearer, req[r].new} : r \in Request}
NewPair     == CHOOSE n \in 1..(2 + 2 * MaxOpen) :
                 /\ n \notin HeldRefresh \cup HeldAccess
                 /\ \A m \in 1..(n - 1) : m \in HeldRefresh \cup HeldAccess

\* A request to /auth/refresh; a bare one does not pass the interceptor.
Exchange(k, again, bare, t) ==
  [Idle EXCEPT !.kind = k, !.pc = "asked", !.again = again, !.bare = bare, !.given = t]

Send(k, again, t) ==
  [Idle EXCEPT !.kind = k, !.pc = "sent", !.again = again, !.bearer = t]

Fetch(t) == [Idle EXCEPT !.kind = "chat", !.pc = "fetched", !.bearer = t]

TypeOK ==
  /\ {cookie, access} \subseteq Token \cup {NoToken}
  /\ page \in {"app", "login"}
  /\ {refreshing, auth, disturbed, out} \subseteq BOOLEAN
  /\ req \in [Request ->
       [kind : {"none", "api", "init", "chat", "login", "logout"},
        pc : {"idle", "sent", "queued", "fetched", "asked", "verified", "renewed", "denied"},
        bare : BOOLEAN, again : BOOLEAN,
        bearer : Token \cup {NoToken}, given : Token \cup {NoToken},
        new : Token \cup {NoToken}]]
  /\ {starts, failures, ends} \subseteq Nat
  /\ live \cup expired \cup revoked \subseteq Token

-----------------------------------------------------------------------------
(* The server                                                               *)

\* /auth/refresh, up to verify_refresh_token.
Verify(r) ==
  /\ At(r, "asked")
  /\ req' = [req EXCEPT ![r].pc = IF req[r].given \in live
                                  THEN "verified" ELSE "denied"]
  /\ UNCHANGED <<clientVars, serverVars, boundVars>>

\* The new pair goes to a request, and the token it was given goes.
Issue(r) ==
  /\ live' = (live \cap (HeldRefresh \ {req[r].given})) \cup {NewPair}
  /\ expired' = expired \cap HeldAccess
  /\ revoked' = revoked \cap HeldAccess
  /\ req' = [req EXCEPT ![r].pc = "renewed", ![r].new = NewPair]
  /\ UNCHANGED <<clientVars, boundVars>>

\* And the rest of it: the old token is revoked, a new one stored.
Rotate(r) == At(r, "verified") /\ Issue(r)

\* /auth/login with the right password.
LoginRight(r) == Is(r, "login") /\ At(r, "sent") /\ Issue(r)

-----------------------------------------------------------------------------
(* What the client does with answers                                        *)

\* The page is loaded anew: what the tab has in memory is gone with the requests
\* on their way, and the application's init asks again.  The server may or may
\* not have done what a lost refresh or logout has asked for.
LoadAnew(r) ==
  LET others == Request \ {r}
      asked  == {req[x].given : x \in others}
                  \cup {t \in live : \E x \in others : Is(x, "logout")}
  IN
  /\ page' = "login"
  /\ access' = NoToken
  /\ auth' = FALSE
  /\ refreshing' = FALSE
  /\ req' = [x \in Request |->
               IF x = r THEN Exchange("init", FALSE, FALSE, cookie) ELSE Idle]
  /\ \E done \in SUBSET asked : live' = live \ done
  /\ UNCHANGED cookie

\* The promises of requests are rejected in a tab that stays: init and logout
\* clear the store, and ProtectedRoute leads to the login page; logout ends as
\* if the server had done it.
Settle(R) ==
  LET kinds == {req[r].kind : r \in R}
      left  == kinds \cap {"init", "logout"} # {}
  IN /\ auth' = (auth /\ ~left)
     /\ page' = IF left THEN "login" ELSE page
     /\ access' = IF kinds \cap {"chat", "logout"} # {} THEN NoToken ELSE access
     /\ req' = [x \in Request |-> IF x \in R THEN Idle ELSE req[x]]
     /\ UNCHANGED <<cookie, refreshing>>

\* The chat loads the login page when it is rejected.
Reject(r) ==
  IF Is(r, "chat") /\ page = "app" THEN LoadAnew(r) ELSE Settle({r}) /\ UNCHANGED live

\* Mutant: isRefreshing is not looked at.
InterceptAlways(r) ==
  IF req[r].again THEN Reject(r)
  ELSE /\ refreshing' = TRUE
       /\ req' = [req EXCEPT ![r] = Exchange(@.kind, TRUE, TRUE, cookie)]
       /\ UNCHANGED <<cookie, access, page, auth, live>>

\* The interceptor, for a request that was answered 401: it waits in
\* pendingQueue, or refreshes for itself and for those that wait.
Intercept(r) ==
  IF req[r].again THEN Reject(r)
  ELSE IF refreshing
       THEN /\ req' = [req EXCEPT ![r] = [Idle EXCEPT !.kind = req[r].kind, !.pc = "queued"]]
            /\ UNCHANGED <<clientVars, live>>
       ELSE /\ refreshing' = TRUE
            /\ req' = [req EXCEPT ![r] = Exchange(@.kind, TRUE, TRUE, cookie)]
            /\ UNCHANGED <<cookie, access, page, auth, live>>

\* Mutant: the request is sent again without the new token.
ResendWithout(q, t) ==
  IF q.kind \in {"init", "chat"} THEN Exchange(q.kind, q.again, FALSE, t)
  ELSE Send(q.kind, q.again, NoToken)

\* api(original), with the new token.
Resend(q, t) ==
  IF q.kind \in {"init", "chat"} THEN Exchange(q.kind, q.again, FALSE, t)
  ELSE Send(q.kind, q.again, t)

\* A bare refresh is answered: the browser sets the cookie, and then the queue
\* and the request itself are sent again.
BareSucceeds(r) ==
  LET t == req[r].new IN
  /\ At(r, "renewed") /\ req[r].bare
  /\ cookie' = t
  /\ access' = t
  /\ refreshing' = FALSE
  /\ req' = [x \in Request |->
               IF x \in Queue \cup {r} THEN Resend(req[x], t) ELSE req[x]]
  /\ UNCHANGED <<page, auth, serverVars, boundVars>>

\* Mutant: the queue is left as it is.
GiveUpAlone(r) ==
  IF page = "app" THEN LoadAnew(r)
  ELSE /\ access' = NoToken
       /\ refreshing' = FALSE
       /\ auth' = (auth /\ req[r].kind \notin {"init", "logout"})
       /\ req' = [req EXCEPT ![r] = Idle]
       /\ UNCHANGED <<cookie, page, live>>

\* A bare refresh fails, with an answer or without: the login page is loaded,
\* or, when the tab is there, the queue and the request are rejected.
GiveUp(r) ==
  LET kinds == {req[x].kind : x \in Queue \cup {r}} IN
  IF page = "app" THEN LoadAnew(r)
  ELSE /\ access' = NoToken
       /\ refreshing' = FALSE
       /\ auth' = (auth /\ kinds \cap {"init", "logout"} = {})
       /\ req' = [x \in Request |-> IF x \in Queue \cup {r} THEN Idle ELSE req[x]]
       /\ UNCHANGED <<cookie, page, live>>

BareDenied(r) ==
  /\ At(r, "denied") /\ req[r].bare
  /\ GiveUp(r)
  /\ UNCHANGED <<expired, revoked, boundVars>>

\* The refresh of init or of getValidToken, through the interceptor.
Renewed(r) ==
  LET t == req[r].new IN
  /\ At(r, "renewed") /\ ~req[r].bare /\ req[r].kind \in {"init", "chat"}
  /\ cookie' = t
  /\ access' = t
  /\ auth' = (auth \/ Is(r, "init"))
  /\ req' = [req EXCEPT ![r] = IF Is(r, "init") THEN Idle ELSE Fetch(t)]
  /\ UNCHANGED <<refreshing, page, serverVars, boundVars>>

Denied(r) ==
  /\ At(r, "denied") /\ ~req[r].bare
  /\ Intercept(r)
  /\ UNCHANGED <<expired, revoked, boundVars>>

\* login; the page it leads to has a header, which is mounted with an init.
LoggedIn(r) ==
  LET t == req[r].new IN
  /\ At(r, "renewed") /\ ~req[r].bare /\ Is(r, "login")
  /\ cookie' = t
  /\ access' = t
  /\ auth' = TRUE
  /\ page' = "app"
  /\ req' = [req EXCEPT ![r] = Exchange("init", FALSE, FALSE, t)]
  /\ UNCHANGED <<refreshing, serverVars, boundVars>>

LoginWrong(r) ==
  /\ Is(r, "login") /\ At(r, "sent")
  /\ Intercept(r)
  /\ UNCHANGED <<expired, revoked, boundVars>>

\* The server refuses the token of a request; without one the answer is 403,
\* which is no case for the interceptor.
Unauthorized(r) ==
  /\ req[r].kind \in {"api", "logout"} /\ At(r, "sent") /\ ~Good(req[r].bearer)
  /\ IF req[r].bearer = NoToken THEN Reject(r) ELSE Intercept(r)
  /\ UNCHANGED <<expired, revoked, boundVars>>

Answered(r) ==
  /\ Is(r, "api") /\ At(r, "sent") /\ Good(req[r].bearer)
  /\ req' = [req EXCEPT ![r] = Idle]
  /\ UNCHANGED <<clientVars, serverVars, boundVars>>

\* /auth/logout, and what logout does whatever the answer.
LoggedOut(r) ==
  /\ Is(r, "logout") /\ At(r, "sent") /\ Good(req[r].bearer)
  /\ live' = {}
  /\ revoked' = revoked \cup {req[r].bearer}
  /\ Settle({r})
  /\ UNCHANGED <<expired, boundVars>>

\* The chat's fetch.
Streams(r) ==
  /\ At(r, "fetched") /\ Good(req[r].bearer)
  /\ req' = [req EXCEPT ![r] = Idle]
  /\ UNCHANGED <<clientVars, serverVars, boundVars>>

ChatRefused(r) ==
  /\ At(r, "fetched") /\ ~Good(req[r].bearer)
  /\ Reject(r)
  /\ UNCHANGED <<expired, revoked, boundVars>>

-----------------------------------------------------------------------------
(* What the user does, and the rest of the world                            *)

\* A new request has the first place that is free.
Caused(r) ==
  /\ At(r, "idle")
  /\ \A x \in 1..(r - 1) : ~At(x, "idle")
  /\ starts < MaxStarts
  /\ starts' = starts + 1
  /\ UNCHANGED <<serverVars, failures, ends>>

\* A page that is there asks for its data.
Api(r) ==
  /\ Caused(r)
  /\ page = "app" /\ auth
  /\ req' = [req EXCEPT ![r] = Send("api", FALSE, access)]
  /\ UNCHANGED clientVars

\* sendChatMessage: a token with a minute before it goes as it is, any other is
\* renewed first.
Chat(r) ==
  /\ Caused(r)
  /\ page = "app" /\ auth
  /\ \/ /\ access # NoToken /\ access \notin expired
        /\ req' = [req EXCEPT ![r] = Fetch(access)]
     \/ req' = [req EXCEPT ![r] = Exchange("chat", FALSE, FALSE, cookie)]
  /\ UNCHANGED clientVars

\* The login page is shown while the request is under way.
Logout(r) ==
  /\ Caused(r)
  /\ page = "app" /\ auth
  /\ page' = "login"
  /\ req' = [req EXCEPT ![r] = Send("logout", FALSE, access)]
  /\ UNCHANGED <<cookie, access, refreshing, auth>>

Login(r) ==
  /\ Caused(r)
  /\ page = "login"
  /\ req' = [req EXCEPT ![r] = Send("login", FALSE, access)]
  /\ UNCHANGED clientVars

\* A request or its answer is lost.
Fails(r) ==
  /\ req[r].pc \in {"sent", "fetched", "asked", "renewed"}
  /\ failures + ends < MaxMishaps
  /\ failures' = failures + 1
  /\ IF req[r].bare THEN GiveUp(r)
     ELSE IF At(r, "fetched")
     THEN req' = [req EXCEPT ![r] = Idle] /\ UNCHANGED <<clientVars, live>>
     ELSE Reject(r)
  /\ UNCHANGED <<expired, revoked, starts, ends>>

TokensEnd ==
  /\ failures + ends < MaxMishaps
  /\ ends' = ends + 1
  /\ UNCHANGED <<starts, failures>>

\* Access tokens end, some minutes after they were issued: not one whose answer
\* is on its way or that a request has just been sent again with, and not one
\* that the chat has found to have a minute left.
AccessExpires ==
  LET fresh == {req[r].new : r \in {x \in Request : At(x, "renewed")}}
                 \cup {req[r].bearer : r \in {x \in Request : At(x, "fetched") \/ req[x].again}}
  IN /\ TokensEnd
     /\ ~(HeldAccess \subseteq expired \cup fresh \cup {NoToken})
     /\ expired' = (expired \cup HeldAccess) \ (fresh \cup {NoToken})
     /\ UNCHANGED <<clientVars, req, live, revoked>>

\* The refresh token's days are over, or it is revoked elsewhere.
SessionEnds ==
  /\ TokensEnd
  /\ live # {}
  /\ live' = {}
  /\ UNCHANGED <<clientVars, req, expired, revoked>>

-----------------------------------------------------------------------------
\* Work on the session: exchanges, signing in and out, and the chat's fetch.
AtWork(r) ==
  Refresh(r) \/ At(r, "fetched") \/ (req[r].kind \in {"login", "logout"} /\ ~At(r, "queued"))

\* Two of them meet, and not the interceptor's among themselves and the fetches.
Meeting ==
  LET calm == {r \in Request : req[r].bare \/ At(r, "fetched")}
  IN \E r, s \in Request : r # s /\ AtWork(r) /\ AtWork(s) /\ ~({r, s} \subseteq calm)

AtRest == \A r \in Request : At(r, "idle")

\* When no request is under way, what was disturbed is over.
Notice ==
  /\ disturbed' = ((disturbed /\ ~AtRest) \/ Meeting' \/ failures' # failures)
  /\ out' = IF \E r \in Request : At(r, "renewed") /\ Is(r, "login") /\ Is(r, "init")'
            THEN FALSE
            ELSE \/ out
                 \/ ~disturbed' /\ \E r \in Request : Is(r, "logout") /\ ~Is(r, "logout")'

\* A page that is being loaded, with its header or at the login page, or a tab
\* that has been open for some time.
Init ==
  /\ refreshing = FALSE
  /\ expired = {}
  /\ revoked = {}
  /\ starts = 0
  /\ failures = 0
  /\ ends = 0
  /\ out = FALSE
  /\ cookie \in {NoToken, 1}
  /\ live \in {{}, {1}}
  /\ \/ /\ page = "app"
        /\ auth = TRUE /\ access = 1 /\ cookie = 1
        /\ req = [r \in Request |-> Idle]
     \/ /\ page \in {"app", "login"}
        /\ auth = FALSE /\ access = NoToken
        /\ req = [r \in Request |->
                    IF r = 1 \/ (r = 2 /\ page = "app") THEN Exchange("init", FALSE, FALSE, cookie)
                    ELSE Idle]
  /\ disturbed = Meeting

Progress(r) ==
  /\ \/ Verify(r) \/ Rotate(r) \/ LoginRight(r) \/ LoginWrong(r)
     \/ BareSucceeds(r) \/ BareDenied(r) \/ Renewed(r) \/ Denied(r)
     \/ LoggedIn(r) \/ Unauthorized(r) \/ Answered(r) \/ LoggedOut(r)
     \/ Streams(r) \/ ChatRefused(r)
  /\ Notice

Next ==
  \/ \E r \in Request : Progress(r)
  \/ /\ \/ \E r \in Request : Api(r) \/ Chat(r) \/ Logout(r) \/ Login(r) \/ Fails(r)
        \/ AccessExpires
        \/ SessionEnds
     /\ Notice

Spec == Init /\ [][Next]_vars

FairSpec == Spec /\ \A r \in Request : WF_vars(Progress(r))

-----------------------------------------------------------------------------
(* The tab is led to the login page while its session could have gone on    *)
(* only when two exchanges met, the chat's or init's with another, or the   *)
(* network failed: the interceptor alone never loses a session.             *)
LoginPageUnlessDisturbed ==
  [][page = "app" /\ page' = "login" /\ cookie \in live =>
       disturbed' \/ \E r \in Request : Is(r, "logout")']_vars

(* After a logout that nothing came between, the tab has no access token    *)
(* and the cookie is worth nothing until the user logs in again.            *)
LoggedOutStays == out => access = NoToken /\ cookie \notin live

(* Every request comes to its end: one that waits in the queue is sent      *)
(* again or rejected.                                                       *)
RequestsSettle == \A r \in Request : ~At(r, "idle") ~> At(r, "idle")
=============================================================================
