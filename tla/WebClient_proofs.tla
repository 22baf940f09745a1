--------------------------- MODULE WebClient_proofs ---------------------------
(***************************************************************************)
(* What a tab of the web client keeps, for any number of requests,         *)
(* questions, sessions and calls: its session with the server, what its    *)
(* pages show after a change, and the answers that its chat shows.  The    *)
(* session and the pages are in WebClient, the chat in ChatTab; they share *)
(* no state.                                                               *)
(***************************************************************************)
EXTENDS WebClient, ChatTab, FiniteSetTheorems, SequenceTheorems, WellFoundedInduction, TLAPS

-----------------------------------------------------------------------------
(* The session: the inductive invariant                                     *)

RequestRecord ==
  [kind : {"none", "api", "init", "chat", "login", "logout"},
   pc : {"idle", "sent", "queued", "fetched", "asked", "verified", "renewed", "denied"},
   bare : BOOLEAN, again : BOOLEAN,
   bearer : Token \cup {NoToken}, given : Token \cup {NoToken},
   new : Token \cup {NoToken}]

ClientTyped ==
  /\ cookie \in Token \cup {NoToken} /\ access \in Token \cup {NoToken}
  /\ page \in {"app", "login"}
  /\ refreshing \in BOOLEAN /\ auth \in BOOLEAN
  /\ req \in [Request -> RequestRecord]
  /\ live \subseteq Token /\ expired \subseteq Token /\ revoked \subseteq Token

CountTyped ==
  /\ disturbed \in BOOLEAN /\ out \in BOOLEAN
  /\ starts \in Nat /\ failures \in Nat /\ ends \in Nat

\* What a request at each place is, and carries.
Sound(q) ==
  /\ q.bare => q.pc \in {"asked", "verified", "renewed", "denied"}
  /\ q.pc = "idle" <=> q.kind = "none"
  /\ q.pc = "sent" => q.kind \in {"api", "login", "logout"}
  /\ q.pc = "fetched" => q.kind = "chat"
  /\ q.pc \in {"asked", "verified", "denied"} /\ ~q.bare => q.kind \in {"init", "chat"}
  /\ q.pc = "renewed" /\ ~q.bare => q.kind \in {"init", "chat", "login"}
  /\ q.kind = "logout" /\ q.pc = "sent" => q.bearer # NoToken
  /\ (q.new = NoToken) <=> (q.pc # "renewed")
  /\ q.given = NoToken \/ q.bearer = NoToken

ReqInv(r) == Sound(req[r]) /\ (req[r].bare => refreshing)

\* One bare refresh at a time, as long as refreshing says so.
BareInv ==
  /\ \A r, s \in Request : req[r].bare /\ req[s].bare => r = s
  /\ refreshing => \E r \in Request : req[r].bare
  /\ \A r \in Request : At(r, "queued") => refreshing

\* Nobody has yet what is on its way to a request.
NewInv(r) ==
  At(r, "renewed") =>
    /\ req[r].new \notin {access} \cup expired \cup revoked
    /\ \A s \in Request : req[s].bearer # req[r].new /\ (s # r => req[s].new # req[r].new)

\* A page that is there has a token, which no logout has revoked.
PageInv ==
  /\ access \notin revoked
  /\ page = "app" /\ auth => access # NoToken

SessionInv ==
  /\ ClientTyped /\ BareInv /\ PageInv
  /\ \A r \in Request : ReqInv(r) /\ NewInv(r)

\* While no two exchanges meet a refresh has the cookie that the browser has.
CalmAt(r) ==
  /\ Is(r, "logout") => page = "login"
  /\ req[r].pc \in {"asked", "verified", "denied"} => req[r].given = cookie
  /\ At(r, "denied") => cookie \notin live
  /\ At(r, "fetched") => Good(req[r].bearer)
  /\ Is(r, "logout") /\ At(r, "sent") /\ req[r].again => Good(req[r].bearer)

Calm == ~Meeting /\ \A r \in Request : CalmAt(r)

\* After a logout nothing that is on its way can renew the session but a login.
OutAt(r) ==
  /\ At(r, "asked") => req[r].given \notin live
  /\ ~At(r, "verified")
  /\ At(r, "renewed") => Is(r, "login") /\ ~req[r].bare

Out == access = NoToken /\ cookie \notin live /\ \A r \in Request : OutAt(r)

OutInv == out => Out

WebInv == SessionInv /\ CountTyped /\ (disturbed \/ Calm) /\ OutInv

-----------------------------------------------------------------------------
(* Numbers                                                                  *)

\* Every set of numbers that is not empty has a least one.
LEMMA Least ==
  ASSUME NEW T \in SUBSET Nat, T # {}
  PROVE  \E n \in T : \A m \in T : n <= m
<1> DEFINE R == OpToRel(<, Nat)
<1>1. \A x \in Nat, y \in Nat : y < x => <<y, x>> \in R
  BY DEF OpToRel
<1>2. IsWellFoundedOn(R, Nat)
  BY NatLessThanWellFounded
<1> HIDE DEF R
<1>3. PICK x \in T : \A y \in T : <<y, x>> \notin R
  BY <1>2, WFMin
<1>4. \A y \in T : ~(y < x)
  BY <1>1, <1>3
<1> QED BY <1>4

\* There is a number for a new pair: nobody holds it.  A request holds at most
\* two, and the one that the pair is for has no new one yet.
LEMMA PairIsNew ==
  ASSUME ClientTyped, \A s \in Request : ReqInv(s),
         NEW r \in Request, req[r].new = NoToken
  PROVE  NewPair \in Token /\ NewPair \notin HeldRefresh \cup HeldAccess
<1> DEFINE N == 2 + 2 * MaxOpen
           H == HeldRefresh \cup HeldAccess
           slot == [x \in 1..N |->
                      IF x = 1 THEN cookie
                      ELSE IF x = 2 THEN access
                      ELSE IF x <= 2 + MaxOpen THEN req[x - 2].new
                      ELSE IF req[x - 2 - MaxOpen].given = NoToken
                           THEN req[x - 2 - MaxOpen].bearer
                           ELSE req[x - 2 - MaxOpen].given]
           T == (1..N) \ {2 + r}
           free == {n \in 1..N : n \notin H}
<1>1. MaxOpen \in Nat /\ N \in Nat /\ r \in 1..MaxOpen
  BY BoundAssumption DEF Request
<1>2. ASSUME NEW n \in H, n # NoToken PROVE \E x \in T : slot[x] = n
  <2>1. CASE n = cookie
    <3>1. 1 \in T
      BY <1>1
    <3> QED BY <2>1, <3>1
  <2>2. CASE n = access
    <3>1. 2 \in T
      BY <1>1
    <3> QED BY <2>2, <3>1
  <2>3. ASSUME NEW s \in Request, n = req[s].new PROVE \E x \in T : slot[x] = n
    <3>1. s # r /\ s \in 1..MaxOpen
      BY <1>2, <2>3 DEF Request
    <3>2. 2 + s \in T /\ 2 + s # 1 /\ 2 + s # 2 /\ 2 + s <= 2 + MaxOpen /\ (2 + s) - 2 = s
      BY <1>1, <3>1
    <3> QED BY <2>3, <3>2
  <2>4. ASSUME NEW s \in Request, n \in {req[s].given, req[s].bearer} PROVE \E x \in T : slot[x] = n
    <3>1. s \in 1..MaxOpen
      BY DEF Request
    <3> DEFINE y == 2 + MaxOpen + s
    <3>2. /\ y \in T /\ y # 1 /\ y # 2 /\ ~(y <= 2 + MaxOpen) /\ y - 2 - MaxOpen = s
      BY <1>1, <3>1
    <3>3. slot[y] = IF req[s].given = NoToken THEN req[s].bearer ELSE req[s].given
      <4> HIDE DEF y
      <4> QED BY <3>2
    <3>4. req[s].given = NoToken \/ req[s].bearer = NoToken
      BY DEF ReqInv, Sound
    <3> QED BY <1>2, <2>4, <3>2, <3>3, <3>4
  <2> QED BY <1>2, <2>1, <2>2, <2>3, <2>4 DEF HeldRefresh, HeldAccess
<1>3. free # {}
  <2> SUFFICES ASSUME free = {} PROVE FALSE
    OBVIOUS
  <2>1. \A n \in 1..N : n \in H /\ n # NoToken
    BY <1>1 DEF NoToken
  <2> DEFINE g == [n \in 1..N |-> CHOOSE x \in T : slot[x] = n]
  <2> HIDE DEF H, slot
  <2>2. \A n \in 1..N : g[n] \in T /\ slot[g[n]] = n
    BY <1>2, <2>1
  <2>3. g \in [1..N -> T]
    BY <2>2
  <2>4. IsFiniteSet(1..N) /\ Cardinality(1..N) = N
    BY <1>1, FS_Interval
  <2>5. 2 + r \in 1..N
    BY <1>1
  <2>6. IsFiniteSet(T) /\ Cardinality(T) = N - 1
    BY <2>4, <2>5, FS_RemoveElement
  <2>7. Cardinality(T) < Cardinality(1..N)
    BY <1>1, <2>4, <2>6
  <2> HIDE DEF g, T, N
  <2>8. PICK S, U, f : S = 1..N /\ U = T /\ f = g
    OBVIOUS
  <2>9. f \in [S -> U] /\ IsFiniteSet(S) /\ IsFiniteSet(U) /\ Cardinality(U) < Cardinality(S)
    BY <2>3, <2>4, <2>6, <2>7, <2>8
  <2>10. PICK m, n \in S : m # n /\ f[m] = f[n]
    BY <2>9, FS_PigeonHole
  <2> QED BY <2>2, <2>8, <2>10
<1>4. free \in SUBSET Nat
  BY <1>1
<1> HIDE DEF slot, T, H
<1>5. PICK n \in free : \A m \in free : n <= m
  BY <1>3, <1>4, Least
<1>6. n \in 1..N /\ n \notin H /\ \A m \in 1..(n - 1) : m \in H
  <2>1. n \in 1..N /\ n \notin H
    BY <1>5
  <2>2. ASSUME NEW m \in 1..(n - 1), m \notin H PROVE FALSE
    <3>1. m \in 1..N /\ ~(n <= m)
      BY <1>1, <2>1
    <3> QED BY <1>5, <2>2, <3>1
  <2> QED BY <2>1, <2>2
<1>7. NewPair \in 1..N /\ NewPair \notin H
  BY <1>6 DEF NewPair, H
<1> QED BY <1>1, <1>7 DEF Token, NoToken, H

-----------------------------------------------------------------------------
(* The session: what every action keeps                                     *)

LEMMA VerifyKeeps ==
  ASSUME SessionInv, NEW r \in Request, Verify(r)
  PROVE  SessionInv'
<1> USE DEF SessionInv, ClientTyped, clientVars, serverVars, Verify
<1>1. /\ \A s \in Request \ {r} : req'[s] = req[s]
      /\ \E l \in {"verified", "denied"} : req'[r] = [req[r] EXCEPT !.pc = l]
      /\ req' \in [Request -> RequestRecord]
  BY DEF RequestRecord
<1>2. /\ req[r] \in RequestRecord /\ req[r].pc = "asked"
      /\ req'[r].pc \in {"verified", "denied"} /\ req'[r].kind = req[r].kind
      /\ req'[r].bare = req[r].bare /\ req'[r].given = req[r].given
      /\ req'[r].bearer = req[r].bearer /\ req'[r].new = req[r].new
  BY <1>1 DEF RequestRecord, At
<1>3. ClientTyped'
  BY <1>1
<1>4. BareInv' /\ PageInv'
  BY <1>1, <1>2 DEF BareInv, PageInv, At
<1>5. ASSUME NEW s \in Request PROVE ReqInv(s)' /\ NewInv(s)'
  BY <1>1, <1>2 DEF ReqInv, Sound, NewInv, At
<1> QED BY <1>3, <1>4, <1>5

LEMMA IssueKeeps ==
  ASSUME SessionInv, NEW r \in Request,
         At(r, "verified") \/ (Is(r, "login") /\ At(r, "sent")), Issue(r)
  PROVE  SessionInv'
<1> USE DEF SessionInv, ClientTyped, clientVars
<1>1. PICK n : n = NewPair
  OBVIOUS
<1>2. n \in Token /\ n \notin HeldRefresh \cup HeldAccess
  BY <1>1, PairIsNew DEF ReqInv, Sound, At
<1>3. /\ \A s \in Request \ {r} : req'[s] = req[s]
      /\ req'[r] = [req[r] EXCEPT !.pc = "renewed", !.new = n]
      /\ req' \in [Request -> RequestRecord]
  <2>1. req' = [req EXCEPT ![r].pc = "renewed", ![r].new = n]
    BY <1>1 DEF Issue
  <2>2. /\ \A s \in Request \ {r} : req'[s] = req[s]
        /\ req'[r] = [req[r] EXCEPT !.pc = "renewed", !.new = n]
        /\ DOMAIN req' = Request
    BY <2>1
  <2>3. [req[r] EXCEPT !.pc = "renewed", !.new = n] \in RequestRecord
    BY <1>2 DEF RequestRecord
  <2>4. \A s \in Request : req'[s] \in RequestRecord
    BY <2>2, <2>3
  <2>5. req' = [s \in Request |-> req'[s]]
    BY <2>1, <2>2
  <2> QED BY <2>2, <2>4, <2>5
<1>4. /\ live' \subseteq live \cup {n} /\ expired' \subseteq expired /\ revoked' \subseteq revoked
      /\ n \notin expired' \cup revoked'
      /\ UNCHANGED <<cookie, access, refreshing, page, auth>>
  BY <1>1, <1>2 DEF Issue
<1>5. /\ req[r] \in RequestRecord /\ n # NoToken
      /\ req'[r].pc = "renewed" /\ req'[r].new = n /\ req'[r].kind = req[r].kind
      /\ req'[r].bare = req[r].bare /\ req'[r].given = req[r].given
      /\ req'[r].bearer = req[r].bearer
  BY <1>2, <1>3 DEF RequestRecord, Token
<1>6. n # access /\ \A s \in Request : n # req[s].bearer /\ n # req[s].new
  BY <1>2 DEF HeldAccess
<1>7. ClientTyped'
  BY <1>2, <1>3, <1>4
<1>8. BareInv' /\ PageInv'
  <2>1. \A s \in Request : req'[s].bare = req[s].bare /\ (At(s, "queued")' => At(s, "queued"))
    BY <1>3, <1>5 DEF At
  <2>2. BareInv'
    BY <2>1, <1>4 DEF BareInv, At
  <2>3. PageInv'
    BY <1>4 DEF PageInv
  <2> QED BY <2>2, <2>3
<1>9. ASSUME NEW s \in Request PROVE ReqInv(s)' /\ NewInv(s)'
  <2>1. \A x \in Request : req'[x].bearer = req[x].bearer
    BY <1>3, <1>5
  <2>2. CASE s = r
    <3>1. ReqInv(s)'
      BY <2>2, <1>4, <1>5 DEF ReqInv, Sound, At, Is
    <3>2. \A x \in Request \ {r} : req'[x].new # n
      BY <1>3, <1>6
    <3>3. \A x \in Request : req'[x].bearer # n
      BY <2>1, <1>6
    <3> QED BY <2>2, <3>1, <3>2, <3>3, <1>4, <1>5, <1>6 DEF NewInv, At
  <2>3. CASE s # r
    <3>1. req'[s] = req[s] /\ ReqInv(s) /\ NewInv(s)
      BY <2>3, <1>3
    <3>2. ReqInv(s)'
      BY <3>1, <1>4 DEF ReqInv, Sound
    <3>3. \A x \in Request : x # s => req'[x].new = req[x].new \/ req'[x].new = n
      BY <1>3, <1>5
    <3>4. req[s].new # n
      BY <1>6
    <3>5. NewInv(s)'
      BY <2>1, <3>1, <3>3, <3>4, <1>4 DEF NewInv, At
    <3> QED BY <3>2, <3>5
  <2> QED BY <2>2, <2>3
<1> QED BY <1>7, <1>8, <1>9

\* What the records of requests hold.
LEMMA IdleIs ==
  /\ Idle \in RequestRecord
  /\ Idle.kind = "none" /\ Idle.pc = "idle" /\ ~Idle.bare /\ ~Idle.again
  /\ Idle.bearer = NoToken /\ Idle.given = NoToken /\ Idle.new = NoToken
  BY DEF Idle, RequestRecord

LEMMA LoadAnewKeeps ==
  ASSUME SessionInv, NEW r \in Request, LoadAnew(r), UNCHANGED <<expired, revoked>>
  PROVE  SessionInv'
<1> USE DEF SessionInv, ClientTyped
<1>1. PICK e : e = Exchange("init", FALSE, FALSE, cookie)
  OBVIOUS
<1>2. /\ e \in RequestRecord /\ e.kind = "init" /\ e.pc = "asked" /\ ~e.bare
      /\ e.given = cookie /\ e.bearer = NoToken /\ e.new = NoToken
  <2>1. e = [kind |-> "init", pc |-> "asked", bare |-> FALSE, again |-> FALSE,
             bearer |-> NoToken, given |-> cookie, new |-> NoToken]
    BY <1>1 DEF Exchange, Idle
  <2> QED BY <2>1 DEF RequestRecord
<1>3. /\ req' = [x \in Request |-> IF x = r THEN e ELSE Idle]
      /\ live' \subseteq live /\ cookie' = cookie /\ access' = NoToken
      /\ refreshing' = FALSE /\ page' = "login" /\ auth' = FALSE
  BY <1>1 DEF LoadAnew
<1>4. /\ \A s \in Request : req'[s] = IF s = r THEN e ELSE Idle
      /\ req' \in [Request -> RequestRecord]
  BY <1>2, <1>3, IdleIs
<1>5. ClientTyped'
  BY <1>3, <1>4
<1>6. PageInv' /\ BareInv'
  BY <1>2, <1>3, <1>4, IdleIs DEF PageInv, BareInv, At, Token
<1>7. ASSUME NEW s \in Request PROVE ReqInv(s)' /\ NewInv(s)'
  BY <1>2, <1>4, IdleIs DEF ReqInv, Sound, NewInv, At
<1> QED BY <1>5, <1>6, <1>7

\* The requests of R go on without a new pair, and without refreshing.
LEMMA StepKeeps ==
  ASSUME SessionInv, NEW R \in SUBSET Request,
         req' \in [Request -> RequestRecord], refreshing' \in BOOLEAN,
         \A x \in Request \ R : req'[x] = req[x],
         \A x \in R : Sound(req'[x]) /\ req'[x].new = NoToken /\ ~req'[x].bare,
         \A x \in R : req'[x].pc = "queued" => refreshing',
         \A x \in R : req[x].bare => ~refreshing' /\ \A s \in Request : At(s, "queued") => s \in R,
         refreshing' => refreshing, refreshing /\ ~refreshing' => \E x \in R : req[x].bare
  PROVE  BareInv' /\ \A s \in Request : ReqInv(s)'
<1> USE DEF SessionInv
<1>1. \A s \in Request : req'[s].bare => s \notin R /\ req[s].bare
  OBVIOUS
<1>2. \A s \in Request : At(s, "queued")' => refreshing'
  BY DEF BareInv, At
<1>3. refreshing' => \E s \in Request : req'[s].bare
  BY DEF BareInv
<1>4. BareInv'
  BY <1>1, <1>2, <1>3 DEF BareInv
<1>5. ASSUME NEW s \in Request PROVE ReqInv(s)'
  <2>1. CASE s \in R
    BY <2>1 DEF ReqInv
  <2>2. CASE s \notin R
    <3>1. req[s].bare => refreshing'
      BY <2>2 DEF BareInv, ReqInv
    <3> QED BY <2>2, <3>1 DEF ReqInv
  <2> QED BY <2>1, <2>2
<1> QED BY <1>4, <1>5

LEMMA StepNew ==
  ASSUME SessionInv, NEW R \in SUBSET Request,
         \A x \in Request \ R : req'[x] = req[x],
         \A x \in R : Sound(req'[x]) /\ req'[x].new = NoToken,
         \A s \in Request \ R : At(s, "renewed") =>
           /\ req[s].new \notin {access'} \cup expired' \cup revoked'
           /\ \A x \in R : req'[x].bearer # req[s].new
  PROVE  \A s \in Request : NewInv(s)'
<1> USE DEF SessionInv, ClientTyped
<1> SUFFICES ASSUME NEW s \in Request, At(s, "renewed")' PROVE NewInv(s)'
  BY DEF NewInv
<1>1. s \notin R
  BY DEF Sound, At
<1>2. req'[s] = req[s] /\ At(s, "renewed") /\ req[s].new # NoToken
  BY <1>1 DEF At, ReqInv, Sound
<1>3. ASSUME NEW x \in Request
      PROVE  req'[x].bearer # req[s].new /\ (x # s => req'[x].new # req[s].new)
  <2>1. CASE x \in R
    BY <2>1, <1>1, <1>2
  <2>2. CASE x \notin R
    BY <2>2, <1>2 DEF NewInv
  <2> QED BY <2>1, <2>2
<1> QED BY <1>1, <1>2, <1>3 DEF NewInv

LEMMA IdleSound == Sound(Idle)
  BY IdleIs DEF Sound

\* The same for one request that is not bare.
LEMMA OneKeeps ==
  ASSUME SessionInv, NEW r \in Request, ~req[r].bare, UNCHANGED refreshing,
         req' \in [Request -> RequestRecord],
         \A x \in Request \ {r} : req'[x] = req[x],
         Sound(req'[r]), req'[r].new = NoToken, ~req'[r].bare,
         req'[r].pc = "queued" => refreshing,
         \A s \in Request \ {r} : At(s, "renewed") =>
           req[s].new \notin {access'} \cup expired' \cup revoked' \cup {req'[r].bearer}
  PROVE  BareInv' /\ \A s \in Request : ReqInv(s)' /\ NewInv(s)'
<1>1. PICK R \in SUBSET Request : R = {r}
  OBVIOUS
<1>2. refreshing \in BOOLEAN
  BY DEF SessionInv, ClientTyped
<1>3. BareInv' /\ \A s \in Request : ReqInv(s)'
  BY <1>1, <1>2, StepKeeps
<1>4. \A s \in Request : NewInv(s)'
  BY <1>1, StepNew
<1> QED BY <1>3, <1>4

\* A request ends, and nothing else happens to the others.
LEMMA EndKeeps ==
  ASSUME SessionInv, NEW r \in Request, ~req[r].bare,
         req' = [x \in Request |-> IF x \in {r} THEN Idle ELSE req[x]],
         UNCHANGED <<cookie, refreshing, expired>>,
         access' = access \/ access' = NoToken,
         page' = page \/ page' = "login",
         page' = "app" /\ auth' => auth /\ access' = access,
         auth' \in BOOLEAN, live' \subseteq live,
         \/ revoked' = revoked
         \/ access' = NoToken /\ req[r].bearer \in Token /\ revoked' = revoked \cup {req[r].bearer}
  PROVE  SessionInv'
<1> USE DEF SessionInv, ClientTyped
<1>1. \A x \in Request : req'[x] = IF x = r THEN Idle ELSE req[x]
  OBVIOUS
<1>2. req' \in [Request -> RequestRecord]
  BY <1>1, IdleIs
<1>3. Sound(req'[r]) /\ req'[r].new = NoToken /\ ~req'[r].bare /\ req'[r].pc # "queued"
      /\ req'[r].bearer = NoToken
  BY <1>1, IdleIs, IdleSound
<1>4. \A s \in Request : At(s, "renewed") => req[s].new # NoToken
  BY DEF ReqInv, Sound, At
<1>5. \A s \in Request \ {r} : At(s, "renewed") =>
        req[s].new \notin {access'} \cup expired' \cup revoked' \cup {req'[r].bearer}
  BY <1>3, <1>4 DEF NewInv
<1>6. BareInv' /\ \A s \in Request : ReqInv(s)' /\ NewInv(s)'
  BY <1>1, <1>2, <1>3, <1>5, OneKeeps
<1>7. PageInv'
  BY DEF PageInv, Token
<1>8. ClientTyped'
  BY <1>2
<1> QED BY <1>6, <1>7, <1>8

LEMMA SettleKeeps ==
  ASSUME SessionInv, NEW r \in Request, ~req[r].bare, Settle({r}),
         ~(Is(r, "chat") /\ page = "app"), expired' = expired, live' \subseteq live,
         \/ revoked' = revoked
         \/ Is(r, "logout") /\ req[r].bearer \in Token /\ revoked' = revoked \cup {req[r].bearer}
  PROVE  SessionInv'
<1>1. {req[x].kind : x \in {r}} = {req[r].kind}
  OBVIOUS
<1>2. /\ auth' = (auth /\ req[r].kind \notin {"init", "logout"})
      /\ page' = IF req[r].kind \in {"init", "logout"} THEN "login" ELSE page
      /\ access' = IF req[r].kind \in {"chat", "logout"} THEN NoToken ELSE access
      /\ req' = [x \in Request |-> IF x \in {r} THEN Idle ELSE req[x]]
      /\ cookie' = cookie /\ refreshing' = refreshing
  <2>1. \A S : {req[r].kind} \cap S # {} <=> req[r].kind \in S
    OBVIOUS
  <2> QED BY <1>1, <2>1 DEF Settle
<1>3. auth' \in BOOLEAN /\ (page' = page \/ page' = "login")
      /\ (access' = access \/ access' = NoToken)
  BY <1>2
<1>4. page' = "app" /\ auth' => auth /\ access' = access
  BY <1>2 DEF Is
<1>5. Is(r, "logout") => access' = NoToken
  BY <1>2 DEF Is
<1> QED BY <1>2, <1>3, <1>4, <1>5, EndKeeps

LEMMA RejectKeeps ==
  ASSUME SessionInv, NEW r \in Request, ~req[r].bare, Reject(r), UNCHANGED <<expired, revoked>>
  PROVE  SessionInv'
<1>1. CASE Is(r, "chat") /\ page = "app"
  BY <1>1, LoadAnewKeeps DEF Reject
<1>2. CASE ~(Is(r, "chat") /\ page = "app")
  <2>1. Settle({r}) /\ live' \subseteq live
    BY <1>2 DEF Reject
  <2>2. /\ expired' = expired
        /\ \/ revoked' = revoked
           \/ Is(r, "logout") /\ req[r].bearer \in Token /\ revoked' = revoked \cup {req[r].bearer}
    OBVIOUS
  <2> QED BY <1>2, <2>1, <2>2, SettleKeeps
<1> QED BY <1>1, <1>2

LEMMA InterceptKeeps ==
  ASSUME SessionInv, NEW r \in Request, ~req[r].bare, req[r].kind # "none",
         Intercept(r), UNCHANGED <<expired, revoked>>
  PROVE  SessionInv'
<1> USE DEF SessionInv, ClientTyped
<1>1. CASE req[r].again
  BY <1>1, RejectKeeps DEF Intercept
<1>2. CASE ~req[r].again /\ refreshing
  <2>1. PICK q : q = [Idle EXCEPT !.kind = req[r].kind, !.pc = "queued"]
    OBVIOUS
  <2>2. q = [kind |-> req[r].kind, pc |-> "queued", bare |-> FALSE, again |-> FALSE,
             bearer |-> NoToken, given |-> NoToken, new |-> NoToken]
    BY <2>1 DEF Idle
  <2>3. q \in RequestRecord /\ Sound(q) /\ q.new = NoToken /\ ~q.bare /\ q.bearer = NoToken
    BY <2>2 DEF RequestRecord, Sound
  <2>4. req' = [req EXCEPT ![r] = q] /\ UNCHANGED <<clientVars, live>>
    BY <1>2, <2>1 DEF Intercept
  <2>5. /\ req' \in [Request -> RequestRecord] /\ req'[r] = q
        /\ \A x \in Request \ {r} : req'[x] = req[x]
        /\ UNCHANGED <<cookie, access, refreshing, page, auth, live>>
    BY <2>3, <2>4 DEF clientVars
  <2>6. \A s \in Request \ {r} : At(s, "renewed") =>
          req[s].new \notin {access'} \cup expired' \cup revoked' \cup {req'[r].bearer}
    BY <2>3, <2>5 DEF NewInv, ReqInv, Sound, At
  <2>7. BareInv' /\ \A s \in Request : ReqInv(s)' /\ NewInv(s)'
    BY <1>2, <2>3, <2>5, <2>6, OneKeeps
  <2> QED BY <2>5, <2>7 DEF PageInv
<1>3. CASE ~req[r].again /\ ~refreshing
  <2>1. PICK q : q = Exchange(req[r].kind, TRUE, TRUE, cookie)
    OBVIOUS
  <2>2. q = [kind |-> req[r].kind, pc |-> "asked", bare |-> TRUE, again |-> TRUE,
             bearer |-> NoToken, given |-> cookie, new |-> NoToken]
    BY <2>1 DEF Exchange, Idle
  <2>3. q \in RequestRecord /\ Sound(q) /\ q.new = NoToken /\ q.bare /\ q.bearer = NoToken
        /\ q.pc = "asked"
    BY <2>2 DEF RequestRecord, Sound
  <2>4. req' = [req EXCEPT ![r] = q] /\ refreshing' = TRUE
        /\ UNCHANGED <<cookie, access, page, auth, live>>
    BY <1>3, <2>1 DEF Intercept
  <2>5. /\ req' \in [Request -> RequestRecord] /\ req'[r] = q
        /\ \A x \in Request \ {r} : req'[x] = req[x]
    BY <2>3, <2>4
  <2>6. \A x \in Request : ~req[x].bare
    BY <1>3 DEF ReqInv
  <2>7. \A x \in Request : req'[x].bare => x = r
    BY <2>5, <2>6
  <2>8. BareInv'
    BY <2>3, <2>4, <2>5, <2>7 DEF BareInv
  <2>9. ASSUME NEW s \in Request PROVE ReqInv(s)'
    BY <2>3, <2>4, <2>5 DEF ReqInv
  <2>10. \A s \in Request \ {r} : At(s, "renewed") =>
          /\ req[s].new \notin {access'} \cup expired' \cup revoked'
          /\ req'[r].bearer # req[s].new
    BY <2>3, <2>4, <2>5 DEF NewInv, ReqInv, Sound, At
  <2>11. \A s \in Request : NewInv(s)'
    <3>1. PICK R \in SUBSET Request : R = {r}
      OBVIOUS
    <3> QED BY <2>3, <2>5, <2>10, <3>1, StepNew
  <2> QED BY <2>4, <2>5, <2>8, <2>9, <2>11 DEF PageInv
<1> QED BY <1>1, <1>2, <1>3

LEMMA GiveUpKeeps ==
  ASSUME SessionInv, NEW r \in Request, req[r].bare, GiveUp(r), UNCHANGED <<expired, revoked>>
  PROVE  SessionInv'
<1> USE DEF SessionInv, ClientTyped
<1>1. CASE page = "app"
  BY <1>1, LoadAnewKeeps DEF GiveUp
<1>2. CASE page # "app"
  <2>1. PICK R : R = Queue \cup {r}
    OBVIOUS
  <2>2. /\ req' = [x \in Request |-> IF x \in R THEN Idle ELSE req[x]]
        /\ access' = NoToken /\ refreshing' = FALSE /\ auth' \in BOOLEAN
        /\ UNCHANGED <<cookie, page, live>>
    BY <1>2, <2>1 DEF GiveUp
  <2>3. R \in SUBSET Request /\ r \in R
    BY <2>1 DEF Queue
  <2>4. \A s \in Request : At(s, "queued") => s \in R
    BY <2>1 DEF Queue
  <2>5. /\ req' \in [Request -> RequestRecord]
        /\ \A x \in Request \ R : req'[x] = req[x]
        /\ \A x \in R : req'[x] = Idle
    BY <2>2, <2>3, IdleIs
  <2>6. \A x \in R : Sound(req'[x]) /\ req'[x].new = NoToken /\ ~req'[x].bare
                     /\ req'[x].pc # "queued" /\ req'[x].bearer = NoToken
    BY <2>5, IdleIs, IdleSound
  <2>7. BareInv' /\ \A s \in Request : ReqInv(s)'
    BY <2>2, <2>3, <2>4, <2>5, <2>6, StepKeeps
  <2>8. \A s \in Request \ R : At(s, "renewed") =>
          /\ req[s].new \notin {access'} \cup expired' \cup revoked'
          /\ \A x \in R : req'[x].bearer # req[s].new
    BY <2>2, <2>6 DEF NewInv, ReqInv, Sound, At
  <2>9. \A s \in Request : NewInv(s)'
    BY <2>3, <2>5, <2>6, <2>8, StepNew
  <2> QED BY <1>2, <2>2, <2>5, <2>7, <2>9 DEF PageInv, Token
<1> QED BY <1>1, <1>2

LEMMA BareSucceedsKeeps ==
  ASSUME SessionInv, NEW r \in Request, BareSucceeds(r)
  PROVE  SessionInv'
<1> USE DEF SessionInv, ClientTyped
<1>1. PICK t, R : t = req[r].new /\ R = Queue \cup {r}
  OBVIOUS
<1>2. /\ At(r, "renewed") /\ req[r].bare
      /\ cookie' = t /\ access' = t /\ refreshing' = FALSE
      /\ req' = [x \in Request |-> IF x \in R THEN Resend(req[x], t) ELSE req[x]]
      /\ UNCHANGED <<page, auth, live, expired, revoked>>
  BY <1>1 DEF BareSucceeds, serverVars
<1>3. t \in Token /\ t # NoToken /\ t \notin expired \cup revoked
  BY <1>1, <1>2 DEF ReqInv, Sound, NewInv, At, RequestRecord, Token
<1>4. R \in SUBSET Request /\ r \in R
  BY <1>1 DEF Queue
<1>5. \A s \in Request : At(s, "queued") => s \in R
  BY <1>1 DEF Queue
<1>6. ASSUME NEW x \in R
      PROVE  /\ req'[x] \in RequestRecord /\ Sound(req'[x]) /\ req'[x].new = NoToken
             /\ ~req'[x].bare /\ req'[x].pc # "queued" /\ req'[x].bearer \in {NoToken, t}
  <2>1. /\ x \in Request /\ req'[x] = Resend(req[x], t)
        /\ req[x] \in RequestRecord
    BY <1>2, <1>4, <1>6
  <2>2. req[x].kind \in {"api", "init", "chat", "login", "logout"} /\ req[x].again \in BOOLEAN
    BY <1>1, <1>2, <2>1 DEF ReqInv, Sound, Queue, At, RequestRecord
  <2>3. CASE req[x].kind \in {"init", "chat"}
    <3>1. req'[x] = [kind |-> req[x].kind, pc |-> "asked", bare |-> FALSE, again |-> req[x].again,
                     bearer |-> NoToken, given |-> t, new |-> NoToken]
      BY <2>1, <2>3 DEF Resend, Exchange, Idle
    <3> QED BY <1>3, <2>2, <2>3, <3>1 DEF RequestRecord, Sound
  <2>4. CASE req[x].kind \notin {"init", "chat"}
    <3>1. req'[x] = [kind |-> req[x].kind, pc |-> "sent", bare |-> FALSE, again |-> req[x].again,
                     bearer |-> t, given |-> NoToken, new |-> NoToken]
      BY <2>1, <2>4 DEF Resend, Send, Idle
    <3> QED BY <1>3, <2>2, <2>4, <3>1 DEF RequestRecord, Sound
  <2> QED BY <2>3, <2>4
<1>7. /\ \A x \in Request \ R : req'[x] = req[x]
      /\ req' \in [Request -> RequestRecord]
  BY <1>2, <1>4, <1>6
<1>8. BareInv' /\ \A s \in Request : ReqInv(s)'
  BY <1>2, <1>4, <1>5, <1>6, <1>7, StepKeeps
<1>9. \A s \in Request \ R : At(s, "renewed") => req[s].new # t /\ req[s].new # NoToken
  BY <1>1, <1>2, <1>4 DEF NewInv, ReqInv, Sound, At
<1>10. \A s \in Request \ R : At(s, "renewed") =>
         /\ req[s].new \notin {access'} \cup expired' \cup revoked'
         /\ \A x \in R : req'[x].bearer # req[s].new
  BY <1>2, <1>6, <1>9 DEF NewInv
<1>11. \A s \in Request : NewInv(s)'
  BY <1>4, <1>6, <1>7, <1>10, StepNew
<1>12. PageInv'
  BY <1>2, <1>3 DEF PageInv
<1> QED BY <1>2, <1>3, <1>7, <1>8, <1>11, <1>12

\* A request goes on, or comes, with a token that the tab has or has just been given.
LEMMA ChangeKeeps ==
  ASSUME SessionInv, NEW r \in Request, ~req[r].bare, NEW q \in RequestRecord,
         Sound(q), q.new = NoToken, ~q.bare, q.pc # "queued",
         req' = [req EXCEPT ![r] = q],
         UNCHANGED <<refreshing, live, expired, revoked>>,
         \/ cookie' = cookie /\ access' = access
         \/ At(r, "renewed") /\ cookie' = req[r].new /\ access' = req[r].new,
         q.bearer \in {NoToken, access'},
         page' \in {"app", "login"}, auth' \in BOOLEAN,
         page' = "app" /\ auth' => (page = "app" /\ auth) \/ access' # NoToken
  PROVE  SessionInv'
<1> USE DEF SessionInv, ClientTyped
<1>1. /\ req'[r] = q /\ req' \in [Request -> RequestRecord]
      /\ \A x \in Request \ {r} : req'[x] = req[x]
  OBVIOUS
<1>2. At(r, "renewed") => req[r].new \in Token /\ req[r].new \notin expired \cup revoked
  BY DEF NewInv, ReqInv, Sound, At, RequestRecord, Token
<1>3. \A s \in Request \ {r} : At(s, "renewed") =>
        req[s].new \notin {access'} \cup expired' \cup revoked' \cup {req'[r].bearer}
  BY <1>1 DEF NewInv, ReqInv, Sound, At
<1>4. BareInv' /\ \A s \in Request : ReqInv(s)' /\ NewInv(s)'
  BY <1>1, <1>3, OneKeeps
<1>5. PageInv'
  BY <1>2 DEF PageInv, Token
<1> QED BY <1>1, <1>2, <1>4, <1>5

LEMMA RenewedKeeps ==
  ASSUME SessionInv, NEW r \in Request, Renewed(r) \/ LoggedIn(r)
  PROVE  SessionInv'
<1> USE DEF SessionInv, ClientTyped
<1>1. PICK t : t = req[r].new
  OBVIOUS
<1>2. At(r, "renewed") /\ ~req[r].bare
  BY DEF Renewed, LoggedIn
<1>3. t \in Token /\ t # NoToken
  BY <1>1, <1>2 DEF ReqInv, Sound, At, RequestRecord, Token
<1>4. CASE Renewed(r) /\ Is(r, "init")
  <2>1. req' = [req EXCEPT ![r] = Idle] /\ auth' \in BOOLEAN
    BY <1>4 DEF Renewed
  <2>2. cookie' = t /\ access' = t /\ UNCHANGED <<refreshing, page, live, expired, revoked>>
    BY <1>1, <1>4 DEF Renewed, serverVars
  <2>3. page' \in {"app", "login"}
    BY <2>2
  <2> QED BY <1>1, <1>2, <1>3, <2>1, <2>2, <2>3, IdleIs, IdleSound, ChangeKeeps
<1>5. CASE Renewed(r) /\ ~Is(r, "init")
  <2>1. PICK q : q = Fetch(t)
    OBVIOUS
  <2>2. q = [kind |-> "chat", pc |-> "fetched", bare |-> FALSE, again |-> FALSE,
             bearer |-> t, given |-> NoToken, new |-> NoToken]
    BY <2>1 DEF Fetch, Idle
  <2>3. q \in RequestRecord /\ Sound(q) /\ q.new = NoToken /\ ~q.bare /\ q.pc # "queued"
        /\ q.bearer = t
    BY <1>3, <2>2 DEF RequestRecord, Sound
  <2>4. req' = [req EXCEPT ![r] = q] /\ auth' \in BOOLEAN
    BY <1>1, <1>5, <2>1 DEF Renewed
  <2>5. cookie' = t /\ access' = t /\ UNCHANGED <<refreshing, page, live, expired, revoked>>
    BY <1>1, <1>5 DEF Renewed, serverVars
  <2> QED BY <1>1, <1>2, <1>3, <2>3, <2>4, <2>5, ChangeKeeps
<1>6. CASE LoggedIn(r)
  <2>1. PICK q : q = Exchange("init", FALSE, FALSE, t)
    OBVIOUS
  <2>2. q = [kind |-> "init", pc |-> "asked", bare |-> FALSE, again |-> FALSE,
             bearer |-> NoToken, given |-> t, new |-> NoToken]
    BY <2>1 DEF Exchange, Idle
  <2>3. q \in RequestRecord /\ Sound(q) /\ q.new = NoToken /\ ~q.bare /\ q.pc # "queued"
        /\ q.bearer = NoToken
    BY <1>3, <2>2 DEF RequestRecord, Sound
  <2>4. req' = [req EXCEPT ![r] = q] /\ auth' \in BOOLEAN /\ page' \in {"app", "login"}
    BY <1>1, <1>6, <2>1 DEF LoggedIn
  <2>5. cookie' = t /\ access' = t /\ UNCHANGED <<refreshing, live, expired, revoked>>
    BY <1>1, <1>6 DEF LoggedIn, serverVars
  <2> QED BY <1>1, <1>2, <1>3, <2>3, <2>4, <2>5, ChangeKeeps
<1> QED BY <1>4, <1>5, <1>6

LEMMA OverKeeps ==
  ASSUME SessionInv, NEW r \in Request, At(r, "sent") \/ At(r, "fetched"),
         req' = [req EXCEPT ![r] = Idle], UNCHANGED <<clientVars, live, expired, revoked>>
  PROVE  SessionInv'
<1>1. ~req[r].bare
  BY DEF SessionInv, ReqInv, Sound, At
<1>2. UNCHANGED <<cookie, access, refreshing, page, auth>>
  BY DEF clientVars
<1>3. page \in {"app", "login"} /\ auth \in BOOLEAN
  BY DEF SessionInv, ClientTyped
<1> QED BY <1>1, <1>2, <1>3, IdleIs, IdleSound, ChangeKeeps

LEMMA UserKeeps ==
  ASSUME SessionInv, NEW r \in Request, Api(r) \/ Chat(r) \/ Logout(r) \/ Login(r)
  PROVE  SessionInv'
<1> USE DEF SessionInv, ClientTyped
<1>1. /\ ~req[r].bare /\ UNCHANGED <<cookie, access, refreshing, auth, live, expired, revoked>>
      /\ \/ page' = page
         \/ page' = "login"
  BY DEF Api, Chat, Logout, Login, Caused, clientVars, serverVars, ReqInv, Sound, At
<1>2. ASSUME NEW k \in {"api", "logout", "login"}, req' = [req EXCEPT ![r] = Send(k, FALSE, access)],
             k = "logout" => access # NoToken
      PROVE  SessionInv'
  <2>1. PICK q : q = Send(k, FALSE, access)
    OBVIOUS
  <2>2. q = [kind |-> k, pc |-> "sent", bare |-> FALSE, again |-> FALSE,
             bearer |-> access, given |-> NoToken, new |-> NoToken]
    BY <2>1 DEF Send, Idle
  <2>3. q \in RequestRecord /\ Sound(q) /\ q.new = NoToken /\ ~q.bare /\ q.pc # "queued"
        /\ q.bearer = access
    BY <1>2, <2>2 DEF RequestRecord, Sound
  <2> QED BY <1>1, <1>2, <2>1, <2>3, ChangeKeeps
<1>3. CASE Api(r)
  BY <1>2, <1>3 DEF Api
<1>4. CASE Logout(r)
  BY <1>2, <1>4 DEF Logout, PageInv
<1>5. CASE Login(r)
  BY <1>2, <1>5 DEF Login
<1>6. CASE Chat(r) /\ req' = [req EXCEPT ![r] = Fetch(access)]
  <2>1. PICK q : q = Fetch(access)
    OBVIOUS
  <2>2. q = [kind |-> "chat", pc |-> "fetched", bare |-> FALSE, again |-> FALSE,
             bearer |-> access, given |-> NoToken, new |-> NoToken]
    BY <2>1 DEF Fetch, Idle
  <2>3. q \in RequestRecord /\ Sound(q) /\ q.new = NoToken /\ ~q.bare /\ q.pc # "queued"
        /\ q.bearer = access
    BY <2>2 DEF RequestRecord, Sound
  <2> QED BY <1>1, <1>6, <2>1, <2>3, ChangeKeeps
<1>7. CASE Chat(r) /\ req' = [req EXCEPT ![r] = Exchange("chat", FALSE, FALSE, cookie)]
  <2>1. PICK q : q = Exchange("chat", FALSE, FALSE, cookie)
    OBVIOUS
  <2>2. q = [kind |-> "chat", pc |-> "asked", bare |-> FALSE, again |-> FALSE,
             bearer |-> NoToken, given |-> cookie, new |-> NoToken]
    BY <2>1 DEF Exchange, Idle
  <2>3. q \in RequestRecord /\ Sound(q) /\ q.new = NoToken /\ ~q.bare /\ q.pc # "queued"
        /\ q.bearer = NoToken
    BY <2>2 DEF RequestRecord, Sound
  <2>4. req' = [req EXCEPT ![r] = q]
    BY <1>7, <2>1
  <2> QED BY <1>1, <2>3, <2>4, ChangeKeeps
<1> QED BY <1>3, <1>4, <1>5, <1>6, <1>7 DEF Chat

LEMMA EndsKeep ==
  ASSUME SessionInv, AccessExpires \/ SessionEnds
  PROVE  SessionInv'
<1> USE DEF SessionInv, ClientTyped
<1>1. CASE AccessExpires
  <2>1. UNCHANGED <<cookie, access, refreshing, page, auth, req, live, revoked>>
    BY <1>1 DEF AccessExpires, clientVars
  <2>2. expired' \subseteq expired \cup (HeldAccess \ {NoToken})
        /\ \A r \in Request : At(r, "renewed") => req[r].new \notin expired'
    BY <1>1 DEF AccessExpires
  <2>3. HeldAccess \subseteq Token \cup {NoToken}
    BY DEF HeldAccess, RequestRecord
  <2>4. ClientTyped'
    BY <2>1, <2>2, <2>3
  <2>5. BareInv' /\ PageInv' /\ \A s \in Request : ReqInv(s)'
    BY <2>1 DEF BareInv, PageInv, ReqInv, At
  <2>6. \A s \in Request : NewInv(s)'
    BY <2>1, <2>2 DEF NewInv, At
  <2> QED BY <2>4, <2>5, <2>6
<1>2. CASE SessionEnds
  <2>1. UNCHANGED <<cookie, access, refreshing, page, auth, req, expired, revoked>> /\ live' = {}
    BY <1>2 DEF SessionEnds, clientVars
  <2>2. BareInv' /\ PageInv' /\ \A s \in Request : ReqInv(s)' /\ NewInv(s)'
    BY <2>1 DEF BareInv, PageInv, ReqInv, NewInv, At
  <2> QED BY <2>1, <2>2
<1> QED BY <1>1, <1>2

LEMMA ProgressKeeps ==
  ASSUME SessionInv, NEW r \in Request, Progress(r)
  PROVE  SessionInv'
<1>1. At(r, "sent") \/ At(r, "fetched") => ~req[r].bare
  BY DEF SessionInv, ReqInv, Sound, At
<1>2. req[r].kind = "none" <=> At(r, "idle")
  BY DEF SessionInv, ReqInv, Sound, At
<1>3. CASE Verify(r)
  BY <1>3, VerifyKeeps
<1>4. CASE Rotate(r) \/ LoginRight(r)
  BY <1>4, IssueKeeps DEF Rotate, LoginRight
<1>5. CASE LoginWrong(r)
  BY <1>1, <1>2, <1>5, InterceptKeeps DEF LoginWrong, At
<1>6. CASE BareSucceeds(r)
  BY <1>6, BareSucceedsKeeps
<1>7. CASE BareDenied(r)
  BY <1>7, GiveUpKeeps DEF BareDenied
<1>8. CASE Renewed(r) \/ LoggedIn(r)
  BY <1>8, RenewedKeeps
<1>9. CASE Denied(r)
  BY <1>2, <1>9, InterceptKeeps DEF Denied, At
<1>10. CASE Unauthorized(r)
  BY <1>1, <1>2, <1>10, InterceptKeeps, RejectKeeps DEF Unauthorized, At
<1>11. CASE Answered(r) \/ Streams(r)
  BY <1>11, OverKeeps DEF Answered, Streams, serverVars
<1>12. CASE LoggedOut(r)
  <2>1. /\ ~req[r].bare /\ Settle({r}) /\ Is(r, "logout") /\ Good(req[r].bearer)
        /\ live' = {} /\ expired' = expired /\ revoked' = revoked \cup {req[r].bearer}
    BY <1>1, <1>12 DEF LoggedOut
  <2>2. req[r].bearer \in Token
    BY <2>1 DEF Good, SessionInv, ClientTyped, RequestRecord
  <2>3. ~(Is(r, "chat") /\ page = "app") /\ live' \subseteq live
    BY <2>1 DEF Is
  <2> QED BY <2>1, <2>2, <2>3, SettleKeeps
<1>13. CASE ChatRefused(r)
  BY <1>1, <1>13, RejectKeeps DEF ChatRefused
<1> QED BY <1>3, <1>4, <1>5, <1>6, <1>7, <1>8, <1>9, <1>10, <1>11, <1>12, <1>13 DEF Progress

LEMMA FailsKeeps ==
  ASSUME SessionInv, NEW r \in Request, Fails(r)
  PROVE  SessionInv'
<1>1. CASE req[r].bare
  BY <1>1, GiveUpKeeps DEF Fails
<1>2. CASE ~req[r].bare /\ At(r, "fetched")
  BY <1>2, OverKeeps DEF Fails
<1>3. CASE ~req[r].bare /\ ~At(r, "fetched")
  BY <1>3, RejectKeeps DEF Fails
<1> QED BY <1>1, <1>2, <1>3

LEMMA NextKeeps ==
  ASSUME SessionInv, Next
  PROVE  SessionInv'
<1>1. CASE \E r \in Request : Progress(r)
  BY <1>1, ProgressKeeps
<1>2. CASE \E r \in Request : Api(r) \/ Chat(r) \/ Logout(r) \/ Login(r)
  BY <1>2, UserKeeps
<1>3. CASE \E r \in Request : Fails(r)
  BY <1>3, FailsKeeps
<1>4. CASE AccessExpires \/ SessionEnds
  BY <1>4, EndsKeep
<1> QED BY <1>1, <1>2, <1>3, <1>4 DEF Next

LEMMA InitKeeps ==
  ASSUME Init
  PROVE  SessionInv
<1>1. PICK e : e = Exchange("init", FALSE, FALSE, cookie)
  OBVIOUS
<1>2. 1 \in Token /\ NoToken \notin Token /\ cookie \in Token \cup {NoToken}
  BY DEF Init, Token, NoToken
<1>3. e = [kind |-> "init", pc |-> "asked", bare |-> FALSE, again |-> FALSE,
           bearer |-> NoToken, given |-> cookie, new |-> NoToken]
  BY <1>1 DEF Exchange, Idle
<1>4. e \in RequestRecord /\ Sound(e) /\ ~e.bare /\ e.pc = "asked"
  BY <1>2, <1>3 DEF RequestRecord, Sound
<1>5. req \in [Request -> {Idle, e}]
  BY <1>1 DEF Init
<1>6. ASSUME NEW r \in Request
      PROVE  /\ req[r] \in RequestRecord /\ Sound(req[r]) /\ ~req[r].bare
             /\ req[r].pc \in {"idle", "asked"}
  BY <1>4, <1>5, IdleIs, IdleSound
<1>7. ClientTyped
  <2>1. req \in [Request -> RequestRecord]
    BY <1>5, <1>6
  <2>2. /\ access \in {NoToken, 1} /\ page \in {"app", "login"} /\ refreshing = FALSE
        /\ auth \in BOOLEAN /\ live \in {{}, {1}} /\ expired = {} /\ revoked = {}
    BY DEF Init
  <2> QED BY <1>2, <2>1, <2>2 DEF ClientTyped
<1>8. BareInv
  BY <1>6 DEF BareInv, At, Init
<1>9. PageInv
  BY <1>2 DEF PageInv, Init
<1>10. ASSUME NEW r \in Request PROVE ReqInv(r) /\ NewInv(r)
  BY <1>6 DEF ReqInv, NewInv, At
<1> QED BY <1>7, <1>8, <1>9, <1>10 DEF SessionInv

-----------------------------------------------------------------------------
(* The session while no two exchanges meet                                  *)

LEMMA Apart ==
  ASSUME ~Meeting, NEW r \in Request, NEW s \in Request, r # s, AtWork(r), AtWork(s)
  PROVE  (req[r].bare \/ At(r, "fetched")) /\ (req[s].bare \/ At(s, "fetched"))
  BY DEF Meeting

\* What is not disturbed now was not before.
LEMMA Persists ==
  ASSUME SessionInv, disturbed \/ Calm, Notice, ~disturbed'
  PROVE  Calm /\ ~Meeting' /\ failures' = failures
<1>1. (~disturbed \/ AtRest) /\ ~Meeting' /\ failures' = failures
  BY DEF Notice
<1>2. CASE AtRest
  <2>1. \A r \in Request : req[r].pc = "idle" /\ req[r].kind = "none"
    BY <1>2 DEF AtRest, At, SessionInv, ReqInv, Sound
  <2>2. Calm
    BY <2>1 DEF Calm, CalmAt, Meeting, AtWork, Refresh, At, Is
  <2> QED BY <1>1, <2>2
<1> QED BY <1>1, <1>2

LEMMA LoadAnewCalm ==
  ASSUME NEW r \in Request, LoadAnew(r)
  PROVE  \A s \in Request : CalmAt(s)'
<1>1. PICK e : e = Exchange("init", FALSE, FALSE, cookie)
  OBVIOUS
<1>2. e.kind = "init" /\ e.pc = "asked" /\ e.given = cookie
  BY <1>1 DEF Exchange, Idle
<1>3. page' = "login" /\ cookie' = cookie /\ \A s \in Request : req'[s] = IF s = r THEN e ELSE Idle
  BY <1>1 DEF LoadAnew
<1> QED BY <1>2, <1>3, IdleIs DEF CalmAt, At, Is

LEMMA EndCalm ==
  ASSUME Calm, NEW R \in SUBSET Request,
         req' = [x \in Request |-> IF x \in R THEN Idle ELSE req[x]],
         cookie' = cookie, page' = page \/ page' = "login", live' \subseteq live,
         \A s \in Request \ R : At(s, "fetched") \/ (Is(s, "logout") /\ At(s, "sent")) =>
           (req[s].bearer \notin expired \cup revoked => req[s].bearer \notin expired' \cup revoked')
  PROVE  \A s \in Request : CalmAt(s)'
<1> SUFFICES ASSUME NEW s \in Request PROVE CalmAt(s)'
  OBVIOUS
<1>1. CASE s \in R
  <2>1. req'[s] = Idle
    BY <1>1
  <2> QED BY <2>1, IdleIs DEF CalmAt, At, Is
<1>2. CASE s \notin R
  <2>1. req'[s] = req[s] /\ CalmAt(s)
    BY <1>2 DEF Calm
  <2> QED BY <1>2, <2>1 DEF CalmAt, At, Is, Good
<1> QED BY <1>1, <1>2

\* One request goes on, and the cookie stays.
LEMMA OneCalm ==
  ASSUME Calm, NEW r \in Request,
         \A x \in Request \ {r} : req'[x] = req[x],
         cookie' = cookie, page' = page \/ page' = "login",
         cookie \notin live => cookie \notin live',
         \A s \in Request \ {r} : At(s, "fetched") \/ (Is(s, "logout") /\ At(s, "sent")) =>
           (req[s].bearer \notin expired \cup revoked => req[s].bearer \notin expired' \cup revoked'),
         CalmAt(r)'
  PROVE  \A s \in Request : CalmAt(s)'
<1> SUFFICES ASSUME NEW s \in Request, s # r PROVE CalmAt(s)'
  OBVIOUS
<1>1. req'[s] = req[s] /\ CalmAt(s)
  BY DEF Calm
<1> QED BY <1>1 DEF CalmAt, At, Is, Good

LEMMA SettleCalm ==
  ASSUME Calm, NEW r \in Request, Settle({r}), live' \subseteq live, UNCHANGED <<expired, revoked>>
  PROVE  \A s \in Request : CalmAt(s)'
<1>1. PICK R \in SUBSET Request : R = {r}
  OBVIOUS
<1>2. /\ req' = [x \in Request |-> IF x \in R THEN Idle ELSE req[x]]
      /\ cookie' = cookie /\ (page' = page \/ page' = "login")
  BY <1>1 DEF Settle
<1> QED BY <1>2, EndCalm

LEMMA RejectCalm ==
  ASSUME Calm, NEW r \in Request, Reject(r), UNCHANGED <<expired, revoked>>
  PROVE  \A s \in Request : CalmAt(s)'
<1>1. CASE Is(r, "chat") /\ page = "app"
  BY <1>1, LoadAnewCalm DEF Reject
<1>2. CASE ~(Is(r, "chat") /\ page = "app")
  BY <1>2, SettleCalm DEF Reject
<1> QED BY <1>1, <1>2

LEMMA InterceptCalm ==
  ASSUME Calm, SessionInv, NEW r \in Request, Intercept(r), UNCHANGED <<expired, revoked>>
  PROVE  \A s \in Request : CalmAt(s)'
<1> USE DEF SessionInv, ClientTyped
<1>1. CASE req[r].again
  BY <1>1, RejectCalm DEF Intercept
<1>2. CASE ~req[r].again /\ refreshing
  <2>1. PICK q : q = [Idle EXCEPT !.kind = req[r].kind, !.pc = "queued"]
    OBVIOUS
  <2>2. q.kind = req[r].kind /\ q.pc = "queued"
    BY <2>1 DEF Idle
  <2>3. req' = [req EXCEPT ![r] = q] /\ UNCHANGED <<clientVars, live>>
    BY <1>2, <2>1 DEF Intercept
  <2>4. req'[r] = q /\ \A x \in Request \ {r} : req'[x] = req[x]
    BY <2>3
  <2>5. CalmAt(r)'
    BY <2>2, <2>3, <2>4 DEF Calm, CalmAt, At, Is, clientVars
  <2> QED BY <2>3, <2>4, <2>5, OneCalm DEF clientVars
<1>3. CASE ~req[r].again /\ ~refreshing
  <2>1. PICK q : q = Exchange(req[r].kind, TRUE, TRUE, cookie)
    OBVIOUS
  <2>2. q.kind = req[r].kind /\ q.pc = "asked" /\ q.given = cookie
    BY <2>1 DEF Exchange, Idle
  <2>3. req' = [req EXCEPT ![r] = q] /\ UNCHANGED <<cookie, access, page, auth, live>>
    BY <1>3, <2>1 DEF Intercept
  <2>4. req'[r] = q /\ \A x \in Request \ {r} : req'[x] = req[x]
    BY <2>3
  <2>5. CalmAt(r)'
    BY <2>2, <2>3, <2>4 DEF Calm, CalmAt, At, Is
  <2> QED BY <2>3, <2>4, <2>5, OneCalm
<1> QED BY <1>1, <1>2, <1>3

LEMMA GiveUpCalm ==
  ASSUME Calm, NEW r \in Request, GiveUp(r), UNCHANGED <<expired, revoked>>
  PROVE  \A s \in Request : CalmAt(s)'
<1>1. CASE page = "app"
  BY <1>1, LoadAnewCalm DEF GiveUp
<1>2. CASE page # "app"
  <2>1. PICK R \in SUBSET Request : R = Queue \cup {r}
    BY DEF Queue
  <2>2. /\ req' = [x \in Request |-> IF x \in R THEN Idle ELSE req[x]]
        /\ UNCHANGED <<cookie, page, live>>
    BY <1>2, <2>1 DEF GiveUp
  <2> QED BY <2>2, EndCalm
<1> QED BY <1>1, <1>2

LEMMA VerifyCalm ==
  ASSUME SessionInv, Calm, NEW r \in Request, Verify(r)
  PROVE  \A s \in Request : CalmAt(s)'
<1> USE DEF SessionInv, ClientTyped, clientVars, serverVars, Verify
<1>1. PICK l \in {"verified", "denied"} : /\ req' = [req EXCEPT ![r].pc = l]
                                          /\ l = IF req[r].given \in live THEN "verified" ELSE "denied"
  OBVIOUS
<1>2. /\ \A x \in Request \ {r} : req'[x] = req[x]
      /\ req'[r].pc = l /\ req'[r].kind = req[r].kind /\ req'[r].given = req[r].given
  BY <1>1 DEF RequestRecord
<1>3. CalmAt(r) /\ At(r, "asked")
  BY DEF Calm
<1>4. CalmAt(r)'
  BY <1>1, <1>2, <1>3 DEF CalmAt, At, Is
<1> QED BY <1>2, <1>4, OneCalm

LEMMA IssueCalm ==
  ASSUME SessionInv, Calm, NEW r \in Request,
         At(r, "verified") \/ (Is(r, "login") /\ At(r, "sent")), Issue(r)
  PROVE  \A s \in Request : CalmAt(s)'
<1> USE DEF SessionInv, ClientTyped, clientVars
<1>1. PICK n : n = NewPair
  OBVIOUS
<1>2. n # cookie
  BY <1>1, PairIsNew DEF ReqInv, Sound, At, HeldRefresh
<1>3. req' = [req EXCEPT ![r].pc = "renewed", ![r].new = n]
  BY <1>1 DEF Issue
<1>4. \A x \in Request \ {r} : req'[x] = req[x]
  BY <1>3
<1>5. req'[r].pc = "renewed" /\ req'[r].kind = req[r].kind
  BY <1>3 DEF RequestRecord
<1>6. /\ live' \subseteq live \cup {n} /\ expired' \subseteq expired /\ revoked' \subseteq revoked
      /\ UNCHANGED <<cookie, page>>
  BY <1>1 DEF Issue
<1>7. CalmAt(r)'
  BY <1>5, <1>6 DEF Calm, CalmAt, At, Is
<1>8. \A s \in Request : req[s].bearer \notin expired \cup revoked => req[s].bearer \notin expired' \cup revoked'
  BY <1>6
<1>9. cookie \notin live => cookie \notin live'
  BY <1>2, <1>6
<1> QED BY <1>4, <1>6, <1>7, <1>8, <1>9, OneCalm

\* A request that has a new pair is the only one at work on the cookie.
LEMMA RenewedAlone ==
  ASSUME SessionInv, Calm, NEW r \in Request, At(r, "renewed"),
         NEW s \in Request, s # r, Refresh(s) \/ (Is(s, "logout") /\ ~At(s, "queued"))
  PROVE  FALSE
<1>1. AtWork(r) /\ AtWork(s)
  BY DEF AtWork, Refresh, At, Is
<1>2. req[r].bare /\ (req[s].bare \/ At(s, "fetched"))
  BY <1>1, Apart DEF Calm, At
<1>3. ~At(s, "fetched")
  BY DEF SessionInv, ReqInv, Sound, Refresh, At, Is
<1> QED BY <1>2, <1>3 DEF SessionInv, BareInv

LEMMA BareSucceedsCalm ==
  ASSUME SessionInv, Calm, NEW r \in Request, BareSucceeds(r)
  PROVE  \A s \in Request : CalmAt(s)'
<1> USE DEF SessionInv, ClientTyped
<1>1. PICK t, R : t = req[r].new /\ R = Queue \cup {r}
  OBVIOUS
<1>2. /\ At(r, "renewed") /\ req[r].bare /\ cookie' = t
      /\ req' = [x \in Request |-> IF x \in R THEN Resend(req[x], t) ELSE req[x]]
      /\ UNCHANGED <<page, auth, live, expired, revoked>>
  BY <1>1 DEF BareSucceeds, serverVars
<1>3. t # NoToken /\ t \notin expired \cup revoked
  BY <1>1, <1>2 DEF ReqInv, Sound, NewInv, At
<1>4. SUFFICES ASSUME NEW s \in Request PROVE CalmAt(s)'
  OBVIOUS
<1>5. CalmAt(s)
  BY DEF Calm
<1>6. CASE s \in R
  <2>1. req'[s] = Resend(req[s], t)
    BY <1>2, <1>6
  <2>2. CASE req[s].kind \in {"init", "chat"}
    <3>1. req'[s].kind = req[s].kind /\ req'[s].pc = "asked" /\ req'[s].given = t
      BY <2>1, <2>2 DEF Resend, Exchange, Idle
    <3> QED BY <1>2, <2>2, <3>1 DEF CalmAt, At, Is
  <2>3. CASE req[s].kind \notin {"init", "chat"}
    <3>1. req'[s].kind = req[s].kind /\ req'[s].pc = "sent" /\ req'[s].bearer = t
      BY <2>1, <2>3 DEF Resend, Send, Idle
    <3>2. Good(t)'
      BY <1>2, <1>3 DEF Good
    <3> QED BY <1>2, <1>5, <3>1, <3>2 DEF CalmAt, At, Is, Good
  <2> QED BY <2>2, <2>3
<1>7. CASE s \notin R
  <2>1. req'[s] = req[s] /\ s # r
    BY <1>1, <1>2, <1>7
  <2>2. ~Refresh(s)
    BY <1>2, <2>1, RenewedAlone
  <2> QED BY <1>2, <1>5, <2>1, <2>2 DEF CalmAt, At, Is, Good, Refresh
<1> QED BY <1>6, <1>7

LEMMA RenewedCalm ==
  ASSUME SessionInv, Calm, NEW r \in Request, Renewed(r) \/ LoggedIn(r)
  PROVE  \A s \in Request : CalmAt(s)'
<1> USE DEF SessionInv, ClientTyped
<1>1. PICK t : t = req[r].new
  OBVIOUS
<1>2. /\ At(r, "renewed") /\ ~req[r].bare /\ cookie' = t
      /\ UNCHANGED <<live, expired, revoked>>
      /\ \/ page' = page
         \/ LoggedIn(r)
  BY <1>1 DEF Renewed, LoggedIn, serverVars
<1>3. t # NoToken /\ t \notin expired \cup revoked
  BY <1>1, <1>2 DEF ReqInv, Sound, NewInv, At
<1>4. ASSUME NEW s \in Request, s # r PROVE CalmAt(s)'
  <2>1. req'[s] = req[s] /\ CalmAt(s)
    BY <1>4 DEF Renewed, LoggedIn, Calm
  <2>2. ~Refresh(s) /\ (Is(s, "logout") => At(s, "queued"))
    BY <1>2, <1>4, RenewedAlone
  <2>3. ASSUME LoggedIn(r), Is(s, "logout") PROVE FALSE
    <3>1. At(s, "queued")
      BY <2>2, <2>3
    <3>2. PICK x \in Request : req[x].bare
      BY <3>1 DEF BareInv
    <3>3. x # r /\ Refresh(x)
      BY <1>2, <3>2 DEF ReqInv, Sound, Refresh
    <3> QED BY <1>2, <3>3, RenewedAlone
  <2> QED BY <1>2, <2>1, <2>2, <2>3 DEF CalmAt, At, Is, Good, Refresh
<1>5. CalmAt(r)'
  <2>1. CASE Renewed(r) /\ Is(r, "init")
    <3>1. req'[r] = Idle
      BY <2>1 DEF Renewed
    <3> QED BY <3>1, IdleIs DEF CalmAt, At, Is
  <2>2. CASE Renewed(r) /\ ~Is(r, "init")
    <3>1. req'[r] = Fetch(t)
      BY <1>1, <2>2 DEF Renewed
    <3>2. req'[r].kind = "chat" /\ req'[r].pc = "fetched" /\ req'[r].bearer = t
      BY <3>1 DEF Fetch, Idle
    <3>3. Good(t)'
      BY <1>2, <1>3 DEF Good
    <3> QED BY <3>2, <3>3 DEF CalmAt, At, Is, Good
  <2>3. CASE LoggedIn(r)
    <3>1. req'[r] = Exchange("init", FALSE, FALSE, t)
      BY <1>1, <2>3 DEF LoggedIn
    <3>2. req'[r].kind = "init" /\ req'[r].pc = "asked" /\ req'[r].given = t
      BY <3>1 DEF Exchange, Idle
    <3> QED BY <1>2, <3>2 DEF CalmAt, At, Is
  <2> QED BY <2>1, <2>2, <2>3
<1> QED BY <1>4, <1>5

LEMMA LoggedOutCalm ==
  ASSUME SessionInv, Calm, NEW r \in Request, LoggedOut(r)
  PROVE  \A s \in Request : CalmAt(s)'
<1>1. PICK R \in SUBSET Request : R = {r}
  OBVIOUS
<1>2. /\ req' = [x \in Request |-> IF x \in R THEN Idle ELSE req[x]]
      /\ cookie' = cookie /\ (page' = page \/ page' = "login") /\ live' \subseteq live
  BY <1>1 DEF LoggedOut, Settle
<1>3. AtWork(r) /\ ~req[r].bare /\ ~At(r, "fetched")
  BY DEF LoggedOut, AtWork, At, Is, SessionInv, ReqInv, Sound
<1>4. ASSUME NEW s \in Request \ R, At(s, "fetched") \/ (Is(s, "logout") /\ At(s, "sent"))
      PROVE  FALSE
  <2>1. AtWork(s) /\ s # r
    BY <1>1, <1>4 DEF AtWork, At, Is
  <2> QED BY <1>3, <2>1, Apart DEF Calm
<1> QED BY <1>2, <1>4, EndCalm

LEMMA OverCalm ==
  ASSUME Calm, NEW r \in Request, req' = [req EXCEPT ![r] = Idle], SessionInv,
         UNCHANGED <<clientVars, live, expired, revoked>>
  PROVE  \A s \in Request : CalmAt(s)'
<1>1. req'[r] = Idle /\ \A x \in Request \ {r} : req'[x] = req[x]
  BY DEF SessionInv, ClientTyped
<1>2. CalmAt(r)'
  BY <1>1, IdleIs DEF CalmAt, At, Is
<1> QED BY <1>1, <1>2, OneCalm DEF clientVars

LEMMA UserCalm ==
  ASSUME SessionInv, Calm, NEW r \in Request, Api(r) \/ Chat(r) \/ Logout(r) \/ Login(r)
  PROVE  \A s \in Request : CalmAt(s)'
<1> USE DEF SessionInv, ClientTyped
<1>1. /\ UNCHANGED <<cookie, access, live, expired, revoked>>
      /\ \/ page' = page
         \/ page' = "login"
      /\ \A x \in Request \ {r} : req'[x] = req[x]
  BY DEF Api, Chat, Logout, Login, Caused, clientVars, serverVars
<1>2. CASE Api(r) \/ Logout(r) \/ Login(r)
  <2>1. PICK k \in {"api", "logout", "login"} :
          req'[r] = Send(k, FALSE, access) /\ (k = "logout" => page' = "login")
    BY <1>2 DEF Api, Logout, Login
  <2>2. req'[r].kind = k /\ req'[r].pc = "sent" /\ ~req'[r].again
    BY <2>1 DEF Send, Idle
  <2> QED BY <1>1, <2>1, <2>2, OneCalm DEF CalmAt, At, Is
<1>3. CASE Chat(r) /\ req' = [req EXCEPT ![r] = Exchange("chat", FALSE, FALSE, cookie)]
  <2>1. req'[r].kind = "chat" /\ req'[r].pc = "asked" /\ req'[r].given = cookie
    BY <1>3 DEF Exchange, Idle
  <2> QED BY <1>1, <2>1, OneCalm DEF CalmAt, At, Is
<1>4. CASE Chat(r) /\ access # NoToken /\ access \notin expired /\ req' = [req EXCEPT ![r] = Fetch(access)]
  <2>1. req'[r].kind = "chat" /\ req'[r].pc = "fetched" /\ req'[r].bearer = access
    BY <1>4 DEF Fetch, Idle
  <2>2. Good(access)'
    BY <1>1, <1>4 DEF Good, PageInv
  <2> QED BY <1>1, <2>1, <2>2, OneCalm DEF CalmAt, At, Is
<1> QED BY <1>2, <1>3, <1>4 DEF Chat

LEMMA EndsCalm ==
  ASSUME Calm, AccessExpires \/ SessionEnds
  PROVE  \A s \in Request : CalmAt(s)'
<1>1. CASE AccessExpires
  <2>1. /\ UNCHANGED <<cookie, page, req, live, revoked>>
        /\ \A r \in Request : At(r, "fetched") \/ req[r].again =>
             (req[r].bearer \in expired' => req[r].bearer \in expired)
    BY <1>1 DEF AccessExpires, clientVars
  <2> QED BY <2>1 DEF Calm, CalmAt, At, Is, Good
<1>2. CASE SessionEnds
  BY <1>2 DEF SessionEnds, clientVars, Calm, CalmAt, At, Is, Good
<1> QED BY <1>1, <1>2

LEMMA NextCalm ==
  ASSUME SessionInv, Calm, Next, failures' = failures, failures \in Nat
  PROVE  \A s \in Request : CalmAt(s)'
<1>1. ASSUME NEW r \in Request, Progress(r) PROVE \A s \in Request : CalmAt(s)'
  <2>1. CASE Verify(r)
    BY <2>1, VerifyCalm
  <2>2. CASE Rotate(r) \/ LoginRight(r)
    BY <2>2, IssueCalm DEF Rotate, LoginRight
  <2>3. CASE LoginWrong(r) \/ Denied(r)
    BY <2>3, InterceptCalm DEF LoginWrong, Denied
  <2>4. CASE BareSucceeds(r)
    BY <2>4, BareSucceedsCalm
  <2>5. CASE BareDenied(r)
    BY <2>5, GiveUpCalm DEF BareDenied
  <2>6. CASE Renewed(r) \/ LoggedIn(r)
    BY <2>6, RenewedCalm
  <2>7. CASE Unauthorized(r)
    BY <2>7, InterceptCalm, RejectCalm DEF Unauthorized
  <2>8. CASE Answered(r) \/ Streams(r)
    BY <2>8, OverCalm DEF Answered, Streams, serverVars
  <2>9. CASE LoggedOut(r)
    BY <2>9, LoggedOutCalm
  <2>10. CASE ChatRefused(r)
    BY <2>10, RejectCalm DEF ChatRefused
  <2> QED BY <1>1, <2>1, <2>2, <2>3, <2>4, <2>5, <2>6, <2>7, <2>8, <2>9, <2>10 DEF Progress
<1>2. CASE \E r \in Request : Api(r) \/ Chat(r) \/ Logout(r) \/ Login(r)
  BY <1>2, UserCalm
<1>3. \A r \in Request : ~Fails(r)
  BY DEF Fails
<1>4. CASE AccessExpires \/ SessionEnds
  BY <1>4, EndsCalm
<1> QED BY <1>1, <1>2, <1>3, <1>4 DEF Next

-----------------------------------------------------------------------------
(* The session after a logout                                               *)

LEMMA LoadAnewOut ==
  ASSUME NEW r \in Request, LoadAnew(r), cookie \notin live
  PROVE  Out'
<1>1. PICK e : e = Exchange("init", FALSE, FALSE, cookie)
  OBVIOUS
<1>2. e.kind = "init" /\ e.pc = "asked" /\ e.given = cookie
  BY <1>1 DEF Exchange, Idle
<1>3. /\ access' = NoToken /\ cookie' = cookie /\ live' \subseteq live
      /\ \A s \in Request : req'[s] = IF s = r THEN e ELSE Idle
  BY <1>1 DEF LoadAnew
<1> QED BY <1>2, <1>3, IdleIs DEF Out, OutAt, At, Is

LEMMA EndOut ==
  ASSUME NEW R \in SUBSET Request, \A s \in Request \ R : OutAt(s),
         req' = [x \in Request |-> IF x \in R THEN Idle ELSE req[x]],
         cookie' = cookie, cookie \notin live', access' = NoToken, live' \subseteq live
  PROVE  Out'
<1>1. \A s \in Request : req'[s] = IF s \in R THEN Idle ELSE req[s]
  OBVIOUS
<1>2. ASSUME NEW s \in Request PROVE OutAt(s)'
  BY <1>1, IdleIs DEF OutAt, At, Is
<1> QED BY <1>2 DEF Out

LEMMA OneOut ==
  ASSUME Out, NEW r \in Request, \A x \in Request \ {r} : req'[x] = req[x],
         cookie' = cookie, access' = access, cookie \notin live',
         \A s \in Request : At(s, "asked") => req[s].given \notin live',
         OutAt(r)'
  PROVE  Out'
<1>1. ASSUME NEW s \in Request, s # r PROVE OutAt(s)'
  BY <1>1 DEF Out, OutAt, At, Is
<1> QED BY <1>1 DEF Out

LEMMA SettleOut ==
  ASSUME Out, NEW r \in Request, Settle({r}), live' \subseteq live
  PROVE  Out'
<1>1. PICK R \in SUBSET Request : R = {r}
  OBVIOUS
<1>2. /\ req' = [x \in Request |-> IF x \in R THEN Idle ELSE req[x]]
      /\ cookie' = cookie /\ access' = NoToken
  BY <1>1 DEF Settle, Out
<1> QED BY <1>2, EndOut DEF Out

LEMMA RejectOut ==
  ASSUME Out, NEW r \in Request, Reject(r)
  PROVE  Out'
<1>1. CASE Is(r, "chat") /\ page = "app"
  BY <1>1, LoadAnewOut DEF Reject, Out
<1>2. CASE ~(Is(r, "chat") /\ page = "app")
  BY <1>2, SettleOut DEF Reject
<1> QED BY <1>1, <1>2

LEMMA InterceptOut ==
  ASSUME Out, SessionInv, NEW r \in Request, Intercept(r)
  PROVE  Out'
<1> USE DEF SessionInv, ClientTyped
<1>1. CASE req[r].again
  BY <1>1, RejectOut DEF Intercept
<1>2. CASE ~req[r].again /\ refreshing
  <2>1. req'[r].pc = "queued" /\ \A x \in Request \ {r} : req'[x] = req[x]
    BY <1>2 DEF Intercept, Idle
  <2>2. UNCHANGED <<cookie, access, live>>
    BY <1>2 DEF Intercept, clientVars
  <2>3. OutAt(r)'
    BY <2>1 DEF OutAt, At
  <2> QED BY <2>1, <2>2, <2>3, OneOut DEF Out, OutAt
<1>3. CASE ~req[r].again /\ ~refreshing
  <2>1. PICK q : q = Exchange(req[r].kind, TRUE, TRUE, cookie)
    OBVIOUS
  <2>2. q.pc = "asked" /\ q.given = cookie
    BY <2>1 DEF Exchange, Idle
  <2>3. req' = [req EXCEPT ![r] = q] /\ UNCHANGED <<cookie, access, live>>
    BY <1>3, <2>1 DEF Intercept
  <2>4. req'[r] = q /\ \A x \in Request \ {r} : req'[x] = req[x]
    BY <2>3
  <2>5. OutAt(r)'
    BY <2>2, <2>3, <2>4 DEF Out, OutAt, At
  <2> QED BY <2>3, <2>4, <2>5, OneOut DEF Out, OutAt
<1> QED BY <1>1, <1>2, <1>3

LEMMA GiveUpOut ==
  ASSUME Out, NEW r \in Request, GiveUp(r)
  PROVE  Out'
<1>1. CASE page = "app"
  BY <1>1, LoadAnewOut DEF GiveUp, Out
<1>2. CASE page # "app"
  <2>1. PICK R \in SUBSET Request : R = Queue \cup {r}
    BY DEF Queue
  <2>2. /\ req' = [x \in Request |-> IF x \in R THEN Idle ELSE req[x]]
        /\ access' = NoToken /\ UNCHANGED <<cookie, live>>
    BY <1>2, <2>1 DEF GiveUp
  <2> QED BY <2>2, EndOut DEF Out
<1> QED BY <1>1, <1>2

LEMMA OverOut ==
  ASSUME Out, SessionInv, NEW r \in Request, req' = [req EXCEPT ![r] = Idle],
         UNCHANGED <<clientVars, live>>
  PROVE  Out'
<1>1. req'[r] = Idle /\ \A x \in Request \ {r} : req'[x] = req[x]
  BY DEF SessionInv, ClientTyped
<1>2. OutAt(r)'
  BY <1>1, IdleIs DEF OutAt, At
<1> QED BY <1>1, <1>2, OneOut DEF Out, OutAt, clientVars

LEMMA IssueOut ==
  ASSUME Out, SessionInv, NEW r \in Request, Is(r, "login"), At(r, "sent"), Issue(r)
  PROVE  Out'
<1> USE DEF SessionInv, ClientTyped, clientVars
<1>1. PICK n : n = NewPair
  OBVIOUS
<1>2. n # cookie /\ \A s \in Request : n # req[s].given
  BY <1>1, PairIsNew DEF ReqInv, Sound, At, HeldRefresh
<1>3. req' = [req EXCEPT ![r].pc = "renewed", ![r].new = n]
  BY <1>1 DEF Issue
<1>4. \A x \in Request \ {r} : req'[x] = req[x]
  BY <1>3
<1>5. req'[r].pc = "renewed" /\ req'[r].kind = req[r].kind /\ req'[r].bare = req[r].bare
  BY <1>3 DEF RequestRecord
<1>6. live' \subseteq live \cup {n} /\ UNCHANGED <<cookie, access>>
  BY <1>1 DEF Issue
<1>7. OutAt(r)'
  BY <1>5 DEF OutAt, At, Is, ReqInv, Sound
<1>8. cookie \notin live' /\ \A s \in Request : At(s, "asked") => req[s].given \notin live'
  BY <1>2, <1>6 DEF Out, OutAt
<1> QED BY <1>4, <1>6, <1>7, <1>8, OneOut

LEMMA UserOut ==
  ASSUME Out, SessionInv, NEW r \in Request, Api(r) \/ Chat(r) \/ Logout(r) \/ Login(r)
  PROVE  Out'
<1> USE DEF SessionInv, ClientTyped
<1>1. Login(r)
  BY DEF Api, Chat, Logout, PageInv, Out
<1>2. UNCHANGED <<cookie, access, live>> /\ req' = [req EXCEPT ![r] = Send("login", FALSE, access)]
  BY <1>1 DEF Login, Caused, clientVars, serverVars
<1>3. req'[r].pc = "sent" /\ \A x \in Request \ {r} : req'[x] = req[x]
  BY <1>2 DEF Send, Idle
<1>4. OutAt(r)'
  BY <1>3 DEF OutAt, At
<1> QED BY <1>2, <1>3, <1>4, OneOut DEF Out, OutAt

\* It stays so until the user has logged in.
LEMMA OutStays ==
  ASSUME Out, SessionInv, Next,
         ~\E r \in Request : At(r, "renewed") /\ Is(r, "login") /\ Is(r, "init")'
  PROVE  Out'
<1>1. ASSUME NEW r \in Request, Progress(r) PROVE Out'
  <2>1. CASE Verify(r)
    <3>1. /\ req' = [req EXCEPT ![r].pc = "denied"] /\ UNCHANGED <<cookie, access, live>>
      BY <2>1 DEF Verify, clientVars, serverVars, Out, OutAt
    <3>2. req'[r].pc = "denied" /\ \A x \in Request \ {r} : req'[x] = req[x]
      BY <3>1 DEF SessionInv, ClientTyped, RequestRecord
    <3>3. OutAt(r)'
      BY <3>2 DEF OutAt, At
    <3> QED BY <3>1, <3>2, <3>3, OneOut DEF Out, OutAt
  <2>2. CASE Rotate(r) \/ LoginRight(r)
    BY <2>2, IssueOut DEF Rotate, LoginRight, Out, OutAt
  <2>3. CASE LoginWrong(r) \/ Denied(r)
    BY <2>3, InterceptOut DEF LoginWrong, Denied
  <2>4. ~BareSucceeds(r) /\ ~Renewed(r)
    BY DEF BareSucceeds, Renewed, Out, OutAt, Is
  <2>5. CASE BareDenied(r)
    BY <2>5, GiveUpOut DEF BareDenied
  <2>6. CASE LoggedIn(r)
    <3>1. At(r, "renewed") /\ Is(r, "login") /\ req'[r] = Exchange("init", FALSE, FALSE, req[r].new)
      BY <2>6 DEF LoggedIn, SessionInv, ClientTyped
    <3>2. req'[r].kind = "init"
      BY <3>1 DEF Exchange, Idle
    <3> QED BY <3>1, <3>2 DEF Is
  <2>7. CASE Unauthorized(r)
    BY <2>7, InterceptOut, RejectOut DEF Unauthorized
  <2>8. CASE Answered(r) \/ Streams(r)
    BY <2>8, OverOut DEF Answered, Streams, serverVars
  <2>9. CASE LoggedOut(r)
    BY <2>9, SettleOut DEF LoggedOut
  <2>10. CASE ChatRefused(r)
    BY <2>10, RejectOut DEF ChatRefused
  <2> QED BY <1>1, <2>1, <2>2, <2>3, <2>4, <2>5, <2>6, <2>7, <2>8, <2>9, <2>10 DEF Progress
<1>2. CASE \E r \in Request : Api(r) \/ Chat(r) \/ Logout(r) \/ Login(r)
  BY <1>2, UserOut
<1>3. ASSUME NEW r \in Request, Fails(r) PROVE Out'
  BY <1>3, GiveUpOut, OverOut, RejectOut DEF Fails
<1>4. CASE AccessExpires \/ SessionEnds
  BY <1>4 DEF AccessExpires, SessionEnds, clientVars, Out, OutAt, At, Is
<1> QED BY <1>1, <1>2, <1>3, <1>4 DEF Next

LEMMA OthersStay ==
  ASSUME SessionInv, NEW r \in Request, Reject(r) \/ Intercept(r), ~Is(r, "chat") \/ page # "app"
  PROVE  \A s \in Request \ {r} : req'[s] = req[s]
<1>1. CASE Reject(r)
  BY <1>1 DEF Reject, Settle
<1>2. CASE Intercept(r)
  BY <1>2 DEF Intercept, Reject, Settle, SessionInv, ClientTyped
<1> QED BY <1>1, <1>2

\* A logout that nothing came between ends so.
LEMMA OutBegins ==
  ASSUME SessionInv, Calm, Next, failures' = failures, failures \in Nat,
         NEW x \in Request, Is(x, "logout"), ~Is(x, "logout")'
  PROVE  Out'
<1> USE DEF SessionInv, ClientTyped
<1>1. page = "login" /\ CalmAt(x)
  BY DEF Calm, CalmAt
<1>2. req'[x] # req[x] /\ req'[x].kind # "logout" /\ req[x].kind = "logout"
  BY DEF Is
<1>3. ASSUME NEW r \in Request, Progress(r) PROVE Out'
  <2>1. ~Verify(r)
    BY <1>2 DEF Verify, RequestRecord
  <2>2. ~Rotate(r) /\ ~LoginRight(r)
    <3>1. ASSUME Issue(r) PROVE FALSE
      <4>1. PICK n : n = NewPair
        OBVIOUS
      <4>2. req' = [req EXCEPT ![r].pc = "renewed", ![r].new = n]
        BY <3>1, <4>1 DEF Issue
      <4>3. req'[x].kind = req[x].kind
        BY <4>2 DEF RequestRecord
      <4> QED BY <1>2, <4>3
    <3> QED BY <3>1 DEF Rotate, LoginRight
  <2>3. ~LoginWrong(r) /\ ~Denied(r)
    <3>1. ASSUME LoginWrong(r) \/ Denied(r) PROVE FALSE
      <4>1. x # r /\ Intercept(r)
        BY <1>2, <3>1 DEF LoginWrong, Denied, ReqInv, Sound, At, Is
      <4> QED BY <1>1, <1>2, <4>1, OthersStay
    <3> QED BY <3>1
  <2>4. ~BareSucceeds(r)
    <3>1. ASSUME BareSucceeds(r) PROVE FALSE
      <4>1. PICK t, R : req'[x] = IF x \in R THEN Resend(req[x], t) ELSE req[x]
        BY <3>1 DEF BareSucceeds
      <4>2. Resend(req[x], t).kind = "logout"
        BY <1>2 DEF Resend, Send, Idle
      <4> QED BY <1>2, <4>1, <4>2
    <3> QED BY <3>1
  <2>5. CASE BareDenied(r)
    <3>1. PICK R \in SUBSET Request : R = Queue \cup {r}
      BY DEF Queue
    <3>2. /\ req' = [y \in Request |-> IF y \in R THEN Idle ELSE req[y]]
          /\ access' = NoToken /\ UNCHANGED <<cookie, live>>
      BY <1>1, <2>5, <3>1 DEF BareDenied, GiveUp
    <3>3. cookie \notin live'
      BY <2>5, <3>2 DEF BareDenied, Calm, CalmAt
    <3>4. ASSUME NEW s \in Request \ R PROVE OutAt(s)
      <4>1. s # r /\ req[r].bare /\ AtWork(r) /\ ~req[s].bare
        BY <2>5, <3>1, <3>4 DEF BareDenied, AtWork, Refresh, At, BareInv
      <4>2. ~Refresh(s)
        BY <4>1, Apart DEF Calm, AtWork, Refresh, At
      <4> QED BY <4>2 DEF OutAt, Refresh, At
    <3> QED BY <3>2, <3>3, <3>4, EndOut
  <2>6. ~Renewed(r) /\ ~LoggedIn(r)
    BY <1>2 DEF Renewed, LoggedIn, Is
  <2>7. ~Unauthorized(r)
    <3>1. ASSUME Unauthorized(r) PROVE FALSE
      <4>1. x = r
        BY <1>1, <1>2, <3>1, OthersStay DEF Unauthorized
      <4>2. Intercept(r) /\ ~req[r].again
        BY <1>1, <1>2, <3>1, <4>1 DEF Unauthorized, ReqInv, Sound, At, Is, CalmAt
      <4>3. req'[r].kind = req[r].kind
        BY <4>2 DEF Intercept, Exchange, Idle
      <4> QED BY <1>2, <4>1, <4>3
    <3> QED BY <3>1
  <2>8. ~Answered(r) /\ ~Streams(r)
    BY <1>2 DEF Answered, Streams, ReqInv, Sound, At, Is
  <2>9. CASE LoggedOut(r)
    <3>1. PICK R \in SUBSET Request : R = {r}
      OBVIOUS
    <3>2. /\ req' = [y \in Request |-> IF y \in R THEN Idle ELSE req[y]]
          /\ cookie' = cookie /\ live' = {}
      BY <2>9, <3>1 DEF LoggedOut, Settle
    <3>3. access' = NoToken
      <4>1. "logout" \in {req[y].kind : y \in {r}}
        BY <2>9 DEF LoggedOut, Is
      <4> QED BY <2>9, <4>1 DEF LoggedOut, Settle
    <3>4. ASSUME NEW s \in Request \ R PROVE OutAt(s)
      <4>1. s # r /\ ~req[r].bare /\ ~At(r, "fetched") /\ AtWork(r)
        BY <2>9, <3>1, <3>4 DEF LoggedOut, AtWork, At, Is, ReqInv, Sound
      <4>2. ~Refresh(s)
        BY <4>1, Apart DEF Calm, AtWork
      <4> QED BY <4>2 DEF OutAt, Refresh, At
    <3> QED BY <3>2, <3>3, <3>4, EndOut
  <2>10. ~ChatRefused(r)
    <3>1. ASSUME ChatRefused(r) PROVE FALSE
      <4>1. x # r /\ Reject(r)
        BY <1>2, <3>1 DEF ChatRefused, ReqInv, Sound, At, Is
      <4> QED BY <1>1, <1>2, <4>1, OthersStay
    <3> QED BY <3>1
  <2> QED BY <1>3, <2>1, <2>2, <2>3, <2>4, <2>5, <2>6, <2>7, <2>8, <2>9, <2>10 DEF Progress
<1>4. ASSUME NEW r \in Request PROVE ~Api(r) /\ ~Chat(r) /\ ~Logout(r) /\ ~Login(r)
  BY <1>2 DEF Api, Chat, Logout, Login, Caused, ReqInv, Sound, At
<1>5. \A r \in Request : ~Fails(r)
  BY DEF Fails
<1>6. ~AccessExpires /\ ~SessionEnds
  BY <1>2 DEF AccessExpires, SessionEnds
<1> QED BY <1>3, <1>4, <1>5, <1>6 DEF Next

\* The login page is not loaded while the session goes on.
LEMMA PageStays ==
  ASSUME SessionInv, Calm, Next, failures' = failures, failures \in Nat,
         page = "app", page' = "login", cookie \in live
  PROVE  \E r \in Request : Is(r, "logout")'
<1> USE DEF SessionInv, ClientTyped
<1>1. \A r \in Request : ~Is(r, "logout") /\ CalmAt(r)
  BY DEF Calm, CalmAt
<1>2. ASSUME NEW r \in Request, Reject(r) \/ Intercept(r), req[r].kind \in {"api", "login"}
      PROVE  FALSE
  <2>1. ~Settle({r})
    <3>1. {req[x].kind : x \in {r}} \cap {"init", "logout"} = {}
      BY <1>2
    <3> QED BY <3>1 DEF Settle
  <2>2. ~Reject(r)
    BY <1>2, <2>1 DEF Reject, Is
  <2> QED BY <1>2, <2>2 DEF Intercept, clientVars
<1>3. ASSUME NEW r \in Request, Progress(r) PROVE FALSE
  <2>1. ~Verify(r) /\ ~Rotate(r) /\ ~LoginRight(r)
    BY DEF Verify, Rotate, LoginRight, Issue, clientVars
  <2>2. ~LoginWrong(r)
    BY <1>2 DEF LoginWrong, Is
  <2>3. ~Denied(r) /\ ~BareDenied(r)
    BY <1>1 DEF Denied, BareDenied, CalmAt
  <2>4. ~BareSucceeds(r) /\ ~Renewed(r) /\ ~LoggedIn(r)
    BY DEF BareSucceeds, Renewed, LoggedIn
  <2>5. ~Unauthorized(r)
    BY <1>1, <1>2 DEF Unauthorized, Is
  <2>6. ~Answered(r) /\ ~Streams(r) /\ ~LoggedOut(r)
    BY <1>1 DEF Answered, Streams, LoggedOut, clientVars
  <2>7. ~ChatRefused(r)
    BY <1>1 DEF ChatRefused, CalmAt
  <2> QED BY <1>3, <2>1, <2>2, <2>3, <2>4, <2>5, <2>6, <2>7 DEF Progress
<1>4. ASSUME NEW r \in Request, Api(r) \/ Chat(r) \/ Logout(r) \/ Login(r)
      PROVE  Is(r, "logout")'
  <2>1. Logout(r)
    BY <1>4 DEF Api, Chat, Login, clientVars
  <2>2. req'[r] = Send("logout", FALSE, access)
    BY <2>1 DEF Logout
  <2> QED BY <2>2 DEF Is, Send, Idle
<1>5. \A r \in Request : ~Fails(r)
  BY DEF Fails
<1>6. ~AccessExpires /\ ~SessionEnds
  BY DEF AccessExpires, SessionEnds, clientVars
<1> QED BY <1>3, <1>4, <1>5, <1>6 DEF Next

-----------------------------------------------------------------------------
(* The session: theorems                                                    *)

LEMMA NextNotices ==
  ASSUME Next, CountTyped
  PROVE  Notice /\ CountTyped'
<1>1. Notice
  BY DEF Next, Progress
<1>2. disturbed' \in BOOLEAN /\ out' \in BOOLEAN
  BY <1>1 DEF Notice, CountTyped
<1>3. ASSUME NEW r \in Request, Progress(r) PROVE UNCHANGED <<starts, failures, ends>>
  BY <1>3 DEF Progress, Verify, Rotate, LoginRight, LoginWrong, BareSucceeds, BareDenied, Renewed,
              Denied, LoggedIn, Unauthorized, Answered, LoggedOut, Streams, ChatRefused, Issue, boundVars
<1>4. ASSUME NEW r \in Request, Api(r) \/ Chat(r) \/ Logout(r) \/ Login(r)
      PROVE  starts' = starts + 1 /\ UNCHANGED <<failures, ends>>
  BY <1>4 DEF Api, Chat, Logout, Login, Caused
<1>5. ASSUME NEW r \in Request, Fails(r)
      PROVE  failures' = failures + 1 /\ UNCHANGED <<starts, ends>>
  BY <1>5 DEF Fails
<1>6. AccessExpires \/ SessionEnds => ends' = ends + 1 /\ UNCHANGED <<starts, failures>>
  BY DEF AccessExpires, SessionEnds, TokensEnd
<1>7. starts' \in Nat /\ failures' \in Nat /\ ends' \in Nat
  BY <1>3, <1>4, <1>5, <1>6 DEF Next, CountTyped
<1> QED BY <1>1, <1>2, <1>7 DEF CountTyped

LEMMA WebStep ==
  ASSUME WebInv, [Next]_vars
  PROVE  WebInv'
<1>1. CASE Next
  <2>1. SessionInv' /\ Notice /\ CountTyped'
    BY <1>1, NextKeeps, NextNotices DEF WebInv
  <2>2. (disturbed \/ Calm) /\ failures \in Nat
    BY DEF WebInv, CountTyped
  <2>3. ASSUME ~disturbed' PROVE Calm'
    <3>1. Calm /\ ~Meeting' /\ failures' = failures
      BY <2>1, <2>2, <2>3, Persists DEF WebInv
    <3>2. \A s \in Request : CalmAt(s)'
      BY <1>1, <2>2, <3>1, NextCalm DEF WebInv
    <3> QED BY <3>1, <3>2 DEF Calm
  <2>4. ASSUME out' PROVE Out'
    <3>1. /\ ~\E r \in Request : At(r, "renewed") /\ Is(r, "login") /\ Is(r, "init")'
          /\ \/ out
             \/ ~disturbed' /\ \E r \in Request : Is(r, "logout") /\ ~Is(r, "logout")'
      BY <2>1, <2>4 DEF Notice
    <3>2. CASE out
      BY <1>1, <3>1, <3>2, OutStays DEF WebInv, OutInv
    <3>3. CASE ~disturbed' /\ \E r \in Request : Is(r, "logout") /\ ~Is(r, "logout")'
      <4>1. Calm /\ failures' = failures
        BY <2>1, <2>2, <3>3, Persists DEF WebInv
      <4> QED BY <1>1, <2>2, <3>3, <4>1, OutBegins DEF WebInv
    <3> QED BY <3>1, <3>2, <3>3
  <2> QED BY <2>1, <2>3, <2>4 DEF WebInv, OutInv
<1>2. CASE UNCHANGED vars
  <2>1. UNCHANGED <<cookie, access, refreshing, page, auth, req, live, expired, revoked,
                    starts, failures, ends, disturbed, out>>
    BY <1>2 DEF vars, clientVars, serverVars, boundVars
  <2>2. SessionInv' /\ CountTyped'
    BY <2>1 DEF WebInv, SessionInv, ClientTyped, CountTyped, BareInv, PageInv, ReqInv, NewInv, At
  <2>3. Meeting' <=> Meeting
    BY <2>1 DEF Meeting, AtWork, Refresh, At
  <2>4. disturbed' \/ Calm'
    BY <2>1, <2>3 DEF WebInv, Calm, CalmAt, At, Is, Good
  <2>5. OutInv'
    BY <2>1 DEF WebInv, OutInv, Out, OutAt, At, Is
  <2> QED BY <2>2, <2>4, <2>5 DEF WebInv
<1> QED BY <1>1, <1>2

LEMMA WebStarts ==
  ASSUME Init
  PROVE  WebInv
<1>1. SessionInv
  BY InitKeeps
<1>2. disturbed \in BOOLEAN /\ (disturbed <=> Meeting)
  BY DEF Init, Meeting
<1>3. out = FALSE /\ starts = 0 /\ failures = 0 /\ ends = 0
  BY DEF Init
<1>4. PICK e : e = Exchange("init", FALSE, FALSE, cookie)
  OBVIOUS
<1>5. e.kind = "init" /\ e.pc = "asked" /\ e.given = cookie
  BY <1>4 DEF Exchange, Idle
<1>6. \A r \in Request : req[r] = Idle \/ req[r] = e
  BY <1>4 DEF Init
<1>7. \A r \in Request : CalmAt(r)
  BY <1>5, <1>6, IdleIs DEF CalmAt, At, Is
<1> QED BY <1>1, <1>2, <1>3, <1>7 DEF WebInv, CountTyped, OutInv, Calm

\* A step of the client is one of the session, or leaves the session as it is.
LEMMA SessionStep ==
  ASSUME [ClientNext]_<<part, vars, pageVars>>
  PROVE  [Next]_vars
  BY DEF ClientNext

(* The session's invariant holds for any number of requests, of errors and  *)
(* of ends of tokens.                                                       *)
THEOREM SessionInvariant == ClientSpec => []WebInv
<1>1. ClientInit => WebInv
  BY WebStarts DEF ClientInit
<1>2. WebInv /\ [ClientNext]_<<part, vars, pageVars>> => WebInv'
  BY WebStep, SessionStep
<1> QED BY <1>1, <1>2, PTL DEF ClientSpec

(* The tab's tokens, its requests and the server's lists keep their types.  *)
THEOREM SessionTypeCorrect == ClientSpec => []TypeOK
<1>1. WebInv => TypeOK
  BY DEF WebInv, SessionInv, ClientTyped, CountTyped, RequestRecord, TypeOK
<1> QED BY <1>1, SessionInvariant, PTL

(* After a logout that nothing came between, the tab has no access token    *)
(* and the cookie is worth nothing until the user logs in again: init and   *)
(* logout of store/authStore.ts and the interceptor of services/api.ts.     *)
THEOREM LogoutIsLasting == ClientSpec => []LoggedOutStays
<1>1. WebInv => LoggedOutStays
  BY DEF WebInv, OutInv, Out, LoggedOutStays
<1> QED BY <1>1, SessionInvariant, PTL

(* The tab is led to the login page while its session could have gone on    *)
(* only when two exchanges met or the network failed: the interceptor of    *)
(* services/api.ts alone never loses a session.                             *)
THEOREM SessionIsKept == ClientSpec => LoginPageUnlessDisturbed
<1>1. ASSUME WebInv, [Next]_vars
      PROVE  [page = "app" /\ page' = "login" /\ cookie \in live =>
                disturbed' \/ \E r \in Request : Is(r, "logout")']_vars
  <2>1. SUFFICES ASSUME Next, page = "app", page' = "login", cookie \in live, ~disturbed'
                 PROVE  \E r \in Request : Is(r, "logout")'
    BY <1>1
  <2>2. Calm /\ failures' = failures /\ failures \in Nat
    BY <1>1, <2>1, NextNotices, Persists DEF WebInv, CountTyped
  <2> QED BY <1>1, <2>1, <2>2, PageStays DEF WebInv
<1>2. WebInv /\ [ClientNext]_<<part, vars, pageVars>> =>
        [page = "app" /\ page' = "login" /\ cookie \in live =>
           disturbed' \/ \E r \in Request : Is(r, "logout")']_vars
  BY <1>1, SessionStep
<1> QED BY <1>2, SessionInvariant, PTL DEF ClientSpec, LoginPageUnlessDisturbed

-----------------------------------------------------------------------------
(* The pages: the inductive invariant                                       *)

CallRecord ==
  [kind : {"none", "show", "upload", "delete", "settings", "switch"},
   pc : {"idle", "list", "sent", "rejected", "answered", "listed", "providers", "active", "told"},
   name : Doc \cup Provider \cup {Nothing}, server : Server \cup {Nothing},
   from : Server \cup {Nothing}, list : SUBSET Doc, told : Provider \cup {Nothing}]

PagesTyped ==
  /\ op \in [Op -> CallRecord]
  /\ active \in [Server -> Provider \cup {Nothing}]
  /\ shows \in {"newest", "older", "reordered", "unasked"}

\* A switch, unless its process has moved on, is what its process has, or had
\* when it told the call.
SwitchInv(o) ==
  op[o].kind = "switch" =>
    /\ op[o].name \in Provider \cup {Nothing}
    /\ op[o].pc \in {"answered", "providers", "active", "told"} =>
         /\ op[o].server \in Server
         /\ o \notin overtaken =>
              /\ op[o].pc # "told" => active[op[o].server] = op[o].name
              /\ op[o].pc = "told" /\ op[o].from = op[o].server => op[o].told = op[o].name

\* A call that has changed a document, and has not yet shown the list after it.
Pending(o) ==
  /\ op[o].kind \in {"upload", "delete"}
  /\ op[o].pc \in {"answered", "list", "listed"}
  /\ op[o].pc = "listed" => o \in since

\* What the page shows, and what the calls are about to show.
ListInv ==
  /\ \A o \in since : o \in Op /\ op[o].pc = "listed" /\ op[o].list = Page!Listed
  /\ shows = "newest" => documents = Page!Listed
  /\ shows = "older" => \E o \in Op : Pending(o)

PagesInv == PagesTyped /\ ListInv /\ \A o \in Op : SwitchInv(o)

LEMMA NoCall ==
  /\ Page!Idle \in CallRecord
  /\ Page!Idle.kind = "none" /\ Page!Idle.pc = "idle"
  BY DEF Page!Idle, CallRecord

\* The list depends on which documents are there and when they were created.
LEMMA ListedKept ==
  ASSUME created' = created, \A d \in Doc : stored'[d] = "there" <=> stored[d] = "there"
  PROVE  Page!Listed' = Page!Listed
<1>1. \A d \in Doc : {e \in Doc : stored'[e] = "there" /\ d \in created'[e]}
                       = {e \in Doc : stored[e] = "there" /\ d \in created[e]}
  OBVIOUS
<1> QED BY <1>1 DEF Page!Listed

-----------------------------------------------------------------------------
(* The pages: a step of one call                                            *)

\* A call changes to c: the types, and the switches of the others.
LEMMA CallKeeps ==
  ASSUME PagesInv, NEW o \in Op, NEW c \in CallRecord, op' = [op EXCEPT ![o] = c],
         active' \in [Server -> Provider \cup {Nothing}],
         \A x \in Op \ {o} : x \notin overtaken' =>
           /\ x \notin overtaken
           /\ op[x].server \in Server /\ op[x].pc # "told" =>
                active'[op[x].server] = active[op[x].server],
         shows' \in {"newest", "older", "reordered", "unasked"},
         SwitchInv(o)', ListInv'
  PROVE  PagesInv'
<1> USE DEF PagesInv, PagesTyped
<1>1. op'[o] = c /\ \A x \in Op \ {o} : op'[x] = op[x]
  OBVIOUS
<1>2. ASSUME NEW x \in Op, x # o PROVE SwitchInv(x)'
  <2>1. op'[x] = op[x] /\ SwitchInv(x)
    BY <1>1, <1>2
  <2> QED BY <1>2, <2>1 DEF SwitchInv
<1> QED BY <1>1, <1>2

\* A call that is not about to show a list goes on to c, which is not either.
LEMMA ListKeeps ==
  ASSUME PagesInv, NEW o \in Op, NEW c \in CallRecord, op' = [op EXCEPT ![o] = c],
         op[o].pc # "listed", Pending(o) => Pending(o)',
         Page!Listed' = Page!Listed, UNCHANGED <<documents, since, shows>>
  PROVE  ListInv'
<1> USE DEF PagesInv, PagesTyped, ListInv
<1>1. op'[o] = c /\ \A x \in Op \ {o} : op'[x] = op[x]
  OBVIOUS
<1>2. o \notin since
  OBVIOUS
<1>3. PICK l : l = Page!Listed
  OBVIOUS
<1>4. Page!Listed' = l /\ \A x \in since : x \in Op /\ op[x].pc = "listed" /\ op[x].list = l
  BY <1>3
<1>5. \A x \in since' : x \in Op /\ op'[x].pc = "listed" /\ op'[x].list = l
  BY <1>1, <1>2, <1>4
<1>6. ASSUME NEW x \in Op, Pending(x) PROVE Pending(x)'
  <2>1. CASE x = o
    BY <1>6, <2>1
  <2>2. CASE x # o
    BY <1>1, <1>6, <2>2 DEF Pending
  <2> QED BY <2>1, <2>2
<1>7. shows' = "newest" => documents' = l
  BY <1>3
<1>8. shows' = "older" => \E x \in Op : Pending(x)'
  BY <1>6
<1> QED BY <1>4, <1>5, <1>7, <1>8

\* The same with the server left alone.
LEMMA CallMoves ==
  ASSUME PagesInv, NEW o \in Op, NEW c \in CallRecord, op' = [op EXCEPT ![o] = c],
         op[o].pc # "listed", Pending(o) => Pending(o)',
         UNCHANGED <<documents, stored, created, since, shows, active>>,
         overtaken' = overtaken \/ overtaken' = overtaken \ {o},
         SwitchInv(o)'
  PROVE  PagesInv'
<1>1. Page!Listed' = Page!Listed
  BY ListedKept
<1>2. ListInv'
  BY <1>1, ListKeeps
<1>3. \A x \in Op \ {o} : x \notin overtaken' => x \notin overtaken
  OBVIOUS
<1> QED BY <1>2, <1>3, CallKeeps DEF PagesInv, PagesTyped

LEMMA BeginKeeps ==
  ASSUME PagesInv, NEW o \in Op, NEW k \in {"show", "upload", "delete", "settings", "switch"},
         NEW l \in {"list", "sent", "providers"}, NEW n \in Doc \cup Provider \cup {Nothing},
         k = "switch" => l = "sent" /\ n \in Provider \cup {Nothing},
         Page!Begin(o, k, l, n),
         UNCHANGED <<documents, stored, created, since, shows, active, overtaken>>
  PROVE  PagesInv'
<1>1. PICK c : c = [Page!Idle EXCEPT !.kind = k, !.pc = l, !.name = n]
  OBVIOUS
<1>2. c = [kind |-> k, pc |-> l, name |-> n, server |-> Nothing, from |-> Nothing,
           list |-> {}, told |-> Nothing]
  BY <1>1 DEF Page!Idle
<1>3. c \in CallRecord /\ c.kind = k /\ c.pc = l /\ c.name = n
  BY <1>2 DEF CallRecord
<1>4. op' = [op EXCEPT ![o] = c] /\ op[o].pc = "idle"
  BY <1>1 DEF Page!Begin
<1>5. op'[o] = c
  BY <1>4 DEF PagesInv, PagesTyped
<1>6. SwitchInv(o)'
  BY <1>3, <1>5 DEF SwitchInv
<1>7. ~Pending(o)
  BY <1>4 DEF Pending
<1> QED BY <1>3, <1>4, <1>6, <1>7, CallMoves

\* What a call is when it has been rejected or is over.
LEMMA Rejected ==
  ASSUME PagesInv, NEW o \in Op, Page!Reject(o)
  PROVE  \E c \in CallRecord :
           op' = [op EXCEPT ![o] = c] /\ op'[o] = c /\ c.pc = "rejected" /\ SwitchInv(o)'
<1>1. PICK k : k = op[o].kind
  OBVIOUS
<1>2. PICK c : c = [Page!Idle EXCEPT !.kind = k, !.pc = "rejected"]
  OBVIOUS
<1>3. c = [kind |-> k, pc |-> "rejected", name |-> Nothing, server |-> Nothing,
           from |-> Nothing, list |-> {}, told |-> Nothing]
  BY <1>2 DEF Page!Idle
<1>4. k \in {"none", "show", "upload", "delete", "settings", "switch"}
  BY <1>1 DEF PagesInv, PagesTyped, CallRecord
<1>5. c \in CallRecord /\ c.pc = "rejected" /\ c.name = Nothing
  BY <1>3, <1>4 DEF CallRecord
<1>6. op' = [op EXCEPT ![o] = c]
  BY <1>1, <1>2 DEF Page!Reject
<1>7. op'[o] = c
  BY <1>6 DEF PagesInv, PagesTyped
<1>8. SwitchInv(o)'
  BY <1>5, <1>7 DEF SwitchInv
<1> QED BY <1>5, <1>6, <1>7, <1>8

LEMMA Over ==
  ASSUME PagesInv, NEW o \in Op, Page!End(o)
  PROVE  \E c \in CallRecord :
           op' = [op EXCEPT ![o] = c] /\ op'[o] = c /\ c.pc = "idle" /\ SwitchInv(o)'
<1>1. PICK c : c = Page!Idle
  OBVIOUS
<1>2. op' = [op EXCEPT ![o] = c] /\ c \in CallRecord /\ c.kind = "none" /\ c.pc = "idle"
  BY <1>1, NoCall DEF Page!End
<1>3. op'[o] = c
  BY <1>2 DEF PagesInv, PagesTyped
<1>4. SwitchInv(o)'
  BY <1>2, <1>3 DEF SwitchInv
<1> QED BY <1>2, <1>3, <1>4

\* A call with no list to show is rejected, or is over.
LEMMA GoneKeeps ==
  ASSUME PagesInv, NEW o \in Op, Page!Reject(o) \/ Page!End(o),
         op[o].pc # "listed", ~Pending(o),
         UNCHANGED <<documents, stored, created, since, shows, active>>,
         overtaken' = overtaken \/ overtaken' = overtaken \ {o}
  PROVE  PagesInv'
<1>1. PICK c \in CallRecord : op' = [op EXCEPT ![o] = c] /\ SwitchInv(o)'
  BY Rejected, Over
<1> QED BY <1>1, CallMoves

\* A call goes on to l, which tells nothing new of it.
LEMMA MoveKeeps ==
  ASSUME PagesInv, NEW o \in Op, NEW l \in {"list", "providers", "active"},
         Page!MoveTo(o, l),
         UNCHANGED <<documents, stored, created, since, shows, active, overtaken>>,
         \/ l = "list" /\ op[o].kind \in {"upload", "delete"} /\ op[o].pc = "answered"
         \/ l = "providers" /\ op[o].kind = "switch" /\ op[o].pc = "answered"
         \/ l = "active" /\ op[o].pc = "providers"
  PROVE  PagesInv'
<1>1. PICK c : c = [op[o] EXCEPT !.pc = l]
  OBVIOUS
<1>2. op[o] \in CallRecord /\ SwitchInv(o)
  BY DEF PagesInv, PagesTyped
<1>3. /\ c \in CallRecord /\ c.pc = l /\ c.kind = op[o].kind /\ c.name = op[o].name
      /\ c.server = op[o].server
  BY <1>1, <1>2 DEF CallRecord
<1>4. op' = [op EXCEPT ![o] = c]
  BY <1>1 DEF Page!MoveTo
<1>5. op'[o] = c
  BY <1>4 DEF PagesInv, PagesTyped
<1>6. SwitchInv(o)'
  BY <1>2, <1>3, <1>5 DEF SwitchInv
<1>7. Pending(o) => Pending(o)'
  BY <1>3, <1>5 DEF Pending
<1>8. op[o].pc # "listed"
  OBVIOUS
<1> QED BY <1>3, <1>4, <1>6, <1>7, <1>8, CallMoves

\* The documents have changed: no list read before is one of the newest.
LEMMA ChangedKeeps ==
  ASSUME PagesInv, NEW o \in Op, NEW c \in CallRecord, op' = [op EXCEPT ![o] = c],
         NEW l \in {"older", "unasked"}, Page!Change(l), l = "older" => Pending(o)',
         UNCHANGED <<active, overtaken>>, SwitchInv(o)'
  PROVE  PagesInv'
<1>1. since' = {} /\ shows' = l
  BY DEF Page!Change
<1>2. ListInv'
  BY <1>1 DEF ListInv
<1> QED BY <1>1, <1>2, CallKeeps DEF PagesInv, PagesTyped

LEMMA ServeUploadKeeps ==
  ASSUME PagesInv, NEW o \in Op, NEW d \in Doc, Page!ServeUpload(o, d)
  PROVE  PagesInv'
<1>1. op[o].kind = "upload" /\ op[o].pc = "sent" /\ UNCHANGED <<active, overtaken>>
  BY DEF Page!ServeUpload, Page!At, Page!settingVars
<1>2. CASE op' = [op EXCEPT ![o].pc = "answered", ![o].name = d] /\ Page!Change("older")
  <2>1. PICK c : c = [op[o] EXCEPT !.pc = "answered", !.name = d]
    OBVIOUS
  <2>2. c \in CallRecord /\ c.pc = "answered" /\ c.kind = op[o].kind
    BY <2>1, ZenonT(40) DEF CallRecord, PagesInv, PagesTyped
  <2>3. op' = [op EXCEPT ![o] = c] /\ op'[o] = c
    BY <1>2, <2>1 DEF PagesInv, PagesTyped
  <2>4. SwitchInv(o)' /\ Pending(o)'
    BY <1>1, <2>2, <2>3 DEF SwitchInv, Pending
  <2> QED BY <1>1, <1>2, <2>2, <2>3, <2>4, ChangedKeeps
<1>3. CASE Page!Reject(o) /\ Page!Change("unasked")
  <2>1. PICK c \in CallRecord : op' = [op EXCEPT ![o] = c] /\ SwitchInv(o)'
    BY <1>3, Rejected
  <2> QED BY <1>1, <1>3, <2>1, ChangedKeeps
<1> QED BY <1>2, <1>3 DEF Page!ServeUpload

LEMMA ServeDeleteKeeps ==
  ASSUME PagesInv, NEW o \in Op, Page!ServeDelete(o)
  PROVE  PagesInv'
<1>1. PICK d : d = op[o].name
  OBVIOUS
<1>2. /\ op[o].kind = "delete" /\ op[o].pc = "sent"
      /\ stored' = [stored EXCEPT ![d] = "gone"]
      /\ UNCHANGED <<active, overtaken, documents, created>>
  BY <1>1 DEF Page!ServeDelete, Page!At, Page!settingVars
<1>3. CASE stored[d] = "there"
  <2>1. Page!MoveTo(o, "answered") /\ Page!Change("older")
    BY <1>1, <1>3 DEF Page!ServeDelete
  <2>2. PICK c : c = [op[o] EXCEPT !.pc = "answered"]
    OBVIOUS
  <2>3. c \in CallRecord /\ c.pc = "answered" /\ c.kind = op[o].kind
    BY <2>2 DEF CallRecord, PagesInv, PagesTyped
  <2>4. op' = [op EXCEPT ![o] = c] /\ op'[o] = c
    BY <2>1, <2>2 DEF PagesInv, PagesTyped, Page!MoveTo
  <2>5. SwitchInv(o)' /\ Pending(o)'
    BY <1>2, <2>3, <2>4 DEF SwitchInv, Pending
  <2> QED BY <1>2, <2>1, <2>3, <2>4, <2>5, ChangedKeeps
<1>4. CASE stored[d] # "there"
  <2>1. Page!Reject(o) /\ UNCHANGED <<since, shows>>
    BY <1>1, <1>4 DEF Page!ServeDelete
  <2>2. PICK c \in CallRecord : op' = [op EXCEPT ![o] = c] /\ SwitchInv(o)'
    BY <2>1, Rejected
  <2>3. Page!Listed' = Page!Listed
    <3>1. \A e \in Doc : stored'[e] = "there" <=> stored[e] = "there"
      BY <1>2, <1>4
    <3> QED BY <1>2, <3>1, ListedKept
  <2>4. op[o].pc # "listed" /\ ~Pending(o)
    BY <1>2 DEF Pending
  <2>5. ListInv'
    BY <1>2, <2>1, <2>2, <2>3, <2>4, ListKeeps
  <2> QED BY <1>2, <2>1, <2>2, <2>5, CallKeeps DEF PagesInv, PagesTyped
<1> QED BY <1>3, <1>4

LEMMA ServeListKeeps ==
  ASSUME PagesInv, NEW o \in Op, Page!ServeList(o)
  PROVE  PagesInv'
<1> USE DEF PagesInv, PagesTyped
<1>1. PICK f : f = Page!Listed
  OBVIOUS
<1>2. f \subseteq Doc
  BY <1>1 DEF Page!Listed
<1>3. PICK c : c = [op[o] EXCEPT !.pc = "listed", !.list = f]
  OBVIOUS
<1>4. c \in CallRecord /\ c.pc = "listed" /\ c.kind = op[o].kind /\ c.name = op[o].name
  BY <1>2, <1>3, ZenonT(40) DEF CallRecord
<1>5. c.list = f
  BY <1>3, ZenonT(40) DEF CallRecord
<1>6. /\ op' = [op EXCEPT ![o].pc = "listed", ![o].list = f] /\ op[o].pc = "list"
      /\ since' = since \cup {o}
      /\ UNCHANGED <<documents, stored, created, shows, active, overtaken>>
  BY <1>1 DEF Page!ServeList, Page!settingVars
<1>7. op' = [op EXCEPT ![o] = c] /\ op'[o] = c /\ \A x \in Op \ {o} : op'[x] = op[x]
  BY <1>3, <1>6
<1>8. Page!Listed' = f
  BY <1>1, <1>6, ListedKept
<1>9. SwitchInv(o)'
  <2>1. SwitchInv(o)
    OBVIOUS
  <2> QED BY <2>1, <1>4, <1>6, <1>7 DEF SwitchInv
<1>10. \A x \in since' : x \in Op /\ op'[x].pc = "listed" /\ op'[x].list = f
  BY <1>1, <1>4, <1>5, <1>6, <1>7 DEF ListInv
<1>11. shows' = "newest" => documents' = f
  BY <1>1, <1>6 DEF ListInv
<1>12. ASSUME NEW x \in Op, Pending(x) PROVE Pending(x)'
  <2>1. CASE x = o
    BY <2>1, <1>4, <1>6, <1>7, <1>12 DEF Pending
  <2>2. CASE x # o
    BY <2>2, <1>6, <1>7, <1>12 DEF Pending
  <2> QED BY <2>1, <2>2
<1>13. shows' = "older" => \E x \in Op : Pending(x)'
  BY <1>6, <1>12 DEF ListInv
<1>14. ListInv'
  BY <1>8, <1>10, <1>11, <1>13 DEF ListInv
<1> QED BY <1>4, <1>6, <1>7, <1>9, <1>14, CallKeeps

\* The newest list is shown, or an older one; whoever waits for a list still does.
LEMMA TakeListKeeps ==
  ASSUME PagesInv, NEW o \in Op, Page!TakeList(o)
  PROVE  PagesInv'
<1> USE DEF PagesInv, PagesTyped
<1>1. /\ op[o].pc = "listed" /\ documents' = op[o].list /\ since' = since \ {o}
      /\ shows' = Page!Shown(o) /\ Page!End(o)
      /\ UNCHANGED <<stored, created, active, overtaken>>
  BY DEF Page!TakeList, Page!settingVars
<1>2. PICK c \in CallRecord :
        op' = [op EXCEPT ![o] = c] /\ op'[o] = c /\ c.pc = "idle" /\ SwitchInv(o)'
  BY <1>1, Over
<1>3. \A x \in Op \ {o} : op'[x] = op[x]
  BY <1>2
<1>4. PICK l : l = Page!Listed
  OBVIOUS
<1>5. Page!Listed' = l
  BY <1>1, <1>4, ListedKept
<1>6. \A x \in since' : x \in Op /\ op'[x].pc = "listed" /\ op'[x].list = l
  BY <1>1, <1>3, <1>4 DEF ListInv
<1>7. CASE o \in since
  <2>1. shows' = "newest" /\ documents' = l
    BY <1>1, <1>4, <1>7 DEF Page!Shown, ListInv
  <2>2. ListInv'
    BY <1>5, <1>6, <2>1 DEF ListInv
  <2> QED BY <1>1, <1>2, <2>1, <2>2, CallKeeps
<1>8. CASE o \notin since
  <2>1. /\ shows' \in {"newest", "older", "reordered", "unasked"} /\ shows' # "newest"
        /\ shows' = "older" => shows = "older"
    BY <1>1, <1>8 DEF Page!Shown
  <2>2. shows' = "older" => \E x \in Op : Pending(x)'
    <3>1. SUFFICES ASSUME shows = "older" PROVE \E x \in Op : Pending(x)'
      BY <2>1
    <3>2. PICK x \in Op : Pending(x)
      BY <3>1 DEF ListInv
    <3>3. x # o
      BY <1>1, <1>8, <3>2 DEF Pending
    <3>4. Pending(x)'
      BY <1>1, <1>3, <3>2, <3>3 DEF Pending
    <3> QED BY <3>4
  <2>3. ListInv'
    BY <1>5, <1>6, <2>1, <2>2 DEF ListInv
  <2> QED BY <1>1, <1>2, <2>1, <2>3, CallKeeps
<1> QED BY <1>7, <1>8

LEMMA FailKeeps ==
  ASSUME PagesInv, NEW o \in Op, Page!Fail(o)
  PROVE  PagesInv'
<1> USE DEF PagesInv, PagesTyped
<1>1. /\ Page!Reject(o) /\ overtaken' = overtaken \ {o}
      /\ UNCHANGED <<documents, stored, created, active>>
  BY DEF Page!Fail
<1>2. CASE op[o].pc = "sent"
  <2>1. UNCHANGED <<since, shows>> /\ op[o].pc # "listed" /\ ~Pending(o)
    BY <1>2 DEF Page!Fail, Pending
  <2> QED BY <1>1, <2>1, GoneKeeps
<1>3. CASE op[o].pc # "sent"
  <2>1. /\ since' = since \ {o}
        /\ shows' = IF shows = "older" /\ op[o].kind \in {"upload", "delete"} THEN "unasked" ELSE shows
    BY <1>3 DEF Page!Fail, Page!Forgo
  <2>2. PICK c \in CallRecord :
          op' = [op EXCEPT ![o] = c] /\ op'[o] = c /\ c.pc = "rejected" /\ SwitchInv(o)'
    BY <1>1, Rejected
  <2>3. \A x \in Op \ {o} : op'[x] = op[x]
    BY <2>2
  <2>4. PICK l : l = Page!Listed
    OBVIOUS
  <2>5. Page!Listed' = l
    BY <1>1, <2>4, ListedKept
  <2>6. \A x \in since' : x \in Op /\ op'[x].pc = "listed" /\ op'[x].list = l
    BY <2>1, <2>3, <2>4 DEF ListInv
  <2>7. shows' = "newest" => documents' = l
    BY <1>1, <2>1, <2>4 DEF ListInv
  <2>8. shows' = "older" => \E x \in Op : Pending(x)'
    <3>1. SUFFICES ASSUME shows' = "older" PROVE \E x \in Op : Pending(x)'
      OBVIOUS
    <3>2. shows = "older" /\ op[o].kind \notin {"upload", "delete"}
      BY <2>1, <3>1
    <3>3. PICK x \in Op : Pending(x)
      BY <3>2 DEF ListInv
    <3>4. x # o
      BY <3>2, <3>3 DEF Pending
    <3>5. Pending(x)'
      BY <2>1, <2>3, <3>3, <3>4 DEF Pending
    <3> QED BY <3>5
  <2>9. ListInv'
    BY <2>5, <2>6, <2>7, <2>8 DEF ListInv
  <2>10. shows' \in {"newest", "older", "reordered", "unasked"}
    BY <2>1
  <2> QED BY <1>1, <2>2, <2>9, <2>10, CallKeeps
<1> QED BY <1>2, <1>3

LEMMA ServeSwitchKeeps ==
  ASSUME PagesInv, NEW o \in Op, NEW p \in Server, Page!ServeSwitch(o, p)
  PROVE  PagesInv'
<1> USE DEF PagesInv, PagesTyped
<1>1. PICK c : c = [op[o] EXCEPT !.pc = "answered", !.server = p]
  OBVIOUS
<1>2. c \in CallRecord /\ c.pc = "answered" /\ c.kind = op[o].kind /\ c.name = op[o].name
      /\ c.server = p
  BY <1>1, ZenonT(40) DEF CallRecord
<1>3. /\ op' = [op EXCEPT ![o].pc = "answered", ![o].server = p] /\ op[o].kind = "switch"
      /\ op[o].pc = "sent" /\ active' = [active EXCEPT ![p] = op[o].name]
      /\ UNCHANGED <<documents, stored, created, since, shows>>
      /\ overtaken' = overtaken \cup {q \in Op : op[q].server = p /\ op[q].pc # "told"}
  BY DEF Page!ServeSwitch, Page!Overtake, Page!At, Page!documentVars
<1>4. op' = [op EXCEPT ![o] = c] /\ op'[o] = c
  BY <1>1, <1>3
<1>5. op[o].name \in Provider \cup {Nothing}
  BY <1>3 DEF SwitchInv
<1>6. active' \in [Server -> Provider \cup {Nothing}] /\ active'[p] = op[o].name
  BY <1>3, <1>5
<1>7. \A x \in Op \ {o} : x \notin overtaken' =>
        /\ x \notin overtaken
        /\ op[x].server \in Server /\ op[x].pc # "told" =>
             active'[op[x].server] = active[op[x].server]
  BY <1>3
<1>8. SwitchInv(o)'
  BY <1>2, <1>4, <1>5, <1>6 DEF SwitchInv
<1>9. op[o].pc # "listed" /\ ~Pending(o) /\ Page!Listed' = Page!Listed
  BY <1>3, ListedKept DEF Pending
<1>10. ListInv'
  BY <1>2, <1>3, <1>4, <1>9, ListKeeps
<1> QED BY <1>2, <1>3, <1>4, <1>6, <1>7, <1>8, <1>10, CallKeeps

\* A chat stream moves the provider of a process that no call that is told asks again.
LEMMA StreamMovesKeeps ==
  ASSUME PagesInv, NEW p \in Server, NEW n \in Provider, Page!StreamMoves(p, n)
  PROVE  PagesInv'
<1> USE DEF PagesInv, PagesTyped
<1>1. /\ active' = [active EXCEPT ![p] = n]
      /\ UNCHANGED <<documents, stored, created, since, shows, op>>
      /\ overtaken' = overtaken \cup {q \in Op : op[q].server = p /\ op[q].pc # "told"}
  BY DEF Page!StreamMoves, Page!Overtake, Page!documentVars
<1>2. Page!Listed' = Page!Listed
  BY <1>1, ListedKept
<1>3. ListInv'
  <2>1. \A x \in Op : Pending(x)' <=> Pending(x)
    BY <1>1 DEF Pending
  <2> QED BY <1>1, <1>2, <2>1 DEF ListInv
<1>4. ASSUME NEW x \in Op PROVE SwitchInv(x)'
  <2>1. SwitchInv(x) /\ op'[x] = op[x]
    BY <1>1
  <2>2. x \notin overtaken' =>
          x \notin overtaken /\ (op[x].server # p \/ op[x].pc = "told")
    BY <1>1
  <2>3. op[x].server \in Server /\ op[x].server # p => active'[op[x].server] = active[op[x].server]
    BY <1>1
  <2> QED BY <2>1, <2>2, <2>3 DEF SwitchInv
<1> QED BY <1>1, <1>3, <1>4

LEMMA ServeActiveKeeps ==
  ASSUME PagesInv, NEW o \in Op, NEW p \in Server, Page!ServeActive(o, p)
  PROVE  PagesInv'
<1> USE DEF PagesInv, PagesTyped
<1>1. PICK c : c = [op[o] EXCEPT !.pc = "told", !.from = p, !.told = active[p]]
  OBVIOUS
<1>2. /\ c \in CallRecord /\ c.pc = "told" /\ c.kind = op[o].kind /\ c.name = op[o].name
      /\ c.server = op[o].server /\ c.from = p /\ c.told = active[p]
  BY <1>1, ZenonT(40) DEF CallRecord
<1>3. /\ op' = [op EXCEPT ![o].pc = "told", ![o].from = p, ![o].told = active[p]]
      /\ op[o].pc = "active"
      /\ UNCHANGED <<documents, stored, created, since, shows, active, overtaken>>
  BY DEF Page!ServeActive, Page!documentVars, Page!settingVars
<1>4. op' = [op EXCEPT ![o] = c] /\ op'[o] = c
  BY <1>1, <1>3
<1>5. SwitchInv(o)'
  BY <1>2, <1>3, <1>4 DEF SwitchInv
<1>6. ~Pending(o)
  BY <1>3 DEF Pending
<1> QED BY <1>2, <1>3, <1>4, <1>5, <1>6, CallMoves

-----------------------------------------------------------------------------
(* The pages: every step                                                    *)

LEMMA DocumentsKeep ==
  ASSUME PagesInv, Page!DocumentsNext
  PROVE  PagesInv'
<1> USE DEF Page!documentVars, Page!settingVars
<1>1. PICK o \in Op :
        \/ Page!ShowDocuments(o) \/ Page!Upload(o) \/ (\E d \in Doc : Page!DeleteDocument(o, d))
        \/ Page!RefuseUpload(o) \/ (\E d \in Doc : Page!ServeUpload(o, d)) \/ Page!ServeDelete(o)
        \/ Page!Confirmed(o) \/ Page!ServeList(o) \/ Page!TakeList(o)
        \/ Page!Fail(o) \/ Page!TakeError(o)
  BY Zenon DEF Page!DocumentsNext
<1>2. CASE Page!ShowDocuments(o) \/ Page!Upload(o)
  BY <1>2, BeginKeeps DEF Page!ShowDocuments, Page!Upload
<1>3. ASSUME NEW d \in Doc, Page!DeleteDocument(o, d) PROVE PagesInv'
  BY <1>3, BeginKeeps DEF Page!DeleteDocument
<1>4. CASE Page!RefuseUpload(o)
  <2>1. op[o].pc # "listed" /\ ~Pending(o)
    BY <1>4 DEF Page!RefuseUpload, Page!At, Pending
  <2> QED BY <1>4, <2>1, GoneKeeps DEF Page!RefuseUpload
<1>5. ASSUME NEW d \in Doc, Page!ServeUpload(o, d) PROVE PagesInv'
  BY <1>5, ServeUploadKeeps
<1>6. CASE Page!ServeDelete(o)
  BY <1>6, ServeDeleteKeeps
<1>7. CASE Page!Confirmed(o)
  BY <1>7, MoveKeeps DEF Page!Confirmed, Page!At
<1>8. CASE Page!ServeList(o)
  BY <1>8, ServeListKeeps
<1>9. CASE Page!TakeList(o)
  BY <1>9, TakeListKeeps
<1>10. CASE Page!Fail(o)
  BY <1>10, FailKeeps
<1>11. CASE Page!TakeError(o)
  <2>1. op[o].pc # "listed" /\ ~Pending(o)
    BY <1>11 DEF Page!TakeError, Pending
  <2> QED BY <1>11, <2>1, GoneKeeps DEF Page!TakeError
<1> QED BY <1>1, <1>2, <1>3, <1>4, <1>5, <1>6, <1>7, <1>8, <1>9, <1>10, <1>11

LEMMA SettingsKeep ==
  ASSUME PagesInv, Page!SettingsNext
  PROVE  PagesInv'
<1> USE DEF Page!documentVars, Page!settingVars
<1>1. CASE \E p \in Server, n \in Provider : Page!StreamMoves(p, n)
  BY <1>1, StreamMovesKeeps
<1>2. ASSUME NEW o \in Op, Page!ShowProviders(o) PROVE PagesInv'
  BY <1>2, BeginKeeps DEF Page!ShowProviders
<1>3. ASSUME NEW o \in Op, NEW n \in Provider, Page!SwitchProvider(o, n) PROVE PagesInv'
  <2>1. PICK m : m = IF n = activeProvider THEN Nothing ELSE n
    OBVIOUS
  <2>2. /\ Page!Begin(o, "switch", "sent", m)
        /\ UNCHANGED <<documents, stored, created, since, shows, active, overtaken>>
    BY <1>3, <2>1 DEF Page!SwitchProvider
  <2>3. m \in Provider \cup {Nothing}
    BY <2>1
  <2> QED BY <2>2, <2>3, BeginKeeps
<1>4. ASSUME NEW o \in Op, Page!Switched(o) PROVE PagesInv'
  BY <1>4, MoveKeeps DEF Page!Switched, Page!At
<1>5. ASSUME NEW o \in Op, Page!ServeProviders(o) PROVE PagesInv'
  BY <1>5, MoveKeeps DEF Page!ServeProviders
<1>6. ASSUME NEW o \in Op, Page!Fail(o) PROVE PagesInv'
  BY <1>6, FailKeeps
<1>7. ASSUME NEW o \in Op, Page!TakeActive(o) PROVE PagesInv'
  <2>1. op[o].pc # "listed" /\ ~Pending(o)
    BY <1>7 DEF Page!TakeActive, Pending
  <2> QED BY <1>7, <2>1, GoneKeeps DEF Page!TakeActive
<1>8. ASSUME NEW o \in Op, Page!TakeError(o) PROVE PagesInv'
  <2>1. op[o].pc # "listed" /\ ~Pending(o)
    BY <1>8 DEF Page!TakeError, Pending
  <2> QED BY <1>8, <2>1, GoneKeeps DEF Page!TakeError
<1>9. ASSUME NEW o \in Op, NEW p \in Server, Page!ServeSwitch(o, p) PROVE PagesInv'
  BY <1>9, ServeSwitchKeeps
<1>10. ASSUME NEW o \in Op, NEW p \in Server, Page!ServeActive(o, p) PROVE PagesInv'
  BY <1>10, ServeActiveKeeps
<1> QED BY <1>1, <1>2, <1>3, <1>4, <1>5, <1>6, <1>7, <1>8, <1>9, <1>10 DEF Page!SettingsNext

LEMMA PagesStart ==
  ASSUME ClientInit
  PROVE  PagesInv
<1>1. /\ op = [o \in Op |-> Page!Idle] /\ active \in [Server -> {Nothing}]
      /\ since = {} /\ shows = "unasked"
  BY DEF ClientInit, Page!PagesInit
<1>2. PagesTyped /\ ListInv
  BY <1>1, NoCall DEF PagesTyped, ListInv
<1>3. ASSUME NEW o \in Op PROVE SwitchInv(o)
  <2>1. op[o].kind = "none"
    BY <1>1, NoCall
  <2> QED BY <2>1 DEF SwitchInv
<1> QED BY <1>2, <1>3 DEF PagesInv

LEMMA PagesStep ==
  ASSUME PagesInv, [ClientNext]_<<part, vars, pageVars>>
  PROVE  PagesInv'
<1>1. CASE UNCHANGED pageVars
  <2>1. /\ UNCHANGED <<documents, op, active, since, shows, overtaken>>
        /\ Page!Listed' = Page!Listed
    BY <1>1, ListedKept DEF pageVars
  <2>2. \A x \in Op : (Pending(x)' <=> Pending(x)) /\ (SwitchInv(x)' <=> SwitchInv(x))
    BY <2>1 DEF Pending, SwitchInv
  <2> QED BY <2>1, <2>2 DEF PagesInv, PagesTyped, ListInv
<1>2. CASE Page!DocumentsNext
  BY <1>2, DocumentsKeep
<1>3. CASE Page!SettingsNext
  BY <1>3, SettingsKeep
<1> QED BY <1>1, <1>2, <1>3 DEF ClientNext

\* A call that is over after it was told has just taken what it was told.
LEMMA CallEnds ==
  ASSUME PagesInv, Page!DocumentsNext \/ Page!SettingsNext, NEW o \in Op,
         op[o].pc = "told", op'[o].pc = "idle"
  PROVE  activeProvider' = op[o].told
<1> USE DEF PagesInv, PagesTyped, Page!At
<1>1. CASE Page!TakeActive(o)
  BY <1>1 DEF Page!TakeActive
<1>2. ~Page!Fail(o)
  <2>1. SUFFICES ASSUME Page!Reject(o) PROVE FALSE
    BY DEF Page!Fail
  <2> QED BY <2>1, Rejected
<1>3. \A x \in Op : (x = o \/ op'[o] # op[o]) =>
        /\ ~Page!ShowDocuments(x) /\ ~Page!Upload(x) /\ ~Page!RefuseUpload(x)
        /\ ~Page!ServeDelete(x) /\ ~Page!Confirmed(x) /\ ~Page!ServeList(x) /\ ~Page!TakeList(x)
        /\ ~Page!ShowProviders(x) /\ ~Page!Switched(x) /\ ~Page!ServeProviders(x)
        /\ ~Page!TakeError(x)
  BY DEF Page!ShowDocuments, Page!Upload, Page!RefuseUpload, Page!ServeDelete, Page!Confirmed,
         Page!ServeList, Page!TakeList, Page!ShowProviders, Page!Switched, Page!ServeProviders,
         Page!TakeError, Page!Begin, Page!MoveTo, Page!Reject, Page!End
<1>4. \A x \in Op, d \in Doc : ~Page!DeleteDocument(x, d) /\ ~Page!ServeUpload(x, d)
  BY DEF Page!DeleteDocument, Page!ServeUpload, Page!Begin, Page!Reject
<1>5. \A x \in Op, n \in Provider : ~Page!SwitchProvider(x, n)
  BY DEF Page!SwitchProvider, Page!Begin
<1>6. \A x \in Op, p \in Server : ~Page!ServeSwitch(x, p) /\ ~Page!ServeActive(x, p)
  BY DEF Page!ServeSwitch, Page!ServeActive
<1>7. op'[o] # op[o]
  OBVIOUS
<1>8. \A x \in Op \ {o} : ~Page!TakeActive(x) /\ ~Page!Fail(x)
  BY <1>7 DEF Page!TakeActive, Page!Fail, Page!End, Page!Reject
<1>9. \A p \in Server, n \in Provider : ~Page!StreamMoves(p, n)
  BY <1>7 DEF Page!StreamMoves
<1> QED BY <1>1, <1>2, <1>3, <1>4, <1>5, <1>6, <1>7, <1>8, <1>9 DEF Page!DocumentsNext, Page!SettingsNext

-----------------------------------------------------------------------------
(* The pages: theorems                                                      *)

(* The pages' invariant holds for any number of calls, documents, providers *)
(* and processes, and any length of the list: what the page is said to show *)
(* it shows, whoever is to fetch a list after a change does, and a switch   *)
(* whose process has not moved on is what that process has.                 *)
THEOREM PagesInvariant == ClientSpec => []PagesInv
<1>1. ClientInit => PagesInv
  BY PagesStart
<1>2. PagesInv /\ [ClientNext]_<<part, vars, pageVars>> => PagesInv'
  BY PagesStep
<1> QED BY <1>1, <1>2, PTL DEF ClientSpec

\* What a step of the client is for the pages.
LEMMA PagesMove ==
  ASSUME [ClientNext]_<<part, vars, pageVars>>
  PROVE  Page!DocumentsNext \/ Page!SettingsNext \/ UNCHANGED Page!pageVars
  BY DEF ClientNext, pageVars, Page!pageVars, Page!documentVars, Page!settingVars

(* When no call is under way the page shows the newest documents that the   *)
(* server has, unless an older list came last, or the call of the last      *)
(* change was rejected: upload and deleteDocument of store/documentStore.ts *)
(* fetch the list after their own change.                                   *)
THEOREM NewestIsShown == ClientSpec => []NewestAtRest
<1>1. PagesInv => NewestAtRest
  <2>1. SUFFICES ASSUME PagesInv, \A o \in Op : op[o].pc = "idle"
                 PROVE  documents = Page!Listed \/ shows \in {"reordered", "unasked"}
    BY DEF NewestAtRest, Page!NewestAtRest
  <2>2. \A o \in Op : ~Pending(o)
    BY <2>1 DEF Pending
  <2> QED BY <2>1, <2>2 DEF PagesInv, PagesTyped, ListInv
<1> QED BY <1>1, PagesInvariant, PTL

(* A switch ends with the provider that it named shown as the active one,   *)
(* unless another process was asked than the one that was told, or that one *)
(* had been told another since, or had moved on in a chat stream:           *)
(* switchProvider of store/settingsStore.ts beside llm/router.py:103.       *)
THEOREM SwitchesAreShown == ClientSpec => SwitchIsShown
<1>1. ASSUME PagesInv, [ClientNext]_<<part, vars, pageVars>>
      PROVE  [\A o \in Op : Page!At(o, {"switch"}, "told") /\ op'[o].pc = "idle" =>
                \/ activeProvider' = op[o].name
                \/ op[o].from # op[o].server
                \/ o \in overtaken]_(Page!pageVars)
  <2>1. SUFFICES ASSUME Page!DocumentsNext \/ Page!SettingsNext, NEW o \in Op,
                        Page!At(o, {"switch"}, "told"), op'[o].pc = "idle"
                 PROVE  \/ activeProvider' = op[o].name
                        \/ op[o].from # op[o].server
                        \/ o \in overtaken
    BY <1>1, PagesMove
  <2>2. activeProvider' = op[o].told
    BY <1>1, <2>1, CallEnds DEF Page!At
  <2> QED BY <1>1, <2>1, <2>2 DEF Page!At, PagesInv, SwitchInv
<1>2. PagesInv /\ [ClientNext]_<<part, vars, pageVars>> =>
        [\A o \in Op : Page!At(o, {"switch"}, "told") /\ op'[o].pc = "idle" =>
           \/ activeProvider' = op[o].name
           \/ op[o].from # op[o].server
           \/ o \in overtaken]_(Page!pageVars)
  BY <1>1
<1> QED BY <1>2, PagesInvariant, PTL DEF ClientSpec, SwitchIsShown, Page!SwitchIsShown

-----------------------------------------------------------------------------
(* The chat: the inductive invariant                                        *)

\* c[k] is how much of the answer the first k events carry.
Carried(q, c) ==
  /\ c[0] = 0 /\ c[Len(events[q])] = Len(sent[q])
  /\ \A k \in 1..Len(events[q]) :
       LET e == events[q][k] IN
       IF e.kind = "token" THEN c[k - 1] <= c[k] /\ e.text = SubSeq(answer[q], c[k - 1] + 1, c[k])
       ELSE c[k] = c[k - 1]

\* A question that is still being answered: no error has been read.
Live(q) ==
  fetch[q] = "auth" \/ (fetch[q] = "open" /\ \A k \in 1..read[q] : events[q][k].kind # "error")

\* A stream's events are the answer's beginning in pieces, and its bubble shows
\* those that were read; an error is the last event.
StreamInv(q) ==
  /\ Len(sent[q]) <= Len(answer[q]) /\ Len(answer[q]) - Len(sent[q]) < BufferSize
  /\ \A k \in 1..Len(events[q]) :
       events[q][k].kind = "error" => k = Len(events[q]) /\ state[q] = "failed"
  /\ \E c \in [0..Len(events[q]) -> 0..Len(sent[q])] :
       Carried(q, c) /\ (Live(q) => LastOf(sess[q]).text = SubSeq(answer[q], 1, c[read[q]]))

\* The bubble of a question that is still being answered is the last of its
\* session, and no other question is.
FetchInv(q) ==
  /\ fetch[q] \in {"none", "auth"} => read[q] = 0
  /\ fetch[q] = "complete" => state[q] \in Ended
  /\ Live(q) =>
       /\ streaming /\ sess[q] \in Session /\ shown[sess[q]] # <<>>
       /\ LastOf(sess[q]).of = q /\ LastOf(sess[q]).role = "assistant" /\ ~LastOf(sess[q]).error
       /\ \A o \in Question : Live(o) => o = q

Prefix(t, a) == Len(t) <= Len(a) /\ t = SubSeq(a, 1, Len(t))

BubbleInv(s, i) ==
  LET b == shown[s][i]
      q == b.of
  IN b.role = "assistant" =>
       /\ fetch[q] # "none"
       /\ Live(q) => s = sess[q] /\ i = Len(shown[s])
       /\ fetch[q] = "open" /\ ~Live(q) => b.error
       /\ ~b.error => /\ Prefix(b.text, answer[q])
                      /\ fetch[q] = "complete" => Len(answer[q]) - Len(b.text) < BufferSize

TabInv ==
  /\ TabTypeOK
  /\ \A q \in Question : StreamInv(q) /\ FetchInv(q)
  /\ \A s \in Session : \A i \in 1..Len(shown[s]) : BubbleInv(s, i)

-----------------------------------------------------------------------------
(* The chat: answers and their parts                                        *)

Extends(a, b) == b = a \/ \E x \in 1..MaxTokens : b = Append(a, x)

LEMMA ExtendedParts ==
  ASSUME NEW a \in Text, NEW b, Extends(a, b)
  PROVE  /\ b \in Text /\ Len(b) >= Len(a)
         /\ \A i \in Nat \ {0}, j \in 0..Len(a) : SubSeq(b, i, j) = SubSeq(a, i, j)
<1> USE DEF Text
<1>1. CASE b = a
  BY <1>1
<1>2. CASE \E x \in 1..MaxTokens : b = Append(a, x)
  <2>1. PICK len : len = Len(a) /\ len \in Nat
    OBVIOUS
  <2>2. b \in Text /\ Len(b) = len + 1 /\ \A i \in 1..len : b[i] = a[i]
    BY <1>2, <2>1, AppendProperties
  <2>3. ASSUME NEW i \in Nat \ {0}, NEW j \in 0..len
        PROVE  SubSeq(b, i, j) = SubSeq(a, i, j)
    <3>1. \A k \in i..j : k \in 1..len /\ k \in 1..(len + 1)
      BY <2>1
    <3>2. \A k \in i..j : a[k] \in 1..MaxTokens /\ b[k] \in 1..MaxTokens /\ a[k] = b[k]
      <4>1. \A k \in 1..len : a[k] \in 1..MaxTokens
        BY <2>1, ElementOfSeq
      <4> QED BY <2>2, <3>1, <4>1
    <3>3. PICK u, v : u = SubSeq(a, i, j) /\ v = SubSeq(b, i, j)
      OBVIOUS
    <3>4. /\ u \in Seq(1..MaxTokens) /\ Len(u) = (IF i <= j THEN j - i + 1 ELSE 0)
          /\ \A k \in 1..(j - i + 1) : u[k] = a[i + k - 1]
      BY <3>2, <3>3, SubSeqProperties
    <3>5. /\ v \in Seq(1..MaxTokens) /\ Len(v) = (IF i <= j THEN j - i + 1 ELSE 0)
          /\ \A k \in 1..(j - i + 1) : v[k] = b[i + k - 1]
      BY <3>2, <3>3, SubSeqProperties
    <3>6. ASSUME NEW k \in 1..Len(u)
          PROVE  u[k] = v[k]
      <4>1. k \in 1..(j - i + 1) /\ i + k - 1 \in i..j
        BY <3>4
      <4> QED BY <3>2, <3>4, <3>5, <4>1
    <3>7. u = v
      BY <3>4, <3>5, <3>6, SeqEqual
    <3> QED BY <3>3, <3>7
  <2> QED BY <2>1, <2>2, <2>3
<1> QED BY <1>1, <1>2 DEF Extends

LEMMA Parts ==
  ASSUME NEW a \in Text, NEW m \in 0..Len(a), NEW n \in m..Len(a)
  PROVE  /\ SubSeq(a, m + 1, n) \in Text
         /\ SubSeq(a, 1, m) \in Text /\ Len(SubSeq(a, 1, m)) = m
         /\ SubSeq(a, 1, m) \o SubSeq(a, m + 1, n) = SubSeq(a, 1, n)
<1>1. PICK len : len = Len(a) /\ len \in Nat /\ a \in Seq(1..MaxTokens)
  BY DEF Text
<1>2. /\ m \in Int /\ n \in Int /\ m + 1 \in Int /\ 1 \in Int
      /\ (\A i \in 1..m : i \in 1..len) /\ (\A i \in (m + 1)..n : i \in 1..len)
      /\ (IF 1 <= m THEN m - 1 + 1 ELSE 0) = m
  BY <1>1
<1>3. \A i \in 1..len : a[i] \in 1..MaxTokens
  BY <1>1, ElementOfSeq
<1>4. SubSeq(a, 1, m) \in Text /\ Len(SubSeq(a, 1, m)) = IF 1 <= m THEN m - 1 + 1 ELSE 0
  <2>1. \A i \in 1..m : a[i] \in 1..MaxTokens
    BY <1>2, <1>3
  <2> QED BY <1>2, <2>1, SubSeqProperties DEF Text
<1>5. SubSeq(a, m + 1, n) \in Text
  <2>1. \A i \in (m + 1)..n : a[i] \in 1..MaxTokens
    BY <1>2, <1>3
  <2> QED BY <1>2, <2>1, SubSeqProperties DEF Text
<1>6. 1 \in 1..(len + 1) /\ m \in (1 - 1)..len /\ n \in m..len
  BY <1>1
<1>7. SubSeq(a, 1, m) \o SubSeq(a, m + 1, n) = SubSeq(a, 1, n)
  BY <1>1, <1>6, ConcatAdjacentSubSeq
<1> QED BY <1>2, <1>4, <1>5, <1>7

LEMMA PrefixKept ==
  ASSUME NEW a \in Text, NEW b, Extends(a, b), NEW t \in Text, Prefix(t, a)
  PROVE  Prefix(t, b)
<1>1. Len(t) \in 0..Len(a) /\ Len(a) \in Nat
  BY DEF Prefix, Text
<1>2. /\ b \in Text /\ Len(b) >= Len(a)
      /\ \A i \in Nat \ {0}, j \in 0..Len(a) : SubSeq(b, i, j) = SubSeq(a, i, j)
  BY ExtendedParts
<1>3. SubSeq(b, 1, Len(t)) = SubSeq(a, 1, Len(t))
  BY <1>1, <1>2
<1>4. Len(b) \in Nat
  BY <1>2 DEF Text
<1> QED BY <1>1, <1>2, <1>3, <1>4 DEF Prefix

-----------------------------------------------------------------------------
(* A stream's own steps                                                     *)

\* What they do: the answer grows, and at most one event is added.
StreamGoes(q) ==
  /\ state[q] \notin Ended
  /\ \A o \in Question \ {q} :
       /\ state'[o] = state[o] /\ answer'[o] = answer[o]
       /\ sent'[o] = sent[o] /\ events'[o] = events[o]
  /\ Extends(answer[q], answer'[q])
  /\ \/ /\ sent'[q] = sent[q] /\ events'[q] = events[q]
        /\ Len(answer'[q]) - Len(sent[q]) < BufferSize
     \/ /\ sent'[q] = answer'[q]
        /\ events'[q] = Append(events[q],
             [kind |-> "token", text |-> SubSeq(answer'[q], Len(sent[q]) + 1, Len(answer'[q]))])
     \/ /\ sent'[q] = sent[q] /\ answer'[q] = answer[q]
        /\ \E k \in {"done", "error"} :
             /\ events'[q] = Append(events[q], [kind |-> k, text |-> <<>>])
             /\ k = "error" => state'[q] = "failed"

LEMMA FlowGoes ==
  ASSUME TabTypeOK, \A o \in Question : StreamInv(o), NEW q \in Question, Flow(q) \/ Leave(q)
  PROVE  StreamGoes(q) /\ StreamTypeOK'
<1>1. /\ DOMAIN state = Question /\ DOMAIN answer = Question
      /\ DOMAIN sent = Question /\ DOMAIN events = Question
      /\ answer[q] \in Text /\ sent[q] \in Text /\ events[q] \in Seq(Event)
      /\ StreamTypeOK
  BY DEF TabTypeOK, StreamTypeOK
<1>2. Len(answer[q]) \in Nat /\ Len(sent[q]) \in Nat /\ MaxTokens \in Nat /\ <<>> \in Text
      /\ BufferSize \in Nat
  BY <1>1, BufferAssumption DEF Text
<1>3. Len(sent[q]) <= Len(answer[q]) /\ Len(answer[q]) - Len(sent[q]) < BufferSize
  BY DEF StreamInv
<1>4. CASE Grow(q)
  <2>1. PICK a : a = Append(answer[q], Len(answer[q]) + 1)
    OBVIOUS
  <2>2. /\ state[q] = "open" /\ Len(answer[q]) < MaxTokens /\ state' = state
        /\ answer' = [answer EXCEPT ![q] = a]
        /\ \/ /\ Len(a) - Len(sent[q]) < BufferSize
              /\ UNCHANGED <<sent, events>>
           \/ /\ Emit(q, "token", SubSeq(a, Len(sent[q]) + 1, Len(a)))
              /\ sent' = [sent EXCEPT ![q] = a]
    BY <1>4, <2>1 DEF Grow
  <2>3. Len(answer[q]) + 1 \in 1..MaxTokens
    BY <1>2, <2>2
  <2>4. Extends(answer[q], a)
    BY <2>1, <2>3 DEF Extends
  <2>5. a \in Text /\ Len(a) >= Len(answer[q])
    BY <1>1, <2>4, ExtendedParts
  <2>6. Len(a) \in Nat
    BY <2>5 DEF Text
  <2>7. SubSeq(a, Len(sent[q]) + 1, Len(a)) \in Text
    <3>1. Len(sent[q]) \in 0..Len(a) /\ Len(a) \in Len(sent[q])..Len(a)
      BY <1>2, <1>3, <2>5, <2>6
    <3> QED BY <2>5, <3>1, Parts
  <2>8. PICK t : t = SubSeq(a, Len(sent[q]) + 1, Len(a)) /\ t \in Text
    BY <2>7
  <2>9. [kind |-> "token", text |-> t] \in Event
    BY <2>8 DEF Event
  <2>10. CASE UNCHANGED <<sent, events>> /\ Len(a) - Len(sent[q]) < BufferSize
    BY <1>1, <2>2, <2>4, <2>5, <2>10 DEF StreamGoes, StreamTypeOK, Ended
  <2>11. CASE Emit(q, "token", t) /\ sent' = [sent EXCEPT ![q] = a]
    <3>1. events' = [events EXCEPT ![q] = Append(@, [kind |-> "token", text |-> t])]
      BY <2>11 DEF Emit
    <3>2. Append(events[q], [kind |-> "token", text |-> t]) \in Seq(Event)
      BY <1>1, <2>9, AppendProperties
    <3>3. StreamTypeOK'
      BY <1>1, <2>2, <2>5, <2>11, <3>1, <3>2 DEF StreamTypeOK
    <3>4. /\ events'[q] = Append(events[q], [kind |-> "token", text |-> t])
          /\ answer'[q] = a /\ sent'[q] = a
          /\ \A o \in Question \ {q} : /\ state'[o] = state[o] /\ answer'[o] = answer[o]
                                       /\ sent'[o] = sent[o] /\ events'[o] = events[o]
      BY <1>1, <2>2, <2>11, <3>1
    <3> QED BY <2>2, <2>4, <2>8, <3>3, <3>4 DEF StreamGoes, Ended
  <2> QED BY <2>2, <2>8, <2>10, <2>11
<1>5. ASSUME NEW k \in {"done", "error"}, NEW l \in {"closing", "done", "failed"},
             Emit(q, k, <<>>), Goto(q, l), state[q] \notin Ended, UNCHANGED <<answer, sent>>,
             k = "error" => l = "failed"
      PROVE  StreamGoes(q) /\ StreamTypeOK'
  <2>1. events' = [events EXCEPT ![q] = Append(@, [kind |-> k, text |-> <<>>])]
    BY <1>5 DEF Emit
  <2>2. [kind |-> k, text |-> <<>>] \in Event
    BY <1>2 DEF Event
  <2>3. Append(events[q], [kind |-> k, text |-> <<>>]) \in Seq(Event)
    BY <1>1, <2>2, AppendProperties
  <2>4. StreamTypeOK'
    BY <1>1, <1>5, <2>1, <2>3 DEF StreamTypeOK, Goto, Ended
  <2>5. /\ events'[q] = Append(events[q], [kind |-> k, text |-> <<>>]) /\ state'[q] = l
        /\ \A o \in Question \ {q} : /\ state'[o] = state[o] /\ answer'[o] = answer[o]
                                     /\ sent'[o] = sent[o] /\ events'[o] = events[o]
    BY <1>1, <1>5, <2>1 DEF Goto
  <2>6. answer'[q] = answer[q] /\ sent'[q] = sent[q] /\ Extends(answer[q], answer'[q])
    BY <1>5 DEF Extends
  <2> QED BY <1>5, <2>4, <2>5, <2>6 DEF StreamGoes
<1>6. CASE Close(q) \/ End(q) \/ Break(q)
  BY <1>5, <1>6 DEF Close, End, Break, Ended
<1>7. CASE Leave(q)
  <2>1. /\ state[q] \notin Ended /\ UNCHANGED <<answer, sent, events>>
        /\ state' = [state EXCEPT ![q] = "cancelled"]
    BY <1>7 DEF Leave, Goto, Ended
  <2>2. StreamTypeOK'
    BY <1>1, <2>1 DEF StreamTypeOK, Ended
  <2> QED BY <1>1, <1>3, <2>1, <2>2 DEF StreamGoes, Extends
<1> QED BY <1>4, <1>6, <1>7 DEF Flow

\* The pieces of the answer stay what they were when it grows.
LEMMA CarriedKept ==
  ASSUME NEW q \in Question, answer[q] \in Text, Extends(answer[q], answer'[q]),
         sent[q] \in Text, Len(sent[q]) <= Len(answer[q]), events[q] \in Seq(Event),
         NEW c \in [0..Len(events[q]) -> 0..Len(sent[q])], Carried(q, c)
  PROVE  /\ \A k \in 1..Len(events[q]) :
              LET e == events[q][k] IN
              IF e.kind = "token"
              THEN c[k - 1] <= c[k] /\ e.text = SubSeq(answer'[q], c[k - 1] + 1, c[k])
              ELSE c[k] = c[k - 1]
         /\ \A k \in 0..Len(events[q]) : SubSeq(answer'[q], 1, c[k]) = SubSeq(answer[q], 1, c[k])
<1>1. Len(answer[q]) \in Nat /\ Len(sent[q]) \in Nat /\ Len(events[q]) \in Nat
  BY DEF Text
<1>2. \A i \in Nat \ {0}, j \in 0..Len(answer[q]) : SubSeq(answer'[q], i, j) = SubSeq(answer[q], i, j)
  BY ZenonT(40), ExtendedParts
<1>3. \A k \in 0..Len(events[q]) : c[k] \in 0..Len(answer[q]) /\ c[k] + 1 \in Nat \ {0}
  BY <1>1
<1>4. \A k \in 1..Len(events[q]) : k - 1 \in 0..Len(events[q]) /\ k \in 0..Len(events[q])
  BY <1>1
<1>5. \A k \in 1..Len(events[q]) :
        SubSeq(answer'[q], c[k - 1] + 1, c[k]) = SubSeq(answer[q], c[k - 1] + 1, c[k])
  BY <1>2, <1>3, <1>4
<1>6. 1 \in Nat \ {0}
  OBVIOUS
<1> QED BY <1>2, <1>3, <1>5, <1>6 DEF Carried

\* One more event carries what has been sent since.
LEMMA EventAdded ==
  ASSUME NEW q \in Question, answer[q] \in Text, Extends(answer[q], answer'[q]),
         sent[q] \in Text, Len(sent[q]) <= Len(answer[q]), events[q] \in Seq(Event),
         NEW c \in [0..Len(events[q]) -> 0..Len(sent[q])], Carried(q, c),
         NEW e \in Event, events'[q] = Append(events[q], e), sent'[q] \in Text,
         IF e.kind = "token"
         THEN /\ Len(sent[q]) <= Len(sent'[q])
              /\ e.text = SubSeq(answer'[q], Len(sent[q]) + 1, Len(sent'[q]))
         ELSE Len(sent'[q]) = Len(sent[q])
  PROVE  \E d \in [0..Len(events'[q]) -> 0..Len(sent'[q])] :
           Carried(q, d)' /\ \A k \in 0..Len(events[q]) : d[k] = c[k]
<1>1. PICK n, l, m : /\ n = Len(events[q]) /\ l = Len(sent[q]) /\ m = Len(sent'[q])
                     /\ n \in Nat /\ l \in Nat /\ m \in Nat /\ l <= m
  <2>1. Len(events[q]) \in Nat /\ Len(sent[q]) \in Nat /\ Len(sent'[q]) \in Nat
    BY DEF Text
  <2>2. Len(sent[q]) <= Len(sent'[q])
    <3>1. CASE e.kind = "token"
      BY <3>1
    <3>2. CASE e.kind # "token"
      <4>1. Len(sent'[q]) = Len(sent[q])
        BY <3>2
      <4> QED BY <2>1, <4>1
    <3> QED BY <3>1, <3>2
  <2> QED BY <2>1, <2>2
<1>2. /\ Len(events'[q]) = n + 1 /\ events'[q][n + 1] = e
      /\ \A k \in 1..n : events'[q][k] = events[q][k]
  BY <1>1, AppendProperties
<1>3. c \in [0..n -> 0..l] /\ c[0] = 0 /\ c[n] = l
  BY <1>1 DEF Carried
<1> DEFINE d == [k \in 0..(n + 1) |-> IF k <= n THEN c[k] ELSE m]
<1>4. /\ d \in [0..(n + 1) -> 0..m]
      /\ \A k \in 0..n : d[k] = c[k]
      /\ d[n + 1] = m /\ d[0] = 0 /\ d[n] = l
  <2>1. \A k \in 0..(n + 1) : (k <= n => k \in 0..n) /\ (k \in 0..n => k <= n)
    BY <1>1
  <2>2. \A k \in 0..n : c[k] \in 0..m
    BY SMTT(30), <1>1, <1>3
  <2>3. 0 \in 0..n /\ n \in 0..n /\ ~(n + 1 <= n) /\ n + 1 \in 0..(n + 1) /\ m \in 0..m
    BY <1>1
  <2>4. 0..n \subseteq 0..(n + 1)
    BY <1>1
  <2> QED BY <1>3, <2>1, <2>2, <2>3, <2>4
<1> HIDE DEF d
<1>5. \A k \in 1..n :
        LET x == events[q][k] IN
        IF x.kind = "token"
        THEN c[k - 1] <= c[k] /\ x.text = SubSeq(answer'[q], c[k - 1] + 1, c[k])
        ELSE c[k] = c[k - 1]
  BY <1>1, CarriedKept
<1>6. ASSUME NEW k \in 1..(n + 1)
      PROVE  LET x == events'[q][k] IN
             IF x.kind = "token"
             THEN d[k - 1] <= d[k] /\ x.text = SubSeq(answer'[q], d[k - 1] + 1, d[k])
             ELSE d[k] = d[k - 1]
  <2>1. CASE k \in 1..n
    <3>1. k \in 0..n /\ k - 1 \in 0..n
      BY <1>1, <2>1
    <3>2. d[k] = c[k] /\ d[k - 1] = c[k - 1] /\ events'[q][k] = events[q][k]
      BY <1>2, <1>4, <2>1, <3>1
    <3> QED BY <1>5, <2>1, <3>2
  <2>2. CASE k = n + 1
    <3>1. k - 1 = n
      BY <1>1, <2>2
    <3> QED BY <1>1, <1>2, <1>4, <2>2, <3>1
  <2> QED BY <1>1, <2>1, <2>2
<1>7. Carried(q, d)'
  BY <1>1, <1>2, <1>4, <1>6 DEF Carried
<1> QED BY <1>1, <1>2, <1>4, <1>7

LEMMA StreamMoves ==
  ASSUME TabInv, NEW q \in Question, StreamGoes(q), StreamTypeOK', UNCHANGED tabVars
  PROVE  TabInv'
<1>1. /\ answer[q] \in Text /\ sent[q] \in Text /\ events[q] \in Seq(Event)
      /\ answer'[q] \in Text /\ sent'[q] \in Text /\ events'[q] \in Seq(Event)
      /\ read[q] \in 0..Len(events[q]) /\ StreamInv(q) /\ FetchInv(q)
  BY DEF TabInv, TabTypeOK, StreamTypeOK
<1>2. /\ Len(answer[q]) \in Nat /\ Len(sent[q]) \in Nat /\ Len(events[q]) \in Nat
      /\ Len(answer'[q]) \in Nat /\ Len(sent'[q]) \in Nat
      /\ Len(sent[q]) <= Len(answer[q]) /\ BufferSize \in Nat /\ BufferSize > 0
      /\ Len(answer[q]) - Len(sent[q]) < BufferSize
  <2>1. Len(sent[q]) <= Len(answer[q]) /\ Len(answer[q]) - Len(sent[q]) < BufferSize
    BY <1>1 DEF StreamInv
  <2>2. /\ Len(answer[q]) \in Nat /\ Len(sent[q]) \in Nat /\ Len(events[q]) \in Nat
        /\ Len(answer'[q]) \in Nat /\ Len(sent'[q]) \in Nat
    BY <1>1 DEF Text
  <2>3. BufferSize \in Nat /\ BufferSize > 0
    BY BufferAssumption
  <2> QED BY <2>1, <2>2, <2>3
<1>3. /\ UNCHANGED <<streaming, activeSession, sessions, sess, fetch, read, shown>>
      /\ \A s : LastOf(s)' = LastOf(s)
  BY DEF tabVars, LastOf
<1>4. Len(answer'[q]) >= Len(answer[q])
  BY <1>1, ExtendedParts DEF StreamGoes
<1>5. \A k \in 1..Len(events[q]) : events[q][k].kind # "error"
  BY <1>1 DEF StreamInv, StreamGoes, Ended
<1>6. \/ /\ sent'[q] = sent[q] /\ events'[q] = events[q]
         /\ Len(answer'[q]) - Len(sent[q]) < BufferSize
      \/ \E e \in Event :
           /\ events'[q] = Append(events[q], e)
           /\ IF e.kind = "token"
              THEN /\ sent'[q] = answer'[q]
                   /\ e.text = SubSeq(answer'[q], Len(sent[q]) + 1, Len(sent'[q]))
              ELSE sent'[q] = sent[q] /\ answer'[q] = answer[q]
           /\ e.kind = "error" => state'[q] = "failed"
  <2>1. CASE /\ sent'[q] = answer'[q]
             /\ events'[q] = Append(events[q],
                  [kind |-> "token", text |-> SubSeq(answer'[q], Len(sent[q]) + 1, Len(answer'[q]))])
    <3>1. PICK t : t = SubSeq(answer'[q], Len(sent[q]) + 1, Len(answer'[q]))
      OBVIOUS
    <3>2. t \in Text
      <4>1. Len(sent[q]) \in 0..Len(answer'[q]) /\ Len(answer'[q]) \in Len(sent[q])..Len(answer'[q])
        BY <1>2, <1>4
      <4> QED BY <1>1, <3>1, <4>1, Parts
    <3>3. PICK e : e = [kind |-> "token", text |-> t]
      OBVIOUS
    <3>4. e \in Event /\ e.kind = "token" /\ e.text = t
      BY <3>2, <3>3 DEF Event
    <3> QED BY <2>1, <3>1, <3>3, <3>4
  <2>2. CASE /\ sent'[q] = sent[q] /\ answer'[q] = answer[q]
             /\ \E k \in {"done", "error"} :
                  /\ events'[q] = Append(events[q], [kind |-> k, text |-> <<>>])
                  /\ k = "error" => state'[q] = "failed"
    <3>1. PICK k \in {"done", "error"} :
                  /\ events'[q] = Append(events[q], [kind |-> k, text |-> <<>>])
                  /\ k = "error" => state'[q] = "failed"
      BY <2>2
    <3>2. PICK e : e = [kind |-> k, text |-> <<>>]
      OBVIOUS
    <3>3. e \in Event /\ e.kind = k
      BY <3>2 DEF Event, Text
    <3> QED BY <2>2, <3>1, <3>2, <3>3
  <2> QED BY <2>1, <2>2 DEF StreamGoes
<1>7. /\ \A k \in 1..Len(events[q]) : events'[q][k] = events[q][k]
      /\ Len(events'[q]) \in Nat /\ Len(events'[q]) >= Len(events[q])
  <2>1. CASE events'[q] = events[q]
    BY <1>2, <2>1
  <2>2. ASSUME NEW e \in Event, events'[q] = Append(events[q], e)
        PROVE  /\ \A k \in 1..Len(events[q]) : events'[q][k] = events[q][k]
               /\ Len(events'[q]) = Len(events[q]) + 1
    BY <1>1, <2>2, AppendProperties
  <2>3. CASE \E e \in Event : events'[q] = Append(events[q], e)
    BY <1>2, <2>2, <2>3
  <2> QED BY <1>6, <2>1, <2>3
<1>8. \A o \in Question : Live(o)' <=> Live(o)
  <2>1. \A o \in Question \ {q} : events'[o] = events[o]
    BY DEF StreamGoes
  <2>2. \A k \in 1..read[q] : k \in 1..Len(events[q])
    BY <1>1, <1>2
  <2> QED BY <1>3, <1>7, <2>1, <2>2 DEF Live
<1>9. StreamInv(q)'
  <2>1. PICK c \in [0..Len(events[q]) -> 0..Len(sent[q])] :
          Carried(q, c) /\ (Live(q) => LastOf(sess[q]).text = SubSeq(answer[q], 1, c[read[q]]))
    BY <1>1 DEF StreamInv
  <2>2. Extends(answer[q], answer'[q])
    BY DEF StreamGoes
  <2>3. /\ \A k \in 1..Len(events[q]) :
             LET e == events[q][k] IN
             IF e.kind = "token"
             THEN c[k - 1] <= c[k] /\ e.text = SubSeq(answer'[q], c[k - 1] + 1, c[k])
             ELSE c[k] = c[k - 1]
        /\ SubSeq(answer'[q], 1, c[read[q]]) = SubSeq(answer[q], 1, c[read[q]])
    BY <1>1, <1>2, <2>1, <2>2, CarriedKept
  <2>4. Live(q)' => LastOf(sess[q])'.text = SubSeq(answer'[q], 1, c[read[q]])
    BY <1>3, <1>8, <2>1, <2>3
  <2>5. CASE /\ sent'[q] = sent[q] /\ events'[q] = events[q]
             /\ Len(answer'[q]) - Len(sent[q]) < BufferSize
    <3>1. Carried(q, c)'
      BY <2>1, <2>3, <2>5 DEF Carried
    <3>2. \A k \in 1..Len(events'[q]) : events'[q][k].kind # "error"
      BY <1>5, <2>5
    <3>3. Len(sent'[q]) <= Len(answer'[q]) /\ Len(answer'[q]) - Len(sent'[q]) < BufferSize
      <4>1. Len(sent'[q]) = Len(sent[q]) /\ Len(answer'[q]) - Len(sent[q]) < BufferSize
        BY <2>5
      <4>2. Len(sent'[q]) <= Len(answer'[q])
        BY <1>2, <1>4, <4>1
      <4>3. Len(answer'[q]) - Len(sent'[q]) < BufferSize
        BY <1>2, <4>1
      <4> QED BY <4>2, <4>3
    <3>4. c \in [0..Len(events'[q]) -> 0..Len(sent'[q])]
      BY <2>5
    <3> QED BY <1>3, <2>4, <3>1, <3>2, <3>3, <3>4 DEF StreamInv
  <2>6. ASSUME NEW e \in Event, events'[q] = Append(events[q], e),
               IF e.kind = "token"
               THEN /\ sent'[q] = answer'[q]
                    /\ e.text = SubSeq(answer'[q], Len(sent[q]) + 1, Len(sent'[q]))
               ELSE sent'[q] = sent[q] /\ answer'[q] = answer[q],
               e.kind = "error" => state'[q] = "failed"
        PROVE  StreamInv(q)'
    <3>1. /\ Len(sent'[q]) <= Len(answer'[q]) /\ Len(sent[q]) <= Len(sent'[q])
          /\ Len(answer'[q]) - Len(sent'[q]) < BufferSize
      <4>1. CASE e.kind = "token"
        <5>1. Len(sent'[q]) = Len(answer'[q])
          BY <2>6, <4>1
        <5> QED BY <1>2, <1>4, <5>1
      <4>2. CASE e.kind # "token"
        <5>1. Len(sent'[q]) = Len(sent[q]) /\ Len(answer'[q]) = Len(answer[q])
          BY <2>6, <4>2
        <5>2. Len(sent'[q]) <= Len(answer'[q]) /\ Len(sent[q]) <= Len(sent'[q])
          BY <1>2, <5>1
        <5>3. Len(answer'[q]) - Len(sent'[q]) < BufferSize
          BY <1>2, <5>1
        <5> QED BY <5>2, <5>3
      <4> QED BY <4>1, <4>2
    <3>2. IF e.kind = "token"
          THEN /\ Len(sent[q]) <= Len(sent'[q])
               /\ e.text = SubSeq(answer'[q], Len(sent[q]) + 1, Len(sent'[q]))
          ELSE Len(sent'[q]) = Len(sent[q])
      BY <2>6, <3>1
    <3>3. PICK d \in [0..Len(events'[q]) -> 0..Len(sent'[q])] :
            Carried(q, d)' /\ \A k \in 0..Len(events[q]) : d[k] = c[k]
      BY <1>1, <1>2, <2>1, <2>2, <2>6, <3>2, EventAdded
    <3>4. Live(q)' => LastOf(sess[q])'.text = SubSeq(answer'[q], 1, d[read[q]])
      BY <1>1, <2>4, <3>3
    <3>5. /\ Len(events'[q]) = Len(events[q]) + 1 /\ events'[q][Len(events[q]) + 1] = e
      BY <1>1, <2>6, AppendProperties
    <3>6. \A k \in 1..Len(events'[q]) :
            events'[q][k].kind = "error" => k = Len(events'[q]) /\ state'[q] = "failed"
      <4>1. \A k \in 1..Len(events'[q]) : k \in 1..Len(events[q]) \/ k = Len(events'[q])
        BY <1>2, <3>5
      <4> QED BY <1>5, <1>7, <2>6, <3>5, <4>1
    <3> QED BY <1>3, <3>1, <3>3, <3>4, <3>6 DEF StreamInv
  <2> QED BY <1>6, <2>5, <2>6
<1>10. ASSUME NEW o \in Question \ {q}
       PROVE  StreamInv(o)'
  <2>1. /\ state'[o] = state[o] /\ answer'[o] = answer[o]
        /\ sent'[o] = sent[o] /\ events'[o] = events[o] /\ StreamInv(o)
    BY DEF StreamGoes, TabInv
  <2> QED BY <1>3, <1>8, <2>1 DEF StreamInv, Carried
<1>11. ASSUME NEW o \in Question
       PROVE  FetchInv(o)'
  <2>1. FetchInv(o) /\ (state'[o] = state[o] \/ state[o] \notin Ended)
    BY DEF TabInv, StreamGoes
  <2> QED BY <1>3, <1>8, <2>1 DEF FetchInv
<1>12. ASSUME NEW s \in Session, NEW i \in 1..Len(shown[s])
       PROVE  BubbleInv(s, i)'
  <2>1. PICK b, o : b = shown[s][i] /\ o = b.of
    OBVIOUS
  <2>2. BubbleInv(s, i) /\ b \in Bubble
    <3>1. shown[s] \in Seq(Bubble)
      BY DEF TabInv, TabTypeOK
    <3>2. b \in Bubble
      BY <2>1, <3>1, ElementOfSeq
    <3> QED BY <3>2 DEF TabInv
  <2>3. o \in Question /\ b.text \in Text
    BY <2>1, <2>2 DEF Bubble
  <2>4. CASE o = q
    <3>1. fetch[q] # "complete"
      BY <1>1 DEF FetchInv, StreamGoes
    <3>2. Prefix(b.text, answer[q]) => Prefix(b.text, answer'[q])
      BY <1>1, <2>3, PrefixKept DEF StreamGoes
    <3> QED BY <1>3, <1>8, <2>1, <2>2, <2>3, <2>4, <3>1, <3>2 DEF BubbleInv
  <2>5. CASE o # q
    <3>1. answer'[o] = answer[o]
      BY <2>3, <2>5 DEF StreamGoes
    <3> QED BY <1>3, <1>8, <2>1, <2>2, <2>3, <3>1 DEF BubbleInv
  <2> QED BY <2>4, <2>5
<1>13. TabTypeOK'
  <2>1. \A o \in Question : read[o] \in 0..Len(events'[o])
    <3>1. \A o \in Question : read[o] \in 0..Len(events[o])
      BY DEF TabInv, TabTypeOK
    <3>2. \A o \in Question \ {q} : events'[o] = events[o]
      BY DEF StreamGoes
    <3> QED BY <1>2, <1>7, <3>1, <3>2
  <2> QED BY <1>3, <2>1 DEF TabInv, TabTypeOK
<1> QED BY <1>3, <1>9, <1>10, <1>11, <1>12, <1>13 DEF TabInv

-----------------------------------------------------------------------------
(* The chat: what the tab's steps have in common                            *)

LEMMA Known ==
  ASSUME TabInv, NEW q \in Question
  PROVE  /\ answer[q] \in Text /\ sent[q] \in Text /\ events[q] \in Seq(Event)
         /\ Len(answer[q]) \in Nat /\ Len(sent[q]) \in Nat /\ Len(events[q]) \in Nat
         /\ read[q] \in 0..Len(events[q]) /\ StreamInv(q) /\ FetchInv(q)
         /\ DOMAIN fetch = Question /\ DOMAIN sess = Question /\ DOMAIN shown = Session
<1>1. answer[q] \in Text /\ sent[q] \in Text /\ events[q] \in Seq(Event)
  BY DEF TabInv, TabTypeOK, StreamTypeOK
<1>2. Len(answer[q]) \in Nat /\ Len(sent[q]) \in Nat /\ Len(events[q]) \in Nat
  BY <1>1 DEF Text
<1> QED BY <1>1, <1>2 DEF TabInv, TabTypeOK

LEMMA BubbleAt ==
  ASSUME TabInv, NEW s \in Session, NEW i \in 1..Len(shown[s])
  PROVE  shown[s][i] \in Bubble /\ BubbleInv(s, i) /\ shown[s][i].of \in Question
<1>1. shown[s] \in Seq(Bubble)
  BY DEF TabInv, TabTypeOK
<1>2. shown[s][i] \in Bubble
  BY <1>1, ElementOfSeq
<1> QED BY <1>2 DEF TabInv, Bubble

\* A stream that has not moved, whose bubble still shows what has been read.
LEMMA StreamInvKept ==
  ASSUME TabInv, NEW o \in Question, UNCHANGED <<answer, sent, events>>,
         state[o] = "failed" => state'[o] = "failed",
         Live(o)' => /\ Live(o) /\ read'[o] = read[o]
                     /\ LastOf(sess[o])'.text = LastOf(sess[o]).text
  PROVE  StreamInv(o)'
<1>1. StreamInv(o)
  BY Known
<1> QED BY <1>1 DEF StreamInv, Carried

\* The last bubble of the session of a question in flight is replaced.
LEMMA Amended ==
  ASSUME TabInv, NEW q \in Question, Live(q), NEW m \in Bubble, AmendLast(sess[q], m)
  PROVE  /\ shown' \in [Session -> Seq(Bubble)]
         /\ \A s \in Session : Len(shown'[s]) = Len(shown[s])
         /\ \A s \in Session : \A i \in 1..Len(shown[s]) :
              shown'[s][i] = IF s = sess[q] /\ i = Len(shown[s]) THEN m ELSE shown[s][i]
         /\ Len(shown[sess[q]]) \in 1..Len(shown[sess[q]])
<1>1. /\ sess[q] \in Session /\ shown[sess[q]] # <<>> /\ LastOf(sess[q]).role = "assistant"
      /\ shown \in [Session -> Seq(Bubble)]
  BY Known DEF FetchInv, TabInv, TabTypeOK
<1>2. PICK s, l, n : s = sess[q] /\ l = shown[s] /\ n = Len(l)
  OBVIOUS
<1>3. l \in Seq(Bubble) /\ n \in Nat /\ n \in 1..n /\ s \in Session
  BY <1>1, <1>2, EmptySeq
<1>4. shown' = [shown EXCEPT ![s] = [l EXCEPT ![n] = m]]
  <2>1. n > 0 /\ shown[s][n].role = "assistant"
    BY <1>1, <1>2, <1>3 DEF LastOf
  <2> QED BY <1>1, <1>2, <2>1 DEF AmendLast
<1>5. PICK k : k = [l EXCEPT ![n] = m]
  OBVIOUS
<1>6. k \in Seq(Bubble) /\ Len(k) = n /\ \A i \in 1..n : k[i] = IF i = n THEN m ELSE l[i]
  BY <1>2, <1>3, <1>5, ExceptSeq
<1>7. shown'[s] = k /\ \A t \in Session \ {s} : shown'[t] = shown[t]
  BY <1>1, <1>3, <1>4, <1>5
<1>8. shown' \in [Session -> Seq(Bubble)]
  BY <1>1, <1>3, <1>4, <1>5, <1>6
<1>9. ASSUME NEW t \in Session
      PROVE  /\ Len(shown'[t]) = Len(shown[t])
             /\ \A i \in 1..Len(shown[t]) :
                  shown'[t][i] = IF t = sess[q] /\ i = Len(shown[t]) THEN m ELSE shown[t][i]
  BY <1>2, <1>6, <1>7
<1> QED BY <1>2, <1>3, <1>8, <1>9

\* No other bubble is about that question, and no other question is in flight.
LEMMA OthersKept ==
  ASSUME TabInv, NEW q \in Question, Live(q), UNCHANGED <<answer, sess>>,
         \A o \in Question \ {q} : fetch'[o] = fetch[o] /\ (Live(o)' <=> Live(o)),
         NEW m \in Bubble, AmendLast(sess[q], m), m.of = q,
         fetch'[q] # "none", fetch'[q] # "complete",
         fetch'[q] = "open" => m.error \/ Live(q)',
         ~m.error => Prefix(m.text, answer[q])
  PROVE  \A s \in Session : \A i \in 1..Len(shown'[s]) : BubbleInv(s, i)'
<1> SUFFICES ASSUME NEW s \in Session, NEW i \in 1..Len(shown'[s])
             PROVE  BubbleInv(s, i)'
  OBVIOUS
<1>1. i \in 1..Len(shown[s]) /\ Len(shown'[s]) = Len(shown[s])
      /\ shown'[s][i] = IF s = sess[q] /\ i = Len(shown[s]) THEN m ELSE shown[s][i]
  BY Amended
<1>2. CASE s = sess[q] /\ i = Len(shown[s])
  <2>1. shown'[s][i] = m
    BY <1>1, <1>2
  <2> QED BY <1>1, <1>2, <2>1 DEF BubbleInv
<1>3. CASE ~(s = sess[q] /\ i = Len(shown[s]))
  <2>1. PICK b, o : b = shown[s][i] /\ o = b.of
    OBVIOUS
  <2>2. BubbleInv(s, i) /\ o \in Question /\ shown'[s][i] = b
    BY <1>1, <1>3, <2>1, BubbleAt
  <2>3. CASE b.role = "assistant"
    <3>1. o # q
      BY <1>3, <2>1, <2>2, <2>3 DEF BubbleInv
    <3>2. ~Live(o)
      BY <2>2, <3>1, Known DEF FetchInv
    <3> QED BY <2>1, <2>2, <3>1, <3>2 DEF BubbleInv
  <2>4. CASE b.role # "assistant"
    BY <2>2, <2>4 DEF BubbleInv
  <2> QED BY <2>3, <2>4
<1> QED BY <1>2, <1>3

-----------------------------------------------------------------------------
(* The chat: the tab's steps                                                *)

LEMMA AskMoves ==
  ASSUME TabInv, NEW q \in Question, NEW s \in Session, Ask(q, s)
  PROVE  TabInv'
<1>1. /\ ~streaming /\ fetch[q] = "none" /\ activeSession' = s /\ sessions' = sessions \cup {s}
      /\ streaming' = TRUE /\ shown' = [shown EXCEPT ![s] = @ \o <<User(q), Partial(q)>>]
      /\ sess' = [sess EXCEPT ![q] = s] /\ fetch' = [fetch EXCEPT ![q] = "auth"]
      /\ UNCHANGED <<state, answer, sent, events, read>>
  BY DEF Ask, streams
<1>2. TabTypeOK /\ shown[s] \in Seq(Bubble) /\ Len(shown[s]) \in Nat
  BY DEF TabInv, TabTypeOK
<1>3. PICK n, u, p, x : /\ n = Len(shown[s]) /\ u = User(q) /\ p = Partial(q)
                        /\ x = shown[s] \o <<u, p>>
  OBVIOUS
<1>4. /\ u \in Bubble /\ p \in Bubble /\ u.role = "user"
      /\ p.of = q /\ p.role = "assistant" /\ p.text = <<>> /\ ~p.error
  BY <1>3 DEF User, Partial, Bubble, Text
<1>5. /\ <<u, p>> \in Seq(Bubble) /\ Len(<<u, p>>) = 2 /\ <<u, p>>[1] = u /\ <<u, p>>[2] = p
  BY <1>4
<1>6. /\ x \in Seq(Bubble) /\ Len(x) = n + 2 /\ n \in Nat
      /\ \A i \in 1..(n + 2) : x[i] = IF i <= n THEN shown[s][i] ELSE <<u, p>>[i - n]
  BY <1>2, <1>3, <1>5, ConcatProperties
<1>7. /\ \A i \in 1..n : x[i] = shown[s][i]
      /\ x[n + 1] = u /\ x[n + 2] = p
  <2>1. \A i \in 1..n : i \in 1..(n + 2) /\ i <= n
    BY <1>6
  <2>2. /\ n + 1 \in 1..(n + 2) /\ ~(n + 1 <= n) /\ (n + 1) - n = 1
        /\ n + 2 \in 1..(n + 2) /\ ~(n + 2 <= n) /\ (n + 2) - n = 2
    BY <1>6
  <2> QED BY <1>5, <1>6, <2>1, <2>2
<1>8. /\ shown' = [shown EXCEPT ![s] = x] /\ shown'[s] = x
      /\ \A t \in Session \ {s} : shown'[t] = shown[t]
  BY <1>1, <1>2, <1>3 DEF TabTypeOK
<1>9. \A o \in Question : ~Live(o)
  BY <1>1, Known DEF FetchInv
<1>10. /\ fetch'[q] = "auth" /\ sess'[q] = s
       /\ \A o \in Question \ {q} : fetch'[o] = fetch[o] /\ sess'[o] = sess[o]
  BY <1>1, <1>2 DEF TabTypeOK
<1>11. Live(q)' /\ \A o \in Question \ {q} : ~Live(o)'
  BY <1>1, <1>9, <1>10 DEF Live
<1>12. LastOf(s)' = p
  BY <1>6, <1>7, <1>8 DEF LastOf
<1>13. TabTypeOK'
  <2>1. shown' \in [Session -> Seq(Bubble)]
    BY <1>2, <1>6, <1>8 DEF TabTypeOK
  <2>2. /\ sess' \in [Question -> Session \cup {NoSession}]
        /\ fetch' \in [Question -> {"none", "complete", "refused", "lost", "aborted"} \cup InFlight]
    BY <1>1, <1>2 DEF TabTypeOK, InFlight
  <2>3. activeSession' \in sessions' \cup {NoSession} /\ sessions' \subseteq Session
    BY <1>1, <1>2 DEF TabTypeOK
  <2> QED BY <1>1, <1>2, <2>1, <2>2, <2>3 DEF TabTypeOK, StreamTypeOK
<1>14. ASSUME NEW o \in Question
       PROVE  StreamInv(o)' /\ FetchInv(o)'
  <2>1. CASE o = q
    <3>1. PICK c \in [0..Len(events[q]) -> 0..Len(sent[q])] : Carried(q, c)
      BY Known DEF StreamInv
    <3>2. read[q] = 0 /\ c[0] = 0 /\ StreamInv(q)
      BY <1>1, <3>1, Known DEF FetchInv, Carried
    <3>3. SubSeq(answer[q], 1, 0) = <<>>
      BY Known DEF Text
    <3>4. LastOf(sess[q])'.text = SubSeq(answer[q], 1, c[read[q]])
      BY <1>4, <1>10, <1>12, <3>2, <3>3
    <3>5. Carried(q, c)'
      BY <1>1, <3>1 DEF Carried
    <3>6. StreamInv(q)'
      BY <1>1, <3>2, <3>4, <3>5 DEF StreamInv
    <3>7. x # <<>>
      BY <1>6
    <3> QED BY <1>1, <1>4, <1>8, <1>10, <1>11, <1>12, <2>1, <3>2, <3>6, <3>7 DEF FetchInv
  <2>2. CASE o # q
    <3>1. ~Live(o)' /\ fetch'[o] = fetch[o]
      BY <1>10, <1>11, <2>2
    <3> QED BY <1>1, <3>1, StreamInvKept, Known DEF FetchInv
  <2> QED BY <2>1, <2>2
<1>15. ASSUME NEW t \in Session, NEW i \in 1..Len(shown'[t])
       PROVE  BubbleInv(t, i)'
  <2>1. CASE i \in 1..Len(shown[t]) /\ shown'[t][i] = shown[t][i]
    <3>1. PICK b, o : b = shown[t][i] /\ o = b.of
      OBVIOUS
    <3>2. BubbleInv(t, i) /\ o \in Question
      BY <2>1, <3>1, BubbleAt
    <3>3. b.role = "assistant" => o # q
      BY <1>1, <3>1, <3>2 DEF BubbleInv
    <3> QED BY <1>1, <1>9, <1>10, <1>11, <2>1, <3>1, <3>2, <3>3 DEF BubbleInv
  <2>2. CASE t = s /\ i = n + 1
    BY <1>4, <1>7, <1>8, <2>2 DEF BubbleInv
  <2>3. CASE t = s /\ i = n + 2
    <3>1. shown'[t][i] = p /\ i = Len(shown'[t])
      BY <1>6, <1>7, <1>8, <2>3
    <3>2. Prefix(<<>>, answer[q])
      <4>1. Len(<<>>) = 0 /\ SubSeq(answer[q], 1, 0) = <<>> /\ Len(answer[q]) >= 0
        BY Known DEF Text
      <4> QED BY <4>1, Known DEF Prefix
    <3> QED BY <1>1, <1>4, <1>10, <1>11, <2>3, <3>1, <3>2 DEF BubbleInv
  <2>4. i \in 1..n \/ i = n + 1 \/ i = n + 2 \/ t # s
    BY <1>6, <1>8
  <2> QED BY <1>3, <1>7, <1>8, <2>1, <2>2, <2>3, <2>4
<1> QED BY <1>13, <1>14, <1>15 DEF TabInv

\* Steps that end a call, or move it on, and leave the store as it is.
LEMMA FetchMoves ==
  ASSUME TabInv, NEW q \in Question, OpenStream(q) \/ LoseConnection(q) \/ Complete(q)
  PROVE  TabInv'
<1>1. /\ UNCHANGED <<answer, sent, events, streaming, activeSession, sessions, sess, read, shown>>
      /\ fetch[q] \in InFlight
      /\ \E f \in {"open", "lost", "complete"} :
           /\ fetch' = [fetch EXCEPT ![q] = f]
           /\ f = "open" => fetch[q] = "auth" /\ Start(q)
           /\ f # "open" => state' = state
           /\ f = "complete" => fetch[q] = "open" /\ state[q] \in Ended /\ read[q] = Len(events[q])
  BY DEF OpenStream, LoseConnection, Complete, Start, streams, InFlight
<1>2. PICK f \in {"open", "lost", "complete"} :
           /\ fetch' = [fetch EXCEPT ![q] = f]
           /\ f = "open" => fetch[q] = "auth" /\ Start(q)
           /\ f # "open" => state' = state
           /\ f = "complete" => fetch[q] = "open" /\ state[q] \in Ended /\ read[q] = Len(events[q])
  BY <1>1
<1>3. TabTypeOK /\ DOMAIN fetch = Question /\ DOMAIN state = Question
  BY DEF TabInv, TabTypeOK, StreamTypeOK
<1>4. fetch'[q] = f /\ \A o \in Question \ {q} : fetch'[o] = fetch[o]
  BY <1>2, <1>3
<1>5. \A o \in Question : state'[o] = state[o] \/ (state[o] = "idle" /\ state'[o] = "open" /\ o = q /\ f = "open")
  BY <1>2, <1>3 DEF Start, Goto
<1>6. \A o \in Question \ {q} : Live(o)' <=> Live(o)
  BY <1>1, <1>4 DEF Live
<1>7. Live(q)' <=> f = "open"
  <2>1. CASE f = "open"
    <3>1. read[q] = 0
      BY <1>2, <2>1, Known DEF FetchInv
    <3> QED BY <1>1, <1>4, <2>1, <3>1 DEF Live
  <2>2. CASE f # "open"
    BY <1>4, <2>2 DEF Live
  <2> QED BY <2>1, <2>2
<1>8. f = "open" => Live(q)
  BY <1>2 DEF Live
<1>9. \A s : LastOf(s)' = LastOf(s)
  BY <1>1 DEF LastOf
<1>10. TabTypeOK'
  <2>1. state' \in [Question -> {"idle", "open", "closing"} \cup Ended]
    BY <1>2, <1>3 DEF TabTypeOK, StreamTypeOK, Start, Goto
  <2>2. fetch' \in [Question -> {"none", "complete", "refused", "lost", "aborted"} \cup InFlight]
    BY <1>2, <1>3 DEF TabTypeOK, InFlight
  <2> QED BY <1>1, <1>3, <2>1, <2>2 DEF TabTypeOK, StreamTypeOK
<1>11. ASSUME NEW o \in Question
       PROVE  StreamInv(o)' /\ FetchInv(o)'
  <2>1. StreamInv(o) /\ FetchInv(o)
    BY Known
  <2>2. Live(o)' => Live(o)
    BY <1>6, <1>7, <1>8
  <2>3. StreamInv(o)'
    BY <1>1, <1>5, <1>9, <2>2, StreamInvKept
  <2>4. FetchInv(o)'
    <3>1. CASE o = q
      <4>1. f = "complete" => state'[q] \in Ended
        BY <1>2
      <4>2. f = "open" => \A p \in Question : Live(p)' => p = q
        BY <1>6, <1>8, <2>1, <3>1 DEF FetchInv
      <4> QED BY <1>1, <1>4, <1>7, <1>8, <1>9, <2>1, <3>1, <4>1, <4>2 DEF FetchInv
    <3>2. CASE o # q
      <4>1. fetch'[o] = fetch[o] /\ (fetch[o] = "complete" => state'[o] \in Ended)
        BY <1>4, <1>5, <2>1, <3>2 DEF FetchInv
      <4>2. Live(o) => f # "open" /\ \A p \in Question : Live(p)' => p = o
        BY <1>6, <1>7, <1>8, <2>1, <3>2 DEF FetchInv
      <4> QED BY <1>1, <1>9, <2>1, <2>2, <4>1, <4>2 DEF FetchInv
    <3> QED BY <3>1, <3>2
  <2> QED BY <2>3, <2>4
<1>12. ASSUME NEW s \in Session, NEW i \in 1..Len(shown'[s])
       PROVE  BubbleInv(s, i)'
  <2>1. PICK b, o : b = shown[s][i] /\ o = b.of
    OBVIOUS
  <2>2. BubbleInv(s, i) /\ o \in Question /\ b \in Bubble
    BY <1>1, <2>1, BubbleAt
  <2>3. CASE o # q \/ b.role # "assistant"
    BY <1>1, <1>4, <1>6, <2>1, <2>2, <2>3 DEF BubbleInv
  <2>4. CASE o = q /\ b.role = "assistant"
    <3>1. Live(q) => s = sess[q] /\ i = Len(shown[s])
      BY <2>1, <2>2, <2>4 DEF BubbleInv
    <3>2. f = "complete" /\ ~b.error => Len(answer[q]) - Len(b.text) < BufferSize
      <4> SUFFICES ASSUME f = "complete", ~b.error
                   PROVE  Len(answer[q]) - Len(b.text) < BufferSize
        OBVIOUS
      <4>1. Live(q)
        BY <1>2, <2>1, <2>2, <2>4 DEF BubbleInv
      <4>2. PICK c \in [0..Len(events[q]) -> 0..Len(sent[q])] :
              Carried(q, c) /\ (Live(q) => LastOf(sess[q]).text = SubSeq(answer[q], 1, c[read[q]]))
        BY Known DEF StreamInv
      <4>3. b.text = SubSeq(answer[q], 1, Len(sent[q]))
        BY <1>2, <2>1, <3>1, <4>1, <4>2 DEF Carried, LastOf
      <4>4. Len(sent[q]) \in 0..Len(answer[q]) /\ Len(answer[q]) \in Len(sent[q])..Len(answer[q])
        <5>1. Len(sent[q]) <= Len(answer[q])
          BY Known DEF StreamInv
        <5>2. Len(sent[q]) \in Nat /\ Len(answer[q]) \in Nat
          BY Known
        <5> QED BY <5>1, <5>2
      <4>5. Len(b.text) = Len(sent[q])
        BY <4>3, <4>4, Known, Parts
      <4> QED BY <4>5, Known DEF StreamInv
    <3> QED BY <1>1, <1>4, <1>7, <2>1, <2>2, <2>4, <3>1, <3>2, <1>8 DEF BubbleInv
  <2> QED BY <2>3, <2>4
<1> QED BY <1>10, <1>11, <1>12 DEF TabInv

\* setError on the bubble of a question in flight, after which none is.
LEMMA ErrorShown ==
  ASSUME TabInv, NEW q \in Question, Live(q), SetError(sess[q]), ~Live(q)',
         UNCHANGED <<streams, activeSession, sessions, sess>>,
         \A o \in Question \ {q} : fetch'[o] = fetch[o] /\ (Live(o)' <=> Live(o)),
         fetch' \in [Question -> {"none", "complete", "refused", "lost", "aborted"} \cup InFlight],
         fetch'[q] \in {"open", "refused"}, DOMAIN read' = Question,
         \A o \in Question : read'[o] \in 0..Len(events[o]) /\ (o # q => read'[o] = read[o])
  PROVE  TabInv'
<1>1. /\ sess[q] \in Session /\ shown[sess[q]] # <<>> /\ LastOf(sess[q]).of = q
      /\ LastOf(sess[q]).role = "assistant" /\ TabTypeOK
  BY Known DEF FetchInv, TabInv
<1>2. PICK m : m = [LastOf(sess[q]) EXCEPT !.text = <<>>, !.error = TRUE]
  OBVIOUS
<1>3. LastOf(sess[q]) \in Bubble
  <2>1. shown[sess[q]] \in Seq(Bubble)
    BY <1>1 DEF TabTypeOK
  <2>2. Len(shown[sess[q]]) \in 1..Len(shown[sess[q]])
    BY <1>1, <2>1, EmptySeq
  <2> QED BY <2>1, <2>2, ElementOfSeq DEF LastOf
<1>4. m \in Bubble /\ m.of = q /\ m.error = TRUE
  <2>1. PICK b : b = LastOf(sess[q])
    OBVIOUS
  <2>2. b \in Bubble /\ b.of = q /\ m = [b EXCEPT !.text = <<>>, !.error = TRUE]
    BY <1>1, <1>2, <1>3, <2>1
  <2>3. m = [of |-> b.of, role |-> b.role, text |-> <<>>, error |-> TRUE]
    BY <2>2 DEF Bubble
  <2>4. b.of \in Question /\ b.role \in {"user", "assistant"} /\ <<>> \in Text
    BY <2>2 DEF Bubble, Text
  <2> QED BY <2>2, <2>3, <2>4 DEF Bubble
<1>5. AmendLast(sess[q], m) /\ streaming' = FALSE
  BY <1>1, <1>2 DEF SetError
<1>6. \A s \in Session : \A i \in 1..Len(shown'[s]) : BubbleInv(s, i)'
  BY <1>4, <1>5, OthersKept DEF streams
<1>7. shown' \in [Session -> Seq(Bubble)]
  BY <1>4, <1>5, Amended
<1>8. \A o \in Question : ~Live(o)'
  BY Known DEF FetchInv
<1>9. ASSUME NEW o \in Question
      PROVE  StreamInv(o)' /\ FetchInv(o)'
  <2>1. StreamInv(o)'
    BY <1>8, StreamInvKept DEF streams
  <2>2. FetchInv(o)'
    BY <1>8, Known DEF FetchInv, streams
  <2> QED BY <2>1, <2>2
<1>10. TabTypeOK'
  BY <1>1, <1>5, <1>7 DEF TabTypeOK, StreamTypeOK, streams
<1> QED BY <1>6, <1>9, <1>10 DEF TabInv

LEMMA RefusedMoves ==
  ASSUME TabInv, NEW q \in Question, Refused(q)
  PROVE  TabInv'
<1>1. /\ fetch[q] = "auth" /\ SetError(sess[q]) /\ fetch' = [fetch EXCEPT ![q] = "refused"]
      /\ UNCHANGED <<streams, activeSession, sessions, sess, read>> /\ Live(q)
  BY DEF Refused, Live
<1>2. TabTypeOK
  BY DEF TabInv
<1>3. fetch'[q] = "refused" /\ \A o \in Question \ {q} : fetch'[o] = fetch[o]
  BY <1>1, <1>2 DEF TabTypeOK
<1>4. ~Live(q)' /\ \A o \in Question \ {q} : Live(o)' <=> Live(o)
  BY <1>1, <1>3 DEF Live, streams
<1>5. fetch' \in [Question -> {"none", "complete", "refused", "lost", "aborted"} \cup InFlight]
  BY <1>1, <1>2 DEF TabTypeOK
<1>6. /\ DOMAIN read' = Question
      /\ \A o \in Question : read'[o] \in 0..Len(events[o]) /\ (o # q => read'[o] = read[o])
  BY <1>1, <1>2 DEF TabTypeOK
<1> QED BY <1>1, <1>3, <1>4, <1>5, <1>6, ErrorShown

LEMMA ReceiveMoves ==
  ASSUME TabInv, NEW q \in Question, Receive(q)
  PROVE  TabInv'
<1>1. /\ fetch[q] = "open" /\ read[q] < Len(events[q]) /\ read' = [read EXCEPT ![q] = @ + 1]
      /\ UNCHANGED <<streams, state, answer, sent, events, activeSession, sessions, sess, fetch>>
  BY DEF Receive, streams
<1>2. TabTypeOK /\ StreamInv(q) /\ FetchInv(q)
  BY Known DEF TabInv
<1>3. PICK n, r : /\ n = Len(events[q]) /\ r = read[q] /\ n \in Nat /\ r \in 0..n /\ r < n
                  /\ r + 1 \in 1..n /\ r \in 0..n /\ r + 1 \in 0..n
  BY <1>1, Known
<1>4. PICK e : e = events[q][r + 1] /\ e \in Event
  BY <1>3, Known, ElementOfSeq
<1>5. \/ e.kind = "error" /\ SetError(sess[q])
      \/ e.kind = "token" /\ AddToken(sess[q], e.text) /\ UNCHANGED streaming
      \/ e.kind = "done" /\ AddToken(sess[q], <<>>) /\ UNCHANGED streaming
  BY <1>3, <1>4 DEF Receive
<1>6. Live(q)
  <2>1. \A k \in 1..r : k \in 1..n /\ k # n
    BY <1>3
  <2>2. \A k \in 1..r : events[q][k].kind # "error"
    BY <1>2, <1>3, <2>1 DEF StreamInv
  <2> QED BY <1>1, <1>3, <2>2 DEF Live
<1>7. /\ \A o \in Question \ {q} : read'[o] = read[o]
      /\ \A o \in Question : read'[o] \in 0..Len(events[o])
      /\ DOMAIN read' = Question /\ read'[q] = r + 1
  BY <1>1, <1>2, <1>3 DEF TabTypeOK
<1>8. \A o \in Question \ {q} : Live(o)' <=> Live(o)
  BY <1>1, <1>7 DEF Live
<1>9. CASE e.kind = "error"
  <2>1. ~Live(q)'
    <3>1. r + 1 \in 1..(r + 1)
      BY <1>3
    <3> QED BY <1>1, <1>4, <1>7, <1>9, <3>1 DEF Live
  <2>2. SetError(sess[q])
    BY <1>5, <1>9
  <2>3. fetch' \in [Question -> {"none", "complete", "refused", "lost", "aborted"} \cup InFlight]
    BY <1>1, <1>2 DEF TabTypeOK
  <2> QED BY <1>1, <1>6, <1>7, <1>8, <2>1, <2>2, <2>3, ErrorShown
<1>10. CASE e.kind # "error"
  <2>1. /\ sess[q] \in Session /\ shown[sess[q]] # <<>> /\ LastOf(sess[q]).of = q
        /\ LastOf(sess[q]).role = "assistant" /\ ~LastOf(sess[q]).error
        /\ streaming /\ \A o \in Question : Live(o) => o = q
    BY <1>2, <1>6 DEF FetchInv
  <2>2. Live(q)'
    <3>1. \A k \in 1..(r + 1) : k \in 1..r \/ k = r + 1
      BY <1>3
    <3>2. \A k \in 1..r : events[q][k].kind # "error"
      BY <1>1, <1>3, <1>6 DEF Live
    <3> QED BY <1>1, <1>4, <1>7, <1>10, <3>1, <3>2 DEF Live
  <2>3. PICK c \in [0..n -> 0..Len(sent[q])] :
          Carried(q, c) /\ LastOf(sess[q]).text = SubSeq(answer[q], 1, c[r])
    BY <1>2, <1>3, <1>6 DEF StreamInv
  <2>4. PICK t : t = IF e.kind = "token" THEN e.text ELSE <<>>
    OBVIOUS
  <2>5. PICK b, m : b = LastOf(sess[q]) /\ m = [b EXCEPT !.text = @ \o t]
    OBVIOUS
  <2>6. b \in Bubble
    <3>1. shown[sess[q]] \in Seq(Bubble)
      BY <1>2, <2>1 DEF TabTypeOK
    <3>2. Len(shown[sess[q]]) \in 1..Len(shown[sess[q]])
      BY <2>1, <3>1, EmptySeq
    <3> QED BY <2>5, <3>1, <3>2, ElementOfSeq DEF LastOf
  <2>7. AmendLast(sess[q], m) /\ streaming' = streaming
    BY <1>5, <1>10, <2>1, <2>4, <2>5 DEF AddToken
  <2>8. c[r] \in 0..Len(answer[q]) /\ c[r + 1] \in 0..Len(answer[q])
    <3>1. Len(sent[q]) <= Len(answer[q])
      BY <1>2 DEF StreamInv
    <3>2. Len(sent[q]) \in Nat /\ Len(answer[q]) \in Nat
      BY Known
    <3>3. c[r] \in 0..Len(sent[q]) /\ c[r + 1] \in 0..Len(sent[q])
      BY <1>3
    <3> QED BY <3>1, <3>2, <3>3
  <2>9. /\ r + 1 - 1 = r
        /\ IF e.kind = "token" THEN c[r] <= c[r + 1] /\ e.text = SubSeq(answer[q], c[r] + 1, c[r + 1])
           ELSE c[r + 1] = c[r]
    <3>1. r + 1 - 1 = r
      BY <1>3
    <3>2. \A k \in 1..n :
            IF events[q][k].kind = "token"
            THEN c[k - 1] <= c[k] /\ events[q][k].text = SubSeq(answer[q], c[k - 1] + 1, c[k])
            ELSE c[k] = c[k - 1]
      BY <1>3, <2>3 DEF Carried
    <3>3. PICK k \in 1..n : k = r + 1 /\ k - 1 = r /\ events[q][k] = e
      BY <1>3, <1>4, <3>1
    <3>4. IF e.kind = "token" THEN c[r] <= c[k] /\ e.text = SubSeq(answer[q], c[r] + 1, c[k])
          ELSE c[k] = c[r]
      BY <3>2, <3>3
    <3> QED BY <3>1, <3>3, <3>4
  <2>10. b.text \o t = SubSeq(answer[q], 1, c[r + 1])
    <3>1. CASE e.kind = "token"
      <4>1. c[r + 1] \in c[r]..Len(answer[q])
        BY <2>8, <2>9, <3>1
      <4> QED BY <2>3, <2>4, <2>5, <2>8, <2>9, <3>1, <4>1, Known, Parts
    <3>2. CASE e.kind # "token"
      <4>1. b.text \in Seq(1..MaxTokens)
        BY <2>6 DEF Bubble, Text
      <4>2. b.text \o <<>> = b.text
        BY <4>1, ConcatEmptySeq
      <4> QED BY <2>3, <2>4, <2>5, <2>9, <3>2, <4>2
    <3> QED BY <3>1, <3>2
  <2>11. SubSeq(answer[q], 1, c[r + 1]) \in Text /\ Len(SubSeq(answer[q], 1, c[r + 1])) = c[r + 1]
    <3>1. Len(answer[q]) \in c[r + 1]..Len(answer[q])
      BY <2>8
    <3> QED BY <2>8, <3>1, Known, Parts
  <2>12. /\ m \in Bubble /\ m.of = q /\ m.role = "assistant" /\ ~m.error
         /\ m.text = SubSeq(answer[q], 1, c[r + 1])
    <3>1. m = [of |-> b.of, role |-> b.role, text |-> b.text \o t, error |-> b.error]
      BY <2>5, <2>6 DEF Bubble
    <3>2. b.of \in Question /\ b.role \in {"user", "assistant"} /\ b.error \in BOOLEAN
      BY <2>6 DEF Bubble
    <3>3. m \in Bubble
      BY <2>10, <2>11, <3>1, <3>2 DEF Bubble
    <3> QED BY <2>1, <2>5, <2>10, <3>1, <3>3
  <2>13. Prefix(m.text, answer[q])
    <3>1. Len(m.text) = c[r + 1]
      BY <2>11, <2>12
    <3>2. c[r + 1] <= Len(answer[q])
      BY <2>8
    <3> QED BY <2>12, <3>1, <3>2 DEF Prefix
  <2>14. \A s \in Session : \A i \in 1..Len(shown'[s]) : BubbleInv(s, i)'
    BY <1>1, <1>6, <1>8, <2>2, <2>7, <2>12, <2>13, OthersKept
  <2>15. /\ shown' \in [Session -> Seq(Bubble)] /\ LastOf(sess[q])' = m
         /\ Len(shown'[sess[q]]) \in 1..Len(shown'[sess[q]])
    <3>1. /\ shown' \in [Session -> Seq(Bubble)]
          /\ \A s \in Session : Len(shown'[s]) = Len(shown[s])
          /\ \A s \in Session : \A i \in 1..Len(shown[s]) :
               shown'[s][i] = IF s = sess[q] /\ i = Len(shown[s]) THEN m ELSE shown[s][i]
          /\ Len(shown[sess[q]]) \in 1..Len(shown[sess[q]])
      BY <1>6, <2>7, <2>12, Amended
    <3> QED BY <1>1, <2>1, <3>1 DEF LastOf
  <2>16. StreamInv(q)'
    <3>1. Carried(q, c)'
      BY <1>1, <2>3 DEF Carried
    <3>2. LastOf(sess[q])'.text = SubSeq(answer[q], 1, c[read'[q]])
      BY <1>7, <2>12, <2>15
    <3> QED BY <1>1, <1>2, <1>3, <3>1, <3>2 DEF StreamInv
  <2>17. FetchInv(q)'
    <3>1. shown'[sess[q]] # <<>>
      BY <2>15
    <3>2. \A o \in Question : Live(o)' => o = q
      BY <1>8, <2>1
    <3> QED BY <1>1, <2>1, <2>7, <2>12, <2>15, <3>1, <3>2 DEF FetchInv
  <2>18. ASSUME NEW o \in Question \ {q}
         PROVE  StreamInv(o)' /\ FetchInv(o)'
    <3>1. ~Live(o)'
      BY <1>8, <2>1
    <3> QED BY <1>1, <1>7, <3>1, StreamInvKept, Known DEF FetchInv
  <2>19. TabTypeOK'
    BY <1>1, <1>2, <1>7, <2>7, <2>15 DEF TabTypeOK, StreamTypeOK
  <2> QED BY <2>14, <2>16, <2>17, <2>18, <2>19 DEF TabInv
<1> QED BY <1>9, <1>10

LEMMA ReloadMoves ==
  ASSUME TabInv, Reload
  PROVE  TabInv'
<1>1. /\ streaming' = FALSE /\ activeSession' = NoSession /\ shown' = [s \in Session |-> <<>>]
      /\ fetch' = [q \in Question |-> IF fetch[q] \in InFlight THEN "aborted" ELSE fetch[q]]
      /\ sess' = [q \in Question |-> NoSession] /\ read' = [q \in Question |-> 0]
      /\ sessions' = {} /\ UNCHANGED <<state, answer, sent, events>>
  BY DEF Reload, streams
<1>2. TabTypeOK
  BY DEF TabInv
<1>3. \A q \in Question : ~Live(q)'
  BY <1>1 DEF Live, InFlight
<1>4. \A q \in Question : StreamInv(q)'
  BY <1>1, <1>3, StreamInvKept
<1>5. ASSUME NEW q \in Question
      PROVE  FetchInv(q)'
  <2>1. FetchInv(q) /\ fetch'[q] = IF fetch[q] \in InFlight THEN "aborted" ELSE fetch[q]
    BY <1>1, Known
  <2> QED BY <1>1, <1>3, <2>1 DEF FetchInv, InFlight
<1>6. \A s \in Session : Len(shown'[s]) = 0
  BY <1>1
<1>7. TabTypeOK'
  <2>1. <<>> \in Seq(Bubble)
    OBVIOUS
  <2>2. fetch' \in [Question -> {"none", "complete", "refused", "lost", "aborted"} \cup InFlight]
    BY <1>1, <1>2 DEF TabTypeOK
  <2>3. events \in [Question -> Seq(Event)]
    BY <1>2 DEF TabTypeOK, StreamTypeOK
  <2>4. DOMAIN read' = Question /\ \A q \in Question : read'[q] \in 0..Len(events'[q])
    <3>1. \A q \in Question : Len(events[q]) \in Nat
      BY <2>3
    <3> QED BY <1>1, <3>1
  <2>5. StreamTypeOK'
    BY <1>1, <1>2 DEF TabTypeOK, StreamTypeOK
  <2> QED BY <1>1, <2>1, <2>2, <2>4, <2>5 DEF TabTypeOK
<1> QED BY <1>4, <1>5, <1>6, <1>7 DEF TabInv

LEMMA SessionMoves ==
  ASSUME TabInv, NEW s \in Session, NewSession(s) \/ SelectSession(s)
  PROVE  TabInv'
<1>1. /\ activeSession' = s /\ sessions' \subseteq Session /\ s \in sessions'
      /\ UNCHANGED <<state, answer, sent, events, streaming, sess, fetch, read, shown>>
  BY DEF NewSession, SelectSession, streams, TabInv, TabTypeOK
<1>2. TabTypeOK'
  BY <1>1 DEF TabInv, TabTypeOK, StreamTypeOK
<1>3. \A q \in Question : Live(q)' <=> Live(q)
  BY <1>1 DEF Live
<1>4. \A t : LastOf(t)' = LastOf(t)
  BY <1>1 DEF LastOf
<1>5. \A q \in Question : StreamInv(q)' /\ FetchInv(q)'
  <2> SUFFICES ASSUME NEW q \in Question
               PROVE  StreamInv(q)' /\ FetchInv(q)'
    OBVIOUS
  <2>1. StreamInv(q)'
    BY <1>1, <1>3, <1>4, StreamInvKept
  <2>2. FetchInv(q)'
    BY <1>1, <1>3, <1>4, Known DEF FetchInv
  <2> QED BY <2>1, <2>2
<1>6. ASSUME NEW t \in Session, NEW i \in 1..Len(shown'[t])
      PROVE  BubbleInv(t, i)'
  <2>1. PICK b, o : b = shown[t][i] /\ o = b.of
    OBVIOUS
  <2>2. BubbleInv(t, i) /\ o \in Question
    BY <1>1, <2>1, BubbleAt
  <2> QED BY <1>1, <1>3, <2>1, <2>2 DEF BubbleInv
<1> QED BY <1>2, <1>5, <1>6 DEF TabInv

LEMMA NothingMoves ==
  ASSUME TabInv, UNCHANGED allVars
  PROVE  TabInv'
<1>1. /\ UNCHANGED <<state, answer, sent, events>>
      /\ UNCHANGED <<streaming, activeSession, sessions, sess, fetch, read, shown>>
  BY DEF allVars, streams, tabVars
<1>2. TabTypeOK'
  BY <1>1 DEF TabInv, TabTypeOK, StreamTypeOK
<1>3. \A q \in Question : Live(q)' <=> Live(q)
  BY <1>1 DEF Live
<1>4. \A t : LastOf(t)' = LastOf(t)
  BY <1>1 DEF LastOf
<1>5. ASSUME NEW q \in Question
      PROVE  StreamInv(q)' /\ FetchInv(q)'
  <2>1. StreamInv(q)'
    BY <1>1, <1>3, <1>4, StreamInvKept
  <2>2. FetchInv(q)'
    BY <1>1, <1>3, <1>4, Known DEF FetchInv
  <2> QED BY <2>1, <2>2
<1>6. ASSUME NEW t \in Session, NEW i \in 1..Len(shown'[t])
      PROVE  BubbleInv(t, i)'
  <2>1. PICK b, o : b = shown[t][i] /\ o = b.of
    OBVIOUS
  <2>2. BubbleInv(t, i) /\ o \in Question
    BY <1>1, <2>1, BubbleAt
  <2> QED BY <1>1, <1>3, <2>1, <2>2 DEF BubbleInv
<1> QED BY <1>2, <1>5, <1>6 DEF TabInv

-----------------------------------------------------------------------------
(* The chat: the theorems                                                   *)

LEMMA InitTabInv == TabInit => TabInv
<1> SUFFICES ASSUME TabInit
             PROVE  TabInv
  OBVIOUS
<1>1. /\ \A q \in Question : /\ answer[q] = <<>> /\ sent[q] = <<>> /\ events[q] = <<>>
                             /\ fetch[q] = "none" /\ read[q] = 0 /\ state[q] = "idle"
      /\ \A s \in Session : shown[s] = <<>>
  BY DEF TabInit, StreamInit
<1>2. TabTypeOK
  <2>1. /\ <<>> \in Text /\ <<>> \in Seq(Event) /\ <<>> \in Seq(Bubble)
        /\ Len(<<>>) = 0 /\ 0 \in 0..0
    BY DEF Text
  <2> QED BY <2>1 DEF TabInit, StreamInit, TabTypeOK, StreamTypeOK
<1>3. ASSUME NEW q \in Question
      PROVE  StreamInv(q) /\ FetchInv(q)
  <2>1. ~Live(q)
    BY <1>1 DEF Live
  <2>2. Len(answer[q]) = 0 /\ Len(sent[q]) = 0 /\ Len(events[q]) = 0
    BY <1>1
  <2>3. BufferSize > 0 /\ 0 - 0 = 0 /\ 0 \in 0..0 /\ 0 <= 0
    BY BufferAssumption
  <2>4. PICK c : c = [k \in 0..0 |-> 0]
    OBVIOUS
  <2>5. c \in [0..0 -> 0..0] /\ c[0] = 0
    BY <2>3, <2>4
  <2>6. Carried(q, c)
    BY <2>2, <2>5 DEF Carried
  <2>7. StreamInv(q)
    BY <2>1, <2>2, <2>3, <2>5, <2>6 DEF StreamInv
  <2> QED BY <1>1, <2>1, <2>7 DEF FetchInv
<1>4. \A s \in Session : Len(shown[s]) = 0
  BY <1>1
<1> QED BY <1>2, <1>3, <1>4 DEF TabInv

LEMMA NextTabInv ==
  ASSUME TabInv, [TabNext]_allVars
  PROVE  TabInv'
<1>1. ASSUME NEW q \in Question, Flow(q) \/ Disconnect(q), UNCHANGED tabVars
      PROVE  TabInv'
  <2>1. Flow(q) \/ Leave(q)
    BY <1>1 DEF Disconnect
  <2>2. StreamGoes(q) /\ StreamTypeOK'
    BY <2>1, FlowGoes DEF TabInv
  <2> QED BY <1>1, <2>2, StreamMoves
<1>2. ASSUME NEW q \in Question, Tab(q)
      PROVE  TabInv'
  BY <1>2, FetchMoves, RefusedMoves, ReceiveMoves DEF Tab
<1>3. ASSUME NEW q \in Question, LoseConnection(q)
      PROVE  TabInv'
  BY <1>3, FetchMoves
<1> QED BY <1>1, <1>2, <1>3, AskMoves, SessionMoves, ReloadMoves, NothingMoves DEF TabNext

\* The invariant holds after every step of the tab and of its streams.
THEOREM TabInvariant == TabSpec => []TabInv
<1>1. TabInit => TabInv
  BY InitTabInv
<1>2. TabInv /\ [TabNext]_allVars => TabInv'
  BY NextTabInv
<1> QED BY <1>1, <1>2, PTL DEF TabSpec

(* The store, the calls and the streams stay what their types say, whatever *)
(* the order of the questions, the events and the reloads; a tab has never  *)
(* read more events than there are.                                         *)
THEOREM TabTypeCorrect == TabSpec => []TabTypeOK
<1>1. TabInv => TabTypeOK
  BY DEF TabInv
<1> QED BY <1>1, TabInvariant, PTL

(* A bubble of the assistant shows a beginning of the answer to its own     *)
(* question, or an error (addToken and setError change the last message of  *)
(* the session, whichever that is); once all has been read, it lacks less   *)
(* than a buffer.                                                           *)
THEOREM BubblesAreOwn == TabSpec => []BubblesShowTheirAnswer
<1>1. TabInv => BubblesShowTheirAnswer
  <2> SUFFICES ASSUME TabInv, NEW s \in Session, NEW i \in 1..Len(shown[s]),
                      shown[s][i].role = "assistant", ~shown[s][i].error
               PROVE  LET b == shown[s][i] IN
                      /\ Len(b.text) <= Len(answer[b.of])
                      /\ b.text = SubSeq(answer[b.of], 1, Len(b.text))
                      /\ fetch[b.of] = "complete" => Len(answer[b.of]) - Len(b.text) < BufferSize
    BY DEF BubblesShowTheirAnswer
  <2> QED BY BubbleAt DEF BubbleInv, Prefix
<1> QED BY <1>1, TabInvariant, PTL
=============================================================================
