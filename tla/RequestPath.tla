----------------------------- MODULE RequestPath -----------------------------
(***************************************************************************)
(* A user's requests on their way through the server: the rate limiter,    *)
(* the access token, the sources, the quota, and the rating afterwards.    *)
(* Where the model is called, ChatStream says what happens.                *)
(*                                                                         *)
(* The stages share Redis, the minute and what a request carries, and      *)
(* nothing else: each is run on its own, from every state in which a       *)
(* request can leave the one before.                                       *)
(***************************************************************************)
EXTENDS Access, Retrieval, TokenQuota, Experiments

CONSTANT LastWindow  \* bound: the minutes of each stage

ASSUME WindowAssumption ==
  /\ MaxWindow \in Nat
  /\ LastWindow \in [{"gate", "access", "source", "quota", "rating"} -> 1..MaxWindow]

VARIABLE stage  \* the stage that is run

vars == <<stage, req, window, raced, gateVars, accessVars, sourceVars, quotaVars, ratingVars>>

Entrance == [gate |-> "idle", access |-> "call", source |-> "config",
             quota |-> "prompt", rating |-> "review"]

Fresh == [pc |-> Entrance[stage], proc |-> Noone, via |-> Noone, win |-> 1,
          token |-> Noone, logout |-> FALSE,
          group |-> "default", setting |-> Plain, docs |-> {}, held |-> 0,
          prompt |-> <<>>, asked |-> 0, tokens |-> 0, long |-> FALSE]

\* Redis may be away and a process may have found it before.
InitGate ==
  /\ redisUp \in (IF stage \in {"gate", "access"} THEN BOOLEAN ELSE {TRUE})
  /\ client \in (IF stage = "gate" THEN SUBSET Process ELSE {{}})
  /\ count = [x \in Store \X Kind \X (1..MaxWindow) |-> 0]
  /\ permits = [p \in Process |-> Concurrency]

InitAccess ==
  /\ link = [p \in Process |-> "new"]
  /\ ttl = [x \in Store \X CacheKey |-> 0]
  /\ order = [p \in Process |-> <<>>]
  /\ left = [j \in Token |-> Life]
  /\ revoked = {}
  /\ keepers = [j \in Token |-> {}]
  /\ used = [x \in Process \X Token |-> {}]

InitSource ==
  /\ docs \in (IF stage = "source" THEN SUBSET Doc ELSE {{}})
  /\ experiment \in (IF stage = "source" THEN {{}} \cup {{e} : e \in Row} ELSE {{}})
  /\ cache = [g \in Group |-> {}]
  /\ since = [a \in Aspect |-> Stale]
  /\ changes = 0

InitRating ==
  /\ rows \in (IF stage = "rating" THEN SUBSET Experiment ELSE {{}})
  /\ \E rated \in (IF stage = "rating" THEN SUBSET Message ELSE {{}}) :
       ratings \in [rated -> rows \cup {Control}]
  /\ report = [r \in Request |-> NoReport]

Init ==
  /\ stage \in DOMAIN Entrance
  /\ \E found \in [Request -> IF stage = "quota" THEN SUBSET Doc ELSE {{}}] :
       req = [r \in Request |-> [Fresh EXCEPT !.docs = found[r]]]
  /\ window = 1
  /\ raced = {}
  /\ InitGate
  /\ InitAccess
  /\ InitSource
  /\ InitRating
  /\ minuteUsed = [w \in 1..MaxWindow |-> 0]
  /\ dailyUsed = 0

Retrieving(r) == req[r].pc \in {"lookup", "search", "put"}

\* From its first look at a quota to its last count.
Paying(r) == req[r].pc \in {"daily", "stream", "charge", "chargeDaily"}

Notice ==
  raced' = raced \cup {r \in Request : Paying(r)' /\ \E o \in Request \ {r} : Paying(o)'}

Step(r) ==
  /\ \/ /\ stage = "gate" /\ GateStep(r)
        /\ UNCHANGED <<accessVars, sourceVars, quotaVars, ratingVars>>
     \/ /\ stage = "access" /\ AccessStep(r)
        /\ UNCHANGED <<gateVars, sourceVars, quotaVars, ratingVars>>
     \/ /\ stage = "source" /\ SourceStep(r)
        /\ UNCHANGED <<gateVars, accessVars, quotaVars, ratingVars>>
     \/ /\ stage = "quota" /\ QuotaStep(r)
        /\ UNCHANGED <<gateVars, accessVars, sourceVars, ratingVars>>
     \/ /\ stage = "rating" /\ RatingStep(r)
        /\ UNCHANGED <<gateVars, accessVars, sourceVars, quotaVars>>
  /\ Notice
  /\ UNCHANGED <<stage, window>>

\* strftime's minute and time.time() // 60 change together.
Minute ==
  /\ window < LastWindow[stage]
  /\ \A r \in Request : Retrieving(r) => req[r].held < MaxHold
  /\ window' = window + 1
  /\ req' = [r \in Request |-> IF Retrieving(r) THEN [req[r] EXCEPT !.held = @ + 1] ELSE req[r]]
  /\ Age
  /\ UNCHANGED <<stage, raced, gateVars, accessVars, docs, experiment, changes, quotaVars, ratingVars>>

\* What changes beside the requests.
Change ==
  /\ \/ /\ stage = "gate" /\ Outage
        /\ UNCHANGED <<accessVars, sourceVars>>
     \/ /\ stage = "access" /\ AccessChanges
        /\ UNCHANGED <<gateVars, sourceVars>>
     \/ /\ stage = "access" /\ CacheOutage
        /\ UNCHANGED <<client, count, permits, sourceVars>>
     \/ /\ stage = "source" /\ SourcesChange
        /\ UNCHANGED <<gateVars, accessVars>>
  /\ UNCHANGED <<stage, window, raced, quotaVars, ratingVars>>

Next == (\E r \in Request : Step(r)) \/ Minute \/ Change

Spec == Init /\ [][Next]_vars

-----------------------------------------------------------------------------
(* In one minute no counter, Redis's or a process's own, lets more requests *)
(* pass than its limit, whatever Redis does in between.                     *)
AdmittedWithinLimits ==
  \A s \in Store, w \in 1..MaxWindow, k \in Kind :
    Cardinality({r \in Request : req[r].via = s /\ req[r].win = w}) <= Limit(k)

(* Every permit is free or with a request that a route works on.            *)
PermitsAreReturned ==
  \A p \in Process :
    permits[p] + Cardinality({r \in Request : At(r, "inside") /\ req[r].proc = p}) = Concurrency

(* A token that was logged out is refused wherever the logout was kept,     *)
(* except in the last second of its life, or by a process without Redis     *)
(* that has used as many other entries since as its memory holds.           *)
RevokedStaysRefused ==
  [][\A r \in Request : ~At(r, "admitted") /\ At(r, "admitted")' /\ req[r].token \in revoked =>
       LET p == req[r].proc
           j == req[r].token
           s == IF At(r, "look") THEN "redis" ELSE p
       IN \/ s \notin keepers[j]
          \/ left[j] < 2
          \/ s = p /\ Cardinality(used[<<p, j>>]) >= MaxEntries]_vars

(* What a question is answered from is out of date by one life of a cache's *)
(* entry and one retrieval at most: a document that has come or gone before *)
(* is there or not there, and the configuration is the experiment's.        *)
StaleForOneTtl ==
  [][\A r \in Request : ~At(r, "prompt") /\ At(r, "prompt")' =>
       /\ \A d \in Doc : since[d] = Stale => (d \in req'[r].docs <=> d \in docs)
       /\ since["experiment"] = Stale =>
            IF Mine = {} THEN req'[r].setting = Plain
            ELSE \E e \in Mine : req'[r].setting = e.setting]_vars

(* The prompt fits the window or is down to its protected messages, and the *)
(* question is in it whenever it fits beside those.                         *)
QuestionIsSent ==
  \A r \in Request : At(r, "stream") =>
    LET p == req[r].prompt
        protected == IF req[r].docs = {} THEN 1 ELSE 2
    IN \/ CountMessages(p) <= MaxPrompt /\ p[Len(p)] = req[r].asked /\ Len(p) > protected
       \/ 2 + protected + req[r].asked > MaxPrompt /\ Len(p) = protected

(* An answer that the caller has read is not turned into an error by its    *)
(* price, unless another question of the user was being paid meanwhile or   *)
(* the answer was longer than was estimated.                                *)
ChargeRefusesOnlyRaced ==
  \A r \in Request : At(r, "overdrawn") => r \in raced \/ req[r].long

(* The report of the experiments leaves out no rating that was there when   *)
(* it began, and counts one twice only when its experiment was deleted      *)
(* between the report's two queries.                                        *)
RatingsAreCounted ==
  \A r \in Request : At(r, "reported") =>
    LET rep == report[r]
    IN /\ rep.before \subseteq rep.parts[1] \cup rep.parts[2]
       /\ rep.parts[1] \cap rep.parts[2] \subseteq rep.freed
=============================================================================
