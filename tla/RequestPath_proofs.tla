------------------------- MODULE RequestPath_proofs -------------------------
(***************************************************************************)
(* What the stages of a request's way keep for any number of requests,     *)
(* processes and minutes, any limits, budgets and times: the counters of   *)
(* the rate limiter and the permits, what a question is answered from, and *)
(* the report of the experiments.                                          *)
(***************************************************************************)
EXTENDS RequestPath, FiniteSetTheorems, SequenceTheorems, WellFoundedInduction, TLAPS

-----------------------------------------------------------------------------
(* The inductive invariant: each stage's part is about that stage's run     *)

Field == {"pc", "proc", "via", "win", "token", "logout", "group", "setting", "docs", "held",
          "prompt", "asked", "tokens", "long"}

\* A request is a record with these fields, whatever they hold.
ReqShaped ==
  /\ DOMAIN req = Request
  /\ \A r \in Request : DOMAIN req[r] = Field

GatePlace   == {"idle", "connect", "ping", "ip", "user", "permit", "inside", "refused",
                "failed", "config"}
AccessPlace == {"call", "verify", "greet", "look", "barred", "blacklist", "admitted",
                "sweep", "loggedOut", "failed"}
SourcePlace == {"config", "lookup", "search", "put", "prompt", "failed"}
QuotaPlace  == {"prompt", "minute", "daily", "stream", "charge", "chargeDaily", "overdrawn",
                "done", "failed"}
RatingPlace == {"review", "control", "reported", "delete", "done", "failed"}

\* Nobody leaves the stage that is run.
PlaceInv ==
  /\ stage \in {"gate", "access", "source", "quota", "rating"}
  /\ window \in 1..LastWindow[stage]
  /\ \A r \in Request :
       /\ stage = "gate" => req[r].pc \in GatePlace
       /\ stage = "access" => req[r].pc \in AccessPlace
       /\ stage = "source" => req[r].pc \in SourcePlace
       /\ stage = "quota" => req[r].pc \in QuotaPlace
       /\ stage = "rating" => req[r].pc \in RatingPlace

-----------------------------------------------------------------------------
(* The rate limiter                                                         *)

\* Whom the counter of the addresses, and that of the users, has let pass; a
\* request that Redis has counted once is not yet through.
Passed(s, k, w) ==
  {r \in Request : \/ req[r].via = s /\ req[r].win = w
                   \/ k = "ip" /\ s = "redis" /\ At(r, "user") /\ req[r].win = w}

\* A finite set of no more than either number.
Within(S, m, l) == IsFiniteSet(S) /\ Cardinality(S) <= m /\ Cardinality(S) <= l

PassInv(s, k, w) == Within(Passed(s, k, w), count[<<s, k, w>>], Limit(k))

Inside(p) == {r \in Request : At(r, "inside") /\ req[r].proc = p}

PermitInv(p) ==
  /\ IsFiniteSet(Inside(p))
  /\ permits[p] \in Nat
  /\ permits[p] + Cardinality(Inside(p)) = Concurrency

GateInv ==
  /\ count \in [Store \X Kind \X (1..MaxWindow) -> Nat]
  /\ DOMAIN permits = Process
  /\ \A p \in Process : PermitInv(p)
  /\ \A s \in Store, k \in Kind, w \in 1..MaxWindow : PassInv(s, k, w)
  /\ \A r \in Request :
       /\ req[r].pc \in {"idle", "connect", "ping", "ip", "user"} \/ stage # "gate" => req[r].via = Noone
       /\ stage = "gate" /\ req[r].pc \notin {"idle", "refused", "failed", "config"} =>
            req[r].proc \in Process
       /\ req[r].win \in 1..MaxWindow

-----------------------------------------------------------------------------
(* The access tokens                                                        *)

\* No key is twice in a cache.
Distinct(s) == s \in Seq(CacheKey) /\ \A m, n \in 1..Len(s) : s[m] = s[n] => m = n

\* A key is in the cache and every newer one is in U.
Behind(s, j, U) == \E i \in 1..Len(s) : s[i] = j /\ \A n \in 1..Len(s) : n > i => s[n] \in U

\* A token that a process keeps is still in its memory, behind what was used
\* since, unless it is about to end or has been pushed out.
KeptInv(p, j) ==
  p \in keepers[j] =>
    left[j] < 2 \/ Cardinality(used[<<p, j>>]) >= MaxEntries \/ Behind(order[p], j, used[<<p, j>>])

AccessInv ==
  stage = "access" =>
    /\ ttl \in [Store \X CacheKey -> Nat]
    /\ left \in [Token -> Nat]
    /\ DOMAIN keepers = Token /\ DOMAIN order = Process
    /\ \A p \in Process : Distinct(order[p])
    /\ \A p \in Process, j \in Token : IsFiniteSet(used[<<p, j>>]) /\ KeptInv(p, j)
    /\ \A s \in Store, j \in Token : s \in keepers[j] => ttl[<<s, j>>] + 1 >= left[j]
    /\ \A r \in Request :
         req[r].pc \in {"verify", "greet", "look", "blacklist", "sweep"} =>
           req[r].proc \in Process /\ req[r].token \in Token

-----------------------------------------------------------------------------
(* The sources                                                              *)

Fits(setting) ==
  IF Mine = {} THEN setting = Plain ELSE \E e \in Mine : setting = e.setting

Differs(d, found) == ~(d \in found <=> d \in docs)

\* What differs from now has changed since: within the time that a request has
\* been retrieving, and that time and the age of an entry for what is cached.
HoldInv(r) ==
  Retrieving(r) =>
    /\ req[r].held \in 0..MaxHold
    /\ At(r, "put") => \A d \in Doc : Differs(d, req[r].docs) => since[d] <= req[r].held
    /\ ~Fits(req[r].setting) => since["experiment"] <= req[r].held

EntryInv(e) ==
  /\ DOMAIN e = {"docs", "setting", "left"}
  /\ e.left \in 0..CacheTtl
  /\ \A d \in Doc : Differs(d, e.docs) => since[d] + e.left <= CacheTtl + MaxHold
  /\ ~Fits(e.setting) => since["experiment"] + e.left <= CacheTtl + MaxHold

SourceInv ==
  stage = "source" =>
    /\ since \in [Aspect -> Nat]
    /\ DOMAIN cache = Group
    /\ \A r \in Request : HoldInv(r)
    /\ \A r \in Request : At(r, "config") => req[r].held = 0
    /\ \A r \in Request : req[r].group \in Group
    /\ \A g \in Group : \A e \in cache[g] : EntryInv(e)

-----------------------------------------------------------------------------
(* The quota                                                                *)

\* The messages of a prompt, with a context or without, and the question.
Composed(found, h, a) == <<1>> \o (IF found = {} THEN <<>> ELSE <<1>>) \o h \o <<a>>

PromptInv(r) ==
  /\ req[r].pc \in {"minute", "daily"} =>
       /\ req[r].asked \in Nat
       /\ \E h \in History : req[r].prompt = Composed(req[r].docs, h, req[r].asked)
  /\ At(r, "stream") =>
       LET p == req[r].prompt
           protected == IF req[r].docs = {} THEN 1 ELSE 2
       IN \/ CountMessages(p) <= MaxPrompt /\ p[Len(p)] = req[r].asked /\ Len(p) > protected
          \/ 2 + protected + req[r].asked > MaxPrompt /\ Len(p) = protected

\* What a request was let through with is still left, unless another one was
\* being paid meanwhile.
PriceInv(r) ==
  /\ req[r].pc \in {"stream", "charge", "chargeDaily"} => req[r].tokens \in Nat
  /\ r \notin raced =>
       /\ At(r, "daily") =>
            minuteUsed[window] + CountMessages(req[r].prompt) + Estimate < MinuteBudget
       /\ At(r, "stream") =>
            /\ minuteUsed[window] + req[r].tokens + Estimate < MinuteBudget
            /\ dailyUsed + req[r].tokens + Estimate < DailyBudget
       /\ At(r, "charge") =>
            \/ req[r].long
            \/ /\ minuteUsed[window] + req[r].tokens < MinuteBudget
               /\ dailyUsed + req[r].tokens < DailyBudget
       /\ At(r, "chargeDaily") => req[r].long \/ dailyUsed + req[r].tokens < DailyBudget
       /\ At(r, "overdrawn") => req[r].long

QuotaInv ==
  stage = "quota" =>
    /\ minuteUsed \in [1..MaxWindow -> Nat]
    /\ dailyUsed \in Nat
    /\ \A w \in 1..MaxWindow : w > window => minuteUsed[w] = 0
    /\ \A r \in Request : PromptInv(r) /\ PriceInv(r)
    /\ \A r, o \in Request : r # o /\ Paying(r) /\ Paying(o) => r \in raced

-----------------------------------------------------------------------------
(* The report                                                               *)

ReportInv(r) ==
  LET rep == report[r] IN
  /\ At(r, "control") =>
       \E P \in SUBSET DOMAIN ratings :
         /\ rep.parts = <<P>>
         /\ rep.before \subseteq P \cup Part(2)
         /\ P \cap Part(2) \subseteq rep.freed
  /\ At(r, "reported") =>
       /\ rep.before \subseteq rep.parts[1] \cup rep.parts[2]
       /\ rep.parts[1] \cap rep.parts[2] \subseteq rep.freed

RatingInv ==
  stage = "rating" =>
    /\ DOMAIN report = Request
    /\ \A r \in Request : DOMAIN report[r] = {"before", "parts", "freed"} /\ ReportInv(r)

PathInv == ReqShaped /\ PlaceInv /\ GateInv /\ AccessInv /\ SourceInv /\ QuotaInv /\ RatingInv

-----------------------------------------------------------------------------
(* Constants                                                                *)

LEMMA Constants ==
  /\ Concurrency \in Nat \ {0} /\ \A k : Limit(k) \in Nat \ {0}
  /\ Noone \notin Store
  /\ {"gate", "access", "source", "quota", "rating"} = DOMAIN LastWindow
  /\ \A t \in DOMAIN LastWindow : LastWindow[t] \in 1..MaxWindow
BY LimitAssumption, NooneAssumption, WindowAssumption DEF Limit, Store

LEMMA WindowTyped ==
  ASSUME PlaceInv
  PROVE  window \in 1..MaxWindow
<1>1. LastWindow[stage] \in 1..MaxWindow /\ MaxWindow \in Nat
  BY WindowAssumption DEF PlaceInv
<1> QED BY <1>1 DEF PlaceInv

-----------------------------------------------------------------------------
(* A request's step                                                         *)

Only(r) == \A q \in Request \ {r} : req'[q] = req[q]

\* Nothing but its place changes.
Carries(r) ==
  /\ req'[r].proc = req[r].proc /\ req'[r].via = req[r].via /\ req'[r].win = req[r].win
  /\ req'[r].token = req[r].token /\ req'[r].docs = req[r].docs
  /\ req'[r].setting = req[r].setting /\ req'[r].group = req[r].group
  /\ req'[r].held = req[r].held

LEMMA Moved ==
  ASSUME ReqShaped, NEW r \in Request, NEW l, MoveTo(r, l)
  PROVE  ReqShaped' /\ Only(r) /\ Carries(r) /\ req'[r].pc = l
BY DEF ReqShaped, MoveTo, Only, Carries, Field

LEMMA Shaped ==
  ASSUME ReqShaped, NEW r \in Request, NEW x, DOMAIN x = Field, req' = [req EXCEPT ![r] = x]
  PROVE  ReqShaped' /\ Only(r) /\ req'[r] = x
BY DEF ReqShaped, Only

-----------------------------------------------------------------------------
(* The rate limiter                                                         *)

\* A set that gains r at most, beside a number that gains one then.
Gains(S, T, r, m, n, l) ==
  n >= m /\ T \subseteq S \cup {r} /\ (r \in T /\ r \notin S => n = m + 1 /\ m + 1 <= l)

LEMMA OneMore ==
  ASSUME NEW S, NEW T, NEW r, NEW m \in Nat, NEW n \in Nat, NEW l \in Nat,
         Within(S, m, l), Gains(S, T, r, m, n, l)
  PROVE  Within(T, n, l)
<1> USE DEF Within, Gains
<1>1. Cardinality(S) \in Nat
  BY FS_CardinalityType
<1>2. CASE T \subseteq S
  <2>1. IsFiniteSet(T) /\ Cardinality(T) <= Cardinality(S)
    BY <1>2, FS_Subset
  <2>2. Cardinality(T) \in Nat
    BY <2>1, FS_CardinalityType
  <2> QED BY <2>1, <2>2, <1>1
<1>3. CASE ~(T \subseteq S)
  <2>1. r \in T /\ r \notin S
    BY <1>3
  <2>2. IsFiniteSet(S \cup {r}) /\ Cardinality(S \cup {r}) = Cardinality(S) + 1
    BY <2>1, FS_AddElement
  <2>3. IsFiniteSet(T) /\ Cardinality(T) <= Cardinality(S \cup {r})
    BY <2>2, FS_Subset
  <2>4. Cardinality(T) \in Nat
    BY <2>3, FS_CardinalityType
  <2> QED BY <2>1, <2>2, <2>3, <2>4, <1>1
<1> QED BY <1>2, <1>3

CountTyped == count \in [Store \X Kind \X (1..MaxWindow) -> Nat]

\* A counter that lets one more request pass is one below its limit.
LEMMA PassOne ==
  ASSUME NEW s \in Store, NEW k \in Kind, NEW w \in 1..MaxWindow, NEW r \in Request,
         CountTyped, CountTyped', Only(r), PassInv(s, k, w),
         count'[<<s, k, w>>] >= count[<<s, k, w>>],
         r \in Passed(s, k, w)' /\ r \notin Passed(s, k, w) =>
           count'[<<s, k, w>>] = count[<<s, k, w>>] + 1 /\ ~Over(s, k, w)
  PROVE  PassInv(s, k, w)'
<1>1. Limit(k) \in Nat /\ count[<<s, k, w>>] \in Nat /\ count'[<<s, k, w>>] \in Nat
  BY Constants DEF CountTyped
<1>2. Passed(s, k, w)' \subseteq Passed(s, k, w) \cup {r}
  BY DEF Passed, Only, At
<1>3. Gains(Passed(s, k, w), Passed(s, k, w)', r, count[<<s, k, w>>], count'[<<s, k, w>>], Limit(k))
  BY <1>1, <1>2 DEF Over, Gains
<1> QED BY <1>1, <1>3, OneMore DEF PassInv

LEMMA PermitSame ==
  ASSUME NEW p \in Process, PermitInv(p), Inside(p)' = Inside(p), permits'[p] = permits[p]
  PROVE  PermitInv(p)'
BY DEF PermitInv

LEMMA PermitTaken ==
  ASSUME NEW p \in Process, PermitInv(p), NEW r, r \notin Inside(p), permits[p] > 0,
         Inside(p)' = Inside(p) \cup {r}, permits'[p] = permits[p] - 1
  PROVE  PermitInv(p)'
<1>1. /\ IsFiniteSet(Inside(p)) /\ permits[p] \in Nat
      /\ permits[p] + Cardinality(Inside(p)) = Concurrency
  BY DEF PermitInv
<1>2. Cardinality(Inside(p)) \in Nat
  BY <1>1, FS_CardinalityType
<1>3. IsFiniteSet(Inside(p) \cup {r}) /\ Cardinality(Inside(p) \cup {r}) = Cardinality(Inside(p)) + 1
  BY <1>1, FS_AddElement
<1>4. permits'[p] \in Nat /\ permits'[p] + (Cardinality(Inside(p)) + 1) = Concurrency
  BY <1>1, <1>2
<1> QED BY <1>3, <1>4 DEF PermitInv

LEMMA PermitBack ==
  ASSUME NEW p \in Process, PermitInv(p), NEW r, r \in Inside(p),
         Inside(p)' = Inside(p) \ {r}, permits'[p] = permits[p] + 1
  PROVE  PermitInv(p)'
<1>1. /\ IsFiniteSet(Inside(p)) /\ permits[p] \in Nat
      /\ permits[p] + Cardinality(Inside(p)) = Concurrency
  BY DEF PermitInv
<1>2. Cardinality(Inside(p)) \in Nat
  BY <1>1, FS_CardinalityType
<1>3. IsFiniteSet(Inside(p) \ {r}) /\ Cardinality(Inside(p) \ {r}) = Cardinality(Inside(p)) - 1
  BY <1>1, FS_RemoveElement
<1>4. permits'[p] \in Nat /\ permits'[p] + (Cardinality(Inside(p)) - 1) = Concurrency
  BY <1>1, <1>2
<1> QED BY <1>3, <1>4 DEF PermitInv

\* Nobody passes who has not passed before.
LEMMA NobodyPasses ==
  ASSUME ReqShaped, ReqShaped', NEW r \in Request, CountTyped, count' = count,
         req'[r].via = Noone \/ (req'[r].via = req[r].via /\ req'[r].win = req[r].win),
         req'[r].pc # "user"
  PROVE  /\ CountTyped'
         /\ \A s \in Store, k \in Kind, w \in 1..MaxWindow :
              /\ count'[<<s, k, w>>] >= count[<<s, k, w>>]
              /\ ~(r \in Passed(s, k, w)' /\ r \notin Passed(s, k, w))
<1>1. Noone \notin Store
  BY Constants
<1>2. \A s \in Store, k \in Kind, w \in 1..MaxWindow : count[<<s, k, w>>] \in Nat
  BY DEF CountTyped
<1> QED BY <1>1, <1>2 DEF CountTyped, Passed, At

\* Nobody enters a process or leaves it.
LEMMA NobodyEnters ==
  ASSUME \A p \in Process : PermitInv(p), NEW r \in Request, Only(r), permits' = permits,
         req[r].pc # "inside", req'[r].pc # "inside"
  PROVE  \A p \in Process : PermitInv(p)'
<1>1. \A p \in Process : Inside(p)' = Inside(p)
  BY DEF Inside, At, Only
<1> QED BY <1>1, PermitSame

\* What a step of the rate limiter does to the counters.
Admits(r) ==
  /\ CountTyped'
  /\ \A s \in Store, k \in Kind, w \in 1..MaxWindow :
       /\ count'[<<s, k, w>>] >= count[<<s, k, w>>]
       /\ r \in Passed(s, k, w)' /\ r \notin Passed(s, k, w) =>
            count'[<<s, k, w>>] = count[<<s, k, w>>] + 1 /\ ~Over(s, k, w)

\* What a request carries through the rate limiter.
Ruled(r) ==
  /\ req[r].pc \in {"idle", "connect", "ping", "ip", "user"} \/ stage # "gate" => req[r].via = Noone
  /\ stage = "gate" /\ req[r].pc \notin {"idle", "refused", "failed", "config"} =>
       req[r].proc \in Process
  /\ req[r].win \in 1..MaxWindow

GateLeaves(r) ==
  /\ ReqShaped' /\ Only(r) /\ req'[r].pc \in GatePlace
  /\ Admits(r) /\ Ruled(r)'
  /\ DOMAIN permits' = Process /\ \A p \in Process : PermitInv(p)'

\* A step that leaves the counters and the permits alone.
LEMMA GateMoves ==
  ASSUME ReqShaped, ReqShaped', NEW r \in Request, GateInv, Only(r),
         count' = count, permits' = permits,
         req'[r].via = Noone \/ (req'[r].via = req[r].via /\ req'[r].win = req[r].win),
         req'[r].pc \in GatePlace \ {"user", "inside"}, req[r].pc # "inside", Ruled(r)'
  PROVE  GateLeaves(r)
<1>1. CountTyped
  BY DEF GateInv, CountTyped
<1>2. Admits(r)
  BY <1>1, NobodyPasses DEF Admits
<1>3. \A p \in Process : PermitInv(p)'
  BY NobodyEnters DEF GateInv
<1> QED BY <1>2, <1>3 DEF GateLeaves, GateInv

LEMMA GateArrives ==
  ASSUME ReqShaped, PlaceInv, GateInv, stage = "gate", NEW r \in Request, NEW p \in Process,
         Arrive(r, p), UNCHANGED <<stage, window>>
  PROVE  GateLeaves(r)
<1> DEFINE x == [req[r] EXCEPT !.pc = "connect", !.proc = p, !.win = window]
<1>1. req' = [req EXCEPT ![r] = x] /\ DOMAIN x = Field
  BY DEF Arrive, ReqShaped
<1>2. ReqShaped' /\ Only(r) /\ req'[r] = x
  BY <1>1, Shaped
<1>3. x.pc = "connect" /\ x.proc = p /\ x.win = window /\ x.via = req[r].via
  BY DEF ReqShaped, Field
<1>4. window \in 1..MaxWindow
  BY WindowTyped
<1>5. req[r].via = Noone /\ req[r].pc = "idle"
  BY DEF GateInv, Arrive, At
<1>6. Ruled(r)'
  BY <1>2, <1>3, <1>4, <1>5 DEF Ruled
<1> HIDE DEF x
<1> QED BY <1>2, <1>3, <1>5, <1>6, GateMoves DEF Arrive, gateVars, GatePlace

\* Another place, and nothing else.
LEMMA GateTurns ==
  ASSUME ReqShaped, GateInv, stage = "gate", NEW r \in Request, NEW l,
         MoveTo(r, l), l \in {"ping", "ip", "failed"},
         l = "failed" \/ req[r].pc \in {"connect", "ping"},
         req[r].pc \in {"connect", "ping", "permit", "ip", "user"},
         count' = count, permits' = permits, UNCHANGED <<stage, window>>
  PROVE  GateLeaves(r)
<1>1. ReqShaped' /\ Only(r) /\ Carries(r) /\ req'[r].pc = l
  BY Moved
<1>2. Ruled(r)'
  <2>1. req'[r].via = req[r].via /\ req'[r].win = req[r].win /\ req'[r].proc = req[r].proc
    BY <1>1 DEF Carries
  <2>2. req[r].win \in 1..MaxWindow
    BY DEF GateInv
  <2>3. l # "failed" => req[r].via = Noone /\ req[r].proc \in Process
    BY DEF GateInv
  <2> QED BY <1>1, <2>1, <2>2, <2>3 DEF Ruled
<1> QED BY <1>1, <1>2, GateMoves DEF Carries, GatePlace

\* One counter goes up by one.
LEMMA HitCounts ==
  ASSUME NEW s \in Store, NEW k \in Kind, NEW w \in 1..MaxWindow, CountTyped, Hit(s, k, w)
  PROVE  /\ CountTyped'
         /\ count'[<<s, k, w>>] = count[<<s, k, w>>] + 1
         /\ \A t \in Store, j \in Kind, v \in 1..MaxWindow :
              count'[<<t, j, v>>] >= count[<<t, j, v>>]
<1>1. \A x \in Store \X Kind \X (1..MaxWindow) : count[x] \in Nat
  BY DEF CountTyped
<1>2. count[<<s, k, w>>] \in Nat
  BY <1>1
<1>3. CountTyped'
  BY <1>2 DEF CountTyped, Hit
<1>4. \A x \in Store \X Kind \X (1..MaxWindow) :
        count'[x] = IF x = <<s, k, w>> THEN count[x] + 1 ELSE count[x]
  BY DEF CountTyped, Hit
<1>5. \A x \in Store \X Kind \X (1..MaxWindow) : count'[x] >= count[x]
  BY <1>1, <1>4
<1> QED BY <1>3, <1>4, <1>5

LEMMA GateCountsIp ==
  ASSUME ReqShaped, PlaceInv, GateInv, stage = "gate", NEW r \in Request,
         Check(r, "ip"), UNCHANGED <<stage, window>>
  PROVE  GateLeaves(r)
<1> DEFINE next == IF Over("redis", "ip", window) THEN "refused" ELSE "user"
           x == [req[r] EXCEPT !.win = window, !.pc = next]
<1>0. req[r].pc = "ip" /\ req[r].via = Noone /\ req[r].proc \in Process /\ DOMAIN req[r] = Field
  BY DEF GateInv, Check, At, ReqShaped
<1>1. req' = [req EXCEPT ![r] = x] /\ DOMAIN x = Field
  BY <1>0 DEF Check, ReqShaped, Field
<1>2. ReqShaped' /\ Only(r) /\ req'[r] = x
  BY <1>1, Shaped
<1>3. x.pc = next /\ x.win = window /\ x.via = Noone /\ x.proc = req[r].proc
  BY <1>0 DEF Field
<1> HIDE DEF x
<1>4. window \in 1..MaxWindow
  BY WindowTyped
<1>5. "redis" \in Store /\ "ip" \in Kind /\ CountTyped /\ Hit("redis", "ip", window)
  BY DEF Store, Kind, CountTyped, GateInv, Check
<1>6. /\ CountTyped'
      /\ count'[<<"redis", "ip", window>>] = count[<<"redis", "ip", window>>] + 1
      /\ \A t \in Store, j \in Kind, v \in 1..MaxWindow :
              count'[<<t, j, v>>] >= count[<<t, j, v>>]
  BY <1>4, <1>5, HitCounts
<1>7. ASSUME NEW s \in Store, NEW k \in Kind, NEW w \in 1..MaxWindow, r \in Passed(s, k, w)'
      PROVE  s = "redis" /\ k = "ip" /\ w = window /\ ~Over("redis", "ip", window)
  BY <1>2, <1>3, <1>7, Constants DEF Passed, At
<1>8. Admits(r)
  BY <1>6, <1>7 DEF Admits
<1>9. Ruled(r)' /\ req'[r].pc \in GatePlace \ {"inside"}
  BY <1>0, <1>2, <1>3, <1>4 DEF Ruled, GatePlace
<1>10. \A p \in Process : PermitInv(p)'
  BY <1>0, <1>2, <1>9, NobodyEnters DEF GateInv, Check
<1> QED BY <1>2, <1>8, <1>9, <1>10 DEF GateLeaves, GateInv, Check

LEMMA GateCountsUser ==
  ASSUME ReqShaped, PlaceInv, GateInv, stage = "gate", NEW r \in Request,
         Check(r, "user"), UNCHANGED <<stage, window>>
  PROVE  GateLeaves(r)
<1> DEFINE w == req[r].win
           over == Over("redis", "user", req[r].win)
           next == IF over THEN "refused" ELSE "permit"
           x == [req[r] EXCEPT !.win = w, !.pc = next,
                               !.via = IF next = "permit" THEN "redis" ELSE @]
<1>0. /\ req[r].pc = "user" /\ req[r].via = Noone /\ req[r].proc \in Process
      /\ DOMAIN req[r] = Field /\ w \in 1..MaxWindow
  BY DEF GateInv, Check, At, ReqShaped
<1>1. req' = [req EXCEPT ![r] = x] /\ DOMAIN x = Field
  BY <1>0 DEF Check, ReqShaped, Field
<1>2. ReqShaped' /\ Only(r) /\ req'[r] = x
  BY <1>1, Shaped
<1>3. x.pc = next /\ x.win = w /\ x.via = (IF over THEN Noone ELSE "redis") /\ x.proc = req[r].proc
  BY <1>0 DEF Field
<1> HIDE DEF x
<1>5. "redis" \in Store /\ "user" \in Kind /\ CountTyped /\ Hit("redis", "user", w)
  BY DEF Store, Kind, CountTyped, GateInv, Check
<1>6. /\ CountTyped'
      /\ count'[<<"redis", "user", w>>] = count[<<"redis", "user", w>>] + 1
      /\ \A t \in Store, j \in Kind, v \in 1..MaxWindow :
              count'[<<t, j, v>>] >= count[<<t, j, v>>]
  BY <1>0, <1>5, HitCounts
<1> HIDE DEF over
<1>7. ASSUME NEW s \in Store, NEW k \in Kind, NEW v \in 1..MaxWindow, r \in Passed(s, k, v)',
             r \notin Passed(s, k, v)
      PROVE  s = "redis" /\ k = "user" /\ v = w /\ ~over
  BY <1>0, <1>2, <1>3, <1>7, Constants DEF Passed, At, Kind
<1>8. Admits(r)
  BY <1>6, <1>7 DEF Admits, over
<1>9. Ruled(r)' /\ req'[r].pc \in GatePlace \ {"inside"}
  BY <1>0, <1>2, <1>3 DEF Ruled, GatePlace
<1>10. \A p \in Process : PermitInv(p)'
  BY <1>0, <1>2, <1>9, NobodyEnters DEF GateInv, Check
<1> QED BY <1>2, <1>8, <1>9, <1>10 DEF GateLeaves, GateInv, Check

\* Without Redis the process's own counters: the second goes up only when the
\* first lets the request pass.
LEMMA GateFallsBack ==
  ASSUME ReqShaped, PlaceInv, GateInv, stage = "gate", NEW r \in Request,
         FallBack(r), UNCHANGED <<stage, window>>
  PROVE  GateLeaves(r)
<1>0. /\ req[r].pc = "ping" /\ req[r].via = Noone /\ req[r].proc \in Process
      /\ DOMAIN req[r] = Field /\ req[r].win \in 1..MaxWindow
  BY DEF GateInv, FallBack, At, ReqShaped
<1>1. PICK p \in Process : req[r].proc = p
  BY <1>0
<1>2. /\ p \in Store /\ "ip" \in Kind /\ "user" \in Kind /\ CountTyped /\ window \in 1..MaxWindow
      /\ p # Noone
  BY <1>1, WindowTyped, NooneAssumption DEF Store, Kind, CountTyped, GateInv
<1>3. permits' = permits
  BY DEF FallBack
<1>4. CASE Over(p, "ip", window)
  <2>1. MoveTo(r, "refused") /\ Hit(p, "ip", window)
    BY <1>1, <1>4 DEF FallBack
  <2>2. ReqShaped' /\ Only(r) /\ Carries(r) /\ req'[r].pc = "refused"
    BY <2>1, Moved
  <2>3. /\ CountTyped'
        /\ \A t \in Store, j \in Kind, v \in 1..MaxWindow :
              count'[<<t, j, v>>] >= count[<<t, j, v>>]
    BY <1>2, <2>1, HitCounts
  <2>4. \A s \in Store, k \in Kind, w \in 1..MaxWindow : r \notin Passed(s, k, w)'
    BY <1>0, <2>2, Constants DEF Passed, At, Carries
  <2>5. Admits(r)
    BY <2>3, <2>4 DEF Admits
  <2>6. Ruled(r)' /\ req'[r].pc \in GatePlace \ {"inside"}
    BY <1>0, <2>2 DEF Ruled, GatePlace, Carries
  <2>7. \A q \in Process : PermitInv(q)'
    BY <1>0, <1>3, <2>2, <2>6, NobodyEnters DEF GateInv
  <2> QED BY <1>3, <2>2, <2>5, <2>6, <2>7 DEF GateLeaves, GateInv
<1>5. CASE ~Over(p, "ip", window)
  <2>1. count' = [count EXCEPT ![<<p, "ip", window>>] = @ + 1, ![<<p, "user", window>>] = @ + 1]
    BY <1>1, <1>5 DEF FallBack
  <2>2. \A y \in Store \X Kind \X (1..MaxWindow) : count[y] \in Nat
    BY <1>2 DEF CountTyped
  <2>3. \A y \in Store \X Kind \X (1..MaxWindow) :
          count'[y] = IF y = <<p, "ip", window>> \/ y = <<p, "user", window>> THEN count[y] + 1
                      ELSE count[y]
    BY <1>2, <2>1 DEF CountTyped
  <2>4. CountTyped'
    <3>1. count[<<p, "ip", window>>] \in Nat /\ count[<<p, "user", window>>] \in Nat
      BY <1>2, <2>2
    <3> QED BY <1>2, <2>1, <3>1 DEF CountTyped
  <2>5. \A y \in Store \X Kind \X (1..MaxWindow) : count'[y] >= count[y]
    BY <2>2, <2>3
  <2>6. \A k \in Kind : count'[<<p, k, window>>] = count[<<p, k, window>>] + 1
    BY <1>2, <2>3 DEF Kind
  <2>7. CASE Over(p, "user", window)
    <3>1. MoveTo(r, "refused")
      BY <1>1, <1>5, <2>7 DEF FallBack
    <3>2. ReqShaped' /\ Only(r) /\ Carries(r) /\ req'[r].pc = "refused"
      BY <3>1, Moved
    <3>4. \A s \in Store, k \in Kind, w \in 1..MaxWindow : r \notin Passed(s, k, w)'
      BY <1>0, <3>2, Constants DEF Passed, At, Carries
    <3>5. Admits(r)
      BY <2>4, <2>5, <3>4 DEF Admits
    <3>6. Ruled(r)' /\ req'[r].pc \in GatePlace \ {"inside"}
      BY <1>0, <3>2 DEF Ruled, GatePlace, Carries
    <3>7. \A q \in Process : PermitInv(q)'
      BY <1>0, <1>3, <3>2, <3>6, NobodyEnters DEF GateInv
    <3> QED BY <1>3, <3>2, <3>5, <3>6, <3>7 DEF GateLeaves, GateInv
  <2>8. CASE ~Over(p, "user", window)
    <3> DEFINE x == [req[r] EXCEPT !.pc = "permit", !.via = p, !.win = window]
    <3>1. req' = [req EXCEPT ![r] = x] /\ DOMAIN x = Field
      BY <1>0, <1>1, <1>5, <2>8 DEF FallBack, ReqShaped, Field
    <3>2. ReqShaped' /\ Only(r) /\ req'[r] = x
      BY <3>1, Shaped
    <3>3. x.pc = "permit" /\ x.win = window /\ x.via = p /\ x.proc = p
      BY <1>0, <1>1 DEF Field
    <3> HIDE DEF x
    <3>4. ASSUME NEW s \in Store, NEW k \in Kind, NEW w \in 1..MaxWindow, r \in Passed(s, k, w)'
          PROVE  s = p /\ w = window /\ ~Over(p, k, w)
      BY <1>5, <2>8, <3>2, <3>3, <3>4 DEF Passed, At, Kind
    <3>5. Admits(r)
      BY <2>4, <2>5, <2>6, <3>4 DEF Admits
    <3>6. Ruled(r)' /\ req'[r].pc \in GatePlace \ {"inside"}
      BY <1>0, <1>2, <3>2, <3>3 DEF Ruled, GatePlace
    <3>7. \A q \in Process : PermitInv(q)'
      BY <1>0, <1>3, <3>2, <3>6, NobodyEnters DEF GateInv
    <3> QED BY <1>3, <3>2, <3>5, <3>6, <3>7 DEF GateLeaves, GateInv
  <2> QED BY <2>7, <2>8
<1> QED BY <1>4, <1>5

LEMMA GateAcquires ==
  ASSUME ReqShaped, PlaceInv, GateInv, stage = "gate", NEW r \in Request,
         Acquire(r), UNCHANGED <<stage, window>>
  PROVE  GateLeaves(r)
<1>0. /\ req[r].pc = "permit" /\ req[r].proc \in Process /\ req[r].win \in 1..MaxWindow
  BY DEF GateInv, Acquire, At
<1>1. PICK p \in Process : req[r].proc = p
  BY <1>0
<1>2. ReqShaped' /\ Only(r) /\ Carries(r) /\ req'[r].pc = "inside"
  BY Moved DEF Acquire
<1>3. permits[p] > 0 /\ permits' = [permits EXCEPT ![p] = @ - 1] /\ DOMAIN permits = Process
  BY <1>1 DEF Acquire, GateInv
<1>4. CountTyped /\ count' = count
  BY DEF Acquire, GateInv, CountTyped
<1>5. Admits(r)
  BY <1>2, <1>4, NobodyPasses DEF Admits, Carries
<1>6. Ruled(r)' /\ req'[r].pc \in GatePlace
  BY <1>0, <1>2 DEF Ruled, GatePlace, Carries
<1>7. ASSUME NEW q \in Process
      PROVE  PermitInv(q)'
  <2>1. CASE q = p
    <3>1. Inside(p)' = Inside(p) \cup {r} /\ r \notin Inside(p)
      BY <1>0, <1>1, <1>2 DEF Inside, At, Only, Carries
    <3>2. PermitInv(p)'
      BY <1>3, <3>1, PermitTaken DEF GateInv
    <3> QED BY <2>1, <3>2
  <2>2. CASE q # p
    <3>1. Inside(q)' = Inside(q)
      BY <1>0, <1>1, <1>2, <2>2 DEF Inside, At, Only, Carries
    <3> QED BY <1>3, <2>2, <3>1, PermitSame DEF GateInv
  <2> QED BY <2>1, <2>2
<1> QED BY <1>2, <1>3, <1>5, <1>6, <1>7 DEF GateLeaves

\* Both ways out of the route give the permit back.
LEMMA GateGivesBack ==
  ASSUME ReqShaped, PlaceInv, GateInv, stage = "gate", NEW r \in Request,
         RouteRaises(r) \/ Respond(r), UNCHANGED <<stage, window>>
  PROVE  GateLeaves(r)
<1>0. /\ req[r].pc = "inside" /\ req[r].proc \in Process /\ req[r].win \in 1..MaxWindow
  BY DEF GateInv, RouteRaises, Respond, At
<1>1. PICK p \in Process : req[r].proc = p
  BY <1>0
<1>2. ReqShaped' /\ Only(r) /\ Carries(r) /\ req'[r].pc \in {"failed", "config"}
  BY Moved DEF RouteRaises, Respond
<1>3. permits' = [permits EXCEPT ![p] = @ + 1] /\ DOMAIN permits = Process
  BY <1>1 DEF RouteRaises, Respond, GiveBack, GateInv
<1>4. CountTyped /\ count' = count
  BY DEF RouteRaises, Respond, GateInv, CountTyped
<1>5. Admits(r)
  BY <1>2, <1>4, NobodyPasses DEF Admits, Carries
<1>6. Ruled(r)' /\ req'[r].pc \in GatePlace
  BY <1>0, <1>2 DEF Ruled, GatePlace, Carries
<1>7. ASSUME NEW q \in Process
      PROVE  PermitInv(q)'
  <2>1. CASE q = p
    <3>1. Inside(p)' = Inside(p) \ {r} /\ r \in Inside(p)
      BY <1>0, <1>1, <1>2 DEF Inside, At, Only, Carries
    <3>2. PermitInv(p)'
      BY <1>3, <3>1, PermitBack DEF GateInv
    <3> QED BY <2>1, <3>2
  <2>2. CASE q # p
    <3>1. Inside(q)' = Inside(q)
      BY <1>0, <1>1, <1>2, <2>2 DEF Inside, At, Only, Carries
    <3> QED BY <1>3, <2>2, <3>1, PermitSame DEF GateInv
  <2> QED BY <2>1, <2>2
<1> QED BY <1>2, <1>3, <1>5, <1>6, <1>7 DEF GateLeaves

LEMMA GateSteps ==
  ASSUME ReqShaped, PlaceInv, GateInv, stage = "gate", NEW r \in Request,
         GateStep(r), UNCHANGED <<stage, window>>
  PROVE  GateLeaves(r)
<1>1. CASE \E p \in Process : Arrive(r, p)
  BY <1>1, GateArrives
<1>2. CASE Connect(r)
  <2>1. PICK l \in {"ip", "ping"} : MoveTo(r, l)
    BY <1>2 DEF Connect
  <2>2. req[r].pc = "connect" /\ count' = count /\ permits' = permits
    BY <1>2 DEF Connect, At
  <2> QED BY <2>1, <2>2, GateTurns
<1>3. CASE PingAnswered(r)
  BY <1>3, GateTurns DEF PingAnswered, At, gateVars
<1>4. CASE FallBack(r)
  BY <1>4, GateFallsBack
<1>5. CASE \E k \in Kind : Check(r, k)
  BY <1>5, GateCountsIp, GateCountsUser DEF Kind
<1>6. CASE CheckRaises(r)
  BY <1>6, GateTurns DEF CheckRaises, gateVars, Kind
<1>7. CASE Acquire(r)
  BY <1>7, GateAcquires
<1>8. CASE Busy503(r)
  BY <1>8, GateTurns DEF Busy503, At, gateVars
<1>9. CASE RouteRaises(r) \/ Respond(r)
  BY <1>9, GateGivesBack
<1> QED BY <1>1, <1>2, <1>3, <1>4, <1>5, <1>6, <1>7, <1>8, <1>9 DEF GateStep

\* A step that leaves the rate limiter as it should be.
LEMMA GateKept ==
  ASSUME GateInv, NEW r \in Request, GateLeaves(r), stage' = stage
  PROVE  GateInv'
<1>1. CountTyped /\ CountTyped' /\ Only(r)
  BY DEF GateLeaves, GateInv, CountTyped, Admits
<1>2. \A s \in Store, k \in Kind, w \in 1..MaxWindow : PassInv(s, k, w)'
  <2> SUFFICES ASSUME NEW s \in Store, NEW k \in Kind, NEW w \in 1..MaxWindow
               PROVE  PassInv(s, k, w)'
    OBVIOUS
  <2>1. PassInv(s, k, w)
    BY DEF GateInv
  <2>2. /\ count'[<<s, k, w>>] >= count[<<s, k, w>>]
        /\ r \in Passed(s, k, w)' /\ r \notin Passed(s, k, w) =>
             count'[<<s, k, w>>] = count[<<s, k, w>>] + 1 /\ ~Over(s, k, w)
    BY DEF GateLeaves, Admits
  <2> QED BY <1>1, <2>1, <2>2, PassOne
<1>3. \A q \in Request : Ruled(q)'
  <2>1. \A q \in Request \ {r} : Ruled(q)' <=> Ruled(q)
    BY <1>1 DEF Ruled, Only
  <2>2. \A q \in Request : Ruled(q)
    BY DEF GateInv, Ruled
  <2> QED BY <2>1, <2>2 DEF GateLeaves
<1>4. DOMAIN permits' = Process /\ \A p \in Process : PermitInv(p)'
  BY DEF GateLeaves
<1> QED BY <1>1, <1>2, <1>3, <1>4 DEF GateInv, Ruled, CountTyped

-----------------------------------------------------------------------------
(* The other stages, which leave the rate limiter alone                     *)

\* What a request's step does in each of them.
Turns(r, places) ==
  /\ ReqShaped' /\ Only(r) /\ req'[r].pc \in places
  /\ req'[r].via = req[r].via /\ req'[r].win = req[r].win

LEMMA TurnsByMoving ==
  ASSUME ReqShaped, NEW r \in Request, NEW places, NEW l \in places, MoveTo(r, l)
  PROVE  Turns(r, places)
BY Moved DEF Turns, Carries

LEMMA AccessTurns ==
  ASSUME ReqShaped, NEW r \in Request, AccessStep(r)
  PROVE  Turns(r, AccessPlace)
<1>1. ASSUME NEW p \in Process, NEW j \in Token, NEW out \in BOOLEAN, Present(r, p, j, out)
      PROVE  Turns(r, AccessPlace)
  <2> DEFINE x == [req[r] EXCEPT !.pc = "verify", !.proc = p, !.token = j, !.logout = out]
  <2>1. req' = [req EXCEPT ![r] = x] /\ DOMAIN x = Field
    BY <1>1 DEF Present, ReqShaped
  <2>2. ReqShaped' /\ Only(r) /\ req'[r] = x
    BY <2>1, Shaped
  <2>3. x.pc = "verify" /\ x.via = req[r].via /\ x.win = req[r].win
    BY DEF ReqShaped, Field
  <2> HIDE DEF x
  <2> QED BY <2>2, <2>3 DEF Turns, AccessPlace
<1>2. ASSUME ~(\E p \in Process, j \in Token, out \in BOOLEAN : Present(r, p, j, out))
      PROVE  \E l \in AccessPlace : MoveTo(r, l)
  <2>1. \A found : Looked(r, found) \in AccessPlace
    BY DEF Looked, AccessPlace
  <2>2. CASE Verify(r)
    BY <2>1, <2>2 DEF Verify, LookInMemory, AccessPlace
  <2>3. CASE Greeted(r)
    BY <2>3 DEF Greeted, AccessPlace
  <2>4. CASE NotGreeted(r)
    BY <2>1, <2>4 DEF NotGreeted, LookInMemory
  <2>5. CASE Look(r)
    BY <2>1, <2>5 DEF Look
  <2>6. CASE LookRaises(r)
    BY <2>6 DEF LookRaises, AccessPlace
  <2>7. CASE Blacklist(r)
    BY <2>7 DEF Blacklist, AccessPlace
  <2>8. CASE Sweep(r)
    BY <2>8 DEF Sweep, AccessPlace
  <2> QED BY <1>2, <2>2, <2>3, <2>4, <2>5, <2>6, <2>7, <2>8 DEF AccessStep
<1> QED BY <1>1, <1>2, TurnsByMoving

\* No step leads to a prompt's making.
LEMMA QuotaTurns ==
  ASSUME ReqShaped, NEW r \in Request, QuotaStep(r)
  PROVE  Turns(r, QuotaPlace \ {"prompt"})
<1>1. ASSUME NEW x, DOMAIN x = Field, req' = [req EXCEPT ![r] = x], x.pc \in QuotaPlace \ {"prompt"},
             x.via = req[r].via, x.win = req[r].win
      PROVE  Turns(r, QuotaPlace \ {"prompt"})
  BY <1>1, Shaped DEF Turns
<1>2. ASSUME NEW l \in QuotaPlace \ {"prompt"}, MoveTo(r, l)
      PROVE  Turns(r, QuotaPlace \ {"prompt"})
  BY <1>2, TurnsByMoving
<1>3. CASE Compose(r)
  <2>1. PICK h \in History, a \in Size :
               req' = [req EXCEPT ![r].pc = "minute", ![r].asked = a, ![r].prompt =
                 <<1>> \o (IF req[r].docs = {} THEN <<>> ELSE <<1>>) \o h \o <<a>>]
    BY <1>3, Zenon DEF Compose
  <2> DEFINE m == <<1>> \o (IF req[r].docs = {} THEN <<>> ELSE <<1>>) \o h \o <<a>>
             x == [req[r] EXCEPT !.pc = "minute", !.asked = a, !.prompt = m]
  <2>2. req' = [req EXCEPT ![r] = x]
    BY <2>1 DEF ReqShaped
  <2> HIDE DEF m
  <2>3. DOMAIN x = Field /\ x.pc = "minute" /\ x.via = req[r].via /\ x.win = req[r].win
    BY DEF ReqShaped, Field
  <2> HIDE DEF x
  <2> QED BY <1>1, <2>2, <2>3 DEF QuotaPlace
<1>4. CASE CheckMinute(r)
  <2>1. PICK l \in {"failed", "daily"} : MoveTo(r, l)
    BY <1>4 DEF CheckMinute
  <2> QED BY <1>2, <2>1 DEF QuotaPlace
<1>5. CASE CheckDaily(r)
  <2> DEFINE n == CountMessages(req[r].prompt)
             m == IF n > MaxPrompt THEN Truncate(req[r].prompt, MaxPrompt, 2) ELSE req[r].prompt
             x == [req[r] EXCEPT !.pc = "stream", !.tokens = n, !.prompt = m]
  <2>1. MoveTo(r, "failed") \/ req' = [req EXCEPT ![r] = x]
    BY <1>5 DEF CheckDaily, ReqShaped
  <2> HIDE DEF n, m
  <2>2. DOMAIN x = Field /\ x.pc = "stream" /\ x.via = req[r].via /\ x.win = req[r].win
    BY DEF ReqShaped, Field
  <2> HIDE DEF x
  <2> QED BY <1>1, <1>2, <2>1, <2>2 DEF QuotaPlace
<1>6. CASE Answer(r)
  <2>1. PICK o \in Output : req' = [req EXCEPT ![r].pc = "charge", ![r].tokens = @ + o,
                                               ![r].long = o > Estimate]
    BY <1>6, Zenon DEF Answer
  <2> DEFINE t == req[r].tokens + o
             b == o > Estimate
             x == [req[r] EXCEPT !.pc = "charge", !.tokens = t, !.long = b]
  <2>2. req' = [req EXCEPT ![r] = x]
    BY <2>1 DEF ReqShaped
  <2> HIDE DEF t, b
  <2>3. DOMAIN x = Field /\ x.pc = "charge" /\ x.via = req[r].via /\ x.win = req[r].win
    BY DEF ReqShaped, Field
  <2> HIDE DEF x
  <2> QED BY <1>1, <2>2, <2>3 DEF QuotaPlace
<1>7. CASE NoAnswer(r)
  BY <1>2, <1>7 DEF NoAnswer, QuotaPlace
<1>8. CASE ChargeMinute(r)
  <2>1. PICK l \in {"overdrawn", "chargeDaily"} : MoveTo(r, l)
    BY <1>8 DEF ChargeMinute
  <2> QED BY <1>2, <2>1 DEF QuotaPlace
<1>9. CASE ChargeDaily(r)
  <2>1. PICK l \in {"overdrawn", "done"} : MoveTo(r, l)
    BY <1>9 DEF ChargeDaily
  <2> QED BY <1>2, <2>1 DEF QuotaPlace
<1> QED BY <1>3, <1>4, <1>5, <1>6, <1>7, <1>8, <1>9 DEF QuotaStep

LEMMA SourceTurns ==
  ASSUME ReqShaped, NEW r \in Request, SourceStep(r)
  PROVE  Turns(r, SourcePlace)
<1>1. ASSUME NEW x, DOMAIN x = Field, req' = [req EXCEPT ![r] = x], x.pc \in SourcePlace,
             x.via = req[r].via, x.win = req[r].win
      PROVE  Turns(r, SourcePlace)
  BY <1>1, Shaped DEF Turns
<1>2. CASE Resolve(r)
  <2> DEFINE g == IF Mine = {} THEN "default" ELSE "experiment"
             s == IF Mine = {} THEN Plain ELSE (CHOOSE e \in Mine : TRUE).setting
             x == [req[r] EXCEPT !.pc = "lookup", !.group = g, !.setting = s]
  <2>2. req' = [req EXCEPT ![r] = x]
    BY <1>2 DEF Resolve, ReqShaped
  <2> HIDE DEF g, s
  <2>3. DOMAIN x = Field /\ x.pc = "lookup" /\ x.via = req[r].via /\ x.win = req[r].win
    BY DEF ReqShaped, Field
  <2> HIDE DEF x
  <2> QED BY <1>1, <2>2, <2>3 DEF SourcePlace
<1>3. CASE CacheHit(r)
  <2>1. PICK e \in cache[req[r].group] :
       req' = [req EXCEPT ![r].pc = "prompt", ![r].docs = e.docs, ![r].setting = e.setting]
    BY <1>3, Zenon DEF CacheHit
  <2> DEFINE x == [req[r] EXCEPT !.pc = "prompt", !.docs = e.docs, !.setting = e.setting]
  <2>2. req' = [req EXCEPT ![r] = x]
    BY <2>1 DEF ReqShaped
  <2>3. DOMAIN x = Field /\ x.pc = "prompt" /\ x.via = req[r].via /\ x.win = req[r].win
    BY DEF ReqShaped, Field
  <2> HIDE DEF x
  <2> QED BY <1>1, <2>2, <2>3 DEF SourcePlace
<1>4. CASE Search(r)
  <2> DEFINE x == [req[r] EXCEPT !.pc = "put", !.docs = docs]
  <2>2. req' = [req EXCEPT ![r] = x]
    BY <1>4 DEF Search, ReqShaped
  <2>3. DOMAIN x = Field /\ x.pc = "put" /\ x.via = req[r].via /\ x.win = req[r].win
    BY DEF ReqShaped, Field
  <2> HIDE DEF x
  <2> QED BY <1>1, <2>2, <2>3 DEF SourcePlace
<1>5. CASE CacheMiss(r) \/ CachePut(r) \/ RetrievalFails(r)
  <2>1. PICK l \in {"search", "prompt", "failed"} : MoveTo(r, l)
    BY <1>5 DEF CacheMiss, CachePut, RetrievalFails
  <2> QED BY <2>1, TurnsByMoving DEF SourcePlace
<1> QED BY <1>2, <1>3, <1>4, <1>5 DEF SourceStep

LEMMA RatingTurns ==
  ASSUME ReqShaped, NEW r \in Request, RatingStep(r)
  PROVE  Turns(r, RatingPlace)
<1>1. ASSUME NEW e \in Experiment, FindRow(r, e)
      PROVE  Turns(r, RatingPlace)
  <2> DEFINE x == [req[r] EXCEPT !.pc = "delete", !.token = e]
  <2>1. req' = [req EXCEPT ![r] = x] /\ DOMAIN x = Field
    BY <1>1 DEF FindRow, ReqShaped
  <2>2. ReqShaped' /\ Only(r) /\ req'[r] = x
    BY <2>1, Shaped
  <2>3. x.pc = "delete" /\ x.via = req[r].via /\ x.win = req[r].win
    BY DEF ReqShaped, Field
  <2> HIDE DEF x
  <2> QED BY <2>2, <2>3 DEF Turns, RatingPlace
<1>2. ASSUME ~(\E e \in Experiment : FindRow(r, e))
      PROVE  \E l \in RatingPlace : MoveTo(r, l)
  BY <1>2 DEF RatingStep, Create, Delete, Rate, RateRaises, CountExperiments, CountControl,
              RatingPlace
<1> QED BY <1>1, <1>2, TurnsByMoving

\* The rate limiter's part in the other stages, and when nothing of it changes.
GateAlone ==
  /\ count' = count /\ permits' = permits
  /\ \A q \in Request : req'[q].via = req[q].via /\ req'[q].win = req[q].win

LEMMA GateApart ==
  ASSUME PlaceInv, PlaceInv', GateInv, stage # "gate", stage' = stage, GateAlone
  PROVE  GateInv'
<1>1. \A r \in Request : /\ req[r].pc # "user" /\ req'[r].pc # "user"
                         /\ req[r].pc # "inside" /\ req'[r].pc # "inside"
  BY DEF PlaceInv, AccessPlace, SourcePlace, QuotaPlace, RatingPlace
<1>2. \A s, k, w : Passed(s, k, w)' = Passed(s, k, w)
  BY <1>1 DEF Passed, At, GateAlone
<1>3. \A p : Inside(p)' = Inside(p)
  BY <1>1 DEF Inside, At
<1>4. \A s \in Store, k \in Kind, w \in 1..MaxWindow : PassInv(s, k, w)'
  <2>1. \A s \in Store, k \in Kind, w \in 1..MaxWindow : count'[<<s, k, w>>] = count[<<s, k, w>>]
    BY DEF GateAlone
  <2> QED BY <1>2, <2>1 DEF PassInv, GateInv
<1>5. \A p \in Process : PermitInv(p)'
  BY <1>3, PermitSame DEF GateInv, GateAlone
<1>6. count' \in [Store \X Kind \X (1..MaxWindow) -> Nat] /\ DOMAIN permits' = Process
  BY DEF GateInv, GateAlone
<1>7. \A r \in Request : req'[r].via = Noone /\ req'[r].win \in 1..MaxWindow
  BY DEF GateInv, GateAlone
<1> QED BY <1>4, <1>5, <1>6, <1>7 DEF GateInv

LEMMA GateSame ==
  ASSUME GateInv, stage' = stage, GateAlone,
         \A q \in Request : req'[q].pc = req[q].pc /\ req'[q].proc = req[q].proc
  PROVE  GateInv'
<1>2. \A s, k, w : Passed(s, k, w)' = Passed(s, k, w)
  BY DEF Passed, At, GateAlone
<1>3. \A p : Inside(p)' = Inside(p)
  BY DEF Inside, At
<1>4. \A s \in Store, k \in Kind, w \in 1..MaxWindow : PassInv(s, k, w)'
  <2>1. \A s \in Store, k \in Kind, w \in 1..MaxWindow : count'[<<s, k, w>>] = count[<<s, k, w>>]
    BY DEF GateAlone
  <2> QED BY <1>2, <2>1 DEF PassInv, GateInv
<1>5. \A p \in Process : PermitInv(p)'
  BY <1>3, PermitSame DEF GateInv, GateAlone
<1>6. count' \in [Store \X Kind \X (1..MaxWindow) -> Nat] /\ DOMAIN permits' = Process
  BY DEF GateInv, GateAlone
<1>7. \A r \in Request : Ruled(r)'
  BY DEF GateInv, Ruled, GateAlone
<1> QED BY <1>4, <1>5, <1>6, <1>7 DEF GateInv, Ruled

\* The stage's own places.
PlacesOf(t) ==
  IF t = "gate" THEN GatePlace ELSE IF t = "access" THEN AccessPlace
  ELSE IF t = "source" THEN SourcePlace ELSE IF t = "quota" THEN QuotaPlace ELSE RatingPlace

LEMMA PlaceKept ==
  ASSUME PlaceInv, stage' = stage, window' \in 1..LastWindow[stage],
         \A q \in Request : req'[q].pc = req[q].pc \/ req'[q].pc \in PlacesOf(stage)
  PROVE  PlaceInv'
BY DEF PlaceInv, PlacesOf

-----------------------------------------------------------------------------
(* The sources                                                              *)

\* What the invariant says in the stage of the sources, without the stage.
SourcesFit ==
  /\ since \in [Aspect -> Nat]
  /\ DOMAIN cache = Group
  /\ \A r \in Request : HoldInv(r)
  /\ \A r \in Request : At(r, "config") => req[r].held = 0
  /\ \A r \in Request : req[r].group \in Group
  /\ \A g \in Group : \A e \in cache[g] : EntryInv(e)

\* What a request's step has to keep of it.
SourceRuled(r) ==
  HoldInv(r) /\ (At(r, "config") => req[r].held = 0) /\ req[r].group \in Group

\* A request's step changes nothing but the request and the cache.
LEMMA SourceKept ==
  ASSUME SourcesFit, NEW r \in Request, Only(r), UNCHANGED <<docs, experiment, since>>,
         DOMAIN cache' = Group, SourceRuled(r)',
         \A g \in Group : \A e \in cache'[g] : e \in cache[g] \/ EntryInv(e)
  PROVE  SourcesFit'
<1>1. \A e : EntryInv(e)' <=> EntryInv(e)
  BY DEF EntryInv, Differs, Fits, Mine
<1>2. \A q \in Request \ {r} : SourceRuled(q)' <=> SourceRuled(q)
  BY DEF SourceRuled, HoldInv, Retrieving, At, Differs, Fits, Mine, Only
<1>3. \A q \in Request : SourceRuled(q)
  BY DEF SourcesFit, SourceRuled
<1>4. \A q \in Request : SourceRuled(q)'
  BY <1>2, <1>3
<1>5. \A g \in Group : \A e \in cache'[g] : EntryInv(e)'
  BY <1>1 DEF SourcesFit
<1> QED BY <1>4, <1>5 DEF SourcesFit, SourceRuled

LEMMA ResolveKeeps ==
  ASSUME ReqShaped, SourcesFit, NEW r \in Request, Resolve(r)
  PROVE  SourcesFit'
<1>1. \E g, s : /\ req' = [req EXCEPT ![r].pc = "lookup", ![r].group = g, ![r].setting = s]
                /\ g \in Group /\ Fits(s)
  <2> DEFINE g == IF Mine = {} THEN "default" ELSE "experiment"
             s == IF Mine = {} THEN Plain ELSE (CHOOSE e \in Mine : TRUE).setting
  <2>1. req' = [req EXCEPT ![r].pc = "lookup", ![r].group = g, ![r].setting = s]
    BY DEF Resolve
  <2>2. Mine = {} \/ (CHOOSE e \in Mine : TRUE) \in Mine
    OBVIOUS
  <2>3. g \in Group /\ Fits(s)
    BY <2>2 DEF Group, Fits
  <2> HIDE DEF g, s
  <2> QED BY <2>1, <2>3
<1>2. PICK g, s : /\ req' = [req EXCEPT ![r].pc = "lookup", ![r].group = g, ![r].setting = s]
                  /\ g \in Group /\ Fits(s)
  BY <1>1
<1> DEFINE x == [req[r] EXCEPT !.pc = "lookup", !.group = g, !.setting = s]
<1>3. /\ DOMAIN x = Field /\ x.pc = "lookup" /\ x.group = g /\ x.setting = s
      /\ x.held = req[r].held
  BY DEF ReqShaped, Field
<1>4. ReqShaped' /\ Only(r) /\ req'[r] = x
  <2>1. req' = [req EXCEPT ![r] = x]
    BY <1>2 DEF ReqShaped
  <2> HIDE DEF x
  <2> QED BY <1>3, <2>1, Shaped
<1> HIDE DEF x
<1>5. UNCHANGED sourceVars /\ req[r].held = 0 /\ 0 \in 0..MaxHold
  <2>1. MaxHold \in Nat
    BY RetrievalAssumption
  <2>2. At(r, "config") /\ UNCHANGED sourceVars
    BY Zenon DEF Resolve
  <2> QED BY <2>1, <2>2 DEF SourcesFit
<1>6. Fits(s)'
  BY <1>2, <1>5 DEF Fits, Mine, sourceVars
<1>7. SourceRuled(r)'
  <2>1. /\ req'[r].pc = "lookup" /\ req'[r].group \in Group /\ req'[r].setting = s
        /\ req'[r].held \in 0..MaxHold
    BY <1>2, <1>3, <1>4, <1>5
  <2> QED BY <1>6, <2>1 DEF SourceRuled, HoldInv, Retrieving, At, Fits
<1> QED BY <1>4, <1>5, <1>7, SourceKept DEF sourceVars, SourcesFit

\* An answer from the cache leaves the retrieval.
LEMMA CacheHitKeeps ==
  ASSUME ReqShaped, SourcesFit, NEW r \in Request, CacheHit(r)
  PROVE  SourcesFit'
<1>1. PICK e \in cache[req[r].group] :
     req' = [req EXCEPT ![r].pc = "prompt", ![r].docs = e.docs, ![r].setting = e.setting]
  BY Zenon DEF CacheHit
<1> DEFINE x == [req[r] EXCEPT !.pc = "prompt", !.docs = e.docs, !.setting = e.setting]
<1>2. req' = [req EXCEPT ![r] = x]
  BY <1>1 DEF ReqShaped
<1>3. DOMAIN x = Field /\ x.pc = "prompt" /\ x.group = req[r].group
  BY DEF ReqShaped, Field
<1> HIDE DEF x
<1>4. ReqShaped' /\ Only(r) /\ req'[r] = x
  BY <1>2, <1>3, Shaped
<1>5. UNCHANGED sourceVars /\ req[r].group \in Group
  BY DEF CacheHit, SourcesFit
<1>6. SourceRuled(r)'
  BY <1>3, <1>4, <1>5 DEF SourceRuled, HoldInv, Retrieving, At
<1> QED BY <1>4, <1>5, <1>6, SourceKept DEF sourceVars, SourcesFit

LEMMA SearchKeeps ==
  ASSUME ReqShaped, SourcesFit, NEW r \in Request, Search(r)
  PROVE  SourcesFit'
<1> DEFINE x == [req[r] EXCEPT !.pc = "put", !.docs = docs]
<1>1. req' = [req EXCEPT ![r] = x]
  BY DEF Search, ReqShaped
<1>2. /\ DOMAIN x = Field /\ x.pc = "put" /\ x.group = req[r].group /\ x.docs = docs
      /\ x.setting = req[r].setting /\ x.held = req[r].held
  BY DEF ReqShaped, Field
<1> HIDE DEF x
<1>3. ReqShaped' /\ Only(r) /\ req'[r] = x
  BY <1>1, <1>2, Shaped
<1>4. UNCHANGED sourceVars /\ SourceRuled(r) /\ Retrieving(r)
  BY DEF Search, SourcesFit, SourceRuled, Retrieving, At
<1>5. SourceRuled(r)'
  <2>1. /\ req'[r].pc = "put" /\ req'[r].group = req[r].group /\ req'[r].docs = docs'
        /\ req'[r].setting = req[r].setting /\ req'[r].held = req[r].held
        /\ since' = since /\ experiment' = experiment
    BY <1>2, <1>3, <1>4 DEF sourceVars
  <2>2. /\ req[r].held \in 0..MaxHold /\ req[r].group \in Group
        /\ ~Fits(req[r].setting) => since["experiment"] <= req[r].held
    BY <1>4 DEF SourceRuled, HoldInv
  <2>3. Fits(req[r].setting)' <=> Fits(req[r].setting)
    BY <2>1 DEF Fits, Mine
  <2> QED BY <2>1, <2>2, <2>3 DEF SourceRuled, HoldInv, At, Differs
<1> QED BY <1>3, <1>4, <1>5, SourceKept DEF sourceVars, SourcesFit

\* A new entry is as far behind as what was retrieved, and has all its time.
LEMMA CachePutKeeps ==
  ASSUME ReqShaped, SourcesFit, NEW r \in Request, CachePut(r)
  PROVE  SourcesFit'
<1> DEFINE x == [docs |-> req[r].docs, setting |-> req[r].setting, left |-> CacheTtl]
<1>1. ReqShaped' /\ Only(r) /\ Carries(r) /\ req'[r].pc = "prompt"
  BY Moved DEF CachePut
<1>2. /\ cache' = [cache EXCEPT ![req[r].group] = {x}]
      /\ UNCHANGED <<docs, experiment, since>> /\ DOMAIN cache = Group /\ req[r].group \in Group
      /\ HoldInv(r) /\ Retrieving(r) /\ At(r, "put")
  BY DEF CachePut, SourcesFit, Retrieving, At
<1>3. CacheTtl \in Nat /\ MaxHold \in Nat /\ "experiment" \in Aspect /\ Doc \subseteq Aspect
      /\ since \in [Aspect -> Nat]
  BY RetrievalAssumption DEF Aspect, SourcesFit
<1>4. EntryInv(x)
  <2>1. /\ req[r].held \in 0..MaxHold
        /\ \A d \in Doc : Differs(d, req[r].docs) => since[d] <= req[r].held
        /\ ~Fits(req[r].setting) => since["experiment"] <= req[r].held
    BY <1>2 DEF HoldInv
  <2>2. \A a \in Aspect : since[a] \in Nat
    BY <1>3
  <2>3. \A a \in Aspect : since[a] <= req[r].held => since[a] + CacheTtl <= CacheTtl + MaxHold
    BY <1>3, <2>1, <2>2
  <2>4. DOMAIN x = {"docs", "setting", "left"} /\ x.docs = req[r].docs /\ x.setting = req[r].setting /\ x.left = CacheTtl
    OBVIOUS
  <2> HIDE DEF x
  <2> QED BY <1>3, <2>1, <2>3, <2>4 DEF EntryInv
<1>5. SourceRuled(r)'
  BY <1>1, <1>2 DEF SourceRuled, HoldInv, Retrieving, At, Carries
<1> HIDE DEF x
<1>6. \A g \in Group : \A e \in cache'[g] : e \in cache[g] \/ EntryInv(e)
  BY <1>2, <1>4
<1>7. DOMAIN cache' = Group
  BY <1>2
<1> QED BY <1>1, <1>2, <1>5, <1>6, <1>7, SourceKept

LEMMA SourceSteps ==
  ASSUME ReqShaped, SourcesFit, NEW r \in Request, SourceStep(r)
  PROVE  SourcesFit'
<1>1. CASE CacheMiss(r)
  <2>1. ReqShaped' /\ Only(r) /\ Carries(r) /\ req'[r].pc = "search" /\ UNCHANGED sourceVars
    BY <1>1, Moved DEF CacheMiss
  <2>2. SourceRuled(r) /\ Retrieving(r)
    BY <1>1 DEF CacheMiss, SourcesFit, SourceRuled, Retrieving, At
  <2>3. Fits(req[r].setting)' <=> Fits(req[r].setting)
    BY <2>1 DEF Fits, Mine, sourceVars, Carries
  <2>4. SourceRuled(r)'
    BY <2>1, <2>2, <2>3 DEF SourceRuled, HoldInv, At, Carries, sourceVars
  <2> QED BY <2>1, <2>4, SourceKept DEF sourceVars, SourcesFit
<1>2. CASE RetrievalFails(r)
  <2>1. ReqShaped' /\ Only(r) /\ Carries(r) /\ req'[r].pc = "failed" /\ UNCHANGED sourceVars
    BY <1>2, Moved DEF RetrievalFails
  <2>2. SourceRuled(r)'
    BY <2>1 DEF SourceRuled, HoldInv, Retrieving, At, Carries, SourcesFit
  <2> QED BY <2>1, <2>2, SourceKept DEF sourceVars, SourcesFit
<1> QED BY <1>1, <1>2, ResolveKeeps, CacheHitKeeps, SearchKeeps, CachePutKeeps DEF SourceStep

\* A change of what is retrieved is no minute old; what it does not change is as
\* far behind as before.
LEMMA ChangeKeeps ==
  ASSUME SourcesFit, SourcesChange
  PROVE  SourcesFit'
<1>1. /\ req' = req /\ cache' = cache
      /\ \E a \in Aspect :
           /\ since' = [since EXCEPT ![a] = 0]
           /\ \A d \in Doc : d # a => (d \in docs' <=> d \in docs)
           /\ a # "experiment" => experiment' = experiment
  <2>1. CASE \E d \in Doc : DocumentReady(d) \/ DocumentDeleted(d)
    BY <2>1 DEF DocumentReady, DocumentDeleted, Changed, Aspect
  <2>2. CASE CreateExperiment \/ UpdateExperiment \/ DeleteExperiment
    BY <2>2 DEF CreateExperiment, UpdateExperiment, DeleteExperiment, Changed, Aspect
  <2> QED BY <2>1, <2>2 DEF SourcesChange
<1>2. PICK a \in Aspect :
        /\ since' = [since EXCEPT ![a] = 0]
        /\ \A d \in Doc : d # a => (d \in docs' <=> d \in docs)
        /\ a # "experiment" => experiment' = experiment
  BY <1>1
<1>3. since \in [Aspect -> Nat] /\ "experiment" \in Aspect /\ Doc \subseteq Aspect
  BY DEF SourcesFit, Aspect
<1>4. /\ since' \in [Aspect -> Nat] /\ since'[a] = 0
      /\ \A b \in Aspect : b # a => since'[b] = since[b]
  BY <1>2, <1>3
<1>5. /\ \A d \in Doc : \A found : d = a \/ (Differs(d, found)' <=> Differs(d, found))
      /\ \A setting : "experiment" = a \/ (Fits(setting)' <=> Fits(setting))
  BY <1>2 DEF Differs, Fits, Mine
<1>6. ASSUME NEW r \in Request
      PROVE  HoldInv(r)'
  <2> SUFFICES ASSUME Retrieving(r)
               PROVE  /\ req[r].held \in 0..MaxHold
                      /\ At(r, "put") => \A d \in Doc : Differs(d, req[r].docs)' => since'[d] <= req[r].held
                      /\ ~Fits(req[r].setting)' => since'["experiment"] <= req[r].held
    <3>1. /\ Retrieving(r)' <=> Retrieving(r)
          /\ At(r, "put")' <=> At(r, "put")
          /\ req'[r] = req[r]
      BY <1>1 DEF Retrieving, At
    <3> QED BY <1>1, <3>1 DEF HoldInv
  <2>1. /\ req[r].held \in 0..MaxHold
        /\ At(r, "put") => \A d \in Doc : Differs(d, req[r].docs) => since[d] <= req[r].held
        /\ ~Fits(req[r].setting) => since["experiment"] <= req[r].held
    BY DEF SourcesFit, HoldInv
  <2>2. ASSUME At(r, "put"), NEW d \in Doc, Differs(d, req[r].docs)'
        PROVE  since'[d] <= req[r].held
    <3>1. CASE d = a
      BY <1>4, <2>1, <3>1
    <3>2. CASE d # a
      <4>1. Differs(d, req[r].docs)
        BY <1>1, <1>2, <2>2, <3>2 DEF Differs
      <4> QED BY <1>3, <1>4, <2>1, <2>2, <3>2, <4>1
    <3> QED BY <3>1, <3>2
  <2>3. ASSUME ~Fits(req[r].setting)'
        PROVE  since'["experiment"] <= req[r].held
    <3>1. CASE a = "experiment"
      BY <1>4, <2>1, <3>1
    <3>2. CASE a # "experiment"
      <4>1. ~Fits(req[r].setting)
        BY <1>1, <1>2, <2>3, <3>2 DEF Fits, Mine
      <4> QED BY <1>3, <1>4, <2>1, <3>2, <4>1
    <3> QED BY <3>1, <3>2
  <2> QED BY <2>1, <2>2, <2>3
<1>7. ASSUME NEW g \in Group, NEW e \in cache[g]
      PROVE  EntryInv(e)'
  <2>0. CacheTtl \in Nat /\ MaxHold \in Nat
    BY RetrievalAssumption
  <2>1. EntryInv(e)
    BY DEF SourcesFit
  <2>2. /\ DOMAIN e = {"docs", "setting", "left"}
        /\ e.left \in 0..CacheTtl /\ 0 + e.left <= CacheTtl + MaxHold
        /\ \A d \in Doc : Differs(d, e.docs) => since[d] + e.left <= CacheTtl + MaxHold
        /\ ~Fits(e.setting) => since["experiment"] + e.left <= CacheTtl + MaxHold
    BY <2>0, <2>1 DEF EntryInv
  <2>3. ASSUME NEW d \in Doc, Differs(d, e.docs)'
        PROVE  since'[d] + e.left <= CacheTtl + MaxHold
    BY <1>3, <1>4, <1>5, <2>2, <2>3
  <2>4. ASSUME ~Fits(e.setting)'
        PROVE  since'["experiment"] + e.left <= CacheTtl + MaxHold
    BY <1>3, <1>4, <1>5, <2>2, <2>4
  <2> QED BY <2>2, <2>3, <2>4 DEF EntryInv
<1>8. /\ DOMAIN cache' = Group /\ \A r \in Request : req'[r].group \in Group
      /\ \A r \in Request : At(r, "config")' => req'[r].held = 0
  BY <1>1 DEF SourcesFit, At
<1> QED BY <1>1, <1>4, <1>6, <1>7, <1>8 DEF SourcesFit

\* A minute makes older by one what differs, what is retrieved and the entries.
LEMMA MinuteKeeps ==
  ASSUME ReqShaped, SourcesFit, Age, UNCHANGED <<docs, experiment>>,
         \A r \in Request : Retrieving(r) => req[r].held < MaxHold,
         req' = [r \in Request |-> IF Retrieving(r) THEN [req[r] EXCEPT !.held = @ + 1] ELSE req[r]]
  PROVE  SourcesFit'
<1>1. CacheTtl \in Nat /\ MaxHold \in Nat /\ Stale \in Nat
  BY RetrievalAssumption DEF Stale
<1>2. since \in [Aspect -> Nat] /\ "experiment" \in Aspect /\ Doc \subseteq Aspect
  BY DEF SourcesFit, Aspect
<1>3. \A a \in Aspect : since'[a] \in Nat /\ since'[a] <= since[a] + 1
  <2>1. \A a \in Aspect : since'[a] = IF since[a] < Stale THEN since[a] + 1 ELSE Stale
    BY DEF Age
  <2> QED BY <1>1, <1>2, <2>1
<1>4. since' \in [Aspect -> Nat]
  BY <1>3 DEF Age
<1>5. /\ \A d, found : Differs(d, found)' <=> Differs(d, found)
      /\ \A setting : Fits(setting)' <=> Fits(setting)
  BY DEF Differs, Fits, Mine
<1>6. ASSUME NEW r \in Request
      PROVE  SourceRuled(r)'
  <2>1. SourceRuled(r) /\ DOMAIN req[r] = Field
    BY DEF SourcesFit, SourceRuled, ReqShaped
  <2>2. CASE ~Retrieving(r)
    <3>1. req'[r] = req[r]
      BY <2>2
    <3> QED BY <2>1, <2>2, <3>1 DEF SourceRuled, HoldInv, Retrieving, At
  <2>3. CASE Retrieving(r)
    <3> DEFINE x == [req[r] EXCEPT !.held = @ + 1]
    <3>1. req'[r] = x
      BY <2>3
    <3>2. /\ x.pc = req[r].pc /\ x.docs = req[r].docs /\ x.setting = req[r].setting
          /\ x.group = req[r].group /\ x.held = req[r].held + 1
      BY <2>1 DEF Field
    <3> HIDE DEF x
    <3>3. req[r].held \in 0..MaxHold /\ req[r].held < MaxHold
      BY <2>1, <2>3 DEF SourceRuled, HoldInv
    <3>4. req'[r].held = req[r].held + 1 /\ req'[r].held \in 0..MaxHold
      BY <1>1, <3>1, <3>2, <3>3
    <3>5. At(r, "put")' => \A d \in Doc : Differs(d, req[r].docs) => since'[d] <= req'[r].held
      <4> SUFFICES ASSUME At(r, "put")', NEW d \in Doc, Differs(d, req[r].docs)
                   PROVE  since'[d] <= req'[r].held
        OBVIOUS
      <4>1. since[d] <= req[r].held
        BY <2>1, <2>3, <3>1, <3>2 DEF SourceRuled, HoldInv, At
      <4> QED BY <1>2, <1>3, <3>3, <3>4, <4>1
    <3>6. ~Fits(req[r].setting) => since'["experiment"] <= req'[r].held
      <4> SUFFICES ASSUME ~Fits(req[r].setting)
                   PROVE  since'["experiment"] <= req'[r].held
        OBVIOUS
      <4>1. since["experiment"] <= req[r].held
        BY <2>1, <2>3 DEF SourceRuled, HoldInv
      <4> QED BY <1>2, <1>3, <3>3, <3>4, <4>1
    <3>7. /\ req'[r].docs = req[r].docs /\ req'[r].setting = req[r].setting
          /\ req'[r].pc = req[r].pc /\ req'[r].group = req[r].group
      BY <3>1, <3>2
    <3>8. HoldInv(r)'
      BY <1>5, <3>4, <3>5, <3>6, <3>7 DEF HoldInv, Differs, Fits, Mine
    <3> QED BY <2>1, <2>3, <3>7, <3>8 DEF SourceRuled, Retrieving, At
  <2> QED BY <2>2, <2>3
<1>7. ASSUME NEW g \in Group, NEW e \in cache'[g]
      PROVE  EntryInv(e)'
  <2>1. PICK y \in cache[g] : y.left > 0 /\ e = [y EXCEPT !.left = @ - 1]
    BY DEF Age
  <2>2. EntryInv(y)
    BY DEF SourcesFit
  <2>3. /\ e.docs = y.docs /\ e.setting = y.setting /\ e.left = y.left - 1
        /\ DOMAIN e = {"docs", "setting", "left"}
    BY <2>1, <2>2 DEF EntryInv
  <2>4. e.left \in 0..CacheTtl
    BY <1>1, <2>1, <2>2, <2>3 DEF EntryInv
  <2>5. ASSUME NEW d \in Doc, Differs(d, e.docs)
        PROVE  since'[d] + e.left <= CacheTtl + MaxHold
    <3>1. since[d] + y.left <= CacheTtl + MaxHold /\ y.left \in 0..CacheTtl
      BY <2>2, <2>3, <2>5 DEF EntryInv
    <3> QED BY <1>1, <1>2, <1>3, <2>3, <3>1
  <2>6. ASSUME ~Fits(e.setting)
        PROVE  since'["experiment"] + e.left <= CacheTtl + MaxHold
    <3>1. since["experiment"] + y.left <= CacheTtl + MaxHold /\ y.left \in 0..CacheTtl
      BY <2>2, <2>3, <2>6 DEF EntryInv
    <3> QED BY <1>1, <1>2, <1>3, <2>3, <3>1
  <2> QED BY <1>5, <2>3, <2>4, <2>5, <2>6 DEF EntryInv
<1>8. DOMAIN cache' = Group
  BY DEF Age
<1> QED BY <1>4, <1>6, <1>7, <1>8 DEF SourcesFit, SourceRuled

\* What a prompt is made of, as StaleForOneTtl puts it.
Recent(found, setting) ==
  /\ \A d \in Doc : since[d] = Stale => (d \in found <=> d \in docs)
  /\ since["experiment"] = Stale =>
       IF Mine = {} THEN setting = Plain ELSE \E e \in Mine : setting = e.setting

\* What has differed for the entry's life and the retrieval at most.
LEMMA NotStale ==
  ASSUME SourcesFit, NEW found, NEW setting, NEW n \in Nat,
         \A d \in Doc : Differs(d, found) => since[d] + n <= CacheTtl + MaxHold,
         ~Fits(setting) => since["experiment"] + n <= CacheTtl + MaxHold
  PROVE  Recent(found, setting)
<1>1. CacheTtl \in Nat /\ MaxHold \in Nat
  BY RetrievalAssumption
<1>2. \A a \in Aspect : since[a] \in Nat
  BY DEF SourcesFit
<1>3. \A a \in Aspect : since[a] + n <= CacheTtl + MaxHold => since[a] # Stale
  BY <1>1, <1>2 DEF Stale
<1>4. Doc \subseteq Aspect /\ "experiment" \in Aspect
  BY DEF Aspect
<1> QED BY <1>3, <1>4 DEF Recent, Differs, Fits

LEMMA PromptsRecent ==
  ASSUME ReqShaped, SourcesFit, NEW r \in Request, SourceStep(r),
         req[r].pc # "prompt", req'[r].pc = "prompt"
  PROVE  Recent(req'[r].docs, req'[r].setting)
<1>1. CASE CacheHit(r)
  <2>1. PICK e \in cache[req[r].group] :
       req' = [req EXCEPT ![r].pc = "prompt", ![r].docs = e.docs, ![r].setting = e.setting]
    BY <1>1, Zenon DEF CacheHit
  <2>2. req'[r].docs = e.docs /\ req'[r].setting = e.setting
    BY <2>1 DEF ReqShaped, Field
  <2>3. EntryInv(e)
    BY DEF SourcesFit
  <2>4. /\ e.left \in Nat
        /\ \A d \in Doc : Differs(d, e.docs) => since[d] + e.left <= CacheTtl + MaxHold
        /\ ~Fits(e.setting) => since["experiment"] + e.left <= CacheTtl + MaxHold
    BY <2>3 DEF EntryInv
  <2>5. Recent(e.docs, e.setting)
    BY <2>4, NotStale
  <2> QED BY <2>2, <2>5
<1>2. CASE CachePut(r)
  <2>1. Carries(r)
    BY <1>2, Moved DEF CachePut
  <2>2. /\ req[r].held \in 0..MaxHold
        /\ \A d \in Doc : Differs(d, req[r].docs) => since[d] <= req[r].held
        /\ ~Fits(req[r].setting) => since["experiment"] <= req[r].held
    BY <1>2 DEF CachePut, SourcesFit, HoldInv, Retrieving, At
  <2>3. CacheTtl \in Nat /\ MaxHold \in Nat
    BY RetrievalAssumption
  <2>4. \A a \in Aspect : since[a] \in Nat
    BY DEF SourcesFit
  <2>5. \A a \in Aspect : since[a] <= req[r].held => since[a] + 0 <= CacheTtl + MaxHold
    BY <2>2, <2>3, <2>4
  <2>6. Recent(req[r].docs, req[r].setting)
    BY <2>2, <2>5, NotStale DEF Aspect
  <2> QED BY <2>1, <2>6 DEF Carries
<1>3. CASE Resolve(r) \/ Search(r)
  <2>1. req'[r].pc \in {"lookup", "put"}
    BY ZenonT(40), <1>3 DEF Resolve, Search, ReqShaped, Field
  <2> QED BY <2>1
<1>4. CASE CacheMiss(r) \/ RetrievalFails(r)
  <2>1. req'[r].pc \in {"search", "failed"}
    BY <1>4, Moved DEF CacheMiss, RetrievalFails
  <2> QED BY <2>1
<1> QED BY <1>1, <1>2, <1>3, <1>4 DEF SourceStep

-----------------------------------------------------------------------------
(* The report                                                               *)

ReportsFit ==
  /\ DOMAIN report = Request
  /\ \A r \in Request : DOMAIN report[r] = {"before", "parts", "freed"} /\ ReportInv(r)

\* A report on its way, or a finished one, is no other request's business.
LEMMA ReportsKept ==
  ASSUME ReportsFit, NEW r \in Request, Only(r), UNCHANGED ratings,
         DOMAIN report' = Request, \A q \in Request \ {r} : report'[q] = report[q],
         DOMAIN report'[r] = {"before", "parts", "freed"}, ReportInv(r)'
  PROVE  ReportsFit'
<1>1. \A q \in Request \ {r} : ReportInv(q)' <=> ReportInv(q)
  BY DEF ReportInv, At, Only, Part
<1> QED BY <1>1 DEF ReportsFit

LEMMA RatingSteps ==
  ASSUME ReqShaped, ReportsFit, NEW r \in Request, RatingStep(r)
  PROVE  ReportsFit'
<1>0. Only(r)
  BY RatingTurns DEF Turns
<1>1. CASE (\E e \in Experiment : Create(r, e) \/ FindRow(r, e))
           \/ (\E m \in Message, e \in Experiment \cup {Control} : RateRaises(r, m, e))
  <2>1. req'[r].pc \in {"done", "delete", "failed"} /\ UNCHANGED <<ratings, report>>
    BY <1>1 DEF Create, FindRow, RateRaises, MoveTo, ReqShaped, Field, ratingVars
  <2>2. ReportInv(r)'
    BY <2>1 DEF ReportInv, At
  <2> QED BY <1>0, <2>1, <2>2, ReportsKept DEF ReportsFit
<1>2. ASSUME NEW m \in Message, NEW e \in Experiment \cup {Control}, Rate(r, m, e)
      PROVE  ReportsFit'
  <2>1. req'[r].pc = "done" /\ report' = report
    BY <1>2, Moved DEF Rate
  <2>2. /\ m \notin DOMAIN ratings /\ DOMAIN ratings' = DOMAIN ratings \cup {m}
        /\ \A x \in DOMAIN ratings : ratings'[x] = ratings[x]
    BY <1>2 DEF Rate
  <2>3. Part(2) \subseteq Part(2)' /\ Part(2)' \subseteq Part(2) \cup {m}
    BY <2>2 DEF Part
  <2>4. ASSUME NEW q \in Request
        PROVE  ReportInv(q)'
    <3>1. CASE q = r
      BY <2>1, <3>1 DEF ReportInv, At
    <3>2. CASE q # r
      <4>1. ReportInv(q) /\ req'[q] = req[q] /\ report'[q] = report[q]
        BY <1>0, <2>1, <3>2 DEF ReportsFit, Only
      <4>2. ASSUME At(q, "control")'
            PROVE  \E P \in SUBSET DOMAIN ratings' :
                     /\ report[q].parts = <<P>> /\ report[q].before \subseteq P \cup Part(2)'
                     /\ P \cap Part(2)' \subseteq report[q].freed
        <5>1. PICK P \in SUBSET DOMAIN ratings :
                /\ report[q].parts = <<P>> /\ report[q].before \subseteq P \cup Part(2)
                /\ P \cap Part(2) \subseteq report[q].freed
          BY <4>1, <4>2 DEF ReportInv, At
        <5>2. P \in SUBSET DOMAIN ratings' /\ m \notin P
          BY <2>2
        <5> QED BY <2>3, <5>1, <5>2
      <4> QED BY <4>1, <4>2 DEF ReportInv, At
    <3> QED BY <3>1, <3>2
  <2> QED BY <2>1, <2>4 DEF ReportsFit
<1>3. CASE Delete(r)
  <2> DEFINE freed == {m \in DOMAIN ratings : ratings[m] = req[r].token}
  <2>1. /\ req'[r].pc = "done"
        /\ ratings' = [m \in DOMAIN ratings |-> IF m \in freed THEN Control ELSE ratings[m]]
        /\ report' = [q \in Request |->
                  IF Reading(q) THEN [report[q] EXCEPT !.freed = @ \cup freed] ELSE report[q]]
    BY <1>3, Moved DEF Delete
  <2>2. PICK F : F = freed
    OBVIOUS
  <2>3. DOMAIN ratings' = DOMAIN ratings /\ Part(2)' \subseteq Part(2) \cup F
        /\ Part(2) \subseteq Part(2)'
    BY <2>1, <2>2 DEF Part
  <2>4. report' = [q \in Request |->
                  IF Reading(q) THEN [report[q] EXCEPT !.freed = @ \cup F] ELSE report[q]]
    BY <2>1, <2>2
  <2> HIDE DEF freed
  <2>5. ASSUME NEW q \in Request
        PROVE  DOMAIN report'[q] = {"before", "parts", "freed"} /\ ReportInv(q)'
    <3>1. DOMAIN report[q] = {"before", "parts", "freed"} /\ ReportInv(q)
      BY DEF ReportsFit
    <3>2. CASE q = r
      BY <2>1, <2>4, <3>1, <3>2 DEF ReportInv, At
    <3>3. CASE q # r /\ ~Reading(q)
      <4>1. report'[q] = report[q] /\ req'[q] = req[q] /\ ~At(q, "control")
        BY <1>0, <2>4, <3>3 DEF Only, Reading
      <4> QED BY <3>1, <4>1 DEF ReportInv, At
    <3>4. CASE q # r /\ Reading(q)
      <4>1. req'[q] = req[q] /\ req[q].pc = "control"
        BY <1>0, <3>4 DEF Only, Reading, At
      <4>2. /\ report'[q].parts = report[q].parts /\ report'[q].before = report[q].before
            /\ report'[q].freed = report[q].freed \cup F
            /\ DOMAIN report'[q] = {"before", "parts", "freed"}
        BY <2>4, <3>1, <3>4
      <4>3. PICK P \in SUBSET DOMAIN ratings :
              /\ report[q].parts = <<P>> /\ report[q].before \subseteq P \cup Part(2)
              /\ P \cap Part(2) \subseteq report[q].freed
        BY <3>1, <4>1 DEF ReportInv, At
      <4>4. /\ P \in SUBSET DOMAIN ratings' /\ report'[q].parts = <<P>>
            /\ report'[q].before \subseteq P \cup Part(2)'
            /\ P \cap Part(2)' \subseteq report'[q].freed
        BY <2>3, <4>2, <4>3
      <4> QED BY <4>1, <4>2, <4>4 DEF ReportInv, At
    <3> QED BY <3>2, <3>3, <3>4
  <2> QED BY <2>4, <2>5 DEF ReportsFit
<1>4. CASE CountExperiments(r)
  <2>1. req'[r].pc = "control"
    BY <1>4, Moved DEF CountExperiments
  <2>2. /\ report' = [report EXCEPT ![r] =
                  [NoReport EXCEPT !.before = DOMAIN ratings, !.parts = <<Part(1)>>]]
        /\ ratings' = ratings
    BY <1>4 DEF CountExperiments
  <2>3. report'[r] = [before |-> DOMAIN ratings, parts |-> <<Part(1)>>, freed |-> {}]
    BY <2>2 DEF NoReport, ReportsFit
  <2>4. /\ DOMAIN ratings \subseteq Part(1) \cup Part(2) /\ Part(1) \cap Part(2) = {}
        /\ Part(1) \subseteq DOMAIN ratings
    BY DEF Part
  <2>5. Part(2)' = Part(2)
    BY <2>2 DEF Part
  <2>6. ReportInv(r)'
    <3>1. \E P \in SUBSET DOMAIN ratings' :
            /\ report'[r].parts = <<P>> /\ report'[r].before \subseteq P \cup Part(2)'
            /\ P \cap Part(2)' \subseteq report'[r].freed
      BY <2>2, <2>3, <2>4, <2>5
    <3> QED BY <2>1, <3>1 DEF ReportInv, At
  <2>7. DOMAIN report'[r] = {"before", "parts", "freed"}
    BY <2>3
  <2>8. DOMAIN report' = Request /\ \A q \in Request \ {r} : report'[q] = report[q]
    BY <2>2 DEF ReportsFit
  <2> QED BY <1>0, <2>2, <2>6, <2>7, <2>8, ReportsKept
<1>5. CASE CountControl(r)
  <2>1. req'[r].pc = "reported" /\ req[r].pc = "control"
    BY <1>5, Moved DEF CountControl, Reading, At
  <2>2. report' = [report EXCEPT ![r].parts = Append(@, Part(2))] /\ ratings' = ratings
    BY <1>5 DEF CountControl
  <2>3. DOMAIN report[r] = {"before", "parts", "freed"} /\ DOMAIN report = Request
    BY DEF ReportsFit
  <2>4. PICK P \in SUBSET DOMAIN ratings :
          /\ report[r].parts = <<P>> /\ report[r].before \subseteq P \cup Part(2)
          /\ P \cap Part(2) \subseteq report[r].freed
    BY <2>1 DEF ReportsFit, ReportInv, At
  <2>5. /\ report'[r].parts = Append(report[r].parts, Part(2))
        /\ report'[r].before = report[r].before /\ report'[r].freed = report[r].freed
        /\ DOMAIN report'[r] = {"before", "parts", "freed"}
    BY <2>2, <2>3
  <2>6. report'[r].parts[1] = P /\ report'[r].parts[2] = Part(2)
    BY <2>4, <2>5
  <2>7. ReportInv(r)'
    BY <2>1, <2>4, <2>5, <2>6 DEF ReportInv, At
  <2>8. DOMAIN report' = Request /\ \A q \in Request \ {r} : report'[q] = report[q]
    BY <2>2, <2>3
  <2> QED BY <1>0, <2>2, <2>5, <2>7, <2>8, ReportsKept
<1> QED BY <1>1, <1>2, <1>3, <1>4, <1>5 DEF RatingStep

-----------------------------------------------------------------------------
(* The prompt and its price                                                 *)

\* Every set of numbers that is not empty has a least one.
LEMMA Least ==
  ASSUME NEW T \in SUBSET Nat, T # {}
  PROVE  \E n \in T : \A m \in T : n <= m
<1> DEFINE R == OpToRel(<, Nat)
<1>1. \A x \in Nat, y \in Nat : y < x => <<y, x>> \in R
  BY DEF OpToRel
<1>2. IsWellFoundedOn(R, Nat)
  BY NatLessThanWellFounded
<1> HIDE DEF R
<1>3. PICK x \in T : \A y \in T : <<y, x>> \notin R
  BY <1>2, WFMin
<1>4. \A y \in T : ~(y < x)
  BY <1>1, <1>3
<1>5. \A y \in T : x <= y
  BY <1>4
<1> QED BY <1>5

\* A set that has 0 and with every number the next one has them all.
LEMMA Induction ==
  ASSUME NEW T, 0 \in T, \A n \in Nat : n \in T => n + 1 \in T
  PROVE  Nat \subseteq T
<1> SUFFICES ASSUME Nat \ T # {}
             PROVE  FALSE
  OBVIOUS
<1>1. PICK n \in Nat \ T : \A m \in Nat \ T : n <= m
  BY Least
<1>2. n # 0 /\ n - 1 \in Nat /\ n = (n - 1) + 1
  BY <1>1
<1>3. n - 1 \in T
  BY <1>1, <1>2
<1> QED BY <1>1, <1>2, <1>3

\* Which element of a set a fold takes next.
First(s) == CHOOSE i \in s : TRUE

\* g sums the values of f, over each of the sets D.
Sums(g, f, D) ==
  \A s \in D : g[s] = IF s = {} THEN 0 ELSE f[First(s)] + g[s \ {First(s)}]

Small(S, n) == {s \in SUBSET S : Cardinality(s) <= n}

LEMMA SumsExist ==
  ASSUME NEW S, IsFiniteSet(S), NEW f, \A i \in S : f[i] \in Nat
  PROVE  \E g \in [SUBSET S -> Nat] : Sums(g, f, SUBSET S)
<1> DEFINE T == {n \in Nat : \E g \in [Small(S, n) -> Nat] : Sums(g, f, Small(S, n))}
<1>0. \A s \in SUBSET S : IsFiniteSet(s) /\ Cardinality(s) \in Nat
  BY FS_Subset, FS_CardinalityType
<1>1. 0 \in T
  <2> DEFINE g == [s \in Small(S, 0) |-> 0]
  <2>1. \A s \in Small(S, 0) : s = {}
    BY <1>0, FS_EmptySet DEF Small
  <2>2. g \in [Small(S, 0) -> Nat] /\ Sums(g, f, Small(S, 0))
    BY <2>1 DEF Sums
  <2> HIDE DEF g
  <2> QED BY <2>2
<1>2. ASSUME NEW n \in Nat, n \in T
      PROVE  n + 1 \in T
  <2>1. PICK g \in [Small(S, n) -> Nat] : Sums(g, f, Small(S, n))
    BY <1>2
  <2> DEFINE D == Small(S, n + 1)
             h == [s \in D |-> IF s = {} THEN 0 ELSE f[First(s)] + g[s \ {First(s)}]]
  <2>2. ASSUME NEW s \in D, s # {}
        PROVE  First(s) \in s /\ First(s) \in S /\ s \ {First(s)} \in Small(S, n)
    <3>1. First(s) \in s
      BY <2>2 DEF First
    <3>2. s \in SUBSET S /\ Cardinality(s) <= n + 1 /\ IsFiniteSet(s) /\ Cardinality(s) \in Nat
      BY <1>0 DEF Small
    <3>3. Cardinality(s \ {First(s)}) = Cardinality(s) - 1
      BY <3>1, <3>2, FS_RemoveElement
    <3> QED BY <3>1, <3>2, <3>3 DEF Small
  <2>3. h \in [D -> Nat]
    <3>1. \A s \in D : s # {} => f[First(s)] \in Nat /\ g[s \ {First(s)}] \in Nat
      BY <2>2
    <3> QED BY <3>1
  <2>4. \A s \in Small(S, n) : s \in D
    BY <1>0 DEF Small
  <2>5. \A s \in Small(S, n) : h[s] = g[s]
    BY <2>1, <2>4 DEF Sums
  <2>6. ASSUME NEW s \in D
        PROVE  h[s] = IF s = {} THEN 0 ELSE f[First(s)] + h[s \ {First(s)}]
    BY <2>2, <2>5
  <2>7. Sums(h, f, D)
    <3> HIDE DEF h
    <3> QED BY <2>6 DEF Sums
  <2> HIDE DEF h
  <2> QED BY <2>3, <2>7
<1> HIDE DEF T
<1>3. Nat \subseteq T
  BY <1>1, <1>2, Induction
<1>4. Cardinality(S) \in T
  BY <1>3, FS_CardinalityType
<1>5. Small(S, Cardinality(S)) = SUBSET S
  BY FS_Subset DEF Small
<1> QED BY <1>4, <1>5 DEF T

\* Whatever sums the numbers of f is a number.
LEMMA SumsTyped ==
  ASSUME NEW S, IsFiniteSet(S), NEW f, \A i \in S : f[i] \in Nat, NEW g, Sums(g, f, SUBSET S)
  PROVE  \A s \in SUBSET S : g[s] \in Nat
<1> DEFINE T == {n \in Nat : \A s \in Small(S, n) : g[s] \in Nat}
<1>0. \A s \in SUBSET S : IsFiniteSet(s) /\ Cardinality(s) \in Nat
  BY FS_Subset, FS_CardinalityType
<1>1. 0 \in T
  <2>1. \A s \in Small(S, 0) : s = {}
    BY <1>0, FS_EmptySet DEF Small
  <2>2. g[{}] = 0 /\ {} \in SUBSET S
    BY DEF Sums
  <2>3. \A s \in Small(S, 0) : g[s] = 0
    BY <2>1, <2>2
  <2> QED BY <2>3
<1>2. ASSUME NEW n \in Nat, n \in T
      PROVE  n + 1 \in T
  <2>1. ASSUME NEW s \in Small(S, n + 1)
        PROVE  g[s] \in Nat
    <3>1. s \in SUBSET S /\ Cardinality(s) <= n + 1 /\ IsFiniteSet(s) /\ Cardinality(s) \in Nat
      BY <1>0 DEF Small
    <3>2. CASE s = {}
      <4>1. g[s] = 0
        BY <3>1, <3>2 DEF Sums
      <4> QED BY <4>1
    <3>3. CASE s # {}
      <4>1. First(s) \in s
        BY <3>3 DEF First
      <4>2. Cardinality(s \ {First(s)}) = Cardinality(s) - 1
        BY <3>1, <4>1, FS_RemoveElement
      <4>3. s \ {First(s)} \in Small(S, n)
        BY <3>1, <4>2 DEF Small
      <4>4. g[s \ {First(s)}] \in Nat /\ f[First(s)] \in Nat
        BY <1>2, <3>1, <4>1, <4>3
      <4>5. g[s] = f[First(s)] + g[s \ {First(s)}]
        BY <3>1, <3>3 DEF Sums
      <4> QED BY <4>4, <4>5
    <3> QED BY <3>2, <3>3
  <2> QED BY <2>1
<1> HIDE DEF T
<1>3. Cardinality(S) \in T
  BY <1>1, <1>2, Induction, FS_CardinalityType
<1>4. Small(S, Cardinality(S)) = SUBSET S
  BY FS_Subset DEF Small
<1> QED BY <1>3, <1>4 DEF T

LEMMA CountIsSum ==
  ASSUME NEW m \in Seq(Nat)
  PROVE  \E g : /\ Sums(g, m, SUBSET DOMAIN m) /\ CountMessages(m) = 2 + g[DOMAIN m]
                /\ \A s \in SUBSET DOMAIN m : g[s] \in Nat
<1> DEFINE D == SUBSET DOMAIN m
           Is(g) == g = [s \in D |-> IF s = {} THEN 0 ELSE m[First(s)] + g[s \ {First(s)}]]
           it == CHOOSE g : Is(g)
<1>1. CountMessages(m) = 2 + it[DOMAIN m]
  BY DEF CountMessages, FoldSeq, FoldFunction, FoldFunctionOnSet, MapThenFoldSet, First
<1>2. IsFiniteSet(DOMAIN m) /\ \A i \in DOMAIN m : m[i] \in Nat
  <2>1. DOMAIN m = 1..Len(m) /\ Len(m) \in Nat
    OBVIOUS
  <2>2. IsFiniteSet(1..Len(m))
    BY <2>1, FS_Interval
  <2> QED BY <2>1, <2>2
<1>3. PICK g \in [D -> Nat] : Sums(g, m, D)
  BY <1>2, SumsExist
<1>4. Is(g)
  BY <1>3 DEF Sums
<1>5. Is(it)
  BY <1>4
<1>6. Sums(it, m, D)
  <2> HIDE DEF it
  <2> QED BY <1>5 DEF Sums
<1> HIDE DEF it
<1>7. \A s \in D : it[s] \in Nat
  BY <1>2, <1>6, SumsTyped
<1> QED BY <1>1, <1>6, <1>7

LEMMA CountNat ==
  ASSUME NEW m \in Seq(Nat)
  PROVE  CountMessages(m) \in Nat
<1>1. PICK g : /\ CountMessages(m) = 2 + g[DOMAIN m]
               /\ \A s \in SUBSET DOMAIN m : g[s] \in Nat
  BY CountIsSum
<1>2. g[DOMAIN m] \in Nat
  BY <1>1
<1> QED BY <1>1, <1>2

LEMMA CountThree ==
  ASSUME NEW m \in Seq(Nat), Len(m) = 3
  PROVE  CountMessages(m) = 2 + (m[1] + m[2] + m[3])
<1>1. DOMAIN m = {1, 2, 3} /\ m[1] \in Nat /\ m[2] \in Nat /\ m[3] \in Nat
  <2>1. DOMAIN m = 1..3 /\ m[1] \in Nat /\ m[2] \in Nat /\ m[3] \in Nat
    <3>1. DOMAIN m = 1..Len(m) /\ m \in [1..Len(m) -> Nat]
      BY LenProperties
    <3>2. 1 \in 1..3 /\ 2 \in 1..3 /\ 3 \in 1..3
      OBVIOUS
    <3> QED BY <3>1, <3>2
  <2>2. 1..3 = {1, 2, 3}
    OBVIOUS
  <2> QED BY <2>1, <2>2
<1>2. PICK g : /\ Sums(g, m, SUBSET {1, 2, 3}) /\ CountMessages(m) = 2 + g[{1, 2, 3}]
  BY <1>1, CountIsSum
<1>3. \A s \in SUBSET {1, 2, 3} : g[s] = IF s = {} THEN 0 ELSE m[First(s)] + g[s \ {First(s)}]
  BY <1>2 DEF Sums
<1>4. \A i \in {1, 2, 3} : g[{i}] = m[i]
  <2> SUFFICES ASSUME NEW i \in {1, 2, 3}
               PROVE  g[{i}] = m[i]
    OBVIOUS
  <2>1. First({i}) = i /\ {i} \ {i} = {} /\ g[{}] = 0
    BY <1>3 DEF First
  <2>2. g[{i}] = m[i] + 0
    BY <1>3, <2>1
  <2> QED BY <1>1, <2>2
<1>5. \A i, j \in {1, 2, 3} : i # j => g[{i, j}] = m[i] + m[j]
  <2> SUFFICES ASSUME NEW i \in {1, 2, 3}, NEW j \in {1, 2, 3}, i # j
               PROVE  g[{i, j}] = m[i] + m[j]
    OBVIOUS
  <2>1. First({i, j}) \in {i, j}
    BY DEF First
  <2>2. {i, j} \ {i} = {j} /\ {i, j} \ {j} = {i}
    OBVIOUS
  <2>3. g[{i, j}] = m[First({i, j})] + g[{i, j} \ {First({i, j})}]
    <3>1. {i, j} \in SUBSET {1, 2, 3} /\ {i, j} # {}
      OBVIOUS
    <3> QED BY <1>3, <3>1
  <2>4. CASE First({i, j}) = i
    <3>1. g[{i, j}] = m[i] + g[{j}]
      BY <2>2, <2>3, <2>4
    <3> QED BY <1>4, <3>1
  <2>5. CASE First({i, j}) = j
    <3>1. g[{i, j}] = m[j] + g[{i}]
      BY <2>2, <2>3, <2>5
    <3>2. g[{i, j}] = m[j] + m[i]
      BY <1>4, <3>1
    <3> QED BY <1>1, <3>2
  <2> QED BY <2>1, <2>4, <2>5
<1>6. First({1, 2, 3}) \in {1, 2, 3}
  BY DEF First
<1>7. {1, 2, 3} \ {1} = {2, 3} /\ {1, 2, 3} \ {2} = {1, 3} /\ {1, 2, 3} \ {3} = {1, 2}
  OBVIOUS
<1>8. g[{1, 2, 3}] = m[First({1, 2, 3})] + g[{1, 2, 3} \ {First({1, 2, 3})}]
  BY <1>3
<1>9. /\ g[{2, 3}] = m[2] + m[3] /\ g[{1, 3}] = m[1] + m[3] /\ g[{1, 2}] = m[1] + m[2]
  BY <1>5
<1>10. \/ g[{1, 2, 3}] = m[1] + (m[2] + m[3]) \/ g[{1, 2, 3}] = m[2] + (m[1] + m[3])
      \/ g[{1, 2, 3}] = m[3] + (m[1] + m[2])
  <2>1. CASE First({1, 2, 3}) = 1
    BY <1>7, <1>8, <1>9, <2>1
  <2>2. CASE First({1, 2, 3}) = 2
    BY <1>7, <1>8, <1>9, <2>2
  <2>3. CASE First({1, 2, 3}) = 3
    BY <1>7, <1>8, <1>9, <2>3
  <2> QED BY <1>6, <2>1, <2>2, <2>3
<1> QED BY <1>1, <1>2, <1>10

LEMMA ComposedSeq ==
  ASSUME NEW found, NEW h \in Seq(Nat), NEW a \in Nat, NEW m, m = Composed(found, h, a)
  PROVE  /\ m \in Seq(Nat) /\ m[Len(m)] = a
         /\ Len(m) > IF found = {} THEN 1 ELSE 2
         /\ m[1] = 1 /\ (found # {} => m[2] = 1)
<1>1. CASE found # {}
  <2>1. m = <<1>> \o <<1>> \o h \o <<a>>
    BY <1>1 DEF Composed
  <2> QED BY <1>1, <2>1
<1>2. CASE found = {}
  <2>1. m = <<1>> \o <<>> \o h \o <<a>>
    BY <1>2 DEF Composed
  <2>2. <<1>> \o <<>> = <<1>>
    OBVIOUS
  <2>3. m = <<1>> \o h \o <<a>>
    BY <2>1, <2>2
  <2>4. m \in Seq(Nat) /\ Len(m) = Len(h) + 2 /\ Len(h) \in Nat
    BY <2>3
  <2>5. m[1] = 1 /\ m[Len(h) + 2] = a
    BY <2>3, <2>4
  <2> QED BY <1>2, <2>4, <2>5
<1> QED BY <1>1, <1>2

LEMMA PartOfSeq ==
  ASSUME NEW m, NEW j \in Int, NEW k \in Nat, \A i \in j..k : m[i] \in Nat
  PROVE  /\ SubSeq(m, j, k) \in Seq(Nat)
         /\ Len(SubSeq(m, j, k)) = IF j <= k THEN k - j + 1 ELSE 0
         /\ \A i \in 1..(k - j + 1) : SubSeq(m, j, k)[i] = m[j + i - 1]
<1>1. k \in Int
  OBVIOUS
<1> QED BY <1>1, SubSeqProperties

\* What truncate_messages leaves: a prompt that fits and ends with the question,
\* or the two protected messages when these and the question do not fit.
LEMMA TruncateKeeps ==
  ASSUME NEW m \in Seq(Nat), Len(m) >= 3, m[1] = 1, m[2] = 1, MaxPrompt \in Nat,
         NEW p, p = Truncate(m, MaxPrompt, 2)
  PROVE  \/ CountMessages(p) <= MaxPrompt /\ p[Len(p)] = m[Len(m)] /\ Len(p) > 2
         \/ 4 + m[Len(m)] > MaxPrompt /\ Len(p) = 2
<1> DEFINE Kept(n) == SubSeq(m, 1, 2) \o SubSeq(m, 2 + n + 1, Len(m))
           enough  == {n \in 0..(Len(m) - 2) : CountMessages(Kept(n)) <= MaxPrompt}
           last == Len(m) - 3
<1>1. p = IF enough = {} THEN SubSeq(m, 1, 2)
          ELSE Kept(CHOOSE n \in enough : \A k \in enough : n <= k)
  BY DEF Truncate
<1>2. Len(m) \in Nat /\ last \in 0..(Len(m) - 2) /\ m[Len(m)] \in Nat
  OBVIOUS
<1>3. \A n \in 0..(Len(m) - 2) :
        /\ Kept(n) \in Seq(Nat) /\ Len(Kept(n)) = Len(m) - n
        /\ Kept(n)[1] = 1 /\ Kept(n)[2] = 1
        /\ n < Len(m) - 2 => Kept(n)[Len(m) - n] = m[Len(m)]
  <2> SUFFICES ASSUME NEW n \in 0..(Len(m) - 2)
               PROVE  /\ Kept(n) \in Seq(Nat) /\ Len(Kept(n)) = Len(m) - n
                      /\ Kept(n)[1] = 1 /\ Kept(n)[2] = 1
                      /\ n < Len(m) - 2 => Kept(n)[Len(m) - n] = m[Len(m)]
    OBVIOUS
  <2> DEFINE u == SubSeq(m, 1, 2)
             v == SubSeq(m, 2 + n + 1, Len(m))
  <2>1. u \in Seq(Nat) /\ Len(u) = 2 /\ u[1] = 1 /\ u[2] = 1
    <3>1. \A i \in 1..2 : m[i] \in Nat
      BY <1>2
    <3>2. /\ u \in Seq(Nat) /\ Len(u) = 2 - 1 + 1
          /\ \A i \in 1..(2 - 1 + 1) : u[i] = m[1 + i - 1]
      BY <3>1, SubSeqProperties
    <3> HIDE DEF u
    <3> QED BY <3>2
  <2>2. /\ v \in Seq(Nat) /\ Len(v) = Len(m) - n - 2
        /\ n < Len(m) - 2 => v[Len(m) - n - 2] = m[Len(m)]
    <3>1. PICK j \in Int : j = 2 + n + 1
      BY <1>2
    <3>2. PICK len \in Nat : len = Len(m)
      BY <1>2
    <3>3. \A i \in j..len : m[i] \in Nat
      BY <1>2, <3>1, <3>2
    <3>4. /\ SubSeq(m, j, len) \in Seq(Nat)
          /\ Len(SubSeq(m, j, len)) = IF j <= len THEN len - j + 1 ELSE 0
          /\ \A i \in 1..(len - j + 1) : SubSeq(m, j, len)[i] = m[j + i - 1]
      BY <3>3, PartOfSeq
    <3>5. v = SubSeq(m, j, len)
      BY <3>1, <3>2
    <3> HIDE DEF v
    <3>6. n \in 0..(len - 2)
      BY <3>2
    <3>7. v \in Seq(Nat) /\ Len(v) = len - n - 2
      BY <3>1, <3>4, <3>5, <3>6
    <3>8. n < len - 2 => v[len - n - 2] = m[len]
      <4> SUFFICES ASSUME n < len - 2
                   PROVE  v[len - n - 2] = m[len]
        OBVIOUS
      <4>1. len - n - 2 \in 1..(len - j + 1) /\ j + (len - n - 2) - 1 = len
        BY <3>1, <3>6
      <4> QED BY <3>4, <3>5, <4>1
    <3> QED BY <3>2, <3>7, <3>8
  <2> HIDE DEF u, v
  <2>3. /\ u \o v \in Seq(Nat) /\ Len(u \o v) = Len(u) + Len(v)
        /\ \A i \in 1..(Len(u) + Len(v)) : (u \o v)[i] = IF i <= Len(u) THEN u[i] ELSE v[i - Len(u)]
    BY <2>1, <2>2, ConcatProperties
  <2>4. Kept(n) = u \o v
    BY DEF u, v
  <2> HIDE DEF Kept
  <2>5. Len(Kept(n)) = Len(m) - n /\ Kept(n) \in Seq(Nat)
    BY <1>2, <2>1, <2>2, <2>3, <2>4
  <2>6. Kept(n)[1] = 1 /\ Kept(n)[2] = 1
    BY <1>2, <2>1, <2>2, <2>3, <2>4
  <2>7. n < Len(m) - 2 => Kept(n)[Len(m) - n] = m[Len(m)]
    <3> SUFFICES ASSUME n < Len(m) - 2
                 PROVE  Kept(n)[Len(m) - n] = m[Len(m)]
      OBVIOUS
    <3>1. PICK len \in Nat : len = Len(m)
      BY <1>2
    <3>2. n \in 0..(len - 2) /\ n < len - 2
      BY <3>1
    <3>3. Len(u) + Len(v) = len - n
      BY <2>1, <2>2, <3>1, <3>2
    <3>4. len - n \in 1..(Len(u) + Len(v)) /\ ~(len - n <= Len(u)) /\ len - n - Len(u) = len - n - 2
      BY <2>1, <3>2, <3>3
    <3>5. (u \o v)[len - n] = v[len - n - 2]
      BY <2>3, <3>4
    <3> QED BY <2>2, <2>4, <3>1, <3>5
  <2> QED BY <2>5, <2>6, <2>7
<1>4. CountMessages(Kept(last)) = 4 + m[Len(m)]
  <2> HIDE DEF Kept
  <2>1. Len(m) - last = 3 /\ last < Len(m) - 2
    BY <1>2
  <2>2. /\ Kept(last) \in Seq(Nat) /\ Len(Kept(last)) = 3
        /\ Kept(last)[1] = 1 /\ Kept(last)[2] = 1 /\ Kept(last)[3] = m[Len(m)]
    BY <1>2, <1>3, <2>1
  <2>3. CountMessages(Kept(last)) = 2 + (1 + 1 + m[Len(m)])
    BY <2>2, CountThree
  <2> QED BY <1>2, <2>3
<1>5. last \in enough \/ 4 + m[Len(m)] > MaxPrompt
  BY <1>2, <1>4
<1>6. enough \in SUBSET Nat
  BY <1>2
<1> HIDE DEF Kept
<1>7. CASE enough = {}
  <2>1. p = SubSeq(m, 1, 2)
    BY <1>1, <1>7
  <2>2. Len(p) = 2
    BY <1>2, <2>1
  <2> QED BY <1>5, <1>7, <2>2
<1>8. CASE enough # {}
  <2>1. PICK n \in enough : \A k \in enough : n <= k
    BY <1>6, <1>8, Least
  <2> DEFINE c == CHOOSE x \in enough : \A k \in enough : x <= k
  <2>2. c \in enough /\ \A k \in enough : c <= k
    BY <2>1
  <2>3. p = Kept(c)
    BY <1>1, <1>8
  <2> HIDE DEF c
  <2>4. c \in 0..(Len(m) - 2) /\ CountMessages(p) <= MaxPrompt
    BY <2>2, <2>3
  <2>5. Len(p) = Len(m) - c /\ (c < Len(m) - 2 => p[Len(m) - c] = m[Len(m)])
    BY <1>3, <2>3, <2>4
  <2>6. c = Len(m) - 2 => last \notin enough
    BY SMTT(30), <1>2, <2>2, <2>4
  <2>7. CASE c = Len(m) - 2
    BY <1>2, <1>5, <2>5, <2>6, <2>7
  <2>8. CASE c < Len(m) - 2
    <3>1. Len(p) > 2
      BY <1>2, <2>4, <2>5, <2>8
    <3>2. p[Len(p)] = m[Len(m)]
      BY <2>5, <2>8
    <3> QED BY <2>4, <3>1, <3>2
  <2> QED BY <1>2, <2>4, <2>7, <2>8
<1> QED BY <1>7, <1>8

\* What the invariant says in the stage of the quota, without the stage.
QuotaFits ==
  /\ minuteUsed \in [1..MaxWindow -> Nat]
  /\ dailyUsed \in Nat
  /\ \A w \in 1..MaxWindow : w > window => minuteUsed[w] = 0
  /\ \A r \in Request : PromptInv(r) /\ PriceInv(r)
  /\ \A r, o \in Request : r # o /\ Paying(r) /\ Paying(o) => r \in raced

\* The counts change at the expense of the others that are being paid only.
Counts(r) ==
  /\ minuteUsed' \in [1..MaxWindow -> Nat] /\ dailyUsed' \in Nat
  /\ \A w \in 1..MaxWindow : w > window => minuteUsed'[w] = minuteUsed[w]
  /\ UNCHANGED quotaVars \/ Paying(r)

LEMMA QuotaKept ==
  ASSUME QuotaFits, NEW r \in Request, Only(r), window' = window, Notice, Counts(r),
         PromptInv(r)', PriceInv(r)'
  PROVE  QuotaFits'
<1>1. raced \subseteq raced'
  BY DEF Notice
<1>2. \A q, o \in Request : q # o /\ Paying(q)' /\ Paying(o)' => q \in raced'
  BY DEF Notice
<1>3. ASSUME NEW q \in Request, q # r
      PROVE  PromptInv(q)' /\ PriceInv(q)'
  <2>1. req'[q] = req[q] /\ PromptInv(q) /\ PriceInv(q)
    BY <1>3 DEF Only, QuotaFits
  <2>2. PromptInv(q)'
    BY <2>1 DEF PromptInv, At
  <2>3. CASE UNCHANGED quotaVars
    <3>1. minuteUsed' = minuteUsed /\ dailyUsed' = dailyUsed
      BY <2>3 DEF quotaVars
    <3> QED BY <1>1, <2>1, <2>2, <3>1 DEF PriceInv, At
  <2>4. CASE Paying(r)
    <3>1. ~Paying(q) \/ q \in raced
      BY <1>3, <2>4 DEF QuotaFits
    <3>2. CASE q \in raced
      BY <1>1, <2>1, <2>2, <3>2 DEF PriceInv
    <3>3. CASE ~Paying(q) /\ q \notin raced
      BY <1>1, <2>1, <2>2, <3>3 DEF PriceInv, Paying, At
    <3> QED BY <3>1, <3>2, <3>3
  <2> QED BY <2>3, <2>4 DEF Counts
<1> QED BY <1>2, <1>3 DEF QuotaFits, Counts

\* The numbers that the prices are made of.
LEMMA QuotaTyped ==
  ASSUME PlaceInv, QuotaFits
  PROVE  /\ window \in 1..MaxWindow /\ minuteUsed[window] \in Nat /\ dailyUsed \in Nat
         /\ MaxPrompt \in Nat /\ Estimate \in Nat /\ MinuteBudget \in Nat /\ DailyBudget \in Nat
BY WindowTyped, QuotaAssumption DEF QuotaFits

LEMMA SameCounts ==
  ASSUME QuotaFits, NEW r \in Request, UNCHANGED quotaVars
  PROVE  Counts(r) /\ minuteUsed' = minuteUsed /\ dailyUsed' = dailyUsed
BY DEF QuotaFits, Counts, quotaVars

LEMMA ComposeKeeps ==
  ASSUME ReqShaped, PlaceInv, QuotaFits, NEW r \in Request, Compose(r), window' = window, Notice
  PROVE  QuotaFits'
<1>1. PICK h \in History, a \in Size :
               req' = [req EXCEPT ![r].pc = "minute", ![r].asked = a, ![r].prompt =
                 <<1>> \o (IF req[r].docs = {} THEN <<>> ELSE <<1>>) \o h \o <<a>>]
  BY DEF Compose
<1>2. PICK m : m = Composed(req[r].docs, h, a)
  OBVIOUS
<1> DEFINE x == [req[r] EXCEPT !.pc = "minute", !.asked = a, !.prompt = m]
<1>3. req' = [req EXCEPT ![r] = x]
  BY <1>1, <1>2 DEF ReqShaped, Composed
<1>4. /\ DOMAIN x = Field /\ x.pc = "minute" /\ x.asked = a /\ x.prompt = m
      /\ x.docs = req[r].docs
  BY DEF ReqShaped, Field
<1> HIDE DEF x
<1>5. ReqShaped' /\ Only(r) /\ req'[r] = x
  BY <1>3, <1>4, Shaped
<1>6. h \in Seq(Nat) /\ a \in Nat
  BY QuotaAssumption
<1>7. PromptInv(r)' /\ PriceInv(r)'
  BY <1>2, <1>4, <1>5, <1>6 DEF PromptInv, PriceInv, At
<1> QED BY <1>5, <1>7, QuotaKept, SameCounts DEF Compose

LEMMA PromptCounts ==
  ASSUME QuotaFits, NEW r \in Request, req[r].pc \in {"minute", "daily"}
  PROVE  /\ req[r].prompt \in Seq(Nat) /\ CountMessages(req[r].prompt) \in Nat /\ req[r].asked \in Nat
         /\ req[r].prompt[Len(req[r].prompt)] = req[r].asked
         /\ Len(req[r].prompt) > IF req[r].docs = {} THEN 1 ELSE 2
         /\ req[r].prompt[1] = 1 /\ (req[r].docs # {} => req[r].prompt[2] = 1)
<1>1. req[r].asked \in Nat
  BY DEF QuotaFits, PromptInv
<1>2. PICK h \in History : req[r].prompt = Composed(req[r].docs, h, req[r].asked)
  BY DEF QuotaFits, PromptInv
<1>3. PICK m, a : m = req[r].prompt /\ a = req[r].asked /\ a \in Nat
  BY <1>1
<1>4. PICK found : found = req[r].docs
  OBVIOUS
<1>5. m = Composed(found, h, a)
  BY <1>2, <1>3, <1>4
<1>6. /\ m \in Seq(Nat) /\ m[Len(m)] = a /\ Len(m) > (IF found = {} THEN 1 ELSE 2)
      /\ m[1] = 1 /\ (found # {} => m[2] = 1)
  BY SMTT(30), <1>3, <1>5, ComposedSeq, QuotaAssumption
<1>7. CountMessages(m) \in Nat
  BY <1>6, CountNat
<1> QED BY <1>3, <1>4, <1>6, <1>7

LEMMA CheckMinuteKeeps ==
  ASSUME ReqShaped, PlaceInv, QuotaFits, NEW r \in Request, CheckMinute(r), window' = window, Notice
  PROVE  QuotaFits'
<1>1. PICK n : n = CountMessages(req[r].prompt)
  OBVIOUS
<1>2. n \in Nat /\ req[r].pc = "minute" /\ PromptInv(r)
  BY <1>1, PromptCounts DEF CheckMinute, At, QuotaFits
<1>3. PICK l \in {"failed", "daily"} :
        /\ MoveTo(r, l)
        /\ l = "daily" => ~(minuteUsed[window] + n + Estimate >= MinuteBudget)
  BY <1>1 DEF CheckMinute
<1>4. ReqShaped' /\ Only(r) /\ Carries(r) /\ req'[r].pc = l
  BY <1>3, Moved
<1>5. req'[r].prompt = req[r].prompt /\ req'[r].asked = req[r].asked /\ req'[r].docs = req[r].docs
  BY <1>3 DEF MoveTo, ReqShaped, Field
<1>6. l = "daily" => minuteUsed[window] + n + Estimate < MinuteBudget
  BY <1>2, <1>3, QuotaTyped
<1>7. minuteUsed' = minuteUsed /\ dailyUsed' = dailyUsed /\ Counts(r)
  BY SameCounts DEF CheckMinute
<1>8. PromptInv(r)'
  BY <1>2, <1>4, <1>5 DEF PromptInv, At
<1>9. PriceInv(r)'
  BY <1>1, <1>4, <1>5, <1>6, <1>7 DEF PriceInv, At
<1> QED BY <1>4, <1>7, <1>8, <1>9, QuotaKept

LEMMA CheckDailyKeeps ==
  ASSUME ReqShaped, PlaceInv, QuotaFits, NEW r \in Request, CheckDaily(r), window' = window, Notice
  PROVE  QuotaFits'
<1>1. PICK m, n, a, found :
        /\ n \in Nat /\ a \in Nat
        /\ m = req[r].prompt /\ n = CountMessages(m) /\ a = req[r].asked /\ found = req[r].docs
        /\ req[r].pc = "daily"
  BY PromptCounts DEF CheckDaily, At
<1>2. /\ m \in Seq(Nat) /\ m[Len(m)] = a /\ Len(m) > (IF found = {} THEN 1 ELSE 2)
      /\ m[1] = 1 /\ (found # {} => m[2] = 1)
  BY <1>1, PromptCounts
<1>3. PICK p : p = IF n > MaxPrompt THEN Truncate(m, MaxPrompt, 2) ELSE m
  OBVIOUS
<1> DEFINE x == [req[r] EXCEPT !.pc = "stream", !.tokens = n, !.prompt = p]
<1>4. \/ MoveTo(r, "failed")
      \/ /\ req' = [req EXCEPT ![r] = x]
         /\ ~(dailyUsed + n + Estimate >= DailyBudget) /\ ~(n > MaxPrompt /\ found = {})
  BY <1>1, <1>3 DEF CheckDaily, ReqShaped
<1>5. /\ DOMAIN x = Field /\ x.pc = "stream" /\ x.tokens = n /\ x.prompt = p
      /\ x.asked = a /\ x.docs = found
  BY <1>1 DEF ReqShaped, Field
<1> HIDE DEF x
<1>6. minuteUsed' = minuteUsed /\ dailyUsed' = dailyUsed /\ Counts(r)
  BY SameCounts DEF CheckDaily
<1>7. CASE MoveTo(r, "failed")
  <2>1. Only(r) /\ req'[r].pc = "failed"
    BY <1>7, Moved
  <2>2. PromptInv(r)' /\ PriceInv(r)'
    BY <2>1 DEF PromptInv, PriceInv, At
  <2> QED BY <1>6, <2>1, <2>2, QuotaKept
<1>8. CASE /\ req' = [req EXCEPT ![r] = x]
           /\ ~(dailyUsed + n + Estimate >= DailyBudget) /\ ~(n > MaxPrompt /\ found = {})
  <2>1. ReqShaped' /\ Only(r) /\ req'[r] = x
    BY <1>5, <1>8, Shaped
  <2>2. r \notin raced => minuteUsed[window] + n + Estimate < MinuteBudget
    BY <1>1 DEF QuotaFits, PriceInv, At
  <2>3. dailyUsed + n + Estimate < DailyBudget
    BY <1>1, <1>8, QuotaTyped
  <2>4. raced \subseteq raced'
    BY DEF Notice
  <2>5. PriceInv(r)'
    BY <1>1, <1>5, <1>6, <2>1, <2>2, <2>3, <2>4 DEF PriceInv, At
  <2>6. LET protected == IF found = {} THEN 1 ELSE 2
        IN \/ CountMessages(p) <= MaxPrompt /\ p[Len(p)] = a /\ Len(p) > protected
           \/ 2 + protected + a > MaxPrompt /\ Len(p) = protected
    <3>1. CASE n > MaxPrompt
      <4>1. found # {} /\ p = Truncate(m, MaxPrompt, 2)
        BY <1>3, <1>8, <3>1
      <4>2. Len(m) >= 3 /\ m[1] = 1 /\ m[2] = 1
        BY <1>2, <4>1
      <4>3. \/ CountMessages(p) <= MaxPrompt /\ p[Len(p)] = m[Len(m)] /\ Len(p) > 2
            \/ 4 + m[Len(m)] > MaxPrompt /\ Len(p) = 2
        BY <1>2, <4>1, <4>2, QuotaTyped, TruncateKeeps
      <4> QED BY <1>2, <4>1, <4>3
    <3>2. CASE ~(n > MaxPrompt)
      <4>1. p = m /\ CountMessages(m) <= MaxPrompt
        BY <1>1, <1>3, <3>2, QuotaTyped
      <4> QED BY <1>2, <4>1
    <3> QED BY <3>1, <3>2
  <2>7. PromptInv(r)'
    BY <1>5, <2>1, <2>6 DEF PromptInv, At
  <2> QED BY <1>6, <2>1, <2>5, <2>7, QuotaKept
<1> QED BY <1>4, <1>7, <1>8

LEMMA AnswerKeeps ==
  ASSUME ReqShaped, PlaceInv, QuotaFits, NEW r \in Request, Answer(r), window' = window, Notice
  PROVE  QuotaFits'
<1>1. PICK o \in Output : req' = [req EXCEPT ![r].pc = "charge", ![r].tokens = @ + o,
                                             ![r].long = o > Estimate]
  BY Zenon DEF Answer
<1>2. /\ req[r].pc = "stream" /\ req[r].tokens \in Nat /\ PriceInv(r)
      /\ UNCHANGED quotaVars
  BY DEF Answer, QuotaFits, PriceInv, At
<1>3. PICK t, b : t = req[r].tokens + o /\ b = (o > Estimate)
  OBVIOUS
<1> DEFINE x == [req[r] EXCEPT !.pc = "charge", !.tokens = t, !.long = b]
<1>4. req' = [req EXCEPT ![r] = x]
  BY <1>1, <1>3 DEF ReqShaped
<1>5. DOMAIN x = Field /\ x.pc = "charge" /\ x.tokens = t /\ x.long = b
  BY DEF ReqShaped, Field
<1> HIDE DEF x
<1>6. ReqShaped' /\ Only(r) /\ req'[r] = x
  BY <1>4, <1>5, Shaped
<1>7. o \in Nat /\ t \in Nat
  BY <1>2, <1>3, QuotaAssumption
<1>8. raced \subseteq raced' /\ minuteUsed' = minuteUsed /\ dailyUsed' = dailyUsed /\ Counts(r)
  BY <1>2, SameCounts DEF Notice
<1>9. r \notin raced /\ ~b => minuteUsed[window] + t < MinuteBudget /\ dailyUsed + t < DailyBudget
  <2> SUFFICES ASSUME r \notin raced, ~b
               PROVE  minuteUsed[window] + t < MinuteBudget /\ dailyUsed + t < DailyBudget
    OBVIOUS
  <2>1. /\ minuteUsed[window] + req[r].tokens + Estimate < MinuteBudget
        /\ dailyUsed + req[r].tokens + Estimate < DailyBudget
    BY <1>2 DEF PriceInv, At
  <2>2. ~(o > Estimate)
    BY <1>3
  <2>3. o <= Estimate
    BY <1>7, <2>2, QuotaTyped
  <2> QED BY <1>2, <1>3, <1>7, <2>1, <2>3, QuotaTyped
<1>10. PriceInv(r)'
  BY <1>5, <1>6, <1>7, <1>8, <1>9 DEF PriceInv, At
<1>11. PromptInv(r)'
  BY <1>5, <1>6 DEF PromptInv, At
<1> QED BY <1>6, <1>8, <1>10, <1>11, QuotaKept

LEMMA NoAnswerKeeps ==
  ASSUME ReqShaped, QuotaFits, NEW r \in Request, NoAnswer(r), window' = window, Notice
  PROVE  QuotaFits'
<1>1. Only(r) /\ req'[r].pc = "failed"
  BY Moved DEF NoAnswer
<1>2. PromptInv(r)' /\ PriceInv(r)'
  BY <1>1 DEF PromptInv, PriceInv, At
<1> QED BY <1>1, <1>2, SameCounts, QuotaKept DEF NoAnswer

\* The price of an answer is a number, and nothing else of the request changes
\* when it is charged.
LEMMA ChargeMoves ==
  ASSUME ReqShaped, QuotaFits, NEW r \in Request, req[r].pc \in {"charge", "chargeDaily"},
         NEW l \in {"chargeDaily", "overdrawn", "done"}, MoveTo(r, l), Notice
  PROVE  /\ req[r].tokens \in Nat /\ Paying(r) /\ Only(r) /\ req'[r].pc = l
         /\ req'[r].tokens = req[r].tokens /\ req'[r].long = req[r].long
         /\ raced \subseteq raced' /\ PromptInv(r)'
<1>1. Only(r) /\ req'[r].pc = l
  BY Moved
<1>2. req'[r].tokens = req[r].tokens /\ req'[r].long = req[r].long
  BY DEF MoveTo, ReqShaped, Field
<1>3. req[r].tokens \in Nat /\ Paying(r)
  BY DEF QuotaFits, PriceInv, Paying
<1>4. PromptInv(r)'
  BY <1>1 DEF PromptInv, At
<1> QED BY <1>1, <1>2, <1>3, <1>4 DEF Notice

LEMMA ChargeMinuteKeeps ==
  ASSUME ReqShaped, PlaceInv, QuotaFits, NEW r \in Request, ChargeMinute(r), window' = window, Notice
  PROVE  QuotaFits'
<1>1. PICK n : n = minuteUsed[window] + req[r].tokens
  OBVIOUS
<1>2. /\ req[r].pc = "charge" /\ PriceInv(r)
      /\ minuteUsed' = [minuteUsed EXCEPT ![window] = n] /\ dailyUsed' = dailyUsed
  BY <1>1 DEF ChargeMinute, At, QuotaFits
<1>3. PICK l \in {"chargeDaily", "overdrawn", "done"} :
        /\ MoveTo(r, l) /\ l \in {"chargeDaily", "overdrawn"}
        /\ l = "overdrawn" <=> n >= MinuteBudget
  BY <1>1 DEF ChargeMinute
<1>4. /\ req[r].tokens \in Nat /\ Paying(r) /\ Only(r) /\ req'[r].pc = l
      /\ req'[r].tokens = req[r].tokens /\ req'[r].long = req[r].long
      /\ raced \subseteq raced' /\ PromptInv(r)'
  BY <1>2, <1>3, ChargeMoves
<1>5. n \in Nat
  BY <1>1, <1>4, QuotaTyped
<1>6. Counts(r)
  BY <1>2, <1>4, <1>5, QuotaTyped DEF Counts, QuotaFits
<1>7. r \notin raced => \/ req[r].long
                        \/ n < MinuteBudget /\ dailyUsed + req[r].tokens < DailyBudget
  BY <1>1, <1>2 DEF PriceInv, At
<1>8. l = "overdrawn" => ~(n < MinuteBudget)
  BY <1>3, <1>5, QuotaTyped
<1>9. PriceInv(r)'
  BY <1>2, <1>3, <1>4, <1>7, <1>8 DEF PriceInv, At
<1> QED BY <1>4, <1>6, <1>9, QuotaKept

LEMMA ChargeDailyKeeps ==
  ASSUME ReqShaped, PlaceInv, QuotaFits, NEW r \in Request, ChargeDaily(r), window' = window, Notice
  PROVE  QuotaFits'
<1>1. PICK n : n = dailyUsed + req[r].tokens
  OBVIOUS
<1>2. /\ req[r].pc = "chargeDaily" /\ PriceInv(r)
      /\ minuteUsed' = minuteUsed /\ dailyUsed' = n
  BY <1>1 DEF ChargeDaily, At, QuotaFits
<1>3. PICK l \in {"chargeDaily", "overdrawn", "done"} :
        /\ MoveTo(r, l) /\ l \in {"overdrawn", "done"}
        /\ l = "overdrawn" <=> n >= DailyBudget
  BY <1>1 DEF ChargeDaily
<1>4. /\ req[r].tokens \in Nat /\ Paying(r) /\ Only(r) /\ req'[r].pc = l
      /\ req'[r].tokens = req[r].tokens /\ req'[r].long = req[r].long
      /\ raced \subseteq raced' /\ PromptInv(r)'
  BY <1>2, <1>3, ChargeMoves
<1>5. n \in Nat
  BY <1>1, <1>4, QuotaTyped
<1>6. Counts(r)
  BY <1>2, <1>4, <1>5 DEF Counts, QuotaFits
<1>7. r \notin raced => req[r].long \/ n < DailyBudget
  BY <1>1, <1>2 DEF PriceInv, At
<1>8. l = "overdrawn" => ~(n < DailyBudget)
  BY <1>3, <1>5, QuotaTyped
<1>9. PriceInv(r)'
  BY <1>3, <1>4, <1>7, <1>8 DEF PriceInv, At
<1> QED BY <1>4, <1>6, <1>9, QuotaKept

LEMMA QuotaSteps ==
  ASSUME ReqShaped, PlaceInv, QuotaFits, NEW r \in Request, QuotaStep(r), window' = window, Notice
  PROVE  QuotaFits'
BY ComposeKeeps, CheckMinuteKeeps, CheckDailyKeeps, AnswerKeeps, NoAnswerKeeps,
   ChargeMinuteKeeps, ChargeDailyKeeps DEF QuotaStep

\* A new minute begins with nothing used.
LEMMA QuotaPasses ==
  ASSUME PlaceInv, QuotaFits, window < LastWindow[stage], window' = window + 1,
         \A r \in Request : req'[r] = req[r], UNCHANGED <<raced, minuteUsed, dailyUsed>>
  PROVE  QuotaFits'
<1>1. window \in 1..MaxWindow /\ window + 1 \in 1..MaxWindow
  <2>1. LastWindow[stage] \in 1..MaxWindow /\ MaxWindow \in Nat /\ window \in 1..LastWindow[stage]
    BY WindowAssumption DEF PlaceInv
  <2> QED BY <2>1
<1>2. minuteUsed[window] \in Nat /\ minuteUsed[window + 1] = 0
  BY <1>1 DEF QuotaFits
<1>3. \A w \in 1..MaxWindow : w > window' => minuteUsed'[w] = 0
  BY <1>1 DEF QuotaFits
<1>4. ASSUME NEW r \in Request
      PROVE  PromptInv(r)' /\ PriceInv(r)'
  <2>1. PromptInv(r) /\ PriceInv(r)
    BY DEF QuotaFits
  <2>2. PromptInv(r)'
    BY <2>1 DEF PromptInv, At
  <2>3. req[r].pc = "daily" => CountMessages(req[r].prompt) \in Nat
    BY PromptCounts
  <2>4. PICK n : n = CountMessages(req[r].prompt)
    OBVIOUS
  <2>5. r \notin raced /\ At(r, "daily") => minuteUsed[window + 1] + n + Estimate < MinuteBudget
    BY <1>2, <2>1, <2>3, <2>4, QuotaTyped DEF PriceInv, At
  <2>6. req[r].pc \in {"stream", "charge", "chargeDaily"} => req[r].tokens \in Nat
    BY <2>1 DEF PriceInv
  <2>7. r \notin raced /\ At(r, "stream") =>
          minuteUsed[window + 1] + req[r].tokens + Estimate < MinuteBudget
    BY <1>2, <2>1, <2>6, QuotaTyped DEF PriceInv, At
  <2>8. r \notin raced /\ At(r, "charge") /\ ~req[r].long =>
          minuteUsed[window + 1] + req[r].tokens < MinuteBudget
    BY <1>2, <2>1, <2>6, QuotaTyped DEF PriceInv, At
  <2>9. PriceInv(r)'
    BY <2>1, <2>4, <2>5, <2>7, <2>8 DEF PriceInv, At
  <2> QED BY <2>2, <2>9
<1> QED BY <1>3, <1>4 DEF QuotaFits, Paying

\* Nothing of it changes.
LEMMA QuotaSame ==
  ASSUME QuotaFits, UNCHANGED <<req, window, raced, minuteUsed, dailyUsed>>
  PROVE  QuotaFits'
BY DEF QuotaFits, PromptInv, PriceInv, Paying, At

-----------------------------------------------------------------------------
(* A process's own cache                                                    *)

\* s without its element i.
Without(s, i, t) ==
  Len(t) = Len(s) - 1 /\ \A n \in 1..Len(t) : t[n] = s[IF n < i THEN n ELSE n + 1]

LEMMA Removed ==
  ASSUME NEW K, NEW s \in Seq(K), NEW e, NEW t, t = RemoveFirst(s, e)
  PROVE  /\ t \in Seq(K)
         /\ \/ t = s /\ \A n \in 1..Len(s) : s[n] # e
            \/ \E i \in 1..Len(s) : s[i] = e /\ Without(s, i, t)
<1>1. CASE \A n \in 1..Len(s) : s[n] # e
  <2>1. t = s
    BY <1>1 DEF RemoveFirst
  <2> QED BY <1>1, <2>1
<1>2. CASE \E n \in 1..Len(s) : s[n] = e
  <2> DEFINE I == {n \in 1..Len(s) : s[n] = e}
             j == CHOOSE x \in I : \A y \in I : x <= y
  <2>1. t = SubSeq(s, 1, j - 1) \o SubSeq(s, j + 1, Len(s))
    BY <1>2 DEF RemoveFirst, SelectInSeq, RemoveAt, Min
  <2>2. \E x \in I : \A y \in I : x <= y
    <3>1. I \in SUBSET Nat /\ I # {}
      BY <1>2
    <3> HIDE DEF I
    <3> QED BY <3>1, Least
  <2>3. j \in I
    BY <2>2
  <2> HIDE DEF j
  <2>4. PICK i, len : i = j /\ len = Len(s) /\ i \in 1..len /\ s[i] = e /\ len \in Nat
    BY <2>3
  <2>5. \A n \in 1..len : s[n] \in K
    BY <2>4
  <2>6. PICK a, b : a = i - 1 /\ b = i + 1
    OBVIOUS
  <2>7. /\ a \in Nat /\ b \in Int /\ a <= len /\ 1 <= b /\ 1 \in Int /\ len \in Int /\ a \in Int
        /\ len - b + 1 = len - i /\ (IF 1 <= a THEN a - 1 + 1 ELSE 0) = a /\ a - 1 + 1 = a
        /\ (IF b <= len THEN len - b + 1 ELSE 0) = len - i
    BY <2>4, <2>6
  <2>8. PICK u, v : u = SubSeq(s, 1, a) /\ v = SubSeq(s, b, len)
    OBVIOUS
  <2>9. /\ u \in Seq(K) /\ Len(u) = a /\ \A n \in 1..a : u[n] = s[1 + n - 1]
    <3>1. \A n \in 1..a : s[n] \in K
      BY <2>5, <2>7
    <3>2. /\ SubSeq(s, 1, a) \in Seq(K)
          /\ Len(SubSeq(s, 1, a)) = IF 1 <= a THEN a - 1 + 1 ELSE 0
          /\ \A n \in 1..(a - 1 + 1) : SubSeq(s, 1, a)[n] = s[1 + n - 1]
      BY <2>7, <3>1, SubSeqProperties
    <3> QED BY <2>7, <2>8, <3>2
  <2>10. /\ v \in Seq(K) /\ Len(v) = len - i /\ \A n \in 1..(len - i) : v[n] = s[b + n - 1]
    <3>1. \A n \in b..len : s[n] \in K
      BY <2>5, <2>7
    <3>2. /\ SubSeq(s, b, len) \in Seq(K)
          /\ Len(SubSeq(s, b, len)) = IF b <= len THEN len - b + 1 ELSE 0
          /\ \A n \in 1..(len - b + 1) : SubSeq(s, b, len)[n] = s[b + n - 1]
      BY <2>7, <3>1, SubSeqProperties
    <3> QED BY <2>7, <2>8, <3>2
  <2>11. t = u \o v
    BY <2>1, <2>4, <2>6, <2>8
  <2>12. /\ t \in Seq(K) /\ Len(t) = a + (len - i)
         /\ \A n \in 1..(a + (len - i)) : t[n] = IF n <= a THEN u[n] ELSE v[n - a]
    BY <2>9, <2>10, <2>11, ConcatProperties
  <2>13. Len(t) = len - 1
    BY <2>4, <2>6, <2>12
  <2>14. ASSUME NEW n \in 1..(len - 1)
         PROVE  t[n] = s[IF n < i THEN n ELSE n + 1]
    <3>1. n \in 1..(a + (len - i)) /\ (n <= a <=> n < i)
      BY <2>4, <2>6
    <3>2. CASE n <= a
      <4>1. n \in 1..a /\ 1 + n - 1 = n
        BY <2>7, <3>2
      <4> QED BY <2>9, <2>12, <3>1, <3>2, <4>1
    <3>3. CASE ~(n <= a)
      <4>1. n - a \in 1..(len - i) /\ b + (n - a) - 1 = n + 1
        BY <2>4, <2>6, <3>3
      <4> QED BY <2>10, <2>12, <3>1, <3>3, <4>1
    <3> QED BY <3>2, <3>3
  <2> QED BY <2>4, <2>12, <2>13, <2>14 DEF Without
<1> QED BY <1>1, <1>2

LEMMA KeysRemoved ==
  ASSUME NEW s, Distinct(s), NEW k, NEW t, t = RemoveFirst(s, k)
  PROVE  /\ Distinct(t) /\ \A n \in 1..Len(t) : t[n] # k
         /\ \A j, U : j # k /\ Behind(s, j, U) => Behind(t, j, U)
<1>1. /\ t \in Seq(CacheKey)
      /\ \/ t = s /\ \A n \in 1..Len(s) : s[n] # k
         \/ \E i \in 1..Len(s) : s[i] = k /\ Without(s, i, t)
  BY Removed DEF Distinct
<1>2. CASE t = s /\ \A n \in 1..Len(s) : s[n] # k
  BY <1>2
<1>3. CASE \E i \in 1..Len(s) : s[i] = k /\ Without(s, i, t)
  <2>1. PICK i, len : /\ len = Len(s) /\ len \in Nat /\ i \in 1..len /\ s[i] = k /\ Len(t) = len - 1
                      /\ \A n \in 1..(len - 1) : t[n] = s[IF n < i THEN n ELSE n + 1]
    BY <1>3 DEF Without, Distinct
  <2>2. \A m, n \in 1..len : s[m] = s[n] => m = n
    BY <2>1 DEF Distinct
  <2>3. ASSUME NEW m \in 1..(len - 1), NEW n \in 1..(len - 1), t[m] = t[n]
        PROVE  m = n
    <3>1. PICK x, y : x = (IF m < i THEN m ELSE m + 1) /\ y = (IF n < i THEN n ELSE n + 1)
      OBVIOUS
    <3>2. x \in 1..len /\ y \in 1..len
      BY <2>1, <3>1
    <3>3. x = y
      BY <2>1, <2>2, <2>3, <3>1, <3>2
    <3> QED BY <2>1, <3>1, <3>3
  <2>4. ASSUME NEW n \in 1..(len - 1)
        PROVE  t[n] # k
    <3>1. PICK x : x = (IF n < i THEN n ELSE n + 1)
      OBVIOUS
    <3>2. x \in 1..len /\ x # i
      BY <2>1, <3>1
    <3> QED BY <2>1, <2>2, <3>1, <3>2
  <2>5. ASSUME NEW j, NEW U, j # k, Behind(s, j, U)
        PROVE  Behind(t, j, U)
    <3>1. PICK l \in 1..len : s[l] = j /\ \A n \in 1..len : n > l => s[n] \in U
      BY <2>1, <2>5 DEF Behind
    <3>2. l # i
      BY <2>1, <2>5, <3>1
    <3>3. PICK o : o = IF l < i THEN l ELSE l - 1
      OBVIOUS
    <3>4. o \in 1..(len - 1) /\ (IF o < i THEN o ELSE o + 1) = l
      BY <2>1, <3>2, <3>3
    <3>5. t[o] = j
      BY <2>1, <3>1, <3>4
    <3>6. ASSUME NEW n \in 1..(len - 1), n > o
          PROVE  t[n] \in U
      <4>1. PICK x : x = (IF n < i THEN n ELSE n + 1)
        OBVIOUS
      <4>2. x \in 1..len /\ x > l
        BY <2>1, <3>2, <3>3, <3>6, <4>1
      <4> QED BY <2>1, <3>1, <4>1, <4>2
    <3> QED BY <2>1, <3>4, <3>5, <3>6 DEF Behind
  <2> QED BY <1>1, <2>1, <2>3, <2>4, <2>5 DEF Distinct
<1> QED BY <1>1, <1>2, <1>3

LEMMA KeyAdded ==
  ASSUME NEW s, Distinct(s), NEW k \in CacheKey, \A n \in 1..Len(s) : s[n] # k,
         NEW t, t = Append(s, k)
  PROVE  /\ Distinct(t) /\ \A U : Behind(t, k, U)
         /\ \A j, U : Behind(s, j, U) => Behind(t, j, U \cup {k})
<1>1. PICK len \in Nat : len = Len(s)
  BY DEF Distinct
<1>2. /\ t \in Seq(CacheKey) /\ Len(t) = len + 1 /\ t[len + 1] = k
      /\ \A n \in 1..len : t[n] = s[n]
  BY <1>1, AppendProperties DEF Distinct
<1>3. \A n \in 1..(len + 1) : n \in 1..len \/ n = len + 1
  OBVIOUS
<1>4. \A m, n \in 1..len : s[m] = s[n] => m = n
  BY <1>1 DEF Distinct
<1>5. \A m, n \in 1..(len + 1) : t[m] = t[n] => m = n
  BY <1>1, <1>2, <1>3, <1>4
<1>6. len + 1 \in 1..(len + 1) /\ \A n \in 1..(len + 1) : ~(n > len + 1)
  OBVIOUS
<1>7. \A U : Behind(t, k, U)
  BY <1>2, <1>6 DEF Behind
<1>8. ASSUME NEW j, NEW U, Behind(s, j, U)
      PROVE  Behind(t, j, U \cup {k})
  <2>1. PICK i \in 1..len : s[i] = j /\ \A n \in 1..len : n > i => s[n] \in U
    BY <1>1, <1>8 DEF Behind
  <2>2. i \in 1..(len + 1)
    OBVIOUS
  <2> QED BY <1>2, <1>3, <2>1, <2>2 DEF Behind
<1> QED BY <1>2, <1>5, <1>7, <1>8 DEF Distinct

\* The oldest entry goes: when it is j, the other keys are all among those used.
LEMMA OldestDropped ==
  ASSUME NEW s, Distinct(s), Len(s) > MaxEntries, NEW t, t = Tail(s)
  PROVE  /\ Distinct(t)
         /\ \A j, U : Behind(s, j, U) /\ IsFiniteSet(U) =>
              Behind(t, j, U) \/ Cardinality(U) >= MaxEntries
<1>1. PICK len \in Nat : len = Len(s)
  BY DEF Distinct
<1>2. MaxEntries \in Nat /\ MaxEntries > 0
  BY AccessAssumption
<1>3. s # <<>> /\ len > MaxEntries
  BY <1>1, <1>2
<1>4. /\ t \in Seq(CacheKey) /\ Len(t) = len - 1
      /\ \A n \in 1..(len - 1) : t[n] = s[n + 1]
  BY <1>1, <1>3, HeadTailProperties DEF Distinct
<1>5. \A m, n \in 1..len : s[m] = s[n] => m = n
  BY <1>1 DEF Distinct
<1>6. \A n \in 1..(len - 1) : n + 1 \in 1..len
  OBVIOUS
<1>7. \A m, n \in 1..(len - 1) : t[m] = t[n] => m = n
  BY <1>4, <1>5, <1>6
<1>8. ASSUME NEW j, NEW U, Behind(s, j, U), IsFiniteSet(U)
      PROVE  Behind(t, j, U) \/ Cardinality(U) >= MaxEntries
  <2>1. PICK i \in 1..len : s[i] = j /\ \A n \in 1..len : n > i => s[n] \in U
    BY <1>1, <1>8 DEF Behind
  <2>2. CASE i = 1
    <3> DEFINE S == 1..(len - 1)
               f == [n \in S |-> t[n]]
    <3>1. f \in [S -> U]
      BY <1>4, <1>6, <2>1, <2>2
    <3>2. \A m, n \in S : f[m] = f[n] => m = n
      BY <1>7
    <3>3. IsFiniteSet(S) /\ Cardinality(S) = len - 1
      <4>1. len - 1 \in Nat
        BY <1>2, <1>3
      <4>2. len - 1 \in Int /\ 1 \in Int /\ (IF 1 > len - 1 THEN 0 ELSE len - 1 - 1 + 1) = len - 1
        BY <4>1
      <4>3. IsFiniteSet(1..(len - 1)) /\ Cardinality(1..(len - 1)) = IF 1 > len - 1 THEN 0 ELSE len - 1 - 1 + 1
        BY <4>2, FS_Interval
      <4> QED BY <4>2, <4>3
    <3>4. Cardinality(U) \in Nat
      BY <1>8, FS_CardinalityType
    <3> HIDE DEF S, f
    <3>5. ~(Cardinality(U) < Cardinality(S))
      BY <1>8, <3>1, <3>2, <3>3, FS_PigeonHole
    <3>6. Cardinality(U) >= MaxEntries
      BY <1>2, <1>3, <3>3, <3>4, <3>5
    <3> QED BY <3>6
  <2>3. CASE i # 1
    <3>1. i - 1 \in 1..(len - 1) /\ (i - 1) + 1 = i
      BY <2>1, <2>3
    <3>2. t[i - 1] = j
      BY <1>4, <2>1, <3>1
    <3>3. \A n \in 1..(len - 1) : n > i - 1 => n + 1 > i
      BY <2>1
    <3>4. \A n \in 1..(len - 1) : n > i - 1 => t[n] \in U
      BY <1>4, <1>6, <2>1, <3>3
    <3> QED BY <1>4, <3>1, <3>2, <3>4 DEF Behind
  <2> QED BY <2>2, <2>3
<1> QED BY <1>4, <1>7, <1>8 DEF Distinct

\* What the invariant says in the stage of the tokens, without the stage.
MemoryFits ==
  /\ ttl \in [Store \X CacheKey -> Nat]
  /\ DOMAIN order = Process
  /\ \A p \in Process : Distinct(order[p])
  /\ \A p \in Process, j \in Token : IsFiniteSet(used[<<p, j>>]) /\ KeptInv(p, j)
  /\ \A s \in Store, j \in Token : s \in keepers[j] => ttl[<<s, j>>] + 1 >= left[j]

TokensTyped == left \in [Token -> Nat] /\ DOMAIN keepers = Token

BearerInv(r) ==
  req[r].pc \in {"verify", "greet", "look", "blacklist", "sweep"} =>
    req[r].proc \in Process /\ req[r].token \in Token

AccessFits == MemoryFits /\ TokensTyped /\ \A r \in Request : BearerInv(r)

LEMMA TokenKeys ==
  /\ Process \subseteq Store /\ "redis" \in Store /\ "redis" \notin Process
  /\ Token \subseteq CacheKey /\ Other \subseteq CacheKey /\ Token \cap Other = {}
BY AccessAssumption DEF Store, CacheKey

\* Nothing in the caches changes.
LEMMA MemorySame ==
  ASSUME MemoryFits, UNCHANGED <<ttl, order, used, left, keepers>>
  PROVE  MemoryFits'
BY DEF MemoryFits, KeptInv

\* One process's memory changes, of which the rest is said key by key.
LEMMA MemoryKept ==
  ASSUME MemoryFits, NEW p \in Process, NEW s, order' = [order EXCEPT ![p] = s], Distinct(s),
         UNCHANGED left, ttl' \in [Store \X CacheKey -> Nat],
         \A q \in Process \ {p}, j \in Token :
           /\ used'[<<q, j>>] = used[<<q, j>>]
           /\ q \in keepers'[j] => q \in keepers[j],
         \A j \in Token : /\ IsFiniteSet(used'[<<p, j>>])
                          /\ p \in keepers'[j] =>
                               \/ left[j] < 2 \/ Cardinality(used'[<<p, j>>]) >= MaxEntries
                               \/ Behind(s, j, used'[<<p, j>>]),
         \A q \in Store, j \in Token : q \in keepers'[j] => ttl'[<<q, j>>] + 1 >= left[j]
  PROVE  MemoryFits'
<1>1. DOMAIN order' = Process /\ order'[p] = s /\ \A q \in Process \ {p} : order'[q] = order[q]
  BY DEF MemoryFits
<1>2. \A q \in Process : Distinct(order'[q])
  BY <1>1 DEF MemoryFits
<1>3. ASSUME NEW q \in Process, NEW j \in Token
      PROVE  IsFiniteSet(used'[<<q, j>>]) /\ KeptInv(q, j)'
  <2>1. CASE q = p
    BY <1>1, <2>1 DEF KeptInv
  <2>2. CASE q # p
    BY <1>1, <2>2 DEF KeptInv, MemoryFits
  <2> QED BY <2>1, <2>2
<1> QED BY <1>1, <1>2, <1>3 DEF MemoryFits

LEMMA UsedSince ==
  ASSUME NEW p \in Process, NEW k, Touch(p, k)
  PROVE  /\ \A q \in Process \ {p}, j \in Token : used'[<<q, j>>] = used[<<q, j>>]
         /\ \A j \in Token : j = k => used'[<<p, j>>] = {}
         /\ \A j \in Token : j # k => used'[<<p, j>>] = used[<<p, j>>] \cup {k}
BY DEF Touch

LEMMA MoreUsed ==
  ASSUME NEW U, IsFiniteSet(U), NEW k
  PROVE  IsFiniteSet(U \cup {k}) /\ (Cardinality(U) >= MaxEntries => Cardinality(U \cup {k}) >= MaxEntries)
<1>1. IsFiniteSet(U \cup {k})
  BY FS_AddElement
<1>2. Cardinality(U) <= Cardinality(U \cup {k})
  BY <1>1, FS_Subset
<1>3. Cardinality(U) \in Nat /\ Cardinality(U \cup {k}) \in Nat /\ MaxEntries \in Nat
  BY <1>1, FS_CardinalityType, AccessAssumption
<1> QED BY <1>1, <1>2, <1>3

LEMMA FetchKeeps ==
  ASSUME MemoryFits, TokensTyped, NEW p \in Process, NEW k \in Token, Fetch(p, k),
         UNCHANGED <<left, keepers>>
  PROVE  MemoryFits'
<1>1. PICK s, t : s = order[p] /\ t = RemoveFirst(s, k)
  OBVIOUS
<1>2. Distinct(s) /\ ttl' = ttl /\ k \in CacheKey
  BY <1>1, TokenKeys DEF MemoryFits, Fetch
<1>3. /\ Distinct(t) /\ \A n \in 1..Len(t) : t[n] # k
      /\ \A j, U : j # k /\ Behind(s, j, U) => Behind(t, j, U)
  BY <1>1, <1>2, KeysRemoved
<1>4. /\ ttl' \in [Store \X CacheKey -> Nat]
      /\ \A q \in Store, j \in Token : q \in keepers'[j] => ttl'[<<q, j>>] + 1 >= left[j]
  BY <1>2 DEF MemoryFits
<1>5. CASE Found(p, k)
  <2>1. PICK a : a = Append(t, k)
    OBVIOUS
  <2>2. order' = [order EXCEPT ![p] = a] /\ Touch(p, k)
    BY <1>1, <1>5, <2>1 DEF Fetch
  <2>3. /\ Distinct(a) /\ \A U : Behind(a, k, U)
        /\ \A j, U : Behind(t, j, U) => Behind(a, j, U \cup {k})
    BY <1>2, <1>3, <2>1, KeyAdded
  <2>4. ASSUME NEW j \in Token
        PROVE  /\ IsFiniteSet(used'[<<p, j>>])
               /\ p \in keepers'[j] => \/ left[j] < 2 \/ Cardinality(used'[<<p, j>>]) >= MaxEntries
                                       \/ Behind(a, j, used'[<<p, j>>])
    <3>1. CASE j = k
      BY <2>2, <2>3, <3>1, UsedSince, FS_EmptySet
    <3>2. CASE j # k
      <4>1. PICK U : U = used[<<p, j>>]
        OBVIOUS
      <4>2. used'[<<p, j>>] = U \cup {k}
        BY <2>2, <3>2, <4>1, UsedSince
      <4>3. IsFiniteSet(U) /\ (p \in keepers[j] => \/ left[j] < 2 \/ Cardinality(U) >= MaxEntries
                                                   \/ Behind(s, j, U))
        BY <1>1, <4>1 DEF MemoryFits, KeptInv
      <4>4. IsFiniteSet(U \cup {k}) /\ (Cardinality(U) >= MaxEntries => Cardinality(U \cup {k}) >= MaxEntries)
        BY <4>3, MoreUsed
      <4> QED BY <1>3, <2>3, <3>2, <4>2, <4>3, <4>4
    <3> QED BY <3>1, <3>2
  <2>5. \A q \in Process \ {p}, j \in Token : used'[<<q, j>>] = used[<<q, j>>]
    BY <2>2, UsedSince
  <2> QED BY <1>4, <2>2, <2>3, <2>4, <2>5, MemoryKept
<1>6. CASE ~Found(p, k)
  <2>1. order' = [order EXCEPT ![p] = t] /\ used' = used
    BY <1>1, <1>6 DEF Fetch
  <2>2. ASSUME NEW j \in Token, p \in keepers[j]
        PROVE  \/ left[j] < 2 \/ Cardinality(used[<<p, j>>]) >= MaxEntries
               \/ Behind(t, j, used[<<p, j>>])
    <3>1. \/ left[j] < 2 \/ Cardinality(used[<<p, j>>]) >= MaxEntries
          \/ Behind(s, j, used[<<p, j>>])
      BY <1>1, <2>2 DEF MemoryFits, KeptInv
    <3>2. CASE j # k
      BY <1>3, <3>1, <3>2
    <3>3. CASE j = k /\ Behind(s, j, used[<<p, j>>])
      <4>1. Contains(order[p], k)
        BY <1>1, <3>3 DEF Behind, Contains
      <4>2. ~(ttl[<<p, k>>] > 0)
        BY <1>6, <4>1 DEF Found
      <4>3. ttl[<<p, k>>] \in Nat /\ left[j] \in Nat /\ ttl[<<p, k>>] + 1 >= left[j]
        BY <1>2, <2>2, <3>3, TokenKeys DEF MemoryFits, TokensTyped
      <4> QED BY <4>2, <4>3
    <3> QED BY <3>1, <3>2, <3>3
  <2>3. \A j \in Token : IsFiniteSet(used'[<<p, j>>])
    BY <2>1 DEF MemoryFits
  <2> QED BY <1>3, <1>4, <2>1, <2>2, <2>3, MemoryKept
<1> QED BY <1>5, <1>6

\* A token that p begins to keep is put there for long enough.
LEMMA PutKeeps ==
  ASSUME MemoryFits, TokensTyped, NEW p \in Process, NEW k \in CacheKey, NEW time \in Nat,
         Put(p, k, time), UNCHANGED left,
         k \in Token => time + 1 >= left[k],
         \A j \in Token : keepers'[j] \subseteq IF j = k THEN keepers[j] \cup {p} ELSE keepers[j]
  PROVE  MemoryFits'
<1>1. PICK s, t, a, b : /\ s = order[p] /\ t = RemoveFirst(s, k) /\ a = Append(t, k)
                        /\ b = IF Len(a) > MaxEntries THEN Tail(a) ELSE a
  OBVIOUS
<1>2. Distinct(s) /\ order' = [order EXCEPT ![p] = b] /\ ttl' = [ttl EXCEPT ![<<p, k>>] = time] /\ Touch(p, k)
  BY <1>1 DEF MemoryFits, Put
<1>3. /\ Distinct(t) /\ \A n \in 1..Len(t) : t[n] # k
      /\ \A j, U : j # k /\ Behind(s, j, U) => Behind(t, j, U)
  BY <1>1, <1>2, KeysRemoved
<1>4. /\ Distinct(a) /\ \A U : Behind(a, k, U)
      /\ \A j, U : Behind(t, j, U) => Behind(a, j, U \cup {k})
  BY <1>1, <1>3, KeyAdded
<1>5. /\ Distinct(b)
      /\ \A j, U : Behind(a, j, U) /\ IsFiniteSet(U) => Behind(b, j, U) \/ Cardinality(U) >= MaxEntries
  <2>1. CASE Len(a) > MaxEntries
    <3>1. b = Tail(a)
      BY <1>1, <2>1
    <3> QED BY <1>4, <2>1, <3>1, OldestDropped
  <2>2. CASE ~(Len(a) > MaxEntries)
    <3>1. b = a
      BY <1>1, <2>2
    <3> QED BY <1>4, <3>1
  <2> QED BY <2>1, <2>2
<1>6. ttl' \in [Store \X CacheKey -> Nat]
  BY <1>2 DEF MemoryFits
<1>7. ASSUME NEW q \in Store, NEW j \in Token, q \in keepers'[j]
      PROVE  ttl'[<<q, j>>] + 1 >= left[j]
  <2>1. CASE q = p /\ j = k
    BY <1>2, <2>1, TokenKeys DEF MemoryFits
  <2>2. CASE ~(q = p /\ j = k)
    <3>1. q \in keepers[j] /\ ttl'[<<q, j>>] = ttl[<<q, j>>]
      BY <1>2, <1>7, <2>2, TokenKeys DEF MemoryFits
    <3> QED BY <3>1 DEF MemoryFits
  <2> QED BY <2>1, <2>2
<1>8. ASSUME NEW j \in Token
      PROVE  /\ IsFiniteSet(used'[<<p, j>>])
             /\ p \in keepers'[j] => \/ left[j] < 2 \/ Cardinality(used'[<<p, j>>]) >= MaxEntries
                                     \/ Behind(b, j, used'[<<p, j>>])
  <2>1. CASE j = k
    BY <1>2, <1>4, <1>5, <2>1, UsedSince, FS_EmptySet
  <2>2. CASE j # k
    <3>1. PICK U : U = used[<<p, j>>]
      OBVIOUS
    <3>2. used'[<<p, j>>] = U \cup {k} /\ keepers'[j] \subseteq keepers[j]
      BY <1>2, <2>2, <3>1, UsedSince
    <3>3. IsFiniteSet(U) /\ (p \in keepers[j] => \/ left[j] < 2 \/ Cardinality(U) >= MaxEntries
                                                 \/ Behind(s, j, U))
      BY <1>1, <3>1 DEF MemoryFits, KeptInv
    <3>4. IsFiniteSet(U \cup {k}) /\ (Cardinality(U) >= MaxEntries => Cardinality(U \cup {k}) >= MaxEntries)
      BY <3>3, MoreUsed
    <3>5. Behind(s, j, U) => Behind(a, j, U \cup {k})
      BY <1>3, <1>4, <2>2
    <3> QED BY <1>5, <3>2, <3>3, <3>4, <3>5
  <2> QED BY <2>1, <2>2
<1>9. \A q \in Process \ {p}, j \in Token :
        used'[<<q, j>>] = used[<<q, j>>] /\ (q \in keepers'[j] => q \in keepers[j])
  BY <1>2, UsedSince
<1> QED BY <1>2, <1>5, <1>6, <1>7, <1>8, <1>9, MemoryKept

\* What a blacklisted token is kept for lasts at least to its last half second.
LEMMA LongEnough ==
  ASSUME TokensTyped, NEW j \in Token
  PROVE  BlacklistTtl(j) \in Nat /\ BlacklistTtl(j) + 1 >= left[j]
<1>1. left[j] \in Nat /\ MinTtl \in Nat
  BY AccessAssumption DEF TokensTyped
<1>2. PICK n \in Nat : n = left[j]
  BY <1>1
<1>3. PICK h : h = n \div 2
  OBVIOUS
<1>4. h \in Nat /\ 2 * h + 1 >= n
  BY <1>3
<1>5. BlacklistTtl(j) = 2 * (IF h > MinTtl THEN h ELSE MinTtl)
  BY <1>2, <1>3 DEF BlacklistTtl
<1> QED BY <1>1, <1>2, <1>4, <1>5

\* A request keeps its token and its process until it is answered.
LEMMA BearerMoves ==
  ASSUME ReqShaped, \A q \in Request : BearerInv(q), NEW r \in Request, NEW l, MoveTo(r, l),
         req[r].pc \in {"verify", "greet", "look", "blacklist", "sweep"}
  PROVE  /\ \A q \in Request : BearerInv(q)'
         /\ req[r].proc \in Process /\ req[r].token \in Token
<1>1. Only(r) /\ Carries(r)
  BY Moved
<1>2. req[r].proc \in Process /\ req[r].token \in Token
  BY DEF BearerInv
<1>3. BearerInv(r)'
  BY <1>1, <1>2 DEF BearerInv, Carries
<1>4. \A q \in Request \ {r} : BearerInv(q)'
  BY <1>1 DEF BearerInv, Only
<1> QED BY <1>2, <1>3, <1>4

LEMMA PresentKeeps ==
  ASSUME ReqShaped, AccessFits, NEW r \in Request, NEW p \in Process, NEW j \in Token,
         NEW out \in BOOLEAN, Present(r, p, j, out)
  PROVE  AccessFits'
<1> DEFINE x == [req[r] EXCEPT !.pc = "verify", !.proc = p, !.token = j, !.logout = out]
<1>1. req' = [req EXCEPT ![r] = x] /\ UNCHANGED accessVars
  BY DEF Present, ReqShaped
<1>2. DOMAIN x = Field /\ x.proc = p /\ x.token = j
  BY DEF ReqShaped, Field
<1> HIDE DEF x
<1>3. Only(r) /\ req'[r] = x
  BY <1>1, <1>2, Shaped
<1>4. \A q \in Request : BearerInv(q)'
  BY <1>2, <1>3 DEF AccessFits, BearerInv, Only
<1>5. UNCHANGED <<ttl, order, used, left, keepers>>
  BY <1>1 DEF accessVars
<1> QED BY <1>4, <1>5, MemorySame DEF AccessFits, TokensTyped

LEMMA LookInMemoryKeeps ==
  ASSUME ReqShaped, AccessFits, NEW r \in Request, LookInMemory(r),
         req[r].pc \in {"verify", "greet"}, UNCHANGED <<left, keepers>>
  PROVE  AccessFits'
<1>1. PICK l : MoveTo(r, l)
  BY DEF LookInMemory
<1>2. Fetch(req[r].proc, req[r].token)
  BY DEF LookInMemory
<1>3. /\ \A q \in Request : BearerInv(q)'
      /\ req[r].proc \in Process /\ req[r].token \in Token
  BY <1>1, BearerMoves DEF AccessFits
<1>4. PICK p \in Process, k \in Token : p = req[r].proc /\ k = req[r].token
  BY <1>3
<1>5. MemoryFits'
  BY <1>2, <1>4, FetchKeeps DEF AccessFits
<1> QED BY <1>3, <1>5 DEF AccessFits, TokensTyped

LEMMA BlacklistKeeps ==
  ASSUME ReqShaped, AccessFits, NEW r \in Request, Blacklist(r)
  PROVE  AccessFits'
<1>1. MoveTo(r, "sweep") /\ req[r].pc = "blacklist" /\ left' = left
  BY DEF Blacklist, At
<1>2. /\ \A q \in Request : BearerInv(q)'
      /\ req[r].proc \in Process /\ req[r].token \in Token
  BY <1>1, BearerMoves DEF AccessFits
<1>3. PICK p \in Process, j \in Token : p = req[r].proc /\ j = req[r].token
  BY <1>2
<1>4. PICK s : s = IF link[p] = "memory" THEN p ELSE "redis"
  OBVIOUS
<1>5. BlacklistTtl(j) \in Nat /\ BlacklistTtl(j) + 1 >= left[j]
  BY LongEnough DEF AccessFits
<1>6. \/ UNCHANGED <<ttl, order, used, keepers>>
      \/ /\ keepers' = [keepers EXCEPT ![j] = @ \cup {s}]
         /\ IF s = p THEN Put(p, j, BlacklistTtl(j))
            ELSE ttl' = [ttl EXCEPT ![<<"redis", j>>] = BlacklistTtl(j)] /\ UNCHANGED <<order, used>>
  BY <1>3, <1>4 DEF Blacklist
<1>7. CASE UNCHANGED <<ttl, order, used, keepers>>
  BY <1>1, <1>2, <1>7, MemorySame DEF AccessFits, TokensTyped
<1>8. CASE keepers' = [keepers EXCEPT ![j] = @ \cup {s}] /\ s = p /\ Put(p, j, BlacklistTtl(j))
  <2>1. \A i \in Token : keepers'[i] \subseteq IF i = j THEN keepers[i] \cup {p} ELSE keepers[i]
    BY <1>8 DEF AccessFits, TokensTyped
  <2>2. MemoryFits /\ TokensTyped /\ j \in CacheKey
    BY TokenKeys DEF AccessFits
  <2>3. PICK time \in Nat : time = BlacklistTtl(j) /\ time + 1 >= left[j]
    BY <1>5
  <2>4. MemoryFits'
    BY <1>1, <1>8, <2>1, <2>2, <2>3, PutKeeps
  <2>5. TokensTyped'
    BY <1>1, <1>8, <2>2 DEF TokensTyped
  <2> QED BY <1>2, <2>4, <2>5 DEF AccessFits
<1>9. CASE /\ keepers' = [keepers EXCEPT ![j] = @ \cup {s}] /\ s # p
           /\ ttl' = [ttl EXCEPT ![<<"redis", j>>] = BlacklistTtl(j)] /\ UNCHANGED <<order, used>>
  <2>1. s = "redis"
    BY <1>4, <1>9
  <2>2. MemoryFits /\ TokensTyped
    BY DEF AccessFits
  <2>3. \A q \in Process, i \in Token : q \in keepers'[i] <=> q \in keepers[i]
    BY <1>9, <2>1, <2>2, TokenKeys DEF TokensTyped
  <2>4. \A q \in Process, i \in Token : IsFiniteSet(used'[<<q, i>>]) /\ KeptInv(q, i)'
    BY <1>1, <1>9, <2>2, <2>3 DEF MemoryFits, KeptInv
  <2>5. ttl' \in [Store \X CacheKey -> Nat]
    BY <1>5, <1>9, <2>2 DEF MemoryFits
  <2>6. ASSUME NEW q \in Store, NEW i \in Token, q \in keepers'[i]
        PROVE  ttl'[<<q, i>>] + 1 >= left'[i]
    <3>1. CASE q = "redis" /\ i = j
      BY <1>1, <1>5, <1>9, <2>2, <3>1, TokenKeys DEF MemoryFits
    <3>2. CASE ~(q = "redis" /\ i = j)
      <4>1. q \in keepers[i]
        BY <1>9, <2>1, <2>2, <2>6, <3>2 DEF TokensTyped
      <4>2. ttl'[<<q, i>>] = ttl[<<q, i>>]
        BY <1>9, <2>2, <3>2, TokenKeys DEF MemoryFits
      <4> QED BY <1>1, <2>2, <4>1, <4>2 DEF MemoryFits
    <3> QED BY <3>1, <3>2
  <2>7. MemoryFits'
    BY <1>9, <2>2, <2>4, <2>5, <2>6 DEF MemoryFits
  <2>8. TokensTyped'
    BY <1>1, <1>9, <2>2 DEF TokensTyped
  <2> QED BY <1>2, <2>7, <2>8 DEF AccessFits
<1> QED BY <1>6, <1>7, <1>8, <1>9

LEMMA AccessSteps ==
  ASSUME ReqShaped, AccessFits, NEW r \in Request, AccessStep(r)
  PROVE  AccessFits'
<1>1. ASSUME NEW l, MoveTo(r, l), UNCHANGED <<ttl, order, used, left, keepers>>,
             req[r].pc \in {"verify", "greet", "look", "blacklist", "sweep"}
      PROVE  AccessFits'
  BY <1>1, BearerMoves, MemorySame DEF AccessFits, TokensTyped
<1>2. CASE \E p \in Process, j \in Token, out \in BOOLEAN : Present(r, p, j, out)
  BY <1>2, PresentKeeps
<1>3. CASE Verify(r)
  <2>1. /\ req[r].pc = "verify" /\ UNCHANGED <<left, keepers>>
        /\ \/ LookInMemory(r)
           \/ \E l \in {"greet", "look"} : MoveTo(r, l) /\ UNCHANGED <<ttl, order, used>>
    BY <1>3 DEF Verify, At, cacheVars
  <2> QED BY <1>1, <2>1, LookInMemoryKeeps
<1>4. CASE Greeted(r) \/ Look(r) \/ LookRaises(r)
  <2>1. /\ req[r].pc \in {"greet", "look"} /\ UNCHANGED <<ttl, order, used, left, keepers>>
        /\ \E l : MoveTo(r, l)
    BY <1>4 DEF Greeted, Look, LookRaises, At, accessVars
  <2> QED BY <1>1, <2>1
<1>5. CASE NotGreeted(r)
  <2>1. req[r].pc = "greet" /\ UNCHANGED <<left, keepers>> /\ LookInMemory(r)
    BY <1>5 DEF NotGreeted, At
  <2> QED BY <2>1, LookInMemoryKeeps
<1>6. CASE Blacklist(r)
  BY <1>6, BlacklistKeeps
<1>7. CASE Sweep(r)
  <2>1. /\ req[r].pc = "sweep" /\ UNCHANGED <<ttl, order, used, left, keepers>>
        /\ \E l : MoveTo(r, l)
    BY <1>7 DEF Sweep, At, cacheVars
  <2> QED BY <1>1, <2>1
<1> QED BY <1>2, <1>3, <1>4, <1>5, <1>6, <1>7 DEF AccessStep

\* Half a second less for every token and every entry.
LEMMA HalfSecondKeeps ==
  ASSUME AccessFits, HalfSecond
  PROVE  AccessFits'
<1>1. /\ UNCHANGED <<req, order, used, keepers>>
      /\ left' = [j \in Token |-> IF left[j] > 0 THEN left[j] - 1 ELSE 0]
      /\ ttl' = [x \in Store \X CacheKey |-> IF ttl[x] > 0 THEN ttl[x] - 1 ELSE 0]
      /\ MemoryFits /\ TokensTyped
  BY DEF HalfSecond, AccessFits
<1>2. /\ ttl' \in [Store \X CacheKey -> Nat]
      /\ left' \in [Token -> Nat]
      /\ \A j \in Token : left[j] \in Nat /\ left'[j] \in Nat /\ left'[j] <= left[j]
  <2>1. \A x \in Store \X CacheKey : (IF ttl[x] > 0 THEN ttl[x] - 1 ELSE 0) \in Nat
    BY <1>1 DEF MemoryFits
  <2>2. \A j \in Token : LET n == IF left[j] > 0 THEN left[j] - 1 ELSE 0
                         IN n \in Nat /\ n <= left[j] /\ left[j] \in Nat
    BY <1>1 DEF TokensTyped
  <2> QED BY <1>1, <2>1, <2>2
<1>3. ASSUME NEW s \in Store, NEW j \in Token, s \in keepers[j]
      PROVE  ttl'[<<s, j>>] + 1 >= left'[j]
  <2>1. <<s, j>> \in Store \X CacheKey
    BY TokenKeys
  <2>2. PICK n, m : n = ttl[<<s, j>>] /\ m = left[j] /\ n \in Nat /\ m \in Nat /\ n + 1 >= m
    BY <1>1, <1>3, <2>1 DEF MemoryFits, TokensTyped
  <2>3. /\ ttl'[<<s, j>>] = IF n > 0 THEN n - 1 ELSE 0
        /\ left'[j] = IF m > 0 THEN m - 1 ELSE 0
    BY <1>1, <2>1, <2>2
  <2> QED BY <2>2, <2>3
<1>4. \A p \in Process, j \in Token : KeptInv(p, j)'
  <2>1. \A j \in Token : left[j] < 2 => left'[j] < 2
    BY <1>2
  <2> QED BY <1>1, <2>1 DEF KeptInv, MemoryFits
<1>5. MemoryFits'
  BY <1>1, <1>2, <1>3, <1>4 DEF MemoryFits
<1> QED BY <1>1, <1>2, <1>5 DEF AccessFits, TokensTyped, BearerInv

LEMMA AccessChangesKeep ==
  ASSUME AccessFits, AccessChanges
  PROVE  AccessFits'
<1>1. ASSUME NEW p \in Process, NEW k \in Other, CacheOther(p, k)
      PROVE  AccessFits'
  <2>1. Put(p, k, 1) /\ UNCHANGED <<req, left, keepers>>
    BY <1>1 DEF CacheOther
  <2>2. k \in CacheKey /\ k \notin Token /\ MemoryFits /\ TokensTyped
    BY TokenKeys DEF AccessFits
  <2>3. \A j \in Token : keepers'[j] \subseteq IF j = k THEN keepers[j] \cup {p} ELSE keepers[j]
    BY <2>1
  <2>4. MemoryFits'
    <3>1. 1 \in Nat
      OBVIOUS
    <3> QED BY <2>1, <2>2, <2>3, <3>1, PutKeeps
  <2> QED BY <2>1, <2>4 DEF AccessFits, TokensTyped, BearerInv
<1> QED BY <1>1, HalfSecondKeeps DEF AccessChanges

\* Where and when the logout of its token does not bar a request.
Forgotten(r) ==
  LET p == req[r].proc
      j == req[r].token
      s == IF At(r, "look") THEN "redis" ELSE p
  IN \/ s \notin keepers[j]
     \/ left[j] < 2
     \/ s = p /\ Cardinality(used[<<p, j>>]) >= MaxEntries

LEMMA OnlyForgotten ==
  ASSUME ReqShaped, AccessFits, NEW r \in Request, AccessStep(r),
         req[r].pc # "admitted", req'[r].pc = "admitted"
  PROVE  Forgotten(r)
<1> USE DEF Forgotten
<1>1. \A l : MoveTo(r, l) => l = "admitted"
  BY Moved
<1>2. ~(\E p \in Process, j \in Token, out \in BOOLEAN : Present(r, p, j, out))
  <2> SUFFICES ASSUME NEW p \in Process, NEW j \in Token, NEW out \in BOOLEAN, Present(r, p, j, out)
               PROVE  FALSE
    OBVIOUS
  <2> DEFINE x == [req[r] EXCEPT !.pc = "verify", !.proc = p, !.token = j, !.logout = out]
  <2>1. req' = [req EXCEPT ![r] = x]
    BY DEF Present, ReqShaped
  <2>2. DOMAIN x = Field /\ x.pc = "verify"
    BY DEF ReqShaped, Field
  <2> HIDE DEF x
  <2> QED BY <2>1, <2>2, Shaped
<1>3. \/ Look(r)
      \/ LookInMemory(r) /\ req[r].pc \in {"verify", "greet"}
  BY <1>1, <1>2 DEF AccessStep, Verify, Greeted, NotGreeted, LookRaises, Blacklist, Sweep, At
<1>4. req[r].proc \in Process /\ req[r].token \in Token
  BY <1>3 DEF AccessFits, BearerInv, Look, At
<1>5. PICK p \in Process, j \in Token : p = req[r].proc /\ j = req[r].token
  BY <1>4
<1>6. MemoryFits /\ left[j] \in Nat
  BY DEF AccessFits, TokensTyped
<1>7. \A s \in Store : s \in keepers[j] /\ ~(ttl[<<s, j>>] > 0) => left[j] < 2
  <2> SUFFICES ASSUME NEW s \in Store, s \in keepers[j], ~(ttl[<<s, j>>] > 0)
               PROVE  left[j] < 2
    OBVIOUS
  <2>1. ttl[<<s, j>>] \in Nat /\ ttl[<<s, j>>] + 1 >= left[j]
    BY <1>6, TokenKeys DEF MemoryFits
  <2> QED BY <1>6, <2>1
<1>8. CASE Look(r)
  <2>1. ~(ttl[<<"redis", j>>] > 0) /\ At(r, "look")
    BY <1>1, <1>5, <1>8 DEF Look, Looked
  <2>2. "redis" \notin keepers[j] \/ left[j] < 2
    BY <1>7, <2>1, TokenKeys
  <2> QED BY <1>5, <2>1, <2>2
<1>9. CASE LookInMemory(r) /\ req[r].pc \in {"verify", "greet"}
  <2>1. ~Found(p, j) /\ ~At(r, "look")
    BY <1>1, <1>5, <1>9 DEF LookInMemory, Looked, At
  <2>2. p \in keepers[j] => left[j] < 2 \/ Cardinality(used[<<p, j>>]) >= MaxEntries
    <3> SUFFICES ASSUME p \in keepers[j]
                 PROVE  left[j] < 2 \/ Cardinality(used[<<p, j>>]) >= MaxEntries
      OBVIOUS
    <3>1. \/ left[j] < 2 \/ Cardinality(used[<<p, j>>]) >= MaxEntries
          \/ Behind(order[p], j, used[<<p, j>>])
      BY <1>6 DEF MemoryFits, KeptInv
    <3>2. Behind(order[p], j, used[<<p, j>>]) => Contains(order[p], j)
      BY DEF Behind, Contains
    <3>3. Contains(order[p], j) => left[j] < 2
      BY <1>7, <2>1, TokenKeys DEF Found
    <3> QED BY <3>1, <3>2, <3>3
  <2> QED BY <1>5, <2>1, <2>2
<1> QED BY <1>3, <1>8, <1>9

-----------------------------------------------------------------------------
(* The invariant                                                            *)

\* Each stage has its part.
LEMMA PathParts ==
  /\ AccessInv <=> (stage = "access" => AccessFits)
  /\ SourceInv <=> (stage = "source" => SourcesFit)
  /\ QuotaInv <=> (stage = "quota" => QuotaFits)
  /\ RatingInv <=> (stage = "rating" => ReportsFit)
BY DEF AccessInv, AccessFits, MemoryFits, TokensTyped, BearerInv, SourceInv, SourcesFit,
       QuotaInv, QuotaFits, RatingInv, ReportsFit

LEMMA InitPathInv == Init => PathInv
<1> SUFFICES ASSUME Init
             PROVE  PathInv
  OBVIOUS
<1>1. PICK found \in [Request -> IF stage = "quota" THEN SUBSET Doc ELSE {{}}] :
        req = [r \in Request |-> [Fresh EXCEPT !.docs = found[r]]]
  BY DEF Init
<1>2. /\ stage \in {"gate", "access", "source", "quota", "rating"} /\ window = 1
      /\ InitGate /\ InitSource /\ InitRating
  BY DEF Init, Entrance
<1>3. /\ ReqShaped
      /\ \A r \in Request : /\ req[r].pc = Entrance[stage] /\ req[r].via = Noone
                            /\ req[r].win = 1 /\ req[r].held = 0 /\ req[r].group = "default"
  BY <1>1 DEF ReqShaped, Fresh, Field
<1>4. /\ stage = "gate" => Entrance[stage] = "idle"
      /\ stage = "access" => Entrance[stage] = "call"
      /\ stage = "source" => Entrance[stage] = "config"
      /\ stage = "quota" => Entrance[stage] = "prompt"
      /\ stage = "rating" => Entrance[stage] = "review"
  BY DEF Entrance
<1>5. 1 \in 1..MaxWindow /\ 1 \in 1..LastWindow[stage]
  <2>1. LastWindow[stage] \in 1..MaxWindow /\ MaxWindow \in Nat
    BY <1>2, WindowAssumption
  <2> QED BY <2>1
<1>6. PlaceInv
  BY <1>2, <1>3, <1>4, <1>5
     DEF PlaceInv, GatePlace, AccessPlace, SourcePlace, QuotaPlace, RatingPlace
<1>7. GateInv
  <2>1. \A r \in Request : req[r].pc \in {"idle", "call", "config", "prompt", "review"}
    BY <1>2, <1>3, <1>4
  <2>2. /\ count = [x \in Store \X Kind \X (1..MaxWindow) |-> 0]
        /\ permits = [p \in Process |-> Concurrency]
    BY <1>2 DEF InitGate
  <2>3. ASSUME NEW p \in Process
        PROVE  PermitInv(p)
    <3>1. Inside(p) = {}
      BY <2>1 DEF Inside, At
    <3>2. Concurrency \in Nat
      BY LimitAssumption
    <3> QED BY <2>2, <3>1, <3>2, FS_EmptySet DEF PermitInv
  <2>4. ASSUME NEW s \in Store, NEW k \in Kind, NEW w \in 1..MaxWindow
        PROVE  PassInv(s, k, w)
    <3>1. Passed(s, k, w) = {}
      BY <1>3, <2>1, Constants DEF Passed, At
    <3>2. count[<<s, k, w>>] = 0
      BY <2>2
    <3>3. Limit(k) \in Nat
      BY Constants
    <3> QED BY <3>1, <3>2, <3>3, FS_EmptySet DEF PassInv, Within
  <2>5. \A r \in Request : Ruled(r)
    BY <1>3, <1>4, <1>5 DEF Ruled
  <2> QED BY <2>2, <2>3, <2>4, <2>5 DEF GateInv, Ruled
<1>8. SourceInv
  <2> SUFFICES ASSUME stage = "source"
               PROVE  SourcesFit
    BY DEF SourceInv, SourcesFit
  <2>1. CacheTtl \in Nat /\ MaxHold \in Nat
    BY RetrievalAssumption
  <2>2. /\ cache = [g \in Group |-> {}] /\ since = [a \in Aspect |-> Stale]
    BY <1>2 DEF InitSource
  <2>3. since \in [Aspect -> Nat]
    BY <2>1, <2>2 DEF Stale
  <2> QED BY <1>3, <1>4, <2>2, <2>3 DEF SourcesFit, HoldInv, Retrieving, At, Group
<1>9. RatingInv
  BY <1>2, <1>3, <1>4 DEF RatingInv, InitRating, ReportInv, At, NoReport
<1>10. QuotaInv
  <2> SUFFICES ASSUME stage = "quota"
               PROVE  QuotaFits
    BY PathParts
  <2>1. minuteUsed = [w \in 1..MaxWindow |-> 0] /\ dailyUsed = 0
    BY DEF Init
  <2>2. minuteUsed \in [1..MaxWindow -> Nat] /\ dailyUsed \in Nat
    BY <2>1
  <2> QED BY <1>3, <1>4, <2>1, <2>2 DEF QuotaFits, PromptInv, PriceInv, Paying, At
<1>11. AccessInv
  <2> SUFFICES ASSUME stage = "access"
               PROVE  AccessFits
    BY PathParts
  <2>1. /\ ttl = [x \in Store \X CacheKey |-> 0] /\ order = [p \in Process |-> <<>>]
        /\ left = [j \in Token |-> Life] /\ keepers = [j \in Token |-> {}]
        /\ used = [x \in Process \X Token |-> {}]
    BY DEF Init, InitAccess
  <2>2. Life \in Nat
    BY AccessAssumption
  <2>3. TokensTyped
    BY <2>1, <2>2 DEF TokensTyped
  <2>4. \A p \in Process : Distinct(order[p])
    BY <2>1 DEF Distinct
  <2>5. \A j \in Token : keepers[j] = {}
    BY <2>1
  <2>6. MemoryFits
    BY <2>1, <2>4, <2>5, FS_EmptySet DEF MemoryFits, KeptInv
  <2>7. \A r \in Request : req[r].pc = "call"
    BY <1>3, <1>4
  <2> QED BY <2>3, <2>6, <2>7 DEF AccessFits, BearerInv
<1> QED BY <1>3, <1>6, <1>7, <1>8, <1>9, <1>10, <1>11 DEF PathInv

\* A step of a request outside the rate limiter.
LEMMA TurnKeeps ==
  ASSUME ReqShaped, PlaceInv, GateInv, NEW r \in Request, stage # "gate",
         Turns(r, PlacesOf(stage)), UNCHANGED <<stage, window, count, permits>>
  PROVE  ReqShaped' /\ PlaceInv' /\ GateInv'
<1>1. \A q \in Request : req'[q].pc = req[q].pc \/ req'[q].pc \in PlacesOf(stage)
  BY DEF Turns, Only
<1>2. PlaceInv'
  <2>1. window' \in 1..LastWindow[stage]
    BY DEF PlaceInv
  <2> QED BY <1>1, <2>1, PlaceKept
<1>3. GateAlone
  BY DEF Turns, Only, GateAlone
<1>4. GateInv'
  BY <1>2, <1>3, GateApart
<1> QED BY <1>2, <1>4 DEF Turns

LEMMA StepKeeps ==
  ASSUME PathInv, NEW r \in Request, Step(r)
  PROVE  PathInv'
<1> USE DEF PathInv
<1>1. UNCHANGED <<stage, window>>
  BY DEF Step
<1>2. CASE stage = "gate" /\ GateStep(r)
  <2>1. GateLeaves(r)
    BY <1>1, <1>2, GateSteps
  <2>2. ReqShaped' /\ GateInv'
    BY <1>1, <2>1, GateKept DEF GateLeaves
  <2>3. \A q \in Request : req'[q].pc = req[q].pc \/ req'[q].pc \in PlacesOf(stage)
    BY <1>2, <2>1 DEF GateLeaves, Only, PlacesOf
  <2>4. window' \in 1..LastWindow[stage]
    BY <1>1 DEF PlaceInv
  <2>5. PlaceInv'
    BY <1>1, <2>3, <2>4, PlaceKept
  <2>6. AccessInv' /\ SourceInv' /\ QuotaInv' /\ RatingInv'
    BY <1>1, <1>2 DEF AccessInv, SourceInv, QuotaInv, RatingInv
  <2> QED BY <2>2, <2>5, <2>6
<1>3. CASE stage = "access" /\ AccessStep(r) /\ UNCHANGED gateVars
  <2>1. Turns(r, PlacesOf(stage))
    BY <1>3, AccessTurns DEF PlacesOf
  <2>2. ReqShaped' /\ PlaceInv' /\ GateInv'
    BY <1>1, <1>3, <2>1, TurnKeeps DEF gateVars
  <2>3. AccessFits'
    BY <1>3, PathParts, AccessSteps
  <2>4. AccessInv'
    BY <2>3 DEF AccessInv, AccessFits, MemoryFits, TokensTyped, BearerInv
  <2> QED BY <1>1, <1>3, <2>2, <2>4 DEF SourceInv, QuotaInv, RatingInv
<1>4. CASE stage = "source" /\ SourceStep(r) /\ UNCHANGED gateVars
  <2>1. Turns(r, PlacesOf(stage))
    BY <1>4, SourceTurns DEF PlacesOf
  <2>2. ReqShaped' /\ PlaceInv' /\ GateInv'
    BY <1>1, <1>4, <2>1, TurnKeeps DEF gateVars
  <2>3. SourcesFit
    BY <1>4, PathParts
  <2>4. SourcesFit'
    BY <1>4, <2>3, SourceSteps
  <2>5. AccessInv' /\ SourceInv' /\ QuotaInv' /\ RatingInv'
    BY <1>1, <1>4, <2>4 DEF AccessInv, SourceInv, SourcesFit, QuotaInv, RatingInv
  <2> QED BY <2>2, <2>5
<1>5. CASE stage = "quota" /\ QuotaStep(r) /\ UNCHANGED gateVars
  <2>1. Turns(r, PlacesOf(stage))
    BY <1>5, QuotaTurns DEF PlacesOf, Turns
  <2>2. ReqShaped' /\ PlaceInv' /\ GateInv'
    BY <1>1, <1>5, <2>1, TurnKeeps DEF gateVars
  <2>3. QuotaFits /\ window' = window /\ Notice
    BY <1>1, <1>5, PathParts DEF Step
  <2>4. QuotaFits'
    BY <1>5, <2>3, QuotaSteps
  <2>5. AccessInv' /\ SourceInv' /\ QuotaInv' /\ RatingInv'
    BY <1>1, <1>5, <2>4 DEF AccessInv, SourceInv, QuotaInv, QuotaFits, RatingInv
  <2> QED BY <2>2, <2>5
<1>6. CASE stage = "rating" /\ RatingStep(r) /\ UNCHANGED gateVars
  <2>1. Turns(r, PlacesOf(stage))
    BY <1>6, RatingTurns DEF PlacesOf
  <2>2. ReqShaped' /\ PlaceInv' /\ GateInv'
    BY <1>1, <1>6, <2>1, TurnKeeps DEF gateVars
  <2>3. ReportsFit
    BY <1>6, PathParts
  <2>4. ReportsFit'
    BY <1>6, <2>3, RatingSteps
  <2>5. AccessInv' /\ SourceInv' /\ QuotaInv' /\ RatingInv'
    BY <1>1, <1>6, <2>4 DEF AccessInv, SourceInv, QuotaInv, RatingInv, ReportsFit
  <2> QED BY <2>2, <2>5
<1> QED BY <1>2, <1>3, <1>4, <1>5, <1>6 DEF Step

LEMMA MinutePasses ==
  ASSUME PathInv, Minute
  PROVE  PathInv'
<1> USE DEF PathInv
<1>1. /\ window < LastWindow[stage] /\ window' = window + 1 /\ UNCHANGED <<stage, report, ratings>>
      /\ \A r \in Request : Retrieving(r) => req[r].held < MaxHold
      /\ req' = [r \in Request |-> IF Retrieving(r) THEN [req[r] EXCEPT !.held = @ + 1] ELSE req[r]]
      /\ Age /\ UNCHANGED <<docs, experiment>> /\ UNCHANGED gateVars
  BY DEF Minute, ratingVars
<1>2. \A r \in Request : /\ DOMAIN req'[r] = Field /\ req'[r].pc = req[r].pc
                         /\ req'[r].proc = req[r].proc
                         /\ req'[r].via = req[r].via /\ req'[r].win = req[r].win
  BY <1>1 DEF ReqShaped, Field
<1>3. ReqShaped'
  BY <1>1, <1>2 DEF ReqShaped
<1>4. PlaceInv'
  <2>1. LastWindow[stage] \in 1..MaxWindow /\ MaxWindow \in Nat /\ window \in 1..LastWindow[stage]
    BY WindowAssumption DEF PlaceInv
  <2>2. window' \in 1..LastWindow[stage]
    BY <1>1, <2>1
  <2> QED BY <1>1, <1>2, <2>2, PlaceKept
<1>5. GateInv'
  <2>1. GateAlone
    BY <1>1, <1>2 DEF GateAlone, gateVars
  <2> QED BY <1>1, <1>2, <2>1, GateSame
<1>6. SourceInv'
  <2>1. CASE stage = "source"
    <3>1. SourcesFit
      BY <2>1, PathParts
    <3>2. SourcesFit'
      BY <1>1, <3>1, MinuteKeeps
    <3> QED BY <3>2 DEF SourceInv, SourcesFit
  <2>2. CASE stage # "source"
    BY <1>1, <2>2 DEF SourceInv
  <2> QED BY <2>1, <2>2
<1>7. RatingInv'
  BY <1>1, <1>2 DEF RatingInv, ReportInv, At, Part
<1>8. QuotaInv'
  <2>1. CASE stage = "quota"
    <3>1. QuotaFits /\ UNCHANGED <<raced, minuteUsed, dailyUsed>>
      BY <2>1, PathParts DEF Minute, quotaVars
    <3>2. \A r \in Request : req[r].pc \in QuotaPlace
      BY <2>1 DEF PlaceInv
    <3>3. \A r \in Request : ~Retrieving(r)
      BY <3>2 DEF QuotaPlace, Retrieving
    <3>4. \A r \in Request : req'[r] = req[r]
      BY <1>1, <3>3
    <3>5. QuotaFits'
      BY <1>1, <3>1, <3>4, QuotaPasses
    <3> QED BY <3>5 DEF QuotaInv, QuotaFits
  <2>2. CASE stage # "quota"
    BY <1>1, <2>2 DEF QuotaInv
  <2> QED BY <2>1, <2>2
<1>9. AccessInv'
  <2>1. CASE stage = "access"
    <3>1. AccessFits /\ UNCHANGED <<ttl, order, used, left, keepers>>
      BY <2>1, PathParts DEF Minute, accessVars
    <3>2. \A r \in Request : req'[r].token = req[r].token
      BY <1>1 DEF ReqShaped, Field
    <3>3. \A r \in Request : BearerInv(r)'
      BY <1>2, <3>1, <3>2 DEF AccessFits, BearerInv
    <3>4. AccessFits'
      BY <3>1, <3>3, MemorySame DEF AccessFits, TokensTyped
    <3> QED BY <3>4 DEF AccessInv, AccessFits, MemoryFits, TokensTyped, BearerInv
  <2>2. CASE stage # "access"
    BY <1>1, <2>2 DEF AccessInv
  <2> QED BY <2>1, <2>2
<1> QED BY <1>3, <1>4, <1>5, <1>6, <1>7, <1>8, <1>9

LEMMA ChangePasses ==
  ASSUME PathInv, Change
  PROVE  PathInv'
<1> USE DEF PathInv
<1>1. UNCHANGED <<stage, window, req, count, permits, rows, ratings, report>>
  BY DEF Change, Outage, AccessChanges, HalfSecond, CacheOther, CacheOutage, SourcesChange,
         DocumentReady, DocumentDeleted, CreateExperiment, UpdateExperiment, DeleteExperiment,
         gateVars, ratingVars
<1>2. ReqShaped' /\ PlaceInv' /\ RatingInv'
  BY <1>1 DEF ReqShaped, PlaceInv, RatingInv, ReportInv, At, Part
<1>3. GateInv'
  <2>1. GateAlone
    BY <1>1 DEF GateAlone
  <2> QED BY <1>1, <2>1, GateSame
<1>4. SourceInv'
  <2>1. CASE stage = "source"
    <3>1. SourcesFit /\ SourcesChange
      BY <2>1, PathParts DEF Change
    <3>2. SourcesFit'
      BY <3>1, ChangeKeeps
    <3> QED BY <3>2 DEF SourceInv, SourcesFit
  <2>2. CASE stage # "source"
    BY <1>1, <2>2 DEF SourceInv
  <2> QED BY <2>1, <2>2
<1>5. QuotaInv'
  BY <1>1 DEF Change, QuotaInv
<1>6. AccessInv'
  <2>1. CASE stage = "access"
    <3>1. AccessFits /\ (AccessChanges \/ UNCHANGED <<ttl, order, used, left, keepers>>)
      BY <2>1, PathParts DEF Change, CacheOutage, accessVars
    <3>2. AccessFits'
      BY <1>1, <3>1, AccessChangesKeep, MemorySame DEF AccessFits, TokensTyped, BearerInv
    <3> QED BY <3>2 DEF AccessInv, AccessFits, MemoryFits, TokensTyped, BearerInv
  <2>2. CASE stage # "access"
    BY <1>1, <2>2 DEF AccessInv
  <2> QED BY <2>1, <2>2
<1> QED BY <1>2, <1>3, <1>4, <1>5, <1>6

LEMMA NextPathInv == PathInv /\ [Next]_vars => PathInv'
<1> SUFFICES ASSUME PathInv, [Next]_vars
             PROVE  PathInv'
  OBVIOUS
<1>1. CASE UNCHANGED vars
  <2>1. UNCHANGED <<stage, window, req, count, permits, docs, experiment, cache, since,
                    ratings, report>>
    BY <1>1 DEF vars, gateVars, sourceVars, ratingVars
  <2>2. ReqShaped' /\ PlaceInv' /\ RatingInv'
    BY <2>1 DEF PathInv, ReqShaped, PlaceInv, RatingInv, ReportInv, At, Part
  <2>3. GateInv'
    <3>1. GateAlone
      BY <2>1 DEF GateAlone
    <3> QED BY <2>1, <3>1, GateSame DEF PathInv
  <2>4. SourceInv'
    BY <2>1 DEF PathInv, SourceInv, HoldInv, EntryInv, Retrieving, At, Differs, Fits, Mine
  <2>5. QuotaInv'
    <3>1. UNCHANGED <<req, window, raced, minuteUsed, dailyUsed>>
      BY <1>1 DEF vars, quotaVars
    <3>2. CASE stage = "quota"
      <4>1. QuotaFits'
        BY <3>1, <3>2, PathParts, QuotaSame DEF PathInv
      <4> QED BY <4>1 DEF QuotaInv, QuotaFits
    <3>3. CASE stage # "quota"
      BY <2>1, <3>3 DEF QuotaInv
    <3> QED BY <3>2, <3>3
  <2>6. AccessInv'
    <3>1. UNCHANGED <<ttl, order, used, left, keepers>>
      BY <1>1 DEF vars, accessVars
    <3>2. CASE stage = "access"
      <4>1. AccessFits'
        BY <2>1, <3>1, <3>2, PathParts, MemorySame DEF PathInv, AccessFits, TokensTyped, BearerInv
      <4> QED BY <4>1 DEF AccessInv, AccessFits, MemoryFits, TokensTyped, BearerInv
    <3>3. CASE stage # "access"
      BY <2>1, <3>3 DEF AccessInv
    <3> QED BY <3>2, <3>3
  <2> QED BY <2>2, <2>3, <2>4, <2>5, <2>6 DEF PathInv
<1> QED BY <1>1, StepKeeps, MinutePasses, ChangePasses DEF Next

\* Every stage keeps its part of the invariant.
THEOREM PathInvariant == Spec => []PathInv
BY InitPathInv, NextPathInv, PTL DEF Spec

-----------------------------------------------------------------------------
(* What follows                                                             *)

\* In one minute no counter of the rate limiter, Redis's or a process's own, lets
\* more requests pass than its limit.
THEOREM AdmittedInTheLimits == Spec => []AdmittedWithinLimits
<1>1. PathInv => AdmittedWithinLimits
  <2> SUFFICES ASSUME PathInv, NEW s \in Store, NEW w \in 1..MaxWindow, NEW k \in Kind
               PROVE  Cardinality({r \in Request : req[r].via = s /\ req[r].win = w}) <= Limit(k)
    BY DEF AdmittedWithinLimits
  <2> DEFINE S == {r \in Request : req[r].via = s /\ req[r].win = w}
  <2>1. Within(Passed(s, k, w), count[<<s, k, w>>], Limit(k))
    BY DEF PathInv, GateInv, PassInv
  <2>2. S \subseteq Passed(s, k, w)
    BY DEF Passed
  <2>3. /\ IsFiniteSet(S) /\ Cardinality(S) <= Cardinality(Passed(s, k, w))
        /\ IsFiniteSet(Passed(s, k, w)) /\ Cardinality(Passed(s, k, w)) <= Limit(k)
    BY <2>1, <2>2, FS_Subset DEF Within
  <2>4. Cardinality(S) \in Nat /\ Cardinality(Passed(s, k, w)) \in Nat /\ Limit(k) \in Nat
    BY <2>3, FS_CardinalityType, Constants
  <2> HIDE DEF S
  <2>5. Cardinality(S) <= Limit(k)
    BY <2>3, <2>4
  <2> QED BY <2>5 DEF S
<1> QED BY <1>1, PathInvariant, PTL

\* Every permit of a process's semaphore is free or with a request that a route
\* works on, whichever way the route ends.
THEOREM PermitsComeBack == Spec => []PermitsAreReturned
<1>1. PathInv => PermitsAreReturned
  BY DEF PathInv, GateInv, PermitInv, Inside, PermitsAreReturned
<1> QED BY <1>1, PathInvariant, PTL

\* A token that was logged out is refused wherever the logout was kept, except in
\* its last second, or by a process without Redis that has used as many other
\* entries since as its memory holds.
THEOREM RevokedRefused == Spec => RevokedStaysRefused
<1>1. PathInv /\ [Next]_vars =>
        [\A r \in Request : ~At(r, "admitted") /\ At(r, "admitted")' => Forgotten(r)]_vars
  <2> SUFFICES ASSUME PathInv, Next, NEW q \in Request,
                      req[q].pc # "admitted", req'[q].pc = "admitted"
               PROVE  Forgotten(q)
    BY DEF At
  <2>1. ReqShaped
    BY DEF PathInv
  <2>2. ASSUME NEW r \in Request, Step(r)
        PROVE  Forgotten(q)
    <3>1. CASE stage = "gate" /\ GateStep(r)
      <4>1. GateLeaves(r)
        BY <2>2, <3>1, GateSteps DEF PathInv, Step
      <4>2. req'[q] = req[q] \/ req'[q].pc \in GatePlace
        BY <4>1 DEF GateLeaves, Only
      <4> QED BY <4>2 DEF GatePlace
    <3>2. CASE stage = "access" /\ AccessStep(r)
      <4>1. AccessFits
        BY <3>2, PathParts DEF PathInv
      <4>2. CASE q = r
        BY <2>1, <3>2, <4>1, <4>2, OnlyForgotten DEF Forgotten
      <4>3. CASE q # r
        BY <2>1, <3>2, <4>3, AccessTurns DEF Turns, Only
      <4> QED BY <4>2, <4>3
    <3>3. CASE stage = "source" /\ SourceStep(r)
      BY <2>1, <3>3, SourceTurns DEF Turns, Only, SourcePlace
    <3>4. CASE stage = "quota" /\ QuotaStep(r)
      BY <2>1, <3>4, QuotaTurns DEF Turns, Only, QuotaPlace
    <3>5. CASE stage = "rating" /\ RatingStep(r)
      BY <2>1, <3>5, RatingTurns DEF Turns, Only, RatingPlace
    <3> QED BY <2>2, <3>1, <3>2, <3>3, <3>4, <3>5 DEF Step
  <2>3. CASE Minute
    <3>1. req'[q].pc = req[q].pc
      BY <2>1, <2>3 DEF Minute, ReqShaped, Field
    <3> QED BY <3>1
  <2>4. CASE Change
    <3>1. req' = req
      BY <2>4 DEF Change, Outage, AccessChanges, HalfSecond, CacheOther, CacheOutage, SourcesChange,
         DocumentReady, DocumentDeleted, CreateExperiment, UpdateExperiment, DeleteExperiment
    <3> QED BY <3>1
  <2> QED BY <2>2, <2>3, <2>4 DEF Next
<1>2. [\A r \in Request : ~At(r, "admitted") /\ At(r, "admitted")' => Forgotten(r)]_vars =>
      [\A r \in Request : ~At(r, "admitted") /\ At(r, "admitted")' /\ req[r].token \in revoked =>
         LET p == req[r].proc
             j == req[r].token
             s == IF At(r, "look") THEN "redis" ELSE p
         IN \/ s \notin keepers[j]
            \/ left[j] < 2
            \/ s = p /\ Cardinality(used[<<p, j>>]) >= MaxEntries]_vars
  BY DEF Forgotten
<1> QED BY <1>1, <1>2, PathInvariant, PTL DEF Spec, RevokedStaysRefused

\* What a question is answered from is behind by one life of a cache's entry and
\* one retrieval at most.
THEOREM SourcesRecent == Spec => StaleForOneTtl
<1>1. PathInv /\ [Next]_vars =>
        [\A r \in Request : ~At(r, "prompt") /\ At(r, "prompt")' =>
           Recent(req'[r].docs, req'[r].setting)]_vars
  <2> SUFFICES ASSUME PathInv, Next, NEW q \in Request, req[q].pc # "prompt", req'[q].pc = "prompt"
               PROVE  Recent(req'[q].docs, req'[q].setting)
    BY DEF At
  <2>1. ReqShaped
    BY DEF PathInv
  <2>2. ASSUME NEW r \in Request, Step(r)
        PROVE  Recent(req'[q].docs, req'[q].setting)
    <3>1. CASE stage = "gate" /\ GateStep(r)
      <4>1. GateLeaves(r)
        BY <2>2, <3>1, GateSteps DEF PathInv, Step
      <4>2. req'[q] = req[q] \/ req'[q].pc \in GatePlace
        BY <4>1 DEF GateLeaves, Only
      <4> QED BY <4>2 DEF GatePlace
    <3>2. CASE stage = "access" /\ AccessStep(r)
      BY <2>1, <3>2, AccessTurns DEF Turns, Only, AccessPlace
    <3>3. CASE stage = "source" /\ SourceStep(r)
      <4>1. SourcesFit
        BY <3>3, PathParts DEF PathInv
      <4>2. CASE q = r
        BY <2>1, <3>3, <4>1, <4>2, PromptsRecent
      <4>3. CASE q # r
        BY <2>1, <3>3, <4>3, SourceTurns DEF Turns, Only
      <4> QED BY <4>2, <4>3
    <3>4. CASE stage = "quota" /\ QuotaStep(r)
      BY <2>1, <3>4, QuotaTurns DEF Turns, Only
    <3>5. CASE stage = "rating" /\ RatingStep(r)
      BY <2>1, <3>5, RatingTurns DEF Turns, Only, RatingPlace
    <3> QED BY <2>2, <3>1, <3>2, <3>3, <3>4, <3>5 DEF Step
  <2>3. CASE Minute
    <3>1. req'[q].pc = req[q].pc
      BY <2>1, <2>3 DEF Minute, ReqShaped, Field
    <3> QED BY <3>1
  <2>4. CASE Change
    <3>1. req' = req
      BY <2>4 DEF Change, Outage, AccessChanges, HalfSecond, CacheOther, CacheOutage, SourcesChange,
         DocumentReady, DocumentDeleted, CreateExperiment, UpdateExperiment, DeleteExperiment
    <3> QED BY <3>1
  <2> QED BY <2>2, <2>3, <2>4 DEF Next
<1> QED BY <1>1, PathInvariant, PTL DEF Spec, StaleForOneTtl, Recent

\* The report of the experiments leaves out no rating that was there when it
\* began, and counts twice only those that lost their experiment meanwhile.
THEOREM RatingsCountedOnce == Spec => []RatingsAreCounted
<1>1. PathInv /\ (\A r \in Request : At(r, "reported") => stage = "rating") => RatingsAreCounted
  BY DEF PathInv, RatingInv, ReportInv, RatingsAreCounted
<1>2. PathInv => \A r \in Request : At(r, "reported") => stage = "rating"
  BY DEF PathInv, PlaceInv, At, GatePlace, AccessPlace, SourcePlace, QuotaPlace
<1> QED BY <1>1, <1>2, PathInvariant, PTL

\* What is sent to the model fits the window with the question at its end, or is
\* down to its protected messages because the question does not fit beside them.
THEOREM QuestionGetsThere == Spec => []QuestionIsSent
<1>1. PathInv => QuestionIsSent
  <2> SUFFICES ASSUME PathInv, NEW r \in Request, At(r, "stream")
               PROVE  LET p == req[r].prompt
                          protected == IF req[r].docs = {} THEN 1 ELSE 2
                      IN \/ CountMessages(p) <= MaxPrompt /\ p[Len(p)] = req[r].asked /\ Len(p) > protected
                         \/ 2 + protected + req[r].asked > MaxPrompt /\ Len(p) = protected
    BY DEF QuestionIsSent
  <2>1. stage = "quota"
    BY DEF PathInv, PlaceInv, At, GatePlace, AccessPlace, SourcePlace, RatingPlace
  <2>2. PromptInv(r)
    BY <2>1 DEF PathInv, QuotaInv
  <2> QED BY <2>2 DEF PromptInv
<1> QED BY <1>1, PathInvariant, PTL

\* An answer becomes an error for its price only when another question of the
\* user was being paid meanwhile, or when it was longer than was estimated.
THEOREM ChargesAreForeseen == Spec => []ChargeRefusesOnlyRaced
<1>1. PathInv => ChargeRefusesOnlyRaced
  <2> SUFFICES ASSUME PathInv, NEW r \in Request, At(r, "overdrawn")
               PROVE  r \in raced \/ req[r].long
    BY DEF ChargeRefusesOnlyRaced
  <2>1. stage = "quota"
    BY DEF PathInv, PlaceInv, At, GatePlace, AccessPlace, SourcePlace, RatingPlace
  <2>2. PriceInv(r)
    BY <2>1 DEF PathInv, QuotaInv
  <2> QED BY <2>2 DEF PriceInv
<1> QED BY <1>1, PathInvariant, PTL
=============================================================================
