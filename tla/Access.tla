-------------------------------- MODULE Access --------------------------------
(***************************************************************************)
(* verify_auth and the logout of access tokens: the blacklist, and the     *)
(* cache it is kept in - Redis, or a process's own SimpleCache when that   *)
(* process found no Redis.                                                 *)
(*                                                                         *)
(* Time goes by half seconds: a token ends on a full second, and a logout  *)
(* comes on a full second or between two.  The refresh tokens that a       *)
(* logout revokes too are in RefreshTokens.                                *)
(***************************************************************************)
EXTENDS RateLimiter, SequencesExt

CONSTANTS
  Token,       \* access tokens
  Life,        \* what is left of them at first, in half seconds
  Other,       \* the keys of what else is cached
  MaxEntries,  \* maxsize of the fallback
  MinTtl       \* the 60 of blacklist_jti, in seconds

ASSUME AccessAssumption ==
  /\ {Life, MaxEntries, MinTtl} \subseteq Nat \ {0}
  /\ Token \cap Other = {}
  /\ "redis" \notin Process

VARIABLES
  link,     \* rag_cache._redis of each process
  ttl,      \* half seconds that are left of an entry
  order,    \* the keys in each SimpleCache, the longest unused one first
  left,     \* half seconds that are left of a token
  revoked,  \* the tokens of which a logout was answered
  keepers,  \* for the properties: where a token was blacklisted
  used      \* for the properties: the keys used since a token was, in a SimpleCache

accessVars == <<link, ttl, order, left, revoked, keepers, used>>
cacheVars  == <<link, ttl, order, used>>

CacheKey == Token \cup Other

-----------------------------------------------------------------------------
(* SimpleCache                                                              *)

Touch(p, k) ==
  used' = [x \in Process \X Token |->
             IF x[1] # p THEN used[x] ELSE IF x[2] = k THEN {} ELSE used[x] \cup {k}]

\* get finds an entry and makes it the newest, or removes what has run out.
Found(p, k) == Contains(order[p], k) /\ ttl[<<p, k>>] > 0

\* Mutant: the entry keeps its place.
FetchInPlace(p, k) ==
  /\ order' = [order EXCEPT ![p] = IF Found(p, k) THEN @ ELSE RemoveFirst(@, k)]
  /\ IF Found(p, k) THEN Touch(p, k) ELSE UNCHANGED used
  /\ UNCHANGED ttl

Fetch(p, k) ==
  /\ order' = [order EXCEPT ![p] = IF Found(p, k) THEN Append(RemoveFirst(@, k), k) ELSE RemoveFirst(@, k)]
  /\ IF Found(p, k) THEN Touch(p, k) ELSE UNCHANGED used
  /\ UNCHANGED ttl

\* set, which drops the oldest entries above maxsize.
Put(p, k, time) ==
  /\ LET new == Append(RemoveFirst(order[p], k), k)
     IN order' = [order EXCEPT ![p] =
                    IF Len(new) > MaxEntries THEN Tail(new) ELSE new]
  /\ ttl' = [ttl EXCEPT ![<<p, k>>] = time]
  /\ Touch(p, k)

-----------------------------------------------------------------------------
(* verify_auth                                                              *)

Looked(r, found) ==
  IF found THEN "barred" ELSE IF req[r].logout THEN "blacklist" ELSE "admitted"

\* A token that decodes: one whose time is over is answered 401.
Present(r, p, j, out) ==
  /\ At(r, "call")
  /\ left[j] > 0
  /\ req' = [req EXCEPT ![r].pc = "verify", ![r].proc = p, ![r].token = j, ![r].logout = out]
  /\ UNCHANGED accessVars

LookInMemory(r) ==
  LET p == req[r].proc
      j == req[r].token
  IN /\ MoveTo(r, Looked(r, Found(p, j)))
     /\ Fetch(p, j)

\* is_jti_blacklisted, as far as _get_redis gets without waiting.
Verify(r) ==
  LET p == req[r].proc IN
  /\ At(r, "verify")
  /\ \/ link[p] = "new" /\ link' = [link EXCEPT ![p] = "redis"]
        /\ MoveTo(r, "greet") /\ UNCHANGED <<ttl, order, used>>
     \/ link[p] = "redis" /\ MoveTo(r, "look") /\ UNCHANGED cacheVars
     \/ link[p] = "memory" /\ LookInMemory(r) /\ UNCHANGED link
  /\ UNCHANGED <<left, revoked, keepers>>

Greeted(r) ==
  /\ At(r, "greet")
  /\ redisUp
  /\ MoveTo(r, "look")
  /\ UNCHANGED accessVars

\* From now on the process keeps everything to itself.
NotGreeted(r) ==
  /\ At(r, "greet")
  /\ ~redisUp
  /\ link' = [link EXCEPT ![req[r].proc] = "memory"]
  /\ LookInMemory(r)
  /\ UNCHANGED <<left, revoked, keepers>>

Look(r) ==
  /\ At(r, "look")
  /\ redisUp
  /\ MoveTo(r, Looked(r, ttl[<<"redis", req[r].token>>] > 0))
  /\ UNCHANGED accessVars

\* Redis does not answer: the exception is none of jwt's, and the request fails.
LookRaises(r) ==
  /\ At(r, "look")
  /\ ~redisUp
  /\ MoveTo(r, "failed")
  /\ UNCHANGED accessVars

-----------------------------------------------------------------------------
(* logout                                                                   *)

\* int() cuts what is left to full seconds.
BlacklistTtl(j) == 2 * (IF left[j] \div 2 > MinTtl THEN left[j] \div 2 ELSE MinTtl)

\* blacklist_jti; whatever it raises is passed over, as is a token whose time is
\* over by now.
Blacklist(r) ==
  LET p == req[r].proc
      j == req[r].token
      s == IF link[p] = "memory" THEN p ELSE "redis"
  IN
  /\ At(r, "blacklist")
  /\ MoveTo(r, "sweep")
  /\ IF left[j] = 0 \/ (s = "redis" /\ ~redisUp)
     THEN UNCHANGED <<ttl, order, used, keepers>>
     ELSE /\ keepers' = [keepers EXCEPT ![j] = @ \cup {s}]
          /\ IF s = p THEN Put(p, j, BlacklistTtl(j))
             ELSE ttl' = [ttl EXCEPT ![<<"redis", j>>] = BlacklistTtl(j)] /\ UNCHANGED <<order, used>>
  /\ UNCHANGED <<link, left, revoked>>

\* revoke_all_user_refresh_tokens, which is not guarded.
Sweep(r) ==
  LET p == req[r].proc IN
  /\ At(r, "sweep")
  /\ IF link[p] = "redis" /\ ~redisUp
     THEN MoveTo(r, "failed") /\ UNCHANGED revoked
     ELSE MoveTo(r, "loggedOut") /\ revoked' = revoked \cup {req[r].token}
  /\ UNCHANGED <<cacheVars, left, keepers>>

-----------------------------------------------------------------------------
AccessStep(r) ==
  \/ \E p \in Process, j \in Token, out \in BOOLEAN : Present(r, p, j, out)
  \/ Verify(r) \/ Greeted(r) \/ NotGreeted(r) \/ Look(r) \/ LookRaises(r)
  \/ Blacklist(r) \/ Sweep(r)

\* Something else is cached by a process that runs without Redis: results,
\* counts of logins and of tokens.
CacheOther(p, k) ==
  /\ link[p] = "memory"
  /\ Put(p, k, 1)
  /\ UNCHANGED <<req, link, left, revoked, keepers>>

CacheOutage ==
  /\ \E r \in Request : req[r].pc \in {"verify", "greet", "look", "blacklist", "sweep"}
  /\ redisUp' = ~redisUp
  /\ UNCHANGED <<req, accessVars>>

HalfSecond ==
  /\ \E j \in Token : left[j] > 0
  /\ left' = [j \in Token |-> IF left[j] > 0 THEN left[j] - 1 ELSE 0]
  /\ ttl' = [x \in Store \X CacheKey |-> IF ttl[x] > 0 THEN ttl[x] - 1 ELSE 0]
  /\ UNCHANGED <<req, link, order, revoked, keepers, used>>

AccessChanges ==
  \/ HalfSecond
  \/ \E p \in Process, k \in Other : CacheOther(p, k)
=============================================================================
