----------------------------- MODULE RateLimiter -----------------------------
(***************************************************************************)
(* RedisRateLimiter, the middleware around every route: two counts in      *)
(* Redis for the minute, or in the process when it finds no Redis, and a   *)
(* semaphore for the requests that a process works on.                     *)
(*                                                                         *)
(* All requests here come from one address and carry a JWT: the user's key *)
(* is made of its first nine characters, which are the header's and the    *)
(* same for all users.                                                     *)
(***************************************************************************)
EXTENDS Requests

CONSTANTS
  Process,      \* the uvicorn processes
  Noone,
  IpLimit,      \* IP_LIMIT
  UserLimit,    \* USER_LIMIT
  Concurrency   \* GLOBAL_CONCURRENCY

ASSUME LimitAssumption ==
  {IpLimit, UserLimit, Concurrency} \subseteq Nat \ {0}

ASSUME NooneAssumption == Noone \notin Process \cup {"redis"}

VARIABLES
  redisUp,  \* does Redis answer?
  client,   \* the processes whose _redis is set
  count,    \* the counts in Redis, and in each process's fallback
  permits   \* the free permits of _global_semaphore

gateVars == <<redisUp, client, count, permits>>

Store == {"redis"} \cup Process
Kind  == {"ip", "user"}
Limit(k) == IF k = "ip" THEN IpLimit ELSE UserLimit

Hit(s, k, w) == count' = [count EXCEPT ![<<s, k, w>>] = @ + 1]

Over(s, k, w) == count[<<s, k, w>>] + 1 > Limit(k)

\* dispatch, in one of the processes.
Arrive(r, p) ==
  /\ At(r, "idle")
  /\ req' = [req EXCEPT ![r].pc = "connect", ![r].proc = p, ![r].win = window]
  /\ UNCHANGED gateVars

\* _get_redis: the first one sets the client and pings; the others find it set.
Connect(r) ==
  LET p == req[r].proc IN
  /\ At(r, "connect")
  /\ MoveTo(r, IF p \in client THEN "ip" ELSE "ping")
  /\ client' = client \cup {p}
  /\ UNCHANGED <<redisUp, count, permits>>

PingAnswered(r) ==
  /\ At(r, "ping")
  /\ redisUp
  /\ MoveTo(r, "ip")
  /\ UNCHANGED gateVars

\* Without an answer the process counts on its own: both counts at once, the
\* second only when the first lets the request pass.
FallBack(r) ==
  LET p == req[r].proc IN
  /\ At(r, "ping")
  /\ ~redisUp
  /\ client' = client \ {p}
  /\ IF Over(p, "ip", window)
     THEN MoveTo(r, "refused") /\ Hit(p, "ip", window)
     ELSE /\ count' = [count EXCEPT ![<<p, "ip", window>>] = @ + 1, ![<<p, "user", window>>] = @ + 1]
          /\ IF Over(p, "user", window) THEN MoveTo(r, "refused")
             ELSE req' = [req EXCEPT ![r].pc = "permit", ![r].via = p, ![r].win = window]
  /\ UNCHANGED <<redisUp, permits>>

\* Mutant: the limit is compared with the count as it was before.
CheckOneMore(r, k) ==
  LET w    == IF k = "ip" THEN window ELSE req[r].win
      next == IF count[<<"redis", k, w>>] > Limit(k) THEN "refused"
              ELSE IF k = "ip" THEN "user" ELSE "permit"
  IN
  /\ At(r, k)
  /\ redisUp
  /\ Hit("redis", k, w)
  /\ req' = [req EXCEPT ![r].win = w, ![r].pc = next,
                        ![r].via = IF next = "permit" THEN "redis" ELSE @]
  /\ UNCHANGED <<redisUp, client, permits>>

\* _check_redis: INCR for the address, then for the user, both under the minute
\* of the first.
Check(r, k) ==
  LET w    == IF k = "ip" THEN window ELSE req[r].win
      next == IF Over("redis", k, w) THEN "refused"
              ELSE IF k = "ip" THEN "user" ELSE "permit"
  IN
  /\ At(r, k)
  /\ redisUp
  /\ Hit("redis", k, w)
  /\ req' = [req EXCEPT ![r].win = w, ![r].pc = next,
                        ![r].via = IF next = "permit" THEN "redis" ELSE @]
  /\ UNCHANGED <<redisUp, client, permits>>

\* Redis goes away after the client was set: dispatch raises, and never takes
\* the fallback again.
CheckRaises(r) ==
  /\ req[r].pc \in Kind
  /\ ~redisUp
  /\ MoveTo(r, "failed")
  /\ UNCHANGED gateVars

\* The semaphore, for two seconds at most.
Acquire(r) ==
  LET p == req[r].proc IN
  /\ At(r, "permit")
  /\ permits[p] > 0
  /\ permits' = [permits EXCEPT ![p] = @ - 1]
  /\ MoveTo(r, "inside")
  /\ UNCHANGED <<redisUp, client, count>>

Busy503(r) ==
  /\ At(r, "permit")
  /\ permits[req[r].proc] = 0
  /\ MoveTo(r, "failed")
  /\ UNCHANGED gateVars

\* call_next returns as soon as the response has started: the chat's answer is
\* streamed after the permit is given back.
GiveBack(r) == permits' = [permits EXCEPT ![req[r].proc] = @ + 1]

\* Mutant: an exception of the route keeps the permit.
RouteRaisesKeeping(r) ==
  /\ At(r, "inside")
  /\ MoveTo(r, "failed")
  /\ UNCHANGED gateVars

RouteRaises(r) ==
  /\ At(r, "inside")
  /\ GiveBack(r)
  /\ MoveTo(r, "failed")
  /\ UNCHANGED <<redisUp, client, count>>

Respond(r) ==
  /\ At(r, "inside")
  /\ GiveBack(r)
  /\ MoveTo(r, "config")
  /\ UNCHANGED <<redisUp, client, count>>

-----------------------------------------------------------------------------
\* Redis goes or comes back; seen only by a request that is about to ask it.
Outage ==
  /\ \E r \in Request : req[r].pc \in {"connect", "ping"} \cup Kind
  /\ redisUp' = ~redisUp
  /\ UNCHANGED <<req, client, count, permits>>

-----------------------------------------------------------------------------
GateStep(r) ==
  \/ (\E p \in Process : Arrive(r, p)) \/ Connect(r)
  \/ PingAnswered(r) \/ FallBack(r)
  \/ (\E k \in Kind : Check(r, k)) \/ CheckRaises(r)
  \/ Acquire(r) \/ Busy503(r) \/ RouteRaises(r) \/ Respond(r)
=============================================================================
