--------------------------- MODULE RefreshTokens ---------------------------
(***************************************************************************)
(* The refresh tokens of one user in Redis (core/redis_store.py,           *)
(* core/auth.py) and the handlers that issue, rotate and revoke them       *)
(* (api/routes/auth.py).  A token is a key of its own with a time to live; *)
(* the set user_refresh_index:<user> lists the tokens for logout.  No      *)
(* transaction and no lock spans two Redis commands: each is one action.   *)
(*                                                                         *)
(* Handlers run in any of the workers.  One that raises, is cancelled or   *)
(* dies with its process is cut off between two commands.                  *)
(***************************************************************************)
CONSTANTS
  Handler,  \* requests that may be open at the same time
  Token,    \* the tokens that are ever issued
  NoToken

ASSUME NoTokenAssumption == NoToken \notin Token

VARIABLES
  store,      \* the keys refresh_token:<token>
  index,      \* the members of user_refresh_index:<user>
  timed,      \* whether that key has been given a time to live
  delivered,  \* the tokens a client has got in a cookie
  pc,         \* where each handler stands
  old,        \* the token a /refresh has been given
  known,      \* what the GET of revoke_refresh_token found
  new,        \* the token a /login, /register or /refresh has stored
  seen,       \* what a /logout has still to delete of what it listed
  \* What the properties remember:
  issued,     \* the tokens that exist by now
  parent,     \* the token that each token was issued in exchange for
  raced,      \* tokens that two overlapping refreshes have both verified
  revoked,    \* tokens that have been deleted
  spared,     \* what the listing of a /logout did not hold, and what has
              \* been stored since
  missed,     \* live tokens that a /logout has dropped from the index
  lost        \* tokens whose handler was cut off between SETEX and EXPIRE, and
              \* those that were added to an index just before it ran out

redisVars   == <<store, index, timed>>
handlerVars == <<pc, old, known, new, seen>>
ghostVars   == <<issued, parent, raced, revoked, spared, missed, lost>>
vars        == <<redisVars, delivered, handlerVars, ghostVars>>

TypeOK ==
  /\ store \subseteq Token
  /\ index \subseteq Token
  /\ timed \in BOOLEAN
  /\ delivered \subseteq Token
  /\ pc \in [Handler -> {"idle", "get", "del", "srem", "setex", "sadd",
                         "expire", "reply", "list", "revoke"}]
  /\ old \in [Handler -> Token \cup {NoToken}]
  /\ known \in [Handler -> BOOLEAN]
  /\ new \in [Handler -> Token \cup {NoToken}]
  /\ seen \in [Handler -> SUBSET Token]
  /\ issued \subseteq Token
  /\ parent \in [Token -> Token \cup {NoToken}]
  /\ raced \subseteq Token
  /\ revoked \subseteq Token
  /\ spared \in [Handler -> SUBSET Token]
  /\ missed \subseteq Token
  /\ lost \subseteq Token

Init ==
  /\ store = {}
  /\ index = {}
  /\ timed = FALSE
  /\ delivered = {}
  /\ pc = [h \in Handler |-> "idle"]
  /\ old = [h \in Handler |-> NoToken]
  /\ known = [h \in Handler |-> FALSE]
  /\ new = [h \in Handler |-> NoToken]
  /\ seen = [h \in Handler |-> {}]
  /\ issued = {}
  /\ parent = [t \in Token |-> NoToken]
  /\ raced = {}
  /\ revoked = {}
  /\ spared = [h \in Handler |-> {}]
  /\ missed = {}
  /\ lost = {}

MoveTo(h, l) == pc' = [pc EXCEPT ![h] = l]

\* The handler returns or raises, and its local variables go.
Leave(h) ==
  /\ pc' = [pc EXCEPT ![h] = "idle"]
  /\ old' = [old EXCEPT ![h] = NoToken]
  /\ known' = [known EXCEPT ![h] = FALSE]
  /\ new' = [new EXCEPT ![h] = NoToken]
  /\ seen' = [seen EXCEPT ![h] = {}]
  /\ spared' = [spared EXCEPT ![h] = {}]

\* The tokens that are stored and about to be listed.
Pending == {t \in Token : \E h \in Handler : pc[h] = "sadd" /\ new[h] = t}

-----------------------------------------------------------------------------
(* create_refresh_token, where every one of /login, /register and /refresh  *)
(* ends                                                                     *)

\* /login and /register, once they have settled who the user is.
Login(h) ==
  /\ pc[h] = "idle"
  /\ MoveTo(h, "setex")
  /\ UNCHANGED <<redisVars, delivered, old, known, new, seen, ghostVars>>

Setex(h) ==
  /\ pc[h] = "setex"
  /\ \E t \in Token \ issued :
       /\ store' = store \cup {t}
       /\ issued' = issued \cup {t}
       /\ new' = [new EXCEPT ![h] = t]
       /\ parent' = [parent EXCEPT ![t] = old[h]]
       /\ spared' = [g \in Handler |->
            IF pc[g] = "revoke" THEN spared[g] \cup {t} ELSE spared[g]]
  /\ MoveTo(h, "sadd")
  /\ UNCHANGED <<index, timed, delivered, old, known, seen, raced, revoked, missed, lost>>

Sadd(h) ==
  /\ pc[h] = "sadd"
  /\ index' = index \cup {new[h]}
  /\ MoveTo(h, "expire")
  /\ UNCHANGED <<store, timed, delivered, old, known, new, seen, ghostVars>>

\* The index lives at least as long as the token that was added last.
Expire(h) ==
  /\ pc[h] = "expire"
  /\ timed' = (index # {})
  /\ MoveTo(h, "reply")
  /\ UNCHANGED <<store, index, delivered, old, known, new, seen, ghostVars>>

Reply(h) ==
  /\ pc[h] = "reply"
  /\ delivered' = delivered \cup {new[h]}
  /\ Leave(h)
  /\ UNCHANGED <<redisVars, issued, parent, raced, revoked, missed, lost>>

-----------------------------------------------------------------------------
(* /refresh                                                                 *)

\* verify_refresh_token; a token that is not stored ends in a 401.
Verify(h, t) ==
  /\ pc[h] = "idle"
  /\ t \in delivered \cap store
  /\ MoveTo(h, "get")
  /\ old' = [old EXCEPT ![h] = t]
  /\ raced' = raced \cup
       {o \in {t} : \E g \in Handler : old[g] = o /\ pc[g] \in {"get", "del"}}
  /\ UNCHANGED <<redisVars, delivered, known, new, seen,
                 issued, parent, revoked, spared, missed, lost>>

\* revoke_refresh_token reads the token again, for the user it belongs to.
RevokeGet(h) ==
  /\ pc[h] = "get"
  /\ known' = [known EXCEPT ![h] = old[h] \in store]
  /\ MoveTo(h, "del")
  /\ UNCHANGED <<redisVars, delivered, old, new, seen, ghostVars>>

\* Mutant: only the index forgets the old token.
RevokeDelSkipped(h) ==
  /\ pc[h] = "del"
  /\ MoveTo(h, IF known[h] THEN "srem" ELSE "setex")
  /\ UNCHANGED <<redisVars, delivered, old, known, new, seen, ghostVars>>

RevokeDel(h) ==
  /\ pc[h] = "del"
  /\ store' = store \ {old[h]}
  /\ revoked' = revoked \cup {old[h]}
  /\ MoveTo(h, IF known[h] THEN "srem" ELSE "setex")
  /\ UNCHANGED <<index, timed, delivered, old, known, new, seen,
                 issued, parent, raced, spared, missed, lost>>

RevokeSrem(h) ==
  /\ pc[h] = "srem"
  /\ index' = index \ {old[h]}
  /\ timed' = (timed /\ index' # {})
  /\ MoveTo(h, "setex")
  /\ UNCHANGED <<store, delivered, old, known, new, seen, ghostVars>>

-----------------------------------------------------------------------------
(* /logout: revoke_all_user_refresh_tokens                                  *)

Logout(h) ==
  /\ pc[h] = "idle"
  /\ delivered # {}
  /\ MoveTo(h, "list")
  /\ UNCHANGED <<redisVars, delivered, old, known, new, seen, ghostVars>>

Smembers(h) ==
  /\ pc[h] = "list"
  /\ seen' = [seen EXCEPT ![h] = index]
  /\ spared' = [spared EXCEPT ![h] = store \ index]
  /\ MoveTo(h, "revoke")
  /\ UNCHANGED <<redisVars, delivered, old, known, new,
                 issued, parent, raced, revoked, missed, lost>>

\* Mutant: the listed members are not the names of the keys (no prefix).
DelSeenOtherKey(h) ==
  /\ pc[h] = "revoke"
  /\ \E t \in seen[h] : seen' = [seen EXCEPT ![h] = @ \ {t}]
  /\ UNCHANGED <<redisVars, delivered, pc, old, known, new, ghostVars>>

DelSeen(h) ==
  /\ pc[h] = "revoke"
  /\ \E t \in seen[h] :
       /\ store' = store \ {t}
       /\ revoked' = revoked \cup {t}
       /\ seen' = [seen EXCEPT ![h] = @ \ {t}]
  /\ UNCHANGED <<index, timed, delivered, pc, old, known, new,
                 issued, parent, raced, spared, missed, lost>>

\* Mutant: the index goes first, and with it the list.
DelIndexEarly(h) ==
  /\ pc[h] = "revoke"
  /\ index' = {}
  /\ timed' = FALSE
  /\ Leave(h)
  /\ UNCHANGED <<store, delivered, issued, parent, raced, revoked, missed, lost>>

\* What has been added to the index since it was listed goes unrevoked.
DelIndex(h) ==
  /\ pc[h] = "revoke"
  /\ seen[h] = {}
  /\ index' = {}
  /\ timed' = FALSE
  /\ missed' = missed \cup (index \cap store)
  /\ Leave(h)
  /\ UNCHANGED <<store, delivered, issued, parent, raced, revoked, lost>>

-----------------------------------------------------------------------------
CutOff(h) ==
  /\ pc[h] # "idle"
  /\ lost' = lost \cup {t \in {new[h]} : pc[h] \in {"sadd", "expire"}}
  /\ Leave(h)
  /\ UNCHANGED <<redisVars, delivered, issued, parent, raced, revoked, missed>>

TokenExpires(t) ==
  /\ t \in store
  /\ store' = store \ {t}
  /\ UNCHANGED <<index, timed, delivered, handlerVars, ghostVars>>

(* The index outlives its tokens, all but those whose EXPIRE has not come   *)
(* yet or never will: with them it may run out by an earlier one.           *)
IndexExpires ==
  /\ timed
  /\ index \cap store \subseteq lost \cup {new[h] : h \in {g \in Handler : pc[g] = "expire"}}
  /\ index' = {}
  /\ timed' = FALSE
  /\ lost' = lost \cup (index \cap store)
  /\ UNCHANGED <<store, delivered, handlerVars, issued, parent, raced, revoked, spared, missed>>

Next ==
  \/ \E h \in Handler :
       \/ Login(h)
       \/ Setex(h)
       \/ Sadd(h)
       \/ Expire(h)
       \/ Reply(h)
       \/ \E t \in Token : Verify(h, t)
       \/ RevokeGet(h)
       \/ RevokeDel(h)
       \/ RevokeSrem(h)
       \/ Logout(h)
       \/ Smembers(h)
       \/ DelSeen(h)
       \/ DelIndex(h)
       \/ CutOff(h)
  \/ \E t \in Token : TokenExpires(t)
  \/ IndexExpires

Spec == Init /\ [][Next]_vars

-----------------------------------------------------------------------------
(* A refresh token is good for one exchange, except that two refreshes that *)
(* have both verified it before either deleted it both succeed.             *)
SingleUseUnlessRaced ==
  \A t, u \in Token :
    parent[t] = parent[u] /\ parent[t] \in Token \ raced => t = u

(* A logout that runs to its end leaves no valid token but those that were  *)
(* not in the index when it listed it and those that were stored after.     *)
LogoutSweeps ==
  \A h \in Handler : pc[h] = "revoke" => store \subseteq spared[h] \cup seen[h]

(* Every valid token is in the index, or about to be, except where a        *)
(* handler was cut off, the index ran out between a SADD and its EXPIRE, or *)
(* a logout has overtaken it: those are out of the reach of all later       *)
(* logouts.                                                                 *)
UntrackedIsExplained ==
  store \ index \subseteq Pending \cup lost \cup missed

(* redis_store.py:68: "Track a user's active refresh tokens so we can       *)
(* revoke them all on logout".  Violated: a token that is stored before a   *)
(* logout has listed the index and added before it deletes it is dropped.   *)
ActiveTokensTracked ==
  (\A h \in Handler : pc[h] = "idle") => store \subseteq index \cup lost
=============================================================================
