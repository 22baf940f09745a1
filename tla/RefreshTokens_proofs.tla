------------------------ MODULE RefreshTokens_proofs ------------------------
(***************************************************************************)
(* What rotation and logout guarantee, for any number of requests and      *)
(* tokens.                                                                 *)
(***************************************************************************)
EXTENDS RefreshTokens, TLAPS

\* A token is stored once in its life: it is fresh, valid, then revoked or gone.
LifeInv ==
  /\ store \subseteq issued
  /\ index \subseteq issued
  /\ delivered \subseteq issued
  /\ revoked \subseteq issued
  /\ revoked \cap store = {}

\* What a handler holds at each of its stages.
HandlerInv(h) ==
  /\ old[h] \in issued \cup {NoToken}
  /\ pc[h] \in {"get", "del", "srem"} => old[h] # NoToken
  /\ pc[h] \in {"idle", "list", "revoke"} => old[h] = NoToken
  /\ pc[h] \in {"srem", "setex", "sadd", "expire", "reply"} /\ old[h] # NoToken
       => old[h] \in revoked
  /\ pc[h] \in {"sadd", "expire", "reply"} => new[h] \in issued
  /\ seen[h] \subseteq issued
  /\ pc[h] = "revoke" => store \subseteq spared[h] \cup seen[h]

\* Two handlers with one token have raced for it.
RaceInv ==
  \A g, h \in Handler : old[g] = old[h] /\ old[g] # NoToken => g = h \/ old[g] \in raced

\* A token that was exchanged is revoked, and no handler is about to exchange
\* it once more, unless it was raced for.
ExchangeInv ==
  \A t \in Token : parent[t] # NoToken =>
    /\ t \in issued
    /\ parent[t] \in revoked
    /\ \A h \in Handler :
         old[h] = parent[t] /\ pc[h] \in {"get", "del", "srem", "setex"}
           => parent[t] \in raced

TokenInv ==
  /\ TypeOK
  /\ LifeInv
  /\ \A h \in Handler : HandlerInv(h)
  /\ RaceInv
  /\ ExchangeInv
  /\ SingleUseUnlessRaced
  /\ UntrackedIsExplained

LEMMA InitTokenInv == Init => TokenInv
BY NoTokenAssumption DEF Init, TokenInv, TypeOK, LifeInv, HandlerInv, RaceInv,
   ExchangeInv, SingleUseUnlessRaced, UntrackedIsExplained

(* One command of a handler keeps the invariant.                            *)
LEMMA HandlerKeeps ==
  ASSUME TokenInv, NEW h \in Handler,
         \/ Login(h)
         \/ Setex(h)
         \/ Sadd(h)
         \/ Expire(h)
         \/ Reply(h)
         \/ \E t \in Token : Verify(h, t)
         \/ RevokeGet(h)
         \/ RevokeDel(h)
         \/ RevokeSrem(h)
         \/ Logout(h)
         \/ Smembers(h)
         \/ DelSeen(h)
         \/ DelIndex(h)
         \/ CutOff(h)
  PROVE  TokenInv'
<1> USE NoTokenAssumption
<1>1. CASE Login(h)
  BY <1>1 DEF Login, Leave, TokenInv, TypeOK, LifeInv, HandlerInv, RaceInv,
     ExchangeInv, SingleUseUnlessRaced, UntrackedIsExplained, Pending, MoveTo,
     redisVars, handlerVars, ghostVars
<1>2. CASE Setex(h)
  BY <1>2 DEF Setex, Leave, TokenInv, TypeOK, LifeInv, HandlerInv, RaceInv,
     ExchangeInv, SingleUseUnlessRaced, UntrackedIsExplained, Pending, MoveTo,
     redisVars, handlerVars, ghostVars
<1>3. CASE Sadd(h)
  BY <1>3 DEF Sadd, Leave, TokenInv, TypeOK, LifeInv, HandlerInv, RaceInv,
     ExchangeInv, SingleUseUnlessRaced, UntrackedIsExplained, Pending, MoveTo,
     redisVars, handlerVars, ghostVars
<1>4. CASE Expire(h)
  BY <1>4 DEF Expire, Leave, TokenInv, TypeOK, LifeInv, HandlerInv, RaceInv,
     ExchangeInv, SingleUseUnlessRaced, UntrackedIsExplained, Pending, MoveTo,
     redisVars, handlerVars, ghostVars
<1>5. CASE Reply(h)
  BY <1>5 DEF Reply, Leave, TokenInv, TypeOK, LifeInv, HandlerInv, RaceInv,
     ExchangeInv, SingleUseUnlessRaced, UntrackedIsExplained, Pending, MoveTo,
     redisVars, handlerVars, ghostVars
<1>6. CASE \E t \in Token : Verify(h, t)
  BY <1>6 DEF Verify, Leave, TokenInv, TypeOK, LifeInv, HandlerInv, RaceInv,
     ExchangeInv, SingleUseUnlessRaced, UntrackedIsExplained, Pending, MoveTo,
     redisVars, handlerVars, ghostVars
<1>7. CASE RevokeGet(h)
  BY <1>7 DEF RevokeGet, Leave, TokenInv, TypeOK, LifeInv, HandlerInv, RaceInv,
     ExchangeInv, SingleUseUnlessRaced, UntrackedIsExplained, Pending, MoveTo,
     redisVars, handlerVars, ghostVars
<1>8. CASE RevokeDel(h)
  BY <1>8 DEF RevokeDel, Leave, TokenInv, TypeOK, LifeInv, HandlerInv, RaceInv,
     ExchangeInv, SingleUseUnlessRaced, UntrackedIsExplained, Pending, MoveTo,
     redisVars, handlerVars, ghostVars
<1>9. CASE RevokeSrem(h)
  BY <1>9 DEF RevokeSrem, Leave, TokenInv, TypeOK, LifeInv, HandlerInv, RaceInv,
     ExchangeInv, SingleUseUnlessRaced, UntrackedIsExplained, Pending, MoveTo,
     redisVars, handlerVars, ghostVars
<1>10. CASE Logout(h)
  BY <1>10 DEF Logout, Leave, TokenInv, TypeOK, LifeInv, HandlerInv, RaceInv,
     ExchangeInv, SingleUseUnlessRaced, UntrackedIsExplained, Pending, MoveTo,
     redisVars, handlerVars, ghostVars
<1>11. CASE Smembers(h)
  BY <1>11 DEF Smembers, Leave, TokenInv, TypeOK, LifeInv, HandlerInv, RaceInv,
     ExchangeInv, SingleUseUnlessRaced, UntrackedIsExplained, Pending, MoveTo,
     redisVars, handlerVars, ghostVars
<1>12. CASE DelSeen(h)
  BY <1>12 DEF DelSeen, Leave, TokenInv, TypeOK, LifeInv, HandlerInv, RaceInv,
     ExchangeInv, SingleUseUnlessRaced, UntrackedIsExplained, Pending, MoveTo,
     redisVars, handlerVars, ghostVars
<1>13. CASE DelIndex(h)
  BY <1>13 DEF DelIndex, Leave, TokenInv, TypeOK, LifeInv, HandlerInv, RaceInv,
     ExchangeInv, SingleUseUnlessRaced, UntrackedIsExplained, Pending, MoveTo,
     redisVars, handlerVars, ghostVars
<1>14. CASE CutOff(h)
  BY <1>14 DEF CutOff, Leave, TokenInv, TypeOK, LifeInv, HandlerInv, RaceInv,
     ExchangeInv, SingleUseUnlessRaced, UntrackedIsExplained, Pending, MoveTo,
     redisVars, handlerVars, ghostVars
<1> QED BY <1>1, <1>2, <1>3, <1>4, <1>5, <1>6, <1>7, <1>8, <1>9, <1>10, <1>11, <1>12, <1>13, <1>14

LEMMA NextTokenInv == TokenInv /\ [Next]_vars => TokenInv'
<1> SUFFICES ASSUME TokenInv, [Next]_vars PROVE TokenInv'
  OBVIOUS
<1>1. CASE UNCHANGED vars
  BY <1>1 DEF vars, TokenInv, TypeOK, LifeInv,
     HandlerInv, RaceInv, ExchangeInv, SingleUseUnlessRaced,
     UntrackedIsExplained, Pending, redisVars, handlerVars, ghostVars
<1>2. ASSUME NEW t \in Token, TokenExpires(t) PROVE TokenInv'
  BY <1>2 DEF TokenExpires, TokenInv, TypeOK, LifeInv,
     HandlerInv, RaceInv, ExchangeInv, SingleUseUnlessRaced,
     UntrackedIsExplained, Pending, redisVars, handlerVars, ghostVars
<1>3. CASE IndexExpires
  BY <1>3 DEF IndexExpires, TokenInv, TypeOK, LifeInv,
     HandlerInv, RaceInv, ExchangeInv, SingleUseUnlessRaced,
     UntrackedIsExplained, Pending, redisVars, handlerVars, ghostVars
<1> QED BY <1>1, <1>2, <1>3, HandlerKeeps DEF Next

(* The inductive invariant that the theorems below follow from.             *)
THEOREM TokenInvariant == Spec => []TokenInv
BY InitTokenInv, NextTokenInv, PTL DEF Spec

(* Every variable keeps its type.                                           *)
THEOREM TokenTypeCorrect == Spec => []TypeOK
<1>1. TokenInv => TypeOK
  BY DEF TokenInv
<1> QED BY TokenInvariant, <1>1, PTL

(* Only refreshes that overlap can exchange one token twice.                *)
THEOREM SingleUse == Spec => []SingleUseUnlessRaced
<1>1. TokenInv => SingleUseUnlessRaced
  BY DEF TokenInv
<1> QED BY TokenInvariant, <1>1, PTL

(* A logout spares only what it has not listed.                             *)
THEOREM LogoutRevokes == Spec => []LogoutSweeps
<1>1. TokenInv => LogoutSweeps
  BY DEF TokenInv, LogoutSweeps, HandlerInv
<1> QED BY TokenInvariant, <1>1, PTL

(* A token out of the index was cut off, or added to an index that ran out, *)
(* or overtaken by a logout.                                                *)
THEOREM UntrackedTokens == Spec => []UntrackedIsExplained
<1>1. TokenInv => UntrackedIsExplained
  BY DEF TokenInv
<1> QED BY TokenInvariant, <1>1, PTL
=============================================================================
