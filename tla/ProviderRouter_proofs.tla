------------------------ MODULE ProviderRouter_proofs ------------------------
(***************************************************************************)
(* Proofs about ProviderRouter, for any number of providers and of         *)
(* concurrent requests.  The invariants the runs check are not inductive:  *)
(* RouterInv adds what the loop of generate_stream keeps true of its local *)
(* variables, and what ties the breakers to the active provider.           *)
(***************************************************************************)
EXTENDS ProviderRouter, TLAPS

\* What a request that is under way knows of its candidates.
LoopOK(r) ==
  pc[r] \in Busy =>
    /\ cur[r] \in Provider
    /\ cur[r] \notin tried[r] \cup rest[r]
    /\ tried[r] \cap rest[r] = {}
    /\ lead[r] \notin rest[r]
    /\ cur[r] = lead[r] => tried[r] = {}
    /\ \A p \in tried[r] \ {lead[r]} : Priority[p] < Priority[cur[r]]
    /\ cur[r] # lead[r] => \A p \in rest[r] : Priority[cur[r]] < Priority[p]
    /\ ({cur[r]} \cup rest[r] \cup tried[r]) \cap skipped[r] = {}
    /\ {cur[r]} \cup rest[r] \cup tried[r] \cup skipped[r] = Provider

ExhaustedOK(r) == pc[r] = "exhausted" => tried[r] \cup skipped[r] = Provider

\* A failure needs a provider that was made active, and only /switch undoes that.
ActiveOK ==
  \/ overridden
  \/ active \in Provider
  \/ /\ Degraded = {}
     /\ \A r \in Request : pc[r] \notin {"streaming", "backoff"}

RouterInv ==
  /\ TypeOK
  /\ \A r \in Request : LoopOK(r) /\ ExhaustedOK(r)
  /\ ActiveOK

-----------------------------------------------------------------------------
(* The initial state satisfies the inductive invariant.                     *)
LEMMA InitRouterInv == Init => RouterInv
<1> SUFFICES ASSUME Init PROVE RouterInv
  OBVIOUS
<1>1. TypeOK
  <2>1. 0 \in 0..MaxFailures /\ 0 \in 0..DegradedTimeout
    BY BreakerAssumption
  <2>2. overridden \in BOOLEAN
    BY DEF Init
  <2>. QED
    BY <2>1, <2>2, Zenon DEF Init, TypeOK, Resting
<1>2. \A r \in Request : pc[r] = "idle"
  BY DEF Init
<1>3. \A r \in Request : LoopOK(r) /\ ExhaustedOK(r)
  BY <1>2 DEF LoopOK, ExhaustedOK, Busy
<1>4. ActiveOK
  BY <1>2 DEF Init, ActiveOK, Degraded
<1>. QED
  BY <1>1, <1>3, <1>4 DEF RouterInv

(* Each candidate a request moves on to keeps the order and the coverage of *)
(* its loop.                                                                *)
LEMMA NextCandidateLoop ==
  ASSUME RouterInv, NEW r \in Request, pc[r] \in Busy, NextCandidate(r)
  PROVE  /\ pc' \in [Request -> Resting \cup Busy]
         /\ cur' \in [Request -> Provider \cup {NoProvider}]
         /\ rest' \in [Request -> SUBSET Provider]
         /\ tried' \in [Request -> SUBSET Provider]
         /\ \A q \in Request : LoopOK(q)' /\ ExhaustedOK(q)'
         /\ pc'[r] \notin {"streaming", "backoff"}
         /\ \A q \in Request \ {r} : pc'[q] = pc[q]
<1> USE DEF RouterInv, TypeOK
<1>1. LoopOK(r) /\ cur[r] \in Provider
  BY DEF LoopOK
<1>2. CASE /\ rest[r] = {}
           /\ pc' = [pc EXCEPT ![r] = "exhausted"]
           /\ cur' = [cur EXCEPT ![r] = NoProvider]
           /\ UNCHANGED rest
  BY <1>1, <1>2 DEF NextCandidate, LoopOK, ExhaustedOK, Resting, Busy
<1>3. ASSUME NEW p \in Best(rest[r]),
             cur' = [cur EXCEPT ![r] = p],
             rest' = [rest EXCEPT ![r] = @ \ {p}],
             pc' = [pc EXCEPT ![r] = "probing"]
      PROVE  /\ pc' \in [Request -> Resting \cup Busy]
             /\ cur' \in [Request -> Provider \cup {NoProvider}]
             /\ rest' \in [Request -> SUBSET Provider]
             /\ tried' \in [Request -> SUBSET Provider]
             /\ \A q \in Request : LoopOK(q)' /\ ExhaustedOK(q)'
             /\ pc'[r] \notin {"streaming", "backoff"}
             /\ \A q \in Request \ {r} : pc'[q] = pc[q]
  <2>1. p \in rest[r] /\ p \in Provider /\ p # lead[r]
        /\ \A q \in rest[r] : Priority[p] <= Priority[q]
    BY <1>1, <1>3 DEF Best, LoopOK
  <2>2. /\ tried' = [tried EXCEPT ![r] = @ \cup {cur[r]}]
        /\ UNCHANGED <<skipped, lead, overridden>>
    BY DEF NextCandidate
  <2>3. /\ pc' \in [Request -> Resting \cup Busy]
        /\ cur' \in [Request -> Provider \cup {NoProvider}]
        /\ rest' \in [Request -> SUBSET Provider]
        /\ tried' \in [Request -> SUBSET Provider]
    BY <1>1, <1>3, <2>1, <2>2 DEF Resting, Busy
  <2>4. \A q \in rest[r] \ {p} : Priority[p] < Priority[q]
    BY <2>1, PriorityAssumption
  <2>5. \A q \in (tried[r] \cup {cur[r]}) \ {lead[r]} : Priority[q] < Priority[p]
    <3>1. CASE cur[r] = lead[r]
      BY <1>1, <3>1 DEF LoopOK
    <3>2. CASE cur[r] # lead[r]
      <4>1. Priority[cur[r]] < Priority[p]
        BY <1>1, <2>1, <3>2 DEF LoopOK
      <4>2. \A q \in tried[r] \ {lead[r]} : Priority[q] < Priority[cur[r]]
        BY <1>1 DEF LoopOK
      <4>3. \A q \in tried[r] \cup {cur[r], p} : Priority[q] \in Nat
        BY <1>1, <2>1, PriorityAssumption
      <4>. QED
        BY <4>1, <4>2, <4>3
    <3>. QED
      BY <3>1, <3>2
  <2>6. LoopOK(r)'
    BY <1>1, <1>3, <2>1, <2>2, <2>4, <2>5 DEF LoopOK, Busy
  <2>7. \A q \in Request \ {r} : LoopOK(q)' /\ ExhaustedOK(q)'
    BY <1>3, <2>2 DEF LoopOK, ExhaustedOK
  <2>8. ExhaustedOK(r)'
    BY <1>3 DEF ExhaustedOK
  <2>. QED
    BY <1>3, <2>3, <2>6, <2>7, <2>8
<1>. QED
  BY <1>2, <1>3 DEF NextCandidate

(* Return forgets everything about one request and touches no other.        *)
LEMMA ReturnLoop ==
  ASSUME RouterInv, NEW r \in Request, Return(r)
  PROVE  /\ pc' \in [Request -> Resting \cup Busy]
         /\ cur' \in [Request -> Provider \cup {NoProvider}]
         /\ rest' \in [Request -> SUBSET Provider]
         /\ tried' \in [Request -> SUBSET Provider]
         /\ skipped' \in [Request -> SUBSET Provider]
         /\ lead' \in [Request -> Provider \cup {NoProvider, UnknownProvider}]
         /\ \A q \in Request : LoopOK(q)' /\ ExhaustedOK(q)'
         /\ pc'[r] = "idle"
         /\ \A q \in Request \ {r} : pc'[q] = pc[q]
  BY DEF Return, RouterInv, TypeOK, LoopOK, ExhaustedOK, Resting, Busy

(* The snapshot of the candidates starts a loop in order.                   *)
LEMMA StartKeeps ==
  ASSUME RouterInv, NEW r \in Request, Start(r)
  PROVE  RouterInv'
<1> USE DEF RouterInv, TypeOK
<1>1. /\ tried' = [tried EXCEPT ![r] = {}]
      /\ skipped' = [skipped EXCEPT ![r] = Degraded \ Lead]
      /\ lead' = [lead EXCEPT ![r] = active]
      /\ UNCHANGED <<active, failures, cooldown, overridden>>
  BY DEF Start, routerVars
<1>2. Candidates \cup (Degraded \ Lead) = Provider
      /\ Candidates \cap (Degraded \ Lead) = {}
      /\ Candidates \subseteq Provider
  BY DEF Candidates, Degraded, Lead, Fallbacks
<1>3. CASE /\ Candidates = {}
           /\ pc' = [pc EXCEPT ![r] = "exhausted"]
           /\ cur' = [cur EXCEPT ![r] = NoProvider]
           /\ rest' = [rest EXCEPT ![r] = {}]
  <2>1. TypeOK'
    BY <1>1, <1>2, <1>3 DEF Resting
  <2>2. \A q \in Request : LoopOK(q)' /\ ExhaustedOK(q)'
    BY <1>1, <1>2, <1>3 DEF LoopOK, ExhaustedOK, Busy
  <2>3. ActiveOK'
    BY <1>1, <1>3 DEF ActiveOK, Degraded
  <2>. QED
    BY <2>1, <2>2, <2>3
<1>4. ASSUME NEW p \in FirstCandidates,
             cur' = [cur EXCEPT ![r] = p],
             rest' = [rest EXCEPT ![r] = Candidates \ {p}],
             pc' = [pc EXCEPT ![r] = "probing"]
      PROVE  RouterInv'
  <2>1. p \in Candidates /\ (p # active => p \in Best(Candidates) /\ active \notin Provider)
    BY <1>4, NameAssumption DEF FirstCandidates, Candidates, Lead, Fallbacks, Best
  <2>2. p # active => \A q \in Candidates \ {p} : Priority[p] < Priority[q]
    BY <1>2, <2>1, PriorityAssumption DEF Best
  <2>3. TypeOK'
    BY <1>1, <1>2, <1>4, <2>1 DEF Busy
  <2>4. LoopOK(r)'
    BY <1>1, <1>2, <1>4, <2>1, <2>2 DEF LoopOK
  <2>5. ExhaustedOK(r)'
    BY <1>4 DEF ExhaustedOK
  <2>6. \A q \in Request \ {r} : LoopOK(q)' /\ ExhaustedOK(q)'
    BY <1>1, <1>4 DEF LoopOK, ExhaustedOK
  <2>7. ActiveOK'
    BY <1>1, <1>4 DEF ActiveOK, Degraded
  <2>. QED
    BY <2>3, <2>4, <2>5, <2>6, <2>7
<1>. QED
  BY <1>3, <1>4 DEF Start

(* A failure concerns a provider that was made active.                      *)
LEMMA FailureKeeps ==
  ASSUME RouterInv, NEW r \in Request, pc[r] = "streaming",
         NEW n \in 0..MaxFailures, HandleFailure(r, n)
  PROVE  RouterInv'
<1> USE DEF RouterInv, TypeOK
<1>1. cur[r] \in Provider
  BY DEF LoopOK, Busy
<1>2. DegradedTimeout \in 0..DegradedTimeout
  BY BreakerAssumption
<1>3. TypeOK'
  BY <1>1, <1>2 DEF HandleFailure, ghostVars, Busy
<1>4. \A q \in Request : LoopOK(q)' /\ ExhaustedOK(q)'
  BY DEF HandleFailure, ghostVars, LoopOK, ExhaustedOK, Busy
<1>5. overridden \/ active \in Provider
  BY DEF ActiveOK
<1>6. ActiveOK'
  BY <1>5 DEF HandleFailure, ghostVars, ActiveOK
<1>. QED
  BY <1>3, <1>4, <1>6

(* Every step keeps the inductive invariant.                                *)
LEMMA NextRouterInv == RouterInv /\ [Next]_vars => RouterInv'
<1> SUFFICES ASSUME RouterInv, [Next]_vars PROVE RouterInv'
  OBVIOUS
<1> USE DEF RouterInv
<1>1. ASSUME NEW r \in Request, Start(r) PROVE RouterInv'
  BY <1>1, StartKeeps
<1>2. ASSUME NEW r \in Request, Available(r) PROVE RouterInv'
  <2>1. cur[r] \in Provider /\ pc[r] \in Busy
    BY <1>2 DEF Available, LoopOK, Busy
  <2>2. TypeOK'
    BY <1>2, <2>1 DEF Available, TypeOK, ghostVars, Busy
  <2>3. \A q \in Request : LoopOK(q)' /\ ExhaustedOK(q)'
    BY <1>2, <2>1 DEF Available, TypeOK, ghostVars, LoopOK, ExhaustedOK
  <2>4. ActiveOK'
    BY <1>2, <2>1 DEF Available, ActiveOK
  <2>. QED
    BY <2>2, <2>3, <2>4
<1>3. ASSUME NEW r \in Request, pc[r] \in Busy, NextCandidate(r), UNCHANGED routerVars
      PROVE  RouterInv'
  <2>1. UNCHANGED <<active, failures, cooldown, skipped, lead, overridden>>
    BY <1>3 DEF NextCandidate, routerVars
  <2>2. TypeOK'
    BY <1>3, <2>1, NextCandidateLoop DEF TypeOK
  <2>3. ActiveOK'
    BY <1>3, <2>1, NextCandidateLoop DEF ActiveOK, Degraded
  <2>. QED
    BY <1>3, <2>2, <2>3, NextCandidateLoop
<1>4. ASSUME NEW r \in Request, Unavailable(r) PROVE RouterInv'
  BY <1>3, <1>4 DEF Unavailable, Busy
<1>5. ASSUME NEW r \in Request, Resume(r) PROVE RouterInv'
  BY <1>3, <1>5 DEF Resume, Busy
<1>6. ASSUME NEW r \in Request, Finish(r) PROVE RouterInv'
  <2>1. cur[r] \in Provider /\ 0 \in 0..MaxFailures
    BY <1>6, BreakerAssumption DEF Finish, LoopOK, Busy
  <2>2. TypeOK'
    BY <1>6, <2>1, ReturnLoop DEF Finish, Return, TypeOK
  <2>3. ActiveOK'
    BY <1>6, ReturnLoop DEF Finish, Return, ActiveOK, Degraded
  <2>. QED
    BY <1>6, <2>2, <2>3, ReturnLoop DEF Finish
<1>7. ASSUME NEW r \in Request, Cancel(r) PROVE RouterInv'
  <2>1. TypeOK'
    BY <1>7, ReturnLoop DEF Cancel, routerVars, Return, TypeOK
  <2>2. ActiveOK'
    BY <1>7, ReturnLoop DEF Cancel, routerVars, Return, ActiveOK, Degraded
  <2>. QED
    BY <1>7, <2>1, <2>2, ReturnLoop DEF Cancel
<1>8. ASSUME NEW r \in Request, Fail(r) PROVE RouterInv'
  <2>1. failures[cur[r]] \in 0..MaxFailures
    BY <1>8 DEF Fail, LoopOK, Busy, TypeOK
  <2>2. (IF failures[cur[r]] < MaxFailures THEN failures[cur[r]] + 1 ELSE MaxFailures)
          \in 0..MaxFailures
    BY <2>1, BreakerAssumption
  <2>. QED
    BY <1>8, <2>2, FailureKeeps DEF Fail
<1>9. ASSUME NEW r \in Request, TimeOut(r) PROVE RouterInv'
  <2>1. failures[cur[r]] \in 0..MaxFailures
    BY <1>9 DEF TimeOut, LoopOK, Busy, TypeOK
  <2>. QED
    BY <1>9, <2>1, FailureKeeps DEF TimeOut
<1>10. ASSUME NEW n \in Provider \cup {NoProvider, UnknownProvider}, SetActive(n)
       PROVE  RouterInv'
  <2>1. overridden' \in BOOLEAN
    BY <1>10 DEF SetActive
  <2>2. TypeOK'
    BY <1>10, <2>1 DEF SetActive, requestVars, TypeOK
  <2>3. \A q \in Request : LoopOK(q)' /\ ExhaustedOK(q)'
    BY <1>10 DEF SetActive, requestVars, LoopOK, ExhaustedOK
  <2>4. overridden' \/ active' \in Provider
    BY <1>10 DEF SetActive
  <2>. QED
    BY <2>2, <2>3, <2>4 DEF ActiveOK
<1>11. CASE Tick
  <2>1. \A k \in 0..DegradedTimeout :
          k # 0 => k - 1 \in 0..DegradedTimeout /\ k > 0
    BY BreakerAssumption
  <2>2. 0 \in 0..DegradedTimeout
    BY BreakerAssumption
  <2>3. cooldown' \in [Provider -> 0..DegradedTimeout]
    BY <1>11, <2>1, <2>2 DEF Tick, TypeOK
  <2>4. TypeOK'
    BY <1>11, <2>3 DEF Tick, requestVars, ghostVars, TypeOK
  <2>5. \A q \in Request : LoopOK(q)' /\ ExhaustedOK(q)'
    BY <1>11 DEF Tick, requestVars, ghostVars, LoopOK, ExhaustedOK
  <2>6. ActiveOK'
    BY <1>11 DEF Tick, requestVars, ghostVars, ActiveOK
  <2>. QED
    BY <2>4, <2>5, <2>6
<1>12. CASE UNCHANGED vars
  BY <1>12 DEF vars, routerVars, requestVars, ghostVars, TypeOK, LoopOK, ExhaustedOK,
               ActiveOK, Degraded
<1>. QED
  BY <1>1, <1>2, <1>4, <1>5, <1>6, <1>7, <1>8, <1>9, <1>10, <1>11, <1>12 DEF Next

-----------------------------------------------------------------------------
(* The inductive invariant holds in every reachable state.                  *)
THEOREM RouterInvariant == Spec => []RouterInv
<1>1. Init => RouterInv
  BY InitRouterInv
<1>2. RouterInv /\ [Next]_vars => RouterInv'
  BY NextRouterInv
<1>. QED
  BY <1>1, <1>2, PTL DEF Spec

(* Type correctness of the router, for any providers and requests.          *)
THEOREM RouterTypeCorrect == Spec => []TypeOK
<1>1. RouterInv => TypeOK
  BY DEF RouterInv
<1>. QED
  BY <1>1, RouterInvariant, PTL

(* No request tries a provider twice, and each goes down the priorities.    *)
THEOREM AttemptsInOrder == Spec => []AttemptOrder
<1>1. RouterInv => AttemptOrder
  BY DEF RouterInv, LoopOK, AttemptOrder
<1>. QED
  BY <1>1, RouterInvariant, PTL

(* Only the active provider gets round an open breaker.                     *)
THEOREM BreakerBypass == Spec => []OnlyActiveBypassesBreaker
<1>1. RouterInv => OnlyActiveBypassesBreaker
  BY DEF RouterInv, LoopOK, OnlyActiveBypassesBreaker
<1>. QED
  BY <1>1, RouterInvariant, PTL

(* "Todos los proveedores fallaron" is never raised early.                  *)
THEOREM ExhaustedTriedAll == Spec => []ExhaustedMeansAllTried
<1>1. RouterInv => ExhaustedMeansAllTried
  BY DEF RouterInv, ExhaustedOK, ExhaustedMeansAllTried
<1>. QED
  BY <1>1, RouterInvariant, PTL

(* The router runs out of candidates only after an override by /switch.     *)
THEOREM CandidateRemains == Spec => []AlwaysACandidate
<1>1. RouterInv => AlwaysACandidate
  <2> SUFFICES ASSUME RouterInv, Candidates = {}, ~overridden PROVE FALSE
    BY DEF AlwaysACandidate
  <2>1. active \notin Provider
    BY DEF Candidates, Lead
  <2>2. Degraded = {}
    BY <2>1 DEF RouterInv, ActiveOK
  <2>3. \A p \in Provider : cooldown[p] = 0
    BY <2>2, BreakerAssumption DEF RouterInv, TypeOK, Degraded
  <2>. QED
    BY <2>1, <2>3, PriorityAssumption DEF Candidates, Fallbacks
<1>. QED
  BY <1>1, RouterInvariant, PTL
=============================================================================
