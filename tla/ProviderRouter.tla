--------------------------- MODULE ProviderRouter ---------------------------
(***************************************************************************)
(* The LLM provider router of one backend process                          *)
(* (src/backend/app/llm/router.py): a circuit breaker per provider, a      *)
(* sticky "active" provider, and a fallback loop that each streaming       *)
(* request runs over its own snapshot of the candidates.                   *)
(*                                                                         *)
(* Requests interleave at every await and every yield of generate_stream;  *)
(* the code between two of them runs alone on the event loop, so it is one *)
(* action here.  The tokens a provider yields change no router state and   *)
(* have no action.  Wall-clock instants are kept as the time that is left: *)
(* cooldown[p] = degraded_until - now, never below zero.                   *)
(***************************************************************************)
EXTENDS Integers

CONSTANTS
  Provider,         \* the configured providers
  Priority,         \* Priority[p]: the lower, the sooner p is tried
  Request,          \* streams that may be open at the same time
  NoProvider,       \* _active_provider is None
  UnknownProvider,  \* a name given to /switch that no provider has
  MaxFailures,      \* MAX_CONSECUTIVE_FAILURES
  DegradedTimeout   \* DEGRADED_TIMEOUT, in ticks

ASSUME PriorityAssumption ==
  /\ Provider # {}
  /\ Priority \in [Provider -> Nat]
  /\ \A p, q \in Provider : Priority[p] = Priority[q] => p = q

ASSUME BreakerAssumption ==
  /\ MaxFailures \in Nat \ {0}
  /\ DegradedTimeout \in Nat \ {0}

ASSUME NameAssumption ==
  /\ NoProvider \notin Provider
  /\ UnknownProvider \notin Provider

VARIABLES
  active,      \* _active_provider
  failures,    \* consecutive_failures, saturated at MaxFailures
  cooldown,    \* ticks until degraded_until, 0 when it is past
  pc,          \* where each request's generate_stream stands
  cur,         \* the candidate it is at
  rest,        \* the candidates after that one
  \* What the properties remember of each request, and of the operator:
  tried,       \* the candidates it has left behind
  skipped,     \* the providers the breaker kept out when it took its snapshot
  lead,        \* _active_provider at that moment
  overridden   \* POST /switch has named no provider, or an unknown one

routerVars  == <<active, failures, cooldown>>
requestVars == <<pc, cur, rest>>
ghostVars   == <<tried, skipped, lead, overridden>>
vars        == <<routerVars, requestVars, ghostVars>>

Resting == {"idle", "exhausted"}
Busy    == {"probing", "streaming", "backoff"}

TypeOK ==
  /\ active \in Provider \cup {NoProvider, UnknownProvider}
  /\ failures \in [Provider -> 0..MaxFailures]
  /\ cooldown \in [Provider -> 0..DegradedTimeout]
  /\ pc \in [Request -> Resting \cup Busy]
  /\ cur \in [Request -> Provider \cup {NoProvider}]
  /\ rest \in [Request -> SUBSET Provider]
  /\ tried \in [Request -> SUBSET Provider]
  /\ skipped \in [Request -> SUBSET Provider]
  /\ lead \in [Request -> Provider \cup {NoProvider, UnknownProvider}]
  /\ overridden \in BOOLEAN

Init ==
  /\ active = NoProvider
  /\ failures = [p \in Provider |-> 0]
  /\ cooldown = [p \in Provider |-> 0]
  /\ pc = [r \in Request |-> "idle"]
  /\ cur = [r \in Request |-> NoProvider]
  /\ rest = [r \in Request |-> {}]
  /\ tried = [r \in Request |-> {}]
  /\ skipped = [r \in Request |-> {}]
  /\ lead = [r \in Request |-> NoProvider]
  /\ overridden = FALSE

-----------------------------------------------------------------------------
(* The candidates, in the order the loop takes them: the active provider    *)
(* whatever its breaker says, then the others that are not degraded, by     *)
(* priority.                                                                *)

Degraded == {p \in Provider : cooldown[p] > 0}

\* Mutant: the candidates sorted in the other direction.
LowestPriority(S) == {p \in S : \A q \in S : Priority[p] >= Priority[q]}

\* The provider of S with the highest priority, as a set of one element.
Best(S) == {p \in S : \A q \in S : Priority[p] <= Priority[q]}

\* Mutant: a breaker that also keeps the active provider out.
LeadUnlessDegraded == {active} \cap (Provider \ Degraded)

Lead == {active} \cap Provider

\* Mutant: the breaker is not asked.
FallbacksIgnoringBreaker == Provider \ {active}

Fallbacks == {p \in Provider : cooldown[p] = 0} \ {active}

Candidates == Lead \cup Fallbacks

FirstCandidates == IF Lead # {} THEN Lead ELSE Best(Fallbacks)

\* Mutant: the same candidates again after a failure.
SameCandidates(r) ==
  /\ tried' = [tried EXCEPT ![r] = @ \cup {cur[r]}]
  /\ pc' = [pc EXCEPT ![r] = "probing"]
  /\ UNCHANGED <<cur, rest, skipped, lead, overridden>>

\* The loop reaches the next candidate, or raises when there is none.
NextCandidate(r) ==
  /\ tried' = [tried EXCEPT ![r] = @ \cup {cur[r]}]
  /\ \/ /\ rest[r] = {}
        /\ pc' = [pc EXCEPT ![r] = "exhausted"]
        /\ cur' = [cur EXCEPT ![r] = NoProvider]
        /\ UNCHANGED rest
     \/ \E p \in Best(rest[r]) :
          /\ cur' = [cur EXCEPT ![r] = p]
          /\ rest' = [rest EXCEPT ![r] = @ \ {p}]
          /\ pc' = [pc EXCEPT ![r] = "probing"]
  /\ UNCHANGED <<skipped, lead, overridden>>

\* The generator is over without an error, and its local variables with it.
Return(r) ==
  /\ pc' = [pc EXCEPT ![r] = "idle"]
  /\ cur' = [cur EXCEPT ![r] = NoProvider]
  /\ rest' = [rest EXCEPT ![r] = {}]
  /\ tried' = [tried EXCEPT ![r] = {}]
  /\ skipped' = [skipped EXCEPT ![r] = {}]
  /\ lead' = [lead EXCEPT ![r] = NoProvider]
  /\ UNCHANGED overridden

-----------------------------------------------------------------------------
(* generate_stream takes its snapshot, and raises at once on an empty one.  *)
Start(r) ==
  /\ pc[r] \in Resting
  /\ tried' = [tried EXCEPT ![r] = {}]
  /\ skipped' = [skipped EXCEPT ![r] = Degraded \ Lead]
  /\ lead' = [lead EXCEPT ![r] = active]
  /\ \/ /\ Candidates = {}
        /\ pc' = [pc EXCEPT ![r] = "exhausted"]
        /\ cur' = [cur EXCEPT ![r] = NoProvider]
        /\ rest' = [rest EXCEPT ![r] = {}]
     \/ \E p \in FirstCandidates :
          /\ cur' = [cur EXCEPT ![r] = p]
          /\ rest' = [rest EXCEPT ![r] = Candidates \ {p}]
          /\ pc' = [pc EXCEPT ![r] = "probing"]
  /\ UNCHANGED <<routerVars, overridden>>

\* Mutant: "return" for "continue" when a provider is not healthy.
UnavailableGivesUp(r) ==
  /\ pc[r] = "probing"
  /\ pc' = [pc EXCEPT ![r] = "exhausted"]
  /\ UNCHANGED <<routerVars, cur, rest, ghostVars>>

(* check_health has answered "unavailable": on to the next candidate, with  *)
(* no pause and no failure counted.                                         *)
Unavailable(r) ==
  /\ pc[r] = "probing"
  /\ NextCandidate(r)
  /\ UNCHANGED routerVars

(* check_health has answered "available": the provider becomes the active   *)
(* one before it has produced anything.                                     *)
Available(r) ==
  /\ pc[r] = "probing"
  /\ active' = cur[r]
  /\ pc' = [pc EXCEPT ![r] = "streaming"]
  /\ UNCHANGED <<failures, cooldown, cur, rest, ghostVars>>

(* The stream ends: the failure count restarts, degraded_until is not reset. *)
Finish(r) ==
  /\ pc[r] = "streaming"
  /\ failures' = [failures EXCEPT ![cur[r]] = 0]
  /\ Return(r)
  /\ UNCHANGED <<active, cooldown>>

(* The handler of an exception once it has settled the count of failures n: *)
(* it opens the breaker at the threshold, then sleeps.                      *)
HandleFailure(r, n) ==
  /\ failures' = [failures EXCEPT ![cur[r]] = n]
  /\ cooldown' = [cooldown EXCEPT ![cur[r]] =
                    IF n >= MaxFailures THEN DegradedTimeout ELSE @]
  /\ pc' = [pc EXCEPT ![r] = "backoff"]
  /\ UNCHANGED <<active, cur, rest, ghostVars>>

(* The provider raises.  Only "at least MaxFailures" is ever asked of the   *)
(* count, so it saturates there.                                            *)
Fail(r) ==
  /\ pc[r] = "streaming"
  /\ HandleFailure(r, IF failures[cur[r]] < MaxFailures
                      THEN failures[cur[r]] + 1 ELSE MaxFailures)

(* llm_timeout_seconds have passed: the count does not move, yet a count    *)
(* already at the threshold opens the breaker again.                        *)
TimeOut(r) ==
  /\ pc[r] = "streaming"
  /\ HandleFailure(r, failures[cur[r]])

(* The sleep after a failure is over.                                       *)
Resume(r) ==
  /\ pc[r] = "backoff"
  /\ NextCandidate(r)
  /\ UNCHANGED routerVars

(* The client has gone: CancelledError or GeneratorExit, neither of which   *)
(* "except Exception" catches, so that no counter changes.                  *)
Cancel(r) ==
  /\ pc[r] \in Busy
  /\ Return(r)
  /\ UNCHANGED routerVars

(* POST /providers/switch, which takes any name, or null.                   *)
SetActive(n) ==
  /\ active' = n
  /\ overridden' = (overridden \/ n \notin Provider)
  /\ UNCHANGED <<failures, cooldown, requestVars, tried, skipped, lead>>

\* Mutant: time that is left is not kept above zero.
TickBelowZero ==
  /\ Degraded # {}
  /\ cooldown' = [p \in Provider |-> cooldown[p] - 1]
  /\ UNCHANGED <<active, failures, requestVars, ghostVars>>

(* One unit of wall-clock time.                                             *)
Tick ==
  /\ Degraded # {}
  /\ cooldown' = [p \in Provider |-> IF cooldown[p] = 0 THEN 0 ELSE cooldown[p] - 1]
  /\ UNCHANGED <<active, failures, requestVars, ghostVars>>

Probe(r)     == Available(r) \/ Unavailable(r)
EndStream(r) == Finish(r) \/ Fail(r) \/ TimeOut(r)

Next ==
  \/ \E r \in Request :
       \/ Start(r)
       \/ Available(r)
       \/ Unavailable(r)
       \/ Finish(r)
       \/ Fail(r)
       \/ TimeOut(r)
       \/ Resume(r)
       \/ Cancel(r)
  \/ \E n \in Provider \cup {NoProvider, UnknownProvider} : SetActive(n)
  \/ Tick

Spec == Init /\ [][Next]_vars

(* check_health has a timeout of its own, asyncio.timeout bounds the stream *)
(* and the back-off is a sleep of at most 10.5 s: none of them lasts.       *)
Fairness ==
  \A r \in Request :
    /\ WF_vars(Probe(r))
    /\ WF_vars(EndStream(r))
    /\ WF_vars(Resume(r))

FairSpec == Spec /\ Fairness

-----------------------------------------------------------------------------
(* A request tries no provider twice, although other requests move the      *)
(* active provider while it runs, and after the provider that was active at *)
(* its start it goes strictly down the priorities (_get_candidates and the  *)
(* loop of generate_stream).                                                *)
AttemptOrder ==
  \A r \in Request : pc[r] \in Busy =>
    /\ cur[r] \notin tried[r] \cup rest[r]
    /\ tried[r] \cap rest[r] = {}
    /\ \A p \in tried[r] \ {lead[r]} : Priority[p] < Priority[cur[r]]
    /\ cur[r] # lead[r] => \A p \in rest[r] : Priority[cur[r]] < Priority[p]

(* The breaker's actual promise: a request reaches a degraded provider only *)
(* when that one was active at its start, or was degraded after it.         *)
OnlyActiveBypassesBreaker ==
  \A r \in Request : pc[r] \in Busy =>
    ({cur[r]} \cup rest[r] \cup tried[r]) \cap skipped[r] = {}

(* "Todos los proveedores fallaron" is raised only after every provider     *)
(* that the breaker did not keep out has been left behind.                  *)
ExhaustedMeansAllTried ==
  \A r \in Request : pc[r] = "exhausted" => tried[r] \cup skipped[r] = Provider

(* The early raise on an empty list of candidates cannot happen unless      *)
(* /switch has cleared the active provider or named an unknown one: a       *)
(* provider must have been active to fail, the router never forgets the     *)
(* last one, and that one is a candidate even when every breaker is open.   *)
AlwaysACandidate == Candidates = {} => overridden

(* Every request ends in an answer or an error, or is cancelled: it cannot  *)
(* go round the providers for ever.                                         *)
RequestSettles ==
  \A r \in Request : pc[r] \in Busy ~> pc[r] \in Resting
=============================================================================
