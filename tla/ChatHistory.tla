---------------------------- MODULE ChatHistory ----------------------------
(***************************************************************************)
(* The chat history of all backend processes (memory/chat_history.py) and  *)
(* the lock that is to make an append atomic (DistributedLock in           *)
(* core/cache.py).                                                         *)
(*                                                                         *)
(* A task is one call of add_message.  Its message is its own name.  The   *)
(* lock is a Redis key, or, in a process that found no Redis when it       *)
(* started, an asyncio.Lock per session.  Each process has one             *)
(* DistributedLock object, which remembers in _current_name what to        *)
(* release: the last session that any task of the process has locked.      *)
(***************************************************************************)
EXTENDS Naturals, Sequences

CONSTANTS
  Task,       \* calls of add_message that may be open at the same time
  Process,    \* the uvicorn workers
  Host,       \* Host[t]: the process of t
  InMemory,   \* the processes whose lock is the asyncio fallback
  Session,
  NoSession,  \* _current_name is not set; the session of an idle task
  NoRecord,   \* there is no chat_sessions row
  MaxHistory  \* max_history

ASSUME HostAssumption ==
  /\ Host \in [Task -> Process]
  /\ InMemory \subseteq Process

ASSUME SentinelAssumption ==
  /\ NoSession \notin Session
  /\ NoRecord \notin Seq(Task)
  /\ MaxHistory \in Nat \ {0}

VARIABLES
  rec,     \* the chat_sessions table: the messages of a session
  key,     \* the Redis lock key of a session
  mutex,   \* mutex[p]: the sessions whose asyncio.Lock is locked in p
  name,    \* name[p]: _current_name
  pc,      \* where each task stands
  sess,    \* its session
  snap,    \* the row it has read
  \* What the properties remember:
  robbed,   \* the sessions with a task inside whose lock has gone, or that has
            \* locked it elsewhere
  crossed,  \* the processes in which a task has left its own asyncio.Lock
            \* locked, because another one had set _current_name since
  stranded  \* the sessions whose key was set by a task that was cut off before
            \* EXPIRE

lockVars == <<key, mutex, name>>
taskVars == <<pc, sess, snap>>
causeVars == <<crossed, stranded>>
vars     == <<rec, lockVars, taskVars, robbed, causeVars>>

Row == Seq(Task) \cup {NoRecord}

Inside == {"acquired", "locked", "read", "leaving"}

TypeOK ==
  /\ rec \in [Session -> Row]
  /\ \A s \in Session : rec[s] # NoRecord => Len(rec[s]) \in 1..MaxHistory
  /\ key \in [Session -> {"free", "untimed", "timed"}]
  /\ mutex \in [Process -> SUBSET Session]
  /\ name \in [Process -> Session \cup {NoSession}]
  /\ pc \in [Task -> {"idle", "waiting"} \cup Inside]
  /\ sess \in [Task -> Session \cup {NoSession}]
  /\ snap \in [Task -> Row]
  /\ robbed \subseteq Session
  /\ crossed \subseteq Process
  /\ stranded \subseteq Session

Init ==
  /\ rec = [s \in Session |-> NoRecord]
  /\ key = [s \in Session |-> "free"]
  /\ mutex = [p \in Process |-> {}]
  /\ name = [p \in Process |-> NoSession]
  /\ pc = [t \in Task |-> "idle"]
  /\ sess = [t \in Task |-> NoSession]
  /\ snap = [t \in Task |-> NoRecord]
  /\ robbed = {}
  /\ crossed = {}
  /\ stranded = {}

UsesRedis(t) == Host[t] \notin InMemory

SameLock(t, u) == (UsesRedis(t) /\ UsesRedis(u)) \/ Host[t] = Host[u]

\* The tasks between the acquisition of the lock of s and its release.
Holders(s) == {t \in Task : sess[t] = s /\ pc[t] \in Inside}

\* The robbed sessions that have a task inside besides those of S.
StillRobbed(S) == {s \in robbed : Holders(s) \ S # {}}

MoveTo(t, l) == pc' = [pc EXCEPT ![t] = l]

Quit(S) ==
  /\ pc' = [t \in Task |-> IF t \in S THEN "idle" ELSE pc[t]]
  /\ sess' = [t \in Task |-> IF t \in S THEN NoSession ELSE sess[t]]
  /\ snap' = [t \in Task |-> IF t \in S THEN NoRecord ELSE snap[t]]

-----------------------------------------------------------------------------
(* DistributedLock                                                          *)

Call(t, s) ==
  /\ pc[t] = "idle"
  /\ MoveTo(t, "waiting")
  /\ sess' = [sess EXCEPT ![t] = s]
  /\ UNCHANGED <<rec, lockVars, snap, robbed, causeVars>>

Elsewhere(t) == {s \in {sess[t]} : \E u \in Holders(s) : ~SameLock(t, u)}

\* Mutant: a key that is tested and then set, in two calls.
SetUnlessSeen(t) ==
  /\ pc[t] = "waiting"
  /\ UsesRedis(t)
  /\ key' = [key EXCEPT ![sess[t]] = "untimed"]
  /\ MoveTo(t, "acquired")
  /\ robbed' = robbed \cup Elsewhere(t)
  /\ stranded' = stranded \ {sess[t]}
  /\ UNCHANGED <<rec, mutex, name, sess, snap, crossed>>

SetNX(t) ==
  /\ pc[t] = "waiting"
  /\ UsesRedis(t)
  /\ key[sess[t]] = "free"
  /\ key' = [key EXCEPT ![sess[t]] = "untimed"]
  /\ MoveTo(t, "acquired")
  /\ robbed' = robbed \cup Elsewhere(t)
  /\ stranded' = stranded \ {sess[t]}
  /\ UNCHANGED <<rec, mutex, name, sess, snap, crossed>>

\* Mutant: no EXPIRE.
ExpireForgotten(t) ==
  /\ pc[t] = "acquired"
  /\ name' = [name EXCEPT ![Host[t]] = sess[t]]
  /\ MoveTo(t, "locked")
  /\ UNCHANGED <<rec, key, mutex, sess, snap, robbed, causeVars>>

\* EXPIRE does nothing to a key that has gone meanwhile.
Expire(t) ==
  /\ pc[t] = "acquired"
  /\ key' = [key EXCEPT ![sess[t]] = IF @ = "free" THEN @ ELSE "timed"]
  /\ name' = [name EXCEPT ![Host[t]] = sess[t]]
  /\ MoveTo(t, "locked")
  /\ UNCHANGED <<rec, mutex, sess, snap, robbed, causeVars>>

\* The sessions whose key stays without an end when the tasks of S are cut off.
Stranding(S) == {s \in Session : \E t \in S : sess[t] = s /\ pc[t] = "acquired"}

\* lock.acquire() of the fallback, which waits for as long as it takes.
AcquireMutex(t) ==
  /\ pc[t] = "waiting"
  /\ ~UsesRedis(t)
  /\ sess[t] \notin mutex[Host[t]]
  /\ mutex' = [mutex EXCEPT ![Host[t]] = @ \cup {sess[t]}]
  /\ name' = [name EXCEPT ![Host[t]] = sess[t]]
  /\ MoveTo(t, "locked")
  /\ robbed' = robbed \cup Elsewhere(t)
  /\ UNCHANGED <<rec, key, sess, snap, causeVars>>

(* TimeoutError after 50 attempts, or the task is cancelled, or Redis fails *)
(* between SETNX and EXPIRE, which leaves a key that never expires.         *)
Abandon(t) ==
  /\ pc[t] \in {"waiting", "acquired"}
  /\ Quit({t})
  /\ robbed' = StillRobbed({t})
  /\ stranded' = stranded \cup Stranding({t})
  /\ UNCHANGED <<rec, lockVars, crossed>>

(* __aexit__ releases _current_name, whoever locked that, and a task whose  *)
(* lock it was goes on without one.  A lock that is free is left as it is.  *)
Release(t) ==
  LET s == name[Host[t]] IN
  /\ pc[t] = "leaving"
  /\ IF UsesRedis(t)
     THEN key' = [key EXCEPT ![s] = "free"] /\ UNCHANGED mutex
     ELSE mutex' = [mutex EXCEPT ![Host[t]] = @ \ {s}] /\ UNCHANGED key
  /\ Quit({t})
  /\ robbed' = StillRobbed({t}) \cup
                 {r \in {s} : \E u \in Holders(r) \ {t} : SameLock(t, u)}
  /\ crossed' = crossed \cup {p \in {Host[t]} : ~UsesRedis(t) /\ s # sess[t]}
  /\ UNCHANGED <<rec, name, stranded>>

\* Redis fails: the key stays until it expires.
ReleaseFails(t) ==
  /\ pc[t] = "leaving"
  /\ UsesRedis(t)
  /\ Quit({t})
  /\ robbed' = StillRobbed({t})
  /\ UNCHANGED <<rec, lockVars, causeVars>>

\* The time to live is over, whether or not the holder is still inside.
KeyExpires(s) ==
  /\ key[s] = "timed"
  /\ key' = [key EXCEPT ![s] = "free"]
  /\ robbed' = robbed \cup {r \in {s} : \E u \in Holders(r) : UsesRedis(u)}
  /\ UNCHANGED <<rec, mutex, name, taskVars, causeVars>>

-----------------------------------------------------------------------------
(* add_message and clear_session                                            *)

Read(t) ==
  /\ pc[t] = "locked"
  /\ snap' = [snap EXCEPT ![t] = rec[sess[t]]]
  /\ MoveTo(t, "read")
  /\ UNCHANGED <<rec, lockVars, sess, robbed, causeVars>>

\* Mutant: the list is never cut.
NoTrim(l) == l

Trim(l) ==
  IF Len(l) > MaxHistory THEN SubSeq(l, Len(l) - MaxHistory + 1, Len(l)) ELSE l

Extended(t) == Trim(Append(IF snap[t] = NoRecord THEN <<>> ELSE snap[t], t))

\* Mutant: the row is merged, that is inserted or replaced, whatever became of it.
CommitMerged(t) ==
  /\ pc[t] = "read"
  /\ rec' = [rec EXCEPT ![sess[t]] = Extended(t)]
  /\ MoveTo(t, "leaving")
  /\ UNCHANGED <<lockVars, sess, snap, robbed, causeVars>>

(* The commit, an UPDATE of the row that was read or the INSERT of a new    *)
(* one.  The first fails when the row has gone, the second when one has     *)
(* come; neither compares the messages.                                     *)
Commit(t) ==
  /\ pc[t] = "read"
  /\ (snap[t] = NoRecord) = (rec[sess[t]] = NoRecord)
  /\ rec' = [rec EXCEPT ![sess[t]] = Extended(t)]
  /\ MoveTo(t, "leaving")
  /\ UNCHANGED <<lockVars, sess, snap, robbed, causeVars>>

\* Mutant: no "async with", so that an exception passes by the release.
LeaveLocked(t) ==
  /\ pc[t] \in {"locked", "read"}
  /\ Quit({t})
  /\ robbed' = StillRobbed({t})
  /\ UNCHANGED <<rec, lockVars, causeVars>>

\* That, or the database, or a cancellation: on to __aexit__.
AppendFails(t) ==
  /\ pc[t] \in {"locked", "read"}
  /\ MoveTo(t, "leaving")
  /\ UNCHANGED <<rec, lockVars, sess, snap, robbed, causeVars>>

\* clear_session and cleanup_old_sessions, neither of which takes the lock.
Clear(s) ==
  /\ rec[s] # NoRecord
  /\ rec' = [rec EXCEPT ![s] = NoRecord]
  /\ UNCHANGED <<lockVars, taskVars, robbed, causeVars>>

\* A process dies with its tasks and its own locks.  The keys stay.
Crash(p) ==
  LET S == {t \in Task : Host[t] = p} IN
  /\ \E t \in S : pc[t] # "idle"
  /\ mutex' = [mutex EXCEPT ![p] = {}]
  /\ name' = [name EXCEPT ![p] = NoSession]
  /\ Quit(S)
  /\ robbed' = StillRobbed(S)
  /\ crossed' = crossed \ {p}
  /\ stranded' = stranded \cup Stranding(S)
  /\ UNCHANGED <<rec, key>>

-----------------------------------------------------------------------------
\* What happens to the calls that there are, and to the rows and keys.
GoOn ==
  \/ \E t \in Task :
       \/ SetNX(t)
       \/ Expire(t)
       \/ AcquireMutex(t)
       \/ Abandon(t)
       \/ Read(t)
       \/ Commit(t)
       \/ AppendFails(t)
       \/ Release(t)
       \/ ReleaseFails(t)
  \/ \E s \in Session : KeyExpires(s) \/ Clear(s)
  \/ \E p \in Process : Crash(p)

Next == GoOn \/ \E t \in Task, s \in Session : Call(t, s)

Spec == Init /\ [][Next]_vars

Work(t) ==
  \/ Expire(t) \/ Read(t) \/ Commit(t) \/ AppendFails(t)
  \/ Release(t) \/ ReleaseFails(t)

(* A task inside goes on, since its database calls end or raise; one that   *)
(* waits for Redis ends after 50 attempts; asyncio.Lock serves the tasks    *)
(* that wait for it in the order they came.  A key that has a time to live  *)
(* goes when that is over.                                                  *)
Fairness ==
  /\ \A t \in Task :
       /\ WF_vars(Work(t))
       /\ UsesRedis(t) => WF_vars(SetNX(t) \/ Abandon(t))
       /\ SF_vars(AcquireMutex(t))
  /\ \A s \in Session : WF_vars(KeyExpires(s))

FairSpec == Spec /\ Fairness

-----------------------------------------------------------------------------
History == INSTANCE ChatSession WITH hist <- rec, Message <- Task

(* Two tasks are inside the lock of one session only when the lock of one   *)
(* of them has gone: it expired, or another task of its process released it *)
(* for its own; or when the two do not use the same lock at all.            *)
ExclusionUnlessRobbed ==
  \A s \in Session \ robbed : \A t, u \in Holders(s) : t = u

(* Unless that has happened, each change of a session adds one message to   *)
(* what the session holds, or removes it: no append is lost, and a clear    *)
(* that comes between an append's read and its commit is not undone.        *)
AppendsAreAtomic ==
  [][\A s \in Session \ robbed : rec'[s] # rec[s] =>
       History!Remove(s) \/ \E t \in Task : History!Add(s, t)]_vars

(* A call of add_message ends, unless in a process without Redis two        *)
(* sessions' releases have crossed: then an asyncio.Lock stays locked, and  *)
(* whoever asks for it waits until the process ends.                        *)
CallEnds ==
  \A t \in Task : pc[t] # "idle" ~> pc[t] = "idle" \/ Host[t] \in crossed

(* The lock of a session in Redis comes free again, by its release or by    *)
(* its time to live, unless the task that set it was cut off before EXPIRE. *)
LockComesFree ==
  \A s \in Session : key[s] # "free" ~> key[s] = "free" \/ s \in stranded
=============================================================================
