------------------------- MODULE ChatHistory_proofs -------------------------
(***************************************************************************)
(* What the lock gives the chat history, for any processes, tasks and      *)
(* sessions, with and without Redis.                                       *)
(***************************************************************************)
EXTENDS ChatHistory, SequenceTheorems, TLAPS

\* What a task's stage says about its session and about _current_name.
TaskInv(t) ==
  /\ pc[t] # "idle" => sess[t] \in Session
  /\ pc[t] \in {"locked", "read", "leaving"} => name[Host[t]] \in Session

\* The lock that a task inside holds: the key, or the asyncio.Lock.
HasLock(t, s) ==
  IF UsesRedis(t) THEN key[s] # "free" ELSE s \in mutex[Host[t]]

\* As long as the lock of s has not been robbed, the one task inside has it,
\* and what it has read is what the row still says, unless the row has gone.
SessionInv(s) ==
  s \notin robbed =>
    \A t \in Task : sess[t] = s /\ pc[t] \in Inside =>
      /\ HasLock(t, s)
      /\ \A u \in Task : sess[u] = s /\ pc[u] \in Inside => t = u
      /\ pc[t] = "read" => rec[s] = NoRecord \/ snap[t] = rec[s]

LockInv ==
  /\ TypeOK
  /\ \A t \in Task : TaskInv(t)
  /\ \A s \in Session : SessionInv(s)

(* The last MaxHistory messages of a list that is not empty.                *)
LEMMA TrimProperties ==
  ASSUME NEW l \in Seq(Task), Len(l) >= 1
  PROVE  Trim(l) \in Seq(Task) /\ Len(Trim(l)) \in 1..MaxHistory
<1> USE SentinelAssumption
<1>1. CASE Len(l) > MaxHistory
  <2>1. Len(l) \in Nat /\ Len(l) - MaxHistory + 1 \in 1..Len(l)
    BY <1>1
  <2>2. \A i \in (Len(l) - MaxHistory + 1)..Len(l) : l[i] \in Task
    BY <2>1, ElementOfSeq
  <2>3. /\ SubSeq(l, Len(l) - MaxHistory + 1, Len(l)) \in Seq(Task)
        /\ Len(SubSeq(l, Len(l) - MaxHistory + 1, Len(l))) = MaxHistory
    BY <2>1, <2>2, SubSeqProperties
  <2> QED BY <1>1, <2>3 DEF Trim
<1>2. CASE ~(Len(l) > MaxHistory)
  BY <1>2 DEF Trim
<1> QED BY <1>1, <1>2

(* What a commit writes is a list of the right length.                      *)
LEMMA ExtendedType ==
  ASSUME TypeOK, NEW t \in Task
  PROVE  Extended(t) \in Seq(Task) /\ Len(Extended(t)) \in 1..MaxHistory
<1> DEFINE b == IF snap[t] = NoRecord THEN <<>> ELSE snap[t]
<1>1. b \in Seq(Task)
  BY DEF TypeOK, Row
<1>2. Append(b, t) \in Seq(Task) /\ Len(Append(b, t)) >= 1
  BY <1>1
<1> QED BY <1>2, TrimProperties DEF Extended

LEMMA InitLockInv == Init => LockInv
BY HostAssumption, SentinelAssumption
DEF Init, LockInv, TypeOK, TaskInv, SessionInv, Row, Inside

(* A step of a call keeps the invariant.                                    *)
LEMMA TaskKeeps ==
  ASSUME LockInv, NEW t \in Task,
         \/ \E s \in Session : Call(t, s)
         \/ SetNX(t)
         \/ Expire(t)
         \/ AcquireMutex(t)
         \/ Abandon(t)
         \/ Read(t)
         \/ Commit(t)
         \/ AppendFails(t)
         \/ Release(t)
         \/ ReleaseFails(t)
  PROVE  LockInv'
<1> USE HostAssumption, SentinelAssumption
<1>1. CASE \E s \in Session : Call(t, s)
  BY <1>1 DEF Call, LockInv, TypeOK, TaskInv, SessionInv, HasLock, Row,
     Inside, Holders, StillRobbed, Elsewhere, SameLock, UsesRedis, MoveTo, Quit,
     lockVars, taskVars, causeVars, Stranding
<1>2. CASE SetNX(t)
  BY <1>2 DEF SetNX, LockInv, TypeOK, TaskInv, SessionInv, HasLock, Row,
     Inside, Holders, StillRobbed, Elsewhere, SameLock, UsesRedis, MoveTo, Quit,
     lockVars, taskVars, causeVars, Stranding
<1>3. CASE Expire(t)
  BY <1>3 DEF Expire, LockInv, TypeOK, TaskInv, SessionInv, HasLock, Row,
     Inside, Holders, StillRobbed, Elsewhere, SameLock, UsesRedis, MoveTo, Quit,
     lockVars, taskVars, causeVars, Stranding
<1>4. CASE AcquireMutex(t)
  BY <1>4 DEF AcquireMutex, LockInv, TypeOK, TaskInv, SessionInv, HasLock, Row,
     Inside, Holders, StillRobbed, Elsewhere, SameLock, UsesRedis, MoveTo, Quit,
     lockVars, taskVars, causeVars, Stranding
<1>5. CASE Abandon(t)
  BY <1>5 DEF Abandon, LockInv, TypeOK, TaskInv, SessionInv, HasLock, Row,
     Inside, Holders, StillRobbed, Elsewhere, SameLock, UsesRedis, MoveTo, Quit,
     lockVars, taskVars, causeVars, Stranding
<1>6. CASE Read(t)
  BY <1>6 DEF Read, LockInv, TypeOK, TaskInv, SessionInv, HasLock, Row,
     Inside, Holders, StillRobbed, Elsewhere, SameLock, UsesRedis, MoveTo, Quit,
     lockVars, taskVars, causeVars, Stranding
<1>7. CASE Commit(t)
  <2>1. /\ rec' = [rec EXCEPT ![sess[t]] = Extended(t)]
        /\ pc' = [pc EXCEPT ![t] = "leaving"]
        /\ pc[t] = "read"
        /\ UNCHANGED <<key, mutex, name, sess, snap, robbed, causeVars>>
    BY <1>7 DEF Commit, MoveTo, lockVars
  <2>2. sess[t] \in Session /\ name[Host[t]] \in Session
    BY <2>1 DEF LockInv, TaskInv
  <2>3. TypeOK'
    <3>1. TypeOK /\ Extended(t) \in Seq(Task) /\ Len(Extended(t)) \in 1..MaxHistory
      BY ExtendedType DEF LockInv
    <3>2. rec' \in [Session -> Row]
      BY <2>1, <3>1 DEF TypeOK, Row
    <3>3. \A s \in Session : rec'[s] # NoRecord => Len(rec'[s]) \in 1..MaxHistory
      BY <2>1, <2>2, <3>1 DEF TypeOK
    <3> QED BY <2>1, <3>1, <3>2, <3>3 DEF TypeOK, Inside, causeVars
  <2>4. \A u \in Task : TaskInv(u)'
    BY <2>1 DEF LockInv, TypeOK, TaskInv
  <2>5. ASSUME NEW s \in Session PROVE SessionInv(s)'
    BY <2>1, <2>2 DEF LockInv, TypeOK, SessionInv, HasLock, Inside, UsesRedis
  <2> QED BY <2>3, <2>4, <2>5 DEF LockInv
<1>8. CASE AppendFails(t)
  BY <1>8 DEF AppendFails, LockInv, TypeOK, TaskInv, SessionInv, HasLock, Row,
     Inside, Holders, StillRobbed, Elsewhere, SameLock, UsesRedis, MoveTo, Quit,
     lockVars, taskVars, causeVars, Stranding
<1>9. CASE Release(t)
  <2> DEFINE n == name[Host[t]]
  <2>1. n \in Session /\ pc[t] = "leaving" /\ Host[t] \in Process
    BY <1>9 DEF Release, LockInv, TaskInv
  <2>2. /\ pc' = [pc EXCEPT ![t] = "idle"]
        /\ sess' = [sess EXCEPT ![t] = NoSession]
        /\ snap' = [snap EXCEPT ![t] = NoRecord]
        /\ UNCHANGED <<rec, name>>
    BY <1>9 DEF Release, Quit, LockInv, TypeOK
  <2>3. /\ UsesRedis(t) => key' = [key EXCEPT ![n] = "free"] /\ mutex' = mutex
        /\ ~UsesRedis(t) =>
             key' = key /\ mutex' = [mutex EXCEPT ![Host[t]] = @ \ {n}]
    BY <1>9 DEF Release
  <2>4. TypeOK'
    <3>1. robbed' \subseteq Session
      BY <1>9, <2>1 DEF Release, LockInv, TypeOK, StillRobbed
    <3>2. key' \in [Session -> {"free", "untimed", "timed"}]
      BY <2>3 DEF LockInv, TypeOK
    <3>3. mutex' \in [Process -> SUBSET Session]
      BY <2>3 DEF LockInv, TypeOK
    <3>4. snap' \in [Task -> Row] /\ pc' \in [Task -> {"idle", "waiting"} \cup Inside]
          /\ sess' \in [Task -> Session \cup {NoSession}]
      BY <2>2 DEF LockInv, TypeOK, Row
    <3>5. crossed' \subseteq Process /\ stranded' \subseteq Session
      BY <1>9, <2>1 DEF Release, LockInv, TypeOK
    <3> QED BY <2>2, <3>1, <3>2, <3>3, <3>4, <3>5 DEF LockInv, TypeOK
  <2>5. \A u \in Task : TaskInv(u)'
    BY <2>1, <2>2 DEF LockInv, TypeOK, TaskInv
  <2>6. ASSUME NEW s \in Session, s \notin robbed', NEW u \in Task,
               sess'[u] = s, pc'[u] \in Inside
        PROVE  /\ u # t /\ sess[u] = s /\ pc[u] \in Inside /\ s \notin robbed
               /\ s = n => ~SameLock(t, u)
    <3>1. u # t /\ sess[u] = s /\ pc[u] \in Inside
      BY <2>2, <2>6 DEF LockInv, TypeOK, Inside
    <3>2. u \in Holders(s) \ {t}
      BY <3>1 DEF Holders
    <3> QED BY <1>9, <2>6, <3>1, <3>2 DEF Release, StillRobbed
  <2>7. ASSUME NEW s \in Session PROVE SessionInv(s)'
    <3> SUFFICES ASSUME s \notin robbed', NEW u \in Task,
                        sess'[u] = s, pc'[u] \in Inside
                 PROVE  /\ HasLock(u, s)'
                        /\ \A v \in Task : sess'[v] = s /\ pc'[v] \in Inside => u = v
                        /\ pc'[u] = "read" => rec'[s] = NoRecord \/ snap'[u] = rec'[s]
      BY DEF SessionInv
    <3>1. /\ HasLock(u, s)
          /\ \A v \in Task : sess[v] = s /\ pc[v] \in Inside => u = v
          /\ pc[u] = "read" => rec[s] = NoRecord \/ snap[u] = rec[s]
      BY <2>6 DEF LockInv, SessionInv
    <3>2. HasLock(u, s)'
      BY <2>3, <2>6, <3>1 DEF HasLock, SameLock, UsesRedis, LockInv, TypeOK
    <3>3. \A v \in Task : sess'[v] = s /\ pc'[v] \in Inside => u = v
      BY <2>6, <3>1
    <3>4. pc'[u] = "read" => rec'[s] = NoRecord \/ snap'[u] = rec'[s]
      BY <2>2, <2>6, <3>1 DEF LockInv, TypeOK
    <3> QED BY <3>2, <3>3, <3>4
  <2> QED BY <2>4, <2>5, <2>7 DEF LockInv
<1>10. CASE ReleaseFails(t)
  BY <1>10 DEF ReleaseFails, LockInv, TypeOK, TaskInv, SessionInv, HasLock, Row,
     Inside, Holders, StillRobbed, Elsewhere, SameLock, UsesRedis, MoveTo, Quit,
     lockVars, taskVars, causeVars, Stranding
<1> QED BY <1>1, <1>2, <1>3, <1>4, <1>5, <1>6, <1>7, <1>8, <1>9, <1>10

LEMMA NextLockInv == LockInv /\ [Next]_vars => LockInv'
<1> SUFFICES ASSUME LockInv, [Next]_vars PROVE LockInv'
  OBVIOUS
<1> USE HostAssumption, SentinelAssumption
<1>1. CASE UNCHANGED vars
  BY <1>1 DEF vars, LockInv, TypeOK, TaskInv, SessionInv, HasLock, Row,
     Inside, Holders, StillRobbed, Elsewhere, SameLock, UsesRedis, MoveTo, Quit,
     lockVars, taskVars, causeVars, Stranding
<1>2. ASSUME NEW s \in Session, KeyExpires(s) PROVE LockInv'
  BY <1>2 DEF KeyExpires, LockInv, TypeOK, TaskInv, SessionInv, HasLock, Row,
     Inside, Holders, StillRobbed, Elsewhere, SameLock, UsesRedis, MoveTo, Quit,
     lockVars, taskVars, causeVars, Stranding
<1>3. ASSUME NEW s \in Session, Clear(s) PROVE LockInv'
  BY <1>3 DEF Clear, LockInv, TypeOK, TaskInv, SessionInv, HasLock, Row,
     Inside, Holders, StillRobbed, Elsewhere, SameLock, UsesRedis, MoveTo, Quit,
     lockVars, taskVars, causeVars, Stranding
<1>4. ASSUME NEW p \in Process, Crash(p) PROVE LockInv'
  BY <1>4 DEF Crash, LockInv, TypeOK, TaskInv, SessionInv, HasLock, Row,
     Inside, Holders, StillRobbed, Elsewhere, SameLock, UsesRedis, MoveTo, Quit,
     lockVars, taskVars, causeVars, Stranding
<1> QED BY <1>1, <1>2, <1>3, <1>4, TaskKeeps DEF Next, GoOn

(* The inductive invariant that the theorems below follow from.             *)
THEOREM LockInvariant == Spec => []LockInv
BY InitLockInv, NextLockInv, PTL DEF Spec

(* Every variable keeps its type; no session holds more than MaxHistory     *)
(* messages.                                                                *)
THEOREM HistoryTypeCorrect == Spec => []TypeOK
<1>1. LockInv => TypeOK
  BY DEF LockInv
<1> QED BY LockInvariant, <1>1, PTL

(* Two tasks are inside one session only when its lock has been robbed.     *)
THEOREM LockExcludes == Spec => []ExclusionUnlessRobbed
<1>1. LockInv => ExclusionUnlessRobbed
  BY DEF LockInv, SessionInv, ExclusionUnlessRobbed, Holders
<1> QED BY LockInvariant, <1>1, PTL

\* The step relation of AppendsAreAtomic.
AtomicStep(s) ==
  rec'[s] # rec[s] =>
    History!Remove(s) \/ \E t \in Task : History!Add(s, t)

LEMMA NextAtomicStep ==
  ASSUME LockInv, [Next]_vars, NEW s \in Session \ robbed
  PROVE  AtomicStep(s)
<1>1. ASSUME rec' = rec PROVE AtomicStep(s)
  BY <1>1 DEF AtomicStep
<1>2. ASSUME NEW r \in Session, Clear(r) PROVE AtomicStep(s)
  BY <1>2 DEF Clear, AtomicStep, History!Remove, LockInv, TypeOK
<1>3. ASSUME NEW t \in Task, Commit(t) PROVE AtomicStep(s)
  <2>1. CASE sess[t] = s
    <3>1. snap[t] = rec[s]
      BY <1>3, <2>1 DEF Commit, LockInv, SessionInv, Inside
    <3>2. Extended(t) = History!Trim(Append(History!Messages(s), t))
      BY <3>1 DEF Extended, Trim, History!Trim, History!Messages
    <3>3. History!Add(s, t)
      BY <1>3, <2>1, <3>2 DEF Commit, History!Add
    <3> QED BY <3>3 DEF AtomicStep
  <2>2. CASE sess[t] # s
    BY <1>3, <2>2 DEF Commit, AtomicStep, LockInv, TypeOK
  <2> QED BY <2>1, <2>2
<1>4. ASSUME NEW t \in Task,
             \/ \E r \in Session : Call(t, r)
             \/ SetNX(t) \/ Expire(t) \/ AcquireMutex(t) \/ Abandon(t) \/ Read(t)
             \/ AppendFails(t) \/ Release(t) \/ ReleaseFails(t)
      PROVE  rec' = rec
  BY <1>4 DEF Call, SetNX, Expire, AcquireMutex, Abandon, Read, AppendFails,
     Release, ReleaseFails
<1>5. CASE \E r \in Session : KeyExpires(r)
  BY <1>1, <1>5 DEF KeyExpires
<1>6. CASE \E p \in Process : Crash(p)
  BY <1>1, <1>6 DEF Crash
<1>7. CASE UNCHANGED vars
  BY <1>1, <1>7 DEF vars
<1> QED BY <1>1, <1>2, <1>3, <1>4, <1>5, <1>6, <1>7 DEF Next, GoOn

(* A session whose lock has not been robbed changes as ChatSession says: no *)
(* append is lost and no clear undone.                                      *)
THEOREM AppendsAtomic == Spec => AppendsAreAtomic
<1>1. LockInv /\ [Next]_vars => [\A s \in Session \ robbed : AtomicStep(s)]_vars
  BY NextAtomicStep
<1>2. [\A s \in Session \ robbed : AtomicStep(s)]_vars =>
        [\A s \in Session \ robbed : rec'[s] # rec[s] =>
           History!Remove(s) \/ \E t \in Task : History!Add(s, t)]_vars
  BY DEF AtomicStep
<1> QED BY LockInvariant, <1>1, <1>2, PTL DEF Spec, AppendsAreAtomic
=============================================================================
