----------------------- MODULE AccountService_proofs -----------------------
(***************************************************************************)
(* What the account calls keep for any number of calls, names, identities, *)
(* starts and stores: each count bounds what it counts, each identity has  *)
(* one account, each second factor is its user's own and each lock stands, *)
(* as long as nobody else has worked on the same thing at the same time    *)
(* and the count was kept; and the starts migrate one after the other.     *)
(***************************************************************************)
EXTENDS AccountService, FiniteSetTheorems, TLAPS

-----------------------------------------------------------------------------
(* What a call is in the middle of: Topics, one kind of topic at a time     *)

Registers(c, s) ==
  /\ call[c].kind = "register" /\ call[c].store = s
  /\ call[c].pc \in {"lookup", "create", "created", "count"}

SignsUp(c, i) ==
  call[c].kind = "sso" /\ call[c].pc \in {"name", "create"} /\ call[c].sso = i

LogsIn(c, s, u) ==
  /\ call[c].kind = "login" /\ call[c].store = s /\ call[c].name = u
  /\ call[c].pc \in {"password", "wrong", "count", "reset", "adminReset"}

GivesCode(c, s, u) ==
  /\ call[c].kind \in SecondFactor /\ call[c].store = s /\ call[c].name = u
  /\ call[c].pc \in {"count", "code"}

Edits(c, u) ==
  /\ call[c].kind \in {"setup", "enable", "disable"} /\ call[c].name = u
  /\ call[c].pc \in {"load", "write"}

Exclusive == \A c, d \in Call : c # d => Topics(c) \cap Topics(d) \subseteq disturbed

-----------------------------------------------------------------------------
(* The inductive invariant                                                  *)

Kept(k) == k \notin disturbed /\ k \notin evicted

\* Registrations: the count is exact but for the one that is being counted.
HourInv(s) ==
  Kept(Hour(s)) =>
    /\ \A c \in Call : Registers(c, s) =>
         /\ counter[Hour(s)] < MaxRegister
         /\ call[c].pc \in {"lookup", "create"} => events[Hour(s)] = counter[Hour(s)]
         /\ call[c].pc \in {"created", "count"} => events[Hour(s)] = counter[Hour(s)] + 1
         /\ call[c].pc = "count" => call[c].n = counter[Hour(s)]
    /\ (\A c \in Call : ~Registers(c, s)) =>
         events[Hour(s)] = counter[Hour(s)] /\ counter[Hour(s)] <= MaxRegister

\* Codes: they are counted before they are looked at.
CodesInv(s, u) ==
  Kept(Codes(s, u)) =>
    /\ \A c \in Call : GivesCode(c, s, u) =>
         /\ call[c].pc = "count" =>
              /\ events[Codes(s, u)] = counter[Codes(s, u)]
              /\ call[c].n = counter[Codes(s, u)]
              /\ counter[Codes(s, u)] < MaxCodes
         /\ call[c].pc = "code" =>
              /\ events[Codes(s, u)] + 1 = counter[Codes(s, u)]
              /\ counter[Codes(s, u)] <= MaxCodes
    /\ (\A c \in Call : ~GivesCode(c, s, u)) =>
         events[Codes(s, u)] = counter[Codes(s, u)] /\ counter[Codes(s, u)] <= MaxCodes

\* Wrong passwords since the last lock: they are counted, and the name is locked
\* when they have reached the limit.
LoginsInv(s, u) ==
  Kept(Logins(s, u)) =>
    /\ \A c \in Call : LogsIn(c, s, u) =>
         /\ call[c].pc \notin {"wrong", "count"} =>
              /\ events[Logins(s, u)] <= counter[Logins(s, u)]
              /\ events[Logins(s, u)] < MaxFailures
         /\ call[c].pc \in {"wrong", "count"} =>
              /\ events[Logins(s, u)] <= counter[Logins(s, u)] + 1
              /\ events[Logins(s, u)] <= MaxFailures
         /\ call[c].pc = "count" => call[c].n = counter[Logins(s, u)]
    /\ (\A c \in Call : ~LogsIn(c, s, u)) =>
         /\ events[Logins(s, u)] <= counter[Logins(s, u)]
         /\ events[Logins(s, u)] <= MaxFailures
         /\ Logins(s, u) \notin locked => events[Logins(s, u)] < MaxFailures

\* Locks: nobody is at work on a locked name.
LockedInv(s, u) ==
  Logins(s, u) \notin disturbed /\ Logins(s, u) \in locked =>
    \A c \in Call : ~LogsIn(c, s, u)

StoreInv(s) ==
  HourInv(s) /\ \A u \in Name : CodesInv(s, u) /\ LoginsInv(s, u) /\ LockedInv(s, u)

\* Identities: who is about to create an account has found none.
SsoInv(i) ==
  Sso(i) \notin disturbed =>
    /\ \A c \in Call : SignsUp(c, i) => Rows(i) = {}
    /\ \A u, v \in Rows(i) : u = v

\* Second factors: what a call has loaded is what the row still holds.
FactorInv(u) ==
  Factor(u) \notin disturbed =>
    /\ Taken(u) /\ users[u].on => users[u].secret \in verified
    /\ \A c \in Call : Edits(c, u) =>
         /\ call[c].pc = "write" => call[c].secret = users[u].secret /\ call[c].on = users[u].on
         /\ call[c].kind = "enable" => users[u].secret \in verified

\* Calls that have seen a row, or written one.
RowInv(c) ==
  /\ call[c].kind \in SecondFactor /\ call[c].pc \in {"count", "code", "load", "write"} =>
       Taken(call[c].name)
  /\ call[c].kind = "start" /\ call[c].pc = "syncDemo" => Taken(Demo)
  /\ call[c].kind = "sso" => call[c].sso \in Identity

StartInv(c) ==
  call[c].kind = "start" =>
    /\ call[c].pc \in {"migrate", "index"} /\ ~lost => lock = c
    /\ call[c].pc \in {"index", "up"} \cup Seeding => schema # "none"
    /\ call[c].pc \in {"demo", "insertDemo", "syncDemo", "up"} /\ c \notin unseeded =>
         Taken(Admin)

LockInv == lock # None => Migrating(lock)

AccountInv ==
  /\ TypeOK /\ Exclusive /\ LockInv
  /\ \A s \in Store : StoreInv(s)
  /\ \A u \in Name : FactorInv(u)
  /\ \A i \in Identity : SsoInv(i)
  /\ \A c \in Call : RowInv(c) /\ StartInv(c)

-----------------------------------------------------------------------------
(* Keys and topics                                                          *)

LEMMA KeyFacts ==
  /\ \A s \in Store : Hour(s) \in Key
  /\ \A s \in Store, u \in Name : Codes(s, u) \in Key /\ Logins(s, u) \in Key
  /\ \A s, t \in Store : Hour(s) = Hour(t) => s = t
  /\ \A s, t \in Store, u \in Name : Codes(s, u) # Hour(t) /\ Logins(s, u) # Hour(t)
  /\ \A s, t \in Store, u, v \in Name :
       /\ Codes(s, u) # Logins(t, v)
       /\ Codes(s, u) = Codes(t, v) => s = t /\ u = v
       /\ Logins(s, u) = Logins(t, v) => s = t /\ u = v
BY DEF Hour, Codes, Logins, Key, KeysOf

LEMMA TopicFacts ==
  ASSUME NEW c \in Call
  PROVE  /\ \A s \in Store : Hour(s) \in Topics(c) <=> Registers(c, s)
         /\ \A i \in Identity : Sso(i) \in Topics(c) <=> SignsUp(c, i)
         /\ \A u \in Name : Factor(u) \in Topics(c) <=> Edits(c, u)
         /\ \A s \in Store, u \in Name :
              /\ Logins(s, u) \in Topics(c) <=> LogsIn(c, s, u)
              /\ Codes(s, u) \in Topics(c) <=> GivesCode(c, s, u)
BY DEF Topics, Hour, Sso, Logins, Codes, Factor, Registers, SignsUp, LogsIn, GivesCode, Edits,
       SecondFactor

LEMMA TopicFactsNext ==
  ASSUME NEW c \in Call
  PROVE  /\ \A s \in Store : Hour(s) \in Topics(c)' <=> Registers(c, s)'
         /\ \A i \in Identity : Sso(i) \in Topics(c)' <=> SignsUp(c, i)'
         /\ \A u \in Name : Factor(u) \in Topics(c)' <=> Edits(c, u)'
         /\ \A s \in Store, u \in Name :
              /\ Logins(s, u) \in Topics(c)' <=> LogsIn(c, s, u)'
              /\ Codes(s, u) \in Topics(c)' <=> GivesCode(c, s, u)'
BY DEF Topics, Hour, Sso, Logins, Codes, Factor, Registers, SignsUp, LogsIn, GivesCode, Edits,
       SecondFactor

LEMMA TopicsTypedNext ==
  ASSUME NEW c \in Call, (call[c].name)' \in Name, (call[c].store)' \in Store,
         (call[c].kind)' = "sso" => (call[c].sso)' \in Identity
  PROVE  Topics(c)' \subseteq Topic
BY DEF Topics, Hour, Sso, Logins, Codes, Factor, Topic, Key, KeysOf, SecondFactor

LEMMA TopicsTyped ==
  ASSUME NEW c \in Call, call[c].name \in Name, call[c].store \in Store,
         call[c].kind = "sso" => call[c].sso \in Identity
  PROVE  Topics(c) \subseteq Topic
BY DEF Topics, Hour, Sso, Logins, Codes, Factor, Topic, Key, KeysOf, SecondFactor

-----------------------------------------------------------------------------
(* How one call goes on                                                     *)

CallRecord == [kind : {"none", "start", "register", "channel", "sso", "login"} \cup SecondFactor,
               pc : Place, store : Store, name : Name, sso : Identity \cup {None}, n : Nat,
               secret : Secret \cup {None}, on : BOOLEAN]

CallTyped == call \in [Call -> CallRecord]

Others(c) == \A d \in Call \ {c} : call'[d] = call[d]

SameWork(c) ==
  /\ call'[c].kind = call[c].kind /\ call'[c].name = call[c].name
  /\ call'[c].store = call[c].store
  /\ call'[c].sso = call[c].sso /\ call'[c].n = call[c].n
  /\ call'[c].secret = call[c].secret /\ call'[c].on = call[c].on

LEMMA AnyStoreTyped == AnyStore \in Store
BY StoreAssumption DEF AnyStore

LEMMA IdleTyped == Idle \in CallRecord
<1>1. Admin \in Name
  BY NameAssumption
<1> QED BY <1>1, AnyStoreTyped DEF Idle, CallRecord, Place

LEMMA MoveFacts ==
  ASSUME CallTyped, NEW c \in Call, NEW l \in Place, MoveTo(c, l)
  PROVE  CallTyped' /\ Others(c) /\ SameWork(c) /\ call'[c].pc = l
BY DEF CallTyped, CallRecord, MoveTo, Others, SameWork

LEMMA EndFacts ==
  ASSUME CallTyped, NEW c \in Call, End(c)
  PROVE  /\ CallTyped' /\ Others(c)
         /\ call'[c].kind = "none" /\ call'[c].pc = "done"
<1> DEFINE r == [Idle EXCEPT !.pc = "done"]
<1>1. r \in CallRecord /\ r.kind = "none" /\ r.pc = "done"
  BY IdleTyped DEF CallRecord, Idle, Place
<1>2. call' = [call EXCEPT ![c] = r]
  BY DEF End
<1> HIDE DEF r
<1> QED BY <1>1, <1>2 DEF CallTyped, Others

LEMMA BeginFacts ==
  ASSUME CallTyped, NEW c \in Call, NEW l \in Place, NEW s \in Store,
         NEW k \in {"start", "register", "channel", "sso", "login"},
         NEW u \in Name, NEW i \in Identity \cup {None}, Begin(c, k, s, u, i, l)
  PROVE  /\ CallTyped' /\ Others(c) /\ call[c].pc = "idle"
         /\ call'[c].kind = k /\ call'[c].pc = l /\ call'[c].store = s
         /\ call'[c].name = u /\ call'[c].sso = i
<1> DEFINE r == [Idle EXCEPT !.kind = k, !.pc = l, !.store = s, !.name = u, !.sso = i]
<1>1. /\ r \in CallRecord /\ r.kind = k /\ r.pc = l /\ r.store = s
      /\ r.name = u /\ r.sso = i
  BY IdleTyped DEF CallRecord, Idle
<1>2. call[c].pc = "idle" /\ call' = [call EXCEPT ![c] = r]
  BY DEF Begin
<1> HIDE DEF r
<1> QED BY <1>1, <1>2 DEF CallTyped, Others

LEMMA ReadFacts ==
  ASSUME CallTyped, NEW c \in Call, NEW k \in Key, counter[k] \in Nat, ReadCount(c, k)
  PROVE  /\ CallTyped' /\ Others(c)
         /\ call'[c].kind = call[c].kind /\ call'[c].pc = "count"
         /\ call'[c].store = call[c].store
         /\ call'[c].name = call[c].name /\ call'[c].sso = call[c].sso
         /\ call'[c].n = counter[k]
<1> DEFINE r == [call[c] EXCEPT !.pc = "count", !.n = counter[k]]
<1>1. call' = [call EXCEPT ![c] = r]
  BY DEF ReadCount, CallTyped
<1>2. /\ r \in CallRecord
      /\ r.kind = call[c].kind /\ r.pc = "count" /\ r.n = counter[k]
      /\ r.store = call[c].store /\ r.name = call[c].name /\ r.sso = call[c].sso
  BY ZenonT(40) DEF CallTyped, CallRecord, Place
<1> HIDE DEF r
<1> QED BY <1>1, <1>2 DEF CallTyped, Others

-----------------------------------------------------------------------------
(* What becomes of the rows                                                 *)

UsersTyped == users \in [Name -> Row \cup {NoRow}]

\* A step that writes no identity and no second factor into a row that is there.
RowsKept ==
  /\ UsersTyped'
  /\ \A u \in Name :
       \/ users'[u] = users[u]
       \/ /\ ~Taken(u) /\ Taken(u)'
          /\ users'[u].sso = None /\ users'[u].on = FALSE
       \/ /\ Taken(u) /\ Taken(u)' /\ users'[u].sso = users[u].sso
          /\ users'[u].secret = users[u].secret /\ users'[u].on = users[u].on

LEMMA RowFacts ==
  /\ NoRow \notin Row
  /\ \A i \in Identity \cup {None}, p \in BOOLEAN :
       /\ NewRow(i, p) \in Row /\ NewRow(i, p) # NoRow
       /\ NewRow(i, p).sso = i /\ NewRow(i, p).on = FALSE /\ NewRow(i, p).secret = None
BY DEF NoRow, Row, NewRow

LEMMA InsertFacts ==
  ASSUME UsersTyped, NEW u \in Name, NEW i \in Identity \cup {None}, NEW p \in BOOLEAN,
         Insert(u, i, p)
  PROVE  /\ UsersTyped' /\ Taken(u)'
         /\ users'[u].sso = i /\ users'[u].on = FALSE
         /\ \A v \in Name \ {u} : users'[v] = users[v]
<1> DEFINE r == NewRow(i, p)
<1>1. r \in Row /\ r # NoRow /\ r.sso = i /\ r.on = FALSE
  BY RowFacts
<1>2. users' = [users EXCEPT ![u] = r]
  BY DEF Insert
<1> HIDE DEF r
<1> QED BY <1>1, <1>2 DEF UsersTyped, Taken

LEMMA InsertKeeps ==
  ASSUME UsersTyped, NEW u \in Name, NEW p \in BOOLEAN, ~Taken(u), Insert(u, None, p)
  PROVE  RowsKept
<1>1. None \in Identity \cup {None}
  OBVIOUS
<1> QED BY <1>1, InsertFacts DEF RowsKept

LEMMA SameRows ==
  ASSUME UsersTyped, users' = users PROVE RowsKept
BY DEF UsersTyped, RowsKept

LEMMA RowsStay ==
  ASSUME RowsKept PROVE \A u \in Name : Taken(u) => Taken(u)'
BY DEF RowsKept, Taken

-----------------------------------------------------------------------------
(* The starts                                                               *)

LEMMA RetryFacts ==
  ASSUME CallTyped, NEW c \in Call,
         call' = [call EXCEPT ![c].pc = "wait", ![c].n = @ + 1]
  PROVE  CallTyped' /\ Others(c) /\ call'[c].kind = call[c].kind /\ call'[c].pc = "wait"
         /\ call'[c].sso = call[c].sso
<1> DEFINE r == [call[c] EXCEPT !.pc = "wait", !.n = call[c].n + 1]
<1>1. call' = [call EXCEPT ![c] = r]
  BY DEF CallTyped
<1>2. r \in CallRecord /\ r.kind = call[c].kind /\ r.pc = "wait" /\ r.sso = call[c].sso
  BY DEF CallTyped, CallRecord, Place
<1> HIDE DEF r
<1> QED BY <1>1, <1>2 DEF CallTyped, Others

StartTyped ==
  /\ lock \in Call \cup {None} /\ schema \in {"none", "new", "used"}
  /\ lost \in BOOLEAN /\ unseeded \subseteq Call

LEMMA TypeParts ==
  TypeOK <=> /\ UsersTyped /\ CallTyped /\ StartTyped
             /\ counter \in [Key -> Nat] /\ events \in [Key -> Nat]
             /\ disturbed \subseteq Topic /\ locked \subseteq Key /\ verified \subseteq Secret
             /\ evicted \subseteq Key
BY Zenon DEF TypeOK, UsersTyped, CallTyped, CallRecord, StartTyped

(* A start's step touches its own call, the lock, the schema and no row's   *)
(* identity or second factor.                                               *)
LEMMA StartFrame ==
  ASSUME TypeOK, NEW c \in Call, RowInv(c), StartStep(c)
  PROVE  /\ CallTyped' /\ Others(c) /\ StartTyped' /\ RowsKept
         /\ UNCHANGED <<counter, events>>
         /\ call[c].kind = "start"
         /\ call'[c].kind \in {"start", "none"}
<1> DEFINE Goal == /\ CallTyped' /\ Others(c) /\ StartTyped' /\ RowsKept
                   /\ UNCHANGED <<counter, events>>
                   /\ call[c].kind = "start"
                   /\ call'[c].kind \in {"start", "none"}
<1>1. UsersTyped /\ CallTyped /\ StartTyped /\ Admin \in Name /\ Demo \in Name
  BY TypeParts, NameAssumption
<1> USE DEF startVars, At, SameWork
<1>2. CASE Lock(c)
  BY <1>1, <1>2, MoveFacts, SameRows DEF Lock, StartTyped, Place
<1>3. CASE Upgrade(c)
  BY <1>1, <1>3, MoveFacts, SameRows DEF Upgrade, StartTyped, Place
<1>4. CASE Unlock(c)
  BY <1>1, <1>4, MoveFacts, SameRows DEF Unlock, StartTyped, Place, Seeding
<1>5. CASE Retry(c)
  BY <1>1, <1>5, RetryFacts, EndFacts, SameRows DEF Retry, Release, StartTyped
<1>6. CASE GiveUp(c)
  BY <1>1, <1>6, EndFacts, SameRows DEF GiveUp, Migrating, Release, StartTyped
<1>7. CASE LookForAdmin(c)
  BY <1>1, <1>7, MoveFacts, SameRows DEF LookForAdmin, StartTyped, Place, Seeding
<1>8. CASE InsertAdmin(c)
  BY <1>1, <1>8, MoveFacts, SameRows, InsertKeeps DEF InsertAdmin, StartTyped, Place, Seeding
<1>9. CASE LookForDemo(c)
  BY <1>1, <1>9, MoveFacts, SameRows DEF LookForDemo, StartTyped, Place, Seeding
<1>10. CASE InsertDemo(c)
  BY <1>1, <1>10, MoveFacts, SameRows, InsertKeeps DEF InsertDemo, StartTyped, Place
<1>11. CASE SyncDemo(c)
  <2>1. Taken(Demo)
    BY <1>11 DEF SyncDemo, RowInv
  <2>2. users[Demo] \in Row /\ users' = [users EXCEPT ![Demo].password = TRUE]
    BY <2>1, <1>1, <1>11 DEF SyncDemo, UsersTyped, Taken
  <2> DEFINE r == [users[Demo] EXCEPT !.password = TRUE]
  <2>3. r \in Row /\ r.sso = users[Demo].sso /\ r.secret = users[Demo].secret
        /\ r.on = users[Demo].on
    BY <2>2 DEF Row
  <2>4. users' = [users EXCEPT ![Demo] = r]
    BY <2>2, <1>1 DEF UsersTyped
  <2>5. r # NoRow
    BY <2>3, RowFacts
  <2> HIDE DEF r
  <2>6. RowsKept
    BY <2>1, <2>3, <2>4, <2>5, <1>1 DEF RowsKept, UsersTyped, Taken
  <2> QED BY <2>6, <1>1, <1>11, MoveFacts DEF SyncDemo, StartTyped, Place
<1>12. CASE SeedFails(c)
  BY <1>1, <1>12, MoveFacts, SameRows DEF SeedFails, StartTyped, Place, Seeding
<1> QED BY <1>2, <1>3, <1>4, <1>5, <1>6, <1>7, <1>8, <1>9, <1>10, <1>11, <1>12 DEF StartStep

(* The starts go on as StartInv says, one after the other.                  *)
LEMMA StartsGoOn ==
  ASSUME TypeOK, NEW c \in Call, RowInv(c), LockInv, \A d \in Call : StartInv(d), StartStep(c)
  PROVE  LockInv' /\ \A d \in Call : StartInv(d)'
<1>1. /\ CallTyped /\ StartTyped /\ Admin \in Name
      /\ None \notin Call
  BY TypeParts, NameAssumption, AbsenceAssumption
<1>2. Others(c) /\ RowsKept /\ call[c].kind = "start"
  BY StartFrame
<1>3. Taken(Admin) => Taken(Admin)'
  BY <1>1, <1>2, RowsStay
<1>4. /\ schema # "none" => schema' # "none"
      /\ unseeded \subseteq unseeded' /\ \A d \in Call \ {c} : d \in unseeded' => d \in unseeded
      /\ lost' = lost
      /\ lock' = lock \/ lock = c \/ lock = None
  BY DEF StartStep, Lock, Upgrade, Unlock, Retry, GiveUp, LookForAdmin, InsertAdmin, LookForDemo,
         InsertDemo, SyncDemo, SeedFails, Release, startVars
<1>5. ASSUME NEW d \in Call \ {c} PROVE StartInv(d)'
  <2>1. StartInv(d) /\ call'[d] = call[d] /\ d # None
    BY <1>1, <1>2 DEF Others
  <2> QED BY <2>1, <1>1, <1>3, <1>4 DEF StartInv
<1>6. ASSUME lock' = None \/ (lock' = lock /\ (lock = c => Migrating(c)')) PROVE LockInv'
  <2>1. CASE lock' = c
    BY <2>1, <1>6, <1>1 DEF LockInv
  <2>2. CASE lock' # c /\ lock' # None
    <3>1. lock' \in Call \ {c} /\ Migrating(lock')
      BY <2>2, <1>1, <1>6 DEF StartTyped, LockInv
    <3> QED BY <3>1, <1>2 DEF LockInv, Migrating, Others
  <2> QED BY <2>1, <2>2 DEF LockInv
<1> USE DEF At, SameWork, startVars
<1>7. LockInv' /\ StartInv(c)'
  <2>1. CASE Lock(c)
    BY <2>1, <1>1, MoveFacts DEF Lock, StartInv, LockInv, Migrating, Seeding, Place
  <2>2. CASE Upgrade(c)
    <3>1. MoveTo(c, "index")
      BY <2>2 DEF Upgrade
    <3>2. call'[c].kind = "start" /\ call'[c].pc = "index"
      BY <3>1, <1>1, <1>2, MoveFacts DEF Place
    <3>3. schema' # "none" /\ (~lost' => lock' = c)
      BY <2>2 DEF Upgrade, StartInv
    <3>4. LockInv'
      BY <2>2, <3>2, <1>6 DEF Upgrade, Migrating
    <3> QED BY <3>2, <3>3, <3>4 DEF StartInv, Seeding
  <2>3. CASE Unlock(c)
    BY <2>3, <1>1, MoveFacts DEF Unlock, StartInv, LockInv, Migrating, Seeding, Place
  <2>4. CASE Retry(c)
    <3>1. call'[c].pc = "wait" \/ call'[c].kind = "none"
      BY <2>4, <1>1, RetryFacts, EndFacts DEF Retry
    <3>2. LockInv'
      BY <2>4, <1>1, <1>6 DEF Retry, Release
    <3> QED BY <3>1, <3>2 DEF StartInv, Seeding
  <2>5. CASE GiveUp(c)
    <3>1. call'[c].kind = "none"
      BY <2>5, <1>1, EndFacts DEF GiveUp
    <3>2. LockInv'
      BY <2>5, <1>1, <1>6 DEF GiveUp, Release
    <3> QED BY <3>1, <3>2 DEF StartInv
  <2>6. CASE \/ LookForAdmin(c) \/ InsertAdmin(c) \/ LookForDemo(c)
             \/ InsertDemo(c) \/ SyncDemo(c) \/ SeedFails(c)
    <3>1. call[c].pc \in Seeding /\ lock' = lock /\ schema' = schema
      BY <2>6 DEF LookForAdmin, InsertAdmin, LookForDemo, InsertDemo, SyncDemo, SeedFails, Seeding
    <3>2. /\ call'[c].kind = "start" /\ call'[c].pc \in Seeding \cup {"up"}
          /\ call'[c].pc \in {"demo", "insertDemo", "syncDemo", "up"} /\ c \notin unseeded' =>
               \/ call[c].pc \in {"demo", "insertDemo", "syncDemo"}
               \/ Taken(Admin)'
      <4>1. CASE LookForAdmin(c)
        BY <4>1, <1>1, <1>3, MoveFacts DEF LookForAdmin, Seeding, Place
      <4>2. CASE InsertAdmin(c)
        <5>1. Taken(Admin)'
          BY <4>2, <1>1, <1>3, InsertFacts, TypeParts DEF InsertAdmin
        <5> QED BY <4>2, <5>1, <1>1, MoveFacts DEF InsertAdmin, Seeding, Place
      <4>3. CASE LookForDemo(c)
        BY <4>3, <1>1, MoveFacts DEF LookForDemo, Seeding, Place
      <4>4. CASE InsertDemo(c)
        BY <4>4, <1>1, MoveFacts DEF InsertDemo, Seeding, Place
      <4>5. CASE SyncDemo(c)
        BY <4>5, <1>1, MoveFacts DEF SyncDemo, Seeding, Place
      <4>6. CASE SeedFails(c)
        BY <4>6, <1>1, MoveFacts DEF SeedFails, Seeding, Place
      <4> QED BY <2>6, <4>1, <4>2, <4>3, <4>4, <4>5, <4>6
    <3>3. StartInv(c)'
      BY <3>1, <3>2, <1>2, <1>3, <1>4 DEF StartInv, Seeding
    <3>4. LockInv'
      <4>1. ~Migrating(c)
        BY <3>1 DEF Migrating, Seeding
      <4> QED BY <3>1, <4>1, <1>1, <1>6 DEF LockInv
    <3> QED BY <3>3, <3>4
  <2> QED BY <2>1, <2>2, <2>3, <2>4, <2>5, <2>6 DEF StartStep
<1> QED BY <1>5, <1>7

-----------------------------------------------------------------------------
(* The other calls                                                          *)

CountsTyped == counter \in [Key -> Nat] /\ events \in [Key -> Nat]

\* Only the counts of k change.
CountsBut(k) ==
  /\ CountsTyped'
  /\ \A j \in Key \ {k} : counter'[j] = counter[j] /\ events'[j] = events[j]

LEMMA WriteCountFacts ==
  ASSUME CountsTyped, CallTyped, NEW c \in Call, NEW k \in Key, WriteCount(c, k), UNCHANGED events
  PROVE  CountsBut(k) /\ counter'[k] = call[c].n + 1
BY DEF CountsTyped, CallTyped, CallRecord, WriteCount, CountsBut

LEMMA HappensFacts ==
  ASSUME CountsTyped, NEW k \in Key, Happens(k), UNCHANGED counter
  PROVE  CountsBut(k) /\ events'[k] = events[k] + 1
BY DEF CountsTyped, Happens, CountsBut

LEMMA SameCounts ==
  ASSUME CountsTyped, UNCHANGED <<counter, events>> PROVE \A k : CountsBut(k)
BY DEF CountsTyped, CountsBut

(* Registrations and messages of a channel.                                 *)
LEMMA RegisterFrame ==
  ASSUME TypeOK, NEW c \in Call,
         Lookup(c) \/ Create(c) \/ ReadRegistered(c) \/ WriteRegistered(c)
  PROVE  /\ CallTyped' /\ Others(c) /\ RowsKept /\ CountsBut(Hour(call[c].store))
         /\ call[c].kind \in {"register", "channel"}
         /\ call'[c].kind \in {"register", "channel", "none"}
         /\ call'[c].kind = "register" => call'[c].store = call[c].store
<1> DEFINE s == call[c].store
<1>1. UsersTyped /\ CallTyped /\ CountsTyped /\ call[c].name \in Name /\ s \in Store
  BY TypeParts DEF CountsTyped, CallTyped, CallRecord
<1>2. Hour(s) \in Key /\ counter[Hour(s)] \in Nat
  BY <1>1, KeyFacts DEF CountsTyped
<1> HIDE DEF s
<1> USE DEF At, SameWork
<1>3. CASE Lookup(c)
  BY <1>1, <1>3, MoveFacts, EndFacts, SameRows, SameCounts DEF Lookup, Place
<1>4. CASE Create(c)
  <2>1. CASE Taken(call[c].name)
    BY <2>1, <1>1, <1>4, EndFacts, SameRows, SameCounts DEF Create
  <2>2. CASE ~Taken(call[c].name)
    <3>1. RowsKept
      BY <2>2, <1>1, <1>4, InsertKeeps DEF Create
    <3>2. CountsBut(Hour(s))
      BY <2>2, <1>1, <1>2, <1>4, HappensFacts, SameCounts DEF Create, s
    <3> QED BY <2>2, <3>1, <3>2, <1>1, <1>4, MoveFacts, EndFacts DEF Create, Place, s
  <2> QED BY <2>1, <2>2
<1>5. CASE ReadRegistered(c)
  BY <1>1, <1>2, <1>5, ReadFacts, SameRows, SameCounts DEF ReadRegistered, s
<1>6. CASE WriteRegistered(c)
  BY <1>1, <1>2, <1>6, EndFacts, WriteCountFacts, SameRows DEF WriteRegistered, s
<1> QED BY <1>3, <1>4, <1>5, <1>6

\* A step that writes no second factor into a row that is there.
FactorsKept ==
  /\ UsersTyped'
  /\ \A u \in Name :
       \/ users'[u] = users[u]
       \/ ~Taken(u) /\ Taken(u)' /\ users'[u].on = FALSE
       \/ /\ Taken(u) /\ Taken(u)'
          /\ users'[u].secret = users[u].secret /\ users'[u].on = users[u].on

IdentitiesKept == \A i \in Identity : Rows(i)' = Rows(i)

LEMMA RowsKeptParts ==
  ASSUME RowsKept PROVE FactorsKept /\ IdentitiesKept
<1>1. FactorsKept
  BY DEF RowsKept, FactorsKept
<1>2. ASSUME NEW i \in Identity, NEW u \in Name PROVE u \in Rows(i)' <=> u \in Rows(i)
  BY AbsenceAssumption DEF RowsKept, Rows, Taken
<1>3. ASSUME NEW i \in Identity PROVE Rows(i)' = Rows(i)
  <2>1. Rows(i) \subseteq Name /\ Rows(i)' \subseteq Name
    BY DEF Rows
  <2> QED BY <2>1, <1>2
<1> QED BY <1>1, <1>3 DEF IdentitiesKept

(* The sign-ins of an identity provider.                                    *)
LEMMA SsoFrame ==
  ASSUME TypeOK, NEW c \in Call, RowInv(c),
         Exchange(c) \/ ExchangeFails(c) \/ SsoLookup(c) \/ SsoTryName(c) \/ SsoCreate(c)
  PROVE  /\ CallTyped' /\ Others(c) /\ FactorsKept /\ UNCHANGED <<counter, events>>
         /\ call[c].kind = "sso"
         /\ call'[c].kind \in {"sso", "none"}
         /\ call'[c].kind = "sso" => call'[c].sso = call[c].sso
<1>1. UsersTyped /\ CallTyped /\ call[c].name \in Name
  BY TypeParts DEF CallTyped, CallRecord
<1>2. UNCHANGED users => FactorsKept
  BY <1>1 DEF FactorsKept, UsersTyped
<1> USE DEF At, SameWork
<1>3. CASE Exchange(c)
  BY <1>1, <1>2, <1>3, MoveFacts DEF Exchange, Place
<1>4. CASE ExchangeFails(c)
  BY <1>1, <1>2, <1>4, EndFacts DEF ExchangeFails
<1>5. CASE SsoLookup(c)
  BY <1>1, <1>2, <1>5, MoveFacts, EndFacts DEF SsoLookup, Place
<1>6. CASE SsoTryName(c)
  <2>1. CASE MoveTo(c, "create")
    BY <2>1, <1>1, <1>2, <1>6, MoveFacts DEF SsoTryName, Place
  <2>2. CASE ~MoveTo(c, "create")
    <3> DEFINE v == NextName[call[c].name]
    <3>1. v \in Name /\ call' = [call EXCEPT ![c].name = v] /\ UNCHANGED users
      BY <2>2, <1>1, <1>6, NameAssumption DEF SsoTryName
    <3> HIDE DEF v
    <3>2. /\ CallTyped' /\ Others(c)
          /\ call'[c].kind = call[c].kind /\ call'[c].sso = call[c].sso
      BY <3>1, <1>1 DEF CallTyped, CallRecord, Others
    <3> QED BY <3>1, <3>2, <1>2, <1>6 DEF SsoTryName
  <2> QED BY <2>1, <2>2
<1>7. CASE SsoCreate(c)
  <2>1. FactorsKept
    <3>1. call[c].sso \in Identity \cup {None}
      BY <1>1 DEF CallTyped, CallRecord
    <3>2. CASE Taken(call[c].name)
      BY <3>2, <1>2, <1>7 DEF SsoCreate
    <3>3. CASE ~Taken(call[c].name)
      <4>1. Insert(call[c].name, call[c].sso, FALSE)
        BY <3>3, <1>7 DEF SsoCreate
      <4> QED BY <3>1, <3>3, <4>1, <1>1, InsertFacts DEF FactorsKept
    <3> QED BY <3>2, <3>3
  <2> QED BY <2>1, <1>1, <1>7, EndFacts DEF SsoCreate
<1> QED BY <1>3, <1>4, <1>5, <1>6, <1>7

(* The logins.                                                              *)
LoginStep(c) ==
  \/ AdminPassword(c) \/ Password(c) \/ WrongPassword(c)
  \/ ReadFailures(c) \/ WriteFailures(c)
  \/ Reset(c) \/ AdminReset(c) \/ AdminLookup(c) \/ AdminCreate(c)
  \/ AskForFactor(c) \/ LoginCode(c)

LEMMA ForgetFacts ==
  ASSUME CountsTyped, NEW k \in Key, Forget(k), locked \subseteq Key
  PROVE  /\ CountsBut(k) /\ counter'[k] = 0 /\ events'[k] = 0
         /\ locked' \subseteq Key /\ locked' = locked \ {k}
BY DEF CountsTyped, Forget, CountsBut

LEMMA LoginFrame ==
  ASSUME TypeOK, NEW c \in Call, LoginStep(c)
  PROVE  /\ CallTyped' /\ Others(c) /\ RowsKept
         /\ CountsBut(Logins(call[c].store, call[c].name))
         /\ call[c].kind = "login"
         /\ call'[c].kind \in {"login", "none"}
         /\ call'[c].kind = "login" =>
              call'[c].name = call[c].name /\ call'[c].store = call[c].store
         /\ locked' \subseteq Key /\ UNCHANGED verified
         /\ locked' \ {Logins(call[c].store, call[c].name)}
              = locked \ {Logins(call[c].store, call[c].name)}
<1> DEFINE k == Logins(call[c].store, call[c].name)
<1>1. /\ UsersTyped /\ CallTyped /\ CountsTyped
      /\ call[c].name \in Name /\ call[c].store \in Store /\ Admin \in Name
      /\ locked \subseteq Key
  BY TypeParts, NameAssumption DEF CountsTyped, CallTyped, CallRecord
<1>2. k \in Key /\ counter[k] \in Nat
  BY <1>1, KeyFacts DEF CountsTyped
<1> HIDE DEF k
<1> USE DEF At, SameWork, signVars
<1>3. CASE AdminPassword(c)
  BY <1>1, <1>3, MoveFacts, SameRows, SameCounts DEF AdminPassword, Place
<1>4. CASE Password(c)
  BY <1>1, <1>4, MoveFacts, EndFacts, SameRows, SameCounts DEF Password, Place
<1>5. CASE WrongPassword(c)
  BY <1>1, <1>2, <1>5, MoveFacts, SameRows, HappensFacts DEF WrongPassword, Place, k
<1>6. CASE ReadFailures(c)
  BY <1>1, <1>2, <1>6, ReadFacts, SameRows, SameCounts DEF ReadFailures, k
<1>7. CASE WriteFailures(c)
  BY <1>1, <1>2, <1>7, EndFacts, WriteCountFacts, SameRows DEF WriteFailures, k
<1>8. CASE Reset(c)
  BY <1>1, <1>2, <1>8, MoveFacts, ForgetFacts, SameRows DEF Reset, Place, k
<1>9. CASE AdminReset(c)
  BY <1>1, <1>2, <1>9, MoveFacts, ForgetFacts, SameRows DEF AdminReset, Place, k
<1>10. CASE AdminLookup(c)
  BY <1>1, <1>10, MoveFacts, SameRows, SameCounts DEF AdminLookup, Place
<1>11. CASE AdminCreate(c)
  BY <1>1, <1>11, MoveFacts, EndFacts, SameRows, SameCounts, InsertKeeps DEF AdminCreate, Place
<1>12. CASE AskForFactor(c)
  BY <1>1, <1>12, MoveFacts, EndFacts, SameRows, SameCounts DEF AskForFactor, Place
<1>13. CASE LoginCode(c)
  BY <1>1, <1>13, EndFacts, SameRows, SameCounts DEF LoginCode
<1> QED BY <1>3, <1>4, <1>5, <1>6, <1>7, <1>8, <1>9, <1>10, <1>11, <1>12, <1>13 DEF LoginStep, k

(* The second factor.                                                       *)
FactorStep(c) ==
  \/ WriteSetUp(c) \/ WriteRate(c) \/ RightCode(c) \/ WrongCode(c)
  \/ Load(c) \/ WriteEnable(c) \/ WriteDisable(c)

\* Of the rows only u's changes, and not its identity.
RowsBut(u) ==
  /\ UsersTyped' /\ users'[u] # NoRow /\ users'[u].sso = users[u].sso
  /\ \A v \in Name \ {u} : users'[v] = users[v]

\* What a step of the second factor writes into the row.
LEMMA WriteRowFacts ==
  ASSUME UsersTyped, NEW u \in Name, Taken(u), NEW x \in Secret \cup {None}, NEW y \in BOOLEAN,
         users' = [users EXCEPT ![u] = [users[u] EXCEPT !.secret = x, !.on = y]]
  PROVE  RowsBut(u) /\ users'[u].secret = x /\ users'[u].on = y
<1> DEFINE r == [users[u] EXCEPT !.secret = x, !.on = y]
<1>1. users[u] \in Row
  BY DEF UsersTyped, Taken
<1>2. r \in Row /\ r.sso = users[u].sso /\ r.secret = x /\ r.on = y
  BY <1>1 DEF Row
<1>3. r # NoRow
  BY <1>2, RowFacts
<1> HIDE DEF r
<1>4. users' = [users EXCEPT ![u] = r]
  BY DEF r
<1> QED BY <1>2, <1>3, <1>4 DEF RowsBut, UsersTyped, Taken

LEMMA SetUpFacts ==
  ASSUME UsersTyped, CallTyped, NEW c \in Call, Taken(call[c].name), WriteSetUp(c)
  PROVE  /\ RowsBut(call[c].name)
         /\ users'[call[c].name].secret = c
         /\ users'[call[c].name].on = IF call[c].on THEN FALSE ELSE users[call[c].name].on
<1> DEFINE u == call[c].name
           y == IF call[c].on THEN FALSE ELSE users[u].on
<1>1. u \in Name /\ users[u] \in Row /\ c \in Secret \cup {None} /\ call[c].on \in BOOLEAN
  BY DEF CallTyped, CallRecord, UsersTyped, Taken, Secret
<1>2. y \in BOOLEAN
  BY <1>1 DEF Row
<1>3. users' = [users EXCEPT ![u] = [users[u] EXCEPT !.secret = c, !.on = y]]
  BY <1>1 DEF WriteSetUp, UsersTyped
<1> HIDE DEF u, y
<1> QED BY <1>1, <1>2, <1>3, WriteRowFacts DEF u, y

LEMMA EnableFacts ==
  ASSUME UsersTyped, CallTyped, NEW c \in Call, Taken(call[c].name), WriteEnable(c)
  PROVE  /\ RowsBut(call[c].name)
         /\ users'[call[c].name].secret = users[call[c].name].secret
<1> DEFINE u == call[c].name
           x == users[u].secret
           y == IF call[c].on THEN users[u].on ELSE TRUE
<1>1. u \in Name /\ users[u] \in Row
  BY DEF CallTyped, CallRecord, UsersTyped, Taken
<1>2. x \in Secret \cup {None} /\ y \in BOOLEAN
  BY <1>1 DEF Row
<1>3. users' = [users EXCEPT ![u] = [users[u] EXCEPT !.secret = x, !.on = y]]
  BY <1>1 DEF WriteEnable, UsersTyped, Row
<1> HIDE DEF u, x, y
<1> QED BY <1>1, <1>2, <1>3, WriteRowFacts DEF u, x

LEMMA DisableFacts ==
  ASSUME UsersTyped, CallTyped, NEW c \in Call, Taken(call[c].name), WriteDisable(c)
  PROVE  /\ RowsBut(call[c].name)
         /\ users'[call[c].name].on = IF call[c].on THEN FALSE ELSE users[call[c].name].on
<1> DEFINE u == call[c].name
           x == IF call[c].secret = None THEN users[u].secret ELSE None
           y == IF call[c].on THEN FALSE ELSE users[u].on
<1>1. u \in Name /\ users[u] \in Row
  BY DEF CallTyped, CallRecord, UsersTyped, Taken
<1>2. x \in Secret \cup {None} /\ y \in BOOLEAN
  BY <1>1 DEF Row
<1>3. users' = [users EXCEPT ![u] = [users[u] EXCEPT !.secret = x, !.on = y]]
  BY <1>1 DEF WriteDisable, UsersTyped
<1> HIDE DEF u, x, y
<1> QED BY <1>1, <1>2, <1>3, WriteRowFacts DEF u, y

LEMMA LoadFacts ==
  ASSUME UsersTyped, CallTyped, NEW c \in Call, Taken(call[c].name), Load(c)
  PROVE  /\ CallTyped' /\ Others(c)
         /\ call'[c].kind = call[c].kind /\ call'[c].pc = "write"
         /\ call'[c].store = call[c].store /\ call'[c].name = call[c].name
         /\ call'[c].secret = users[call[c].name].secret
         /\ call'[c].on = users[call[c].name].on
<1> DEFINE u == call[c].name
           w == users[u]
           r == [call[c] EXCEPT !.pc = "write", !.secret = w.secret, !.on = w.on]
<1>1. w \in Row
  BY DEF CallTyped, CallRecord, UsersTyped, Taken
<1>2. call' = [call EXCEPT ![c] = r]
  BY DEF Load, CallTyped
<1> HIDE DEF w
<1>3. /\ r \in CallRecord /\ r.kind = call[c].kind /\ r.pc = "write" /\ r.name = u
      /\ r.store = call[c].store /\ r.secret = w.secret /\ r.on = w.on
  BY ZenonT(40), <1>1 DEF CallTyped, CallRecord, Place, Row
<1> HIDE DEF r
<1> QED BY <1>2, <1>3 DEF CallTyped, Others, w

LEMMA FactorFrame ==
  ASSUME TypeOK, NEW c \in Call, RowInv(c), FactorStep(c)
  PROVE  /\ CallTyped' /\ Others(c)
         /\ RowsBut(call[c].name) /\ CountsBut(Codes(call[c].store, call[c].name))
         /\ call[c].kind \in SecondFactor
         /\ call'[c].kind \in SecondFactor \cup {"none"}
         /\ call'[c].kind \in SecondFactor =>
              call'[c].name = call[c].name /\ call'[c].store = call[c].store
         /\ verified \subseteq verified' /\ verified' \subseteq Secret /\ locked' = locked
<1> DEFINE u == call[c].name
           k == Codes(call[c].store, call[c].name)
<1>1. /\ UsersTyped /\ CallTyped /\ CountsTyped /\ u \in Name /\ verified \subseteq Secret
  BY TypeParts DEF CountsTyped, CallTyped, CallRecord
<1>2. k \in Key
  BY <1>1, KeyFacts DEF CallTyped, CallRecord
<1>3. Taken(u)
  BY DEF FactorStep, WriteSetUp, WriteRate, RightCode, WrongCode, Load, WriteEnable, WriteDisable,
         At, RowInv, SecondFactor
<1>4. ASSUME UNCHANGED users PROVE RowsBut(u)
  BY <1>1, <1>3, <1>4 DEF RowsBut, UsersTyped, Taken
<1> HIDE DEF u, k
<1> USE DEF At, SameWork, signVars
<1>5. CASE WriteSetUp(c)
  BY <1>1, <1>3, <1>5, EndFacts, SameCounts, SetUpFacts DEF WriteSetUp, SecondFactor, u, k
<1>6. CASE WriteRate(c)
  BY <1>1, <1>2, <1>4, <1>6, MoveFacts, WriteCountFacts DEF WriteRate, Place, SecondFactor, u, k
<1>7. CASE RightCode(c)
  <2>1. CountsBut(k)
    BY <1>1, <1>2, <1>7, HappensFacts DEF RightCode, k
  <2>2. verified \subseteq verified' /\ verified' \subseteq Secret
    <3>1. users[u].secret \in Secret
      BY <1>1, <1>3, <1>7 DEF RightCode, UsersTyped, Taken, Row, u
    <3> QED BY <3>1, <1>1, <1>7 DEF RightCode, u
  <2> QED BY <2>1, <2>2, <1>1, <1>4, <1>7, MoveFacts, EndFacts DEF RightCode, Place, SecondFactor, u, k
<1>8. CASE WrongCode(c)
  BY <1>1, <1>2, <1>4, <1>8, EndFacts, HappensFacts DEF WrongCode, SecondFactor, u, k
<1>9. CASE Load(c)
  BY <1>1, <1>3, <1>4, <1>9, LoadFacts, SameCounts DEF Load, SecondFactor, u, k
<1>10. CASE WriteEnable(c)
  BY <1>1, <1>3, <1>10, EndFacts, SameCounts, EnableFacts DEF WriteEnable, SecondFactor, u, k
<1>11. CASE WriteDisable(c)
  BY <1>1, <1>3, <1>11, EndFacts, SameCounts, DisableFacts DEF WriteDisable, SecondFactor, u, k
<1> QED BY <1>5, <1>6, <1>7, <1>8, <1>9, <1>10, <1>11 DEF FactorStep, u, k

(* A call begins.                                                           *)

\* What the record of a call that begins holds.
Begun(c) ==
  \/ call'[c].kind = "start" /\ call'[c].pc = "wait"
  \/ /\ call'[c].kind = "register" /\ call'[c].pc = "lookup"
     /\ counter[Hour(call'[c].store)] < MaxRegister
  \/ call'[c].kind = "channel"
  \/ call'[c].kind = "sso" /\ call'[c].pc = "exchange" /\ call'[c].sso \in Identity
  \/ /\ call'[c].kind = "login" /\ call'[c].pc = "password"
     /\ Logins(call'[c].store, call'[c].name) \notin locked
  \/ /\ call'[c].kind = "setup" /\ call'[c].pc = "write" /\ Taken(call'[c].name)
     /\ call'[c].secret = users[call'[c].name].secret /\ call'[c].on = users[call'[c].name].on
  \/ /\ call'[c].kind \in SecondFactor \ {"setup"} /\ call'[c].pc = "count" /\ Taken(call'[c].name)
     /\ call'[c].n = counter[Codes(call'[c].store, call'[c].name)] /\ call'[c].n < MaxCodes

LEMMA BeginFrame ==
  ASSUME TypeOK, NEW c \in Call, Begins(c)
  PROVE  /\ CallTyped' /\ Others(c) /\ call[c].pc = "idle" /\ Begun(c)
         /\ UNCHANGED <<users, counter, events, startVars, signVars, evicted>>
<1> DEFINE Goal == CallTyped' /\ Others(c) /\ call[c].pc = "idle" /\ Begun(c)
<1>1. /\ UsersTyped /\ CallTyped /\ CountsTyped /\ AnyStore \in Store
      /\ Admin \in Name /\ Asked \subseteq Name /\ SsoName \subseteq Name
  BY TypeParts, NameAssumption, AnyStoreTyped DEF CountsTyped
<1>2. UNCHANGED <<users, counter, events, startVars, signVars, evicted>>
  BY DEF Begins, Start, AccountBegins, Register, Channel, SsoCallback, SignBegins, Login, SetUp,
         CheckRate
<1>3. CASE Start(c)
  <2>1. Begin(c, "start", AnyStore, Admin, None, "wait")
    BY <1>3 DEF Start
  <2>2. CallTyped' /\ Others(c) /\ call[c].pc = "idle" /\ call'[c].kind = "start" /\ call'[c].pc = "wait"
    BY <2>1, <1>1, BeginFacts DEF Place
  <2> QED BY <2>2, <1>2 DEF Begun
<1>4. ASSUME NEW u \in Asked, NEW s \in Store, Register(c, s, u) PROVE Goal
  <2>1. Begin(c, "register", s, u, None, "lookup") /\ counter[Hour(s)] < MaxRegister
    BY <1>4 DEF Register
  <2>2. /\ CallTyped' /\ Others(c) /\ call[c].pc = "idle"
        /\ call'[c].kind = "register" /\ call'[c].pc = "lookup" /\ call'[c].store = s
    BY <2>1, <1>1, BeginFacts DEF Place
  <2> QED BY <2>1, <2>2 DEF Begun
<1>5. ASSUME NEW u \in Asked, Channel(c, u) PROVE Goal
  <2>1. Begin(c, "channel", AnyStore, u, None, "lookup")
    BY <1>5 DEF Channel
  <2>2. CallTyped' /\ Others(c) /\ call[c].pc = "idle" /\ call'[c].kind = "channel"
    BY <2>1, <1>1, BeginFacts DEF Place
  <2> QED BY <2>2 DEF Begun
<1>6. ASSUME NEW u \in SsoName, NEW i \in Identity, SsoCallback(c, u, i) PROVE Goal
  <2>1. Begin(c, "sso", AnyStore, u, i, "exchange")
    BY <1>6 DEF SsoCallback
  <2>2. /\ CallTyped' /\ Others(c) /\ call[c].pc = "idle"
        /\ call'[c].kind = "sso" /\ call'[c].pc = "exchange" /\ call'[c].sso = i
    BY <2>1, <1>1, BeginFacts DEF Place
  <2> QED BY <2>2 DEF Begun
<1>7. ASSUME NEW u \in Asked, NEW s \in Store, Login(c, s, u) PROVE Goal
  <2>1. Begin(c, "login", s, u, None, "password") /\ Logins(s, u) \notin locked
    BY <1>7 DEF Login
  <2>2. /\ CallTyped' /\ Others(c) /\ call[c].pc = "idle"
        /\ call'[c].kind = "login" /\ call'[c].pc = "password"
        /\ call'[c].store = s /\ call'[c].name = u
    <3>1. u \in Name /\ "password" \in Place
      BY <1>1 DEF Place
    <3> QED BY <2>1, <3>1, <1>1, BeginFacts
  <2> QED BY <2>1, <2>2 DEF Begun
<1>8. ASSUME NEW u \in Asked, SetUp(c, u) PROVE Goal
  <2> DEFINE w == users[u]
             r == [Idle EXCEPT !.kind = "setup", !.pc = "write", !.name = u,
                               !.secret = w.secret, !.on = w.on]
  <2>1. w \in Row /\ u \in Name
    BY <1>1, <1>8 DEF SetUp, UsersTyped, Taken
  <2>2. call[c].pc = "idle" /\ Taken(u) /\ call' = [call EXCEPT ![c] = r]
    BY <1>8 DEF SetUp
  <2> HIDE DEF w
  <2>3. /\ r \in CallRecord /\ r.kind = "setup" /\ r.pc = "write" /\ r.name = u
        /\ r.secret = w.secret /\ r.on = w.on
    BY <2>1, IdleTyped DEF Idle, CallRecord, Place, Row, SecondFactor
  <2> HIDE DEF r
  <2> QED BY <2>2, <2>3, <1>1 DEF Begun, CallTyped, Others, w
<1>9. ASSUME NEW u \in Asked, NEW s \in Store, NEW k \in SecondFactor, CheckRate(c, k, s, u)
      PROVE  Goal
  <2> DEFINE m == counter[Codes(s, u)]
             r == [Idle EXCEPT !.kind = k, !.pc = "count", !.store = s, !.name = u, !.n = m]
  <2>1. m \in Nat /\ u \in Name
    BY <1>1, KeyFacts DEF CountsTyped
  <2>2. /\ call[c].pc = "idle" /\ Taken(u) /\ k # "setup" /\ m < MaxCodes
        /\ call' = [call EXCEPT ![c] = r]
    BY <1>9 DEF CheckRate
  <2> HIDE DEF m
  <2>3. r \in CallRecord /\ r.kind = k /\ r.pc = "count" /\ r.store = s /\ r.name = u /\ r.n = m
    BY <2>1, IdleTyped DEF Idle, CallRecord, Place
  <2> HIDE DEF r
  <2> QED BY <2>2, <2>3, <1>1 DEF Begun, CallTyped, Others, m
<1> QED BY <1>2, <1>3, <1>4, <1>5, <1>6, <1>7, <1>8, <1>9
        DEF Begins, AccountBegins, SignBegins

-----------------------------------------------------------------------------
(* Nobody else is at work on what is not disturbed                          *)

LEMMA TopicsStay ==
  ASSUME NEW d \in Call, call'[d] = call[d] PROVE Topics(d)' = Topics(d)
BY DEF Topics

LEMMA NoticeFacts ==
  ASSUME Exclusive, NEW c \in Call, Others(c), Notice(c)
  PROVE  disturbed \subseteq disturbed' /\ Exclusive'
<1>1. disturbed' = disturbed \cup (Topics(c)' \cap UNION {Topics(d)' : d \in Call \ {c}})
  BY DEF Notice
<1>2. ASSUME NEW d \in Call \ {c} PROVE Topics(c)' \cap Topics(d)' \subseteq disturbed'
  BY <1>1
<1>3. ASSUME NEW d \in Call \ {c}, NEW e \in Call \ {c}, d # e
      PROVE  Topics(d)' \cap Topics(e)' \subseteq disturbed'
  <2>1. Topics(d)' = Topics(d) /\ Topics(e)' = Topics(e)
    BY TopicsStay DEF Others
  <2> QED BY <2>1, <1>1, <1>3 DEF Exclusive
<1>4. ASSUME NEW d \in Call, NEW e \in Call, d # e PROVE Topics(d)' \cap Topics(e)' \subseteq disturbed'
  <2>1. CASE d = c
    BY <1>2, <1>4, <2>1
  <2>2. CASE e = c
    BY <1>2, <1>4, <2>2
  <2> QED BY <1>3, <1>4, <2>1, <2>2
<1> QED BY <1>1, <1>4 DEF Exclusive

LEMMA NoticeTyped ==
  ASSUME NEW c \in Call, Notice(c), disturbed \subseteq Topic, Topics(c)' \subseteq Topic
  PROVE  disturbed' \subseteq Topic
BY DEF Notice

LEMMA Alone ==
  ASSUME Exclusive, NEW c \in Call, NEW d \in Call, c # d
  PROVE  /\ \A s \in Store : Registers(c, s) /\ Registers(d, s) => Hour(s) \in disturbed
         /\ \A i \in Identity : SignsUp(c, i) /\ SignsUp(d, i) => Sso(i) \in disturbed
         /\ \A u \in Name : Edits(c, u) /\ Edits(d, u) => Factor(u) \in disturbed
         /\ \A s \in Store, u \in Name :
              /\ LogsIn(c, s, u) /\ LogsIn(d, s, u) => Logins(s, u) \in disturbed
              /\ GivesCode(c, s, u) /\ GivesCode(d, s, u) => Codes(s, u) \in disturbed
BY TopicFacts DEF Exclusive

LEMMA AloneNext ==
  ASSUME Exclusive', NEW c \in Call, NEW d \in Call, c # d
  PROVE  /\ \A s \in Store : Registers(c, s)' /\ Registers(d, s)' => Hour(s) \in disturbed'
         /\ \A i \in Identity : SignsUp(c, i)' /\ SignsUp(d, i)' => Sso(i) \in disturbed'
         /\ \A u \in Name : Edits(c, u)' /\ Edits(d, u)' => Factor(u) \in disturbed'
         /\ \A s \in Store, u \in Name :
              /\ LogsIn(c, s, u)' /\ LogsIn(d, s, u)' => Logins(s, u) \in disturbed'
              /\ GivesCode(c, s, u)' /\ GivesCode(d, s, u)' => Codes(s, u) \in disturbed'
BY TopicFactsNext DEF Exclusive

-----------------------------------------------------------------------------
(* Steps that leave a part of the invariant alone                           *)

LEMMA HourQuiet ==
  ASSUME NEW s \in Store, HourInv(s), NEW c \in Call, Others(c),
         disturbed \subseteq disturbed', UNCHANGED evicted,
         counter'[Hour(s)] = counter[Hour(s)], events'[Hour(s)] = events[Hour(s)],
         ~Registers(c, s)', Registers(c, s) => Hour(s) \in disturbed'
  PROVE  HourInv(s)'
BY DEF HourInv, Kept, Others, Registers

LEMMA CodesQuiet ==
  ASSUME NEW s \in Store, NEW u \in Name, CodesInv(s, u), NEW c \in Call, Others(c),
         disturbed \subseteq disturbed', UNCHANGED evicted,
         counter'[Codes(s, u)] = counter[Codes(s, u)], events'[Codes(s, u)] = events[Codes(s, u)],
         ~GivesCode(c, s, u)', GivesCode(c, s, u) => Codes(s, u) \in disturbed'
  PROVE  CodesInv(s, u)'
BY DEF CodesInv, Kept, Others, GivesCode

LEMMA LoginsQuiet ==
  ASSUME NEW s \in Store, NEW u \in Name, LoginsInv(s, u), NEW c \in Call, Others(c),
         disturbed \subseteq disturbed', UNCHANGED evicted,
         counter'[Logins(s, u)] = counter[Logins(s, u)],
         events'[Logins(s, u)] = events[Logins(s, u)],
         Logins(s, u) \in locked => Logins(s, u) \in locked',
         ~LogsIn(c, s, u)', LogsIn(c, s, u) => Logins(s, u) \in disturbed'
  PROVE  LoginsInv(s, u)'
BY DEF LoginsInv, Kept, Others, LogsIn

LEMMA LockedQuiet ==
  ASSUME NEW s \in Store, NEW u \in Name, LockedInv(s, u), NEW c \in Call, Others(c),
         disturbed \subseteq disturbed',
         Logins(s, u) \in locked' => Logins(s, u) \in locked,
         LogsIn(c, s, u)' => LogsIn(c, s, u) \/ Logins(s, u) \notin locked
  PROVE  LockedInv(s, u)'
BY DEF LockedInv, Others, LogsIn

(* A call that neither counts nor stops counting in a store.                *)
LEMMA StoreQuiet ==
  ASSUME NEW s \in Store, StoreInv(s), NEW c \in Call, Others(c),
         disturbed \subseteq disturbed', UNCHANGED <<counter, events, locked, evicted>>,
         ~Registers(c, s)', Registers(c, s) => Hour(s) \in disturbed',
         \A u \in Name :
           /\ ~GivesCode(c, s, u)' /\ (GivesCode(c, s, u) => Codes(s, u) \in disturbed')
           /\ ~LogsIn(c, s, u)' /\ (LogsIn(c, s, u) => Logins(s, u) \in disturbed')
  PROVE  StoreInv(s)'
<1>1. HourInv(s)'
  BY HourQuiet DEF StoreInv
<1>2. ASSUME NEW u \in Name PROVE CodesInv(s, u)' /\ LoginsInv(s, u)' /\ LockedInv(s, u)'
  BY CodesQuiet, LoginsQuiet, LockedQuiet DEF StoreInv
<1> QED BY <1>1, <1>2 DEF StoreInv

LEMMA SsoQuiet ==
  ASSUME NEW i \in Identity, SsoInv(i), NEW c \in Call, Others(c), disturbed \subseteq disturbed',
         Rows(i)' = Rows(i),
         SignsUp(c, i)' => SignsUp(c, i) \/ Rows(i) = {}
  PROVE  SsoInv(i)'
BY DEF SsoInv, Others, SignsUp

LEMMA FactorQuiet ==
  ASSUME NEW u \in Name, FactorInv(u), NEW c \in Call, Others(c), disturbed \subseteq disturbed',
         \A d \in Call : RowInv(d), verified \subseteq verified',
         \/ users'[u] = users[u]
         \/ ~Taken(u) /\ Taken(u)' /\ users'[u].on = FALSE
         \/ /\ Taken(u) /\ Taken(u)'
            /\ users'[u].secret = users[u].secret /\ users'[u].on = users[u].on,
         ~Edits(c, u)'
  PROVE  FactorInv(u)'
<1> SUFFICES ASSUME Factor(u) \notin disturbed' PROVE FactorInv(u)'
  BY DEF FactorInv
<1>1. Factor(u) \notin disturbed
  OBVIOUS
<1>2. Taken(u)' /\ users'[u].on => users'[u].secret \in verified'
  BY <1>1 DEF FactorInv, Taken
<1>3. ASSUME NEW d \in Call, Edits(d, u)'
      PROVE  /\ call'[d].pc = "write" => call'[d].secret = users'[u].secret /\ call'[d].on = users'[u].on
             /\ call'[d].kind = "enable" => users'[u].secret \in verified'
  <2>1. Edits(d, u) /\ call'[d] = call[d]
    BY <1>3 DEF Others, Edits
  <2>2. Taken(u)
    BY <2>1 DEF Edits, RowInv, SecondFactor
  <2> QED BY <1>1, <2>1, <2>2 DEF FactorInv
<1> QED BY <1>2, <1>3 DEF FactorInv

LEMMA RowQuiet ==
  ASSUME CallTyped, NEW c \in Call, Others(c), \A d \in Call : RowInv(d), RowInv(c)',
         \A u \in Name : Taken(u) => Taken(u)'
  PROVE  \A d \in Call : RowInv(d)'
<1> SUFFICES ASSUME NEW d \in Call, d # c PROVE RowInv(d)'
  OBVIOUS
<1>1. call'[d] = call[d] /\ call[d].name \in Name /\ Demo \in Name
  BY NameAssumption DEF Others, CallTyped, CallRecord
<1> QED BY <1>1 DEF RowInv

LEMMA TypeNext ==
  ASSUME CallTyped', UsersTyped', StartTyped', CountsTyped', locked' \subseteq Key,
         verified' \subseteq Secret, disturbed' \subseteq Topic, evicted' \subseteq Key
  PROVE  TypeOK'
BY Zenon DEF TypeOK, UsersTyped, CallTyped, CallRecord, StartTyped, CountsTyped

LEMMA NoticeKeeps ==
  ASSUME CallTyped', NEW c \in Call, RowInv(c)', Notice(c), disturbed \subseteq Topic
  PROVE  disturbed' \subseteq Topic
<1>1. /\ (call[c].name)' \in Name /\ (call[c].store)' \in Store
      /\ ((call[c].kind)' = "sso" => (call[c].sso)' \in Identity)
  BY DEF CallTyped, CallRecord, RowInv
<1> QED BY <1>1, TopicsTypedNext, NoticeTyped

LEMMA StartInvQuiet ==
  ASSUME StartTyped, LockInv, \A d \in Call : StartInv(d), NEW c \in Call, Others(c),
         UNCHANGED startVars, \A u \in Name : Taken(u) => Taken(u)',
         call[c].kind # "start" \/ call[c].pc = "idle",
         call'[c].kind # "start" \/ call'[c].pc = "wait"
  PROVE  LockInv' /\ \A d \in Call : StartInv(d)'
<1>1. Taken(Admin) => Taken(Admin)'
  BY NameAssumption
<1>2. ASSUME NEW d \in Call PROVE StartInv(d)'
  BY <1>1 DEF StartInv, Others, startVars, Seeding
<1>3. LockInv'
  <2>1. ~Migrating(c)
    BY DEF Migrating
  <2>2. lock # None => lock \in Call \ {c}
    BY <2>1 DEF LockInv, StartTyped
  <2> QED BY <2>2 DEF LockInv, Others, Migrating, startVars
<1> QED BY <1>2, <1>3

-----------------------------------------------------------------------------
(* The steps, by the kind of their call                                     *)

LEMMA StartKeeps ==
  ASSUME AccountInv, NEW c \in Call, StartStep(c), UNCHANGED signVars, Notice(c), UNCHANGED evicted
  PROVE  AccountInv'
<1> USE DEF AccountInv
<1>1. /\ CallTyped /\ CountsTyped /\ locked \subseteq Key /\ verified \subseteq Secret
      /\ disturbed \subseteq Topic /\ evicted \subseteq Key
  BY TypeParts DEF CountsTyped
<1>2. /\ CallTyped' /\ Others(c) /\ StartTyped' /\ RowsKept /\ UNCHANGED <<counter, events>>
      /\ call[c].kind = "start" /\ call'[c].kind \in {"start", "none"}
  BY StartFrame
<1>3. FactorsKept /\ IdentitiesKept /\ \A u \in Name : Taken(u) => Taken(u)'
  BY <1>2, RowsKeptParts, RowsStay
<1>4. disturbed \subseteq disturbed' /\ Exclusive'
  BY <1>2, NoticeFacts
<1>5. LockInv' /\ \A d \in Call : StartInv(d)'
  BY StartsGoOn
<1>6. /\ \A s \in Store : ~Registers(c, s) /\ ~Registers(c, s)'
      /\ \A i \in Identity : ~SignsUp(c, i)'
      /\ \A u \in Name : ~Edits(c, u)'
      /\ \A s \in Store, u \in Name : /\ ~GivesCode(c, s, u) /\ ~GivesCode(c, s, u)'
                                      /\ ~LogsIn(c, s, u) /\ ~LogsIn(c, s, u)'
  BY <1>2 DEF Registers, SignsUp, GivesCode, Edits, LogsIn, SecondFactor
<1>7. RowInv(c)'
  <2>1. call'[c].kind = "start" /\ call'[c].pc = "syncDemo" => Taken(Demo)'
    <3>1. CASE LookForDemo(c)
      <4>1. UNCHANGED users
        BY <3>1 DEF LookForDemo
      <4>2. \E l \in {"up", "syncDemo", "insertDemo"} : MoveTo(c, l) /\ (l = "syncDemo" => Taken(Demo))
        BY <3>1 DEF LookForDemo
      <4>3. call'[c].pc = "syncDemo" => Taken(Demo)
        BY <4>2, <1>1, MoveFacts DEF Place, Seeding
      <4> QED BY <4>1, <4>3 DEF Taken
    <3>2. CASE ~LookForDemo(c)
      <4>1. \/ \E l \in Place \ {"syncDemo"} : MoveTo(c, l)
            \/ End(c)
            \/ call' = [call EXCEPT ![c].pc = "wait", ![c].n = @ + 1]
        BY <3>2
        DEF StartStep, Lock, Upgrade, Unlock, Retry, GiveUp, LookForAdmin, InsertAdmin, InsertDemo,
            SyncDemo, SeedFails, Place, Seeding
      <4> QED BY <4>1, <1>1, MoveFacts, EndFacts, RetryFacts
    <3> QED BY <3>1, <3>2
  <2> QED BY <2>1, <1>2 DEF RowInv, SecondFactor
<1>8. \A d \in Call : RowInv(d)'
  BY <1>1, <1>2, <1>3, <1>7, RowQuiet
<1>9. TypeOK'
  BY <1>1, <1>2, <1>8, NoticeKeeps, TypeNext DEF RowsKept, CountsTyped, signVars
<1>10. ASSUME NEW s \in Store PROVE StoreInv(s)'
  BY <1>2, <1>4, <1>6, StoreQuiet DEF signVars
<1>11. ASSUME NEW u \in Name PROVE FactorInv(u)'
  BY <1>2, <1>3, <1>4, <1>6, FactorQuiet DEF FactorsKept, signVars
<1>12. ASSUME NEW i \in Identity PROVE SsoInv(i)'
  BY <1>2, <1>3, <1>4, <1>6, SsoQuiet DEF IdentitiesKept
<1> QED BY <1>4, <1>5, <1>8, <1>9, <1>10, <1>11, <1>12

LEMMA RegisterKeeps ==
  ASSUME AccountInv, NEW c \in Call, UNCHANGED <<startVars, signVars>>, Notice(c), UNCHANGED evicted,
         Lookup(c) \/ Create(c) \/ ReadRegistered(c) \/ WriteRegistered(c),
         NEW s \in Store, call[c].store = s
  PROVE  AccountInv'
<1> USE DEF AccountInv
<1>1. /\ CallTyped /\ CountsTyped /\ StartTyped /\ locked \subseteq Key /\ verified \subseteq Secret
      /\ disturbed \subseteq Topic /\ evicted \subseteq Key
  BY TypeParts DEF CountsTyped
<1>2. /\ CallTyped' /\ Others(c) /\ RowsKept /\ CountsBut(Hour(s))
      /\ call[c].kind \in {"register", "channel"}
      /\ call'[c].kind \in {"register", "channel", "none"}
      /\ call'[c].kind = "register" => call'[c].store = s
  BY RegisterFrame
<1>3. FactorsKept /\ IdentitiesKept /\ \A u \in Name : Taken(u) => Taken(u)'
  BY <1>2, RowsKeptParts, RowsStay
<1>4. disturbed \subseteq disturbed' /\ Exclusive'
  BY <1>2, NoticeFacts
<1>5. LockInv' /\ \A d \in Call : StartInv(d)'
  BY <1>1, <1>2, <1>3, StartInvQuiet
<1>6. /\ \A t \in Store \ {s} : ~Registers(c, t) /\ ~Registers(c, t)'
      /\ \A i \in Identity : ~SignsUp(c, i)'
      /\ \A u \in Name : ~Edits(c, u)'
      /\ \A t \in Store, u \in Name : /\ ~GivesCode(c, t, u) /\ ~GivesCode(c, t, u)'
                                      /\ ~LogsIn(c, t, u) /\ ~LogsIn(c, t, u)'
  BY <1>2 DEF Registers, SignsUp, GivesCode, Edits, LogsIn, SecondFactor
<1>7. RowInv(c)'
  BY <1>2 DEF RowInv, SecondFactor
<1>8. \A d \in Call : RowInv(d)'
  BY <1>1, <1>2, <1>3, <1>7, RowQuiet
<1>9. TypeOK'
  BY <1>1, <1>2, <1>8, NoticeKeeps, TypeNext DEF RowsKept, CountsBut, StartTyped, startVars, signVars
<1>10. HourInv(s)'
  <2>1. CASE call[c].kind = "channel"
    <3>1. ~Registers(c, s) /\ ~Registers(c, s)'
      BY <2>1, <1>1, <1>2, MoveFacts, EndFacts
      DEF Lookup, Create, ReadRegistered, WriteRegistered, At, Registers, SameWork, Place
    <3>2. UNCHANGED <<counter, events>>
      BY <2>1 DEF Lookup, Create, ReadRegistered, WriteRegistered, At
    <3> QED BY <3>1, <3>2, <1>2, <1>4, HourQuiet DEF StoreInv
  <2>2. CASE call[c].kind = "register"
    <3> SUFFICES ASSUME Kept(Hour(s))' PROVE HourInv(s)'
      BY DEF HourInv
    <3>1. Hour(s) \notin disturbed /\ Hour(s) \in Key /\ Kept(Hour(s))
      BY <1>4, KeyFacts DEF Kept
    <3>2. counter[Hour(s)] \in Nat /\ events[Hour(s)] \in Nat /\ MaxRegister \in Nat
      BY <3>1, <1>1, BoundAssumption DEF CountsTyped
    <3>3. Registers(c, s)
      BY <2>2 DEF Lookup, Create, ReadRegistered, WriteRegistered, At, Registers
    <3>4. \A d \in Call \ {c} : ~Registers(d, s) /\ ~Registers(d, s)'
      BY <3>1, <3>3, <1>2, Alone DEF Others, Registers
    <3>5. /\ counter[Hour(s)] < MaxRegister
          /\ call[c].pc \in {"lookup", "create"} => events[Hour(s)] = counter[Hour(s)]
          /\ call[c].pc \in {"created", "count"} => events[Hour(s)] = counter[Hour(s)] + 1
          /\ call[c].pc = "count" => call[c].n = counter[Hour(s)]
      BY <3>1, <3>3 DEF StoreInv, HourInv
    <3>6. ASSUME \/ /\ ~Registers(c, s)'
                    /\ events'[Hour(s)] = counter'[Hour(s)] /\ counter'[Hour(s)] <= MaxRegister
                 \/ /\ counter'[Hour(s)] < MaxRegister
                    /\ call'[c].pc \in {"lookup", "create"} => events'[Hour(s)] = counter'[Hour(s)]
                    /\ call'[c].pc \in {"created", "count"} => events'[Hour(s)] = counter'[Hour(s)] + 1
                    /\ call'[c].pc = "count" => call'[c].n = counter'[Hour(s)]
                    /\ Registers(c, s)'
          PROVE  HourInv(s)'
      BY <3>4, <3>6 DEF HourInv
    <3>7. CASE Lookup(c)
      <4>1. UNCHANGED <<counter, events>> /\ call[c].pc = "lookup"
        BY <3>7 DEF Lookup, At
      <4>2. ~Registers(c, s)' \/ (Registers(c, s)' /\ call'[c].pc = "create")
        BY <3>7, <1>1, MoveFacts, EndFacts DEF Lookup, Registers, SameWork, Place
      <4> QED BY <4>1, <4>2, <3>2, <3>5, <3>6
    <3>8. CASE Create(c)
      <4>1. call[c].pc = "create" /\ counter' = counter
        BY <3>8 DEF Create, At
      <4>2. \/ ~Registers(c, s)' /\ events' = events
            \/ Registers(c, s)' /\ call'[c].pc = "created" /\ events'[Hour(s)] = events[Hour(s)] + 1
        BY <2>2, <3>1, <3>8, <1>1, MoveFacts, EndFacts, HappensFacts DEF Create, Registers, SameWork, Place
      <4> QED BY <4>1, <4>2, <3>2, <3>5, <3>6
    <3>9. CASE ReadRegistered(c)
      <4>1. call[c].pc = "created" /\ UNCHANGED <<counter, events>>
        BY <3>9 DEF ReadRegistered, At
      <4>2. Registers(c, s)' /\ call'[c].pc = "count" /\ call'[c].n = counter[Hour(s)]
        BY <2>2, <3>1, <3>2, <3>9, <1>1, ReadFacts DEF ReadRegistered, Registers
      <4> QED BY <4>1, <4>2, <3>2, <3>5, <3>6
    <3>10. CASE WriteRegistered(c)
      <4>1. call[c].pc = "count" /\ events' = events /\ counter'[Hour(s)] = call[c].n + 1
        BY <3>1, <3>10, <1>1, WriteCountFacts DEF WriteRegistered, At
      <4>2. ~Registers(c, s)'
        BY <3>10, <1>1, EndFacts DEF WriteRegistered, Registers
      <4> QED BY <4>1, <4>2, <3>2, <3>5, <3>6
    <3> QED BY <3>7, <3>8, <3>9, <3>10
  <2> QED BY <2>1, <2>2, <1>2
<1>11. ASSUME NEW t \in Store PROVE StoreInv(t)'
  <2>1. HourInv(t)'
    <3>1. CASE t = s
      BY <3>1, <1>10
    <3>2. CASE t # s
      <4>1. counter'[Hour(t)] = counter[Hour(t)] /\ events'[Hour(t)] = events[Hour(t)]
        BY <3>2, <1>2, KeyFacts DEF CountsBut
      <4> QED BY <3>2, <4>1, <1>2, <1>4, <1>6, HourQuiet DEF StoreInv
    <3> QED BY <3>1, <3>2
  <2>2. ASSUME NEW u \in Name PROVE CodesInv(t, u)' /\ LoginsInv(t, u)' /\ LockedInv(t, u)'
    <3>1. \A k \in {Codes(t, u), Logins(t, u)} :
            counter'[k] = counter[k] /\ events'[k] = events[k]
      BY <1>2, KeyFacts DEF CountsBut
    <3>2. locked' = locked
      BY DEF signVars
    <3> QED BY <3>1, <3>2, <1>2, <1>4, <1>6, CodesQuiet, LoginsQuiet, LockedQuiet DEF StoreInv
  <2> QED BY <2>1, <2>2 DEF StoreInv
<1>12. ASSUME NEW u \in Name PROVE FactorInv(u)'
  BY <1>2, <1>3, <1>4, <1>6, FactorQuiet DEF FactorsKept, signVars
<1>13. ASSUME NEW i \in Identity PROVE SsoInv(i)'
  BY <1>2, <1>3, <1>4, <1>6, SsoQuiet DEF IdentitiesKept
<1> QED BY <1>4, <1>5, <1>8, <1>9, <1>11, <1>12, <1>13

LEMMA SsoKeeps ==
  ASSUME AccountInv, NEW c \in Call, UNCHANGED <<startVars, signVars>>, Notice(c), UNCHANGED evicted,
         Exchange(c) \/ ExchangeFails(c) \/ SsoLookup(c) \/ SsoTryName(c) \/ SsoCreate(c)
  PROVE  AccountInv'
<1> USE DEF AccountInv
<1>1. /\ CallTyped /\ CountsTyped /\ StartTyped /\ UsersTyped
      /\ locked \subseteq Key /\ verified \subseteq Secret /\ disturbed \subseteq Topic
      /\ evicted \subseteq Key
  BY TypeParts DEF CountsTyped
<1>2. /\ CallTyped' /\ Others(c) /\ FactorsKept /\ UNCHANGED <<counter, events>>
      /\ call[c].kind = "sso" /\ call'[c].kind \in {"sso", "none"}
      /\ call'[c].kind = "sso" => call'[c].sso = call[c].sso
  BY SsoFrame
<1>3. \A u \in Name : Taken(u) => Taken(u)'
  BY <1>2 DEF FactorsKept, Taken
<1>4. disturbed \subseteq disturbed' /\ Exclusive'
  BY <1>2, NoticeFacts
<1>5. LockInv' /\ \A d \in Call : StartInv(d)'
  BY <1>1, <1>2, <1>3, StartInvQuiet
<1>6. /\ \A s \in Store : ~Registers(c, s) /\ ~Registers(c, s)'
      /\ \A u \in Name : ~Edits(c, u)'
      /\ \A s \in Store, u \in Name : /\ ~GivesCode(c, s, u) /\ ~GivesCode(c, s, u)'
                                      /\ ~LogsIn(c, s, u) /\ ~LogsIn(c, s, u)'
  BY <1>2 DEF Registers, GivesCode, Edits, LogsIn, SecondFactor
<1>7. RowInv(c)' /\ call[c].sso \in Identity
  BY <1>2 DEF RowInv, SecondFactor
<1>8. \A d \in Call : RowInv(d)'
  BY <1>1, <1>2, <1>3, <1>7, RowQuiet
<1>9. TypeOK'
  BY <1>1, <1>2, <1>8, NoticeKeeps, TypeNext DEF FactorsKept, CountsTyped, StartTyped, startVars, signVars
<1>10. ASSUME NEW s \in Store PROVE StoreInv(s)'
  BY <1>2, <1>4, <1>6, StoreQuiet DEF signVars
<1>11. ASSUME NEW u \in Name PROVE FactorInv(u)'
  BY <1>2, <1>4, <1>6, FactorQuiet DEF FactorsKept, signVars
<1>12. ASSUME NEW i \in Identity PROVE SsoInv(i)'
  <2>1. SsoInv(i)
    OBVIOUS
  <2>2. CASE ~SsoCreate(c)
    <3>1. UNCHANGED users
      BY <2>2 DEF Exchange, ExchangeFails, SsoLookup, SsoTryName
    <3>2. Rows(i)' = Rows(i)
      BY <3>1 DEF Rows, Taken
    <3>3. SignsUp(c, i)' => SignsUp(c, i) \/ Rows(i) = {}
      <4>1. CASE Exchange(c)
        BY <4>1, <1>1, MoveFacts DEF Exchange, SignsUp, Place
      <4>2. CASE ExchangeFails(c)
        BY <4>2, <1>1, EndFacts DEF ExchangeFails, SignsUp
      <4>3. CASE SsoLookup(c)
        BY <4>3, <1>1, <1>2, MoveFacts, EndFacts DEF SsoLookup, SignsUp, Place
      <4>4. CASE SsoTryName(c)
        BY <4>4, <1>2 DEF SsoTryName, SignsUp, At
      <4> QED BY <2>2, <4>1, <4>2, <4>3, <4>4
    <3> QED BY <2>1, <3>2, <3>3, <1>2, <1>4, SsoQuiet
  <2>3. CASE SsoCreate(c)
    <3> DEFINE u == call[c].name
    <3>1. u \in Name /\ ~SignsUp(c, i)'
      BY <2>3, <1>1, EndFacts DEF SsoCreate, CallTyped, CallRecord, SignsUp
    <3>2. CASE Rows(i)' = Rows(i)
      BY <2>1, <3>1, <3>2, <1>2, <1>4, SsoQuiet
    <3>3. CASE Rows(i)' # Rows(i)
      <4>1. ~Taken(u) /\ Insert(u, call[c].sso, FALSE)
        BY <2>3, <3>3 DEF SsoCreate, Rows, Taken
      <4> HIDE DEF u
      <4>2. /\ UsersTyped' /\ users'[u] # NoRow /\ users'[u].sso = call[c].sso
            /\ \A v \in Name \ {u} : users'[v] = users[v]
        <5> DEFINE j == call[c].sso
        <5>1. j \in Identity \cup {None} /\ FALSE \in BOOLEAN /\ Insert(u, j, FALSE)
          BY <4>1, <1>7
        <5> HIDE DEF j
        <5>2. UsersTyped /\ u \in Name
          BY <3>1, <1>1
        <5>3. UsersTyped' /\ users'[u] # NoRow /\ users'[u].sso = j /\ \A v \in Name \ {u} : users'[v] = users[v]
          BY <5>1, <5>2, InsertFacts DEF Taken
        <5> QED BY <5>3 DEF j
      <4>3. Rows(i) \subseteq Name /\ Rows(i)' \subseteq Name
        BY DEF Rows
      <4>4. \A v \in Name \ {u} : v \in Rows(i)' <=> v \in Rows(i)
        BY <4>2 DEF Rows, Taken
      <4>5. u \notin Rows(i) /\ (u \in Rows(i)' => call[c].sso = i)
        BY <4>1, <4>2 DEF Rows
      <4>6. call[c].sso = i
        BY <3>3, <4>3, <4>4, <4>5
      <4>7. SignsUp(c, i)
        BY <2>3, <4>6 DEF SsoCreate, At, SignsUp
      <4> SUFFICES ASSUME Sso(i) \notin disturbed' PROVE SsoInv(i)'
        BY DEF SsoInv
      <4>8. Sso(i) \notin disturbed
        BY <1>4
      <4>9. Rows(i) = {}
        BY <2>1, <4>7, <4>8 DEF SsoInv
      <4>10. \A v, w \in Rows(i)' : v = w
        BY <4>3, <4>4, <4>9
      <4>11. \A d \in Call \ {c} : ~SignsUp(d, i) /\ ~SignsUp(d, i)'
        BY <4>7, <4>8, <1>2, Alone DEF Others, SignsUp
      <4> QED BY <4>10, <4>11, <3>1 DEF SsoInv
    <3> QED BY <3>2, <3>3
  <2> QED BY <2>2, <2>3
<1> QED BY <1>4, <1>5, <1>8, <1>9, <1>10, <1>11, <1>12

LEMMA LoginKeeps ==
  ASSUME AccountInv, NEW c \in Call, LoginStep(c), UNCHANGED startVars, Notice(c),
         UNCHANGED evicted,
         NEW s \in Store, call[c].store = s, NEW n \in Name, call[c].name = n
  PROVE  AccountInv'
<1> USE DEF AccountInv
<1> DEFINE k == Logins(s, n)
<1>1. /\ CallTyped /\ CountsTyped /\ StartTyped /\ k \in Key
      /\ locked \subseteq Key /\ verified \subseteq Secret /\ disturbed \subseteq Topic
      /\ evicted \subseteq Key
  BY TypeParts, KeyFacts DEF CountsTyped
<1>2. /\ CallTyped' /\ Others(c) /\ RowsKept /\ CountsBut(k)
      /\ call[c].kind = "login" /\ call'[c].kind \in {"login", "none"}
      /\ call'[c].kind = "login" => call'[c].name = n /\ call'[c].store = s
      /\ locked' \subseteq Key /\ UNCHANGED verified
      /\ locked' \ {k} = locked \ {k}
  BY LoginFrame
<1>3. FactorsKept /\ IdentitiesKept /\ \A u \in Name : Taken(u) => Taken(u)'
  BY <1>2, RowsKeptParts, RowsStay
<1>4. disturbed \subseteq disturbed' /\ Exclusive'
  BY <1>2, NoticeFacts
<1>5. LockInv' /\ \A d \in Call : StartInv(d)'
  BY <1>1, <1>2, <1>3, StartInvQuiet
<1>6. /\ \A t \in Store : ~Registers(c, t) /\ ~Registers(c, t)'
      /\ \A i \in Identity : ~SignsUp(c, i)'
      /\ \A u \in Name : ~Edits(c, u)'
      /\ \A t \in Store, u \in Name :
           /\ ~GivesCode(c, t, u) /\ ~GivesCode(c, t, u)'
           /\ t # s \/ u # n => ~LogsIn(c, t, u) /\ ~LogsIn(c, t, u)'
  BY <1>2 DEF Registers, SignsUp, GivesCode, Edits, LogsIn, SecondFactor
<1>7. RowInv(c)'
  BY <1>2 DEF RowInv, SecondFactor
<1>8. \A d \in Call : RowInv(d)'
  BY <1>1, <1>2, <1>3, <1>7, RowQuiet
<1>9. TypeOK'
  BY <1>1, <1>2, <1>8, NoticeKeeps, TypeNext DEF RowsKept, CountsBut, StartTyped, startVars
\* How the login goes on.
<1>10. /\ call[c].pc \in {"password", "wrong", "count", "reset", "adminReset"} <=> LogsIn(c, s, n)
       /\ LogsIn(c, s, n)' => LogsIn(c, s, n)
       /\ \/ /\ UNCHANGED <<counter, events, locked>>
             /\ LogsIn(c, s, n)' =>
                  \/ /\ call[c].pc \notin {"wrong", "count"} /\ call'[c].pc \notin {"wrong", "count"}
                  \/ /\ call[c].pc = "wrong" /\ call'[c].pc = "count" /\ call'[c].n = counter[k]
             /\ call[c].pc \in {"wrong", "count"} => LogsIn(c, s, n)'
          \/ /\ call[c].pc = "password" /\ call'[c].pc = "wrong" /\ LogsIn(c, s, n)'
             /\ UNCHANGED <<counter, locked>> /\ events'[k] = events[k] + 1
          \/ /\ call[c].pc = "count" /\ ~LogsIn(c, s, n)'
             /\ counter'[k] = call[c].n + 1 /\ UNCHANGED events
             /\ k \in locked' <=> call[c].n + 1 >= MaxFailures
          \/ /\ call[c].pc \in {"reset", "adminReset"} /\ ~LogsIn(c, s, n)'
             /\ counter'[k] = 0 /\ events'[k] = 0 /\ k \notin locked'
  <2>1. call[c].pc \in {"password", "wrong", "count", "reset", "adminReset"} <=> LogsIn(c, s, n)
    BY <1>2 DEF LogsIn
  <2>2. \A l \in Place : MoveTo(c, l) =>
           /\ call'[c].pc = l
           /\ LogsIn(c, s, n)' <=> l \in {"password", "wrong", "count", "reset", "adminReset"}
    BY <1>1, <1>2, MoveFacts DEF SameWork, LogsIn
  <2>3. End(c) => ~LogsIn(c, s, n)'
    BY <1>1, EndFacts DEF LogsIn
  <2> HIDE DEF k
  <2> USE DEF At
  <2>4. CASE AdminPassword(c)
    BY <2>1, <2>2, <2>4 DEF AdminPassword, Place, signVars
  <2>5. CASE Password(c)
    BY <2>1, <2>2, <2>3, <2>5 DEF Password, Place, signVars
  <2>6. CASE WrongPassword(c)
    <3>1. Happens(k)
      BY <2>6 DEF WrongPassword, k
    <3>2. events'[k] = events[k] + 1
      BY <3>1, <1>1 DEF Happens, CountsTyped
    <3> QED BY <2>1, <2>2, <2>6, <3>2 DEF WrongPassword, Place, signVars
  <2>7. CASE ReadFailures(c)
    <3>1. ReadCount(c, k) /\ counter[k] \in Nat
      BY <2>7, <1>1 DEF ReadFailures, CountsTyped, k
    <3>2. /\ call'[c].kind = call[c].kind /\ call'[c].pc = "count" /\ call'[c].n = counter[k]
          /\ call'[c].store = call[c].store /\ call'[c].name = call[c].name
      BY <3>1, <1>1, ReadFacts
    <3>3. LogsIn(c, s, n)'
      BY <3>2, <1>2 DEF LogsIn
    <3> QED BY <2>1, <2>7, <3>2, <3>3 DEF ReadFailures, signVars
  <2>8. CASE WriteFailures(c)
    <3>1. WriteCount(c, k) /\ UNCHANGED events
          /\ locked' = IF call[c].n + 1 >= MaxFailures THEN locked \cup {k} ELSE locked \ {k}
      BY <2>8 DEF WriteFailures, k
    <3>2. counter'[k] = call[c].n + 1
      BY <3>1, <1>1, WriteCountFacts
    <3> QED BY <2>1, <2>3, <2>8, <3>1, <3>2 DEF WriteFailures
  <2>9. CASE Reset(c)
    <3>1. Forget(k) /\ MoveTo(c, "factor") /\ call[c].pc = "reset"
      BY <2>9 DEF Reset, k
    <3>2. counter'[k] = 0 /\ events'[k] = 0 /\ locked' = locked \ {k}
      BY <3>1, <1>1, ForgetFacts
    <3> QED BY <2>1, <2>2, <3>1, <3>2 DEF Place
  <2>10. CASE AdminReset(c)
    <3>1. Forget(k) /\ MoveTo(c, "adminLookup") /\ call[c].pc = "adminReset"
      BY <2>10 DEF AdminReset, k
    <3>2. counter'[k] = 0 /\ events'[k] = 0 /\ locked' = locked \ {k}
      BY <3>1, <1>1, ForgetFacts
    <3> QED BY <2>1, <2>2, <3>1, <3>2 DEF Place
  <2>11. CASE AdminLookup(c) \/ AdminCreate(c) \/ AskForFactor(c) \/ LoginCode(c)
    <3>1. UNCHANGED <<counter, events, locked>> /\ ~LogsIn(c, s, n)
      BY <2>1, <2>11 DEF AdminLookup, AdminCreate, AskForFactor, LoginCode, signVars
    <3>2. \/ End(c)
          \/ \E l \in {"factor", "adminCreate", "code"} : MoveTo(c, l)
      BY <2>11 DEF AdminLookup, AdminCreate, AskForFactor, LoginCode
    <3>3. ~LogsIn(c, s, n)'
      BY <2>2, <2>3, <3>2 DEF Place
    <3> QED BY <2>1, <3>1, <3>3
  <2> QED BY <2>4, <2>5, <2>6, <2>7, <2>8, <2>9, <2>10, <2>11 DEF LoginStep
<1>11. StoreInv(s) /\ MaxFailures \in Nat \ {0}
  BY BoundAssumption
<1> HIDE DEF k
<1>12. LoginsInv(s, n)'
  <2>1. CASE ~LogsIn(c, s, n)
    <3>1. UNCHANGED <<counter, events, locked>> /\ ~LogsIn(c, s, n)'
      BY <2>1, <1>10
    <3> QED BY <2>1, <3>1, <1>2, <1>4, <1>11, LoginsQuiet DEF StoreInv
  <2>2. CASE LogsIn(c, s, n)
    <3> SUFFICES ASSUME Kept(k)' PROVE LoginsInv(s, n)'
      BY DEF LoginsInv, k
    <3>1. Kept(k) /\ k \notin disturbed
      BY <1>4 DEF Kept
    <3>2. /\ counter[k] \in Nat /\ events[k] \in Nat /\ counter'[k] \in Nat /\ events'[k] \in Nat
          /\ call[c].n \in Nat
      BY <1>1, <1>2 DEF CountsTyped, CountsBut, CallTyped, CallRecord
    <3>3. \A d \in Call \ {c} : ~LogsIn(d, s, n) /\ ~LogsIn(d, s, n)'
      BY <2>2, <3>1, <1>2, Alone DEF Others, LogsIn, k
    <3>4. /\ call[c].pc \notin {"wrong", "count"} => events[k] <= counter[k] /\ events[k] < MaxFailures
          /\ call[c].pc \in {"wrong", "count"} =>
               events[k] <= counter[k] + 1 /\ events[k] <= MaxFailures
          /\ call[c].pc = "count" => call[c].n = counter[k]
      BY <2>2, <3>1, <1>11 DEF StoreInv, LoginsInv, k
    <3>5. ASSUME \/ /\ ~LogsIn(c, s, n)'
                    /\ events'[k] <= counter'[k] /\ events'[k] <= MaxFailures
                    /\ k \notin locked' => events'[k] < MaxFailures
                 \/ /\ LogsIn(c, s, n)'
                    /\ call'[c].pc \notin {"wrong", "count"} =>
                         events'[k] <= counter'[k] /\ events'[k] < MaxFailures
                    /\ call'[c].pc \in {"wrong", "count"} =>
                         events'[k] <= counter'[k] + 1 /\ events'[k] <= MaxFailures
                    /\ call'[c].pc = "count" => call'[c].n = counter'[k]
          PROVE  LoginsInv(s, n)'
      <4>1. CASE LogsIn(c, s, n)'
        BY <3>3, <3>5, <4>1 DEF LoginsInv, k
      <4>2. CASE ~LogsIn(c, s, n)'
        <5>1. \A d \in Call : ~LogsIn(d, s, n)'
          BY <3>3, <4>2
        <5> QED BY <3>5, <4>2, <5>1 DEF LoginsInv, k
      <4> QED BY <4>1, <4>2
    <3>6. CASE UNCHANGED <<counter, events, locked>> /\ LogsIn(c, s, n)'
      <4>1. \/ /\ call[c].pc \notin {"wrong", "count"} /\ call'[c].pc \notin {"wrong", "count"}
            \/ /\ call[c].pc = "wrong" /\ call'[c].pc = "count" /\ call'[c].n = counter[k]
            \/ /\ call[c].pc = "password" /\ events'[k] = events[k] + 1
        BY <3>6, <1>10
      <4>2. events'[k] = events[k] /\ counter'[k] = counter[k]
        BY <3>6
      <4> QED BY <4>1, <4>2, <3>2, <3>4, <3>5, <3>6
    <3>7. CASE UNCHANGED <<counter, events, locked>> /\ ~LogsIn(c, s, n)'
      <4>1. events'[k] = events[k] /\ counter'[k] = counter[k] /\ MaxFailures > 0
        BY <3>7, <1>11
      <4>2. \/ call[c].pc \notin {"wrong", "count"}
            \/ counter'[k] = call[c].n + 1
        BY <3>7, <1>10
      <4>3. counter'[k] = call[c].n + 1 => call[c].pc \notin {"wrong", "count"} \/ call[c].pc = "count"
        BY <3>7, <1>10, <3>2
      <4>4. call[c].pc # "count"
        BY <4>1, <4>2, <3>2, <3>4
      <4>5. call[c].pc \notin {"wrong", "count"}
        BY <4>2, <4>3, <4>4
      <4> QED BY <4>1, <4>5, <3>2, <3>4, <3>5, <3>7, <1>11
    <3>8. CASE /\ call[c].pc = "password" /\ call'[c].pc = "wrong" /\ LogsIn(c, s, n)'
               /\ UNCHANGED <<counter, locked>> /\ events'[k] = events[k] + 1
      <4>1. counter'[k] = counter[k]
        BY <3>8
      <4> QED BY <4>1, <3>2, <3>4, <3>5, <3>8, <1>11
    <3>9. CASE /\ call[c].pc = "count" /\ ~LogsIn(c, s, n)'
               /\ counter'[k] = call[c].n + 1 /\ UNCHANGED events
               /\ k \in locked' <=> call[c].n + 1 >= MaxFailures
      <4>1. events'[k] = events[k]
        BY <3>9
      <4> QED BY <4>1, <3>2, <3>4, <3>5, <3>9, <1>11
    <3>10. CASE /\ ~LogsIn(c, s, n)' /\ counter'[k] = 0 /\ events'[k] = 0
      BY <3>5, <3>10, <1>11
    <3> QED BY <3>6, <3>7, <3>8, <3>9, <3>10, <1>10
  <2> QED BY <2>1, <2>2
<1>13. LockedInv(s, n)'
  <2>1. CASE k \in locked' => k \in locked
    BY <2>1, <1>2, <1>4, <1>10, <1>11, LockedQuiet DEF StoreInv, k
  <2>2. CASE k \in locked' /\ k \notin locked
    <3>1. LogsIn(c, s, n) /\ ~LogsIn(c, s, n)'
      BY <2>2, <1>10
    <3>2. \A d \in Call \ {c} : LogsIn(d, s, n)' => k \in disturbed'
      BY <3>1, <1>2, <1>4, Alone DEF Others, LogsIn, k
    <3> QED BY <3>1, <3>2 DEF LockedInv, k
  <2> QED BY <2>1, <2>2
<1>14. ASSUME NEW t \in Store PROVE StoreInv(t)'
  <2>1. StoreInv(t)
    OBVIOUS
  <2>2. HourInv(t)'
    <3>1. counter'[Hour(t)] = counter[Hour(t)] /\ events'[Hour(t)] = events[Hour(t)]
      BY <1>2, KeyFacts DEF CountsBut, k
    <3> QED BY <2>1, <3>1, <1>2, <1>4, <1>6, HourQuiet DEF StoreInv
  <2>3. ASSUME NEW u \in Name PROVE CodesInv(t, u)' /\ LoginsInv(t, u)' /\ LockedInv(t, u)'
    <3>1. CodesInv(t, u)'
      <4>1. counter'[Codes(t, u)] = counter[Codes(t, u)] /\ events'[Codes(t, u)] = events[Codes(t, u)]
        BY <1>2, KeyFacts DEF CountsBut, k
      <4> QED BY <2>1, <4>1, <1>2, <1>4, <1>6, CodesQuiet DEF StoreInv
    <3>2. CASE t = s /\ u = n
      BY <3>1, <3>2, <1>12, <1>13
    <3>3. CASE t # s \/ u # n
      <4>1. Logins(t, u) \in Key \ {k}
        BY <3>3, KeyFacts DEF k
      <4>2. /\ counter'[Logins(t, u)] = counter[Logins(t, u)]
            /\ events'[Logins(t, u)] = events[Logins(t, u)]
            /\ Logins(t, u) \in locked' <=> Logins(t, u) \in locked
        BY <4>1, <1>2 DEF CountsBut
      <4>3. ~LogsIn(c, t, u) /\ ~LogsIn(c, t, u)'
        BY <3>3, <1>6
      <4> QED BY <2>1, <3>1, <4>2, <4>3, <1>2, <1>4, LoginsQuiet, LockedQuiet DEF StoreInv
    <3> QED BY <3>2, <3>3
  <2> QED BY <2>2, <2>3 DEF StoreInv
<1>15. ASSUME NEW u \in Name PROVE FactorInv(u)'
  BY <1>2, <1>3, <1>4, <1>6, FactorQuiet DEF FactorsKept
<1>16. ASSUME NEW i \in Identity PROVE SsoInv(i)'
  BY <1>2, <1>3, <1>4, <1>6, SsoQuiet DEF IdentitiesKept
<1> QED BY <1>4, <1>5, <1>8, <1>9, <1>14, <1>15, <1>16

LEMMA FactorKeeps ==
  ASSUME AccountInv, NEW c \in Call, FactorStep(c), UNCHANGED startVars, Notice(c),
         UNCHANGED evicted,
         NEW s \in Store, call[c].store = s, NEW n \in Name, call[c].name = n
  PROVE  AccountInv'
<1> USE DEF AccountInv
<1>1. /\ CallTyped /\ CountsTyped /\ StartTyped /\ UsersTyped
      /\ locked \subseteq Key /\ verified \subseteq Secret /\ disturbed \subseteq Topic
      /\ evicted \subseteq Key
  BY TypeParts DEF CountsTyped, CallTyped, CallRecord
<1>2. /\ CallTyped' /\ Others(c) /\ RowsBut(n) /\ CountsBut(Codes(s, n))
      /\ call[c].kind \in SecondFactor /\ call'[c].kind \in SecondFactor \cup {"none"}
      /\ call'[c].kind \in SecondFactor => call'[c].name = n /\ call'[c].store = s
      /\ verified \subseteq verified' /\ verified' \subseteq Secret /\ locked' = locked
  BY FactorFrame
<1>3. Taken(n) /\ Taken(n)' /\ \A u \in Name : Taken(u) => Taken(u)'
  <2>1. Taken(call[c].name)
    BY DEF FactorStep, WriteSetUp, WriteRate, RightCode, WrongCode, Load, WriteEnable, WriteDisable,
           At, RowInv, SecondFactor
  <2> QED BY <2>1, <1>2 DEF RowsBut, Taken
<1>4. disturbed \subseteq disturbed' /\ Exclusive'
  BY <1>2, NoticeFacts
<1>5. LockInv' /\ \A d \in Call : StartInv(d)'
  BY <1>1, <1>2, <1>3, StartInvQuiet DEF SecondFactor
<1>6. /\ \A t \in Store : ~Registers(c, t) /\ ~Registers(c, t)'
      /\ \A i \in Identity : ~SignsUp(c, i)'
      /\ \A u \in Name \ {n} : ~Edits(c, u)'
      /\ \A t \in Store, u \in Name :
           /\ ~LogsIn(c, t, u) /\ ~LogsIn(c, t, u)'
           /\ t # s \/ u # n => ~GivesCode(c, t, u) /\ ~GivesCode(c, t, u)'
  BY <1>2 DEF Registers, SignsUp, LogsIn, GivesCode, Edits, SecondFactor
<1>7. RowInv(c)'
  BY <1>2, <1>3 DEF RowInv, SecondFactor, Taken
<1>8. \A d \in Call : RowInv(d)'
  BY <1>1, <1>2, <1>3, <1>7, RowQuiet
<1>9. TypeOK'
  BY <1>1, <1>2, <1>8, NoticeKeeps, TypeNext DEF RowsBut, CountsBut, StartTyped, startVars
<1>10. CodesInv(s, n)'
  <2> SUFFICES ASSUME Kept(Codes(s, n))' PROVE CodesInv(s, n)'
    BY DEF CodesInv
  <2>1. Codes(s, n) \notin disturbed /\ Codes(s, n) \in Key /\ Kept(Codes(s, n))
    BY <1>4, KeyFacts DEF Kept
  <2>2. counter[Codes(s, n)] \in Nat /\ events[Codes(s, n)] \in Nat /\ MaxCodes \in Nat
    BY <2>1, <1>1, BoundAssumption DEF CountsTyped
  <2>3. CASE WriteRate(c) \/ RightCode(c) \/ WrongCode(c)
    <3>1. GivesCode(c, s, n)
      BY <2>3, <1>1 DEF WriteRate, RightCode, WrongCode, At, GivesCode
    <3>2. \A d \in Call \ {c} : ~GivesCode(d, s, n) /\ ~GivesCode(d, s, n)'
      BY <2>1, <3>1, <1>1, <1>2, Alone DEF Others, GivesCode
    <3>3. CASE WriteRate(c)
      <4>1. /\ counter'[Codes(s, n)] = call[c].n + 1 /\ events' = events
            /\ call[c].pc = "count" /\ call'[c].pc = "code"
        BY <3>3, <2>1, <1>1, WriteCountFacts, MoveFacts DEF WriteRate, At, Place
      <4>2. /\ events[Codes(s, n)] = counter[Codes(s, n)] /\ call[c].n = counter[Codes(s, n)]
            /\ counter[Codes(s, n)] < MaxCodes
        BY <4>1, <3>1, <2>1, <1>1 DEF StoreInv, CodesInv
      <4>3. events'[Codes(s, n)] + 1 = counter'[Codes(s, n)] /\ counter'[Codes(s, n)] <= MaxCodes
        BY <4>1, <4>2, <2>2
      <4>4. GivesCode(c, s, n)'
        BY <3>1, <3>3, <4>1, <1>1, MoveFacts DEF WriteRate, SameWork, Place, GivesCode
      <4> QED BY <4>1, <4>3, <4>4, <3>2 DEF CodesInv
    <3>4. CASE RightCode(c) \/ WrongCode(c)
      <4>1. events'[Codes(s, n)] = events[Codes(s, n)] + 1 /\ counter' = counter /\ call[c].pc = "code"
        BY <3>4, <2>1, <1>1, HappensFacts DEF RightCode, WrongCode, At
      <4>2. events[Codes(s, n)] + 1 = counter[Codes(s, n)] /\ counter[Codes(s, n)] <= MaxCodes
        BY <4>1, <3>1, <2>1, <1>1 DEF StoreInv, CodesInv
      <4>3. ~GivesCode(c, s, n)'
        BY <3>4, <1>1, MoveFacts, EndFacts DEF RightCode, WrongCode, Place, GivesCode, SecondFactor
      <4> QED BY <4>1, <4>2, <4>3, <3>2 DEF CodesInv
    <3> QED BY <2>3, <3>3, <3>4
  <2>4. CASE WriteSetUp(c) \/ Load(c) \/ WriteEnable(c) \/ WriteDisable(c)
    <3>1. ~GivesCode(c, s, n) /\ ~GivesCode(c, s, n)'
      BY <2>4, <1>1, LoadFacts, EndFacts, <1>3
      DEF WriteSetUp, Load, WriteEnable, WriteDisable, At, GivesCode, SecondFactor
    <3>2. UNCHANGED <<counter, events>>
      BY <2>4 DEF WriteSetUp, Load, WriteEnable, WriteDisable
    <3> QED BY <3>1, <3>2, <1>1, <1>2, <1>4, CodesQuiet DEF StoreInv
  <2> QED BY <2>3, <2>4 DEF FactorStep
<1>11. FactorInv(n)'
  <2> SUFFICES ASSUME Factor(n) \notin disturbed' PROVE FactorInv(n)'
    BY DEF FactorInv
  <2>1. Factor(n) \notin disturbed /\ FactorInv(n)
    BY <1>1, <1>4
  <2>2. /\ users[n].on => users[n].secret \in verified
        /\ Edits(c, n) =>
             /\ call[c].pc = "write" => call[c].secret = users[n].secret /\ call[c].on = users[n].on
             /\ call[c].kind = "enable" => users[n].secret \in verified
    BY <2>1, <1>3 DEF FactorInv
  <2>3. users[n] \in Row
    BY <1>1, <1>3 DEF UsersTyped, Taken
  <2>4. ASSUME Edits(c, n) \/ Edits(c, n)',
               users'[n].on => users'[n].secret \in verified',
               Edits(c, n)' =>
                 /\ call'[c].pc = "write" => call'[c].secret = users'[n].secret /\ call'[c].on = users'[n].on
                 /\ call'[c].kind = "enable" => users'[n].secret \in verified'
        PROVE  FactorInv(n)'
    <3>1. ASSUME NEW d \in Call \ {c} PROVE ~Edits(d, n)'
      <4>1. Edits(d, n)' <=> Edits(d, n)
        BY <1>2 DEF Others, Edits
      <4> QED BY <4>1, <2>1, <2>4, <1>1, <1>4, Alone, AloneNext
    <3> QED BY <2>4, <3>1 DEF FactorInv
  <2>5. CASE WriteRate(c) \/ WrongCode(c)
    <3>1. ~Edits(c, n)'
      BY <2>5, <1>1, MoveFacts, EndFacts DEF WriteRate, WrongCode, Place, Edits
    <3>2. UNCHANGED users
      BY <2>5 DEF WriteRate, WrongCode
    <3> QED BY <2>1, <3>1, <3>2, <1>1, <1>2, <1>4, FactorQuiet
  <2>6. CASE RightCode(c)
    <3>1. users' = users /\ verified' = verified \cup {users[n].secret}
      BY <2>6 DEF RightCode
    <3>2. CASE Edits(c, n)'
      <4>1. call'[c].pc = "load"
        BY <2>6, <3>2, <1>1, MoveFacts, EndFacts DEF RightCode, Place, Edits
      <4> QED BY <3>1, <3>2, <4>1, <2>4
    <3>3. CASE ~Edits(c, n)'
      BY <2>1, <3>1, <3>3, <1>1, <1>2, <1>4, FactorQuiet
    <3> QED BY <3>2, <3>3
  <2>7. CASE Load(c)
    <3>1. Edits(c, n)
      BY <2>7 DEF Load, At, Edits
    <3>2. users' = users /\ call'[c].kind = call[c].kind
          /\ call'[c].secret = users[n].secret /\ call'[c].on = users[n].on
      BY <2>7, <1>1, <1>3, LoadFacts DEF Load
    <3> QED BY <3>1, <3>2, <2>2, <2>4, <1>2
  <2>8. CASE WriteSetUp(c)
    <3>1. Edits(c, n) /\ call[c].pc = "write" /\ ~Edits(c, n)'
      BY <2>8, <1>1, EndFacts DEF WriteSetUp, At, Edits
    <3>2. users'[n].on = IF call[c].on THEN FALSE ELSE users[n].on
      BY <2>8, <1>1, <1>3, SetUpFacts
    <3>3. users[n].on \in BOOLEAN
      BY <2>3 DEF Row
    <3> QED BY <3>1, <3>2, <3>3, <2>2, <2>4
  <2>9. CASE WriteEnable(c)
    <3>1. Edits(c, n) /\ call[c].kind = "enable" /\ ~Edits(c, n)'
      BY <2>9, <1>1, EndFacts DEF WriteEnable, At, Edits
    <3>2. users'[n].secret = users[n].secret
      BY <2>9, <1>1, <1>3, EnableFacts
    <3> QED BY <3>1, <3>2, <2>2, <2>4, <1>2
  <2>10. CASE WriteDisable(c)
    <3>1. Edits(c, n) /\ call[c].pc = "write" /\ ~Edits(c, n)'
      BY <2>10, <1>1, EndFacts DEF WriteDisable, At, Edits
    <3>2. users'[n].on = IF call[c].on THEN FALSE ELSE users[n].on
      BY <2>10, <1>1, <1>3, DisableFacts
    <3>3. users[n].on \in BOOLEAN
      BY <2>3 DEF Row
    <3> QED BY <3>1, <3>2, <3>3, <2>2, <2>4
  <2> QED BY <2>5, <2>6, <2>7, <2>8, <2>9, <2>10 DEF FactorStep
<1>12. ASSUME NEW t \in Store PROVE StoreInv(t)'
  <2>1. StoreInv(t)
    OBVIOUS
  <2>2. HourInv(t)'
    <3>1. counter'[Hour(t)] = counter[Hour(t)] /\ events'[Hour(t)] = events[Hour(t)]
      BY <1>2, KeyFacts DEF CountsBut
    <3> QED BY <2>1, <3>1, <1>2, <1>4, <1>6, HourQuiet DEF StoreInv
  <2>3. ASSUME NEW u \in Name PROVE CodesInv(t, u)' /\ LoginsInv(t, u)' /\ LockedInv(t, u)'
    <3>1. LoginsInv(t, u)' /\ LockedInv(t, u)'
      <4>1. counter'[Logins(t, u)] = counter[Logins(t, u)] /\ events'[Logins(t, u)] = events[Logins(t, u)]
        BY <1>2, KeyFacts DEF CountsBut
      <4> QED BY <2>1, <4>1, <1>2, <1>4, <1>6, LoginsQuiet, LockedQuiet DEF StoreInv
    <3>2. CASE t = s /\ u = n
      BY <3>1, <3>2, <1>10
    <3>3. CASE t # s \/ u # n
      <4>1. counter'[Codes(t, u)] = counter[Codes(t, u)] /\ events'[Codes(t, u)] = events[Codes(t, u)]
        BY <3>3, <1>2, KeyFacts DEF CountsBut
      <4>2. ~GivesCode(c, t, u) /\ ~GivesCode(c, t, u)'
        BY <3>3, <1>6
      <4> QED BY <2>1, <3>1, <4>1, <4>2, <1>2, <1>4, CodesQuiet DEF StoreInv
    <3> QED BY <3>2, <3>3
  <2> QED BY <2>2, <2>3 DEF StoreInv
<1>13. ASSUME NEW u \in Name PROVE FactorInv(u)'
  <2>1. CASE u = n
    BY <2>1, <1>11
  <2>2. CASE u # n
    <3>1. users'[u] = users[u]
      BY <2>2, <1>2 DEF RowsBut
    <3> QED BY <2>2, <3>1, <1>2, <1>4, <1>6, FactorQuiet
  <2> QED BY <2>1, <2>2
<1>14. ASSUME NEW i \in Identity PROVE SsoInv(i)'
  <2>1. ASSUME NEW u \in Name PROVE u \in Rows(i)' <=> u \in Rows(i)
    BY <1>2, <1>3 DEF Rows, RowsBut, Taken
  <2>2. Rows(i) \subseteq Name /\ Rows(i)' \subseteq Name
    BY DEF Rows
  <2>3. Rows(i)' = Rows(i)
    BY <2>1, <2>2
  <2> QED BY <2>3, <1>2, <1>4, <1>6, SsoQuiet
<1> QED BY <1>4, <1>5, <1>8, <1>9, <1>12, <1>13, <1>14

(* The beginnings, the ends and what time does                              *)

LEMMA BeginKeeps ==
  ASSUME AccountInv, NEW c \in Call, Begins(c)
  PROVE  AccountInv'
<1> USE DEF AccountInv
<1>1. /\ CallTyped /\ CountsTyped /\ StartTyped /\ UsersTyped
      /\ locked \subseteq Key /\ verified \subseteq Secret /\ disturbed \subseteq Topic
      /\ evicted \subseteq Key
  BY TypeParts DEF CountsTyped
<1>2. /\ CallTyped' /\ Others(c) /\ call[c].pc = "idle" /\ Begun(c)
      /\ UNCHANGED <<users, counter, events, startVars, signVars, evicted>>
  BY BeginFrame
<1>3. /\ UNCHANGED <<users, counter, events, locked, verified>>
      /\ \A u \in Name : Taken(u) => Taken(u)'
  BY <1>2 DEF Taken, signVars
<1>4. disturbed \subseteq disturbed' /\ Exclusive' /\ Notice(c)
  BY <1>2, NoticeFacts DEF Begins
<1>5. LockInv' /\ \A d \in Call : StartInv(d)'
  BY <1>1, <1>2, <1>3, StartInvQuiet DEF Begun, SecondFactor
<1>6. /\ \A s \in Store : ~Registers(c, s)
      /\ \A i \in Identity : ~SignsUp(c, i)'
      /\ \A u \in Name : ~Edits(c, u)
      /\ \A s \in Store, u \in Name : ~GivesCode(c, s, u) /\ ~LogsIn(c, s, u)
  BY <1>2 DEF Begun, Registers, SignsUp, GivesCode, LogsIn, Edits, SecondFactor
<1>7. RowInv(c)'
  BY <1>2 DEF Begun, RowInv, SecondFactor, Taken
<1>8. \A d \in Call : RowInv(d)'
  BY <1>1, <1>2, <1>3, <1>7, RowQuiet
<1>9. TypeOK'
  BY <1>1, <1>2, <1>3, <1>4, <1>8, NoticeKeeps, TypeNext DEF UsersTyped, CountsTyped, StartTyped, startVars
<1>10. ASSUME NEW s \in Store PROVE StoreInv(s)'
  <2>1. StoreInv(s)
    OBVIOUS
  <2>2. HourInv(s)'
    <3>1. CASE ~Registers(c, s)'
      BY <2>1, <3>1, <1>2, <1>3, <1>4, <1>6, HourQuiet DEF StoreInv
    <3>2. CASE Registers(c, s)'
      <4> SUFFICES ASSUME Kept(Hour(s))' PROVE HourInv(s)'
        BY DEF HourInv
      <4>1. Kept(Hour(s))
        BY <1>2, <1>4 DEF Kept
      <4>2. \A d \in Call \ {c} : ~Registers(d, s) /\ ~Registers(d, s)'
        BY <3>2, <1>2, <1>4, AloneNext DEF Others, Registers, Kept
      <4>3. events[Hour(s)] = counter[Hour(s)]
        BY <2>1, <4>1, <4>2, <1>6 DEF StoreInv, HourInv
      <4>4. call'[c].pc = "lookup" /\ counter[Hour(s)] < MaxRegister
        BY <3>2, <1>2 DEF Begun, Registers, SecondFactor
      <4> QED BY <3>2, <4>2, <4>3, <4>4, <1>3 DEF HourInv
    <3> QED BY <3>1, <3>2
  <2>3. ASSUME NEW u \in Name PROVE CodesInv(s, u)' /\ LoginsInv(s, u)' /\ LockedInv(s, u)'
    <3>1. CodesInv(s, u)'
      <4>1. CASE ~GivesCode(c, s, u)'
        BY <2>1, <4>1, <1>2, <1>3, <1>4, <1>6, CodesQuiet DEF StoreInv
      <4>2. CASE GivesCode(c, s, u)'
        <5> SUFFICES ASSUME Kept(Codes(s, u))' PROVE CodesInv(s, u)'
          BY DEF CodesInv
        <5>1. Kept(Codes(s, u))
          BY <1>2, <1>4 DEF Kept
        <5>2. \A d \in Call \ {c} : ~GivesCode(d, s, u) /\ ~GivesCode(d, s, u)'
          BY <4>2, <1>2, <1>4, AloneNext DEF Others, GivesCode, Kept
        <5>3. events[Codes(s, u)] = counter[Codes(s, u)]
          BY <2>1, <5>1, <5>2, <1>6 DEF StoreInv, CodesInv
        <5>4. /\ call'[c].pc = "count" /\ call'[c].n = counter[Codes(s, u)]
              /\ call'[c].n < MaxCodes
          BY <4>2, <1>2 DEF Begun, GivesCode, SecondFactor
        <5> QED BY <4>2, <5>2, <5>3, <5>4, <1>3 DEF CodesInv
      <4> QED BY <4>1, <4>2
    <3>2. LogsIn(c, s, u)' => call'[c].pc = "password" /\ Logins(s, u) \notin locked
      BY <1>2 DEF Begun, LogsIn, SecondFactor
    <3>3. LoginsInv(s, u)'
      <4>1. CASE ~LogsIn(c, s, u)'
        BY <2>1, <4>1, <1>2, <1>3, <1>4, <1>6, LoginsQuiet DEF StoreInv
      <4>2. CASE LogsIn(c, s, u)'
        <5> SUFFICES ASSUME Kept(Logins(s, u))' PROVE LoginsInv(s, u)'
          BY DEF LoginsInv
        <5>1. Kept(Logins(s, u))
          BY <1>2, <1>4 DEF Kept
        <5>2. \A d \in Call \ {c} : ~LogsIn(d, s, u) /\ ~LogsIn(d, s, u)'
          BY <4>2, <1>2, <1>4, AloneNext DEF Others, LogsIn, Kept
        <5>3. events[Logins(s, u)] <= counter[Logins(s, u)] /\ events[Logins(s, u)] < MaxFailures
          BY <2>1, <3>2, <4>2, <5>1, <5>2, <1>6 DEF StoreInv, LoginsInv
        <5> QED BY <3>2, <4>2, <5>2, <5>3, <1>3 DEF LoginsInv
      <4> QED BY <4>1, <4>2
    <3>4. LockedInv(s, u)'
      BY <2>1, <3>2, <1>2, <1>3, <1>4, LockedQuiet DEF StoreInv
    <3> QED BY <3>1, <3>3, <3>4
  <2> QED BY <2>2, <2>3 DEF StoreInv
<1>11. ASSUME NEW u \in Name PROVE FactorInv(u)'
  <2>1. CASE ~Edits(c, u)'
    BY <2>1, <1>2, <1>3, <1>4, FactorQuiet
  <2>2. CASE Edits(c, u)'
    <3> SUFFICES ASSUME Factor(u) \notin disturbed' PROVE FactorInv(u)'
      BY DEF FactorInv
    <3>1. \A d \in Call \ {c} : ~Edits(d, u)'
      BY <2>2, <1>4, AloneNext
    <3>2. Taken(u) /\ users[u].on => users[u].secret \in verified
      BY <1>4 DEF FactorInv
    <3>3. /\ call'[c].kind = "setup"
          /\ call'[c].secret = users[u].secret /\ call'[c].on = users[u].on
      BY <2>2, <1>2 DEF Begun, Edits, SecondFactor
    <3> QED BY <3>1, <3>2, <3>3, <1>3 DEF FactorInv, Taken
  <2> QED BY <2>1, <2>2
<1>12. ASSUME NEW i \in Identity PROVE SsoInv(i)'
  <2>1. Rows(i)' = Rows(i)
    BY <1>3 DEF Rows, Taken
  <2> QED BY <2>1, <1>2, <1>4, <1>6, SsoQuiet
<1> QED BY <1>4, <1>5, <1>8, <1>9, <1>10, <1>11, <1>12

LEMMA CrashKeeps ==
  ASSUME AccountInv, NEW c \in Call, Crash(c)
  PROVE  AccountInv'
<1> USE DEF AccountInv
<1>1. /\ CallTyped /\ CountsTyped /\ StartTyped /\ UsersTyped
      /\ locked \subseteq Key /\ verified \subseteq Secret /\ disturbed \subseteq Topic
      /\ evicted \subseteq Key
  BY TypeParts DEF CountsTyped
<1>2. /\ CallTyped' /\ Others(c) /\ call'[c].kind = "none"
      /\ UNCHANGED <<users, counter, events, schema, lost, unseeded, locked, verified, evicted>>
      /\ disturbed' = disturbed \cup Topics(c)
      /\ lock' = IF lock = c THEN None ELSE lock
  BY <1>1, EndFacts DEF Crash, Release, signVars
<1>3. disturbed \subseteq disturbed' /\ \A u \in Name : Taken(u) => Taken(u)'
  BY <1>2 DEF Taken
<1>4. Exclusive'
  <2>1. Topics(c)' = {}
    BY <1>2 DEF Topics, SecondFactor
  <2>2. \A d \in Call \ {c} : Topics(d)' = Topics(d)
    BY <1>2 DEF Others, Topics
  <2> QED BY <2>1, <2>2, <1>3 DEF Exclusive
<1>5. LockInv' /\ \A d \in Call : StartInv(d)'
  <2>1. LockInv'
    <3>1. lock' # None => lock' = lock /\ lock \in Call \ {c} /\ Migrating(lock)
      BY <1>1, <1>2 DEF LockInv, StartTyped
    <3> QED BY <3>1, <1>2 DEF LockInv, Others, Migrating
  <2>2. ASSUME NEW d \in Call PROVE StartInv(d)'
    <3>1. Admin \in Name
      BY NameAssumption
    <3> QED BY <3>1, <1>2, <1>3, AbsenceAssumption DEF StartInv, Others
  <2> QED BY <2>1, <2>2
<1>6. /\ \A i \in Identity : ~SignsUp(c, i)'
      /\ \A u \in Name : ~Edits(c, u)'
      /\ \A s \in Store : ~Registers(c, s)'
      /\ \A s \in Store, u \in Name : ~GivesCode(c, s, u)' /\ ~LogsIn(c, s, u)'
  BY <1>2 DEF Registers, SignsUp, GivesCode, Edits, LogsIn, SecondFactor
<1>7. /\ \A s \in Store : Registers(c, s) => Hour(s) \in disturbed'
      /\ \A s \in Store, u \in Name :
           /\ GivesCode(c, s, u) => Codes(s, u) \in disturbed'
           /\ LogsIn(c, s, u) => Logins(s, u) \in disturbed'
  BY <1>2, TopicFacts
<1>8. RowInv(c)'
  BY <1>2 DEF RowInv, SecondFactor
<1>9. \A d \in Call : RowInv(d)'
  BY <1>1, <1>2, <1>3, <1>8, RowQuiet
<1>10. TypeOK'
  <2>1. /\ call[c].name \in Name /\ call[c].store \in Store
        /\ (call[c].kind = "sso" => call[c].sso \in Identity)
    BY <1>1 DEF CallTyped, CallRecord, RowInv
  <2>2. disturbed' \subseteq Topic
    BY <2>1, <1>1, <1>2, TopicsTyped
  <2> QED BY <2>2, <1>1, <1>2, TypeNext DEF UsersTyped, CountsTyped, StartTyped
<1>11. ASSUME NEW s \in Store PROVE StoreInv(s)'
  BY <1>2, <1>3, <1>6, <1>7, StoreQuiet
<1>12. ASSUME NEW u \in Name PROVE FactorInv(u)'
  BY <1>2, <1>3, <1>6, FactorQuiet
<1>13. ASSUME NEW i \in Identity PROVE SsoInv(i)'
  <2>1. Rows(i)' = Rows(i)
    BY <1>2 DEF Rows, Taken
  <2> QED BY <2>1, <1>2, <1>3, <1>6, SsoQuiet
<1> QED BY <1>4, <1>5, <1>9, <1>10, <1>11, <1>12, <1>13

(* No call moves: a part of the invariant stays when its key's counts stay, *)
(* when the memory has dropped them, or when they begin anew and nobody is  *)
(* at work on them.                                                         *)
LEMMA HourStill ==
  ASSUME NEW s \in Store, HourInv(s), UNCHANGED call, disturbed \subseteq disturbed',
         \/ /\ counter'[Hour(s)] = counter[Hour(s)] /\ events'[Hour(s)] = events[Hour(s)]
            /\ Hour(s) \in evicted => Hour(s) \in evicted'
         \/ Hour(s) \in evicted'
         \/ /\ counter'[Hour(s)] = 0 /\ events'[Hour(s)] = 0
            /\ Hour(s) \notin disturbed' => \A c \in Call : ~Registers(c, s)
  PROVE  HourInv(s)'
<1>1. MaxRegister \in Nat
  BY BoundAssumption
<1> QED BY <1>1 DEF HourInv, Kept, Registers

LEMMA CodesStill ==
  ASSUME NEW s \in Store, NEW u \in Name, CodesInv(s, u), UNCHANGED call,
         disturbed \subseteq disturbed',
         \/ /\ counter'[Codes(s, u)] = counter[Codes(s, u)]
            /\ events'[Codes(s, u)] = events[Codes(s, u)]
            /\ Codes(s, u) \in evicted => Codes(s, u) \in evicted'
         \/ Codes(s, u) \in evicted'
         \/ /\ counter'[Codes(s, u)] = 0 /\ events'[Codes(s, u)] = 0
            /\ Codes(s, u) \notin disturbed' => \A c \in Call : ~GivesCode(c, s, u)
  PROVE  CodesInv(s, u)'
<1>1. MaxCodes \in Nat
  BY BoundAssumption
<1> QED BY <1>1 DEF CodesInv, Kept, GivesCode

LEMMA LoginsStill ==
  ASSUME NEW s \in Store, NEW u \in Name, LoginsInv(s, u), UNCHANGED call,
         disturbed \subseteq disturbed', CountsTyped',
         \/ /\ counter'[Logins(s, u)] = counter[Logins(s, u)]
            /\ events'[Logins(s, u)] = events[Logins(s, u)]
            /\ Logins(s, u) \in locked => Logins(s, u) \in locked'
            /\ Logins(s, u) \in evicted => Logins(s, u) \in evicted'
         \/ Logins(s, u) \in evicted'
         \/ /\ events'[Logins(s, u)] = 0
            /\ Logins(s, u) \notin disturbed' => \A c \in Call : ~LogsIn(c, s, u)
  PROVE  LoginsInv(s, u)'
<1> DEFINE k == Logins(s, u)
<1>1. MaxFailures \in Nat \ {0}
  BY BoundAssumption
<1>2. counter'[k] \in Nat
  BY KeyFacts DEF CountsTyped
<1> SUFFICES ASSUME Kept(k)' PROVE LoginsInv(s, u)'
  BY DEF LoginsInv
<1>3. CASE /\ counter'[k] = counter[k] /\ events'[k] = events[k]
           /\ k \in locked => k \in locked'
           /\ k \in evicted => k \in evicted'
  BY <1>3 DEF LoginsInv, Kept, LogsIn
<1>4. CASE events'[k] = 0 /\ \A c \in Call : ~LogsIn(c, s, u)
  BY <1>1, <1>2, <1>4 DEF LoginsInv, LogsIn
<1> QED BY <1>3, <1>4 DEF Kept

LEMMA StillKeeps ==
  ASSUME AccountInv, UNCHANGED <<users, call, schema, unseeded, verified>>,
         disturbed \subseteq disturbed', disturbed' \subseteq Topic, CountsTyped',
         locked' \subseteq locked, evicted' \subseteq Key,
         UNCHANGED <<lock, lost>> \/ (lock' = None /\ lost' = TRUE),
         \A s \in Store : HourInv(s)' /\ \A u \in Name : CodesInv(s, u)' /\ LoginsInv(s, u)'
  PROVE  AccountInv'
<1> USE DEF AccountInv
<1>1. /\ CallTyped /\ StartTyped /\ UsersTyped /\ locked \subseteq Key /\ verified \subseteq Secret
  BY TypeParts
<1>2. TypeOK'
  BY <1>1, TypeNext DEF UsersTyped, CallTyped, StartTyped
<1>3. Exclusive'
  <2>1. \A d \in Call : Topics(d)' = Topics(d)
    BY DEF Topics
  <2> QED BY <2>1 DEF Exclusive
<1>4. ASSUME NEW s \in Store PROVE StoreInv(s)'
  <2>1. ASSUME NEW u \in Name PROVE LockedInv(s, u)'
    BY DEF StoreInv, LockedInv, LogsIn
  <2> QED BY <2>1 DEF StoreInv
<1>5. ASSUME NEW u \in Name PROVE FactorInv(u)'
  BY DEF FactorInv, Taken, Edits
<1>6. ASSUME NEW i \in Identity PROVE SsoInv(i)'
  BY DEF SsoInv, Rows, Taken, SignsUp
<1>7. LockInv' /\ \A c \in Call : RowInv(c)' /\ StartInv(c)'
  BY DEF LockInv, Migrating, RowInv, StartInv, Taken
<1> QED BY <1>2, <1>3, <1>4, <1>5, <1>6, <1>7

LEMMA ExpireKeeps ==
  ASSUME AccountInv, NEW k \in Key, Expire(k)
  PROVE  AccountInv'
<1> USE DEF AccountInv
<1>1. CountsTyped /\ disturbed \subseteq Topic /\ evicted \subseteq Key
  BY TypeParts DEF CountsTyped
<1>2. /\ UNCHANGED <<users, call, lock, schema, lost, unseeded, locked, verified>>
      /\ disturbed' = disturbed \cup ({k} \cap UNION {Topics(c) : c \in Call})
      /\ counter' = [counter EXCEPT ![k] = 0] /\ events' = [events EXCEPT ![k] = 0]
      /\ evicted' = evicted \ {k} /\ k \notin locked
  BY DEF Expire, startVars, signVars
<1>3. disturbed \subseteq disturbed' /\ disturbed' \subseteq Topic
  BY <1>1, <1>2 DEF Topic
<1>4. CountsTyped'
  BY <1>1, <1>2 DEF CountsTyped
<1>5. ASSUME NEW j \in Key
      PROVE  \/ /\ counter'[j] = counter[j] /\ events'[j] = events[j]
                /\ j \in evicted => j \in evicted'
             \/ k = j /\ counter'[j] = 0 /\ events'[j] = 0
  BY <1>1, <1>2 DEF CountsTyped
<1>6. k \notin disturbed' => \A c \in Call : k \notin Topics(c)
  BY <1>2
<1>7. ASSUME NEW s \in Store
      PROVE  HourInv(s)' /\ \A u \in Name : CodesInv(s, u)' /\ LoginsInv(s, u)'
  <2>1. StoreInv(s)
    OBVIOUS
  <2>2. HourInv(s)'
    <3>1. k = Hour(s) /\ Hour(s) \notin disturbed' => \A c \in Call : ~Registers(c, s)
      BY <1>6, TopicFacts
    <3> QED BY <2>1, <3>1, <1>2, <1>3, <1>5, KeyFacts, HourStill DEF StoreInv
  <2>3. ASSUME NEW u \in Name PROVE CodesInv(s, u)' /\ LoginsInv(s, u)'
    <3>1. /\ k = Codes(s, u) /\ Codes(s, u) \notin disturbed' => \A c \in Call : ~GivesCode(c, s, u)
          /\ k = Logins(s, u) /\ Logins(s, u) \notin disturbed' => \A c \in Call : ~LogsIn(c, s, u)
      BY <1>6, TopicFacts
    <3>2. CodesInv(s, u)'
      BY <2>1, <3>1, <1>2, <1>3, <1>5, KeyFacts, CodesStill DEF StoreInv
    <3>3. LoginsInv(s, u)'
      BY <2>1, <3>1, <1>2, <1>3, <1>4, <1>5, KeyFacts, LoginsStill DEF StoreInv
    <3> QED BY <3>2, <3>3
  <2> QED BY <2>2, <2>3
<1> QED BY <1>1, <1>2, <1>3, <1>4, <1>7, StillKeeps

LEMMA LockEndsKeeps ==
  ASSUME AccountInv, NEW t \in Store, NEW v \in Name, NEW k, k = Logins(t, v), LockEnds(k)
  PROVE  AccountInv'
<1> USE DEF AccountInv
<1>1. CountsTyped /\ disturbed \subseteq Topic /\ evicted \subseteq Key
  BY TypeParts DEF CountsTyped
<1>2. /\ UNCHANGED <<users, counter, call, disturbed, lock, schema, lost, unseeded, verified, evicted>>
      /\ k \in locked /\ locked' = locked \ {k} /\ events' = [events EXCEPT ![k] = 0]
  BY DEF LockEnds, startVars
<1>3. CountsTyped'
  BY <1>1, <1>2 DEF CountsTyped
<1>4. \A j \in Key : events'[j] = IF j = k THEN 0 ELSE events[j]
  BY <1>1, <1>2 DEF CountsTyped
<1>5. ASSUME NEW s \in Store
      PROVE  HourInv(s)' /\ \A u \in Name : CodesInv(s, u)' /\ LoginsInv(s, u)'
  <2>1. StoreInv(s)
    OBVIOUS
  <2>2. HourInv(s)'
    <3>1. Hour(s) # k
      BY KeyFacts
    <3> QED BY <2>1, <3>1, <1>2, <1>4, KeyFacts, HourStill DEF StoreInv
  <2>3. ASSUME NEW u \in Name PROVE CodesInv(s, u)' /\ LoginsInv(s, u)'
    <3>1. CodesInv(s, u)'
      <4>1. Codes(s, u) # k
        BY KeyFacts
      <4> QED BY <2>1, <4>1, <1>2, <1>4, KeyFacts, CodesStill DEF StoreInv
    <3>2. LoginsInv(s, u)'
      <4>1. k = Logins(s, u) /\ Logins(s, u) \notin disturbed' => \A c \in Call : ~LogsIn(c, s, u)
        BY <2>1, <1>2 DEF StoreInv, LockedInv
      <4> QED BY <2>1, <4>1, <1>2, <1>3, <1>4, KeyFacts, LoginsStill DEF StoreInv
    <3> QED BY <3>1, <3>2
  <2> QED BY <2>2, <2>3
<1> QED BY <1>1, <1>2, <1>3, <1>5, StillKeeps

LEMMA EvictKeeps ==
  ASSUME AccountInv, NEW k \in Key, Evict(k)
  PROVE  AccountInv'
<1> USE DEF AccountInv
<1>1. CountsTyped /\ disturbed \subseteq Topic /\ evicted \subseteq Key
  BY TypeParts DEF CountsTyped
<1>2. /\ UNCHANGED <<users, call, events, disturbed, lock, schema, lost, unseeded, verified>>
      /\ counter' = [counter EXCEPT ![k] = 0]
      /\ locked' = locked \ {k} /\ evicted' = evicted \cup {k}
  BY DEF Evict, startVars
<1>3. CountsTyped'
  BY <1>1, <1>2 DEF CountsTyped
<1>4. ASSUME NEW j \in Key
      PROVE  \/ /\ counter'[j] = counter[j] /\ events'[j] = events[j]
                /\ j \in locked => j \in locked'
                /\ j \in evicted => j \in evicted'
             \/ j \in evicted'
  BY <1>1, <1>2 DEF CountsTyped
<1>5. ASSUME NEW s \in Store
      PROVE  HourInv(s)' /\ \A u \in Name : CodesInv(s, u)' /\ LoginsInv(s, u)'
  <2>1. StoreInv(s)
    OBVIOUS
  <2>2. HourInv(s)'
    BY <2>1, <1>2, <1>4, KeyFacts, HourStill DEF StoreInv
  <2>3. ASSUME NEW u \in Name PROVE CodesInv(s, u)' /\ LoginsInv(s, u)'
    <3>1. CodesInv(s, u)'
      BY <2>1, <1>2, <1>4, KeyFacts, CodesStill DEF StoreInv
    <3>2. LoginsInv(s, u)'
      BY <2>1, <1>2, <1>3, <1>4, KeyFacts, LoginsStill DEF StoreInv
    <3> QED BY <3>1, <3>2
  <2> QED BY <2>2, <2>3
<1> QED BY <1>1, <1>2, <1>3, <1>5, StillKeeps

(* The lock of a start that is lost, or nothing.                            *)
LEMMA LoseLockKeeps ==
  ASSUME AccountInv,
         UNCHANGED <<users, counter, call, events, disturbed, schema, unseeded, signVars, evicted>>,
         UNCHANGED <<lock, lost>> \/ (lock' = None /\ lost' = TRUE)
  PROVE  AccountInv'
<1> USE DEF AccountInv
<1>1. CountsTyped /\ disturbed \subseteq Topic /\ evicted \subseteq Key
  BY TypeParts DEF CountsTyped
<1>2. ASSUME NEW s \in Store
      PROVE  HourInv(s)' /\ \A u \in Name : CodesInv(s, u)' /\ LoginsInv(s, u)'
  BY DEF StoreInv, HourInv, CodesInv, LoginsInv, Kept, Registers, GivesCode, LogsIn, signVars
<1>3. UNCHANGED <<users, call, schema, unseeded, verified, locked>> /\ CountsTyped'
  BY <1>1 DEF CountsTyped, signVars
<1> QED BY <1>1, <1>2, <1>3, StillKeeps

-----------------------------------------------------------------------------
(* The invariant of the account calls                                       *)

LEMMA InitAccountInv == Init => AccountInv
<1> SUFFICES ASSUME Init PROVE AccountInv
  OBVIOUS
<1> USE DEF AccountInv
<1>1. \A c \in Call : call[c].kind = "none" /\ call[c].pc = "idle"
  BY DEF Init, Idle
<1>2. \A c \in Call : Topics(c) = {} /\ RowInv(c) /\ StartInv(c)
  BY <1>1 DEF Topics, RowInv, StartInv, SecondFactor
<1>3. /\ \A c \in Call, s \in Store : ~Registers(c, s)
      /\ \A c \in Call, i \in Identity : ~SignsUp(c, i)
      /\ \A c \in Call, u \in Name : ~Edits(c, u)
      /\ \A c \in Call, s \in Store, u \in Name : ~GivesCode(c, s, u) /\ ~LogsIn(c, s, u)
  BY <1>1 DEF Registers, SignsUp, GivesCode, LogsIn, Edits, SecondFactor
<1>4. MaxRegister \in Nat /\ MaxCodes \in Nat /\ MaxFailures \in Nat \ {0}
  BY BoundAssumption
<1>5. /\ counter = [k \in Key |-> 0] /\ events = [k \in Key |-> 0] /\ disturbed = {}
      /\ lock = None /\ lost = FALSE /\ unseeded = {} /\ locked = {} /\ evicted = {}
  BY DEF Init
<1>6. \A k \in Key : counter[k] = 0 /\ events[k] = 0
  BY <1>5
<1>7. Exclusive /\ LockInv
  BY <1>2, <1>5 DEF Exclusive, LockInv
<1>8. UsersTyped /\ verified \subseteq Secret /\ schema \in {"none", "used"}
      /\ \A u \in Name : Taken(u) => users[u].sso = None /\ (users[u].on => users[u].secret \in verified)
  <2>1. CASE /\ schema = "none" /\ users = [u \in Name |-> NoRow] /\ verified = {}
    BY <2>1 DEF UsersTyped, Taken
  <2>2. CASE /\ schema = "used" /\ verified = {FirstSecret}
             /\ \E first \in {NoRow, NewRow(None, TRUE),
                              [NewRow(None, TRUE) EXCEPT !.secret = FirstSecret, !.on = TRUE]} :
                  users = [u \in Name |-> IF u \in {Admin, Demo} THEN NewRow(None, TRUE)
                                         ELSE IF u \in SsoName THEN first ELSE NoRow]
    <3> DEFINE plain == NewRow(None, TRUE)
               full  == [plain EXCEPT !.secret = FirstSecret, !.on = TRUE]
    <3>1. plain \in Row /\ plain.sso = None /\ plain.on = FALSE
      BY RowFacts
    <3>2. full \in Row /\ full.sso = None /\ full.secret = FirstSecret
      BY <3>1 DEF Row, Secret
    <3>3. PICK first \in {NoRow, plain, full} :
            users = [u \in Name |-> IF u \in {Admin, Demo} THEN plain
                                   ELSE IF u \in SsoName THEN first ELSE NoRow]
      BY <2>2
    <3> HIDE DEF plain, full
    <3>4. \A u \in Name : users[u] \in {NoRow, plain, full}
      BY <3>3
    <3> QED BY <2>2, <3>1, <3>2, <3>3, <3>4 DEF UsersTyped, Taken, Secret
  <2> QED BY <2>1, <2>2 DEF Init
<1>9. TypeOK
  <2>1. CallTyped
    BY IdleTyped DEF Init, CallTyped
  <2>2. counter \in [Key -> Nat] /\ events \in [Key -> Nat] /\ StartTyped
    BY <1>5, <1>8 DEF StartTyped
  <2> QED BY <2>1, <2>2, <1>5, <1>8, TypeParts
<1>10. ASSUME NEW s \in Store PROVE StoreInv(s)
  <2>1. HourInv(s)
    BY <1>3, <1>4, <1>6, KeyFacts DEF HourInv
  <2>2. ASSUME NEW u \in Name PROVE CodesInv(s, u) /\ LoginsInv(s, u) /\ LockedInv(s, u)
    <3>1. CodesInv(s, u)
      BY <1>3, <1>4, <1>6, KeyFacts DEF CodesInv
    <3>2. LoginsInv(s, u)
      BY <1>3, <1>4, <1>6, KeyFacts DEF LoginsInv
    <3> QED BY <3>1, <3>2, <1>5 DEF LockedInv
  <2> QED BY <2>1, <2>2 DEF StoreInv
<1>11. ASSUME NEW u \in Name PROVE FactorInv(u)
  BY <1>3, <1>8 DEF FactorInv
<1>12. ASSUME NEW i \in Identity PROVE SsoInv(i)
  <2>1. Rows(i) = {}
    BY <1>8, AbsenceAssumption DEF Rows
  <2> QED BY <2>1, <1>3 DEF SsoInv
<1> QED BY <1>2, <1>7, <1>9, <1>10, <1>11, <1>12

LEMMA NextAccountInv == AccountInv /\ [Next]_vars => AccountInv'
<1> SUFFICES ASSUME AccountInv, [Next]_vars PROVE AccountInv'
  OBVIOUS
<1>1. ASSUME NEW c \in Call, Step(c) PROVE AccountInv'
  <2>1. PICK s \in Store, n \in Name : call[c].store = s /\ call[c].name = n
    BY TypeParts DEF AccountInv, CallTyped, CallRecord
  <2>2. Notice(c) /\ UNCHANGED evicted
    BY <1>1 DEF Step
  <2>3. CASE AccountStep(c) /\ UNCHANGED <<startVars, signVars>>
    BY <2>1, <2>2, <2>3, RegisterKeeps, SsoKeeps DEF AccountStep
  <2>4. CASE StartStep(c) /\ UNCHANGED signVars
    BY <2>2, <2>4, StartKeeps
  <2>5. CASE SignStep(c) /\ UNCHANGED startVars
    <3>1. LoginStep(c) \/ FactorStep(c)
      BY <2>5 DEF SignStep, LoginStep, FactorStep
    <3> QED BY <2>1, <2>2, <2>5, <3>1, LoginKeeps, FactorKeeps
  <2> QED BY <1>1, <2>3, <2>4, <2>5 DEF Step
<1>2. ASSUME NEW c \in Call, Crash(c) PROVE AccountInv'
  BY <1>2, CrashKeeps
<1>3. ASSUME NEW c \in Call, Begins(c) PROVE AccountInv'
  BY <1>3, BeginKeeps
<1>4. ASSUME NEW k \in Key, Expire(k) PROVE AccountInv'
  BY <1>4, ExpireKeeps
<1>5. ASSUME NEW s \in Store, NEW u \in Name, LockEnds(Logins(s, u)) PROVE AccountInv'
  BY <1>5, LockEndsKeeps
<1>6. ASSUME NEW s \in Memory, NEW k \in KeysOf(s), Evict(k) PROVE AccountInv'
  <2>1. k \in Key
    BY StoreAssumption DEF Key
  <2> QED BY <1>6, <2>1, EvictKeeps
<1>7. CASE LoseLock /\ UNCHANGED <<disturbed, signVars, evicted>>
  BY <1>7, LoseLockKeeps DEF LoseLock, accountVars
<1>8. CASE UNCHANGED vars
  BY <1>8, LoseLockKeeps DEF vars, startVars
<1> QED BY <1>1, <1>2, <1>3, <1>4, <1>5, <1>6, <1>7, <1>8 DEF Next

-----------------------------------------------------------------------------
(* What follows                                                             *)

(* The inductive invariant holds in every behaviour, for any number of      *)
(* calls of every kind, names, identities and starts.                       *)
THEOREM AccountInvariant == Spec => []AccountInv
BY InitAccountInv, NextAccountInv, PTL DEF Spec

(* Every variable keeps its type, with the fields a call record carries.    *)
THEOREM AccountTypeCorrect == Spec => []TypeOK
<1>1. AccountInv => TypeOK
  BY DEF AccountInv
<1> QED BY AccountInvariant, <1>1, PTL

(* init_db migrates one process after the other as long as the server keeps *)
(* the lock's connection, and who came up finds the administrator.          *)
THEOREM StartsInOrder == Spec => []StartsAreOrdered
<1>1. AccountInv => StartsAreOrdered
  <2> SUFFICES ASSUME AccountInv PROVE StartsAreOrdered
    OBVIOUS
  <2>1. ASSUME ~lost, NEW c \in Call, Migrating(c) PROVE lock = c
    BY <2>1 DEF AccountInv, StartInv, Migrating
  <2>2. ASSUME NEW c \in Call \ unseeded, At(c, {"start"}, "up")
        PROVE  schema # "none" /\ Taken(Admin)
    BY <2>2 DEF AccountInv, StartInv, At
  <2>3. lock # None => Migrating(lock)
    BY DEF AccountInv, LockInv
  <2>4. ~lost => \A c, d \in Call : Migrating(c) /\ Migrating(d) => c = d
    BY <2>1
  <2> QED BY <2>2, <2>3, <2>4 DEF StartsAreOrdered
<1> QED BY AccountInvariant, <1>1, PTL

(* An identity has at most one account, unless two first sign-ins with it   *)
(* overlapped, or one was cut off.                                          *)
THEOREM OneAccountPerIdentity == Spec => []IdentityHasOneAccount
<1>1. AccountInv => IdentityHasOneAccount
  <2> SUFFICES ASSUME AccountInv, NEW i \in Identity, Sso(i) \notin disturbed
               PROVE  Cardinality(Rows(i)) <= 1
    BY DEF IdentityHasOneAccount
  <2>1. \A u, v \in Rows(i) : u = v
    BY DEF AccountInv, SsoInv
  <2>2. CASE Rows(i) = {}
    BY <2>2, FS_EmptySet
  <2>3. CASE \E u : u \in Rows(i)
    <3>1. PICK u : Rows(i) = {u}
      BY <2>1, <2>3
    <3>2. Cardinality(Rows(i)) = 1
      BY <3>1, FS_Singleton
    <3> QED BY <3>2
  <2> QED BY <2>2, <2>3
<1> QED BY AccountInvariant, <1>1, PTL

(* Where a process counts there are no more registrations in an hour, no    *)
(* more codes in a row and no more wrong passwords before a lock than the   *)
(* limits say, unless the calls that count there overlapped, one was cut    *)
(* off, or the memory dropped the count.                                    *)
THEOREM CountsWithinLimits == Spec => []LimitsUnlessDisturbed
<1>1. AccountInv => LimitsUnlessDisturbed
  <2> SUFFICES ASSUME AccountInv, NEW s \in Store, NEW u \in Name
               PROVE  /\ Kept(Hour(s)) => events[Hour(s)] <= MaxRegister
                      /\ Kept(Codes(s, u)) => events[Codes(s, u)] <= MaxCodes
                      /\ Kept(Logins(s, u)) => events[Logins(s, u)] <= MaxFailures
    BY DEF LimitsUnlessDisturbed, Kept
  <2>1. \A k \in Key : counter[k] \in Nat /\ events[k] \in Nat
    BY TypeParts DEF AccountInv
  <2>2. MaxRegister \in Nat /\ MaxCodes \in Nat /\ MaxFailures \in Nat
    BY BoundAssumption
  <2>3. HourInv(s) /\ CodesInv(s, u) /\ LoginsInv(s, u)
    BY DEF AccountInv, StoreInv
  <2>4. ASSUME Kept(Hour(s)) PROVE events[Hour(s)] <= MaxRegister
    <3>1. \/ /\ counter[Hour(s)] < MaxRegister
             /\ events[Hour(s)] \in {counter[Hour(s)], counter[Hour(s)] + 1}
          \/ events[Hour(s)] = counter[Hour(s)] /\ counter[Hour(s)] <= MaxRegister
      BY <2>3, <2>4 DEF HourInv, Registers
    <3> QED BY <3>1, <2>1, <2>2, KeyFacts
  <2>5. ASSUME Kept(Codes(s, u)) PROVE events[Codes(s, u)] <= MaxCodes
    <3>1. \/ /\ events[Codes(s, u)] = counter[Codes(s, u)]
             /\ counter[Codes(s, u)] < MaxCodes
          \/ /\ events[Codes(s, u)] + 1 = counter[Codes(s, u)]
             /\ counter[Codes(s, u)] <= MaxCodes
          \/ /\ events[Codes(s, u)] = counter[Codes(s, u)]
             /\ counter[Codes(s, u)] <= MaxCodes
      BY <2>3, <2>5 DEF CodesInv, GivesCode
    <3> QED BY <3>1, <2>1, <2>2, KeyFacts
  <2>6. ASSUME Kept(Logins(s, u)) PROVE events[Logins(s, u)] <= MaxFailures
    <3>1. events[Logins(s, u)] < MaxFailures \/ events[Logins(s, u)] <= MaxFailures
      BY <2>3, <2>6 DEF LoginsInv, LogsIn
    <3> QED BY <3>1, <2>1, <2>2, KeyFacts
  <2> QED BY <2>4, <2>5, <2>6
<1> QED BY AccountInvariant, <1>1, PTL

(* A second factor that is asked for is one its user has shown to own,      *)
(* unless set-up, enabling or disabling overlapped, or was cut off.         *)
THEOREM SecondFactorOwned == Spec => []EnrolledUnlessDisturbed
<1>1. AccountInv => EnrolledUnlessDisturbed
  BY DEF AccountInv, FactorInv, EnrolledUnlessDisturbed
<1> QED BY AccountInvariant, <1>1, PTL

(* Whoever ends a lock is at work on the name, which is locked.             *)
LEMMA LockStep ==
  ASSUME AccountInv, [Next]_vars, NEW k \in locked, k \notin locked'
  PROVE  k \in disturbed' \cup evicted' \/ UNCHANGED <<call, counter>>
<1>1. ASSUME NEW c \in Call, SignStep(c), Notice(c) PROVE k \in disturbed'
  <2>1. PICK s \in Store, u \in Name : call[c].store = s /\ call[c].name = u
    BY TypeParts DEF AccountInv, CallTyped, CallRecord
  <2>2. k = Logins(s, u) /\ LogsIn(c, s, u)
    BY <1>1, <2>1 DEF SignStep, AdminPassword, Password, WrongPassword, ReadFailures,
       WriteFailures, Reset, AdminReset, AdminLookup, AdminCreate, AskForFactor, LoginCode,
       WriteSetUp, WriteRate, RightCode, WrongCode, Load, WriteEnable, WriteDisable, Forget, At,
       LogsIn, signVars
  <2>3. k \in disturbed
    BY <2>2 DEF AccountInv, StoreInv, LockedInv
  <2> QED BY <1>1, <2>3 DEF Notice
<1>2. ASSUME NEW c \in Call, Step(c) PROVE k \in disturbed'
  BY <1>1, <1>2 DEF Step, signVars
<1>3. ASSUME NEW c \in Call, Crash(c) \/ Begins(c) PROVE FALSE
  BY <1>3 DEF Crash, Begins, Start, AccountBegins, Register, Channel, SsoCallback, SignBegins,
              Login, SetUp, CheckRate, signVars
<1>4. ASSUME NEW j \in Key, Expire(j) PROVE FALSE
  BY <1>4 DEF Expire, signVars
<1>5. ASSUME NEW j, LockEnds(j) PROVE UNCHANGED <<call, counter>>
  BY <1>5 DEF LockEnds
<1>6. ASSUME NEW j, Evict(j) PROVE k \in evicted'
  BY <1>6 DEF Evict
<1>7. CASE (LoseLock /\ UNCHANGED <<disturbed, signVars, evicted>>) \/ UNCHANGED vars
  BY <1>7 DEF vars, signVars
<1> QED BY <1>2, <1>3, <1>4, <1>5, <1>6, <1>7 DEF Next

(* A locked name stays locked until time unlocks it or the memory drops the *)
(* lock, unless two logins of the name overlapped or one was cut off:       *)
(* nobody is at work on a name that is locked.                              *)
THEOREM LocksStand == Spec => LockStands
<1>1. AccountInv /\ [Next]_vars =>
        [\A k \in locked \ locked' :
           \/ k \in disturbed' \cup evicted'
           \/ UNCHANGED <<call, counter>>]_vars
  BY LockStep
<1> QED BY AccountInvariant, <1>1, PTL DEF Spec, LockStands
=============================================================================
