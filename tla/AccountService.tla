--------------------------- MODULE AccountService ---------------------------
(***************************************************************************)
(* The calls of Accounts, StartUp and SignIn over one database and the     *)
(* stores of its processes, in any interleaving, with what time, a crash   *)
(* and a memory at its limit do to them.                                   *)
(***************************************************************************)
EXTENDS StartUp, SignIn

VARIABLE evicted  \* for the properties: the counts that a memory has dropped

vars == <<users, counter, call, events, disturbed, startVars, signVars, evicted>>

\* The work of a call that another must not come between: what it has read or
\* begun to write, and has not written to the end.
Topics(c) ==
  LET pc == call[c].pc
      u  == call[c].name
      s  == call[c].store
  IN CASE call[c].kind = "register" /\ pc \in {"lookup", "create", "created", "count"}
            -> {Hour(s)}
       [] call[c].kind = "sso" /\ pc \in {"name", "create"} -> {Sso(call[c].sso)}
       [] call[c].kind = "login"
            /\ pc \in {"password", "wrong", "count", "reset", "adminReset"}
            -> {Logins(s, u)}
       [] call[c].kind \in SecondFactor /\ pc \in {"count", "code"}
            -> {Codes(s, u)}
       [] call[c].kind \in {"setup", "enable", "disable"} /\ pc \in {"load", "write"}
            -> {Factor(u)}
       [] OTHER -> {}

\* For the properties: a step that leaves two calls at work on the same thing.
Notice(c) ==
  disturbed' = disturbed \cup (Topics(c)' \cap UNION {Topics(d)' : d \in Call \ {c}})

\* Where a call stands, of whichever kind.
Place ==
  {"idle", "done", "lookup", "create", "created", "count", "exchange", "name",
   "password", "wrong", "reset", "adminReset", "adminLookup", "adminCreate", "factor",
   "code", "load", "write", "wait", "migrate", "index", "up"} \cup Seeding

TypeOK ==
  /\ users \in [Name -> Row \cup {NoRow}]
  /\ counter \in [Key -> Nat]
  /\ events \in [Key -> Nat]
  /\ call \in [Call -> [kind : {"none", "start", "register", "channel", "sso", "login"}
                               \cup SecondFactor,
                        pc : Place, store : Store, name : Name, sso : Identity \cup {None}, n : Nat,
                        secret : Secret \cup {None}, on : BOOLEAN]]
  /\ disturbed \subseteq Topic
  /\ lock \in Call \cup {None}
  /\ schema \in {"none", "new", "used"}
  /\ lost \in BOOLEAN
  /\ unseeded \subseteq Call
  /\ locked \subseteq Key
  /\ verified \subseteq Secret
  /\ evicted \subseteq Key

\* A database without a schema, before the first start, or one that has been in
\* use: with both seeded accounts and others that have a second factor or not.
Init ==
  /\ counter = [k \in Key |-> 0]
  /\ events = [k \in Key |-> 0]
  /\ call = [c \in Call |-> Idle]
  /\ disturbed = {}
  /\ lock = None
  /\ lost = FALSE
  /\ unseeded = {}
  /\ locked = {}
  /\ evicted = {}
  /\ \/ /\ schema = "none"
        /\ users = [u \in Name |-> NoRow]
        /\ verified = {}
     \/ /\ schema = "used"
        /\ verified = {FirstSecret}
        /\ \E first \in {NoRow, NewRow(None, TRUE),
                         [NewRow(None, TRUE) EXCEPT !.secret = FirstSecret, !.on = TRUE]} :
             users = [u \in Name |-> IF u \in {Admin, Demo} THEN NewRow(None, TRUE)
                                    ELSE IF u \in SsoName THEN first ELSE NoRow]

\* A process serves when its init_db is through, and then others start.
Serving == schema = "used" \/ \E c \in Call : At(c, {"start"}, "up")

Busy(c) == call[c].pc \notin {"idle", "done", "up"}

\* A count's key runs out: at the end of an hour, or some minutes after the last
\* write, by when a lock has ended.
Expire(k) ==
  /\ k \notin locked
  /\ counter[k] > 0
  /\ counter' = [counter EXCEPT ![k] = 0]
  /\ events' = [events EXCEPT ![k] = 0]
  /\ evicted' = evicted \ {k}
  /\ disturbed' = disturbed \cup ({k} \cap UNION {Topics(c) : c \in Call})
  /\ UNCHANGED <<users, call, startVars, signVars>>

\* Time again: the failures of a name are counted anew towards its next lock.
LockEnds(k) ==
  /\ k \in locked
  /\ locked' = locked \ {k}
  /\ events' = [events EXCEPT ![k] = 0]
  /\ UNCHANGED <<users, counter, call, disturbed, startVars, verified, evicted>>

\* SimpleCache holds 128 entries and drops the one least recently used, and all
\* of them when the process stops.
Evict(k) ==
  /\ counter[k] > 0
  /\ counter' = [counter EXCEPT ![k] = 0]
  /\ locked' = locked \ {k}
  /\ evicted' = evicted \cup {k}
  /\ UNCHANGED <<users, call, events, disturbed, startVars, verified>>

\* The process of a call is killed: the database drops its connections, with
\* the lock, and what the call has not written is never written.
Crash(c) ==
  /\ Busy(c)
  /\ Release(c)
  /\ End(c)
  /\ disturbed' = disturbed \cup Topics(c)
  /\ UNCHANGED <<users, counter, events, schema, lost, unseeded, signVars, evicted>>

Step(c) ==
  /\ \/ AccountStep(c) /\ UNCHANGED <<startVars, signVars>>
     \/ StartStep(c) /\ UNCHANGED signVars
     \/ SignStep(c) /\ UNCHANGED startVars
  /\ Notice(c)
  /\ UNCHANGED evicted

Begins(c) ==
  /\ \/ Start(c) /\ UNCHANGED signVars
     \/ Serving /\ AccountBegins(c) /\ UNCHANGED <<startVars, signVars>>
     \/ Serving /\ SignBegins(c) /\ UNCHANGED startVars
  /\ Notice(c)
  /\ UNCHANGED evicted

Next ==
  \/ \E c \in Call : Begins(c) \/ Step(c) \/ Crash(c)
  \/ LoseLock /\ UNCHANGED <<disturbed, signVars, evicted>>
  \/ \E k \in Key : Expire(k)
  \/ \E s \in Store, u \in Name : LockEnds(Logins(s, u))
  \/ \E s \in Memory : \E k \in KeysOf(s) : Evict(k)

Spec == Init /\ [][Next]_vars

-----------------------------------------------------------------------------
(* Two accounts have one identity only when two first sign-ins with it      *)
(* overlapped, or one was cut off; from then on get_user_by_sso raises at   *)
(* every sign-in.                                                           *)
IdentityHasOneAccount ==
  \A i \in Identity : Sso(i) \notin disturbed => Cardinality(Rows(i)) <= 1

(* An account that asks for a second factor has one its user has shown to   *)
(* own, unless set-up, enabling or disabling overlapped, or was cut off.    *)
EnrolledUnlessDisturbed ==
  \A u \in Name : Taken(u) /\ users[u].on /\ Factor(u) \notin disturbed =>
    users[u].secret \in verified

(* Where a process counts - in Redis, or in its own memory when it found    *)
(* none - there are no more accounts an hour, no more codes in a row and no *)
(* more wrong passwords before a lock than the limits say, unless the calls *)
(* that count there overlapped, one was cut off between what it counts and  *)
(* its count, or the memory dropped the count.                              *)
LimitsUnlessDisturbed ==
  \A s \in Store, u \in Name :
    LET Kept(k) == k \notin disturbed \cup evicted IN
    /\ Kept(Hour(s))      => events[Hour(s)] <= MaxRegister
    /\ Kept(Codes(s, u))  => events[Codes(s, u)] <= MaxCodes
    /\ Kept(Logins(s, u)) => events[Logins(s, u)] <= MaxFailures

(* The lock of a name ends with time, or with the memory that drops it, and *)
(* with no call, unless two logins of the name overlapped or one was cut    *)
(* off: neither a right password nor a failed one undoes it.                *)
LockStands ==
  [][\A k \in locked \ locked' :
       \/ k \in disturbed' \cup evicted'
       \/ UNCHANGED <<call, counter>>]_vars

(* Two processes migrate at once only when the server dropped the lock's    *)
(* connection, and a process that came up without an error in its seeds     *)
(* finds the administrator, whoever wrote the row.                          *)
StartsAreOrdered ==
  /\ lock # None => Migrating(lock)
  /\ ~lost => \A c, d \in Call : Migrating(c) /\ Migrating(d) => c = d
  /\ \A c \in Call \ unseeded : At(c, {"start"}, "up") => schema # "none" /\ Taken(Admin)
=============================================================================
