------------------------------- MODULE StartUp -------------------------------
(***************************************************************************)
(* init_db, which every uvicorn process and the arq worker run before they *)
(* serve: the migration under an advisory lock of the database, with       *)
(* retries, and then the two accounts that the settings name, which are    *)
(* looked up and written without the lock.                                 *)
(***************************************************************************)
EXTENDS Accounts

CONSTANT MaxAttempts  \* RETRY_MAX_ATTEMPTS

ASSUME AttemptAssumption == MaxAttempts \in Nat \ {0}

VARIABLES
  lock,      \* who holds pg_advisory_lock(MIGRATION_LOCK_KEY)
  schema,    \* "none", "new" from a start of these, or "used" before them
  lost,      \* for the properties: has the server dropped a lock's connection?
  unseeded   \* for the properties: the starts whose seeding failed

startVars == <<lock, schema, lost, unseeded>>

Migrating(c) == call[c].kind = "start" /\ call[c].pc \in {"migrate", "index"}
Seeding      == {"admin", "insertAdmin", "demo", "insertDemo", "syncDemo"}

Release(c) == lock' = IF lock = c THEN None ELSE lock

Start(c) ==
  /\ Begin(c, "start", AnyStore, Admin, None, "wait")
  /\ UNCHANGED <<users, counter, events, startVars>>

\* Mutant: nobody waits for the lock.
LockTaken(c) ==
  /\ At(c, {"start"}, "wait")
  /\ lock' = c
  /\ MoveTo(c, "migrate")
  /\ UNCHANGED <<users, counter, events, schema, lost, unseeded>>

\* pg_advisory_lock, and the extensions.
Lock(c) ==
  /\ At(c, {"start"}, "wait")
  /\ lock = None
  /\ lock' = c
  /\ MoveTo(c, "migrate")
  /\ UNCHANGED <<users, counter, events, schema, lost, unseeded>>

\* command.upgrade, in an executor and over a connection of its own.
Upgrade(c) ==
  /\ At(c, {"start"}, "migrate")
  /\ schema' = IF schema = "none" THEN "new" ELSE schema
  /\ MoveTo(c, "index")
  /\ UNCHANGED <<users, counter, events, lock, lost, unseeded>>

\* The indexes, and pg_advisory_unlock over the connection that holds the lock.
Unlock(c) ==
  /\ At(c, {"start"}, "index")
  /\ lock = c
  /\ lock' = None
  /\ MoveTo(c, "admin")
  /\ UNCHANGED <<users, counter, events, schema, lost, unseeded>>

\* An OperationalError leaves the try by its finally and is retried by
\* _execute_with_retry up to the last attempt; any other error is raised, and
\* the process gives up.
Retry(c) ==
  /\ call[c].kind = "start" /\ call[c].pc \in {"wait", "migrate", "index"}
  /\ Release(c)
  /\ IF call[c].n + 1 < MaxAttempts
     THEN call' = [call EXCEPT ![c].pc = "wait", ![c].n = @ + 1]
     ELSE End(c)
  /\ UNCHANGED <<users, counter, events, schema, lost, unseeded>>

GiveUp(c) ==
  /\ Migrating(c)
  /\ Release(c)
  /\ End(c)
  /\ UNCHANGED <<users, counter, events, schema, lost, unseeded>>

\* The connection that holds the lock breaks; the upgrade goes on over its own.
LoseLock ==
  /\ lock # None
  /\ lock' = None
  /\ lost' = TRUE
  /\ UNCHANGED <<accountVars, schema, unseeded>>

-----------------------------------------------------------------------------
(* The seeds                                                                *)

\* seed_admin_user.
LookForAdmin(c) ==
  /\ At(c, {"start"}, "admin")
  /\ MoveTo(c, IF Taken(Admin) THEN "demo" ELSE "insertAdmin")
  /\ UNCHANGED <<users, counter, events, startVars>>

\* The process that comes second meets the unique index, and init_db goes on
\* with a warning.
InsertAdmin(c) ==
  /\ At(c, {"start"}, "insertAdmin")
  /\ IF Taken(Admin) THEN UNCHANGED users ELSE Insert(Admin, None, TRUE)
  /\ MoveTo(c, "demo")
  /\ UNCHANGED <<counter, events, startVars>>

\* seed_demo_user.
LookForDemo(c) ==
  /\ At(c, {"start"}, "demo")
  /\ IF ~DemoEnabled THEN MoveTo(c, "up")
     ELSE MoveTo(c, IF Taken(Demo) THEN "syncDemo" ELSE "insertDemo")
  /\ UNCHANGED <<users, counter, events, startVars>>

InsertDemo(c) ==
  /\ At(c, {"start"}, "insertDemo")
  /\ IF Taken(Demo) THEN UNCHANGED users ELSE Insert(Demo, None, TRUE)
  /\ MoveTo(c, "up")
  /\ UNCHANGED <<counter, events, startVars>>

\* The demo account's password is set to the configured one.
SyncDemo(c) ==
  /\ At(c, {"start"}, "syncDemo")
  /\ users' = [users EXCEPT ![Demo].password = TRUE]
  /\ MoveTo(c, "up")
  /\ UNCHANGED <<counter, events, startVars>>

\* Any other error of a seed is a warning as well.
SeedFails(c) ==
  /\ call[c].kind = "start" /\ call[c].pc \in Seeding
  /\ IF call[c].pc \in {"admin", "insertAdmin"} THEN MoveTo(c, "demo") ELSE MoveTo(c, "up")
  /\ unseeded' = unseeded \cup {c}
  /\ UNCHANGED <<users, counter, events, lock, schema, lost>>

-----------------------------------------------------------------------------
StartStep(c) ==
  \/ Lock(c) \/ Upgrade(c) \/ Unlock(c) \/ Retry(c) \/ GiveUp(c)
  \/ LookForAdmin(c) \/ InsertAdmin(c)
  \/ LookForDemo(c) \/ InsertDemo(c) \/ SyncDemo(c) \/ SeedFails(c)
=============================================================================
