------------------------------ MODULE Accounts ------------------------------
(***************************************************************************)
(* The users table, the counters beside it, and the calls that create      *)
(* accounts: registration, the first sign-in with an identity provider and *)
(* the first message of a WhatsApp number.                                 *)
(*                                                                         *)
(* Every call is executed once, by any of the server's processes.  A       *)
(* process counts in Redis, which it shares with the others, or, if it     *)
(* found none, in its own memory, which forgets what it cannot hold.  A    *)
(* step is what happens up to the next answer of the database or of Redis, *)
(* so that other calls come between a read and the write that relies on it.*)
(* StartUp and SignIn add the other calls that touch the table;            *)
(* AccountService runs them all together.                                  *)
(***************************************************************************)
EXTENDS Naturals, FiniteSets

CONSTANTS
  Call,         \* requests, webhooks and process starts
  Store,        \* where counts are kept: Redis, or the memory of a process
  Memory,       \* the stores that are memories
  Name,         \* usernames
  Admin, Demo,  \* settings.admin_username and settings.demo_username
  Asked,        \* bound: the names that requests and messages are about
  SsoName,      \* the names that identity providers give
  NextName,     \* name -> the same with the next number, None past the bound
  Identity,     \* (sso_provider, sso_id)
  FirstSecret,  \* the TOTP secret of an account that has one from the start
  None,
  MaxRegister,  \* max_per_hour
  MaxFailures,  \* LOGIN_MAX_ATTEMPTS
  MaxCodes,     \* TWO_FA_MAX_ATTEMPTS
  DemoEnabled   \* settings.demo_user_enabled

ASSUME StoreAssumption == Store # {} /\ Memory \subseteq Store

ASSUME NameAssumption ==
  /\ {Admin, Demo} \cup Asked \cup SsoName \subseteq Name
  /\ NextName \in [Name -> Name \cup {None}]

ASSUME BoundAssumption ==
  /\ {MaxRegister, MaxFailures, MaxCodes} \subseteq Nat \ {0}
  /\ DemoEnabled \in BOOLEAN

ASSUME AbsenceAssumption ==
  /\ FirstSecret \notin Call
  /\ None \notin Call \cup Name \cup Identity \cup {FirstSecret}

VARIABLES
  users,     \* the users table, by its unique username
  counter,   \* the counts, in every store
  call,      \* where each call stands, and what it has read
  events,    \* for the properties: what the counts are of
  disturbed  \* for the properties: what two calls have worked on at once, or
             \* one that was cut off

accountVars == <<users, counter, call, events>>

Secret == Call \cup {FirstSecret}
Row    == [sso : Identity \cup {None}, password : BOOLEAN,
           secret : Secret \cup {None}, on : BOOLEAN]
NoRow  == [none |-> None]

\* The keys of the counts, each of one store, and the names under which work on
\* a row is noted.
Hour(s)      == <<"hour", s>>
Logins(s, u) == <<"login", s, u>>
Codes(s, u)  == <<"code", s, u>>
Factor(u)    == <<"factor", u>>
Sso(i)       == <<"sso", i>>
KeysOf(s) ==
  {Hour(s)} \cup {Logins(s, u) : u \in Name} \cup {Codes(s, u) : u \in Name}
Key   == UNION {KeysOf(s) : s \in Store}
Topic == Key \cup {Factor(u) : u \in Name} \cup {Sso(i) : i \in Identity}

\* A row as create_user writes it.
NewRow(i, p) == [sso |-> i, password |-> p, secret |-> None, on |-> FALSE]

Taken(u) == users[u] # NoRow

Rows(i) == {u \in Name : Taken(u) /\ users[u].sso = i}

Insert(u, i, p) == users' = [users EXCEPT ![u] = NewRow(i, p)]

\* For a call that counts nothing.
AnyStore == CHOOSE s \in Store : TRUE

\* What a call that has not begun carries.
Idle == [kind |-> "none", pc |-> "idle", store |-> AnyStore, name |-> Admin,
         sso |-> None, n |-> 0, secret |-> None, on |-> FALSE]

At(c, kinds, l) == call[c].kind \in kinds /\ call[c].pc = l

\* s is the store of the process that runs the call.
Begin(c, k, s, u, i, l) ==
  /\ call[c].pc = "idle"
  /\ call' = [call EXCEPT ![c] =
                [Idle EXCEPT !.kind = k, !.pc = l, !.store = s, !.name = u, !.sso = i]]

MoveTo(c, l) == call' = [call EXCEPT ![c].pc = l]

\* A call that is answered, whatever the answer.
End(c) == call' = [call EXCEPT ![c] = [Idle EXCEPT !.pc = "done"]]

Happens(k) == events' = [events EXCEPT ![k] = @ + 1]

-----------------------------------------------------------------------------
(* Counting: rag_cache.get, and rag_cache.set with what was read plus one,  *)
(* in Redis or in the fallback, which answers without a pause.              *)

ReadCount(c, k) == call' = [call EXCEPT ![c].pc = "count", ![c].n = counter[k]]

WriteCount(c, k) == counter' = [counter EXCEPT ![k] = call[c].n + 1]

-----------------------------------------------------------------------------
(* register                                                                 *)

\* Mutant: one registration more than the limit.
RegisterOneMore(c, s, u) ==
  /\ counter[Hour(s)] <= MaxRegister
  /\ Begin(c, "register", s, u, None, "lookup")
  /\ UNCHANGED <<users, counter, events>>

\* check_register_rate; a call that is over the limit changes nothing.
Register(c, s, u) ==
  /\ counter[Hour(s)] < MaxRegister
  /\ Begin(c, "register", s, u, None, "lookup")
  /\ UNCHANGED <<users, counter, events>>

\* get_or_create_channel_user, of a WhatsApp message.
Channel(c, u) ==
  /\ Begin(c, "channel", AnyStore, u, None, "lookup")
  /\ UNCHANGED <<users, counter, events>>

\* get_user_by_username; a name that is taken ends a registration with 409 and
\* gives a channel its user.
Lookup(c) ==
  /\ At(c, {"register", "channel"}, "lookup")
  /\ IF Taken(call[c].name) THEN End(c) ELSE MoveTo(c, "create")
  /\ UNCHANGED <<users, counter, events>>

\* create_user; the unique index refuses the second of two.
Create(c) ==
  /\ At(c, {"register", "channel"}, "create")
  /\ IF Taken(call[c].name)
     THEN End(c) /\ UNCHANGED <<users, events>>
     ELSE /\ Insert(call[c].name, None, TRUE)
          /\ IF call[c].kind = "register"
             THEN MoveTo(c, "created") /\ Happens(Hour(call[c].store))
             ELSE End(c) /\ UNCHANGED events
  /\ UNCHANGED counter

\* increment_register_count.
ReadRegistered(c) ==
  /\ At(c, {"register"}, "created")
  /\ ReadCount(c, Hour(call[c].store))
  /\ UNCHANGED <<users, counter, events>>

WriteRegistered(c) ==
  /\ At(c, {"register"}, "count")
  /\ WriteCount(c, Hour(call[c].store))
  /\ End(c)
  /\ UNCHANGED <<users, events>>

-----------------------------------------------------------------------------
(* The callbacks of the identity providers                                  *)

\* The provider sends the user back with a code, for an identity and a name.
SsoCallback(c, u, i) ==
  /\ Begin(c, "sso", AnyStore, u, i, "exchange")
  /\ UNCHANGED <<users, counter, events>>

\* exchange_google_code or exchange_github_code: a token for the code, and the
\* user for the token.
Exchange(c) ==
  /\ At(c, {"sso"}, "exchange")
  /\ MoveTo(c, "lookup")
  /\ UNCHANGED <<users, counter, events>>

\* The provider answers with an error, or not in time, and the callback with 401.
ExchangeFails(c) ==
  /\ At(c, {"sso"}, "exchange")
  /\ End(c)
  /\ UNCHANGED <<users, counter, events>>

\* Mutant: a sign-in that should find its account registers one.
SsoLookupNothing(c) ==
  /\ At(c, {"sso"}, "lookup")
  /\ MoveTo(c, "name")
  /\ UNCHANGED <<users, counter, events>>

\* get_user_by_sso; scalar_one_or_none raises when there are two rows, and the
\* callback answers 401.
SsoLookup(c) ==
  /\ At(c, {"sso"}, "lookup")
  /\ IF Rows(call[c].sso) # {} THEN End(c) ELSE MoveTo(c, "name")
  /\ UNCHANGED <<users, counter, events>>

\* One turn of the loop that looks for a name nobody has.
SsoTryName(c) ==
  LET u == call[c].name IN
  /\ At(c, {"sso"}, "name")
  /\ \/ ~Taken(u) /\ MoveTo(c, "create")
     \/ /\ Taken(u) /\ NextName[u] # None
        /\ call' = [call EXCEPT ![c].name = NextName[u]]
  /\ UNCHANGED <<users, counter, events>>

SsoCreate(c) ==
  /\ At(c, {"sso"}, "create")
  /\ End(c)
  /\ IF Taken(call[c].name) THEN UNCHANGED users
     ELSE Insert(call[c].name, call[c].sso, FALSE)
  /\ UNCHANGED <<counter, events>>

-----------------------------------------------------------------------------
AccountBegins(c) ==
  \/ \E u \in Asked : Channel(c, u) \/ \E s \in Store : Register(c, s, u)
  \/ \E u \in SsoName, i \in Identity : SsoCallback(c, u, i)

AccountStep(c) ==
  \/ Lookup(c) \/ Create(c) \/ ReadRegistered(c) \/ WriteRegistered(c)
  \/ Exchange(c) \/ ExchangeFails(c)
  \/ SsoLookup(c) \/ SsoTryName(c) \/ SsoCreate(c)
=============================================================================
