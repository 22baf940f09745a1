-------------------------------- MODULE Pages --------------------------------
(***************************************************************************)
(* The documents page and the settings page of the web client, with their  *)
(* stores: what they show, and the requests they make.  A call of a store  *)
(* awaits one request after the other; the page does not wait for one call *)
(* to end before it takes the next.                                        *)
(*                                                                         *)
(* The server's side is what these pages can tell: which documents it has, *)
(* of which it lists the newest, and the active provider of each of its    *)
(* processes, any of which may answer a request and which chat streams     *)
(* move too.  The rest is in DocumentPipeline and ProviderRouter.          *)
(***************************************************************************)
EXTENDS Naturals, FiniteSets

CONSTANTS
  Op,        \* calls of the stores
  Doc,
  PageSize,  \* limit: how many documents a list has at most
  Provider,
  Server,    \* the uvicorn processes, each with its ProviderRouter
  Nothing    \* null

VARIABLES
  documents, isUploading,  \* useDocumentStore
  activeProvider,          \* useSettingsStore
  op,         \* the calls
  stored,     \* the server's documents
  created,    \* created_at: which documents were there when one was created
  active,     \* _active_provider of each process
  since,      \* for the properties: the lists read since the last change
  shows,      \* for the properties: what the page shows, see Change and TakeList
  overtaken   \* for the properties: switches whose process has moved on since

documentVars == <<documents, isUploading, stored, created, since, shows>>
settingVars  == <<activeProvider, active, overtaken>>
pageVars     == <<documentVars, settingVars, op>>

Idle == [kind |-> "none", pc |-> "idle", name |-> Nothing, server |-> Nothing,
         from |-> Nothing, list |-> {}, told |-> Nothing]

At(o, kinds, l) == op[o].kind \in kinds /\ op[o].pc = l

Begin(o, k, l, n) ==
  /\ op[o].pc = "idle"
  /\ op' = [op EXCEPT ![o] = [Idle EXCEPT !.kind = k, !.pc = l, !.name = n]]

MoveTo(o, l) == op' = [op EXCEPT ![o].pc = l]
Reject(o)    == op' = [op EXCEPT ![o] = [Idle EXCEPT !.kind = op[o].kind, !.pc = "rejected"]]
End(o)       == op' = [op EXCEPT ![o] = Idle]

\* The newest documents, by created_at.
Listed ==
  {d \in Doc :
     /\ stored[d] = "there"
     /\ Cardinality({e \in Doc : stored[e] = "there" /\ d \in created[e]}) < PageSize}

\* For the properties: the server's documents have changed, and no list has
\* been read since; l says whether one is asked for.
Change(l) == since' = {} /\ shows' = l

\* For the properties: nobody asks for the list after o's change.
Forgo(o) ==
  /\ since' = since \ {o}
  /\ shows' = IF shows = "older" /\ op[o].kind \in {"upload", "delete"} THEN "unasked" ELSE shows

PagesInit ==
  /\ documents = {}
  /\ isUploading = FALSE
  /\ activeProvider = Nothing
  /\ op = [o \in Op |-> Idle]
  /\ stored \in [Doc -> {"unborn", "there"}]
  /\ \E age \in [Doc -> 1 .. Cardinality(Doc)] :
       /\ \A d, e \in Doc : d # e => age[d] # age[e]
       /\ created = [d \in Doc |-> {e \in Doc : stored[d] = "there" /\ stored[e] = "there"
                                          /\ age[e] > age[d]}]
  /\ since = {}
  /\ shows = "unasked"
  /\ active \in [Server -> {Nothing}]
  /\ overtaken = {}

-----------------------------------------------------------------------------
(* useDocumentStore                                                         *)

\* useDocuments, when the page or the chat's panel is mounted.
ShowDocuments(o) ==
  /\ Begin(o, "show", "list", Nothing)
  /\ UNCHANGED <<documentVars, settingVars>>

\* A file is dropped or chosen, whether or not another is being uploaded.
Upload(o) ==
  /\ Begin(o, "upload", "sent", Nothing)
  /\ isUploading' = TRUE
  /\ UNCHANGED <<documents, stored, created, since, shows, settingVars>>

\* The button beside a document.
DeleteDocument(o, d) ==
  /\ d \in documents
  /\ Begin(o, "delete", "sent", d)
  /\ UNCHANGED <<documentVars, settingVars>>

\* upload_document: refused for its extension, its size or its content.
RefuseUpload(o) ==
  /\ At(o, {"upload"}, "sent")
  /\ Reject(o)
  /\ UNCHANGED <<documentVars, settingVars>>

\* upload: the row is there, and then the job may not be queued.
ServeUpload(o, d) ==
  /\ At(o, {"upload"}, "sent")
  /\ stored[d] = "unborn"
  /\ stored' = [stored EXCEPT ![d] = "there"]
  /\ created' = [created EXCEPT ![d] = {e \in Doc : stored[e] = "there"}]
  /\ \/ op' = [op EXCEPT ![o].pc = "answered", ![o].name = d] /\ Change("older")
     \/ Reject(o) /\ Change("unasked")
  /\ UNCHANGED <<documents, isUploading, settingVars>>

\* delete_document, which answers 404 the second time.
ServeDelete(o) ==
  LET d == op[o].name IN
  /\ At(o, {"delete"}, "sent")
  /\ IF stored[d] = "there" THEN MoveTo(o, "answered") /\ Change("older")
     ELSE Reject(o) /\ UNCHANGED <<since, shows>>
  /\ stored' = [stored EXCEPT ![d] = "gone"]
  /\ UNCHANGED <<documents, isUploading, created, settingVars>>

\* get().fetchDocuments().
Confirmed(o) ==
  /\ At(o, {"upload", "delete"}, "answered")
  /\ MoveTo(o, "list")
  /\ UNCHANGED <<documentVars, settingVars>>

\* list_documents.
ServeList(o) ==
  /\ op[o].pc = "list"
  /\ op' = [op EXCEPT ![o].pc = "listed", ![o].list = Listed]
  /\ since' = since \cup {o}
  /\ UNCHANGED <<documents, isUploading, stored, created, shows, settingVars>>

\* What the page shows when it has taken the list of o: the newest one, or an
\* older one, which may take the place of the newest.
Shown(o) ==
  IF o \in since THEN "newest" ELSE IF shows = "newest" THEN "reordered" ELSE shows

\* Mutant: the list is added to the one that is shown.
TakeListAdding(o) ==
  /\ op[o].pc = "listed"
  /\ documents' = documents \cup op[o].list
  /\ isUploading' = IF op[o].kind = "upload" THEN FALSE ELSE isUploading
  /\ since' = since \ {o}
  /\ shows' = Shown(o)
  /\ End(o)
  /\ UNCHANGED <<stored, created, settingVars>>

\* The list arrives; an upload ends with its finally.
TakeList(o) ==
  /\ op[o].pc = "listed"
  /\ documents' = op[o].list
  /\ isUploading' = IF op[o].kind = "upload" THEN FALSE ELSE isUploading
  /\ since' = since \ {o}
  /\ shows' = Shown(o)
  /\ End(o)
  /\ UNCHANGED <<stored, created, settingVars>>

-----------------------------------------------------------------------------
(* useSettingsStore                                                         *)

\* useProviders.
ShowProviders(o) ==
  /\ Begin(o, "settings", "providers", Nothing)
  /\ UNCHANGED <<documentVars, settingVars>>

\* The button beside a provider, which gives up the one that is active.
SwitchProvider(o, n) ==
  /\ Begin(o, "switch", "sent", IF n = activeProvider THEN Nothing ELSE n)
  /\ UNCHANGED <<documentVars, settingVars>>

\* For the properties: what a switch of p has set is not what p has any more.
Overtake(p) ==
  overtaken' = overtaken \cup {q \in Op : op[q].server = p /\ op[q].pc # "told"}

\* Mutant: null is taken for a request without a provider.
ServeSwitchOn(o, p) ==
  LET n == op[o].name IN
  /\ At(o, {"switch"}, "sent")
  /\ active' = [active EXCEPT ![p] = IF n = Nothing THEN @ ELSE n]
  /\ op' = [op EXCEPT ![o].pc = "answered", ![o].server = p]
  /\ Overtake(p)
  /\ UNCHANGED <<documentVars, activeProvider>>

\* switch_provider, in one of the processes.
ServeSwitch(o, p) ==
  /\ At(o, {"switch"}, "sent")
  /\ active' = [active EXCEPT ![p] = op[o].name]
  /\ op' = [op EXCEPT ![o].pc = "answered", ![o].server = p]
  /\ Overtake(p)
  /\ UNCHANGED <<documentVars, activeProvider>>

\* generate_stream of a chat, whoever's: the provider that is found available
\* becomes the active one of the process.
StreamMoves(p, n) ==
  /\ active' = [active EXCEPT ![p] = n]
  /\ Overtake(p)
  /\ UNCHANGED <<documentVars, activeProvider, op>>

Switched(o) ==
  /\ At(o, {"switch"}, "answered")
  /\ activeProvider' = op[o].name
  /\ MoveTo(o, "providers")
  /\ UNCHANGED <<documentVars, active, overtaken>>

\* providerService.list.
ServeProviders(o) ==
  /\ op[o].pc = "providers"
  /\ MoveTo(o, "active")
  /\ UNCHANGED <<documentVars, settingVars>>

\* providerService.getActive, the same request once more.
ServeActive(o, p) ==
  /\ op[o].pc = "active"
  /\ op' = [op EXCEPT ![o].pc = "told", ![o].from = p, ![o].told = active[p]]
  /\ UNCHANGED <<documentVars, settingVars>>

TakeActive(o) ==
  /\ op[o].pc = "told"
  /\ activeProvider' = op[o].told
  /\ overtaken' = overtaken \ {o}
  /\ End(o)
  /\ UNCHANGED <<documentVars, active>>

-----------------------------------------------------------------------------
(* A request that fails, on its way or on the way back, rejects the call;   *)
(* only the upload has anything left to do.                                 *)
Fail(o) ==
  /\ op[o].pc \notin {"idle", "rejected"}
  /\ Reject(o)
  /\ IF op[o].pc = "sent" THEN UNCHANGED <<since, shows>> ELSE Forgo(o)
  /\ overtaken' = overtaken \ {o}
  /\ UNCHANGED <<documents, isUploading, stored, created, activeProvider, active>>

TakeError(o) ==
  /\ op[o].pc = "rejected"
  /\ isUploading' = IF op[o].kind = "upload" THEN FALSE ELSE isUploading
  /\ End(o)
  /\ UNCHANGED <<documents, stored, created, since, shows, settingVars>>

DocumentsNext ==
  \E o \in Op :
    \/ ShowDocuments(o) \/ Upload(o) \/ (\E d \in Doc : DeleteDocument(o, d))
    \/ RefuseUpload(o) \/ (\E d \in Doc : ServeUpload(o, d)) \/ ServeDelete(o)
    \/ Confirmed(o) \/ ServeList(o) \/ TakeList(o)
    \/ Fail(o) \/ TakeError(o)

SettingsNext ==
  \/ \E o \in Op :
       \/ ShowProviders(o) \/ (\E n \in Provider : SwitchProvider(o, n))
       \/ Switched(o) \/ ServeProviders(o) \/ TakeActive(o)
       \/ (\E p \in Server : ServeSwitch(o, p) \/ ServeActive(o, p))
       \/ Fail(o) \/ TakeError(o)
  \/ \E p \in Server, n \in Provider : StreamMoves(p, n)

-----------------------------------------------------------------------------
(* When no call is under way the page shows the newest documents that the  *)
(* server has, however the calls overlapped, unless the list that came last *)
(* was older than one that had come before it, or the call of the last      *)
(* change was rejected and did not ask for the list.                        *)
NewestAtRest ==
  (\A o \in Op : op[o].pc = "idle") =>
    documents = Listed \/ shows \in {"reordered", "unasked"}

(* A switch ends with the provider that it named shown as the active one,   *)
(* unless another process was asked than the one that was told, or that one *)
(* had been told another since, or had moved on in a chat stream.           *)
SwitchIsShown ==
  [][\A o \in Op : At(o, {"switch"}, "told") /\ op'[o].pc = "idle" =>
       \/ activeProvider' = op[o].name
       \/ op[o].from # op[o].server
       \/ o \in overtaken]_pageVars
=============================================================================
