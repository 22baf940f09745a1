------------------------------ MODULE Retrieval ------------------------------
(***************************************************************************)
(* What a question is answered from: the experiment that its user falls    *)
(* into, and the retriever with its cache, for one query and one user.     *)
(*                                                                         *)
(* Documents come and go as DocumentPipeline says; neither that nor a      *)
(* change of an experiment touches the cache.                              *)
(***************************************************************************)
EXTENDS Requests

CONSTANTS
  Doc,         \* documents that match the query
  Setting,     \* what an experiment's config can be
  Plain,       \* DEFAULT_CONFIG
  Percent,     \* what traffic_percent can be
  UserBucket,  \* _user_bucket of the user
  CacheTtl,    \* cache_ttl_seconds, in minutes
  MaxHold,     \* bound: minutes from resolve_config to the result's storing
  MaxChanges   \* bound: changes of documents and of the experiment

ASSUME RetrievalAssumption ==
  /\ Percent \subseteq Nat
  /\ {UserBucket, CacheTtl, MaxHold, MaxChanges} \subseteq Nat
  /\ Plain \notin Setting

VARIABLES
  docs,        \* the documents in the vector store
  experiment,  \* the rows of the experiments table: none, or one
  cache,       \* rag_cache: a configuration's name -> entries, none or one
  since,       \* for the properties: minutes since a document or the experiment changed
  changes      \* how many changes there were

sourceVars == <<docs, experiment, cache, since, changes>>

Group  == {"default", "experiment"}
Row    == [active : BOOLEAN, percent : Percent, setting : Setting]
Entry  == [docs : SUBSET Doc, setting : Setting \cup {Plain}, left : 0..CacheTtl]
Aspect == Doc \cup {"experiment"}
Stale  == CacheTtl + MaxHold + 1

-----------------------------------------------------------------------------
(* A question                                                               *)

\* The active rows whose share of the buckets holds the user's.
Mine == {e \in experiment : e.active /\ UserBucket < e.percent}

\* resolve_config, which names the configuration after the experiment.
Resolve(r) ==
  /\ At(r, "config")
  /\ req' = [req EXCEPT ![r].pc = "lookup",
               ![r].group = IF Mine = {} THEN "default" ELSE "experiment",
               ![r].setting = IF Mine = {} THEN Plain ELSE (CHOOSE e \in Mine : TRUE).setting]
  /\ UNCHANGED sourceVars

\* rag_cache.get, under the query, the user and the configuration's name: what
\* it finds was retrieved with the configuration of that time.
CacheHit(r) ==
  /\ At(r, "lookup")
  /\ \E e \in cache[req[r].group] :
       req' = [req EXCEPT ![r].pc = "prompt", ![r].docs = e.docs, ![r].setting = e.setting]
  /\ UNCHANGED sourceVars

CacheMiss(r) ==
  /\ At(r, "lookup")
  /\ cache[req[r].group] = {}
  /\ MoveTo(r, "search")
  /\ UNCHANGED sourceVars

\* embed_query and similarity_search.
Search(r) ==
  /\ At(r, "search")
  /\ req' = [req EXCEPT ![r].pc = "put", ![r].docs = docs]
  /\ UNCHANGED sourceVars

\* rag_cache.set, with all of its time to live before it.
CachePut(r) ==
  /\ At(r, "put")
  /\ MoveTo(r, "prompt")
  /\ cache' = [cache EXCEPT ![req[r].group] =
                 {[docs |-> req[r].docs, setting |-> req[r].setting, left |-> CacheTtl]}]
  /\ UNCHANGED <<docs, experiment, since, changes>>

\* The embedding's provider, the database or a suspicious document.
RetrievalFails(r) ==
  /\ req[r].pc \in {"config", "search", "put"}
  /\ MoveTo(r, "failed")
  /\ UNCHANGED sourceVars

-----------------------------------------------------------------------------
(* What changes beside the questions                                        *)

Changed(a) ==
  /\ changes < MaxChanges
  /\ changes' = changes + 1
  /\ since' = [since EXCEPT ![a] = 0]

DocumentReady(d) ==
  /\ d \notin docs
  /\ docs' = docs \cup {d}
  /\ Changed(d)
  /\ UNCHANGED <<req, experiment, cache>>

DocumentDeleted(d) ==
  /\ d \in docs
  /\ docs' = docs \ {d}
  /\ Changed(d)
  /\ UNCHANGED <<req, experiment, cache>>

\* create_experiment; the name is unique.
CreateExperiment ==
  /\ experiment = {}
  /\ \E p \in Percent, s \in Setting :
       experiment' = {[active |-> TRUE, percent |-> p, setting |-> s]}
  /\ Changed("experiment")
  /\ UNCHANGED <<req, docs, cache>>

\* update_experiment writes the fields that it is given.
UpdateExperiment ==
  /\ \E e \in experiment, a \in BOOLEAN, p \in Percent, s \in Setting :
       /\ e # [active |-> a, percent |-> p, setting |-> s]
       /\ experiment' = {[active |-> a, percent |-> p, setting |-> s]}
  /\ Changed("experiment")
  /\ UNCHANGED <<req, docs, cache>>

DeleteExperiment ==
  /\ experiment # {}
  /\ experiment' = {}
  /\ Changed("experiment")
  /\ UNCHANGED <<req, docs, cache>>

\* Mutant: the entries do not age.
AgeNothing ==
  /\ cache' = cache
  /\ since' = [a \in Aspect |-> IF since[a] < Stale THEN since[a] + 1 ELSE Stale]

\* A minute passes: an entry that has used up its time is gone.
Age ==
  /\ cache' = [g \in Group |->
                 {[e EXCEPT !.left = @ - 1] : e \in {x \in cache[g] : x.left > 0}}]
  /\ since' = [a \in Aspect |-> IF since[a] < Stale THEN since[a] + 1 ELSE Stale]

-----------------------------------------------------------------------------
SourceStep(r) ==
  \/ Resolve(r) \/ CacheHit(r) \/ CacheMiss(r) \/ Search(r) \/ CachePut(r)
  \/ RetrievalFails(r)

SourcesChange ==
  \/ \E d \in Doc : DocumentReady(d) \/ DocumentDeleted(d)
  \/ CreateExperiment \/ UpdateExperiment \/ DeleteExperiment
=============================================================================
