-------------------------- MODULE DocumentPipeline --------------------------
(***************************************************************************)
(* A document's life: upload, background ingestion and deletion            *)
(* (services/document_service.py, services/tasks.py, worker.py,            *)
(* rag/ingestion/processor.py).  Four stores are changed one after the     *)
(* other with nothing that ties them together: the files, the documents    *)
(* table, the job queue and the vector store.                              *)
(*                                                                         *)
(* Each action is one call of a store.  A call that raises may or may not  *)
(* have taken effect.  A document's chunks are written by one transaction  *)
(* (or one upsert), so they count as one set: copies[d] sets are stored.   *)
(***************************************************************************)
EXTENDS Naturals, FiniteSets

CONSTANTS
  Doc,      \* the uploads
  Deleter,  \* DELETE requests that may be open at the same time
  NoDoc,    \* the target of a DELETE request that is not open
  HasFK,    \* chunks refer to documents ON DELETE CASCADE: only in pgvector
  MaxTries, \* arq's max_tries, which WorkerSettings leaves at its default
  MaxJobs   \* WorkerSettings["max_jobs"]

ASSUME BoundAssumption ==
  /\ MaxTries \in Nat \ {0}
  /\ MaxJobs \in Nat \ {0}

ASSUME StoreAssumption == HasFK \in BOOLEAN

ASSUME NoDocAssumption == NoDoc \notin Doc

VARIABLES
  file,      \* the documents whose file the storage backend holds
  rec,       \* the documents row: its status, or why there is none
  copies,    \* how many chunk sets of the document the vector store holds
  up,        \* where the upload request stands
  job,       \* the process_document job as the queue sees it
  tries,     \* how often the worker has taken it
  wk,        \* where the worker stands in it
  at,        \* where each DELETE request stands
  target,    \* the document it names
  mine,      \* its caller owns that document
  \* What the properties remember:
  touched,   \* a DELETE request has named the document
  abandoned  \* no job will ever settle its status

uploadVars == <<up, file>>
workVars   == <<job, tries, wk>>
deleteVars == <<at, target, mine>>
ghostVars  == <<touched, abandoned>>
vars == <<uploadVars, rec, copies, workVars, deleteVars, ghostVars>>

RowStatus == {"processing", "ready", "error"}

TypeOK ==
  /\ file \in SUBSET Doc
  /\ rec \in [Doc -> RowStatus \cup {"none", "deleted"}]
  /\ copies \in [Doc -> 0..MaxTries]
  /\ up \in [Doc -> {"idle", "saved", "inserted", "enqueued", "returned", "failed"}]
  /\ job \in [Doc -> {"none", "queued", "running", "over"}]
  /\ tries \in [Doc -> 0..MaxTries]
  /\ wk \in [Doc -> {"idle", "started", "read", "ingested", "failing", "done"}]
  /\ at \in [Deleter -> {"idle", "file", "chunks", "record"}]
  /\ target \in [Deleter -> Doc \cup {NoDoc}]
  /\ mine \in [Deleter -> BOOLEAN]
  /\ touched \in SUBSET Doc
  /\ abandoned \in SUBSET Doc

Init ==
  /\ file = {}
  /\ rec = [d \in Doc |-> "none"]
  /\ copies = [d \in Doc |-> 0]
  /\ up = [d \in Doc |-> "idle"]
  /\ job = [d \in Doc |-> "none"]
  /\ tries = [d \in Doc |-> 0]
  /\ wk = [d \in Doc |-> "idle"]
  /\ at = [x \in Deleter |-> "idle"]
  /\ target = [x \in Deleter |-> NoDoc]
  /\ mine = [x \in Deleter |-> FALSE]
  /\ touched = {}
  /\ abandoned = {}

Exists(d) == rec[d] \in RowStatus

-----------------------------------------------------------------------------
(* DocumentService.upload                                                   *)

Save(d) ==
  /\ up[d] = "idle"
  /\ up' = [up EXCEPT ![d] = "saved"]
  /\ file' = file \cup {d}
  /\ UNCHANGED <<rec, copies, workVars, deleteVars, ghostVars>>

\* Mutant: the row is inserted before the file is saved.
InsertBeforeSave(d) ==
  /\ up[d] = "idle"
  /\ up' = [up EXCEPT ![d] = "inserted"]
  /\ rec' = [rec EXCEPT ![d] = "processing"]
  /\ UNCHANGED <<file, copies, workVars, deleteVars, ghostVars>>

Insert(d) ==
  /\ up[d] = "saved"
  /\ up' = [up EXCEPT ![d] = "inserted"]
  /\ rec' = [rec EXCEPT ![d] = "processing"]
  /\ UNCHANGED <<file, copies, workVars, deleteVars, ghostVars>>

Enqueue(d) ==
  /\ up[d] = "inserted"
  /\ up' = [up EXCEPT ![d] = "enqueued"]
  /\ job' = [job EXCEPT ![d] = "queued"]
  /\ UNCHANGED <<file, rec, copies, tries, wk, deleteVars, ghostVars>>

\* _get_doc reads the row back, and raises when a DELETE has been faster.
Reply(d) ==
  /\ up[d] = "enqueued"
  /\ up' = [up EXCEPT ![d] = IF Exists(d) THEN "returned" ELSE "failed"]
  /\ UNCHANGED <<file, rec, copies, workVars, deleteVars, ghostVars>>

(* A step raises, or the backend process dies: nothing is rolled back, and  *)
(* a row whose job was never enqueued stays "processing".                   *)
UploadFails(d) ==
  /\ up[d] \in {"idle", "saved", "inserted", "enqueued"}
  /\ up' = [up EXCEPT ![d] = "failed"]
  /\ abandoned' = IF up[d] = "inserted" THEN abandoned \cup {d} ELSE abandoned
  /\ UNCHANGED <<file, rec, copies, workVars, deleteVars, touched>>

-----------------------------------------------------------------------------
(* The arq worker and process_document                                      *)

HasSlot == Cardinality({d \in Doc : job[d] = "running"}) < MaxJobs

\* Mutant: a job is run again however often it was taken.
TakeForEver(d) ==
  /\ job[d] = "queued"
  /\ HasSlot
  /\ job' = [job EXCEPT ![d] = "running"]
  /\ tries' = [tries EXCEPT ![d] = @ + 1]
  /\ wk' = [wk EXCEPT ![d] = "started"]
  /\ UNCHANGED <<file, rec, copies, up, deleteVars, ghostVars>>

Take(d) ==
  /\ job[d] = "queued"
  /\ HasSlot
  /\ tries[d] < MaxTries
  /\ job' = [job EXCEPT ![d] = "running"]
  /\ tries' = [tries EXCEPT ![d] = @ + 1]
  /\ wk' = [wk EXCEPT ![d] = "started"]
  /\ UNCHANGED <<file, rec, copies, up, deleteVars, ghostVars>>

\* A job taken MaxTries times is dropped by arq without a call.
GiveUp(d) ==
  /\ job[d] = "queued"
  /\ HasSlot
  /\ tries[d] = MaxTries
  /\ job' = [job EXCEPT ![d] = "over"]
  /\ abandoned' = abandoned \cup {d}
  /\ UNCHANGED <<file, rec, copies, up, tries, wk, deleteVars, touched>>

ReadFile(d) ==
  /\ wk[d] = "started"
  /\ d \in file
  /\ wk' = [wk EXCEPT ![d] = "read"]
  /\ UNCHANGED <<uploadVars, rec, copies, job, tries, deleteVars, ghostVars>>

\* Mutant: chunks stored as though every vector store had the foreign key.
IngestUnchecked(d) ==
  /\ wk[d] = "read"
  /\ copies' = [copies EXCEPT ![d] = @ + 1]
  /\ wk' = [wk EXCEPT ![d] = "ingested"]
  /\ UNCHANGED <<uploadVars, rec, job, tries, deleteVars, ghostVars>>

(* IngestionProcessor.process: the chunks get fresh ids, so that a second   *)
(* run adds a second set.  pgvector refuses them once the row is gone.      *)
Ingest(d) ==
  /\ wk[d] = "read"
  /\ HasFK => Exists(d)
  /\ copies' = [copies EXCEPT ![d] = @ + 1]
  /\ wk' \in {[wk EXCEPT ![d] = s] : s \in {"ingested", "failing"}}
  /\ UNCHANGED <<uploadVars, rec, job, tries, deleteVars, ghostVars>>

\* Mutants: the row is written back without asking whether it still exists;
\* it says "ready" before the chunks are stored.
ReadyUnconditionally(d) ==
  /\ wk[d] = "ingested"
  /\ rec' = [rec EXCEPT ![d] = "ready"]
  /\ wk' = [wk EXCEPT ![d] = "done"]
  /\ UNCHANGED <<uploadVars, copies, job, tries, deleteVars, ghostVars>>

ReadyBeforeIngest(d) ==
  /\ wk[d] \in {"read", "ingested"}
  /\ rec' = [rec EXCEPT ![d] = IF Exists(d) THEN "ready" ELSE @]
  /\ wk' = [wk EXCEPT ![d] = "done"]
  /\ UNCHANGED <<uploadVars, copies, job, tries, deleteVars, ghostVars>>

(* The row's last word on success.  A row deleted since is left alone,      *)
(* whether the select or the rowcount of the update notices.                *)
MarkReady(d) ==
  /\ wk[d] = "ingested"
  /\ rec' = [rec EXCEPT ![d] = IF Exists(d) THEN "ready" ELSE @]
  /\ wk' \in {[wk EXCEPT ![d] = s] : s \in {"done", "failing"}}
  /\ UNCHANGED <<uploadVars, copies, job, tries, deleteVars, ghostVars>>

\* The file is gone, the loader, the safety check, the embedding or a store
\* raises: on to the handler, which keeps whatever has been stored.
WorkFails(d) ==
  /\ wk[d] \in {"started", "read", "ingested"}
  /\ wk' = [wk EXCEPT ![d] = "failing"]
  /\ UNCHANGED <<uploadVars, rec, copies, job, tries, deleteVars, ghostVars>>

\* Mutant: the handler logs the error and raises it again, no more.
ErrorNotMarked(d) ==
  /\ wk[d] = "failing"
  /\ wk' = [wk EXCEPT ![d] = "done"]
  /\ UNCHANGED <<uploadVars, rec, copies, job, tries, deleteVars, ghostVars>>

MarkError(d) ==
  /\ wk[d] = "failing"
  /\ rec' = [rec EXCEPT ![d] = IF Exists(d) THEN "error" ELSE @]
  /\ wk' = [wk EXCEPT ![d] = "done"]
  /\ UNCHANGED <<uploadVars, copies, job, tries, deleteVars, ghostVars>>

\* The handler's own session raises: the status keeps its old value.
MarkErrorFails(d) ==
  /\ wk[d] = "failing"
  /\ wk' = [wk EXCEPT ![d] = "done"]
  /\ abandoned' = abandoned \cup {d}
  /\ UNCHANGED <<uploadVars, rec, copies, job, tries, deleteVars, touched>>

\* arq records the result; an exception other than Retry is final.
Complete(d) ==
  /\ wk[d] = "done"
  /\ job' = [job EXCEPT ![d] = "over"]
  /\ wk' = [wk EXCEPT ![d] = "idle"]
  /\ UNCHANGED <<uploadVars, rec, copies, tries, deleteVars, ghostVars>>

(* The worker stops or dies, at any point: CancelledError passes by "except *)
(* Exception", and the job is in the queue again.                           *)
Interrupt(d) ==
  /\ job[d] = "running"
  /\ job' = [job EXCEPT ![d] = "queued"]
  /\ wk' = [wk EXCEPT ![d] = "idle"]
  /\ UNCHANGED <<uploadVars, rec, copies, tries, deleteVars, ghostVars>>

(* job_timeout: the same CancelledError, but arq counts the job as failed.  *)
TimeOutJob(d) ==
  /\ job[d] = "running"
  /\ job' = [job EXCEPT ![d] = "over"]
  /\ wk' = [wk EXCEPT ![d] = "idle"]
  /\ abandoned' = abandoned \cup {d}
  /\ UNCHANGED <<uploadVars, rec, copies, tries, deleteVars, touched>>

-----------------------------------------------------------------------------
(* DocumentService.delete                                                   *)

Leave(x) ==
  /\ at' = [at EXCEPT ![x] = "idle"]
  /\ target' = [target EXCEPT ![x] = NoDoc]
  /\ mine' = [mine EXCEPT ![x] = FALSE]

StartDelete(x, d, own) ==
  /\ at[x] = "idle"
  /\ rec[d] # "none"
  /\ at' = [at EXCEPT ![x] = "file"]
  /\ target' = [target EXCEPT ![x] = d]
  /\ mine' = [mine EXCEPT ![x] = own]
  /\ touched' = touched \cup {d}
  /\ UNCHANGED <<file, rec, copies, up, workVars, abandoned>>

\* The path holds the caller's id, and a failure is swallowed.
DeleteFile(x) ==
  /\ at[x] = "file"
  /\ file' = file \/ (mine[x] /\ file' = file \ {target[x]})
  /\ at' = [at EXCEPT ![x] = "chunks"]
  /\ UNCHANGED <<rec, copies, up, workVars, target, mine, ghostVars>>

\* The chunks go before anything is asked about the row.
DeleteChunks(x) ==
  /\ at[x] = "chunks"
  /\ copies' = [copies EXCEPT ![target[x]] = 0]
  /\ at' = [at EXCEPT ![x] = "record"]
  /\ UNCHANGED <<file, rec, up, workVars, target, mine, ghostVars>>

DeleteRecord(x) ==
  LET d == target[x] IN
  /\ at[x] = "record"
  /\ \/ /\ Exists(d) /\ mine[x]
        /\ rec' = [rec EXCEPT ![d] = "deleted"]
        /\ copies' = [copies EXCEPT ![d] = IF HasFK THEN 0 ELSE @]
     \/ /\ ~(Exists(d) /\ mine[x])
        /\ UNCHANGED <<rec, copies>>
  /\ Leave(x)
  /\ UNCHANGED <<file, up, workVars, ghostVars>>

DeleteFails(x) ==
  /\ at[x] \in {"file", "chunks", "record"}
  /\ Leave(x)
  /\ UNCHANGED <<file, rec, copies, up, workVars, ghostVars>>

-----------------------------------------------------------------------------
Upload(d) == Save(d) \/ Insert(d) \/ Enqueue(d) \/ Reply(d)

Process(d) ==
  \/ ReadFile(d)
  \/ Ingest(d)
  \/ MarkReady(d)
  \/ WorkFails(d)
  \/ MarkError(d)
  \/ MarkErrorFails(d)
  \/ Complete(d)

Next ==
  \/ \E d \in Doc :
       \/ Upload(d)
       \/ UploadFails(d)
       \/ Take(d)
       \/ GiveUp(d)
       \/ Process(d)
       \/ Interrupt(d)
       \/ TimeOutJob(d)
  \/ \E x \in Deleter :
       \/ \E d \in Doc, own \in BOOLEAN : StartDelete(x, d, own)
       \/ DeleteFile(x)
       \/ DeleteChunks(x)
       \/ DeleteRecord(x)
       \/ DeleteFails(x)

Spec == Init /\ [][Next]_vars

(* A request makes its calls or dies; the worker is restarted whenever it   *)
(* stops, and job_timeout bounds every call that process_document makes.    *)
Fairness ==
  \A d \in Doc :
    /\ WF_vars(Upload(d) \/ UploadFails(d))
    /\ SF_vars(Take(d) \/ GiveUp(d))
    /\ WF_vars(Process(d) \/ TimeOutJob(d))

FairSpec == Spec /\ Fairness

-----------------------------------------------------------------------------
(* A row that says "ready" has its chunks in the store, unless a DELETE has *)
(* named the document: at least one set, and at most one per run of the     *)
(* job, since a run that is interrupted after it stored them leaves them.   *)
ReadyIsIngested ==
  \A d \in Doc \ touched : rec[d] = "ready" => copies[d] \in 1..tries[d]

(* With the foreign key no chunk outlives its row, however the deletion     *)
(* interleaves with a worker that is about to store chunks.                 *)
DeletedIsGone ==
  HasFK => \A d \in Doc : rec[d] = "deleted" => copies[d] = 0

(* A row whose document no DELETE has named has its file, so that each      *)
(* run of the job can read it again.                                        *)
FileUntilDeleted == \A d \in Doc \ touched : Exists(d) => d \in file

(* What the row's status may do: it starts as "processing", only a running  *)
(* job settles it, only a DELETE by the owner removes the row, and a worker *)
(* that was still busy does not bring it back.                              *)
StatusLifecycle ==
  [][\A d \in Doc : rec'[d] # rec[d] =>
       \/ rec[d] = "none" /\ rec'[d] = "processing" /\ job[d] = "none"
       \/ Exists(d) /\ rec'[d] \in {"ready", "error"} /\ job[d] = "running"
       \/ Exists(d) /\ rec'[d] = "deleted"
            /\ \E x \in Deleter : target[x] = d /\ mine[x]]_vars

(* A status does not stay "processing", whatever is interrupted, unless the *)
(* job was never enqueued, ran out of time or of tries, or could not write  *)
(* its error down.                                                          *)
ProcessingSettles ==
  \A d \in Doc :
    rec[d] = "processing" ~> (rec[d] # "processing" \/ d \in abandoned)
=============================================================================
