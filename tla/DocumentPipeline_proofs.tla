----------------------- MODULE DocumentPipeline_proofs -----------------------
(***************************************************************************)
(* The safety properties of DocumentPipeline hold for any number of        *)
(* documents, deletions, tries and slots, with or without a foreign key.   *)
(***************************************************************************)
EXTENDS DocumentPipeline, TLAPS

\* What the stages of an upload say about file, row and job.
UploadInv(d) ==
  /\ up[d] \in {"idle", "saved"} => rec[d] = "none" /\ job[d] = "none"
  /\ up[d] = "inserted" => rec[d] # "none" /\ job[d] = "none"
  /\ up[d] = "saved" => d \in file
  /\ rec[d] = "none" => d \notin touched /\ job[d] = "none"
  /\ d \notin touched /\ rec[d] # "none" => d \in file

\* What the stages of a job say about the chunks: a run that has not stored
\* its own leaves room for one more set.
WorkInv(d) ==
  /\ wk[d] # "idle" <=> job[d] = "running"
  /\ copies[d] <= tries[d]
  /\ wk[d] \in {"started", "read"} => copies[d] < tries[d]
  /\ d \notin touched /\ (wk[d] = "ingested" \/ rec[d] = "ready") => copies[d] >= 1
  /\ HasFK /\ rec[d] = "deleted" => copies[d] = 0

DeleteInv(x) == at[x] # "idle" => target[x] \in touched

DocInv ==
  /\ TypeOK
  /\ \A d \in Doc : UploadInv(d) /\ WorkInv(d)
  /\ \A x \in Deleter : DeleteInv(x)

LEMMA InitDocInv == Init => DocInv
BY BoundAssumption DEF Init, DocInv, TypeOK, UploadInv, WorkInv, DeleteInv, RowStatus

(* The steps of an upload keep the invariant.                               *)
LEMMA UploadKeeps ==
  ASSUME DocInv, NEW d \in Doc, Upload(d) \/ UploadFails(d)
  PROVE  DocInv'
<1>1. CASE Save(d)
  BY <1>1 DEF Save, DocInv, TypeOK, UploadInv, WorkInv, DeleteInv, RowStatus,
     workVars, deleteVars, ghostVars
<1>2. CASE Insert(d)
  BY <1>2 DEF Insert, DocInv, TypeOK, UploadInv, WorkInv, DeleteInv, RowStatus,
     workVars, deleteVars, ghostVars
<1>3. CASE Enqueue(d)
  BY <1>3 DEF Enqueue, DocInv, TypeOK, UploadInv, WorkInv, DeleteInv, RowStatus,
     deleteVars, ghostVars
<1>4. CASE Reply(d)
  BY <1>4 DEF Reply, DocInv, TypeOK, UploadInv, WorkInv, DeleteInv, RowStatus,
     Exists, workVars, deleteVars, ghostVars
<1>5. CASE UploadFails(d)
  BY <1>5 DEF UploadFails, DocInv, TypeOK, UploadInv, WorkInv, DeleteInv,
     RowStatus, workVars, deleteVars
<1> QED BY <1>1, <1>2, <1>3, <1>4, <1>5 DEF Upload

(* The steps of the queue and of the worker keep the invariant.             *)
LEMMA WorkKeeps ==
  ASSUME DocInv, NEW d \in Doc,
         Take(d) \/ GiveUp(d) \/ Process(d) \/ Interrupt(d) \/ TimeOutJob(d)
  PROVE  DocInv'
<1> USE BoundAssumption, StoreAssumption
<1>1. CASE Take(d)
  BY <1>1 DEF Take, DocInv, TypeOK, UploadInv, WorkInv, DeleteInv, RowStatus,
     deleteVars, ghostVars
<1>2. CASE GiveUp(d)
  BY <1>2 DEF GiveUp, DocInv, TypeOK, UploadInv, WorkInv, DeleteInv, RowStatus,
     deleteVars
<1>3. CASE ReadFile(d) \/ WorkFails(d)
  BY <1>3 DEF ReadFile, WorkFails, DocInv, TypeOK, UploadInv, WorkInv, DeleteInv,
     RowStatus, uploadVars, deleteVars, ghostVars
<1>4. CASE Ingest(d)
  <2> PICK s \in {"ingested", "failing"} : wk' = [wk EXCEPT ![d] = s]
    BY <1>4 DEF Ingest
  <2> QED BY <1>4 DEF Ingest, DocInv, TypeOK, UploadInv, WorkInv, DeleteInv,
     RowStatus, Exists, uploadVars, deleteVars, ghostVars
<1>5. CASE MarkReady(d)
  <2> PICK s \in {"done", "failing"} : wk' = [wk EXCEPT ![d] = s]
    BY <1>5 DEF MarkReady
  <2> QED BY <1>5 DEF MarkReady, DocInv, TypeOK, UploadInv, WorkInv, DeleteInv,
     RowStatus, Exists, uploadVars, deleteVars, ghostVars
<1>6. CASE MarkError(d)
  BY <1>6 DEF MarkError, DocInv, TypeOK, UploadInv, WorkInv, DeleteInv,
     RowStatus, Exists, uploadVars, deleteVars, ghostVars
<1>7. CASE MarkErrorFails(d) \/ Complete(d)
  BY <1>7 DEF MarkErrorFails, Complete, DocInv, TypeOK, UploadInv, WorkInv,
     DeleteInv, RowStatus, uploadVars, deleteVars, ghostVars
<1>8. CASE Interrupt(d) \/ TimeOutJob(d)
  BY <1>8 DEF Interrupt, TimeOutJob, DocInv, TypeOK, UploadInv, WorkInv,
     DeleteInv, RowStatus, uploadVars, deleteVars, ghostVars
<1> QED BY <1>1, <1>2, <1>3, <1>4, <1>5, <1>6, <1>7, <1>8 DEF Process

(* The steps of a deletion keep the invariant.                              *)
LEMMA DeleteKeeps ==
  ASSUME DocInv, NEW x \in Deleter,
         \/ \E d \in Doc, own \in BOOLEAN : StartDelete(x, d, own)
         \/ DeleteFile(x) \/ DeleteChunks(x) \/ DeleteRecord(x) \/ DeleteFails(x)
  PROVE  DocInv'
<1> USE BoundAssumption, StoreAssumption
<1>1. CASE \E d \in Doc, own \in BOOLEAN : StartDelete(x, d, own)
  BY <1>1 DEF StartDelete, DocInv, TypeOK, UploadInv, WorkInv, DeleteInv,
     RowStatus, workVars
<1>a. ASSUME at[x] # "idle" PROVE target[x] \in touched /\ target[x] \in Doc
  BY <1>a DEF DocInv, TypeOK, DeleteInv
<1>2. CASE DeleteFile(x)
  BY <1>2, <1>a DEF DeleteFile, DocInv, TypeOK, UploadInv, WorkInv, DeleteInv,
     RowStatus, workVars, ghostVars
<1>3. CASE DeleteChunks(x)
  BY <1>3, <1>a DEF DeleteChunks, DocInv, TypeOK, UploadInv, WorkInv, DeleteInv,
     RowStatus, workVars, ghostVars
<1>4. CASE DeleteRecord(x)
  BY <1>4, <1>a DEF DeleteRecord, Leave, DocInv, TypeOK, UploadInv, WorkInv,
     DeleteInv, RowStatus, Exists, workVars, ghostVars
<1>5. CASE DeleteFails(x)
  BY <1>5 DEF DeleteFails, Leave, DocInv, TypeOK, UploadInv, WorkInv, DeleteInv,
     RowStatus, workVars, ghostVars
<1> QED BY <1>1, <1>2, <1>3, <1>4, <1>5

LEMMA NextDocInv == DocInv /\ [Next]_vars => DocInv'
<1> SUFFICES ASSUME DocInv, [Next]_vars PROVE DocInv'
  OBVIOUS
<1>1. CASE UNCHANGED vars
  BY <1>1 DEF vars, uploadVars, workVars, deleteVars, ghostVars, DocInv, TypeOK,
     UploadInv, WorkInv, DeleteInv
<1> QED BY <1>1, UploadKeeps, WorkKeeps, DeleteKeeps DEF Next

(* The inductive invariant that all the properties below follow from.       *)
THEOREM DocumentInvariant == Spec => []DocInv
BY InitDocInv, NextDocInv, PTL DEF Spec

(* Every variable of the pipeline keeps its type; in particular no document *)
(* ever has more chunk sets than the worker has tries.                      *)
THEOREM DocumentTypeCorrect == Spec => []TypeOK
<1>1. DocInv => TypeOK
  BY DEF DocInv
<1> QED BY DocumentInvariant, <1>1, PTL

(* "ready" means that the chunks are stored, up to a DELETE.                *)
THEOREM ReadyHasChunks == Spec => []ReadyIsIngested
<1>1. DocInv => ReadyIsIngested
  BY BoundAssumption DEF DocInv, ReadyIsIngested, WorkInv, TypeOK
<1> QED BY DocumentInvariant, <1>1, PTL

(* With the foreign key a deleted document has no chunks.                   *)
THEOREM DeletedHasNoChunks == Spec => []DeletedIsGone
<1>1. DocInv => DeletedIsGone
  BY DEF DocInv, DeletedIsGone, WorkInv
<1> QED BY DocumentInvariant, <1>1, PTL

(* A row has its file, up to a DELETE.                                      *)
THEOREM RowHasFile == Spec => []FileUntilDeleted
<1>1. DocInv => FileUntilDeleted
  BY DEF DocInv, FileUntilDeleted, UploadInv, Exists, RowStatus
<1> QED BY DocumentInvariant, <1>1, PTL
\* The step relation of StatusLifecycle.
StatusStep(d) ==
  rec'[d] # rec[d] =>
    \/ rec[d] = "none" /\ rec'[d] = "processing" /\ job[d] = "none"
    \/ Exists(d) /\ rec'[d] \in {"ready", "error"} /\ job[d] = "running"
    \/ Exists(d) /\ rec'[d] = "deleted"
         /\ \E x \in Deleter : target[x] = d /\ mine[x]

LEMMA NextStatusStep ==
  ASSUME DocInv, [Next]_vars, NEW d \in Doc
  PROVE  StatusStep(d)
<1>1. CASE UNCHANGED vars
  BY <1>1 DEF vars, StatusStep
<1>2. ASSUME NEW e \in Doc, Upload(e) \/ UploadFails(e)
      PROVE  StatusStep(d)
  BY <1>2 DEF Upload, Save, Insert, Enqueue, Reply, UploadFails, StatusStep,
     DocInv, UploadInv, TypeOK
<1>3. ASSUME NEW e \in Doc,
             Take(e) \/ GiveUp(e) \/ Process(e) \/ Interrupt(e) \/ TimeOutJob(e)
      PROVE  StatusStep(d)
  <2>1. CASE MarkReady(e) \/ MarkError(e)
    BY <1>3, <2>1 DEF MarkReady, MarkError, StatusStep, DocInv, WorkInv, TypeOK
  <2>2. CASE ~(MarkReady(e) \/ MarkError(e))
    BY <1>3, <2>2 DEF Take, GiveUp, Process, ReadFile, Ingest, WorkFails,
       MarkErrorFails, Complete, Interrupt, TimeOutJob, StatusStep
  <2> QED BY <2>1, <2>2
<1>4. ASSUME NEW x \in Deleter,
             \/ \E e \in Doc, own \in BOOLEAN : StartDelete(x, e, own)
             \/ DeleteFile(x) \/ DeleteChunks(x) \/ DeleteFails(x)
      PROVE  StatusStep(d)
  BY <1>4 DEF StartDelete, DeleteFile, DeleteChunks, DeleteFails, StatusStep
<1>5. ASSUME NEW x \in Deleter, DeleteRecord(x)
      PROVE  StatusStep(d)
  BY <1>5 DEF DeleteRecord, StatusStep, DocInv, TypeOK
<1> QED BY <1>1, <1>2, <1>3, <1>4, <1>5 DEF Next

(* A status goes from processing to ready or error, back and forth between  *)
(* the two only in a run of the job, and is final once the row is deleted.  *)
THEOREM StatusIsOrderly == Spec => StatusLifecycle
<1>1. DocInv /\ [Next]_vars => [\A d \in Doc : StatusStep(d)]_vars
  BY NextStatusStep
<1>2. [\A d \in Doc : StatusStep(d)]_vars =>
        [\A d \in Doc : rec'[d] # rec[d] =>
           \/ rec[d] = "none" /\ rec'[d] = "processing" /\ job[d] = "none"
           \/ Exists(d) /\ rec'[d] \in {"ready", "error"} /\ job[d] = "running"
           \/ Exists(d) /\ rec'[d] = "deleted"
                /\ \E x \in Deleter : target[x] = d /\ mine[x]]_vars
  BY DEF StatusStep
<1> QED BY DocumentInvariant, <1>1, <1>2, PTL DEF Spec, StatusLifecycle
=============================================================================
