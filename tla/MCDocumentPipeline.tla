------------------------- MODULE MCDocumentPipeline -------------------------
(* Documents meet only at the job slots, so what is deleted while others    *)
(* are there behaves as it does alone: the model has one document that      *)
(* DELETE requests name, or several that none names.  d1 is the first, any  *)
(* document being as good as another.                                       *)
EXTENDS DocumentPipeline

CONSTANT d1

Uploaded(d) == up[d] \notin {"idle", "failed"} \/ rec[d] # "none"

OneOrUndeleted ==
  LET others == {d \in Doc \ {d1} : Uploaded(d)}
  IN others # {} => touched = {} /\ rec[d1] # "none"

MCNext == Next /\ OneOrUndeleted'

MCFairSpec == Init /\ [][MCNext]_vars /\ Fairness
=============================================================================
