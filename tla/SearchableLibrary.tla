-------------------------- MODULE SearchableLibrary --------------------------
(***************************************************************************)
(* What the ingestion pipeline promises about ONE document, seen from the  *)
(* readers' side (the documents routes list it once it is stored, the      *)
(* retriever finds it once it is embedded): a document is stored, may      *)
(* become searchable, may be deleted, and never comes back.  Ingestion.tla *)
(* is shown to implement this specification.                               *)
(***************************************************************************)
CONSTANT Documents

VARIABLE stage

Stages == {"unwritten", "stored", "searchable", "deleted"}

LibTypeOK == stage \in [Documents -> Stages]

LibInit == stage = [d \in Documents |-> "unwritten"]

Same(d) == stage'[d] = stage[d]
Store(d) == stage[d] = "unwritten" /\ stage'[d] = "stored"
Index(d) == stage[d] = "stored" /\ stage'[d] = "searchable"
Delete(d) == stage[d] \in {"stored", "searchable"} /\ stage'[d] = "deleted"

\* A transaction of an ingest task or of a wipe: documents appear, others go.
Publish ==
    /\ stage' \in [Documents -> Stages]
    /\ \A d \in Documents : Same(d) \/ Store(d) \/ Delete(d)

\* A transaction of an embedding task: stored documents become searchable.
IndexBatch ==
    /\ stage' \in [Documents -> Stages]
    /\ \A d \in Documents : Same(d) \/ Index(d)

LibNext == Publish \/ IndexBatch

LibSpec == LibInit /\ [][LibNext]_stage
==============================================================================
