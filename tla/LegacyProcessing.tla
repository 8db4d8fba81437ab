-------------------------- MODULE LegacyProcessing --------------------------
(***************************************************************************)
(* The legacy ProcessingJob of one RFP: the retry route that creates it,    *)
(* process_document_task, process_job_pipeline_async with its commits, and  *)
(* extract_requirements_from_document, which writes Requirement rows that   *)
(* no human decided.  ingestion_status is checked once, at the start; the   *)
(* pages and the requirements are replaced several commits later.           *)
(***************************************************************************)
EXTENDS ExtractionStore

CONSTANT JOB_MAX_RETRIES   \* ProcessingJob.max_attempts

ASSUME RetriesAssumption == JOB_MAX_RETRIES \in Nat \ {0}

VARIABLES
    legacy,     \* the job: pc, status, attempts
    processing, \* Document.processing_status
    machine     \* Requirement rows without a candidate exist

legacyVars == <<legacy, processing, machine>>

LegacyStep == {"none", "queued", "check", "extract", "delete", "insert",
               "requirements", "finish", "failing", "ended"}
JobStatus == {"QUEUED", "RUNNING", "RETRYING", "SUCCEEDED", "FAILED"}

LegacyTypeOK ==
    /\ legacy \in [pc : LegacyStep, status : JobStatus, attempts : Nat]
    /\ processing \in {"completed", "pending", "processing", "failed"}
    /\ machine \in BOOLEAN

LegacyInit ==
    /\ legacy = [pc |-> "none", status |-> "QUEUED", attempts |-> 0]
    /\ processing = "completed"
    /\ machine = FALSE

LegacyAt(step) == legacy.pc = step
LegacyGoTo(step) == legacy' = [legacy EXCEPT !.pc = step]

\* Mutant: the rows of the deleted pages' candidates stay locked.
FreeLegacyRowsPagesOnly == pageLock' = Nobody /\ UNCHANGED rowLock

FreeLegacyRows ==
    /\ pageLock' = Nobody
    /\ rowLock' = [c \in Candidates |-> IF rowLock[c] = Legacy THEN Nobody ELSE rowLock[c]]

\* An UPDATE of the Document row, or an INSERT that names it, waits for the
\* extraction that holds the row FOR UPDATE.
DocumentFree == docLock = Nobody

\* The except branch: roll back; RETRYING and arq's Retry while attempts are
\* left, otherwise on to the FAILED commit.
LegacyFails ==
    /\ FreeLegacyRows
    /\ legacy' = IF legacy.attempts < JOB_MAX_RETRIES
                 THEN [legacy EXCEPT !.pc = "queued", !.status = "RETRYING"]
                 ELSE [legacy EXCEPT !.pc = "failing"]
    /\ UNCHANGED <<content, docLock, processing, machine>>

LegacyGivesUp ==
    /\ LegacyAt("failing") /\ DocumentFree
    /\ legacy' = [legacy EXCEPT !.pc = "ended", !.status = "FAILED"]
    /\ processing' = "failed"
    /\ UNCHANGED <<tables, machine>>

\* retry_document_processing_action with enqueue_job.
RetryDocument ==
    /\ LegacyAt("none") /\ ingestion = "CLEAN" /\ DocumentFree
    /\ legacy' = [legacy EXCEPT !.pc = "queued", !.status = "QUEUED"]
    /\ processing' = "pending"
    /\ UNCHANGED <<tables, machine>>

LegacyStarts ==
    /\ LegacyAt("queued")
    /\ legacy' = [pc |-> "check", status |-> "RUNNING",
                  attempts |-> legacy.attempts + 1]
    /\ UNCHANGED <<tables, processing, machine>>

LegacyChecks ==
    /\ LegacyAt("check")
    /\ \/ /\ ingestion = "CLEAN" /\ DocumentFree
          /\ LegacyGoTo("extract") /\ processing' = "processing"
          /\ UNCHANGED <<tables, machine>>
       \/ ingestion # "CLEAN" /\ LegacyFails

LegacyExtracts ==
    /\ LegacyAt("extract")
    /\ \/ LegacyGoTo("delete") /\ UNCHANGED <<tables, processing, machine>>
       \/ LegacyFails

\* DELETE of the pages: the cascade locks every candidate, or fails because a
\* Requirement names one.  One statement, taken to get its locks at once.
LegacyDeletesPages ==
    /\ LegacyAt("delete")
    /\ \A c \in Candidates : rowLock[c] = Nobody
    /\ \/ /\ PagesDeletable
          /\ pageLock' = Legacy
          /\ rowLock' = [c \in Candidates |-> IF Exists(c) THEN Legacy ELSE Nobody]
          /\ LegacyGoTo("insert")
          /\ UNCHANGED <<content, docLock, processing, machine>>
       \/ ~PagesDeletable /\ LegacyFails

\* The commit writes doc.content as well.
LegacyInsertsPages ==
    /\ LegacyAt("insert") /\ DocumentFree
    /\ candidate' = [c \in Candidates |->
            IF rowLock[c] = Legacy THEN NoCandidate ELSE candidate[c]]
    /\ pages' = [generation |-> pages.generation + 1, hashed |-> FALSE]
    /\ FreeLegacyRows
    /\ LegacyGoTo("requirements")
    /\ UNCHANGED <<ingestion, run, promoted, docLock, processing, machine>>

\* DELETE of every Requirement of the document, then the machine's own; one
\* transaction, committed by extract_requirements_from_document.
LegacyWritesRequirements ==
    /\ LegacyAt("requirements")
    /\ \/ /\ DocumentFree
          /\ promoted' = {} /\ machine' = TRUE
          /\ LegacyGoTo("finish")
          /\ UNCHANGED <<ingestion, pages, run, candidate, docLock, pageLock, rowLock, processing>>
       \/ LegacyFails

LegacyFinishes ==
    /\ LegacyAt("finish") /\ DocumentFree
    /\ legacy' = [legacy EXCEPT !.pc = "ended", !.status = "SUCCEEDED"]
    /\ processing' = "completed"
    /\ UNCHANGED <<tables, machine>>

\* The worker dies and arq delivers the job again.  Bound: the code does not
\* compare attempts with the maximum when it starts.
LegacyCrash ==
    /\ legacy.pc \notin {"none", "queued", "ended"}
    /\ legacy.attempts <= JOB_MAX_RETRIES
    /\ FreeLegacyRows
    /\ LegacyGoTo("queued")
    /\ UNCHANGED <<content, docLock, processing, machine>>

LegacyStepOf ==
    \/ LegacyStarts \/ LegacyChecks \/ LegacyExtracts \/ LegacyDeletesPages
    \/ LegacyInsertsPages \/ LegacyWritesRequirements \/ LegacyFinishes
    \/ LegacyGivesUp
=============================================================================
