---------------------------- MODULE UploadIntake ----------------------------
(***************************************************************************)
(* The upload request: project_service.upload_rfp_document and the knowledge*)
(* upload route, document_ingestion.ingest_uploaded_document, and the       *)
(* scan-enqueue recovery path of core/queue.py, which runs in the same      *)
(* request thread (the routes are plain `def`, so enqueue_scan_job takes    *)
(* its asyncio.run branch).  One request per document.                      *)
(***************************************************************************)
EXTENDS DocumentStore

VARIABLES
    upload,        \* upload[d]: where the request that uploads d is
    projectLock,   \* document whose request holds the ProposalProject row lock
    peekAttempts   \* scan_attempt_count the recovery path has loaded

uploadVars == <<upload, projectLock, peekAttempts>>

UploadStep ==
    {"none", "checked", "streamed", "quarantined", "validating", "enqueue",
     "recover", "recovering", "retry", "done", "failed", "dead"}

\* The request has ended, or has not begun.
UploadOver(d) == upload[d] \in {"none", "done", "failed", "dead"}

UploadTypeOK ==
    /\ upload \in [Docs -> UploadStep]
    /\ projectLock \in Docs \cup {NoOne}
    /\ peekAttempts \in [Docs -> Nat]

UploadInit ==
    /\ upload = [d \in Docs |-> "none"]
    /\ projectLock = NoOne
    /\ peekAttempts = [d \in Docs |-> 0]

At(d, step) == upload[d] = step
GoTo(d, step) == upload' = [upload EXCEPT ![d] = step]
ReleaseProject(d) == projectLock' = IF projectLock = d THEN NoOne ELSE projectLock

-----------------------------------------------------------------------------
\* Mutant: the project row is read without FOR UPDATE.
UploadRfpUnlocked(d) ==
    /\ At(d, "none") /\ d \in Rfps
    /\ \A e \in Docs : ~ActiveRfp(e)
    /\ GoTo(d, "checked")
    /\ UNCHANGED <<storeVars, projectLock, peekAttempts>>

\* upload_rfp_document: lock the project row, refuse if an active RFP exists.
\* A refused request changes nothing, so it is not a step.
UploadRfp(d) ==
    /\ At(d, "none") /\ d \in Rfps
    /\ projectLock = NoOne
    /\ \A e \in Docs : ~ActiveRfp(e)
    /\ projectLock' = d
    /\ GoTo(d, "checked")
    /\ UNCHANGED <<storeVars, peekAttempts>>

\* upload_knowledge_action: no lock, no limit on the number of documents.
UploadKnowledge(d) ==
    /\ At(d, "none") /\ d \notin Rfps
    /\ GoTo(d, "checked")
    /\ UNCHANGED <<storeVars, projectLock, peekAttempts>>

\* stream_upload_to_quarantine: the final name appears only after the rename.
StreamUpload(d) ==
    /\ At(d, "checked")
    /\ quarantineFile' = [quarantineFile EXCEPT ![d] = TRUE]
    /\ GoTo(d, "streamed")
    /\ UNCHANGED <<status, scanAttempts, rowLock, cleanId, scanJobs, promoteJobs,
                   parseJobs, cutOffs, projectLock, peekAttempts>>

\* QuarantineStorageError: the partial file is unlinked and the request ends.
StreamFails(d) ==
    /\ At(d, "checked")
    /\ ReleaseProject(d)
    /\ GoTo(d, "failed")
    /\ UNCHANGED <<storeVars, peekAttempts>>

\* The INSERT commits; the commit also ends the project row lock.
CommitQuarantined(d) ==
    /\ At(d, "streamed")
    /\ SetStatus(d, "QUARANTINED")
    /\ ReleaseProject(d)
    /\ GoTo(d, "quarantined")
    /\ UNCHANGED <<scanAttempts, rowLock, cleanId, quarantineFile, scanJobs, promoteJobs,
                   parseJobs, cutOffs, peekAttempts>>

\* The INSERT fails: rollback, delete the file, re-raise.
CommitFails(d) ==
    /\ At(d, "streamed")
    /\ quarantineFile' = [quarantineFile EXCEPT ![d] = FALSE]
    /\ ReleaseProject(d)
    /\ GoTo(d, "failed")
    /\ UNCHANGED <<status, scanAttempts, rowLock, cleanId, scanJobs, promoteJobs,
                   parseJobs, cutOffs, peekAttempts>>

Validate(d) ==
    /\ At(d, "quarantined")
    /\ SetStatus(d, "VALIDATING")
    /\ GoTo(d, "validating")
    /\ UNCHANGED <<scanAttempts, rowLock, cleanId, quarantineFile, scanJobs, promoteJobs,
                   parseJobs, cutOffs, projectLock, peekAttempts>>

\* detect_pdf_candidate and detect_docx_candidate: byte and package checks.
DetectPdfCandidate(d) == IF Content[d] = "untyped" THEN "UNKNOWN" ELSE "PDF"
DetectDocxCandidate(d) == IF Content[d] = "untyped" THEN "UNKNOWN" ELSE "DOCX"

\* _run_detection, for a file declared as either; reading it may raise.
RunDetection(d) == {DetectPdfCandidate(d), DetectDocxCandidate(d), "RAISED"}

\* Candidate-type detection recognised the file.
DetectAccepts(d) ==
    /\ At(d, "validating") /\ RunDetection(d) \cap {"PDF", "DOCX"} # {}
    /\ SetStatus(d, "SCANNING")
    /\ GoTo(d, "enqueue")
    /\ UNCHANGED <<scanAttempts, rowLock, cleanId, quarantineFile, scanJobs, promoteJobs,
                   parseJobs, cutOffs, projectLock, peekAttempts>>

\* Detection found no supported type, or raised (fails closed for any file).
DetectRejects(d) ==
    /\ At(d, "validating") /\ RunDetection(d) \cap {"UNKNOWN", "RAISED"} # {}
    /\ SetStatus(d, "REJECTED_TYPE")
    /\ GoTo(d, "done")
    /\ UNCHANGED <<scanAttempts, rowLock, cleanId, quarantineFile, scanJobs, promoteJobs,
                   parseJobs, cutOffs, projectLock, peekAttempts>>

\* Mutant: the failure handler runs without looking at the task's exception.
EnqueueScanJobAlwaysRecovers(d) ==
    \E outcome \in EnqueueOutcomes :
        /\ At(d, "enqueue")
        /\ scanJobs' = EnqueueTo(scanJobs, d, outcome)
        /\ GoTo(d, "recover")
        /\ UNCHANGED <<status, scanAttempts, rowLock, cleanId, quarantineFile, promoteJobs,
                       parseJobs, cutOffs, projectLock, peekAttempts>>

\* enqueue_scan_job; a raised enqueue enters _handle_scan_enqueue_failure.
EnqueueScanJob(d) ==
    \E outcome \in EnqueueOutcomes :
        /\ At(d, "enqueue")
        /\ scanJobs' = EnqueueTo(scanJobs, d, outcome)
        /\ GoTo(d, IF Raises(outcome) THEN "recover" ELSE "done")
        /\ UNCHANGED <<status, scanAttempts, rowLock, cleanId, quarantineFile, promoteJobs,
                       parseJobs, cutOffs, projectLock, peekAttempts>>

\* Mutant: the recovery looks for the wrong status and returns early.
RecoverReadMisses(d) ==
    /\ At(d, "recover")
    /\ GoTo(d, IF status[d] = "QUARANTINED" THEN "recovering" ELSE "done")
    /\ peekAttempts' = [peekAttempts EXCEPT ![d] = scanAttempts[d]]
    /\ UNCHANGED <<storeVars, projectLock>>

\* _handle_scan_enqueue_failure reads the row without a lock ...
RecoverRead(d) ==
    /\ At(d, "recover")
    /\ GoTo(d, IF status[d] = "SCANNING" THEN "recovering" ELSE "done")
    /\ peekAttempts' = [peekAttempts EXCEPT ![d] = scanAttempts[d]]
    /\ UNCHANGED <<storeVars, projectLock>>

\* ... and writes both columns from what it read, whatever the row holds now.
RecoverWrite(d) ==
    /\ At(d, "recovering") /\ RowFree(d)
    /\ SetStatus(d, "SCAN_FAILED")
    /\ scanAttempts' = [scanAttempts EXCEPT ![d] = peekAttempts[d] + 1]
    /\ GoTo(d, "retry")
    /\ UNCHANGED <<rowLock, cleanId, quarantineFile, scanJobs, promoteJobs, parseJobs,
                   cutOffs, projectLock, peekAttempts>>

\* enqueue_scan_retry, only under the cap; a failed enqueue is only logged.
RecoverRetry(d) ==
    \E outcome \in EnqueueOutcomes :
        /\ At(d, "retry")
        /\ scanJobs' = IF scanAttempts[d] < SCAN_MAX_ATTEMPTS
                       THEN EnqueueTo(scanJobs, d, outcome) ELSE scanJobs
        /\ GoTo(d, "done")
        /\ UNCHANGED <<status, scanAttempts, rowLock, cleanId, quarantineFile, promoteJobs,
                       parseJobs, cutOffs, projectLock, peekAttempts>>

\* The web process dies (and each request it served is cut off), or a database error ends the request: the open
\* transaction is rolled back and nobody resumes the upload.
WebCutOff(d) ==
    /\ ~UploadOver(d)
    /\ CutOff
    /\ ReleaseProject(d)
    /\ GoTo(d, "dead")
    /\ UNCHANGED <<status, scanAttempts, rowLock, cleanId, quarantineFile, scanJobs,
                   promoteJobs, parseJobs, peekAttempts>>

\* Steps the request takes by itself once it has begun.
UploadAdvance(d) ==
    \/ StreamUpload(d) \/ StreamFails(d)
    \/ CommitQuarantined(d) \/ CommitFails(d)
    \/ Validate(d) \/ DetectAccepts(d) \/ DetectRejects(d)
    \/ EnqueueScanJob(d) \/ RecoverRead(d) \/ RecoverWrite(d) \/ RecoverRetry(d)

UploadNext ==
    \E d \in Docs :
        UploadRfp(d) \/ UploadKnowledge(d) \/ UploadAdvance(d) \/ WebCutOff(d)
=============================================================================
