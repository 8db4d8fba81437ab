----------------------------- MODULE MalwareScan -----------------------------
(***************************************************************************)
(* worker.scan_document_task with services/malware_scan.py, and the         *)
(* promotion enqueue (core/queue.py) that ends a passing scan.              *)
(*                                                                          *)
(* run_scan locks the row, checks it is SCANNING, counts the attempt and    *)
(* COMMITS, which releases the lock while the status is still SCANNING.      *)
(* The commit expires the ORM object; the next attribute access reloads it  *)
(* without a lock, and the verdict's transition() is decided from that      *)
(* reloaded status.  doc[w] below is that object: Expired, or the row as it *)
(* was when it was last loaded.                                             *)
(*                                                                          *)
(* run_scan runs in a thread.  Where it ends without a commit the row stays *)
(* locked until the task, back on the event loop, closes its session.       *)
(***************************************************************************)
EXTENDS DocumentStore

CONSTANT
    ScanFaults    \* subset of {"fail", "mismatch", "raise"} that may happen

ASSUME ScanAssumption == ScanFaults \subseteq {"fail", "mismatch", "raise"}

VARIABLES
    scanPc,     \* scanPc[w]: where job slot w is in scan_document_task
    scanDoc,    \* scanDoc[w]: its document, NoOne while idle
    seen,       \* seen[w]: the loaded Document object of the task's session
    peek        \* peek[w]: status loaded by the promotion-enqueue recovery

scanVars == <<scanPc, scanDoc, seen, peek>>

ScanStep ==
    {"idle", "armed", "started", "scanning", "enqueuePromotion",
     "recoverPromotion", "setPromoting", "reloadPromoting", "setFailed", "after",
     "closing"}

\* A loaded row, as far as the scan path reads it.
Row(d) == [status |-> status[d], attempts |-> scanAttempts[d]]
Expired == [status |-> "EXPIRED", attempts |-> 0]
LoadedRow == [status : IngestionStatus \cup {NoRow, "EXPIRED"}, attempts : Nat]

ScanTypeOK ==
    /\ scanPc \in [Workers -> ScanStep]
    /\ scanDoc \in [Workers -> Docs \cup {NoOne}]
    /\ seen \in [Workers -> LoadedRow]
    /\ peek \in [Workers -> IngestionStatus \cup {NoRow}]

ScanInit ==
    /\ scanPc = [w \in Workers |-> "idle"]
    /\ scanDoc = [w \in Workers |-> NoOne]
    /\ seen = [w \in Workers |-> Expired]
    /\ peek = [w \in Workers |-> NoRow]

ScanAt(w, step) == scanPc[w] = step
ScanGoTo(w, step) == scanPc' = [scanPc EXCEPT ![w] = step]
Load(w, row) == seen' = [seen EXCEPT ![w] = row]

\* Attribute access: an expired object is reloaded from the row.
View(w) == IF seen[w] = Expired THEN Row(scanDoc[w]) ELSE seen[w]

ScanBusy(w) == scanPc[w] # "idle"

\* The task ends and its sessions are closed.
ScanEnd(w) ==
    /\ ScanGoTo(w, "idle")
    /\ scanDoc' = [scanDoc EXCEPT ![w] = NoOne]
    /\ Load(w, Expired)
    /\ peek' = [peek EXCEPT ![w] = NoRow]

ScanStays == UNCHANGED <<scanDoc, peek>>

-----------------------------------------------------------------------------
\* Mutant: a rejected document is re-armed like a failed one.
PrepareRearmsRejected(w, d) ==
    /\ status[d] \in {"SCAN_FAILED", "REJECTED_MALWARE"}
    /\ scanAttempts[d] < SCAN_MAX_ATTEMPTS
    /\ SetStatus(d, "SCANNING")
    /\ ScanGoTo(w, "armed")
    /\ Load(w, Expired)
    /\ UNCHANGED <<scanAttempts, rowLock>>

\* scan_document_task starts: prepare_scan_attempt under the row lock.
\* SCAN_FAILED under the cap is re-armed (a commit of its own) ...
PrepareRearms(w, d) ==
    /\ status[d] = "SCAN_FAILED" /\ scanAttempts[d] < SCAN_MAX_ATTEMPTS
    /\ SetStatus(d, "SCANNING")
    /\ ScanGoTo(w, "armed")
    /\ Load(w, Expired)
    /\ UNCHANGED <<scanAttempts, rowLock>>

\* ... exhausted SCAN_FAILED ends the job ...
PrepareExhausted(w, d) ==
    /\ status[d] = "SCAN_FAILED" /\ scanAttempts[d] >= SCAN_MAX_ATTEMPTS
    /\ UNCHANGED <<status, scanAttempts, rowLock, scanPc, seen>>

\* Mutant: the attempt is not counted.
RunScanStartsUncounted(w, d) ==
    /\ status[d] = "SCANNING"
    /\ ScanGoTo(w, "started")
    /\ Load(w, Expired)
    /\ UNCHANGED <<status, scanAttempts, rowLock>>

\* Mutant: the attempt is counted when the row is claimed and again here.
RunScanStartsCountsTwice(w, d) ==
    /\ status[d] = "SCANNING"
    /\ scanAttempts' = [scanAttempts EXCEPT ![d] = @ + 2]
    /\ ScanGoTo(w, "started")
    /\ Load(w, Expired)
    /\ UNCHANGED <<status, rowLock>>

\* run_scan with a row it has just locked: the attempt is counted and
\* committed, with no check against the cap ...
RunScanStarts(w, d) ==
    /\ status[d] = "SCANNING"
    /\ scanAttempts' = [scanAttempts EXCEPT ![d] = @ + 1]
    /\ ScanGoTo(w, "started")
    /\ Load(w, Expired)
    /\ UNCHANGED <<status, rowLock>>

\* ... or the idempotency guard returns, nothing written, the object loaded and
\* the row still locked.
RunScanNoOp(w, d) ==
    /\ status[d] # "SCANNING"
    /\ rowLock' = [rowLock EXCEPT ![d] = Scanner(w)]
    /\ ScanGoTo(w, "after")
    /\ Load(w, Row(d))
    /\ UNCHANGED <<status, scanAttempts>>

\* Any other status is left alone by prepare_scan_attempt, whose transaction
\* (and lock) run_scan continues.
ScanDocumentTask(w, d) ==
    /\ ScanAt(w, "idle") /\ scanJobs[d] > 0 /\ RowFree(d) /\ LoopFree(w)
    /\ scanJobs' = TakeFrom(scanJobs, d)
    /\ \/ /\ PrepareExhausted(w, d)
          /\ UNCHANGED scanDoc
       \/ /\ \/ PrepareRearms(w, d)
             \/ RunScanStarts(w, d)
             \/ status[d] # "SCAN_FAILED" /\ RunScanNoOp(w, d)
          /\ scanDoc' = [scanDoc EXCEPT ![w] = d]
    /\ UNCHANGED <<cleanId, quarantineFile, promoteJobs, parseJobs, cutOffs, peek>>

\* The start of a scan of d is waiting for its row on the loop of p.
ScanWaits(p, d) ==
    \E w \in Workers : ProcessOf[w] = p /\ ScanAt(w, "idle") /\ scanJobs[d] > 0

\* run_scan after a re-arm: a new transaction locks the row again.
RunScan(w) ==
    LET d == scanDoc[w] IN
    /\ ScanAt(w, "armed") /\ RowFree(d)
    /\ RunScanStarts(w, d) \/ RunScanNoOp(w, d)
    /\ UNCHANGED <<cleanId, quarantineFile, scanJobs, promoteJobs, parseJobs,
                   cutOffs, scanDoc, peek>>

\* document.file_path is read after the commit: an unlocked reload.
LoadDocument(w) ==
    /\ ScanAt(w, "started")
    /\ Load(w, Row(scanDoc[w]))
    /\ ScanGoTo(w, "scanning")
    /\ UNCHANGED <<storeVars, scanDoc, peek>>

\* transition(document, new) from the loaded status, when it does not raise.
\* "noop" commits nothing and keeps the object; "ok" needs the row's lock.
ApplyTransition(w, new) ==
    LET d == scanDoc[w] IN
    \/ /\ Transition(seen[w].status, new) = "noop"
       /\ UNCHANGED <<status, seen>>
    \/ /\ Transition(seen[w].status, new) = "ok" /\ RowFree(d)
       /\ SetStatus(d, new)
       /\ Load(w, Expired)

\* run_scan's except block: roll back, lock, re-read, fail the row if it is
\* still SCANNING, re-raise.  The task ends without scheduling a retry; when
\* nothing was written the row stays locked until the session is closed.
ScanRaises(w) ==
    LET d == scanDoc[w] IN
    /\ RowFree(d)
    /\ \/ /\ status[d] = "SCANNING"
          /\ SetStatus(d, "SCAN_FAILED")
          /\ ScanEnd(w)
          /\ UNCHANGED rowLock
       \/ /\ status[d] # "SCANNING"
          /\ rowLock' = [rowLock EXCEPT ![d] = Scanner(w)]
          /\ ScanGoTo(w, "closing")
          /\ UNCHANGED <<status, scanDoc, seen, peek>>

\* The quarantine file is missing or its digest drifted: _fail_scan outside
\* the try block, so an illegal transition ends the task with nothing written.
IntegrityMismatch(w) ==
    /\ ScanAt(w, "scanning") /\ "mismatch" \in ScanFaults
    /\ \/ /\ ApplyTransition(w, "SCAN_FAILED")
          /\ ScanGoTo(w, "after") /\ ScanStays
       \/ /\ Transition(seen[w].status, "SCAN_FAILED") = "error"
          /\ ScanEnd(w)
          /\ UNCHANGED status
    /\ UNCHANGED <<scanAttempts, rowLock, cleanId, quarantineFile, scanJobs, promoteJobs,
                   parseJobs, cutOffs>>

OnFault(outcomes) == IF "fail" \in ScanFaults THEN outcomes ELSE {}

\* clamav_client.get_version_info, and whether its signatures are fresh.
VersionInfo == {"fresh"} \cup OnFault({"stale", "unavailable"})

\* clamav_client.scan_stream: clamd's answer for the file, or how the
\* conversation with it went wrong.
ScanStream(d) ==
    {IF Content[d] = "malware" THEN "FOUND" ELSE "CLEAN"} \cup
    OnFault({"ERROR", "UNAVAILABLE", "TIMEOUT", "PROTOCOL_ERROR", "SIZE_LIMIT_EXCEEDED"})

PolicyAnswer(d) == IF Content[d] = "policy" THEN "REJECTED" ELSE "PASSED"

\* check_pdf_content_policy: a subprocess that times out, dies or prints
\* nonsense has FAILED, which may be retried ...
PdfPolicy(d) == {PolicyAnswer(d)} \cup OnFault({"FAILED"})

\* ... check_docx_content_policy: a package it cannot read is a violation of
\* the policy, which is final.
DocxPolicy(d) == {PolicyAnswer(d)} \cup OnFault({"REJECTED"})

\* _run_content_policy, by the content type that was detected at intake.
ContentPolicy(d) ==
    IF Content[d] = "untyped" THEN {"UNSUPPORTED"} ELSE PdfPolicy(d) \cup DocxPolicy(d)

\* Mutant: whatever clamd did not find is not there.
VerdictOfFailsOpen(version, stream, policy) ==
    IF stream = "FOUND" THEN "REJECTED_MALWARE"
    ELSE IF policy = "REJECTED" THEN "REJECTED_CONTENT_POLICY"
    ELSE IF policy = "PASSED" THEN "CLEAN_PENDING_PROMOTION" ELSE "SCAN_FAILED"

\* The status _run_scan_body and _run_content_policy ask for.
VerdictOf(version, stream, policy) ==
    IF version # "fresh" \/ stream \notin {"FOUND", "CLEAN"} THEN "SCAN_FAILED"
    ELSE IF stream = "FOUND" THEN "REJECTED_MALWARE"
    ELSE IF policy = "REJECTED" THEN "REJECTED_CONTENT_POLICY"
    ELSE IF policy = "PASSED" THEN "CLEAN_PENDING_PROMOTION" ELSE "SCAN_FAILED"

Verdict(d) ==
    {VerdictOf(v, s, p) : v \in VersionInfo, s \in ScanStream(d), p \in ContentPolicy(d)}

\* The scan reaches a verdict; a transition that raises enters the except block.
ScanVerdict(w) ==
    /\ ScanAt(w, "scanning")
    /\ \E new \in Verdict(scanDoc[w]) :
        \/ /\ ApplyTransition(w, new)
           /\ ScanGoTo(w, IF new = "CLEAN_PENDING_PROMOTION"
                          THEN "enqueuePromotion" ELSE "after")
           /\ ScanStays
           /\ UNCHANGED rowLock
        \/ Transition(seen[w].status, new) = "error" /\ ScanRaises(w)
    /\ UNCHANGED <<scanAttempts, cleanId, quarantineFile, scanJobs, promoteJobs,
                   parseJobs, cutOffs>>

\* An exception escapes clamav_client or a content-policy module.
ScanError(w) ==
    /\ ScanAt(w, "scanning") /\ "raise" \in ScanFaults
    /\ ScanRaises(w)
    /\ UNCHANGED <<scanAttempts, cleanId, quarantineFile, scanJobs, promoteJobs,
                   parseJobs, cutOffs>>

-----------------------------------------------------------------------------
\* enqueue_promotion_job(document.id): reading document.id reloads the object.
EnqueuePromotionJob(w) ==
    \E outcome \in EnqueueOutcomes :
        /\ ScanAt(w, "enqueuePromotion")
        /\ Load(w, View(w))
        /\ promoteJobs' = EnqueueTo(promoteJobs, scanDoc[w], outcome)
        /\ ScanGoTo(w, IF Raises(outcome) THEN "recoverPromotion" ELSE "after")
        /\ UNCHANGED <<status, scanAttempts, rowLock, cleanId, quarantineFile, scanJobs,
                       parseJobs, cutOffs, scanDoc, peek>>

\* Mutant: the recovery looks only for a promotion that has begun.
PromotionRecoverReadMisses(w) ==
    LET s == status[scanDoc[w]] IN
    /\ ScanAt(w, "recoverPromotion")
    /\ peek' = [peek EXCEPT ![w] = s]
    /\ ScanGoTo(w, IF s = "PROMOTING" THEN "setFailed" ELSE "after")
    /\ UNCHANGED <<storeVars, scanDoc, seen>>

\* _handle_promotion_enqueue_failure, in a session of its own: unlocked read.
PromotionRecoverRead(w) ==
    LET s == status[scanDoc[w]] IN
    /\ ScanAt(w, "recoverPromotion")
    /\ peek' = [peek EXCEPT ![w] = s]
    /\ ScanGoTo(w, CASE s = "CLEAN_PENDING_PROMOTION" -> "setPromoting"
                     [] s = "PROMOTING"               -> "setFailed"
                     [] OTHER                         -> "after")
    /\ UNCHANGED <<storeVars, scanDoc, seen>>

\* First transition: to PROMOTING, decided from the unlocked read.
PromotionRecoverPromoting(w) ==
    /\ ScanAt(w, "setPromoting") /\ RowFree(scanDoc[w])
    /\ SetStatus(scanDoc[w], "PROMOTING")
    /\ ScanGoTo(w, "reloadPromoting")
    /\ UNCHANGED <<scanAttempts, rowLock, cleanId, quarantineFile, scanJobs, promoteJobs,
                   parseJobs, cutOffs, scanDoc, seen, peek>>

\* document.created_by_id reloads the committed (expired) object.
PromotionRecoverReload(w) ==
    /\ ScanAt(w, "reloadPromoting")
    /\ peek' = [peek EXCEPT ![w] = status[scanDoc[w]]]
    /\ ScanGoTo(w, "setFailed")
    /\ UNCHANGED <<storeVars, scanDoc, seen>>

\* Second transition: to PROMOTION_FAILED; an IngestionStateError is swallowed.
PromotionRecoverFail(w) ==
    LET d == scanDoc[w] IN
    /\ ScanAt(w, "setFailed")
    /\ \/ Transition(peek[w], "PROMOTION_FAILED") # "ok" /\ UNCHANGED status
       \/ /\ Transition(peek[w], "PROMOTION_FAILED") = "ok" /\ RowFree(d)
          /\ SetStatus(d, "PROMOTION_FAILED")
    /\ ScanGoTo(w, "after")
    /\ UNCHANGED <<scanAttempts, rowLock, cleanId, quarantineFile, scanJobs, promoteJobs,
                   parseJobs, cutOffs, scanDoc, seen, peek>>

\* scan_document_task after run_scan returned, on the event loop: schedule a bounded
\* retry and close the session.  The enqueue is fire and forget; its failure is
\* only logged.
AfterScan(w) ==
    LET d == scanDoc[w]
        row == View(w)
    IN \E outcome \in EnqueueOutcomes :
        /\ ScanAt(w, "after") /\ LoopFree(w)
        /\ scanJobs' = IF row.status = "SCAN_FAILED"
                          /\ row.attempts < SCAN_MAX_ATTEMPTS
                       THEN EnqueueTo(scanJobs, d, outcome) ELSE scanJobs
        /\ rowLock' = Released(Scanner(w), d)
        /\ ScanEnd(w)
        /\ UNCHANGED <<status, scanAttempts, cleanId, quarantineFile, promoteJobs,
                       parseJobs, cutOffs>>

\* scan_document_task after run_scan raised: close the session.
ScanClose(w) ==
    /\ ScanAt(w, "closing") /\ LoopFree(w)
    /\ rowLock' = Released(Scanner(w), scanDoc[w])
    /\ ScanEnd(w)
    /\ UNCHANGED <<status, scanAttempts, cleanId, quarantineFile, scanJobs, promoteJobs,
                   parseJobs, cutOffs>>

\* A database error outside the try block, or in the except block itself: nothing
\* is recorded, the session is closed and the job is not delivered again.
ScanEscapes(w) ==
    /\ "error" \in CutOffKinds
    /\ ScanBusy(w) /\ ~ScanAt(w, "closing") /\ CutOff
    /\ MayKeep(Scanner(w), scanDoc[w])
    /\ ScanGoTo(w, "closing")
    /\ UNCHANGED <<status, scanAttempts, cleanId, quarantineFile, scanJobs, promoteJobs,
                   parseJobs, scanDoc, seen, peek>>

\* The worker process dies; arq delivers the job again.
ScanCutOff(w) ==
    /\ "death" \in CutOffKinds
    /\ ScanBusy(w) /\ CutOff
    /\ scanJobs' = Redeliver(scanJobs, scanDoc[w])
    /\ rowLock' = Released(Scanner(w), scanDoc[w])
    /\ ScanEnd(w)
    /\ UNCHANGED <<status, scanAttempts, cleanId, quarantineFile, promoteJobs,
                   parseJobs>>

\* Steps of a job slot that has taken a job.
ScanAdvance(w) ==
    \/ RunScan(w) \/ LoadDocument(w) \/ IntegrityMismatch(w) \/ ScanVerdict(w)
    \/ ScanError(w) \/ EnqueuePromotionJob(w) \/ PromotionRecoverRead(w)
    \/ PromotionRecoverPromoting(w) \/ PromotionRecoverReload(w)
    \/ PromotionRecoverFail(w) \/ AfterScan(w) \/ ScanClose(w)

ScanNext ==
    \E w \in Workers :
        \/ \E d \in Docs : ScanDocumentTask(w, d)
        \/ ScanAdvance(w)
        \/ ScanEscapes(w)
        \/ ScanCutOff(w)
=============================================================================
