---------------------------- MODULE PipelineProofs ----------------------------
(***************************************************************************)
(* Proofs about IngestionPipeline: the safety of each half survives their   *)
(* composition, with enqueues that deliver and still raise and with tasks   *)
(* that write from stale objects.                                           *)
(***************************************************************************)
EXTENDS IngestionPipeline, ScanPipelineProofs, StorageProofs, FiniteSetTheorems

\* A request, a queued scan job or a scan task past the INSERT has a row; before
\* the INSERT there is none, and a streamed file is in quarantine.
IntakeInv ==
    /\ \A d \in Docs :
          IF upload[d] \in {"none", "checked", "streamed"}
          THEN status[d] = NoRow
          ELSE upload[d] \in {"failed", "dead"} \/ status[d] # NoRow
    /\ \A d \in Docs : upload[d] = "streamed" => quarantineFile[d]
    /\ \A d \in Docs : scanJobs[d] > 0 => status[d] # NoRow
    /\ \A w \in Workers : ScanBusy(w) => status[scanDoc[w]] # NoRow

\* Steps of a scan task that only a passed document reaches.
PassedStep == {"enqueuePromotion", "recoverPromotion", "setPromoting",
               "reloadPromoting", "setFailed"}

\* Whoever may write a trusted status works on a benign document: not only the
\* rows but the promotion jobs, and the tasks that hold old reads of them.
TrustInv ==
    /\ TrustedOnlyIfBenign
    /\ \A d \in Docs : promoteJobs[d] > 0 => Content[d] = "benign"
    /\ \A w \in Workers : scanPc[w] \in PassedStep => Content[scanDoc[w]] = "benign"
    /\ \A w \in Workers : PromBusy(w) => Content[promDoc[w]] = "benign"

PipelineTypes == TypeInv /\ StorageTypes

PipelineInv ==
    /\ PipelineTypes
    /\ FilesInv
    /\ AttemptsInv
    /\ NoStrandedScan
    /\ IntakeInv
    /\ TrustInv

-----------------------------------------------------------------------------
\* What a request step does to the state of the later stages and to the rows: it
\* writes no status that a promotion or parse task relies on, and takes a file
\* away only where there is no row.
LEMMA UploadEffect ==
    ASSUME PipelineTypes, IntakeInv, UploadNext
    PROVE  /\ UNCHANGED <<cleanId, promoteJobs>>
           /\ \A d \in Docs :
                /\ \/ status'[d] = status[d]
                   \/ status'[d] \notin TrustedStatus \cup {NoRow}
                /\ status'[d] # NoRow /\ quarantineFile[d] => quarantineFile'[d]
                /\ status[d] = NoRow /\ status'[d] # NoRow => quarantineFile'[d]
<1> USE DEF PipelineTypes, TypeInv, ScanPipelineTypeOK, StoreTypeOK, UploadTypeOK,
            IntakeInv, TrustedStatus, NoRow, storeVars, At, SetStatus
<1>1. PICK d \in Docs : UploadRfp(d) \/ UploadKnowledge(d) \/ UploadAdvance(d)
                         \/ WebCutOff(d)
  BY DEF UploadNext
<1>2. CASE UploadRfp(d) \/ UploadKnowledge(d)
  BY <1>2 DEF UploadRfp, UploadKnowledge
<1>3. CASE StreamUpload(d) \/ StreamFails(d)
  BY <1>3 DEF StreamUpload, StreamFails
<1>4. CASE CommitQuarantined(d) \/ CommitFails(d)
  BY <1>4 DEF CommitQuarantined, CommitFails
<1>5. CASE Validate(d)
  BY <1>5 DEF Validate
<1>6. CASE DetectAccepts(d) \/ DetectRejects(d)
  BY <1>6 DEF DetectAccepts, DetectRejects
<1>7. CASE EnqueueScanJob(d) \/ RecoverRead(d)
  BY <1>7 DEF EnqueueScanJob, RecoverRead
<1>8. CASE RecoverWrite(d) \/ RecoverRetry(d)
  BY <1>8 DEF RecoverWrite, RecoverRetry
<1>9. CASE WebCutOff(d)
  BY <1>9 DEF WebCutOff
<1>10. QED
  BY <1>1, <1>2, <1>3, <1>4, <1>5, <1>6, <1>7, <1>8, <1>9 DEF UploadAdvance

\* A request step keeps the invariant of the intake.
LEMMA UploadKeepsIntake ==
    ASSUME PipelineTypes, IntakeInv, UploadNext, UNCHANGED scanVars
    PROVE  IntakeInv'
<1> USE StoreAssumption
        DEF PipelineTypes, TypeInv, BusyHasDoc, ScanPipelineTypeOK, StoreTypeOK,
            UploadTypeOK, ScanTypeOK, UploadStep, IntakeInv, ScanBusy, NoRow,
            storeVars, scanVars, At, GoTo, SetStatus
<1>1. PICK d \in Docs : UploadRfp(d) \/ UploadKnowledge(d) \/ UploadAdvance(d)
                         \/ WebCutOff(d)
  BY DEF UploadNext
<1>2. CASE UploadRfp(d) \/ UploadKnowledge(d)
  BY <1>2 DEF UploadRfp, UploadKnowledge
<1>3. CASE StreamUpload(d) \/ StreamFails(d)
  BY <1>3 DEF StreamUpload, StreamFails
<1>4. CASE CommitQuarantined(d) \/ CommitFails(d)
  BY <1>4 DEF CommitQuarantined, CommitFails
<1>5. CASE Validate(d)
  BY <1>5 DEF Validate
<1>6. CASE DetectAccepts(d) \/ DetectRejects(d)
  BY <1>6 DEF DetectAccepts, DetectRejects
<1>7. CASE EnqueueScanJob(d)
  BY <1>7 DEF EnqueueScanJob, EnqueueTo
<1>8. CASE RecoverRead(d)
  BY <1>8 DEF RecoverRead
<1>9. CASE RecoverWrite(d)
  BY <1>9 DEF RecoverWrite
<1>10. CASE RecoverRetry(d)
  BY <1>10 DEF RecoverRetry, EnqueueTo
<1>11. CASE WebCutOff(d)
  BY <1>11 DEF WebCutOff, UploadOver
<1>12. QED
  BY <1>1, <1>2, <1>3, <1>4, <1>5, <1>6, <1>7, <1>8, <1>9, <1>10, <1>11
     DEF UploadAdvance

\* What a scan step does to the later stages and to the rows: it may overwrite a
\* status, from a stale object too, but never with one that is open to parsing;
\* a trusted status and a promotion job are only for a benign document.
ScanOutcome ==
    /\ UNCHANGED <<cleanId, quarantineFile>>
    /\ \A d \in Docs :
          \/ status'[d] = status[d]
          \/ /\ status[d] # NoRow
             /\ status'[d] \notin ParseableStatus \cup {NoRow}
             /\ status'[d] \in TrustedStatus => Content[d] = "benign"
    /\ \A d \in Docs : promoteJobs'[d] > 0 => Content[d] = "benign"
    /\ \A w \in Workers :
          scanPc'[w] \in PassedStep => Content[scanDoc'[w]] = "benign"
    /\ \A d \in Docs : scanJobs'[d] > 0 => status[d] # NoRow
    /\ \A w \in Workers : scanPc'[w] # "idle" => status[scanDoc'[w]] # NoRow

\* A trusted verdict is given to a benign document only.
LEMMA VerdictTrusts ==
    ASSUME NEW d \in Docs, NEW new \in Verdict(d)
    PROVE  /\ new \notin ParseableStatus \cup {NoRow}
           /\ new \in TrustedStatus => Content[d] = "benign"
           /\ new = "CLEAN_PENDING_PROMOTION" => Content[d] = "benign"
<1>1. PICK v \in VersionInfo, s \in ScanStream(d), p \in ContentPolicy(d) :
          new = VerdictOf(v, s, p)
  BY DEF Verdict
<1>2. s = "CLEAN" => Content[d] # "malware"
  BY DEF ScanStream, OnFault
<1>3. p = "PASSED" => Content[d] \notin {"policy", "untyped"}
  BY DEF ContentPolicy, PdfPolicy, DocxPolicy, PolicyAnswer, OnFault
<1>4. Content[d] \in {"benign", "malware", "policy", "untyped"}
  BY StoreAssumption
<1>5. QED
  BY <1>1, <1>2, <1>3, <1>4
     DEF VerdictOf, TrustedStatus, ParseableStatus, NoRow

\* Every scan step has such an outcome.
LEMMA ScanEffect ==
    ASSUME PipelineTypes, IntakeInv, TrustInv, ScanNext
    PROVE  ScanOutcome
<1> USE StoreAssumption
        DEF PipelineTypes, TypeInv, BusyHasDoc, ScanPipelineTypeOK, StoreTypeOK,
            ScanTypeOK, ScanStep, IntakeInv, TrustInv, TrustedOnlyIfBenign,
            TrustedStatus, ParseableStatus, PassedStep, ScanBusy, NoRow, storeVars,
            ScanAt, ScanGoTo, ScanEnd, ScanStays, SetStatus, ScanOutcome
<1>1. PICK w \in Workers : \/ \E d \in Docs : ScanDocumentTask(w, d)
                           \/ ScanAdvance(w)
                           \/ ScanEscapes(w)
                           \/ ScanCutOff(w)
  BY DEF ScanNext
<1>2. ASSUME NEW d \in Docs, ScanDocumentTask(w, d)
      PROVE  ScanOutcome
  <2> USE <1>2 DEF ScanDocumentTask, TakeFrom
  <2>1. CASE PrepareExhausted(w, d) /\ UNCHANGED scanDoc
    BY <2>1 DEF PrepareExhausted
  <2>2. CASE PrepareRearms(w, d) /\ scanDoc' = [scanDoc EXCEPT ![w] = d]
    BY <2>2 DEF PrepareRearms
  <2>3. CASE RunScanStarts(w, d) /\ scanDoc' = [scanDoc EXCEPT ![w] = d]
    BY <2>3 DEF RunScanStarts
  <2>4. CASE RunScanNoOp(w, d) /\ scanDoc' = [scanDoc EXCEPT ![w] = d]
    BY <2>4 DEF RunScanNoOp
  <2>5. QED
    BY <2>1, <2>2, <2>3, <2>4
<1>3. CASE RunScan(w)
  BY <1>3 DEF RunScan, RunScanStarts, RunScanNoOp
<1>4. CASE LoadDocument(w)
  BY <1>4 DEF LoadDocument
<1>5. CASE IntegrityMismatch(w)
  BY <1>5 DEF IntegrityMismatch, ApplyTransition
<1>6. CASE ScanVerdict(w)
  <2>1. PICK new \in Verdict(scanDoc[w]) :
           \/ /\ ApplyTransition(w, new)
              /\ ScanGoTo(w, IF new = "CLEAN_PENDING_PROMOTION"
                             THEN "enqueuePromotion" ELSE "after")
              /\ ScanStays
           \/ ScanRaises(w)
    BY <1>6 DEF ScanVerdict
  <2>2. CASE ScanRaises(w)
    BY <1>6, <2>2 DEF ScanVerdict, ScanRaises
  <2>3. CASE /\ ApplyTransition(w, new)
             /\ ScanGoTo(w, IF new = "CLEAN_PENDING_PROMOTION"
                            THEN "enqueuePromotion" ELSE "after")
             /\ ScanStays
    <3>1. scanDoc[w] \in Docs
      BY <1>6 DEF ScanVerdict
    <3>2. QED
      BY <1>6, <2>1, <2>3, <3>1, VerdictTrusts DEF ScanVerdict, ApplyTransition
  <2>4. QED
    BY <2>1, <2>2, <2>3
<1>7. CASE ScanError(w)
  BY <1>7 DEF ScanError, ScanRaises
<1>8. CASE EnqueuePromotionJob(w)
  BY <1>8 DEF EnqueuePromotionJob, EnqueueTo
<1>9. CASE PromotionRecoverRead(w)
  BY <1>9 DEF PromotionRecoverRead
<1>10. CASE PromotionRecoverPromoting(w)
  BY <1>10 DEF PromotionRecoverPromoting
<1>11. CASE PromotionRecoverReload(w)
  BY <1>11 DEF PromotionRecoverReload
<1>12. CASE PromotionRecoverFail(w)
  BY <1>12 DEF PromotionRecoverFail
<1>13. CASE AfterScan(w)
  BY <1>13 DEF AfterScan, EnqueueTo
<1>14. CASE ScanClose(w) \/ ScanEscapes(w)
  BY <1>14 DEF ScanClose, ScanEscapes
<1>15. CASE ScanCutOff(w)
  BY <1>15 DEF ScanCutOff, Redeliver
<1>16. QED
  BY <1>1, <1>2, <1>3, <1>4, <1>5, <1>6, <1>7, <1>8, <1>9, <1>10, <1>11, <1>12,
     <1>13, <1>14, <1>15 DEF ScanAdvance

\* What a promotion step does to the rows and to whoever it works for: it writes
\* rows that exist, deletes a file only where there is a row, and its jobs and
\* tasks come from jobs, tasks or rows that were trusted already.
PromOutcome ==
    /\ UNCHANGED scanJobs
    /\ \A d \in Docs :
          \/ status'[d] = status[d]
          \/ /\ status[d] # NoRow
             /\ status'[d] \notin {"SCANNING", NoRow}
             /\ Content[d] = "benign"
    /\ \A d \in Docs : status[d] = NoRow => quarantineFile'[d] = quarantineFile[d]
    /\ \A d \in Docs : promoteJobs'[d] > 0 => Content[d] = "benign"
    /\ \A w \in Workers : promPc'[w] # "idle" => Content[promDoc'[w]] = "benign"

\* Every promotion step has such an outcome.
LEMMA PromEffect ==
    ASSUME PipelineTypes, FilesInv, TrustInv, PromNext
    PROVE  PromOutcome
<1> USE StoreAssumption
        DEF PipelineTypes, StorageTypes, StorageBusy, StorageTypeOK, StoreTypeOK,
            PromTypeOK, FilesInv, TrustInv, TrustedOnlyIfBenign, TrustedStatus,
            PromBusy, PromWorks, NoRow, storeVars, PromAt, PromGoTo, PromEnd, SetStatus,
            PromOutcome
<1>1. PICK w \in Workers : \/ \E d \in Docs : PromoteDocumentTask(w, d)
                           \/ PromAdvance(w)
                           \/ PromEscapes(w)
                           \/ PromoteCutOff(w)
  BY DEF PromNext
<1>2. ASSUME NEW d \in Docs, PromoteDocumentTask(w, d)
      PROVE  PromOutcome
  <2> USE <1>2 DEF PromoteDocumentTask, TakeFrom
  <2>1. CASE PromoteRefused(w, d)
    BY <2>1 DEF PromoteRefused
  <2>2. CASE PromoteBegins(w, d)
    BY <2>2 DEF PromoteBegins
  <2>3. CASE PromoteResumes(w, d)
    BY <2>3 DEF PromoteResumes, LoadForCopy
  <2>4. QED
    BY <2>1, <2>2, <2>3
<1>3. CASE PromReload(w)
  BY <1>3 DEF PromReload, LoadForCopy
<1>4. CASE CopyStarts(w) \/ CopyFinishes(w) \/ CopyFails(w)
  BY <1>4 DEF CopyStarts, CopyFinishes, CopyFails
<1>5. CASE RecordFailure(w)
  BY <1>5 DEF RecordFailure
<1>6. CASE PromoteCommits(w)
  BY <1>6 DEF PromoteCommits
<1>7. CASE PromoteAborts(w)
  BY <1>7 DEF PromoteAborts
<1>8. CASE EnqueueParseJob(w)
  BY <1>8 DEF EnqueueParseJob
<1>9. CASE UnlinkSource(w)
  <2>1. promDoc[w] \in Docs /\ status[promDoc[w]] # NoRow
    BY <1>9 DEF UnlinkSource
  <2>2. /\ quarantineFile' = [quarantineFile EXCEPT ![promDoc[w]] = FALSE]
        /\ UNCHANGED <<scanJobs, status, promoteJobs>>
    BY <1>9 DEF UnlinkSource
  <2>3. \A d \in Docs : status[d] = NoRow => quarantineFile'[d] = quarantineFile[d]
    BY <2>1, <2>2
  <2>4. \A v \in Workers : promPc'[v] # "idle" => Content[promDoc'[v]] = "benign"
    BY <1>9 DEF UnlinkSource
  <2>5. QED
    BY <2>2, <2>3, <2>4
<1>10. CASE UnlinkFails(w)
  BY <1>10 DEF UnlinkFails
<1>11. CASE PromClose(w)
  BY <1>11 DEF PromClose
<1>12. CASE PromEscapes(w)
  <2>1. /\ promPc[w] # "idle" /\ promPc' = [promPc EXCEPT ![w] = "closing"]
        /\ UNCHANGED <<scanJobs, status, quarantineFile, promoteJobs, promDoc>>
    BY <1>12 DEF PromEscapes
  <2>2. QED
    BY <2>1
<1>13. CASE PromoteCutOff(w)
  BY <1>13 DEF PromoteCutOff, Redeliver
<1>14. QED
  BY <1>1, <1>2, <1>3, <1>4, <1>5, <1>6, <1>7, <1>8, <1>9, <1>10, <1>11, <1>12, <1>13
     DEF PromAdvance

\* A promotion step counts no scan attempt and cuts off one task at most.
LEMMA PromLeavesScan ==
    ASSUME PipelineTypes, PromNext
    PROVE  /\ UNCHANGED <<scanAttempts, scanJobs>>
           /\ cutOffs \in Nat /\ cutOffs' \in {cutOffs, cutOffs + 1}
<1>0. cutOffs \in Nat
  BY StoreAssumption DEF PipelineTypes, TypeInv, ScanPipelineTypeOK, StoreTypeOK
<1>1. PICK w \in Workers : \/ \E d \in Docs : PromoteDocumentTask(w, d)
                           \/ PromAdvance(w)
                           \/ PromEscapes(w)
                           \/ PromoteCutOff(w)
  BY DEF PromNext
<1>2. QED
  BY <1>0, <1>1 DEF PromoteDocumentTask, PromAdvance, PromReload, CopyStarts, CopyFinishes,
     CopyFails, RecordFailure, PromoteCommits, PromoteAborts, PromClose, EnqueueParseJob,
     UnlinkSource, UnlinkFails, PromEscapes, PromoteCutOff, CutOff, storeVars

\* Nor does a parse step.
LEMMA ParseLeavesScan ==
    ASSUME PipelineTypes, ParseNext
    PROVE  /\ UNCHANGED <<scanAttempts, scanJobs>>
           /\ cutOffs \in Nat /\ cutOffs' \in {cutOffs, cutOffs + 1}
<1>0. cutOffs \in Nat
  BY StoreAssumption DEF PipelineTypes, TypeInv, ScanPipelineTypeOK, StoreTypeOK
<1>1. PICK w \in Workers : \/ \E d \in Docs : PrepareParseAttempt(w, d)
                           \/ ParseAdvance(w)
                           \/ ParseCutOff(w)
  BY DEF ParseNext
<1>2. QED
  BY <1>0, <1>1 DEF PrepareParseAttempt, ParseAdvance, ParserResponds, FailParseAttempt,
     EnqueueParseRetry, PersistParseResults, PersistStale, EnqueueExtractionJob,
     ParseCutOff, CutOff, storeVars

-----------------------------------------------------------------------------
\* The types of a half whose own variables a step leaves alone hold again as soon
\* as those of the shared table do.
LEMMA TypesOfOtherHalf ==
    /\ StorageTypes /\ StoreTypeOK' /\ UNCHANGED laterVars => StorageTypes'
    /\ TypeInv /\ StoreTypeOK' /\ UNCHANGED <<uploadVars, scanVars>> => TypeInv'
<1>1. ASSUME StorageTypes, StoreTypeOK', UNCHANGED laterVars
      PROVE  StorageTypes'
  BY <1>1 DEF StorageTypes, StorageTypeOK, StorageBusy, PromTypeOK, ParseTypeOK,
              laterVars, promVars, parseVars
<1>2. ASSUME TypeInv, StoreTypeOK', UNCHANGED <<uploadVars, scanVars>>
      PROVE  TypeInv'
  BY <1>2 DEF TypeInv, ScanPipelineTypeOK, BusyHasDoc, UploadTypeOK, ScanTypeOK,
              uploadVars, scanVars
<1>3. QED
  BY <1>1, <1>2

\* A request or scan step keeps the invariants of promotion and parsing, because
\* it never writes a status open to parsing nor takes a row's file.
LEMMA IntakeKeepsLater ==
    ASSUME PipelineTypes, FilesInv, AttemptsInv, UNCHANGED <<laterVars, cleanId>>,
           \A d \in Docs :
              /\ \/ status'[d] = status[d]
                 \/ status'[d] \notin ParseableStatus \cup {NoRow}
              /\ status'[d] # NoRow /\ quarantineFile[d] => quarantineFile'[d]
              /\ status[d] = NoRow /\ status'[d] # NoRow => quarantineFile'[d]
    PROVE  FilesInv' /\ AttemptsInv'
<1> USE StoreAssumption
        DEF PipelineTypes, StorageTypes, StorageBusy, StorageTypeOK, StoreTypeOK,
            PromTypeOK, ParseTypeOK, laterVars, promVars, parseVars, PromWorks, ParseBusy
<1>1. CleanHasFile' /\ BytesPreserved'
  BY DEF FilesInv, CleanHasFile, BytesPreserved, ParseableStatus
<1>2. \A w \in Workers : PromWorks(w)' => status'[promDoc[w]] # NoRow
  BY DEF FilesInv
<1>3. FilesInv'
  BY <1>1, <1>2 DEF FilesInv
<1>4. ParseAttemptsCapped' /\ CompletedPagesCurrent' /\ SnapshotNeverDrifts'
  BY DEF AttemptsInv, ParseAttemptsCapped, CompletedPagesCurrent,
         SnapshotNeverDrifts, AttemptCurrent, ParseableStatus
<1>5. QED
  BY <1>3, <1>4 DEF AttemptsInv

\* Every step of a request keeps the invariant of the whole pipeline.
LEMMA UploadActsInv == PipelineInv /\ UploadActs => PipelineInv'
<1> SUFFICES ASSUME PipelineInv, UploadNext, UNCHANGED <<loop, scanVars, laterVars>>
             PROVE  PipelineInv'
  BY DEF UploadActs
<1> USE DEF PipelineInv
<1>1. PipelineTypes'
  BY UploadKeepsTypes, TypesOfOtherHalf
     DEF PipelineTypes, TypeInv, ScanPipelineTypeOK
<1>2. FilesInv' /\ AttemptsInv'
  <2>1. UNCHANGED <<laterVars, cleanId>>
    BY UploadEffect
  <2>2. ASSUME NEW d \in Docs
        PROVE  /\ \/ status'[d] = status[d]
                  \/ status'[d] \notin ParseableStatus \cup {NoRow}
               /\ status'[d] # NoRow /\ quarantineFile[d] => quarantineFile'[d]
               /\ status[d] = NoRow /\ status'[d] # NoRow => quarantineFile'[d]
    BY UploadEffect DEF TrustedStatus, ParseableStatus
  <2>3. QED
    BY <2>1, <2>2, IntakeKeepsLater
<1>3. NoStrandedScan'
  BY UploadKeepsCarried DEF PipelineTypes
<1>4. IntakeInv'
  BY UploadKeepsIntake
<1>5. TrustInv'
  BY UploadEffect DEF TrustInv, TrustedOnlyIfBenign, TrustedStatus, PromBusy,
                      scanVars, laterVars, promVars
<1>6. QED
  BY <1>1, <1>2, <1>3, <1>4, <1>5

\* Every step of a scan task keeps the invariant of the whole pipeline.
LEMMA ScanActsInv == PipelineInv /\ ScanActs => PipelineInv'
<1> SUFFICES ASSUME PipelineInv, ScanNext, UNCHANGED <<loop, uploadVars, laterVars>>
             PROVE  PipelineInv'
  BY DEF ScanActs
<1> USE DEF PipelineInv
<1>0. ScanOutcome
  BY ScanEffect
<1>1. PipelineTypes'
  BY ScanKeepsTypes, TypesOfOtherHalf
     DEF PipelineTypes, TypeInv, ScanPipelineTypeOK
<1>2. FilesInv' /\ AttemptsInv'
  BY <1>0, IntakeKeepsLater DEF ScanOutcome
<1>3. NoStrandedScan'
  BY ScanKeepsCarried DEF PipelineTypes
<1>4. IntakeInv'
  <2>1. \A d \in Docs : status'[d] = NoRow <=> status[d] = NoRow
    BY <1>0 DEF ScanOutcome
  <2>2. \A w \in Workers : ScanBusy(w)' => scanDoc'[w] \in Docs
    BY <1>1 DEF PipelineTypes, TypeInv, BusyHasDoc, ScanPipelineTypeOK, ScanTypeOK,
                ScanBusy
  <2>3. QED
    BY <1>0, <2>1, <2>2 DEF ScanOutcome, IntakeInv, ScanBusy, uploadVars
<1>5. TrustInv'
  BY <1>0 DEF ScanOutcome, TrustInv, TrustedOnlyIfBenign, PromBusy, laterVars, promVars
<1>6. QED
  BY <1>1, <1>2, <1>3, <1>4, <1>5

\* A step that leaves requests, scan tasks and scan jobs alone, makes no row
\* SCANNING and neither creates a row nor takes a file that has none.
LEMMA LaterKeepsIntake ==
    ASSUME PipelineTypes, NoStrandedScan, IntakeInv,
           UNCHANGED <<uploadVars, scanVars, scanJobs>>,
           cutOffs \in Nat, cutOffs' \in {cutOffs, cutOffs + 1},
           \A d \in Docs :
              /\ status'[d] = "SCANNING" => status[d] = "SCANNING"
              /\ status'[d] = NoRow <=> status[d] = NoRow
              /\ status[d] = NoRow => quarantineFile'[d] = quarantineFile[d]
    PROVE  NoStrandedScan' /\ IntakeInv'
<1>1. NoStrandedScan'
  BY DEF NoStrandedScan, Carried, ScanAttended, WorkerCarries, uploadVars, scanVars
<1>2. \A w \in Workers : ScanBusy(w) => scanDoc[w] \in Docs
  BY DEF PipelineTypes, TypeInv, BusyHasDoc, ScanPipelineTypeOK, ScanTypeOK, ScanBusy
<1>3. IntakeInv'
  BY <1>2 DEF IntakeInv, ScanBusy, uploadVars, scanVars
<1>4. QED
  BY <1>1, <1>3

\* Every step of a promotion task keeps the invariant of the whole pipeline.
LEMMA PromActsInv == PipelineInv /\ PromActs => PipelineInv'
<1> SUFFICES ASSUME PipelineInv, PromNext,
                    UNCHANGED <<loop, uploadVars, scanVars, parseVars>>
             PROVE  PipelineInv'
  BY DEF PromActs
<1> USE DEF PipelineInv
<1>0. PromOutcome
  BY PromEffect
<1>1. PipelineTypes'
  BY PromKeepsTypes, TypesOfOtherHalf DEF PipelineTypes, StorageTypes, StorageTypeOK
<1>2. FilesInv' /\ AttemptsInv'
  BY PromKeepsFiles, PromKeepsAttempts DEF PipelineTypes
<1>3. NoStrandedScan' /\ IntakeInv'
  BY <1>0, LaterKeepsIntake, PromLeavesScan DEF PromOutcome
<1>4. TrustInv'
  BY <1>0 DEF PromOutcome, TrustInv, TrustedOnlyIfBenign, PromBusy, scanVars
<1>5. QED
  BY <1>1, <1>2, <1>3, <1>4

\* Every step of a parse task keeps the invariant of the whole pipeline.
LEMMA ParseActsInv == PipelineInv /\ ParseActs => PipelineInv'
<1> SUFFICES ASSUME PipelineInv, ParseNext,
                    UNCHANGED <<loop, uploadVars, scanVars, promVars>>
             PROVE  PipelineInv'
  BY DEF ParseActs
<1> USE DEF PipelineInv
<1>0. /\ UNCHANGED <<quarantineFile, scanJobs, promoteJobs>>
      /\ \A d \in Docs : \/ status'[d] = status[d]
                         \/ {status[d], status'[d]} \subseteq ParseableStatus
  BY ParseEffect DEF PipelineTypes
<1>1. PipelineTypes'
  BY ParseKeepsTypes, TypesOfOtherHalf DEF PipelineTypes, StorageTypes, StorageTypeOK
<1>2. FilesInv' /\ AttemptsInv'
  BY ParseKeepsFiles, ParseKeepsAttempts DEF PipelineTypes
<1>3. NoStrandedScan' /\ IntakeInv'
  BY <1>0, LaterKeepsIntake, ParseLeavesScan DEF ParseableStatus, NoRow
<1>4. TrustInv'
  BY <1>0 DEF TrustInv, TrustedOnlyIfBenign, TrustedStatus, ParseableStatus, PromBusy,
              scanVars, promVars
<1>5. QED
  BY <1>1, <1>2, <1>3, <1>4

-----------------------------------------------------------------------------
\* At most the event loops change, within their type.
OnlyLoop ==
    /\ loop' \in [Processes -> Docs \cup {NoOne}]
    /\ UNCHANGED <<storeVars, uploadVars, scanVars, laterVars>>

\* Every step is one of the four actors' or leaves all but the event loops alone.
LEMMA LoopOrDone ==
    ASSUME TypeInv, [PipelineNext]_pipelineVars
    PROVE  UploadActs \/ ScanActs \/ PromActs \/ ParseActs \/ OnlyLoop
<1>0. loop \in [Processes -> Docs \cup {NoOne}]
  BY DEF TypeInv, ScanPipelineTypeOK, StoreTypeOK
<1>1. CASE UNCHANGED pipelineVars
  BY <1>0, <1>1 DEF pipelineVars, scanPipelineVars, OnlyLoop
<1>2. CASE LoopActs
  <2>1. PICK p \in Processes : (\E d \in Docs : LoopBlocks(p, d)) \/ LoopWakes(p)
    BY <1>2 DEF LoopActs, PipelineBlocks, ScanLoopBlocks, StorageLoopBlocks
  <2>2. UNCHANGED storeVars /\ loop' \in [Processes -> Docs \cup {NoOne}]
    BY <1>0, <2>1 DEF LoopBlocks, LoopWakes
  <2>3. QED
    BY <1>2, <2>2 DEF LoopActs, OnlyLoop
<1>3. QED
  BY <1>1, <1>2 DEF PipelineNext, PipelineDone

\* An empty table satisfies the invariant of the whole pipeline.
LEMMA PipelineInitInv == PipelineInit => PipelineInv
<1> SUFFICES ASSUME PipelineInit PROVE PipelineInv
  OBVIOUS
<1> USE StoreAssumption, ParseAssumption
        DEF PipelineInit, ScanPipelineInit, StoreInit, UploadInit, ScanInit,
            PromInit, ParseInit
<1>1. TypeInv
  BY TypesInductive
<1>2. NotLoaded \in [status : IngestionStatus \cup {NoRow}, cleanId : Nat]
      /\ NoSnapshot \in Snapshot
  BY DEF NotLoaded, NoSnapshot, Snapshot
<1>3. StorageTypes
  BY <1>1, <1>2 DEF TypeInv, ScanPipelineTypeOK, StorageTypes, StorageTypeOK,
                    PromTypeOK, ParseTypeOK, StorageBusy, PromStep, ParseStep
<1>4. FilesInv
  BY DEF FilesInv, CleanHasFile, BytesPreserved, PromWorks, ParseableStatus, NoRow
<1>5. AttemptsInv
  BY DEF AttemptsInv, ParseAttemptsCapped, SnapshotNeverDrifts,
         CompletedPagesCurrent, ParseBusy, NoRow
<1>6. NoStrandedScan
  BY DEF NoStrandedScan, NoRow
<1>7. IntakeInv
  BY DEF IntakeInv, ScanBusy
<1>8. TrustInv
  BY DEF TrustInv, TrustedOnlyIfBenign, TrustedStatus, PassedStep, PromBusy, NoRow
<1>9. QED
  BY <1>1, <1>3, <1>4, <1>5, <1>6, <1>7, <1>8 DEF PipelineInv, PipelineTypes

\* The inductive invariant of the whole pipeline always holds.
THEOREM PipelineInvariant == PipelineSpec => []PipelineInv
<1>1. ASSUME PipelineInv, OnlyLoop
      PROVE  PipelineInv'
  <2> USE <1>1 DEF PipelineInv, OnlyLoop, laterVars, storeVars, uploadVars, scanVars,
                   promVars, parseVars
  <2>1. PipelineTypes'
    BY DEF PipelineTypes, TypeInv, BusyHasDoc, ScanPipelineTypeOK, UploadTypeOK,
           ScanTypeOK, StoreTypeOK, StorageTypes, StorageTypeOK, StorageBusy,
           PromTypeOK, ParseTypeOK
  <2>2. FilesInv' /\ AttemptsInv'
    BY DEF FilesInv, CleanHasFile, BytesPreserved, PromWorks, AttemptsInv,
           ParseAttemptsCapped, SnapshotNeverDrifts, AttemptCurrent,
           CompletedPagesCurrent, ParseBusy
  <2>3. NoStrandedScan' /\ IntakeInv' /\ TrustInv'
    BY DEF NoStrandedScan, Carried, ScanAttended, WorkerCarries, IntakeInv, ScanBusy, TrustInv,
           TrustedOnlyIfBenign, PromBusy
  <2>4. QED
    BY <2>1, <2>2, <2>3
<1>2. PipelineInv /\ [PipelineNext]_pipelineVars => PipelineInv'
  BY <1>1, UploadActsInv, ScanActsInv, PromActsInv, ParseActsInv, LoopOrDone
     DEF PipelineInv, PipelineTypes
<1>3. QED
  BY <1>2, PipelineInitInv, PTL DEF PipelineSpec

\* Type correctness of the whole pipeline.
THEOREM PipelineTypesCorrect == PipelineSpec => []PipelineTypeOK
<1>1. PipelineInv => PipelineTypeOK
  BY DEF PipelineInv, PipelineTypes, TypeInv, StorageTypes, StorageTypeOK,
         PipelineTypeOK
<1>2. QED
  BY <1>1, PipelineInvariant, PTL

\* From the INSERT on, the bytes of a document are in quarantine or in the clean
\* file its row names, although the recovery of a late enqueue may write
\* PROMOTION_FAILED or SCAN_FAILED over any status.
THEOREM PipelineKeepsBytes == PipelineSpec => []BytesPreserved
<1>1. PipelineInv => BytesPreserved
  BY DEF PipelineInv, FilesInv
<1>2. QED
  BY <1>1, PipelineInvariant, PTL

\* Only a document that scanner and content policy pass is ever trusted, with
\* racing scans, late enqueues, stale promotions and tasks that are cut off.
THEOREM PipelineTrustsOnlyBenign == PipelineSpec => []TrustedOnlyIfBenign
<1>1. PipelineInv => TrustedOnlyIfBenign
  BY DEF PipelineInv, TrustInv
<1>2. QED
  BY <1>1, PipelineInvariant, PTL

\* No later stage strands a document in SCANNING.
THEOREM PipelineNeverStrands == PipelineSpec => []NoStrandedScan
<1>1. PipelineInv => NoStrandedScan
  BY DEF PipelineInv
<1>2. QED
  BY <1>1, PipelineInvariant, PTL

\* The clean file, the attempt cap and the pages of parsing are safe from the
\* recovery handlers of the earlier stages too, and so is the file an attempt reads.
THEOREM PipelineParsesSafely ==
    PipelineSpec => [](/\ CleanHasFile /\ ParseAttemptsCapped
                       /\ CompletedPagesCurrent /\ SnapshotNeverDrifts)
<1>1. PipelineInv => /\ CleanHasFile /\ ParseAttemptsCapped
                     /\ CompletedPagesCurrent /\ SnapshotNeverDrifts
  BY DEF PipelineInv, FilesInv, AttemptsInv
<1>2. QED
  BY <1>1, PipelineInvariant, PTL

-----------------------------------------------------------------------------
\* A request or scan step opens no row to parsing and puts no file back under one
\* that is open.
LEMMA IntakeKeepsLeftovers ==
    ASSUME PipelineInv, LeftoverMarked, UploadActs \/ ScanActs
    PROVE  LeftoverMarked'
<1>0. /\ cutOffs \in Nat /\ quarantineFile \in [Docs -> BOOLEAN]
      /\ UNCHANGED promVars
  BY StoreAssumption DEF PipelineInv, PipelineTypes, TypeInv, ScanPipelineTypeOK,
     StoreTypeOK, UploadActs, ScanActs, laterVars
<1>1. CASE UploadActs
  <2>1. PICK d \in Docs : UploadRfp(d) \/ UploadKnowledge(d) \/ UploadAdvance(d)
                           \/ WebCutOff(d)
    BY <1>1 DEF UploadActs, UploadNext
  <2>2. cutOffs' \in {cutOffs, cutOffs + 1}
    BY <2>1 DEF UploadAdvance, UploadRfp, UploadKnowledge, StreamUpload, StreamFails,
       CommitQuarantined, CommitFails, Validate, DetectAccepts, DetectRejects,
       EnqueueScanJob, RecoverRead, RecoverWrite, RecoverRetry, WebCutOff, CutOff, storeVars
  <2>3. \A e \in Docs : quarantineFile'[e] => quarantineFile[e] \/ status[e] = NoRow
    BY <1>0, <2>1 DEF UploadAdvance, UploadRfp, UploadKnowledge, StreamUpload, StreamFails,
       CommitQuarantined, CommitFails, Validate, DetectAccepts, DetectRejects,
       EnqueueScanJob, RecoverRead, RecoverWrite, RecoverRetry, WebCutOff, storeVars,
       PipelineInv, IntakeInv, At
  <2>4. \A e \in Docs : status'[e] \in ParseableStatus => status'[e] = status[e]
    BY <1>1, UploadEffect DEF UploadActs, PipelineInv, ParseableStatus, TrustedStatus
  <2>5. QED
    BY <1>0, <2>2, <2>3, <2>4, OthersKeepLeftovers DEF ParseableStatus, NoRow
<1>2. CASE ScanActs
  <2>1. cutOffs' \in {cutOffs, cutOffs + 1}
    BY <1>2, ScanCountsCutOffs DEF ScanActs, CutOff
  <2>2. ScanOutcome
    BY <1>2, ScanEffect DEF ScanActs, PipelineInv
  <2>3. QED
    BY <1>0, <2>1, <2>2, OthersKeepLeftovers DEF ScanOutcome
<1>3. QED
  BY <1>1, <1>2

\* A quarantine file that outlives its promotion is accounted for in the whole
\* pipeline, whatever the enqueues do.
THEOREM PipelineMarksLeftovers == PipelineSpec => []LeftoverMarked
<1>1. PipelineInit => LeftoverMarked
  BY DEF PipelineInit, ScanPipelineInit, StoreInit, LeftoverMarked, ParseableStatus, NoRow
<1>2. PipelineInv /\ LeftoverMarked /\ [PipelineNext]_pipelineVars => LeftoverMarked'
  <2> SUFFICES ASSUME PipelineInv, LeftoverMarked, [PipelineNext]_pipelineVars
               PROVE  LeftoverMarked'
    OBVIOUS
  <2>1. CASE UploadActs \/ ScanActs
    BY <2>1, IntakeKeepsLeftovers
  <2>2. CASE PromActs
    BY <2>2, PromKeepsLeftovers DEF PromActs, PipelineInv, PipelineTypes
  <2>3. CASE ParseActs
    BY <2>3, ParseKeepsLeftovers DEF ParseActs, PipelineInv, PipelineTypes
  <2>4. CASE OnlyLoop
    BY <2>4 DEF OnlyLoop, storeVars, laterVars, promVars, LeftoverMarked
  <2>5. QED
    BY <2>1, <2>2, <2>3, <2>4, LoopOrDone DEF PipelineInv, PipelineTypes
<1>3. QED
  BY <1>1, <1>2, PipelineInvariant, PTL DEF PipelineSpec

-----------------------------------------------------------------------------
\* A step in which nobody is cut off strands no document, and one in which the task
\* or request at work on d is cut off strands at most d.
LivingStep == cutOffs' = cutOffs /\ \A e \in Docs : Forgotten(e)' => Forgotten(e)
CutOffStep(d) ==
    /\ cutOffs' = cutOffs + 1
    /\ \A e \in Docs \ {d} : Forgotten(e)' => Forgotten(e)

\* A request step forgets nothing but, when the request is cut off, its own document.
LEMMA UploadStrands ==
    ASSUME PipelineTypes, UploadActs
    PROVE  LivingStep \/ \E d \in Docs : CutOffStep(d)
<1>1. PICK d \in Docs : UploadRfp(d) \/ UploadKnowledge(d) \/ UploadAdvance(d)
                         \/ WebCutOff(d)
  BY DEF UploadActs, UploadNext
<1>2. UNCHANGED <<scanVars, laterVars, promoteJobs>>
  BY <1>1 DEF UploadActs, UploadAdvance, UploadRfp, UploadKnowledge, StreamUpload,
     StreamFails, CommitQuarantined, CommitFails, Validate, DetectAccepts, DetectRejects,
     EnqueueScanJob, RecoverRead, RecoverWrite, RecoverRetry, WebCutOff, storeVars
<1>3. \A e \in Docs : /\ PassAttended(e)' <=> PassAttended(e)
                      /\ PromotionAttended(e)' <=> PromotionAttended(e)
                      /\ ParseAttended(e)' <=> ParseAttended(e)
                      /\ \A w \in Workers : WorkerCarries(w, e)' <=> WorkerCarries(w, e)
  BY <1>2 DEF scanVars, laterVars, promVars, parseVars, PassAttended, PassCarries,
     PromotionAttended, RecoveryCarries, PromotionCarries, ParseAttended, ParseCarries,
     WorkerCarries
<1>4. \A e \in Docs \ {d} : /\ status'[e] = status[e]
                            /\ upload'[e] = upload[e]
                            /\ scanJobs'[e] = scanJobs[e]
  BY <1>1 DEF PipelineTypes, TypeInv, ScanPipelineTypeOK, StoreTypeOK, UploadTypeOK,
     UploadAdvance, UploadRfp, UploadKnowledge, StreamUpload, StreamFails,
     CommitQuarantined, CommitFails, Validate, DetectAccepts, DetectRejects,
     EnqueueScanJob, RecoverRead, RecoverWrite, RecoverRetry, WebCutOff, storeVars,
     GoTo, SetStatus, EnqueueTo
<1>5. \A e \in Docs \ {d} : Forgotten(e)' => Forgotten(e)
  <2> SUFFICES ASSUME NEW e \in Docs \ {d}
               PROVE  Forgotten(e)' => Forgotten(e)
    OBVIOUS
  <2>1. ScanAttended(e)' <=> ScanAttended(e)
    BY <1>3, <1>4 DEF ScanAttended
  <2>2. QED
    BY <1>3, <1>4, <2>1 DEF Forgotten, IntakeForgot, ScanForgot, PassForgot,
       PromotionForgot, ParseForgot
<1>6. CASE WebCutOff(d)
  BY <1>5, <1>6 DEF WebCutOff, CutOff, CutOffStep
<1>7. CASE ~WebCutOff(d)
  <2>1. SUFFICES cutOffs' = cutOffs /\ (Forgotten(d)' => Forgotten(d))
    BY <1>5 DEF LivingStep
  <2> USE DEF PipelineTypes, TypeInv, ScanPipelineTypeOK, StoreTypeOK, UploadTypeOK,
              storeVars, At, GoTo, SetStatus
  <2>2. CASE CommitQuarantined(d) \/ Validate(d) \/ DetectRejects(d) \/ RecoverWrite(d)
    BY <2>2 DEF CommitQuarantined, Validate, DetectRejects, RecoverWrite, Forgotten,
       IntakeForgot, ScanForgot, PassForgot, PromotionForgot, ParseForgot
  <2>3. CASE DetectAccepts(d)
    BY <2>3 DEF DetectAccepts, Forgotten, IntakeForgot, ScanForgot, ScanAttended,
       PassForgot, PromotionForgot, ParseForgot
  <2>4. CASE UploadRfp(d) \/ UploadKnowledge(d) \/ StreamUpload(d) \/ StreamFails(d)
             \/ CommitFails(d) \/ EnqueueScanJob(d) \/ RecoverRead(d) \/ RecoverRetry(d)
    <3>1. status' = status /\ cutOffs' = cutOffs
      BY <2>4 DEF UploadRfp, UploadKnowledge, StreamUpload, StreamFails, CommitFails,
         EnqueueScanJob, RecoverRead, RecoverRetry
    <3>2. upload[d] \notin {"quarantined", "validating"}
      BY <2>4 DEF UploadRfp, UploadKnowledge, StreamUpload, StreamFails, CommitFails,
         EnqueueScanJob, RecoverRead, RecoverRetry
    <3>3. status[d] = "SCANNING" /\ ScanAttended(d) => ScanAttended(d)'
      <4>1. CASE EnqueueScanJob(d)
        BY <1>3, <4>1, StoreAssumption
           DEF EnqueueScanJob, EnqueueTo, Delivered, Raises, ScanAttended
      <4>2. CASE RecoverRead(d)
        BY <1>3, <4>2 DEF RecoverRead, ScanAttended
      <4>3. CASE RecoverRetry(d)
        BY <1>3, <4>3 DEF RecoverRetry, EnqueueTo, Delivered, ScanAttended
      <4>4. CASE UploadRfp(d) \/ UploadKnowledge(d) \/ StreamUpload(d)
                 \/ StreamFails(d) \/ CommitFails(d)
        BY <1>3, <4>4 DEF UploadRfp, UploadKnowledge, StreamUpload, StreamFails,
           CommitFails, ScanAttended
      <4>5. QED
        BY <2>4, <4>1, <4>2, <4>3, <4>4
    <3>4. QED
      BY <1>3, <3>1, <3>2, <3>3 DEF Forgotten, IntakeForgot, ScanForgot, PassForgot,
         PromotionForgot, ParseForgot
  <2>5. QED
    BY <1>1, <1>7, <2>2, <2>3, <2>4 DEF UploadAdvance
<1>8. QED
  BY <1>6, <1>7

\* w may change, of the rows and the promotion queue, what is d's, and of the
\* scan tasks its own, which is on d or on nothing.
OnlyOwn(w, d) ==
    /\ scanDoc[w] \in {d, NoOne} /\ scanDoc'[w] \in {d, NoOne}
    /\ \A e \in Docs \ {d} : status'[e] = status[e] /\ promoteJobs'[e] = promoteJobs[e]
    /\ \A v \in Workers \ {w} : /\ scanPc'[v] = scanPc[v]
                                /\ scanDoc'[v] = scanDoc[v]
                                /\ peek'[v] = peek[v]

\* Every scan step is such a step, of some worker on some document.
LEMMA ScanTouchesOwn ==
    ASSUME PipelineTypes, NEW w \in Workers, NEW d \in Docs,
           \/ ScanDocumentTask(w, d)
           \/ scanDoc[w] = d /\ (ScanAdvance(w) \/ ScanEscapes(w) \/ ScanCutOff(w))
    PROVE  OnlyOwn(w, d)
<1> USE DEF PipelineTypes, TypeInv, BusyHasDoc, ScanPipelineTypeOK, StoreTypeOK,
            ScanTypeOK, OnlyOwn, ScanAt, ScanGoTo, SetStatus, ScanEnd, ScanStays, storeVars
<1>1. CASE ScanDocumentTask(w, d)
  BY <1>1 DEF ScanDocumentTask, PrepareRearms, PrepareExhausted, RunScanStarts, RunScanNoOp
<1>2. CASE scanDoc[w] = d /\ (RunScan(w) \/ LoadDocument(w))
  BY <1>2 DEF RunScan, RunScanStarts, RunScanNoOp, LoadDocument
<1>3. CASE scanDoc[w] = d /\ (IntegrityMismatch(w) \/ ScanError(w))
  BY <1>3 DEF IntegrityMismatch, ApplyTransition, ScanError, ScanRaises
<1>4. CASE scanDoc[w] = d /\ ScanVerdict(w)
  BY <1>4 DEF ScanVerdict, ApplyTransition, ScanRaises
<1>5. CASE scanDoc[w] = d /\ (EnqueuePromotionJob(w) \/ PromotionRecoverRead(w))
  BY <1>5 DEF EnqueuePromotionJob, EnqueueTo, PromotionRecoverRead
<1>6. CASE scanDoc[w] = d /\ (PromotionRecoverPromoting(w) \/ PromotionRecoverReload(w)
                              \/ PromotionRecoverFail(w))
  BY <1>6 DEF PromotionRecoverPromoting, PromotionRecoverReload, PromotionRecoverFail
<1>7. CASE scanDoc[w] = d /\ (AfterScan(w) \/ ScanClose(w) \/ ScanEscapes(w)
                              \/ ScanCutOff(w))
  BY <1>7 DEF AfterScan, ScanClose, ScanEscapes, ScanCutOff
<1>8. QED
  BY <1>1, <1>2, <1>3, <1>4, <1>5, <1>6, <1>7 DEF ScanAdvance

\* A row that a scan step leaves waiting for its promotion, or in it, is attended
\* to if it was before; a row it leaves in a status of another stage had it before.
HandsOn(d) ==
    /\ status'[d] \in {"QUARANTINED", "VALIDATING", "PARSING"} => status'[d] = status[d]
    /\ PassForgot(d)' => PassForgot(d)
    /\ PromotionForgot(d)' => PromotionForgot(d)

\* Where the row and the queue of d stay as they are and w was at no step that
\* moves a passed document on, whoever did still does.
LEMMA AsideHandsOn ==
    ASSUME NEW w \in Workers, NEW d \in Docs, OnlyOwn(w, d), UNCHANGED promVars,
           status'[d] = status[d], promoteJobs'[d] = promoteJobs[d],
           ~PassCarries(w, d), ~RecoveryCarries(w, d)
    PROVE  HandsOn(d)
BY DEF HandsOn, OnlyOwn, PassForgot, PassAttended, PassCarries, PromotionForgot,
   PromotionAttended, RecoveryCarries, PromotionCarries, promVars

\* Every step of a scan task that is not cut off hands its document on.
LEMMA ScanHandsOn ==
    ASSUME PipelineTypes, UNCHANGED promVars, NEW w \in Workers, NEW d \in Docs,
           \/ ScanDocumentTask(w, d)
           \/ scanDoc[w] = d /\ ScanAdvance(w)
    PROVE  HandsOn(d) /\ cutOffs' = cutOffs
<1>0. OnlyOwn(w, d)
  BY ScanTouchesOwn
<1> DEFINE Settled == status'[d] \notin {"QUARANTINED", "VALIDATING", "PARSING",
                                         "CLEAN_PENDING_PROMOTION", "PROMOTING"}
           Aside == /\ status'[d] = status[d] /\ promoteJobs'[d] = promoteJobs[d]
                    /\ ~PassCarries(w, d) /\ ~RecoveryCarries(w, d)
<1>1. Settled \/ Aside => HandsOn(d)
  <2>1. CASE Settled
    BY <2>1 DEF HandsOn, PassForgot, PromotionForgot
  <2>2. CASE Aside
    BY <1>0, <2>2, AsideHandsOn
  <2>3. QED
    BY <2>1, <2>2
<1> USE DEF PipelineTypes, TypeInv, BusyHasDoc, ScanPipelineTypeOK, StoreTypeOK,
            ScanTypeOK, ScanAt, ScanGoTo, SetStatus, storeVars
<1>2. CASE ScanDocumentTask(w, d)
  BY <1>1, <1>2 DEF ScanDocumentTask, PrepareRearms, PrepareExhausted, RunScanStarts,
     RunScanNoOp, PassCarries, RecoveryCarries
<1>3. CASE scanDoc[w] = d /\ (RunScan(w) \/ LoadDocument(w))
  BY <1>1, <1>3 DEF RunScan, RunScanStarts, RunScanNoOp, LoadDocument, PassCarries,
     RecoveryCarries
<1>4. CASE scanDoc[w] = d /\ (IntegrityMismatch(w) \/ ScanError(w))
  BY <1>1, <1>4 DEF IntegrityMismatch, ApplyTransition, ScanError, ScanRaises,
     PassCarries, RecoveryCarries
<1>5. CASE scanDoc[w] = d /\ ScanVerdict(w)
  <2>1. PICK new \in Verdict(d) :
           \/ /\ ApplyTransition(w, new)
              /\ ScanGoTo(w, IF new = "CLEAN_PENDING_PROMOTION"
                             THEN "enqueuePromotion" ELSE "after")
              /\ ScanStays
           \/ ScanRaises(w)
    BY <1>5 DEF ScanVerdict
  <2>2. promoteJobs' = promoteJobs /\ cutOffs' = cutOffs
    BY <1>5 DEF ScanVerdict
  <2>3. ~PassCarries(w, d) /\ ~RecoveryCarries(w, d)
    BY <1>5 DEF ScanVerdict, PassCarries, RecoveryCarries
  <2>4. CASE ScanRaises(w)
    BY <1>1, <1>5, <2>2, <2>3, <2>4 DEF ScanRaises
  <2>5. CASE ApplyTransition(w, new) /\ status'[d] = status[d]
    BY <1>1, <2>2, <2>3, <2>5
  <2>6. CASE ApplyTransition(w, new) /\ status'[d] # status[d]
             /\ ScanGoTo(w, IF new = "CLEAN_PENDING_PROMOTION"
                            THEN "enqueuePromotion" ELSE "after") /\ ScanStays
    <3>1. status'[d] = new
      BY <1>5, <2>6 DEF ApplyTransition
    <3>2. new \in {"SCAN_FAILED", "REJECTED_MALWARE", "REJECTED_CONTENT_POLICY",
                   "CLEAN_PENDING_PROMOTION"}
      BY <2>1 DEF Verdict, VerdictOf
    <3>3. CASE new = "CLEAN_PENDING_PROMOTION"
      <4>1. PassCarries(w, d)'
        BY <1>5, <2>6, <3>3 DEF PassCarries, ScanStays
      <4>2. QED
        BY <2>2, <3>1, <3>3, <4>1 DEF HandsOn, PassForgot, PassAttended, PromotionForgot
    <3>4. QED
      BY <1>1, <2>2, <3>1, <3>2, <3>3
  <2>7. QED
    BY <2>1, <2>4, <2>5, <2>6
<1>6. CASE scanDoc[w] = d /\ EnqueuePromotionJob(w)
  <2>1. /\ status' = status /\ cutOffs' = cutOffs
        /\ promoteJobs[d] > 0 => promoteJobs'[d] > 0
        /\ promoteJobs'[d] > 0 \/ PassCarries(w, d)'
    BY <1>6, StoreAssumption
       DEF EnqueuePromotionJob, EnqueueTo, Delivered, Raises, PassCarries
  <2>2. ~RecoveryCarries(w, d)
    BY <1>6 DEF EnqueuePromotionJob, RecoveryCarries
  <2>3. \A v \in Workers : RecoveryCarries(v, d) => RecoveryCarries(v, d)'
    BY <1>0, <2>2 DEF OnlyOwn, RecoveryCarries
  <2>4. \A v \in Workers : PromotionCarries(v, d) => PromotionCarries(v, d)'
    BY DEF PromotionCarries, promVars
  <2>5. QED
    BY <2>1, <2>3, <2>4 DEF HandsOn, PassForgot, PassAttended, PromotionForgot,
       PromotionAttended
<1>7. CASE scanDoc[w] = d /\ PromotionRecoverRead(w)
  <2>1. /\ status' = status /\ promoteJobs' = promoteJobs /\ cutOffs' = cutOffs
        /\ status[d] = "CLEAN_PENDING_PROMOTION" => PassCarries(w, d)'
        /\ status[d] = "PROMOTING" => RecoveryCarries(w, d)'
    BY <1>7 DEF PromotionRecoverRead, PassCarries, RecoveryCarries
  <2>2. QED
    BY <2>1 DEF HandsOn, PassForgot, PassAttended, PromotionForgot, PromotionAttended
<1>8. CASE scanDoc[w] = d /\ PromotionRecoverPromoting(w)
  <2>1. status'[d] = "PROMOTING" /\ RecoveryCarries(w, d)' /\ cutOffs' = cutOffs
    BY <1>8 DEF PromotionRecoverPromoting, RecoveryCarries
  <2>2. QED
    BY <2>1 DEF HandsOn, PassForgot, PromotionForgot, PromotionAttended
<1>9. CASE scanDoc[w] = d /\ PromotionRecoverReload(w)
  <2>1. /\ status' = status /\ promoteJobs' = promoteJobs /\ cutOffs' = cutOffs
        /\ status[d] = "PROMOTING" => RecoveryCarries(w, d)'
    BY <1>9 DEF PromotionRecoverReload, RecoveryCarries
  <2>2. ~PassCarries(w, d)
    BY <1>9 DEF PromotionRecoverReload, PassCarries
  <2>3. \A v \in Workers : PassCarries(v, d) => PassCarries(v, d)'
    BY <1>0, <2>2 DEF OnlyOwn, PassCarries
  <2>4. QED
    BY <2>1, <2>3 DEF HandsOn, PassForgot, PassAttended, PromotionForgot, PromotionAttended
<1>10. CASE scanDoc[w] = d /\ PromotionRecoverFail(w)
  <2>1. Transition("PROMOTING", "PROMOTION_FAILED") = "ok"
    BY DEF Transition, ALLOWED_TRANSITIONS, IngestionStatus
  <2>2. QED
    BY <1>1, <1>10, <2>1 DEF PromotionRecoverFail, PassCarries, RecoveryCarries
<1>11. CASE scanDoc[w] = d /\ (AfterScan(w) \/ ScanClose(w))
  BY <1>1, <1>11 DEF AfterScan, ScanClose, PassCarries, RecoveryCarries
<1>12. QED
  BY <1>2, <1>3, <1>4, <1>5, <1>6, <1>7, <1>8, <1>9, <1>10, <1>11 DEF ScanAdvance

\* A scan step forgets nothing but, when the task is cut off, its own document.
LEMMA ScanStrands ==
    ASSUME PipelineTypes, ScanActs
    PROVE  LivingStep \/ \E d \in Docs : CutOffStep(d)
<1>0. UNCHANGED <<uploadVars, promVars, parseVars>>
  BY DEF ScanActs, laterVars
<1>1. PICK w \in Workers : \/ \E d \in Docs : ScanDocumentTask(w, d)
                           \/ ScanAdvance(w)
                           \/ ScanEscapes(w)
                           \/ ScanCutOff(w)
  BY DEF ScanActs, ScanNext
<1>2. PICK d \in Docs : \/ ScanDocumentTask(w, d)
                        \/ scanDoc[w] = d /\ (ScanAdvance(w) \/ ScanEscapes(w) \/ ScanCutOff(w))
  <2>1. ScanAdvance(w) \/ ScanEscapes(w) \/ ScanCutOff(w) => scanPc[w] # "idle"
    BY DEF ScanAdvance, RunScan, LoadDocument, IntegrityMismatch, ScanVerdict,
       ScanError, EnqueuePromotionJob, PromotionRecoverRead,
       PromotionRecoverPromoting, PromotionRecoverReload,
       PromotionRecoverFail, AfterScan, ScanClose, ScanEscapes, ScanCutOff,
       ScanBusy, ScanAt
  <2>2. scanPc[w] # "idle" => scanDoc[w] \in Docs
    BY DEF PipelineTypes, TypeInv, BusyHasDoc, ScanPipelineTypeOK, ScanTypeOK
  <2>3. QED
    BY <1>1, <2>1, <2>2
<1>3. OnlyOwn(w, d)
  BY <1>2, ScanTouchesOwn
<1>4. /\ \A e \in Docs \ {d} : ScanForgot(e)' => ScanForgot(e)
      /\ ScanDocumentTask(w, d) \/ (scanDoc[w] = d /\ ScanAdvance(w)) =>
            (ScanForgot(d)' => ScanForgot(d))
  <2>1. \A v \in Workers : ScanEscapes(v) =>
           /\ v = w /\ scanDoc[v] = d
           /\ ~(ScanDocumentTask(w, d) \/ (scanDoc[w] = d /\ ScanAdvance(w)))
    <3>1. ASSUME NEW v \in Workers, ScanEscapes(v)
          PROVE  cutOffs' = cutOffs + 1 /\ scanPc'[v] # scanPc[v]
      BY <3>1 DEF ScanEscapes, CutOff, ScanAt, ScanGoTo, PipelineTypes, TypeInv,
         ScanPipelineTypeOK, ScanTypeOK
    <3>2. cutOffs + 1 # cutOffs
      BY StoreAssumption DEF PipelineTypes, TypeInv, ScanPipelineTypeOK, StoreTypeOK
    <3>3. ScanDocumentTask(w, d) \/ (scanDoc[w] = d /\ ScanAdvance(w)) => cutOffs' = cutOffs
      BY <1>0, ScanHandsOn
    <3>4. \A v \in Workers : ScanEscapes(v) => v = w
      BY <1>3, <3>1 DEF OnlyOwn
    <3>5. QED
      BY <1>2, <3>1, <3>2, <3>3, <3>4
  <2>2. \A e \in Docs : ScanHeld(e) =>
           ScanHeld(e)' \/ \E v \in Workers : scanDoc[v] = e /\ ScanEscapes(v)
    BY ScanKeepsHeld DEF ScanActs, PipelineTypes
  <2>3. QED
    BY <2>1, <2>2 DEF ScanHeld, ScanForgot
<1>5. upload' = upload /\ \A e \in Docs : ParseAttended(e)' <=> ParseAttended(e)
  BY <1>0 DEF uploadVars, parseVars, ParseAttended, ParseCarries
<1>6. \A e \in Docs \ {d} : Forgotten(e)' => Forgotten(e)
  <2> SUFFICES ASSUME NEW e \in Docs \ {d}
               PROVE  Forgotten(e)' => Forgotten(e)
    OBVIOUS
  <2>1. \A v \in Workers : /\ PassCarries(v, e) => PassCarries(v, e)'
                           /\ RecoveryCarries(v, e) => RecoveryCarries(v, e)'
                           /\ PromotionCarries(v, e) => PromotionCarries(v, e)'
    BY <1>0, <1>3, StoreAssumption
       DEF OnlyOwn, PassCarries, RecoveryCarries, PromotionCarries, promVars
  <2>2. status'[e] = status[e] /\ promoteJobs'[e] = promoteJobs[e]
    BY <1>3 DEF OnlyOwn
  <2>3. PassAttended(e) => PassAttended(e)'
    BY <2>1, <2>2 DEF PassAttended
  <2>4. PromotionAttended(e) => PromotionAttended(e)'
    BY <2>1, <2>2 DEF PromotionAttended
  <2>5. QED
    BY <1>4, <1>5, <2>2, <2>3, <2>4 DEF Forgotten, IntakeForgot, PassForgot,
       PromotionForgot, ParseForgot
<1>7. CASE ScanEscapes(w) \/ ScanCutOff(w)
  BY <1>6, <1>7 DEF ScanEscapes, ScanCutOff, CutOff, CutOffStep
<1>8. CASE ~ScanEscapes(w) /\ ~ScanCutOff(w)
  <2>1. HandsOn(d) /\ cutOffs' = cutOffs
    BY <1>0, <1>2, <1>8, ScanHandsOn
  <2>2. Forgotten(d)' => Forgotten(d)
    BY <1>2, <1>4, <1>5, <1>8, <2>1 DEF HandsOn, Forgotten, IntakeForgot, ParseForgot
  <2>3. QED
    BY <1>6, <2>1, <2>2 DEF LivingStep
<1>9. QED
  BY <1>7, <1>8

\* v's promotion task is as it was.
PromAlike(v) == promPc'[v] = promPc[v] /\ promDoc'[v] = promDoc[v] /\ promSeen'[v] = promSeen[v]

\* A promotion step touches the row and the jobs of one document and one task of
\* that document; unless the task is cut off, a row it leaves PROMOTING has somebody.
LEMMA PromHandsOn ==
    ASSUME PipelineTypes, UNCHANGED scanVars, NEW w \in Workers, NEW d \in Docs,
           \/ PromoteDocumentTask(w, d)
           \/ promDoc[w] = d /\ (PromAdvance(w) \/ PromEscapes(w) \/ PromoteCutOff(w))
    PROVE  /\ scanJobs' = scanJobs
           /\ promDoc[w] \in {d, NoOne} /\ \A v \in Workers \ {w} : PromAlike(v)
           /\ \A e \in Docs \ {d} : /\ status'[e] = status[e]
                                    /\ promoteJobs'[e] = promoteJobs[e]
           /\ \/ cutOffs' = cutOffs /\ HandsOn(d)
                 /\ (status'[d] = "SCANNING" => status[d] = "SCANNING")
              \/ cutOffs' = cutOffs + 1
<1> USE DEF PipelineTypes, StorageTypes, StorageBusy, StorageTypeOK, StoreTypeOK,
            PromTypeOK, storeVars, PromAt, PromGoTo, PromEnd, SetStatus, PromAlike
<1>1. \A v \in Workers : /\ PassCarries(v, d)' <=> PassCarries(v, d)
                         /\ RecoveryCarries(v, d)' <=> RecoveryCarries(v, d)
  BY DEF PassCarries, RecoveryCarries, scanVars
<1> DEFINE Others == \A v \in Workers \ {w} : PromAlike(v)
           Frame == /\ scanJobs' = scanJobs
                    /\ promDoc[w] \in {d, NoOne}
                    /\ \A e \in Docs \ {d} : /\ status'[e] = status[e]
                                             /\ promoteJobs'[e] = promoteJobs[e]
           Kept == /\ status'[d] = status[d] /\ promoteJobs'[d] = promoteJobs[d]
                   /\ PromotionCarries(w, d) /\ status[d] = "PROMOTING"
                         => PromotionCarries(w, d)'
           Settled == status'[d] \in {"CLEAN", "PROMOTION_FAILED"}
           Goal == HandsOn(d) /\ (status'[d] = "SCANNING" => status[d] = "SCANNING")
<1>2. Others /\ (Kept \/ Settled) => Goal
  <2>1. CASE Settled
    BY <2>1 DEF HandsOn, PassForgot, PromotionForgot
  <2>2. CASE Others /\ Kept
    <3>1. status[d] = "PROMOTING" =>
             \A v \in Workers : PromotionCarries(v, d) => PromotionCarries(v, d)'
      BY <2>2 DEF PromotionCarries
    <3>2. QED
      BY <1>1, <2>2, <3>1 DEF HandsOn, PassForgot, PassAttended, PromotionForgot,
         PromotionAttended
  <2>3. QED
    BY <2>1, <2>2
<1>3. CASE PromoteDocumentTask(w, d)
  <2> USE <1>3 DEF PromoteDocumentTask, TakeFrom
  <2>0. Frame /\ Others /\ cutOffs' = cutOffs
    BY DEF PromoteRefused, PromoteBegins, PromoteResumes, LoadForCopy
  <2>1. CASE PromoteRefused(w, d)
    BY <2>0, <2>1 DEF PromoteRefused, Promotable, HandsOn, PassForgot, PromotionForgot
  <2>2. CASE PromoteBegins(w, d)
    <3>1. status'[d] = "PROMOTING" /\ PromotionCarries(w, d)'
      BY <2>2 DEF PromoteBegins, PromotionCarries
    <3>2. QED
      BY <2>0, <3>1 DEF HandsOn, PassForgot, PromotionForgot, PromotionAttended
  <2>3. CASE PromoteResumes(w, d)
    <3>1. status'[d] = "PROMOTING" /\ PromotionCarries(w, d)'
      BY <2>3 DEF PromoteResumes, LoadForCopy, PromotionCarries
    <3>2. QED
      BY <2>0, <3>1 DEF HandsOn, PassForgot, PromotionForgot, PromotionAttended
  <2>4. QED
    BY <2>1, <2>2, <2>3
<1>4. CASE promDoc[w] = d /\ PromReload(w)
  BY <1>2, <1>4 DEF PromReload, LoadForCopy, PromotionCarries
<1>5. CASE promDoc[w] = d /\ (CopyStarts(w) \/ CopyFinishes(w) \/ CopyFails(w))
  BY <1>2, <1>5 DEF CopyStarts, CopyFinishes, CopyFails, PromotionCarries
<1>6. CASE promDoc[w] = d /\ RecordFailure(w)
  BY <1>2, <1>6 DEF RecordFailure, PromotionCarries
<1>7. CASE promDoc[w] = d /\ PromoteCommits(w)
  BY <1>2, <1>7 DEF PromoteCommits
<1>8. CASE promDoc[w] = d /\ PromoteAborts(w)
  BY <1>2, <1>8 DEF PromoteAborts, PromotionCarries
<1>9. CASE promDoc[w] = d /\ (EnqueueParseJob(w) \/ UnlinkSource(w) \/ UnlinkFails(w))
  BY <1>2, <1>9 DEF EnqueueParseJob, UnlinkSource, UnlinkFails, PromotionCarries
<1>10. CASE promDoc[w] = d /\ PromClose(w)
  BY <1>2, <1>10 DEF PromClose, PromotionCarries
<1>11. CASE promDoc[w] = d /\ (PromEscapes(w) \/ PromoteCutOff(w))
  BY <1>11 DEF PromEscapes, PromoteCutOff, Redeliver, CutOff
<1>12. QED
  BY <1>3, <1>4, <1>5, <1>6, <1>7, <1>8, <1>9, <1>10, <1>11 DEF PromAdvance

\* A promotion step forgets nothing but, when the task is cut off, its own document.
LEMMA PromStrands ==
    ASSUME PipelineTypes, PromActs
    PROVE  LivingStep \/ \E d \in Docs : CutOffStep(d)
<1>0. UNCHANGED <<uploadVars, scanVars, parseVars>>
  BY DEF PromActs
<1>1. PICK w \in Workers : \/ \E d \in Docs : PromoteDocumentTask(w, d)
                           \/ PromAdvance(w)
                           \/ PromEscapes(w)
                           \/ PromoteCutOff(w)
  BY DEF PromActs, PromNext
<1>2. PICK d \in Docs : \/ PromoteDocumentTask(w, d)
                        \/ promDoc[w] = d /\ (PromAdvance(w) \/ PromEscapes(w) \/ PromoteCutOff(w))
  <2>1. PromAdvance(w) \/ PromEscapes(w) \/ PromoteCutOff(w) => promPc[w] # "idle"
    BY DEF PromAdvance, PromReload, CopyStarts, CopyFinishes, CopyFails, RecordFailure,
       PromoteCommits, PromoteAborts, EnqueueParseJob, UnlinkSource, UnlinkFails,
       PromClose, PromEscapes, PromoteCutOff, PromBusy, PromAt
  <2>2. promPc[w] # "idle" => promDoc[w] \in Docs
    BY DEF PipelineTypes, StorageTypes, StorageBusy, StorageTypeOK, PromTypeOK
  <2>3. QED
    BY <1>1, <2>1, <2>2
<1>3. /\ scanJobs' = scanJobs
      /\ promDoc[w] \in {d, NoOne} /\ \A v \in Workers \ {w} : PromAlike(v)
      /\ \A e \in Docs \ {d} : /\ status'[e] = status[e]
                               /\ promoteJobs'[e] = promoteJobs[e]
      /\ \/ cutOffs' = cutOffs /\ HandsOn(d)
            /\ (status'[d] = "SCANNING" => status[d] = "SCANNING")
         \/ cutOffs' = cutOffs + 1
  BY <1>0, <1>2, PromHandsOn
<1>4. upload' = upload /\ \A e \in Docs : /\ ParseAttended(e)' <=> ParseAttended(e)
                                          /\ ScanAttended(e)' <=> ScanAttended(e)
  BY <1>0, <1>3 DEF uploadVars, scanVars, parseVars, ParseAttended, ParseCarries,
     ScanAttended, WorkerCarries
<1>5. \A e \in Docs \ {d} : Forgotten(e)' => Forgotten(e)
  <2> SUFFICES ASSUME NEW e \in Docs \ {d}
               PROVE  Forgotten(e)' => Forgotten(e)
    OBVIOUS
  <2>1. \A v \in Workers : /\ PassCarries(v, e) => PassCarries(v, e)'
                           /\ RecoveryCarries(v, e) => RecoveryCarries(v, e)'
                           /\ PromotionCarries(v, e) => PromotionCarries(v, e)'
    BY <1>0, <1>3, StoreAssumption
       DEF PromAlike, PassCarries, RecoveryCarries, PromotionCarries, scanVars
  <2>2. status'[e] = status[e] /\ promoteJobs'[e] = promoteJobs[e]
    BY <1>3
  <2>3. PassAttended(e) => PassAttended(e)'
    BY <2>1, <2>2 DEF PassAttended
  <2>4. PromotionAttended(e) => PromotionAttended(e)'
    BY <2>1, <2>2 DEF PromotionAttended
  <2>5. QED
    BY <1>4, <2>2, <2>3, <2>4 DEF Forgotten, IntakeForgot, ScanForgot, PassForgot,
       PromotionForgot, ParseForgot
<1>6. cutOffs' = cutOffs /\ HandsOn(d) /\ (status'[d] = "SCANNING" => status[d] = "SCANNING")
         => LivingStep
  BY <1>4, <1>5 DEF HandsOn, Forgotten, IntakeForgot, ScanForgot, ParseForgot, LivingStep
<1>7. QED
  BY <1>3, <1>5, <1>6 DEF CutOffStep

\* A parse step forgets nothing but, when the task is cut off, its own document.
LEMMA ParseStrands ==
    ASSUME PipelineTypes, ParseActs
    PROVE  LivingStep \/ \E d \in Docs : CutOffStep(d)
<1>0. UNCHANGED <<uploadVars, scanVars, promVars>>
  BY DEF ParseActs
<1>1. PICK w \in Workers : \/ \E d \in Docs : PrepareParseAttempt(w, d)
                           \/ ParseAdvance(w)
                           \/ ParseCutOff(w)
  BY DEF ParseActs, ParseNext
<1>2. PICK d \in Docs : \/ PrepareParseAttempt(w, d)
                        \/ parseDoc[w] = d /\ (ParseAdvance(w) \/ ParseCutOff(w))
  <2>1. ParseAdvance(w) \/ ParseCutOff(w) => parsePc[w] # "idle"
    BY DEF ParseAdvance, ParserResponds, FailParseAttempt, EnqueueParseRetry,
       PersistParseResults, PersistStale, EnqueueExtractionJob,
       ParseCutOff, ParseBusy, ParseAt
  <2>2. parsePc[w] # "idle" => parseDoc[w] \in Docs
    BY DEF PipelineTypes, StorageTypes, StorageBusy, StorageTypeOK, ParseTypeOK
  <2>3. QED
    BY <1>1, <2>1, <2>2
<1> DEFINE Parsers == /\ parseDoc[w] \in {d, NoOne}
                      /\ \A v \in Workers \ {w} : /\ parsePc'[v] = parsePc[v]
                                                  /\ parseDoc'[v] = parseDoc[v]
                                                  /\ snapshot'[v] = snapshot[v]
                      /\ \A e \in Docs \ {d} : /\ status'[e] = status[e]
                                               /\ parseAttempts'[e] = parseAttempts[e]
           Stays == cutOffs' = cutOffs /\ (ParseForgot(d)' => ParseForgot(d))
           Kept == /\ status'[d] = status[d] /\ parseAttempts'[d] = parseAttempts[d]
                   /\ ParseCarries(w, d) /\ status[d] = "PARSING" => ParseCarries(w, d)'
<1>3. Parsers /\ Kept => (ParseForgot(d)' => ParseForgot(d))
  BY DEF ParseForgot, ParseAttended, ParseCarries
<1>4. Parsers /\ (Stays \/ cutOffs' = cutOffs + 1)
  <2> USE DEF PipelineTypes, StorageTypes, StorageBusy, StorageTypeOK, StoreTypeOK,
              ParseTypeOK, storeVars, ParseAt, ParseGoTo, ParseEnd, SetStatus
  <2>1. CASE PrepareParseAttempt(w, d) /\ PrepareRefused(w, d)
    BY <1>3, <2>1 DEF PrepareParseAttempt, PrepareRefused, ParseCarries
  <2>2. CASE PrepareParseAttempt(w, d) /\ PrepareClaims(w, d)
    <3>1. Parsers /\ ParseCarries(w, d)' /\ cutOffs' = cutOffs
      BY <2>2 DEF PrepareParseAttempt, PrepareClaims, ParseCarries
    <3>2. QED
      BY <3>1 DEF ParseForgot, ParseAttended
  <2>3. CASE parseDoc[w] = d /\ ParserResponds(w)
    BY <1>3, <2>3 DEF ParserResponds, ParserAnswers, ParserRaises, ParseCarries
  <2>4. CASE parseDoc[w] = d /\ FailParseAttempt(w)
    <3>1. Parsers /\ cutOffs' = cutOffs
      BY <2>4 DEF FailParseAttempt
    <3>2. CASE AttemptCurrent(w)
      BY <2>4, <3>1, <3>2 DEF FailParseAttempt, ParseForgot
    <3>3. CASE ~AttemptCurrent(w)
      BY <1>3, <2>4, <3>1, <3>3 DEF FailParseAttempt, AttemptCurrent, ParseCarries
    <3>4. QED
      BY <3>2, <3>3
  <2>5. CASE parseDoc[w] = d /\ (EnqueueParseRetry(w) \/ EnqueueExtractionJob(w))
    BY <1>3, <2>5 DEF EnqueueParseRetry, EnqueueExtractionJob, ParseCarries
  <2>6. CASE parseDoc[w] = d /\ PersistParseResults(w)
    BY <2>6 DEF PersistParseResults, ParseForgot
  <2>7. CASE parseDoc[w] = d /\ PersistStale(w)
    BY <1>3, <2>7 DEF PersistStale, AttemptCurrent, ParseCarries
  <2>8. CASE parseDoc[w] = d /\ ParseCutOff(w)
    BY <2>8 DEF ParseCutOff, CutOff
  <2>9. QED
    BY <1>2, <2>1, <2>2, <2>3, <2>4, <2>5, <2>6, <2>7, <2>8
       DEF ParseAdvance, PrepareParseAttempt
<1>5. /\ UNCHANGED <<upload, scanJobs, promoteJobs>>
      /\ \A e \in Docs : \/ status'[e] = status[e]
                         \/ status'[e] \in ParseableStatus
  BY <1>0, ParseEffect DEF uploadVars, PipelineTypes, ParseActs
<1>6. \A e \in Docs : /\ PassAttended(e)' <=> PassAttended(e)
                      /\ PromotionAttended(e)' <=> PromotionAttended(e)
                      /\ ScanAttended(e)' <=> ScanAttended(e)
  BY <1>0, <1>5 DEF scanVars, promVars, PassAttended, PassCarries, PromotionAttended,
     RecoveryCarries, PromotionCarries, ScanAttended, WorkerCarries
<1>7. \A e \in Docs \ {d} : ParseForgot(e)' => ParseForgot(e)
  BY <1>4, StoreAssumption DEF ParseForgot, ParseAttended, ParseCarries
<1>8. \A e \in Docs : (ParseForgot(e)' => ParseForgot(e)) => (Forgotten(e)' => Forgotten(e))
  BY <1>5, <1>6 DEF Forgotten, IntakeForgot, ScanForgot, PassForgot, PromotionForgot,
     ParseableStatus
<1>9. QED
  BY <1>4, <1>7, <1>8 DEF LivingStep, CutOffStep

\* At most one document per task or request that was cut off is left in a status that
\* nobody will change, and none while none was, for any documents, workers and
\* processes, whatever the enqueues, scanners, copies and parser calls do, and
\* although an event loop may stop for a row.
THEOREM PipelineCutOffsStrandOne == PipelineSpec => []CutOffStrandsOne
<1> DEFINE Counted == IsFiniteSet(Stranded) /\ CutOffStrandsOne
<1>1. PipelineInit => Counted
  <2> SUFFICES ASSUME PipelineInit PROVE Counted
    OBVIOUS
  <2>1. Stranded = {} /\ cutOffs = 0
    BY DEF PipelineInit, ScanPipelineInit, StoreInit, Stranded, Forgotten, IntakeForgot,
       ScanForgot, PassForgot, PromotionForgot, ParseForgot, NoRow
  <2>2. QED
    BY <2>1, FS_EmptySet DEF CutOffStrandsOne
<1>2. PipelineInv /\ Counted /\ [PipelineNext]_pipelineVars => Counted'
  <2> SUFFICES ASSUME PipelineInv, Counted, [PipelineNext]_pipelineVars
               PROVE  Counted'
    OBVIOUS
  <2>1. cutOffs \in Nat /\ Cardinality(Stranded) \in Nat
    BY StoreAssumption, FS_CardinalityType
       DEF PipelineInv, PipelineTypes, TypeInv, ScanPipelineTypeOK, StoreTypeOK
  <2>2. LivingStep \/ \E d \in Docs : CutOffStep(d)
    <3>1. CASE OnlyLoop
      BY <3>1 DEF OnlyLoop, storeVars, uploadVars, scanVars,
         laterVars, promVars, parseVars, LivingStep, Forgotten, IntakeForgot, ScanForgot,
         ScanAttended, WorkerCarries, PassForgot, PassAttended, PassCarries,
         PromotionForgot, PromotionAttended, RecoveryCarries, PromotionCarries,
         ParseForgot, ParseAttended, ParseCarries
    <3>2. QED
      BY <3>1, UploadStrands, ScanStrands, PromStrands, ParseStrands, LoopOrDone
         DEF PipelineInv, PipelineTypes
  <2>3. CASE LivingStep
    <3>1. Stranded' \subseteq Stranded /\ cutOffs' = cutOffs
      BY <2>3 DEF LivingStep, Stranded
    <3>2. IsFiniteSet(Stranded') /\ Cardinality(Stranded') <= Cardinality(Stranded)
      BY <3>1, FS_Subset
    <3>3. Cardinality(Stranded') \in Nat
      BY <3>2, FS_CardinalityType
    <3>4. QED
      BY <2>1, <3>1, <3>2, <3>3 DEF CutOffStrandsOne
  <2>4. ASSUME NEW d \in Docs, CutOffStep(d)
        PROVE  Counted'
    <3>1. Stranded' \subseteq Stranded \cup {d} /\ cutOffs' = cutOffs + 1
      BY <2>4 DEF CutOffStep, Stranded
    <3>2. /\ IsFiniteSet(Stranded \cup {d})
          /\ Cardinality(Stranded \cup {d}) \in Nat
          /\ Cardinality(Stranded \cup {d}) <= Cardinality(Stranded) + 1
      <4>1. /\ IsFiniteSet(Stranded \cup {d})
            /\ Cardinality(Stranded \cup {d})
                  = IF d \in Stranded THEN Cardinality(Stranded) ELSE Cardinality(Stranded) + 1
        BY FS_AddElement
      <4>2. QED
        BY <2>1, <4>1
    <3>3. /\ IsFiniteSet(Stranded')
          /\ Cardinality(Stranded') <= Cardinality(Stranded \cup {d})
      BY <3>1, <3>2, FS_Subset
    <3>4. Cardinality(Stranded') \in Nat
      BY <3>3, FS_CardinalityType
    <3>5. QED
      BY <2>1, <3>1, <3>2, <3>3, <3>4 DEF CutOffStrandsOne
  <2>5. QED
    BY <2>2, <2>3, <2>4
<1>3. QED
  BY <1>1, <1>2, PipelineInvariant, PTL DEF PipelineSpec

-----------------------------------------------------------------------------
\* No enqueue is late: a job is queued or the caller learns that it is not.  Under
\* this hypothesis the tasks of a document run one after the other, and more is
\* true than what holds whatever the enqueues do.
Exact == "late" \notin EnqueueOutcomes

\* Where a request is tells what it last wrote.
RequestInv ==
    \A d \in Docs :
        /\ upload[d] = "quarantined" => status[d] = "QUARANTINED"
        /\ upload[d] = "validating" => status[d] = "VALIDATING"
        /\ upload[d] \in {"enqueue", "recover", "recovering"} => status[d] = "SCANNING"

\* The object a scan task works with is the row: nobody else moves its document.
TaskInv ==
    \A w \in Workers :
        /\ scanPc[w] \in {"armed", "started", "scanning"} =>
                status[scanDoc[w]] = "SCANNING"
        /\ scanPc[w] = "scanning" => seen[w].status = "SCANNING"
        /\ scanPc[w] \in {"enqueuePromotion", "recoverPromotion", "setPromoting"} =>
                status[scanDoc[w]] = "CLEAN_PENDING_PROMOTION"
        /\ scanPc[w] \in {"reloadPromoting", "setFailed"} =>
                status[scanDoc[w]] = "PROMOTING"
        /\ scanPc[w] = "setFailed" => peek[w] = "PROMOTING"

\* One promotion per document, of a passed document, and not while the scan task
\* that passed it has yet to queue it or recovers from not having queued it.
PromotionFlight ==
    \A d \in Docs :
        /\ promoteJobs[d] \in {0, 1}
        /\ promoteJobs[d] = 1 => \A v \in Workers : promDoc[v] # d
        /\ \A v, w \in Workers : promDoc[v] = d /\ promDoc[w] = d => v = w
        /\ promoteJobs[d] = 1 \/ (\E v \in Workers : promDoc[v] = d) =>
              /\ status[d] \in TrustedStatus
              /\ \A w \in Workers : scanDoc[w] = d => scanPc[w] \notin PassedStep

\* The object a promotion task works with is the row.
PromotionInv ==
    \A w \in Workers :
        /\ promPc[w] \in {"promoting", "copy", "copying", "copied", "failing"} =>
                status[promDoc[w]] = "PROMOTING"
        /\ promPc[w] \in {"copy", "copying", "copied", "failing"} =>
                promSeen[w].status = "PROMOTING"
        /\ promPc[w] \in {"enqueueParse", "unlink"} =>
                status[promDoc[w]] \in ParseableStatus

\* Until the row is open to parsing its quarantine file is there.
SourceInv ==
    \A d \in Docs : status[d] \notin ParseableStatus \cup {NoRow} => quarantineFile[d]

\* The request that holds the project row may insert the project's RFP.
ProjectInv ==
    /\ \A d \in Rfps : upload[d] \in {"checked", "streamed"} => projectLock = d
    /\ projectLock # NoOne => \A e \in Docs : ~ActiveRfp(e)
    /\ OneActiveRfp

\* A scan that has not been counted yet fits under the cap.
CountInv ==
    /\ \A d \in Docs : upload[d] \in {"none", "checked", "streamed", "quarantined",
                                      "validating", "enqueue", "recover", "recovering"} =>
            scanAttempts[d] = 0 /\ peekAttempts[d] = 0
    /\ AttemptsBounded
    /\ \A d \in Docs :
          status[d] = "SCANNING" /\ (\A w \in Workers : scanDoc[w] = d =>
                                        scanPc[w] \notin {"started", "scanning"}) =>
              scanAttempts[d] < SCAN_MAX_ATTEMPTS + cutOffs

ExactInv ==
    /\ SingleFlight /\ RequestInv /\ TaskInv
    /\ PromotionFlight /\ PromotionInv /\ SourceInv
    /\ ProjectInv /\ CountInv

\* A request, while it runs, is alone with its document.
LEMMA UploadKeepsFlights ==
    ASSUME Exact, PipelineInv, ExactInv, UploadNext, UNCHANGED <<scanVars, laterVars>>
    PROVE  SingleFlight' /\ RequestInv'
<1> USE StoreAssumption
        DEF PipelineInv, PipelineTypes, TypeInv, BusyHasDoc, ScanPipelineTypeOK, StoreTypeOK,
            UploadTypeOK, ExactInv, SingleFlight, RequestInv, UploadOver, UploadStep,
            storeVars, scanVars, At, GoTo, SetStatus
<1>1. PICK d \in Docs : UploadRfp(d) \/ UploadKnowledge(d) \/ UploadAdvance(d)
                         \/ WebCutOff(d)
  BY DEF UploadNext
<1>2. CASE UploadRfp(d) \/ UploadKnowledge(d)
  BY <1>2 DEF UploadRfp, UploadKnowledge, IntakeInv, ScanBusy
<1>3. CASE StreamUpload(d) \/ StreamFails(d)
  BY <1>3 DEF StreamUpload, StreamFails
<1>4. CASE CommitQuarantined(d) \/ CommitFails(d)
  BY <1>4 DEF CommitQuarantined, CommitFails
<1>5. CASE Validate(d)
  BY <1>5 DEF Validate
<1>6. CASE DetectAccepts(d) \/ DetectRejects(d)
  BY <1>6 DEF DetectAccepts, DetectRejects
<1>7. CASE EnqueueScanJob(d)
  BY <1>7 DEF EnqueueScanJob, EnqueueTo, Delivered, Raises, Exact
<1>8. CASE RecoverRead(d)
  BY <1>8 DEF RecoverRead
<1>9. CASE RecoverWrite(d)
  BY <1>9 DEF RecoverWrite
<1>10. CASE RecoverRetry(d)
  BY <1>10 DEF RecoverRetry, EnqueueTo, Delivered
<1>11. CASE WebCutOff(d)
  BY <1>11 DEF WebCutOff
<1>12. QED
  BY <1>1, <1>2, <1>3, <1>4, <1>5, <1>6, <1>7, <1>8, <1>9, <1>10, <1>11
     DEF UploadAdvance

\* The tasks of the later stages notice no request: it writes an untrusted status on
\* a document that nobody else works on.
LEMMA UploadKeepsTasks ==
    ASSUME PipelineInv, ExactInv, UploadNext, UNCHANGED <<scanVars, laterVars>>
    PROVE  TaskInv' /\ PromotionFlight' /\ PromotionInv' /\ SourceInv'
<1> USE StoreAssumption
        DEF PipelineInv, PipelineTypes, TypeInv, BusyHasDoc, ScanPipelineTypeOK,
            StoreTypeOK, ScanTypeOK, StorageTypes, StorageTypeOK, StorageBusy, PromTypeOK
<1>1. UNCHANGED <<scanPc, scanDoc, seen, peek, promPc, promDoc, promSeen, promoteJobs>>
  BY UploadEffect DEF scanVars, laterVars, promVars
<1>2. \A d \in Docs : \/ status'[d] = status[d]
                      \/ /\ status[d] \notin TrustedStatus
                         /\ \A w \in Workers : scanDoc[w] # d
                         /\ quarantineFile'[d]
  <2>0. /\ status \in [Docs -> IngestionStatus \cup {NoRow}]
        /\ \A d \in Docs : ~UploadOver(d) => \A w \in Workers : scanDoc[w] # d
        /\ RequestInv /\ SourceInv
    BY DEF ExactInv, SingleFlight
  <2>1. PICK d \in Docs : UploadRfp(d) \/ UploadKnowledge(d) \/ UploadAdvance(d)
                           \/ WebCutOff(d)
    BY DEF UploadNext
  <2>2. CASE CommitQuarantined(d)
    <3>1. /\ upload[d] = "streamed" /\ quarantineFile' = quarantineFile
          /\ status' = [status EXCEPT ![d] = "QUARANTINED"]
      BY <2>2 DEF CommitQuarantined, At, SetStatus
    <3>2. status[d] = NoRow /\ quarantineFile[d]
      BY <3>1 DEF IntakeInv
    <3>3. status[d] \notin TrustedStatus /\ quarantineFile'[d]
      BY ONLY <3>1, <3>2 DEF TrustedStatus, NoRow
    <3>4. \A w \in Workers : scanDoc[w] # d
      BY ONLY <2>0, <3>1, d \in Docs DEF UploadOver
    <3>5. \A e \in Docs \ {d} : status'[e] = status[e]
      BY ONLY <2>0, <3>1
    <3>6. QED
      BY ONLY <3>3, <3>4, <3>5
  <2>3. CASE Validate(d) \/ DetectAccepts(d) \/ DetectRejects(d) \/ RecoverWrite(d)
    <3>1. /\ upload[d] \in {"quarantined", "validating", "recovering"}
          /\ quarantineFile' = quarantineFile
          /\ \A e \in Docs \ {d} : status'[e] = status[e]
      BY <2>0, <2>3
         DEF Validate, DetectAccepts, DetectRejects, RecoverWrite, At, SetStatus
    <3>2. status[d] \in {"QUARANTINED", "VALIDATING", "SCANNING"}
      BY <2>0, <3>1 DEF RequestInv
    <3>3. quarantineFile[d] /\ status[d] \notin TrustedStatus
      BY <2>0, <3>2 DEF SourceInv, TrustedStatus, ParseableStatus, NoRow
    <3>4. \A w \in Workers : scanDoc[w] # d
      BY ONLY <2>0, <3>1, d \in Docs DEF UploadOver
    <3>5. QED
      BY ONLY <3>1, <3>3, <3>4
  <2>4. CASE status' = status
    BY <2>4
  <2>5. QED
    BY <2>1, <2>2, <2>3, <2>4
       DEF UploadAdvance, UploadRfp, UploadKnowledge, StreamUpload, StreamFails,
           CommitFails, EnqueueScanJob, RecoverRead, RecoverRetry, WebCutOff, storeVars
<1>3. TaskInv'
  BY <1>1, <1>2 DEF ExactInv, TaskInv
<1>4. PromotionFlight'
  BY <1>1, <1>2 DEF ExactInv, PromotionFlight
<1>5. PromotionInv'
  <2> SUFFICES ASSUME NEW w \in Workers, promPc[w] # "idle"
               PROVE  status'[promDoc[w]] = status[promDoc[w]]
    BY <1>1 DEF ExactInv, PromotionInv
  <2>1. promDoc[w] \in Docs
    OBVIOUS
  <2>2. QED
    BY <1>2, <2>1 DEF ExactInv, PromotionFlight
<1>6. SourceInv'
  BY <1>2, UploadEffect DEF ExactInv, SourceInv
<1>7. QED
  BY <1>3, <1>4, <1>5, <1>6

\* The project row lock makes check and INSERT one: whoever holds it knows that no
\* RFP is active, and only its holder inserts one.
LEMMA UploadKeepsProject ==
    ASSUME PipelineInv, ExactInv, UploadNext
    PROVE  ProjectInv'
<1>0. /\ status \in [Docs -> IngestionStatus \cup {NoRow}]
      /\ upload \in [Docs -> UploadStep] /\ projectLock \in Docs \cup {NoOne}
      /\ NoOne \notin Docs /\ Rfps \subseteq Docs
  BY StoreAssumption DEF PipelineInv, PipelineTypes, TypeInv, ScanPipelineTypeOK,
     StoreTypeOK, UploadTypeOK
<1>1. PICK d \in Docs : UploadRfp(d) \/ UploadKnowledge(d) \/ UploadAdvance(d)
                         \/ WebCutOff(d)
  BY DEF UploadNext
<1> USE <1>0 DEF ExactInv, ProjectInv, OneActiveRfp, ActiveRfp
<1>2. CASE UploadRfp(d)
  BY <1>2 DEF UploadRfp, At, GoTo, storeVars
<1>3. CASE UploadKnowledge(d)
  BY <1>3 DEF UploadKnowledge, At, GoTo, storeVars
<1>4. CASE CommitQuarantined(d)
  <2>1. /\ upload[d] = "streamed" /\ upload' = [upload EXCEPT ![d] = "quarantined"]
        /\ status' = [status EXCEPT ![d] = "QUARANTINED"]
        /\ projectLock' = IF projectLock = d THEN NoOne ELSE projectLock
    BY <1>4 DEF CommitQuarantined, At, GoTo, SetStatus, ReleaseProject
  <2>2. CASE d \in Rfps
    <3>1. projectLock = d /\ projectLock' = NoOne
      BY <2>1, <2>2
    <3>2. \A e \in Docs : ~ActiveRfp(e)
      BY <3>1
    <3>3. \A e \in Docs \ {d} : ~ActiveRfp(e)'
      BY <2>1, <3>2
    <3>4. QED
      BY <2>1, <3>1, <3>3
  <2>3. CASE d \notin Rfps
    BY <2>1, <2>3
  <2>4. QED
    BY <2>2, <2>3
<1>5. CASE StreamUpload(d)
  BY <1>5 DEF StreamUpload, At, GoTo
<1>6. CASE StreamFails(d) \/ CommitFails(d) \/ WebCutOff(d)
  <2>1. /\ upload' \in {[upload EXCEPT ![d] = "failed"], [upload EXCEPT ![d] = "dead"]}
        /\ status' = status /\ projectLock' = IF projectLock = d THEN NoOne ELSE projectLock
    BY <1>6 DEF StreamFails, CommitFails, WebCutOff, GoTo, ReleaseProject, storeVars
  <2>2. QED
    BY <2>1
<1>7. CASE \/ Validate(d) \/ DetectAccepts(d) \/ DetectRejects(d) \/ EnqueueScanJob(d)
           \/ RecoverRead(d) \/ RecoverWrite(d) \/ RecoverRetry(d)
  <2>1. /\ projectLock' = projectLock
        /\ \A e \in Docs : upload'[e] \in {"checked", "streamed"} => upload'[e] = upload[e]
        /\ \A e \in Docs \ {d} : status'[e] = status[e]
        /\ status'[d] = status[d] \/ ~UploadOver(d)
    BY <1>7 DEF Validate, DetectAccepts, DetectRejects, EnqueueScanJob, RecoverRead,
       RecoverWrite, RecoverRetry, At, GoTo, SetStatus, storeVars, UploadOver
  <2>2. status'[d] = status[d] \/ ActiveRfp(d) \/ d \notin Rfps
    BY <1>7 DEF RequestInv, Validate, DetectAccepts, DetectRejects, EnqueueScanJob,
       RecoverRead, RecoverWrite, RecoverRetry, At, storeVars, TerminalRejected, NoRow
  <2>3. \A e \in Docs : ActiveRfp(e)' => ActiveRfp(e)
    BY <2>1, <2>2
  <2>4. QED
    BY <2>1, <2>3
<1>8. QED
  BY <1>1, <1>2, <1>3, <1>4, <1>5, <1>6, <1>7 DEF UploadAdvance

\* A request counts one attempt at most, when it could not queue the scan.
LEMMA UploadKeepsCount ==
    ASSUME PipelineInv, ExactInv, UploadNext, UNCHANGED scanVars
    PROVE  CountInv'
<1>0. /\ status \in [Docs -> IngestionStatus \cup {NoRow}]
      /\ scanAttempts \in [Docs -> Nat] /\ cutOffs \in Nat /\ SCAN_MAX_ATTEMPTS \in Nat \ {0}
      /\ upload \in [Docs -> UploadStep] /\ peekAttempts \in [Docs -> Nat]
  BY StoreAssumption DEF PipelineInv, PipelineTypes, TypeInv, ScanPipelineTypeOK,
     StoreTypeOK, UploadTypeOK
<1>1. PICK d \in Docs : UploadRfp(d) \/ UploadKnowledge(d) \/ UploadAdvance(d)
                         \/ WebCutOff(d)
  BY DEF UploadNext
<1> USE <1>0 DEF ExactInv, CountInv, AttemptsBounded, scanVars
<1>2. CASE RecoverWrite(d)
  BY <1>2 DEF RecoverWrite, At, GoTo, SetStatus
<1>3. CASE WebCutOff(d)
  BY <1>3 DEF WebCutOff, CutOff, GoTo
<1>4. CASE RecoverRead(d)
  BY <1>4 DEF RecoverRead, At, GoTo, storeVars
<1>5. CASE DetectAccepts(d)
  BY <1>5 DEF DetectAccepts, At, GoTo, SetStatus
<1>6. CASE \/ UploadRfp(d) \/ UploadKnowledge(d) \/ StreamUpload(d) \/ StreamFails(d)
           \/ CommitQuarantined(d) \/ CommitFails(d) \/ Validate(d) \/ DetectRejects(d)
           \/ EnqueueScanJob(d) \/ RecoverRetry(d)
  <2>1. /\ UNCHANGED <<scanAttempts, cutOffs, peekAttempts>>
        /\ \A e \in Docs : status'[e] = "SCANNING" => status[e] = "SCANNING"
        /\ \E s \in UploadStep : upload' = [upload EXCEPT ![d] = s]
        /\ upload[d] \in {"none", "checked", "streamed", "quarantined", "validating",
                          "enqueue", "recover", "recovering"}
           \/ upload'[d] = "done"
    BY <1>6 DEF UploadRfp, UploadKnowledge, StreamUpload, StreamFails, CommitQuarantined,
       CommitFails, Validate, DetectRejects, EnqueueScanJob, RecoverRetry, At, GoTo,
       SetStatus, storeVars, UploadStep
  <2>2. QED
    BY <2>1
<1>7. QED
  BY <1>1, <1>2, <1>3, <1>4, <1>5, <1>6 DEF UploadAdvance

\* The transition table, row by row.
LEMMA Table ==
    /\ ALLOWED_TRANSITIONS["QUARANTINED"] = {"VALIDATING"}
    /\ ALLOWED_TRANSITIONS["VALIDATING"] = {"SCANNING", "REJECTED_TYPE"}
    /\ ALLOWED_TRANSITIONS["SCANNING"] = {"CLEAN_PENDING_PROMOTION", "REJECTED_MALWARE",
                                          "REJECTED_CONTENT_POLICY", "SCAN_FAILED"}
    /\ ALLOWED_TRANSITIONS["SCAN_FAILED"] = {"SCANNING"}
    /\ ALLOWED_TRANSITIONS["CLEAN_PENDING_PROMOTION"] = {"PROMOTING"}
    /\ ALLOWED_TRANSITIONS["PROMOTING"] = {"CLEAN", "PROMOTION_FAILED"}
    /\ ALLOWED_TRANSITIONS["PROMOTION_FAILED"] = {"PROMOTING"}
    /\ ALLOWED_TRANSITIONS["CLEAN"] = {"PARSING"}
    /\ ALLOWED_TRANSITIONS["PARSING"] = {"COMPLETED", "PARSE_FAILED"}
    /\ ALLOWED_TRANSITIONS["PARSE_FAILED"] = {"PARSING"}
BY DEF ALLOWED_TRANSITIONS, IngestionStatus

\* What a step of scan does to the rows: it moves along the table the row of a
\* document that is being scanned or that its own task has just passed.
ScanMoves(d, s) ==
    /\ status' = [status EXCEPT ![d] = s]
    /\ \/ status[d] = "SCAN_FAILED" /\ s = "SCANNING"
       \/ status[d] = "SCANNING" /\ s \in ALLOWED_TRANSITIONS["SCANNING"]
       \/ /\ \E w \in Workers : scanDoc[w] = d /\ scanPc[w] \in PassedStep
          /\ <<status[d], s>> \in {<<"CLEAN_PENDING_PROMOTION", "PROMOTING">>,
                                   <<"PROMOTING", "PROMOTION_FAILED">>}
    /\ UploadOver(d)

\* A scan step writes nothing or moves a row that way.
LEMMA ScanFollowsTable ==
    ASSUME PipelineInv, ExactInv, ScanNext
    PROVE  status' = status \/ \E d \in Docs, s \in IngestionStatus : ScanMoves(d, s)
<1>0. /\ status \in [Docs -> IngestionStatus \cup {NoRow}]
      /\ \A w \in Workers : scanPc[w] # "idle" => scanDoc[w] \in Docs
      /\ \A w \in Workers : scanDoc[w] \in Docs => UploadOver(scanDoc[w])
      /\ \A d \in Docs : scanJobs[d] > 0 => UploadOver(d)
  BY DEF PipelineInv, PipelineTypes, TypeInv, BusyHasDoc, ScanPipelineTypeOK, StoreTypeOK,
     ScanTypeOK, ExactInv, SingleFlight
<1>1. PICK w \in Workers : \/ \E d \in Docs : ScanDocumentTask(w, d)
                           \/ ScanAdvance(w)
                           \/ ScanEscapes(w)
                           \/ ScanCutOff(w)
  BY DEF ScanNext
<1>2. TaskInv
  BY DEF ExactInv
<1>3. ASSUME NEW d \in Docs, ScanDocumentTask(w, d)
      PROVE  status' = status \/ ScanMoves(d, "SCANNING")
  <2>1. status' = status \/ (status[d] = "SCAN_FAILED" /\ SetStatus(d, "SCANNING"))
    BY <1>3 DEF ScanDocumentTask, PrepareRearms, PrepareExhausted, RunScanStarts, RunScanNoOp
  <2>2. UploadOver(d)
    BY <1>0, <1>3 DEF ScanDocumentTask
  <2>3. QED
    BY <2>1, <2>2 DEF ScanMoves, SetStatus
<1>4. ASSUME ScanVerdict(w) \/ IntegrityMismatch(w) \/ ScanError(w), status' # status
      PROVE  \E s \in IngestionStatus : ScanMoves(scanDoc[w], s)
  <2>1. /\ scanPc[w] = "scanning" /\ scanDoc[w] \in Docs /\ UploadOver(scanDoc[w])
        /\ status[scanDoc[w]] = "SCANNING" /\ seen[w].status = "SCANNING"
    BY <1>0, <1>2, <1>4 DEF ScanVerdict, IntegrityMismatch, ScanError, ScanAt, TaskInv
  <2>2. PICK s \in ALLOWED_TRANSITIONS["SCANNING"] : SetStatus(scanDoc[w], s)
    <3>1. "SCAN_FAILED" \in ALLOWED_TRANSITIONS["SCANNING"]
      BY Table
    <3>2. \A s \in Verdict(scanDoc[w]) : s \in ALLOWED_TRANSITIONS["SCANNING"]
      BY Table DEF Verdict, VerdictOf
    <3>3. QED
      BY <1>4, <3>1, <3>2 DEF ScanVerdict, IntegrityMismatch, ScanError, ScanRaises,
         ApplyTransition, SetStatus
  <2>3. s \in IngestionStatus
    BY <2>2, Table DEF IngestionStatus
  <2>4. ScanMoves(scanDoc[w], s)
    BY <2>1, <2>2 DEF ScanMoves, SetStatus
  <2>5. QED
    BY <2>3, <2>4
<1>5. ASSUME PromotionRecoverPromoting(w) \/ PromotionRecoverFail(w), status' # status
      PROVE  \E s \in IngestionStatus : ScanMoves(scanDoc[w], s)
  <2>1. scanPc[w] \in PassedStep /\ scanDoc[w] \in Docs /\ UploadOver(scanDoc[w])
    BY <1>0, <1>5 DEF PromotionRecoverPromoting, PromotionRecoverFail, ScanAt, PassedStep
  <2>2. CASE PromotionRecoverPromoting(w)
    BY <1>2, <2>1, <2>2 DEF PromotionRecoverPromoting, ScanMoves, TaskInv, ScanAt, SetStatus,
       IngestionStatus
  <2>3. CASE PromotionRecoverFail(w)
    BY <1>2, <1>5, <2>1, <2>3 DEF PromotionRecoverFail, ScanMoves, TaskInv, ScanAt, SetStatus,
       IngestionStatus
  <2>4. QED
    BY <1>5, <2>2, <2>3
<1>6. ASSUME RunScan(w) \/ LoadDocument(w) \/ EnqueuePromotionJob(w)
             \/ PromotionRecoverRead(w) \/ PromotionRecoverReload(w) \/ AfterScan(w)
             \/ ScanClose(w) \/ ScanEscapes(w) \/ ScanCutOff(w)
      PROVE  status' = status
  BY <1>6 DEF RunScan, RunScanStarts, RunScanNoOp, LoadDocument, EnqueuePromotionJob,
     PromotionRecoverRead, PromotionRecoverReload, AfterScan, ScanClose, ScanEscapes,
     ScanCutOff, storeVars
<1>7. QED
  <2>1. CASE \E d \in Docs : ScanDocumentTask(w, d)
    BY <1>3, <2>1 DEF IngestionStatus
  <2>2. CASE ScanVerdict(w) \/ IntegrityMismatch(w) \/ ScanError(w)
             \/ PromotionRecoverPromoting(w) \/ PromotionRecoverFail(w)
    <3>1. scanDoc[w] \in Docs
      BY <1>0, <2>2 DEF ScanVerdict, IntegrityMismatch, ScanError, ScanAt,
         PromotionRecoverPromoting, PromotionRecoverFail
    <3>2. QED
      BY <1>4, <1>5, <2>2, <3>1
  <2>3. QED
    BY <1>1, <1>6, <2>1, <2>2 DEF ScanAdvance

\* A scan step takes its job, gives it back or queues a new one, never two of these.
LEMMA ScanKeepsFlight ==
    ASSUME PipelineInv, ExactInv, ScanNext, UNCHANGED uploadVars
    PROVE  SingleFlight'
<1>0. /\ scanJobs \in [Docs -> Nat] /\ scanDoc \in [Workers -> Docs \cup {NoOne}]
      /\ NoOne \notin Docs /\ upload' = upload
      /\ \A w \in Workers : scanPc[w] # "idle" => scanDoc[w] \in Docs
      /\ \A w \in Workers : scanPc[w] = "idle" => scanDoc[w] = NoOne
  BY StoreAssumption DEF PipelineInv, PipelineTypes, TypeInv, BusyHasDoc,
     ScanPipelineTypeOK, StoreTypeOK, ScanTypeOK, uploadVars
<1>1. PICK w \in Workers : \/ \E d \in Docs : ScanDocumentTask(w, d)
                           \/ ScanAdvance(w)
                           \/ ScanEscapes(w)
                           \/ ScanCutOff(w)
  BY DEF ScanNext
<1> USE <1>0 DEF ExactInv, SingleFlight, UploadOver
<1>2. ASSUME NEW d \in Docs, ScanDocumentTask(w, d)
      PROVE  SingleFlight'
  <2>1. /\ scanDoc[w] = NoOne /\ scanJobs[d] = 1
        /\ scanJobs' = [scanJobs EXCEPT ![d] = scanJobs[d] - 1]
    BY <1>2 DEF ScanDocumentTask, ScanAt, TakeFrom
  <2>2. scanDoc' = scanDoc \/ scanDoc' = [scanDoc EXCEPT ![w] = d]
    BY <1>2 DEF ScanDocumentTask
  <2>3. QED
    BY <2>1, <2>2
<1>3. ASSUME scanDoc' = scanDoc, scanJobs' = scanJobs
      PROVE  SingleFlight'
  BY <1>3
<1>4. ASSUME scanPc[w] # "idle", scanDoc' = [scanDoc EXCEPT ![w] = NoOne],
             \/ scanJobs' = scanJobs
             \/ scanJobs' = [scanJobs EXCEPT ![scanDoc[w]] = @ + 1]
      PROVE  SingleFlight'
  <2>1. scanDoc[w] \in Docs /\ scanJobs[scanDoc[w]] = 0 /\ UploadOver(scanDoc[w])
    BY <1>4
  <2>2. CASE scanJobs' = scanJobs
    BY <1>4, <2>2
  <2>3. CASE scanJobs' = [scanJobs EXCEPT ![scanDoc[w]] = @ + 1]
    BY <1>4, <2>1, <2>3
  <2>4. QED
    BY <1>4, <2>2, <2>3
<1>5. CASE RunScan(w) \/ LoadDocument(w) \/ EnqueuePromotionJob(w) \/ PromotionRecoverRead(w)
           \/ PromotionRecoverPromoting(w) \/ PromotionRecoverReload(w)
           \/ PromotionRecoverFail(w) \/ ScanEscapes(w)
  BY <1>3, <1>5 DEF RunScan, LoadDocument, EnqueuePromotionJob, PromotionRecoverRead,
     PromotionRecoverPromoting, PromotionRecoverReload, PromotionRecoverFail, ScanEscapes,
     storeVars
<1>6. CASE IntegrityMismatch(w) \/ ScanVerdict(w) \/ ScanError(w)
  BY <1>3, <1>4, <1>6 DEF IntegrityMismatch, ScanVerdict, ScanError, ScanRaises, ScanEnd,
     ScanStays, ScanAt
<1>7. CASE AfterScan(w) \/ ScanClose(w)
  BY <1>4, <1>7 DEF AfterScan, ScanClose, ScanEnd, ScanAt, EnqueueTo, Delivered
<1>8. CASE ScanCutOff(w)
  BY <1>4, <1>8 DEF ScanCutOff, ScanEnd, ScanBusy, Redeliver
<1>9. QED
  BY <1>1, <1>2, <1>5, <1>6, <1>7, <1>8 DEF ScanAdvance

\* Requests, promotion tasks and the project row notice no scan.
LEMMA ScanKeepsOthers ==
    ASSUME PipelineInv, ExactInv, ScanNext, UNCHANGED <<uploadVars, laterVars>>
    PROVE  RequestInv' /\ PromotionInv' /\ SourceInv' /\ ProjectInv'
<1>0. /\ status \in [Docs -> IngestionStatus \cup {NoRow}] /\ Rfps \subseteq Docs
      /\ \A w \in Workers : promPc[w] # "idle" => promDoc[w] \in Docs
      /\ UNCHANGED <<upload, projectLock, promPc, promDoc, promSeen>>
  BY StoreAssumption DEF PipelineInv, PipelineTypes, TypeInv, ScanPipelineTypeOK, StoreTypeOK,
     StorageTypes, StorageTypeOK, StorageBusy, PromTypeOK, uploadVars, laterVars, promVars
<1>1. quarantineFile' = quarantineFile
  BY ScanEffect DEF PipelineInv, ScanOutcome
<1> USE <1>0, <1>1 DEF ExactInv
<1>2. CASE status' = status
  BY <1>2 DEF RequestInv, PromotionInv, SourceInv, ProjectInv, OneActiveRfp, ActiveRfp
<1>3. ASSUME NEW d \in Docs, NEW s \in IngestionStatus, ScanMoves(d, s)
      PROVE  RequestInv' /\ PromotionInv' /\ SourceInv' /\ ProjectInv'
  <2>1. /\ status' = [status EXCEPT ![d] = s] /\ UploadOver(d)
        /\ status[d] \notin ParseableStatus \cup {NoRow} \cup TerminalRejected
        /\ s \notin ParseableStatus \cup {NoRow}
    BY <1>3, Table DEF ScanMoves, ParseableStatus, NoRow, TerminalRejected
  <2>2. \A w \in Workers : promDoc[w] # d
    BY <1>3 DEF ScanMoves, PromotionFlight, TrustedStatus
  <2>3. RequestInv'
    BY <2>1 DEF RequestInv, UploadOver
  <2>4. PromotionInv'
    BY <2>1, <2>2 DEF PromotionInv
  <2>5. SourceInv'
    BY <2>1 DEF SourceInv
  <2>6. \A e \in Docs : ActiveRfp(e)' => ActiveRfp(e)
    BY <2>1 DEF ActiveRfp
  <2>7. ProjectInv'
    BY <2>6 DEF ProjectInv, OneActiveRfp
  <2>8. QED
    BY <2>3, <2>4, <2>5, <2>7
<1>4. QED
  BY <1>2, <1>3, ScanFollowsTable

\* A scan task reads back what it wrote.
LEMMA ScanKeepsTasks ==
    ASSUME PipelineInv, ExactInv, ScanNext
    PROVE  TaskInv'
<1>0. /\ status \in [Docs -> IngestionStatus \cup {NoRow}]
      /\ scanPc \in [Workers -> ScanStep] /\ scanDoc \in [Workers -> Docs \cup {NoOne}]
      /\ peek \in [Workers -> IngestionStatus \cup {NoRow}] /\ seen \in [Workers -> LoadedRow]
      /\ \A w \in Workers : scanPc[w] # "idle" <=> scanDoc[w] \in Docs
  BY StoreAssumption DEF PipelineInv, PipelineTypes, TypeInv, BusyHasDoc,
     ScanPipelineTypeOK, StoreTypeOK, ScanTypeOK
<1>1. PICK w \in Workers : \/ \E d \in Docs : ScanDocumentTask(w, d)
                           \/ ScanAdvance(w)
                           \/ ScanEscapes(w)
                           \/ ScanCutOff(w)
  BY DEF ScanNext
<1>2. TaskInv /\ SingleFlight
  BY DEF ExactInv
\* Other tasks work on other documents.
<1>3. ASSUME NEW d \in Docs, \A e \in Docs \ {d} : status'[e] = status[e],
             \A v \in Workers \ {w} : scanDoc[v] # d,
             \A v \in Workers \ {w} : /\ scanPc'[v] = scanPc[v] /\ scanDoc'[v] = scanDoc[v]
                                      /\ seen'[v] = seen[v] /\ peek'[v] = peek[v],
             scanPc'[w] \in {"armed", "started", "scanning"} =>
                scanDoc'[w] = d /\ status'[d] = "SCANNING",
             scanPc'[w] = "scanning" => seen'[w].status = "SCANNING",
             scanPc'[w] \in {"enqueuePromotion", "recoverPromotion", "setPromoting"} =>
                scanDoc'[w] = d /\ status'[d] = "CLEAN_PENDING_PROMOTION",
             scanPc'[w] \in {"reloadPromoting", "setFailed"} =>
                scanDoc'[w] = d /\ status'[d] = "PROMOTING",
             scanPc'[w] = "setFailed" => peek'[w] = "PROMOTING"
      PROVE  TaskInv'
  BY <1>0, <1>2, <1>3 DEF TaskInv
<1>4. ASSUME NEW d \in Docs, ScanDocumentTask(w, d)
      PROVE  TaskInv'
  <2>0. scanPc[w] = "idle" /\ scanJobs[d] > 0 /\ peek' = peek
    BY <1>4 DEF ScanDocumentTask, ScanAt
  <2>1. \A v \in Workers : scanDoc[v] # d
    BY <1>2, <2>0 DEF SingleFlight
  <2>2. CASE PrepareExhausted(w, d) /\ UNCHANGED scanDoc
    BY <1>2, <2>0, <2>2 DEF PrepareExhausted, TaskInv
  <2>3. CASE PrepareRearms(w, d) /\ scanDoc' = [scanDoc EXCEPT ![w] = d]
    BY <1>0, <1>3, <2>0, <2>1, <2>3 DEF PrepareRearms, SetStatus, ScanGoTo, Load
  <2>4. CASE RunScanStarts(w, d) /\ scanDoc' = [scanDoc EXCEPT ![w] = d]
    BY <1>0, <1>3, <2>0, <2>1, <2>4 DEF RunScanStarts, ScanGoTo, Load
  <2>5. CASE RunScanNoOp(w, d) /\ scanDoc' = [scanDoc EXCEPT ![w] = d]
    BY <1>0, <1>3, <2>0, <2>1, <2>5 DEF RunScanNoOp, ScanGoTo, Load
  <2>6. QED
    BY <1>4, <2>2, <2>3, <2>4, <2>5 DEF ScanDocumentTask
<1>5. ASSUME ScanAdvance(w) \/ ScanEscapes(w) \/ ScanCutOff(w)
      PROVE  TaskInv'
  <2>0. scanPc[w] # "idle"
    BY <1>5 DEF ScanAdvance, RunScan, LoadDocument, IntegrityMismatch, ScanVerdict,
       ScanError, EnqueuePromotionJob, PromotionRecoverRead, PromotionRecoverPromoting,
       PromotionRecoverReload, PromotionRecoverFail, AfterScan, ScanClose, ScanEscapes, ScanCutOff,
       ScanBusy, ScanAt
  <2>1. PICK d \in Docs : d = scanDoc[w]
    BY <1>0, <2>0
  <2>2. \A v \in Workers \ {w} : scanDoc[v] # d
    BY <1>2, <2>1 DEF SingleFlight
  <2> USE <1>0, <1>2, <1>3, <2>1, <2>2 DEF TaskInv, ScanAt, ScanGoTo, Load
  <2>3. CASE RunScan(w)
    BY <2>3 DEF RunScan, RunScanStarts, RunScanNoOp
  <2>4. CASE LoadDocument(w)
    BY <2>4 DEF LoadDocument, Row, storeVars
  <2>5. CASE IntegrityMismatch(w)
    BY <2>5 DEF IntegrityMismatch, ApplyTransition, SetStatus, ScanStays, ScanEnd
  <2>6. CASE ScanVerdict(w)
    BY <2>6, VerdictLeavesScanning
       DEF ScanVerdict, ApplyTransition, SetStatus, ScanStays, ScanEnd
  <2>7. CASE ScanError(w)
    BY <2>7 DEF ScanError, ScanRaises, SetStatus, ScanEnd
  <2>8. CASE EnqueuePromotionJob(w)
    BY <2>8 DEF EnqueuePromotionJob
  <2>9. CASE PromotionRecoverRead(w)
    BY <2>9 DEF PromotionRecoverRead, storeVars
  <2>10. CASE PromotionRecoverPromoting(w)
    BY <2>10 DEF PromotionRecoverPromoting, SetStatus
  <2>11. CASE PromotionRecoverReload(w)
    BY <2>11 DEF PromotionRecoverReload, storeVars
  <2>12. CASE PromotionRecoverFail(w)
    BY <2>12 DEF PromotionRecoverFail, SetStatus
  <2>13. CASE AfterScan(w) \/ ScanClose(w)
    BY <2>13 DEF AfterScan, ScanClose, ScanEnd
  <2>14. CASE ScanEscapes(w)
    BY <2>14 DEF ScanEscapes
  <2>15. CASE ScanCutOff(w)
    BY <2>15 DEF ScanCutOff, ScanEnd
  <2>16. QED
    BY <1>5, <2>3, <2>4, <2>5, <2>6, <2>7, <2>8, <2>9, <2>10, <2>11, <2>12, <2>13, <2>14,
       <2>15 DEF ScanAdvance
<1>6. QED
  BY <1>1, <1>4, <1>5

\* A promotion is queued by the task that passed the document, once, and with exact
\* enqueues a task that recovers has not queued it.
LEMMA ScanKeepsPromotions ==
    ASSUME Exact, PipelineInv, ExactInv, ScanNext, UNCHANGED laterVars
    PROVE  PromotionFlight'
<1>0. /\ status \in [Docs -> IngestionStatus \cup {NoRow}]
      /\ promoteJobs \in [Docs -> Nat] /\ promDoc' = promDoc
      /\ scanPc \in [Workers -> ScanStep] /\ scanDoc \in [Workers -> Docs \cup {NoOne}]
      /\ \A w \in Workers : scanPc[w] # "idle" <=> scanDoc[w] \in Docs
      /\ EnqueueOutcomes \subseteq {"ok", "lost"}
  BY StoreAssumption DEF PipelineInv, PipelineTypes, TypeInv, BusyHasDoc,
     ScanPipelineTypeOK, StoreTypeOK, ScanTypeOK, laterVars, promVars, Exact
<1>1. PICK w \in Workers : \/ \E d \in Docs : ScanDocumentTask(w, d)
                           \/ ScanAdvance(w)
                           \/ ScanEscapes(w)
                           \/ ScanCutOff(w)
  BY DEF ScanNext
<1>2. PromotionFlight /\ TaskInv /\ SingleFlight
  BY DEF ExactInv
\* No row that a promotion relies on changes.
<1>3. \A d \in Docs : promoteJobs[d] = 1 \/ (\E v \in Workers : promDoc[v] = d) =>
          status'[d] = status[d]
  <2>1. ASSUME NEW d \in Docs, NEW s \in IngestionStatus, ScanMoves(d, s)
        PROVE  /\ \A e \in Docs \ {d} : status'[e] = status[e]
               /\ promoteJobs[d] # 1 /\ \A v \in Workers : promDoc[v] # d
    BY <1>2, <2>1 DEF ScanMoves, PromotionFlight, TrustedStatus
  <2>2. QED
    BY <2>1, ScanFollowsTable
<1>4. ASSUME promoteJobs' = promoteJobs,
             \A v \in Workers : scanPc'[v] \in PassedStep =>
                /\ scanDoc'[v] = scanDoc[v]
                /\ \/ scanPc[v] \in PassedStep
                   \/ scanDoc[v] \in Docs /\ status[scanDoc[v]] = "SCANNING"
      PROVE  PromotionFlight'
  BY <1>0, <1>2, <1>3, <1>4 DEF PromotionFlight, TrustedStatus, PassedStep
<1>5. CASE EnqueuePromotionJob(w)
  <2>1. PICK d \in Docs : d = scanDoc[w] /\ scanPc[w] = "enqueuePromotion"
    BY <1>0, <1>5 DEF EnqueuePromotionJob, ScanAt
  <2>2. /\ promoteJobs[d] = 0 /\ \A v \in Workers : promDoc[v] # d
        /\ status[d] = "CLEAN_PENDING_PROMOTION"
        /\ \A v \in Workers \ {w} : scanDoc[v] # d
    BY <1>0, <1>2, <2>1 DEF PromotionFlight, PassedStep, TaskInv, SingleFlight
  <2>3. status' = status /\ scanDoc' = scanDoc
    BY <1>5 DEF EnqueuePromotionJob
  <2>4. CASE promoteJobs' = promoteJobs /\ scanPc' = [scanPc EXCEPT ![w] = "recoverPromotion"]
    BY <1>0, <1>4, <2>1, <2>3, <2>4 DEF PassedStep
  <2>5. CASE /\ promoteJobs' = [promoteJobs EXCEPT ![d] = @ + 1]
             /\ scanPc' = [scanPc EXCEPT ![w] = "after"]
    BY <1>0, <1>2, <2>1, <2>2, <2>3, <2>5 DEF PromotionFlight, PassedStep, TrustedStatus
  <2>6. PICK o \in {"ok", "lost"} :
           /\ promoteJobs' = EnqueueTo(promoteJobs, d, o)
           /\ ScanGoTo(w, IF Raises(o) THEN "recoverPromotion" ELSE "after")
    BY <1>0, <1>5, <2>1 DEF EnqueuePromotionJob
  <2>7. CASE o = "ok"
    BY <2>5, <2>6, <2>7 DEF EnqueueTo, Delivered, Raises, ScanGoTo
  <2>8. CASE o = "lost"
    BY <1>0, <2>4, <2>6, <2>8 DEF EnqueueTo, Delivered, Raises, ScanGoTo
  <2>9. QED
    BY <2>6, <2>7, <2>8
<1>6. ASSUME NEW d \in Docs, ScanDocumentTask(w, d)
      PROVE  PromotionFlight'
  BY <1>0, <1>4, <1>6 DEF ScanDocumentTask, PrepareExhausted, PrepareRearms, RunScanStarts,
     RunScanNoOp, ScanGoTo, PassedStep, ScanAt
<1> USE <1>0, <1>4 DEF ScanGoTo, ScanEnd, ScanAt, PassedStep, storeVars
<1>7. CASE RunScan(w) \/ LoadDocument(w)
  BY <1>7 DEF RunScan, RunScanStarts, RunScanNoOp, LoadDocument
<1>8. CASE IntegrityMismatch(w) \/ ScanVerdict(w) \/ ScanError(w)
  <2>1. scanPc[w] = "scanning" /\ scanDoc[w] \in Docs /\ status[scanDoc[w]] = "SCANNING"
    BY <1>2, <1>8 DEF IntegrityMismatch, ScanVerdict, ScanError, TaskInv
  <2>2. QED
    BY <1>8, <2>1 DEF IntegrityMismatch, ScanVerdict, ScanError, ScanRaises, ScanStays
<1>9. CASE PromotionRecoverRead(w) \/ PromotionRecoverPromoting(w)
           \/ PromotionRecoverReload(w) \/ PromotionRecoverFail(w)
  BY <1>9 DEF PromotionRecoverRead, PromotionRecoverPromoting, PromotionRecoverReload,
     PromotionRecoverFail
<1>10. CASE AfterScan(w) \/ ScanClose(w) \/ ScanEscapes(w) \/ ScanCutOff(w)
  BY <1>10 DEF AfterScan, ScanClose, ScanEscapes, ScanCutOff
<1>11. QED
  BY <1>1, <1>5, <1>6, <1>7, <1>8, <1>9, <1>10 DEF ScanAdvance

\* A task counts its attempt when nobody else works on the document; one that gives
\* up afterwards without a verdict was cut off.
LEMMA ScanKeepsCount ==
    ASSUME PipelineInv, ExactInv, ScanNext, UNCHANGED uploadVars
    PROVE  CountInv'
<1>0. /\ status \in [Docs -> IngestionStatus \cup {NoRow}]
      /\ scanAttempts \in [Docs -> Nat] /\ cutOffs \in Nat /\ SCAN_MAX_ATTEMPTS \in Nat \ {0}
      /\ scanPc \in [Workers -> ScanStep] /\ scanDoc \in [Workers -> Docs \cup {NoOne}]
      /\ \A w \in Workers : scanPc[w] # "idle" <=> scanDoc[w] \in Docs
      /\ UNCHANGED <<upload, peekAttempts>>
  BY StoreAssumption DEF PipelineInv, PipelineTypes, TypeInv, BusyHasDoc,
     ScanPipelineTypeOK, StoreTypeOK, ScanTypeOK, uploadVars
<1>1. PICK w \in Workers : \/ \E d \in Docs : ScanDocumentTask(w, d)
                           \/ ScanAdvance(w)
                           \/ ScanEscapes(w)
                           \/ ScanCutOff(w)
  BY DEF ScanNext
<1>2. CountInv /\ TaskInv /\ SingleFlight
  BY DEF ExactInv
<1> USE <1>0, <1>2 DEF CountInv, AttemptsBounded
\* Nothing is counted and nobody stops scanning a document that stays SCANNING.
<1>3. ASSUME scanAttempts' = scanAttempts, cutOffs' = cutOffs,
             \A d \in Docs : status'[d] = "SCANNING" => status[d] = "SCANNING",
             \A v \in Workers : scanPc[v] \in {"started", "scanning"} =>
                \/ scanDoc'[v] = scanDoc[v] /\ scanPc'[v] \in {"started", "scanning"}
                \/ status'[scanDoc[v]] # "SCANNING"
      PROVE  CountInv'
  BY <1>3
\* An attempt is counted.
<1>4. ASSUME NEW d \in Docs, RunScanStarts(w, d), scanDoc' = [scanDoc EXCEPT ![w] = d],
             UploadOver(d), \A v \in Workers \ {w} : scanDoc[v] # d,
             scanPc[w] \in {"idle", "armed"}, scanDoc[w] \in {NoOne, d}, cutOffs' = cutOffs
      PROVE  CountInv'
  <2>1. /\ status' = status /\ scanPc' = [scanPc EXCEPT ![w] = "started"]
        /\ scanAttempts' = [scanAttempts EXCEPT ![d] = @ + 1] /\ status[d] = "SCANNING"
    BY <1>4 DEF RunScanStarts, ScanGoTo
  <2>2. scanAttempts[d] < SCAN_MAX_ATTEMPTS + cutOffs
    BY <1>4, <2>1
  <2>3. AttemptsBounded'
    BY <1>4, <2>1, <2>2
  <2>4. \A e \in Docs \ {d} : scanAttempts'[e] = scanAttempts[e]
    BY <2>1
  <2>5. \A v \in Workers : scanDoc[v] \in Docs \ {d} =>
           scanDoc'[v] = scanDoc[v] /\ scanPc'[v] = scanPc[v]
    BY <1>4, <2>1, StoreAssumption
  <2>6. scanDoc'[w] = d /\ scanPc'[w] = "started"
    BY <1>4, <2>1
  <2>7. \A e \in Docs : upload[e] \in {"none", "checked", "streamed", "quarantined",
                           "validating", "enqueue", "recover", "recovering"} => e # d
    BY <1>4, <2>1 DEF UploadOver, PipelineInv, IntakeInv, NoRow
  <2>8. QED
    BY <1>4, <2>1, <2>3, <2>4, <2>5, <2>6, <2>7
<1>5. ASSUME NEW d \in Docs, ScanDocumentTask(w, d)
      PROVE  CountInv'
  <2>0. /\ scanPc[w] = "idle" /\ UploadOver(d) /\ cutOffs' = cutOffs
        /\ \A v \in Workers : scanDoc[v] # d
    BY <1>5 DEF ScanDocumentTask, ScanAt, SingleFlight
  <2>1. CASE PrepareExhausted(w, d) /\ UNCHANGED scanDoc
    BY <1>3, <2>0, <2>1 DEF PrepareExhausted
  <2>2. CASE PrepareRearms(w, d) /\ scanDoc' = [scanDoc EXCEPT ![w] = d]
    BY <2>0, <2>2 DEF PrepareRearms, SetStatus, ScanGoTo
  <2>3. CASE RunScanStarts(w, d) /\ scanDoc' = [scanDoc EXCEPT ![w] = d]
    BY <1>4, <2>0, <2>3
  <2>4. CASE RunScanNoOp(w, d) /\ scanDoc' = [scanDoc EXCEPT ![w] = d]
    BY <1>3, <2>0, <2>4 DEF RunScanNoOp, ScanGoTo
  <2>5. QED
    BY <1>5, <2>1, <2>2, <2>3, <2>4 DEF ScanDocumentTask
<1>6. CASE RunScan(w)
  <2>1. PICK d \in Docs : d = scanDoc[w] /\ scanPc[w] = "armed"
    BY <1>6 DEF RunScan, ScanAt
  <2>2. UploadOver(d) /\ \A v \in Workers \ {w} : scanDoc[v] # d
    BY <2>1 DEF SingleFlight
  <2>3. CASE RunScanStarts(w, d)
    BY <1>4, <1>6, <2>1, <2>2, <2>3 DEF RunScan
  <2>4. CASE RunScanNoOp(w, d)
    BY <1>3, <1>6, <2>1, <2>4 DEF RunScan, RunScanNoOp, ScanGoTo
  <2>5. QED
    BY <1>6, <2>1, <2>3, <2>4 DEF RunScan
<1>7. CASE LoadDocument(w)
  BY <1>3, <1>7 DEF LoadDocument, ScanGoTo, ScanAt, storeVars
<1>8. CASE IntegrityMismatch(w) \/ ScanVerdict(w) \/ ScanError(w)
  <2>1. /\ scanPc[w] = "scanning" /\ scanDoc[w] \in Docs
        /\ status[scanDoc[w]] = "SCANNING" /\ seen[w].status = "SCANNING"
    BY <1>8 DEF IntegrityMismatch, ScanVerdict, ScanError, ScanAt, TaskInv
  <2>2. \A s \in Verdict(scanDoc[w]) : s \in ALLOWED_TRANSITIONS["SCANNING"]
    BY Table DEF Verdict, VerdictOf
  <2>3. \E s \in ALLOWED_TRANSITIONS["SCANNING"] : status' = [status EXCEPT ![scanDoc[w]] = s]
    BY <1>8, <2>1, <2>2, Table DEF IntegrityMismatch, ScanVerdict, ScanError, ScanRaises,
       ApplyTransition, Transition, SetStatus
  <2>4. /\ UNCHANGED <<scanAttempts, cutOffs>>
        /\ \A v \in Workers \ {w} : scanPc'[v] = scanPc[v] /\ scanDoc'[v] = scanDoc[v]
    BY <1>8 DEF IntegrityMismatch, ScanVerdict, ScanError, ScanRaises, ScanGoTo, ScanEnd, ScanStays
  <2>5. QED
    BY <1>3, <2>1, <2>3, <2>4, Table
<1>9. CASE EnqueuePromotionJob(w) \/ PromotionRecoverRead(w) \/ PromotionRecoverPromoting(w)
           \/ PromotionRecoverReload(w) \/ PromotionRecoverFail(w) \/ AfterScan(w)
           \/ ScanClose(w)
  <2>1. /\ UNCHANGED <<scanAttempts, cutOffs>>
        /\ scanPc[w] \notin {"started", "scanning"}
        /\ \A v \in Workers \ {w} : scanPc'[v] = scanPc[v] /\ scanDoc'[v] = scanDoc[v]
    BY <1>9 DEF EnqueuePromotionJob, PromotionRecoverRead, PromotionRecoverPromoting,
       PromotionRecoverReload, PromotionRecoverFail, AfterScan, ScanClose, ScanAt, ScanGoTo,
       ScanEnd, storeVars
  <2>2. scanDoc[w] \in Docs /\ \A d \in Docs : status'[d] = "SCANNING" => status[d] = "SCANNING"
    BY <1>9 DEF EnqueuePromotionJob, PromotionRecoverRead, PromotionRecoverPromoting,
       PromotionRecoverReload, PromotionRecoverFail, AfterScan, ScanClose, ScanAt, SetStatus,
       storeVars
  <2>3. QED
    BY <1>3, <2>1, <2>2
<1>10. CASE ScanEscapes(w) \/ ScanCutOff(w)
  <2>1. /\ UNCHANGED <<status, scanAttempts>> /\ cutOffs' = cutOffs + 1
    BY <1>10 DEF ScanEscapes, ScanCutOff, CutOff
  <2>2. \A d \in Docs : scanAttempts'[d] < SCAN_MAX_ATTEMPTS + cutOffs'
    BY <2>1
  <2>3. QED
    BY <2>1, <2>2
<1>11. QED
  BY <1>1, <1>5, <1>6, <1>7, <1>8, <1>9, <1>10 DEF ScanAdvance

\* What a promotion step does to the rows: it moves along the table the row of the
\* document it promotes.
PromMoves(d, s) ==
    /\ status' = [status EXCEPT ![d] = s]
    /\ <<status[d], s>> \in {<<"CLEAN_PENDING_PROMOTION", "PROMOTING">>,
                             <<"PROMOTION_FAILED", "PROMOTING">>,
                             <<"PROMOTING", "PROMOTION_FAILED">>,
                             <<"PROMOTING", "CLEAN">>}
    /\ promoteJobs[d] = 1 \/ \E w \in Workers : promDoc[w] = d

\* A promotion step writes nothing or moves a row that way.
LEMMA PromFollowsTable ==
    ASSUME PipelineInv, ExactInv, PromNext
    PROVE  status' = status \/ \E d \in Docs, s \in IngestionStatus : PromMoves(d, s)
<1>0. /\ promoteJobs \in [Docs -> Nat]
      /\ \A w \in Workers : promPc[w] # "idle" => promDoc[w] \in Docs
  BY DEF PipelineInv, PipelineTypes, StorageTypes, StorageBusy, StorageTypeOK, StoreTypeOK,
     PromTypeOK
<1>1. PICK w \in Workers : \/ \E d \in Docs : PromoteDocumentTask(w, d)
                           \/ PromAdvance(w)
                           \/ PromEscapes(w)
                           \/ PromoteCutOff(w)
  BY DEF PromNext
<1>2. PromotionInv /\ PromotionFlight
  BY DEF ExactInv
<1>3. ASSUME NEW d \in Docs, PromoteDocumentTask(w, d)
      PROVE  status' = status \/ PromMoves(d, "PROMOTING")
  <2>1. promoteJobs[d] = 1
    BY <1>0, <1>2, <1>3 DEF PromoteDocumentTask, PromotionFlight
  <2>2. QED
    BY <1>3, <2>1 DEF PromoteDocumentTask, PromoteRefused, PromoteBegins, PromoteResumes,
       PromMoves, SetStatus
<1>4. CASE RecordFailure(w)
  <2>1. promDoc[w] \in Docs /\ status[promDoc[w]] = "PROMOTING"
    BY <1>0, <1>2, <1>4 DEF RecordFailure, PromAt, PromotionInv
  <2>2. status' = status \/ PromMoves(promDoc[w], "PROMOTION_FAILED")
    BY <1>4, <2>1 DEF RecordFailure, PromMoves, SetStatus
  <2>3. QED
    BY <2>1, <2>2 DEF IngestionStatus
<1>5. CASE PromoteCommits(w)
  <2>1. promDoc[w] \in Docs /\ status[promDoc[w]] = "PROMOTING"
    BY <1>0, <1>2, <1>5 DEF PromoteCommits, PromAt, PromotionInv
  <2>2. PromMoves(promDoc[w], "CLEAN")
    BY <1>5, <2>1 DEF PromoteCommits, PromMoves, SetStatus
  <2>3. QED
    BY <2>1, <2>2 DEF IngestionStatus
<1>6. CASE PromReload(w) \/ CopyStarts(w) \/ CopyFinishes(w) \/ CopyFails(w)
           \/ PromoteAborts(w) \/ EnqueueParseJob(w) \/ UnlinkSource(w) \/ UnlinkFails(w)
           \/ PromClose(w) \/ PromEscapes(w) \/ PromoteCutOff(w)
  BY <1>6 DEF PromReload, CopyStarts, CopyFinishes, CopyFails, PromoteAborts,
     EnqueueParseJob, UnlinkSource, UnlinkFails, PromClose, PromEscapes, PromoteCutOff,
     storeVars
<1>7. QED
  BY <1>1, <1>3, <1>4, <1>5, <1>6 DEF PromAdvance, IngestionStatus

\* Requests, scan tasks and the project row notice no step that leaves their own
\* state alone and moves only trusted rows no scan task has in hand.
LEMMA LaterKeepsEarlier ==
    ASSUME PipelineInv, ExactInv, UNCHANGED <<uploadVars, scanVars, scanAttempts, scanJobs>>,
           cutOffs' \in Nat, cutOffs' >= cutOffs,
           \A d \in Docs :
              \/ status'[d] = status[d]
              \/ /\ {status[d], status'[d]} \subseteq TrustedStatus
                 /\ \A w \in Workers : scanDoc[w] = d => scanPc[w] \notin PassedStep
    PROVE  SingleFlight' /\ RequestInv' /\ TaskInv' /\ ProjectInv' /\ CountInv'
<1>0. /\ \A w \in Workers : scanPc[w] # "idle" => scanDoc[w] \in Docs
      /\ scanAttempts \in [Docs -> Nat] /\ cutOffs \in Nat /\ SCAN_MAX_ATTEMPTS \in Nat
      /\ UNCHANGED <<upload, projectLock, peekAttempts, scanPc, scanDoc, seen, peek>>
  BY StoreAssumption DEF PipelineInv, PipelineTypes, TypeInv, BusyHasDoc, ScanPipelineTypeOK,
     StoreTypeOK, ScanTypeOK, uploadVars, scanVars
<1> USE <1>0 DEF ExactInv
<1>1. SingleFlight'
  BY DEF SingleFlight, UploadOver
<1>2. RequestInv'
  BY DEF RequestInv, TrustedStatus
<1>3. TaskInv'
  <2> SUFFICES ASSUME NEW w \in Workers, scanPc[w] \notin {"idle", "after", "closing"}
               PROVE  status'[scanDoc[w]] = status[scanDoc[w]]
    BY DEF TaskInv
  <2>1. scanPc[w] \in PassedStep \/ status[scanDoc[w]] = "SCANNING"
    BY DEF TaskInv, PassedStep, PipelineInv, PipelineTypes, TypeInv, ScanPipelineTypeOK,
       ScanTypeOK, ScanStep
  <2>2. QED
    BY <2>1 DEF TrustedStatus
<1>4. \A d \in Docs : ActiveRfp(d)' <=> ActiveRfp(d)
  BY DEF ActiveRfp, TrustedStatus, TerminalRejected, NoRow
<1>5. ProjectInv'
  BY <1>4 DEF ProjectInv, OneActiveRfp
<1>6. CountInv'
  BY DEF CountInv, AttemptsBounded, TrustedStatus
<1>7. QED
  BY <1>1, <1>2, <1>3, <1>5, <1>6

\* A promotion step takes its job, keeps it or gives it back.
LEMMA PromKeepsPromotions ==
    ASSUME PipelineInv, ExactInv, PromNext, UNCHANGED scanVars
    PROVE  PromotionFlight'
<1>0. /\ promoteJobs \in [Docs -> Nat] /\ promDoc \in [Workers -> Docs \cup {NoOne}]
      /\ \A w \in Workers : promPc[w] # "idle" <=> promDoc[w] \in Docs
      /\ NoOne \notin Docs /\ UNCHANGED <<scanPc, scanDoc>>
  BY StoreAssumption DEF PipelineInv, PipelineTypes, StorageTypes, StorageBusy,
     StorageTypeOK, StoreTypeOK, PromTypeOK, scanVars
<1>1. PICK w \in Workers : \/ \E d \in Docs : PromoteDocumentTask(w, d)
                           \/ PromAdvance(w)
                           \/ PromEscapes(w)
                           \/ PromoteCutOff(w)
  BY DEF PromNext
<1>2. PromotionFlight
  BY DEF ExactInv
<1>3. \A d \in Docs : status[d] \in TrustedStatus => status'[d] \in TrustedStatus
  <2>0. status \in [Docs -> IngestionStatus \cup {NoRow}]
    BY DEF PipelineInv, PipelineTypes, TypeInv, ScanPipelineTypeOK, StoreTypeOK
  <2>1. ASSUME NEW d \in Docs, NEW s \in IngestionStatus, PromMoves(d, s)
        PROVE  /\ s \in TrustedStatus
               /\ \A e \in Docs \ {d} : status'[e] = status[e]
               /\ status'[d] = s
    BY <2>0, <2>1 DEF PromMoves, TrustedStatus
  <2>2. QED
    BY <2>1, PromFollowsTable
<1> USE <1>0, <1>2, <1>3 DEF PromotionFlight
\* The task takes the document's only job.
<1>4. ASSUME NEW d \in Docs, promPc[w] = "idle", promoteJobs[d] > 0,
             promoteJobs' = [promoteJobs EXCEPT ![d] = @ - 1],
             promDoc' = promDoc \/ promDoc' = [promDoc EXCEPT ![w] = d]
      PROVE  PromotionFlight'
  <2>1. promoteJobs[d] = 1 /\ promoteJobs'[d] = 0 /\ \A v \in Workers : promDoc[v] # d
    BY <1>4
  <2>2. \A e \in Docs \ {d} : promoteJobs'[e] = promoteJobs[e]
    BY <1>4
  <2>3. \A v \in Workers \ {w} : promDoc'[v] = promDoc[v]
    BY <1>4
  <2>4. promDoc'[w] \in {d, NoOne}
    BY <1>4
  <2>5. QED
    BY <2>1, <2>2, <2>3, <2>4
\* The task ends, or its process dies and its job comes again.
<1>5. ASSUME promPc[w] # "idle", promDoc' = [promDoc EXCEPT ![w] = NoOne],
             \/ promoteJobs' = promoteJobs
             \/ promoteJobs' = [promoteJobs EXCEPT ![promDoc[w]] = @ + 1]
      PROVE  PromotionFlight'
  <2>1. PICK d \in Docs : d = promDoc[w]
    BY <1>5
  <2>2. promoteJobs[d] = 0 /\ promoteJobs'[d] \in {0, 1} /\ \A v \in Workers : promDoc'[v] # d
    BY <1>5, <2>1
  <2>3. \A e \in Docs \ {d} : promoteJobs'[e] = promoteJobs[e]
    BY <1>5, <2>1
  <2>4. \A v \in Workers \ {w} : promDoc'[v] = promDoc[v]
    BY <1>5
  <2>5. QED
    BY <1>5, <2>1, <2>2, <2>3, <2>4
<1>6. ASSUME promDoc' = promDoc, promoteJobs' = promoteJobs
      PROVE  PromotionFlight'
  BY <1>6
<1>7. ASSUME NEW d \in Docs, PromoteDocumentTask(w, d)
      PROVE  PromotionFlight'
  BY <1>4, <1>7 DEF PromoteDocumentTask, PromoteRefused, PromoteBegins, PromoteResumes,
     PromAt, TakeFrom
<1>8. CASE PromReload(w) \/ CopyStarts(w) \/ CopyFinishes(w) \/ CopyFails(w)
           \/ PromoteCommits(w) \/ PromoteAborts(w) \/ EnqueueParseJob(w) \/ PromEscapes(w)
  BY <1>6, <1>8 DEF PromReload, CopyStarts, CopyFinishes, CopyFails, PromoteCommits,
     PromoteAborts, EnqueueParseJob, PromEscapes, storeVars
<1>9. CASE RecordFailure(w) \/ PromClose(w) \/ UnlinkSource(w) \/ UnlinkFails(w)
  BY <1>5, <1>9 DEF RecordFailure, PromClose, UnlinkSource, UnlinkFails, PromAt,
     PromEnd, storeVars
<1>10. CASE PromoteCutOff(w)
  BY <1>5, <1>10 DEF PromoteCutOff, PromBusy, PromEnd, Redeliver
<1>11. QED
  BY <1>1, <1>7, <1>8, <1>9, <1>10 DEF PromAdvance

\* A promotion task reads back what it wrote, and deletes the quarantine file only of
\* a row that it has opened to parsing.
LEMMA PromKeepsTasks ==
    ASSUME PipelineInv, ExactInv, PromNext
    PROVE  PromotionInv' /\ SourceInv'
<1>0. /\ status \in [Docs -> IngestionStatus \cup {NoRow}]
      /\ quarantineFile \in [Docs -> BOOLEAN] /\ promPc \in [Workers -> PromStep]
      /\ promDoc \in [Workers -> Docs \cup {NoOne}]
      /\ promSeen \in [Workers -> [status : IngestionStatus \cup {NoRow}, cleanId : Nat]]
      /\ \A w \in Workers : promPc[w] # "idle" <=> promDoc[w] \in Docs
      /\ NoOne \notin Docs
  BY StoreAssumption DEF PipelineInv, PipelineTypes, StorageTypes, StorageBusy,
     StorageTypeOK, StoreTypeOK, PromTypeOK
<1>1. PICK w \in Workers : \/ \E d \in Docs : PromoteDocumentTask(w, d)
                           \/ PromAdvance(w)
                           \/ PromEscapes(w)
                           \/ PromoteCutOff(w)
  BY DEF PromNext
<1>2. PromotionFlight /\ PromotionInv /\ SourceInv
  BY DEF ExactInv
\* Other tasks promote other documents.
<1>3. ASSUME NEW d \in Docs, \A e \in Docs \ {d} : status'[e] = status[e],
             \A v \in Workers \ {w} : promDoc[v] # d,
             \A v \in Workers \ {w} : /\ promPc'[v] = promPc[v] /\ promDoc'[v] = promDoc[v]
                                      /\ promSeen'[v] = promSeen[v],
             promPc'[w] \in {"promoting", "copy", "copying", "copied", "failing"} =>
                promDoc'[w] = d /\ status'[d] = "PROMOTING",
             promPc'[w] \in {"copy", "copying", "copied", "failing"} =>
                promSeen'[w].status = "PROMOTING",
             promPc'[w] \in {"enqueueParse", "unlink"} =>
                promDoc'[w] = d /\ status'[d] \in ParseableStatus,
             \A e \in Docs \ {d} : quarantineFile'[e] = quarantineFile[e],
             status'[d] \in ParseableStatus \cup {NoRow} \/ quarantineFile'[d]
      PROVE  PromotionInv' /\ SourceInv'
  <2>1. SourceInv'
    BY <1>2, <1>3 DEF SourceInv
  <2>2. \A v \in Workers \ {w} : promPc[v] # "idle" => status'[promDoc[v]] = status[promDoc[v]]
    BY <1>0, <1>3
  <2>3. PromotionInv'
    BY <1>0, <1>2, <1>3, <2>2 DEF PromotionInv
  <2>4. QED
    BY <2>1, <2>3
<1>4. ASSUME NEW d \in Docs, PromoteDocumentTask(w, d)
      PROVE  PromotionInv' /\ SourceInv'
  <2>0. /\ promPc[w] = "idle" /\ quarantineFile' = quarantineFile
        /\ \A v \in Workers : promDoc[v] # d
    BY <1>2, <1>4 DEF PromoteDocumentTask, PromAt, PromotionFlight
  <2>1. CASE PromoteRefused(w, d)
    <3>1. status[d] \in ParseableStatus \cup {NoRow} \/ quarantineFile[d]
      BY <1>2 DEF SourceInv
    <3>2. QED
      BY <1>0, <1>3, <2>0, <2>1, <3>1 DEF PromoteRefused, PromGoTo
  <2>2. CASE PromoteBegins(w, d)
    <3>1. quarantineFile[d]
      BY <1>2, <2>2 DEF PromoteBegins, SourceInv, ParseableStatus, NoRow
    <3>2. QED
      BY <1>0, <1>3, <2>0, <2>2, <3>1 DEF PromoteBegins, SetStatus, PromGoTo
  <2>3. CASE PromoteResumes(w, d)
    <3>1. quarantineFile[d]
      BY <1>2, <2>3 DEF PromoteResumes, SourceInv, ParseableStatus, NoRow
    <3>2. QED
      BY <1>0, <1>3, <2>0, <2>3, <3>1 DEF PromoteResumes, LoadForCopy, PromGoTo
  <2>4. QED
    BY <1>4, <2>1, <2>2, <2>3 DEF PromoteDocumentTask
<1>5. ASSUME PromAdvance(w) \/ PromEscapes(w) \/ PromoteCutOff(w)
      PROVE  PromotionInv' /\ SourceInv'
  <2>0. promPc[w] # "idle"
    BY <1>5 DEF PromAdvance, PromReload, CopyStarts, CopyFinishes, CopyFails, RecordFailure,
       PromoteCommits, PromoteAborts, EnqueueParseJob, UnlinkSource, UnlinkFails,
       PromClose, PromEscapes, PromoteCutOff, PromBusy, PromAt
  <2>1. PICK d \in Docs : d = promDoc[w]
    BY <1>0, <2>0
  <2>2. \A v \in Workers \ {w} : promDoc[v] # d
    BY <1>2, <2>1 DEF PromotionFlight
  <2>3. status[d] \in ParseableStatus \cup {NoRow} \/ quarantineFile[d]
    BY <1>2 DEF SourceInv
  <2> USE <1>0, <1>2, <1>3, <2>1, <2>2, <2>3 DEF PromotionInv, PromAt, PromGoTo, storeVars
  <2>4. CASE PromReload(w)
    BY <2>4 DEF PromReload, LoadForCopy
  <2>5. CASE CopyStarts(w) \/ CopyFinishes(w) \/ CopyFails(w)
    BY <2>5 DEF CopyStarts, CopyFinishes, CopyFails
  <2>6. CASE RecordFailure(w)
    BY <2>6 DEF RecordFailure, SetStatus, PromEnd, ParseableStatus, NoRow
  <2>7. CASE PromoteCommits(w)
    BY <2>7 DEF PromoteCommits, SetStatus, ParseableStatus
  <2>8. CASE PromoteAborts(w)
    BY <2>8 DEF PromoteAborts
  <2>9. CASE EnqueueParseJob(w)
    BY <2>9 DEF EnqueueParseJob
  <2>10. CASE UnlinkSource(w)
    BY <2>10 DEF UnlinkSource, PromEnd
  <2>11. CASE UnlinkFails(w)
    BY <2>11 DEF UnlinkFails, PromEnd
  <2>12. CASE PromClose(w) \/ PromoteCutOff(w)
    BY <2>12 DEF PromClose, PromoteCutOff, PromEnd
  <2>13. CASE PromEscapes(w)
    BY <2>13 DEF PromEscapes
  <2>14. QED
    BY <1>5, <2>4, <2>5, <2>6, <2>7, <2>8, <2>9, <2>10, <2>11, <2>12, <2>13
       DEF PromAdvance
<1>6. QED
  BY <1>1, <1>4, <1>5

\* What a parse step does to the rows.
ParseMoves(d, s) ==
    /\ status' = [status EXCEPT ![d] = s]
    /\ <<status[d], s>> \in {<<"CLEAN", "PARSING">>, <<"PARSE_FAILED", "PARSING">>,
                             <<"PARSING", "COMPLETED">>, <<"PARSING", "PARSE_FAILED">>}

\* A parse step writes nothing or moves a row that way.
LEMMA ParseFollowsTable ==
    ASSUME PipelineInv, ParseNext
    PROVE  status' = status \/ \E d \in Docs, s \in IngestionStatus : ParseMoves(d, s)
<1>0. \A w \in Workers : parsePc[w] # "idle" => parseDoc[w] \in Docs
  BY DEF PipelineInv, PipelineTypes, StorageTypes, StorageBusy, StorageTypeOK, ParseTypeOK
<1>1. PICK w \in Workers : \/ \E d \in Docs : PrepareParseAttempt(w, d)
                           \/ ParseAdvance(w)
                           \/ ParseCutOff(w)
  BY DEF ParseNext
<1>3. ASSUME NEW d \in Docs, PrepareParseAttempt(w, d)
      PROVE  status' = status \/ ParseMoves(d, "PARSING")
  BY <1>3 DEF PrepareParseAttempt, PrepareRefused, PrepareClaims, ParseMoves, SetStatus
<1>4. ASSUME FailParseAttempt(w) \/ PersistParseResults(w), status' # status
      PROVE  /\ parseDoc[w] \in Docs
             /\ \/ ParseMoves(parseDoc[w], "PARSE_FAILED")
                \/ ParseMoves(parseDoc[w], "COMPLETED")
  <2>1. parseDoc[w] \in Docs
    BY <1>0, <1>4 DEF FailParseAttempt, PersistParseResults, ParseAt
  <2>2. status[parseDoc[w]] = "PARSING"
    BY <1>4 DEF FailParseAttempt, PersistParseResults, AttemptCurrent
  <2>3. QED
    BY <1>4, <2>1, <2>2 DEF FailParseAttempt, PersistParseResults, ParseMoves, SetStatus
<1>5. CASE ParserResponds(w) \/ EnqueueParseRetry(w) \/ PersistStale(w)
           \/ EnqueueExtractionJob(w) \/ ParseCutOff(w)
  BY <1>5 DEF ParserResponds, EnqueueParseRetry, PersistStale,
     EnqueueExtractionJob, ParseCutOff, storeVars
<1>6. {"PARSING", "PARSE_FAILED", "COMPLETED"} \subseteq IngestionStatus
  BY DEF IngestionStatus
<1>7. QED
  BY <1>1, <1>3, <1>4, <1>5, <1>6 DEF ParseAdvance

\* Every step of the pipeline keeps the exact invariant.
LEMMA ExactStep ==
    ASSUME Exact, PipelineInv, PipelineInv', ExactInv, [PipelineNext]_pipelineVars
    PROVE  ExactInv'
<1>0. cutOffs' \in Nat
  BY StoreAssumption DEF PipelineInv, PipelineTypes, TypeInv, ScanPipelineTypeOK, StoreTypeOK
<1>1. CASE UploadActs
  <2>1. UploadNext /\ UNCHANGED <<scanVars, laterVars>>
    BY <1>1 DEF UploadActs
  <2>2. QED
    BY <2>1, UploadKeepsFlights, UploadKeepsTasks, UploadKeepsProject, UploadKeepsCount
       DEF ExactInv
<1>2. CASE ScanActs
  <2>1. ScanNext /\ UNCHANGED <<uploadVars, laterVars>>
    BY <1>2 DEF ScanActs
  <2>2. QED
    BY <2>1, ScanKeepsFlight, ScanKeepsOthers, ScanKeepsTasks, ScanKeepsPromotions,
       ScanKeepsCount DEF ExactInv
<1>3. CASE PromActs
  <2>1. PromNext /\ UNCHANGED <<uploadVars, scanVars>>
    BY <1>3 DEF PromActs
  <2>2. \A d \in Docs :
          \/ status'[d] = status[d]
          \/ /\ {status[d], status'[d]} \subseteq TrustedStatus
             /\ \A w \in Workers : scanDoc[w] = d => scanPc[w] \notin PassedStep
    <3>0. status \in [Docs -> IngestionStatus \cup {NoRow}]
      BY DEF PipelineInv, PipelineTypes, TypeInv, ScanPipelineTypeOK, StoreTypeOK
    <3>1. ASSUME NEW d \in Docs, NEW s \in IngestionStatus, PromMoves(d, s)
          PROVE  /\ \A e \in Docs \ {d} : status'[e] = status[e]
                 /\ {status[d], status'[d]} \subseteq TrustedStatus
                 /\ \A w \in Workers : scanDoc[w] = d => scanPc[w] \notin PassedStep
      BY <3>0, <3>1 DEF PromMoves, TrustedStatus, ExactInv, PromotionFlight
    <3>2. QED
      BY <2>1, <3>1, PromFollowsTable
  <2>3. UNCHANGED <<scanAttempts, scanJobs>> /\ cutOffs' >= cutOffs
    BY <2>1, PromLeavesScan DEF PipelineInv
  <2>4. QED
    BY <1>0, <2>1, <2>2, <2>3, LaterKeepsEarlier, PromKeepsPromotions, PromKeepsTasks
       DEF ExactInv
<1>4. CASE ParseActs
  <2>1. ParseNext /\ UNCHANGED <<uploadVars, scanVars, promVars>>
    BY <1>4 DEF ParseActs
  <2>2. /\ UNCHANGED <<quarantineFile, scanJobs, promoteJobs>>
        /\ \A d \in Docs : \/ status'[d] = status[d]
                           \/ {status[d], status'[d]} \subseteq ParseableStatus
    BY <2>1, ParseEffect DEF PipelineInv, PipelineTypes
  <2>3. \A d \in Docs :
          \/ status'[d] = status[d]
          \/ /\ {status[d], status'[d]} \subseteq TrustedStatus
             /\ \A w \in Workers : scanDoc[w] = d => scanPc[w] \notin PassedStep
    BY <2>2 DEF ParseableStatus, TrustedStatus, ExactInv, TaskInv, PassedStep
  <2>4. SingleFlight' /\ RequestInv' /\ TaskInv' /\ ProjectInv' /\ CountInv'
    <3>1. UNCHANGED <<scanAttempts, scanJobs>> /\ cutOffs' >= cutOffs
      BY <2>1, ParseLeavesScan DEF PipelineInv
    <3>2. QED
      BY <1>0, <2>1, <2>3, <3>1, LaterKeepsEarlier
  <2>5. UNCHANGED <<promPc, promDoc, promSeen, scanPc, scanDoc>>
    BY <2>1 DEF promVars, scanVars
  <2>6. PromotionFlight'
    BY <2>2, <2>3, <2>5 DEF ExactInv, PromotionFlight
  <2>7. PromotionInv'
    <3>1. \A w \in Workers : promPc[w] # "idle" => promDoc[w] \in Docs
      BY DEF PipelineInv, PipelineTypes, StorageTypes, StorageBusy, StorageTypeOK, PromTypeOK
    <3>2. QED
      BY <2>2, <2>5, <3>1 DEF ExactInv, PromotionInv, ParseableStatus
  <2>8. SourceInv'
    BY <2>2 DEF ExactInv, SourceInv
  <2>9. QED
    BY <2>4, <2>6, <2>7, <2>8 DEF ExactInv
<1>5. CASE OnlyLoop
  BY <1>5 DEF OnlyLoop, laterVars, storeVars, uploadVars, scanVars,
     promVars, ExactInv, SingleFlight, UploadOver, RequestInv, TaskInv, PromotionFlight,
     PromotionInv, SourceInv, ProjectInv, OneActiveRfp, ActiveRfp, CountInv, AttemptsBounded
<1>6. QED
  BY <1>1, <1>2, <1>3, <1>4, <1>5, LoopOrDone DEF PipelineInv, PipelineTypes

\* The empty table satisfies the exact invariant.
LEMMA ExactInit == PipelineInit => ExactInv
<1> SUFFICES ASSUME PipelineInit PROVE ExactInv
  OBVIOUS
<1> USE StoreAssumption
        DEF PipelineInit, ScanPipelineInit, StoreInit, UploadInit, ScanInit, PromInit
<1>1. SingleFlight /\ RequestInv /\ TaskInv
  BY DEF SingleFlight, RequestInv, TaskInv
<1>2. PromotionFlight /\ PromotionInv /\ SourceInv
  BY DEF PromotionFlight, PromotionInv, SourceInv
<1>3. ProjectInv
  BY DEF ProjectInv, OneActiveRfp, ActiveRfp
<1>4. CountInv
  BY DEF CountInv, AttemptsBounded, NoRow
<1>5. QED
  BY <1>1, <1>2, <1>3, <1>4 DEF ExactInv

\* When every enqueue tells the truth, the exact invariant always holds.
THEOREM ExactInvariant ==
    ASSUME Exact
    PROVE  PipelineSpec => []ExactInv
<1>1. PipelineInv /\ PipelineInv' /\ ExactInv /\ [PipelineNext]_pipelineVars => ExactInv'
  BY ExactStep
<1>2. QED
  BY <1>1, ExactInit, PipelineInvariant, PTL DEF PipelineSpec

\* The project's table, as the abstract specification has it.
LEMMA LifecycleTable ==
    /\ \A s \in IngestionStatus :
          Lifecycle!ALLOWED_TRANSITIONS[s] = ALLOWED_TRANSITIONS[s]
    /\ \A d : Lifecycle!Active(d) <=> ActiveRfp(d)
    /\ Lifecycle!NoRow = NoRow
BY DEF Lifecycle!ALLOWED_TRANSITIONS, Lifecycle!IngestionStatus, ALLOWED_TRANSITIONS,
   IngestionStatus, Lifecycle!Active, Lifecycle!NoRow, Lifecycle!TerminalRejected,
   ActiveRfp, NoRow, TerminalRejected

\* What a request step does to the rows: it inserts one, an RFP's only under the
\* project lock and so while no RFP is active, or moves along the table its own.
LEMMA UploadFollowsTable ==
    ASSUME PipelineInv, ExactInv, UploadNext
    PROVE  \/ status' = status
           \/ \E d \in Docs :
                 \/ /\ status[d] = NoRow /\ status' = [status EXCEPT ![d] = "QUARANTINED"]
                    /\ d \in Rfps => \A e \in Docs : ~ActiveRfp(e)
                 \/ \E s \in ALLOWED_TRANSITIONS[status[d]] :
                       /\ status[d] \in {"QUARANTINED", "VALIDATING", "SCANNING"}
                       /\ status' = [status EXCEPT ![d] = s]
<1>1. PICK d \in Docs : UploadRfp(d) \/ UploadKnowledge(d) \/ UploadAdvance(d)
                         \/ WebCutOff(d)
  BY DEF UploadNext
<1>2. RequestInv /\ ProjectInv /\ IntakeInv /\ NoOne \notin Docs
  BY StoreAssumption DEF ExactInv, PipelineInv
<1>3. CASE CommitQuarantined(d)
  BY <1>2, <1>3 DEF CommitQuarantined, At, SetStatus, IntakeInv, ProjectInv
<1>4. CASE Validate(d) \/ DetectAccepts(d) \/ DetectRejects(d) \/ RecoverWrite(d)
  BY <1>2, <1>4, Table DEF Validate, DetectAccepts, DetectRejects, RecoverWrite, At,
     SetStatus, RequestInv
<1>5. CASE UploadRfp(d) \/ UploadKnowledge(d) \/ StreamUpload(d) \/ StreamFails(d)
           \/ CommitFails(d) \/ EnqueueScanJob(d) \/ RecoverRead(d) \/ RecoverRetry(d)
           \/ WebCutOff(d)
  BY <1>5 DEF UploadRfp, UploadKnowledge, StreamUpload, StreamFails, CommitFails,
     EnqueueScanJob, RecoverRead, RecoverRetry, WebCutOff, storeVars
<1>6. QED
  BY <1>1, <1>3, <1>4, <1>5 DEF UploadAdvance

\* A move along the table is a step of the abstract lifecycle.
LEMMA MoveImplements ==
    ASSUME NEW d \in Docs, status[d] \in IngestionStatus,
           NEW s \in ALLOWED_TRANSITIONS[status[d]], status' = [status EXCEPT ![d] = s]
    PROVE  Lifecycle!LifecycleNext
<1>1. status[d] # Lifecycle!NoRow
  BY DEF IngestionStatus, Lifecycle!NoRow
<1>2. s \in Lifecycle!ALLOWED_TRANSITIONS[status[d]]
  BY LifecycleTable
<1>3. Lifecycle!Move(d)
  BY <1>1, <1>2 DEF Lifecycle!Move
<1>4. QED
  BY <1>3 DEF Lifecycle!LifecycleNext

\* Every step of the pipeline is one step of the abstract lifecycle, or none.
LEMMA StepImplements ==
    ASSUME PipelineInv, ExactInv, [PipelineNext]_pipelineVars
    PROVE  [Lifecycle!LifecycleNext]_status
<1>0. status \in [Docs -> IngestionStatus \cup {NoRow}]
  BY DEF PipelineInv, PipelineTypes, TypeInv, ScanPipelineTypeOK, StoreTypeOK
<1>1. ASSUME NEW d \in Docs, status[d] = NoRow, d \in Rfps => \A e \in Docs : ~ActiveRfp(e),
             status' = [status EXCEPT ![d] = "QUARANTINED"]
      PROVE  Lifecycle!LifecycleNext
  <2>1. Lifecycle!Create(d)
    BY <1>1, LifecycleTable DEF Lifecycle!Create
  <2>2. QED
    BY <2>1 DEF Lifecycle!LifecycleNext
<1>2. CASE UploadActs
  <2>1. UploadNext
    BY <1>2 DEF UploadActs
  <2>2. ASSUME NEW d \in Docs, status[d] \in {"QUARANTINED", "VALIDATING", "SCANNING"},
               NEW s \in ALLOWED_TRANSITIONS[status[d]], status' = [status EXCEPT ![d] = s]
        PROVE  Lifecycle!LifecycleNext
    BY <2>2, MoveImplements DEF IngestionStatus
  <2>3. QED
    BY <1>1, <2>1, <2>2, UploadFollowsTable
<1>3. CASE ScanActs
  <2>1. ScanNext
    BY <1>3 DEF ScanActs
  <2>2. ASSUME NEW d \in Docs, NEW s \in IngestionStatus, ScanMoves(d, s)
        PROVE  Lifecycle!LifecycleNext
    <3>1. status[d] \in IngestionStatus /\ s \in ALLOWED_TRANSITIONS[status[d]]
      BY <2>2, Table DEF ScanMoves, IngestionStatus
    <3>2. QED
      BY <2>2, <3>1, MoveImplements DEF ScanMoves
  <2>3. QED
    BY <2>1, <2>2, ScanFollowsTable
<1>4. CASE PromActs
  <2>1. PromNext
    BY <1>4 DEF PromActs
  <2>2. ASSUME NEW d \in Docs, NEW s \in IngestionStatus, PromMoves(d, s)
        PROVE  Lifecycle!LifecycleNext
    <3>1. status[d] \in IngestionStatus /\ s \in ALLOWED_TRANSITIONS[status[d]]
      BY <2>2, Table DEF PromMoves, IngestionStatus
    <3>2. QED
      BY <2>2, <3>1, MoveImplements DEF PromMoves
  <2>3. QED
    BY <2>1, <2>2, PromFollowsTable
<1>5. CASE ParseActs
  <2>1. ParseNext
    BY <1>5 DEF ParseActs
  <2>2. ASSUME NEW d \in Docs, NEW s \in IngestionStatus, ParseMoves(d, s)
        PROVE  Lifecycle!LifecycleNext
    <3>1. status[d] \in IngestionStatus /\ s \in ALLOWED_TRANSITIONS[status[d]]
      BY <2>2, Table DEF ParseMoves, IngestionStatus
    <3>2. QED
      BY <2>2, <3>1, MoveImplements DEF ParseMoves
  <2>3. QED
    BY <2>1, <2>2, ParseFollowsTable
<1>6. CASE OnlyLoop
  BY <1>6 DEF OnlyLoop, storeVars
<1>7. QED
  BY <1>2, <1>3, <1>4, <1>5, <1>6, LoopOrDone DEF PipelineInv, PipelineTypes

\* When every enqueue tells the truth, the whole pipeline implements the promised
\* lifecycle: rows are created one RFP at a time and, from whatever object a handler
\* decides, every status change is an edge of the transition table.
THEOREM PipelineImplementsLifecycle ==
    ASSUME Exact
    PROVE  PipelineSpec => LifecycleImplemented
<1>1. PipelineInit => Lifecycle!LifecycleInit
  BY DEF PipelineInit, ScanPipelineInit, StoreInit, Lifecycle!LifecycleInit, NoRow,
     Lifecycle!NoRow
<1>2. PipelineInv /\ ExactInv /\ [PipelineNext]_pipelineVars =>
          [Lifecycle!LifecycleNext]_status
  BY StepImplements
<1>3. QED
  BY <1>1, <1>2, PipelineInvariant, ExactInvariant, PTL
     DEF PipelineSpec, LifecycleImplemented, Lifecycle!LifecycleSpec

\* When every enqueue tells the truth, the request, the queued job and the running
\* task of one document never coexist: the row lock that run_scan gives up at its
\* first commit is not needed.
THEOREM PipelineSingleFlight ==
    ASSUME Exact
    PROVE  PipelineSpec => []SingleFlight
<1>1. ExactInv => SingleFlight
  BY DEF ExactInv
<1>2. QED
  BY <1>1, ExactInvariant, PTL

\* When every enqueue tells the truth, a project never has two active RFPs.
THEOREM PipelineOneActiveRfp ==
    ASSUME Exact
    PROVE  PipelineSpec => []OneActiveRfp
<1>1. ExactInv => OneActiveRfp
  BY DEF ExactInv, ProjectInv
<1>2. QED
  BY <1>1, ExactInvariant, PTL

\* When every enqueue tells the truth, the scan cap, which run_scan itself does not
\* check, is exceeded only by what was cut off.
THEOREM PipelineAttemptsBounded ==
    ASSUME Exact
    PROVE  PipelineSpec => []AttemptsBounded
<1>1. ExactInv => AttemptsBounded
  BY DEF ExactInv, CountInv
<1>2. QED
  BY <1>1, ExactInvariant, PTL

\* When every enqueue tells the truth, a failed promotion can be tried again: its
\* quarantine file is there.
THEOREM PipelineFailedKeepsSource ==
    ASSUME Exact
    PROVE  PipelineSpec => []FailedKeepsSource
<1>1. ExactInv => FailedKeepsSource
  BY DEF ExactInv, SourceInv, FailedKeepsSource, ParseableStatus, NoRow
<1>2. QED
  BY <1>1, ExactInvariant, PTL
=============================================================================
