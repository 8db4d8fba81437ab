------------------------- MODULE ScanPipelineProofs -------------------------
(***************************************************************************)
(* Proofs about ScanPipeline, for any documents, workers, enqueue outcomes, *)
(* scan faults, attempt cap and number of cut-offs.                         *)
(***************************************************************************)
EXTENDS ScanPipeline, TLAPS

\* A job slot has a document exactly while it runs a task.
BusyHasDoc == \A w \in Workers : scanDoc[w] = NoOne <=> scanPc[w] = "idle"

TypeInv == ScanPipelineTypeOK /\ BusyHasDoc

\* A request step keeps every variable in its type.
LEMMA UploadKeepsTypes ==
    ASSUME TypeInv, UploadNext, UNCHANGED <<loop, scanVars>>
    PROVE  TypeInv'
<1> USE StoreAssumption
        DEF TypeInv, BusyHasDoc, ScanPipelineTypeOK, StoreTypeOK, UploadTypeOK,
            ScanTypeOK, storeVars, scanVars, UploadStep, ScanStep, LoadedRow,
            At, GoTo, ReleaseProject, SetStatus
<1>1. PICK d \in Docs : UploadRfp(d) \/ UploadKnowledge(d) \/ UploadAdvance(d)
                         \/ WebCutOff(d)
  BY DEF UploadNext
<1>2. CASE UploadRfp(d)
  BY <1>2 DEF UploadRfp
<1>3. CASE UploadKnowledge(d)
  BY <1>3 DEF UploadKnowledge
<1>4. CASE StreamUpload(d)
  BY <1>4 DEF StreamUpload
<1>5. CASE StreamFails(d)
  BY <1>5 DEF StreamFails
<1>6. CASE CommitQuarantined(d)
  BY <1>6 DEF CommitQuarantined, IngestionStatus
<1>7. CASE CommitFails(d)
  BY <1>7 DEF CommitFails
<1>8. CASE Validate(d)
  BY <1>8 DEF Validate, IngestionStatus
<1>9. CASE DetectAccepts(d)
  BY <1>9 DEF DetectAccepts, IngestionStatus
<1>10. CASE DetectRejects(d)
  BY <1>10 DEF DetectRejects, IngestionStatus
<1>11. CASE EnqueueScanJob(d)
  BY <1>11 DEF EnqueueScanJob, EnqueueTo, Delivered
<1>12. CASE RecoverRead(d)
  BY <1>12 DEF RecoverRead
<1>13. CASE RecoverWrite(d)
  BY <1>13 DEF RecoverWrite, IngestionStatus
<1>14. CASE RecoverRetry(d)
  BY <1>14 DEF RecoverRetry, EnqueueTo, Delivered
<1>15. CASE WebCutOff(d)
  BY <1>15 DEF WebCutOff, CutOff
<1>16. QED
  BY <1>1, <1>2, <1>3, <1>4, <1>5, <1>6, <1>7, <1>8, <1>9, <1>10, <1>11, <1>12,
     <1>13, <1>14, <1>15 DEF UploadAdvance

\* What a session holds of a row, loaded or expired, has the type of seen.
LEMMA LoadedRowTypes ==
    /\ Expired \in LoadedRow
    /\ TypeInv => \A d \in Docs : Row(d) \in LoadedRow
BY DEF Expired, Row, LoadedRow, TypeInv, ScanPipelineTypeOK, StoreTypeOK

\* A scan or promotion task is something a row can be locked by.
LEMMA HolderTypes ==
    \A w \in Workers : /\ Scanner(w) \in Holders /\ Promoter(w) \in Holders
                       /\ Scanner(w) # NoOne /\ Promoter(w) # NoOne
BY StoreAssumption DEF Scanner, Promoter, Holders

\* Closing a session, or an error before it, leaves the locks in their type.
LEMMA ReleaseTypes ==
    ASSUME rowLock \in [Docs -> Holders \cup {NoOne}], NEW h \in Holders, NEW d \in Docs
    PROVE  /\ Released(h, d) \in [Docs -> Holders \cup {NoOne}]
           /\ MayKeep(h, d) => rowLock' \in [Docs -> Holders \cup {NoOne}]
BY DEF Released, MayKeep

\* A worker step keeps every variable in its type.
LEMMA ScanKeepsTypes ==
    ASSUME TypeInv, ScanNext, UNCHANGED <<loop, uploadVars>>
    PROVE  TypeInv'
<1> USE StoreAssumption, LoadedRowTypes, HolderTypes
        DEF TypeInv, BusyHasDoc, ScanPipelineTypeOK, StoreTypeOK, UploadTypeOK,
            ScanTypeOK, storeVars, uploadVars, ScanStep, ScanAt, ScanGoTo,
            Load, SetStatus, ScanEnd, ScanStays
<1>1. PICK w \in Workers : \/ \E d \in Docs : ScanDocumentTask(w, d)
                           \/ ScanAdvance(w)
                           \/ ScanEscapes(w)
                           \/ ScanCutOff(w)
  BY DEF ScanNext
<1>2. ASSUME NEW d \in Docs, ScanDocumentTask(w, d)
      PROVE  TypeInv'
  <2> USE <1>2 DEF ScanDocumentTask, TakeFrom
  <2>1. CASE PrepareRearms(w, d)
    BY <2>1 DEF PrepareRearms, PrepareExhausted, IngestionStatus
  <2>2. CASE PrepareExhausted(w, d)
    BY <2>2 DEF PrepareExhausted, PrepareRearms, RunScanStarts, RunScanNoOp
  <2>3. CASE RunScanStarts(w, d)
    BY <2>3 DEF RunScanStarts, PrepareExhausted
  <2>4. CASE RunScanNoOp(w, d)
    BY <2>4 DEF RunScanNoOp, PrepareExhausted
  <2>5. QED
    BY <2>1, <2>2, <2>3, <2>4
<1>3. CASE RunScan(w)
  <2>1. scanDoc[w] \in Docs
    BY <1>3 DEF RunScan
  <2>2. CASE RunScanStarts(w, scanDoc[w])
    BY <1>3, <2>1, <2>2 DEF RunScan, RunScanStarts
  <2>3. CASE RunScanNoOp(w, scanDoc[w])
    BY <1>3, <2>1, <2>3 DEF RunScan, RunScanNoOp
  <2>4. QED
    BY <1>3, <2>2, <2>3 DEF RunScan
<1>4. CASE LoadDocument(w)
  BY <1>4 DEF LoadDocument
<1>5. CASE IntegrityMismatch(w)
  <2>1. scanDoc[w] \in Docs /\ "SCAN_FAILED" \in IngestionStatus
    BY <1>5 DEF IntegrityMismatch, IngestionStatus
  <2>2. CASE ApplyTransition(w, "SCAN_FAILED") /\ ScanGoTo(w, "after") /\ ScanStays
    BY <1>5, <2>1, <2>2 DEF IntegrityMismatch, ApplyTransition
  <2>3. CASE ScanEnd(w) /\ UNCHANGED status
    BY <1>5, <2>3 DEF IntegrityMismatch
  <2>4. QED
    BY <1>5, <2>2, <2>3 DEF IntegrityMismatch
<1>6. CASE ScanVerdict(w)
  <2>1. PICK new \in Verdict(scanDoc[w]) :
           \/ /\ ApplyTransition(w, new)
              /\ ScanGoTo(w, IF new = "CLEAN_PENDING_PROMOTION"
                             THEN "enqueuePromotion" ELSE "after")
              /\ ScanStays
              /\ UNCHANGED rowLock
           \/ ScanRaises(w)
    BY <1>6 DEF ScanVerdict
  <2>2. new \in IngestionStatus
    BY DEF Verdict, VerdictOf, IngestionStatus
  <2>3. QED
    BY <1>6, <2>1, <2>2 DEF ScanVerdict, ApplyTransition, ScanRaises, IngestionStatus
<1>7. CASE ScanError(w)
  BY <1>7 DEF ScanError, ScanRaises, IngestionStatus
<1>8. CASE EnqueuePromotionJob(w)
  BY <1>8 DEF EnqueuePromotionJob, EnqueueTo, Delivered, View
<1>9. CASE PromotionRecoverRead(w)
  BY <1>9 DEF PromotionRecoverRead
<1>10. CASE PromotionRecoverPromoting(w)
  BY <1>10 DEF PromotionRecoverPromoting, IngestionStatus
<1>11. CASE PromotionRecoverReload(w)
  BY <1>11 DEF PromotionRecoverReload
<1>12. CASE PromotionRecoverFail(w)
  BY <1>12 DEF PromotionRecoverFail, IngestionStatus
<1>13. CASE AfterScan(w)
  <2>1. scanDoc[w] \in Docs
    BY <1>13 DEF AfterScan
  <2>2. rowLock' \in [Docs -> Holders \cup {NoOne}]
    BY <1>13, <2>1, ReleaseTypes DEF AfterScan
  <2>3. QED
    BY <1>13, <2>1, <2>2 DEF AfterScan, EnqueueTo, Delivered
<1>14. CASE ScanClose(w)
  <2>1. scanDoc[w] \in Docs
    BY <1>14 DEF ScanClose
  <2>2. rowLock' \in [Docs -> Holders \cup {NoOne}]
    BY <1>14, <2>1, ReleaseTypes DEF ScanClose
  <2>3. QED
    BY <1>14, <2>1, <2>2 DEF ScanClose
<1>15. CASE ScanEscapes(w)
  <2>1. scanDoc[w] \in Docs
    BY <1>15 DEF ScanEscapes, ScanBusy
  <2>2. rowLock' \in [Docs -> Holders \cup {NoOne}]
    BY <1>15, <2>1, ReleaseTypes DEF ScanEscapes
  <2>3. QED
    BY <1>15, <2>1, <2>2 DEF ScanEscapes, ScanBusy, CutOff
<1>16. CASE ScanCutOff(w)
  <2>1. scanDoc[w] \in Docs
    BY <1>16 DEF ScanCutOff, ScanBusy
  <2>2. rowLock' \in [Docs -> Holders \cup {NoOne}]
    BY <1>16, <2>1, ReleaseTypes DEF ScanCutOff
  <2>3. QED
    BY <1>16, <2>1, <2>2 DEF ScanCutOff, ScanBusy, Redeliver, CutOff
<1>17. QED
  BY <1>1, <1>2, <1>3, <1>4, <1>5, <1>6, <1>7, <1>8, <1>9, <1>10, <1>11, <1>12,
     <1>13, <1>14, <1>15, <1>16 DEF ScanAdvance

\* Types hold initially and every step of the pipeline keeps them.
LEMMA TypesInductive ==
    /\ ScanPipelineInit => TypeInv
    /\ TypeInv /\ [ScanPipelineNext]_scanPipelineVars => TypeInv'
<1>1. ScanPipelineInit => TypeInv
  BY StoreAssumption
     DEF ScanPipelineInit, StoreInit, UploadInit, ScanInit, TypeInv, BusyHasDoc,
         ScanPipelineTypeOK, StoreTypeOK, UploadTypeOK, ScanTypeOK, UploadStep,
         ScanStep, LoadedRow, Expired
<1>2. ASSUME TypeInv, [ScanPipelineNext]_scanPipelineVars
      PROVE  TypeInv'
  <2>1. CASE UploadNext /\ UNCHANGED <<loop, scanVars>>
    BY <1>2, <2>1, UploadKeepsTypes
  <2>2. CASE ScanNext /\ UNCHANGED <<loop, uploadVars>>
    BY <1>2, <2>2, ScanKeepsTypes
  <2>3. CASE UNCHANGED scanPipelineVars
    BY <1>2, <2>3
       DEF scanPipelineVars, storeVars, uploadVars, scanVars, TypeInv, BusyHasDoc,
           ScanPipelineTypeOK, StoreTypeOK, UploadTypeOK, ScanTypeOK
  <2>4. ASSUME NEW p \in Processes, ScanLoopBlocks(p) \/ LoopWakes(p),
               UNCHANGED <<uploadVars, scanVars>>
        PROVE  TypeInv'
    <3>1. loop' \in [Processes -> Docs \cup {NoOne}] /\ UNCHANGED storeVars
      BY <1>2, <2>4 DEF ScanLoopBlocks, LoopBlocks, LoopWakes, TypeInv,
                        ScanPipelineTypeOK, StoreTypeOK
    <3>2. QED
      BY <1>2, <2>4, <3>1
         DEF storeVars, uploadVars, scanVars, TypeInv, BusyHasDoc, ScanPipelineTypeOK,
             StoreTypeOK, UploadTypeOK, ScanTypeOK
  <2>5. QED
    BY <1>2, <2>1, <2>2, <2>3, <2>4 DEF ScanPipelineNext, ScanDone
<1>3. QED
  BY <1>1, <1>2

\* Type correctness: in every reachable state each column, queue length and
\* program counter has its type, whatever the enqueues, scanners and cut-offs do.
THEOREM TypesCorrect == ScanPipelineSpec => [](ScanPipelineTypeOK /\ BusyHasDoc)
<1>1. TypeInv => ScanPipelineTypeOK /\ BusyHasDoc
  BY DEF TypeInv
<1>2. QED
  BY <1>1, TypesInductive, PTL DEF ScanPipelineSpec

-----------------------------------------------------------------------------
\* A request step on d leaves every document in SCANNING carried.
LEMMA UploadKeepsCarried ==
    ASSUME TypeInv, NoStrandedScan, UploadNext, UNCHANGED scanVars
    PROVE  NoStrandedScan'
<1>1. PICK d \in Docs : UploadRfp(d) \/ UploadKnowledge(d) \/ UploadAdvance(d)
                         \/ WebCutOff(d)
  BY DEF UploadNext
<1> USE DEF TypeInv, ScanPipelineTypeOK, StoreTypeOK, UploadTypeOK, NoStrandedScan,
            Carried, ScanAttended, WorkerCarries, storeVars, scanVars, At, GoTo, SetStatus
<1>2. CASE UploadRfp(d)
  BY <1>2 DEF UploadRfp
<1>3. CASE UploadKnowledge(d)
  BY <1>3 DEF UploadKnowledge
<1>4. CASE StreamUpload(d)
  BY <1>4 DEF StreamUpload
<1>5. CASE StreamFails(d)
  BY <1>5 DEF StreamFails
<1>6. CASE CommitQuarantined(d)
  BY <1>6 DEF CommitQuarantined
<1>7. CASE CommitFails(d)
  BY <1>7 DEF CommitFails
<1>8. CASE Validate(d)
  BY <1>8 DEF Validate
<1>9. CASE DetectAccepts(d)
  BY <1>9 DEF DetectAccepts
<1>10. CASE DetectRejects(d)
  BY <1>10 DEF DetectRejects
<1>11. CASE EnqueueScanJob(d)
  BY <1>11, StoreAssumption DEF EnqueueScanJob, EnqueueTo, Delivered, Raises
<1>12. CASE RecoverRead(d)
  BY <1>12 DEF RecoverRead
<1>13. CASE RecoverWrite(d)
  BY <1>13 DEF RecoverWrite
<1>14. CASE RecoverRetry(d)
  BY <1>14 DEF RecoverRetry, EnqueueTo, Delivered
<1>15. CASE WebCutOff(d)
  BY <1>15 DEF WebCutOff, CutOff
<1>16. QED
  BY <1>1, <1>2, <1>3, <1>4, <1>5, <1>6, <1>7, <1>8, <1>9, <1>10, <1>11, <1>12,
     <1>13, <1>14, <1>15 DEF UploadAdvance

\* w may change the row and the queue of d only, and its own control state.
OnlyTouches(w, d) ==
    /\ scanDoc[w] \in {d, NoOne}
    /\ \A e \in Docs \ {d} : status'[e] = status[e] /\ scanJobs'[e] = scanJobs[e]
    /\ \A v \in Workers \ {w} : /\ scanPc'[v] = scanPc[v]
                                /\ scanDoc'[v] = scanDoc[v]
                                /\ seen'[v] = seen[v]

\* The row of e is not in SCANNING with nobody to move it on.
ScanHeld(e) == status[e] = "SCANNING" => ScanAttended(e)

\* A worker step on d can strand at most d.
LEMMA StrandsAtMostOwn ==
    ASSUME NEW w \in Workers, NEW d \in Docs, OnlyTouches(w, d), NoOne \notin Docs,
           upload' = upload, NEW e \in Docs, e # d, ScanHeld(e)
    PROVE  ScanHeld(e)'
<1>1. \A v \in Workers : WorkerCarries(v, e) => WorkerCarries(v, e)'
  BY DEF WorkerCarries, OnlyTouches
<1>2. QED
  BY <1>1 DEF ScanHeld, ScanAttended, OnlyTouches

\* From SCANNING every verdict's transition is applied, none leads back to it.
LEMMA VerdictLeavesScanning ==
    ASSUME NEW d, NEW new \in Verdict(d)
    PROVE  new # "SCANNING" /\ Transition("SCANNING", new) = "ok"
BY DEF Verdict, VerdictOf, Transition, ALLOWED_TRANSITIONS, IngestionStatus

\* A worker step strands no document in SCANNING that was attended to, whatever
\* happened to its request, unless an exception leaves the task at work on it.
LEMMA ScanKeepsHeld ==
    ASSUME TypeInv, ScanNext, UNCHANGED uploadVars
    PROVE  \A e \in Docs : ScanHeld(e) =>
               ScanHeld(e)' \/ \E v \in Workers : scanDoc[v] = e /\ ScanEscapes(v)
<1> SUFFICES ASSUME NEW e \in Docs, ScanHeld(e),
                    ~\E v \in Workers : scanDoc[v] = e /\ ScanEscapes(v)
             PROVE  ScanHeld(e)'
  OBVIOUS
<1> USE DEF TypeInv, BusyHasDoc, ScanPipelineTypeOK, StoreTypeOK, ScanTypeOK,
            OnlyTouches, ScanAt, ScanGoTo, Load, SetStatus, ScanEnd, ScanStays,
            ScanAttended, WorkerCarries
<1>0. upload' = upload /\ NoOne \notin Docs
  BY StoreAssumption DEF uploadVars
<1>1. PICK w \in Workers : \/ \E d \in Docs : ScanDocumentTask(w, d)
                           \/ ScanAdvance(w)
                           \/ ScanEscapes(w)
                           \/ ScanCutOff(w)
  BY DEF ScanNext
<1>2. ASSUME NEW d \in Docs, ScanDocumentTask(w, d)
      PROVE  ScanHeld(e)'
  <2>1. OnlyTouches(w, d)
    BY <1>2 DEF ScanDocumentTask, TakeFrom, PrepareRearms, PrepareExhausted,
                RunScanStarts, RunScanNoOp
  <2>2. status'[d] = "SCANNING" => ScanAttended(d)'
    BY <1>2 DEF ScanDocumentTask, PrepareRearms, PrepareExhausted,
                RunScanStarts, RunScanNoOp
  <2>3. QED
    BY <1>0, <2>1, <2>2, StrandsAtMostOwn DEF ScanHeld
<1>3. ASSUME ScanAdvance(w) \/ ScanCutOff(w)
      PROVE  ScanHeld(e)'
  <2>0. scanPc[w] # "idle"
    BY <1>3 DEF ScanAdvance, RunScan, LoadDocument, IntegrityMismatch, ScanVerdict,
                ScanError, EnqueuePromotionJob, PromotionRecoverRead,
                PromotionRecoverPromoting, PromotionRecoverReload,
                PromotionRecoverFail, AfterScan, ScanClose, ScanCutOff, ScanBusy
  <2>1. PICK d \in Docs : scanPc[w] # "idle" /\ d = scanDoc[w]
    BY <2>0
  <2>2. SUFFICES /\ OnlyTouches(w, d)
                 /\ ScanHeld(d) => (status'[d] = "SCANNING" => ScanAttended(d)')
    BY <1>0, <2>1, StrandsAtMostOwn DEF ScanHeld
  <2>3. ScanHeld(d) => (status[d] = "SCANNING" => ScanAttended(d))
    BY DEF ScanHeld
  <2>4. CASE RunScan(w)
    BY <2>1, <2>4 DEF RunScan, RunScanStarts, RunScanNoOp
  <2>5. CASE LoadDocument(w)
    BY <2>1, <2>3, <2>5 DEF LoadDocument, Row, storeVars
  <2>6. CASE IntegrityMismatch(w)
    <3>1. Transition("SCANNING", "SCAN_FAILED") = "ok"
      BY DEF Transition, ALLOWED_TRANSITIONS, IngestionStatus
    <3>2. CASE ApplyTransition(w, "SCAN_FAILED") /\ ScanGoTo(w, "after") /\ ScanStays
      BY <1>0, <2>1, <2>3, <2>6, <3>1, <3>2 DEF IntegrityMismatch, ApplyTransition
    <3>3. CASE Transition(seen[w].status, "SCAN_FAILED") = "error" /\ ScanEnd(w)
               /\ UNCHANGED status
      <4>1. OnlyTouches(w, d)
        BY <2>1, <2>6, <3>3 DEF IntegrityMismatch
      <4>2. \A v \in Workers : WorkerCarries(v, d) => WorkerCarries(v, d)'
        BY <2>6, <3>1, <3>3 DEF IntegrityMismatch
      <4>3. scanJobs' = scanJobs /\ status' = status
        BY <2>6, <3>3 DEF IntegrityMismatch
      <4>4. QED
        BY <1>0, <2>3, <4>1, <4>2, <4>3
    <3>4. QED
      BY <2>6, <3>2, <3>3 DEF IntegrityMismatch
  <2>7. CASE ScanVerdict(w)
    BY <1>0, <2>1, <2>3, <2>7, VerdictLeavesScanning
       DEF ScanVerdict, ApplyTransition, ScanRaises
  <2>8. CASE ScanError(w)
    BY <2>1, <2>3, <2>8 DEF ScanError, ScanRaises
  <2>9. CASE EnqueuePromotionJob(w)
    BY <1>0, <2>1, <2>3, <2>9 DEF EnqueuePromotionJob
  <2>10. CASE PromotionRecoverRead(w)
    BY <1>0, <2>1, <2>3, <2>10 DEF PromotionRecoverRead, storeVars
  <2>11. CASE PromotionRecoverPromoting(w)
    BY <2>1, <2>11 DEF PromotionRecoverPromoting
  <2>12. CASE PromotionRecoverReload(w)
    BY <1>0, <2>1, <2>3, <2>12 DEF PromotionRecoverReload, storeVars
  <2>13. CASE PromotionRecoverFail(w)
    BY <1>0, <2>1, <2>3, <2>13 DEF PromotionRecoverFail
  <2>14. CASE AfterScan(w)
    <3>1. scanJobs'[d] >= scanJobs[d] /\ scanJobs'[d] \in Nat
      BY <2>1, <2>14 DEF AfterScan, EnqueueTo, Delivered
    <3>2. OnlyTouches(w, d)
      BY <2>1, <2>14 DEF AfterScan, EnqueueTo
    <3>3. \A v \in Workers : WorkerCarries(v, d) => WorkerCarries(v, d)'
      BY <2>14 DEF AfterScan
    <3>4. QED
      BY <1>0, <2>1, <2>3, <2>14, <3>1, <3>2, <3>3 DEF AfterScan
  <2>15. CASE ScanCutOff(w)
    <3>1. scanJobs'[d] > 0
      BY <2>1, <2>15 DEF ScanCutOff, Redeliver
    <3>2. OnlyTouches(w, d)
      BY <2>1, <2>15 DEF ScanCutOff, Redeliver
    <3>3. QED
      BY <3>1, <3>2
  <2>16. CASE ScanClose(w)
    BY <1>0, <2>1, <2>3, <2>16 DEF ScanClose
  <2>17. QED
    BY <1>3, <2>4, <2>5, <2>6, <2>7, <2>8, <2>9, <2>10, <2>11, <2>12, <2>13, <2>14,
       <2>15, <2>16 DEF ScanAdvance
<1>4. CASE ScanEscapes(w)
  <2>1. PICK d \in Docs : d = scanDoc[w]
    BY <1>4 DEF ScanEscapes, ScanBusy
  <2>2. OnlyTouches(w, d) /\ e # d
    BY <1>4, <2>1 DEF ScanEscapes
  <2>3. QED
    BY <1>0, <2>1, <2>2, StrandsAtMostOwn
<1>5. QED
  BY <1>1, <1>2, <1>3, <1>4

\* A worker step counts at most one task that was cut off.
LEMMA ScanCountsCutOffs ==
    ASSUME ScanNext
    PROVE  cutOffs' = cutOffs \/ CutOff
<1>1. PICK w \in Workers : \/ \E d \in Docs : ScanDocumentTask(w, d)
                           \/ ScanAdvance(w)
                           \/ ScanEscapes(w)
                           \/ ScanCutOff(w)
  BY DEF ScanNext
<1>2. QED
  BY <1>1 DEF ScanDocumentTask, ScanAdvance, RunScan, LoadDocument, IntegrityMismatch,
              ScanVerdict, ScanError, EnqueuePromotionJob, PromotionRecoverRead,
              PromotionRecoverPromoting, PromotionRecoverReload, PromotionRecoverFail,
              AfterScan, ScanClose, ScanEscapes, ScanCutOff, storeVars

\* A worker step leaves every document in SCANNING carried.
LEMMA ScanKeepsCarried ==
    ASSUME TypeInv, NoStrandedScan, ScanNext, UNCHANGED uploadVars
    PROVE  NoStrandedScan'
<1>1. upload' = upload
  BY DEF uploadVars
<1>2. cutOffs \in Nat /\ (cutOffs' = cutOffs \/ cutOffs' = cutOffs + 1)
  BY StoreAssumption, ScanCountsCutOffs
     DEF CutOff, TypeInv, ScanPipelineTypeOK, StoreTypeOK
<1>3. ASSUME NEW d \in Docs, status'[d] = "SCANNING"
      PROVE  Carried(d)'
  <2>1. CASE \E v \in Workers : scanDoc[v] = d /\ ScanEscapes(v)
    BY <1>2, <2>1 DEF ScanEscapes, CutOff, Carried
  <2>2. CASE ScanHeld(d)'
    BY <1>3, <2>2 DEF ScanHeld, Carried
  <2>3. CASE ~ScanHeld(d)
    BY <1>1, <1>2, <2>3 DEF NoStrandedScan, ScanHeld, Carried
  <2>4. QED
    BY <2>1, <2>2, <2>3, ScanKeepsHeld
<1>4. QED
  BY <1>3 DEF NoStrandedScan

\* No document is stranded in SCANNING, for any number of documents and workers,
\* any enqueue outcome (lost or delivered and then raised), any scanner fault
\* and any number of cut-offs; the exceptions are a dead upload request and, where
\* exceptions that leave a task are modelled, one that has happened.
THEOREM ScanNeverStranded == ScanPipelineSpec => []NoStrandedScan
<1>1. ScanPipelineInit => NoStrandedScan
  BY DEF ScanPipelineInit, StoreInit, NoStrandedScan, NoRow
<1>2. ASSUME TypeInv, NoStrandedScan, [ScanPipelineNext]_scanPipelineVars
      PROVE  NoStrandedScan'
  <2>1. CASE UploadNext /\ UNCHANGED <<loop, scanVars>>
    BY <1>2, <2>1, UploadKeepsCarried
  <2>2. CASE ScanNext /\ UNCHANGED <<loop, uploadVars>>
    BY <1>2, <2>2, ScanKeepsCarried
  <2>3. CASE UNCHANGED scanPipelineVars
    BY <1>2, <2>3 DEF scanPipelineVars, storeVars, uploadVars, scanVars,
                      NoStrandedScan, Carried, ScanAttended, WorkerCarries
  <2>4. ASSUME NEW p \in Processes, ScanLoopBlocks(p) \/ LoopWakes(p),
               UNCHANGED <<uploadVars, scanVars>>
        PROVE  NoStrandedScan'
    BY <1>2, <2>4 DEF ScanLoopBlocks, LoopBlocks, LoopWakes, storeVars, uploadVars,
                      scanVars, NoStrandedScan, Carried, ScanAttended, WorkerCarries
  <2>5. QED
    BY <1>2, <2>1, <2>2, <2>3, <2>4 DEF ScanPipelineNext, ScanDone
<1>3. QED
  BY <1>1, <1>2, TypesInductive, PTL DEF ScanPipelineSpec
=============================================================================
