---------------------------- MODULE ScanPipeline ----------------------------
(***************************************************************************)
(* Upload requests and scan workers together, over one document table and   *)
(* one scan queue: the first half of ingestion, up to the moment a passed   *)
(* document's promotion is queued.                                          *)
(***************************************************************************)
EXTENDS UploadIntake, MalwareScan

scanPipelineVars == <<storeVars, loop, uploadVars, scanVars>>

ScanPipelineInit == StoreInit /\ UploadInit /\ ScanInit

\* Every request and every job has ended: nothing is left to run.
ScanQuiescent ==
    /\ \A d \in Docs : UploadOver(d) /\ scanJobs[d] = 0
    /\ \A w \in Workers : ~ScanBusy(w)

\* Scan tasks whose next step, on the event loop, closes their session.
ScanClosing == {Scanner(w) : w \in {v \in Workers : scanPc[v] \in {"after", "closing"}}}
ScanHung == Hung(ScanClosing)

\* The project may stay as it is once nothing is in flight, or nothing can go on.
ScanDone == (ScanQuiescent \/ ScanHung) /\ UNCHANGED scanPipelineVars

ScanLoopBlocks(p) == \E d \in Docs : ScanWaits(p, d) /\ LoopBlocks(p, d)

ScanPipelineNext ==
    \/ UploadNext /\ UNCHANGED <<loop, scanVars>>
    \/ ScanNext /\ UNCHANGED <<loop, uploadVars>>
    \/ (\E p \in Processes : ScanLoopBlocks(p) \/ LoopWakes(p))
       /\ UNCHANGED <<uploadVars, scanVars>>
    \/ ScanDone

\* A request that has begun keeps running, a queued job is picked by a free
\* slot, a running job keeps running, a loop whose row is free goes on.  New uploads
\* and cut-offs are not fair.
ScanPipelineFairness ==
    /\ \A d \in Docs :
        /\ WF_scanPipelineVars(UploadAdvance(d) /\ UNCHANGED <<loop, scanVars>>)
        /\ WF_scanPipelineVars(\E w \in Workers : ScanDocumentTask(w, d)
                                                  /\ UNCHANGED <<loop, uploadVars>>)
    /\ \A w \in Workers :
        WF_scanPipelineVars(ScanAdvance(w) /\ UNCHANGED <<loop, uploadVars>>)
    /\ \A p \in Processes :
        WF_scanPipelineVars(LoopWakes(p) /\ UNCHANGED <<uploadVars, scanVars>>)

ScanPipelineSpec == ScanPipelineInit /\ [][ScanPipelineNext]_scanPipelineVars

FairScanPipelineSpec == ScanPipelineSpec /\ ScanPipelineFairness

-----------------------------------------------------------------------------
\* Each variable of the table, the queue, the requests and the workers holds a
\* value of its column's or its program counter's type.
ScanPipelineTypeOK == StoreTypeOK /\ UploadTypeOK /\ ScanTypeOK

\* A worker that will write a verdict on d, or is about to start scanning it:
\* after the load only one whose loaded status is SCANNING can move the row.
WorkerCarries(w, d) ==
    /\ scanDoc[w] = d
    /\ \/ scanPc[w] \in {"armed", "started"}
       \/ scanPc[w] = "scanning" /\ seen[w].status = "SCANNING"

\* Somebody will move d out of SCANNING: a queued job, the request that still has
\* to enqueue one or to record that it could not, or a worker.
ScanAttended(d) ==
    \/ scanJobs[d] > 0
    \/ upload[d] \in {"enqueue", "recover", "recovering"}
    \/ \E w \in Workers : WorkerCarries(w, d)

\* Somebody will, or the request that should have died, or some task that should
\* have ended in an exception nobody caught.
Carried(d) ==
    \/ ScanAttended(d)
    \/ upload[d] = "dead"
    \/ "error" \in CutOffKinds /\ cutOffs > 0

\* A document in SCANNING is never stranded: a queued job, the request that
\* still has to enqueue one (or to record that it could not), or a worker is
\* responsible for moving it on.  The exceptions are a request that died, whose
\* document is left SCANNING with no job (RUNBOOK 5.1, known limitation), and, where
\* exceptions are modelled, one that left a task unhandled.  Holds whatever the
\* enqueues do, with duplicated jobs and workers that die.
NoStrandedScan ==
    \A d \in Docs : status[d] = "SCANNING" => Carried(d)

\* Only a file that scanner and content policy pass reaches a status past the
\* scan, even when late verdicts overwrite each other.
TrustedOnlyIfBenign ==
    \A d \in Docs : status[d] \in TrustedStatus => Content[d] = "benign"

\* One flight per document: the upload request, a queued job and a running
\* task never coexist, and no two tasks run on one document.
SingleFlight ==
    \A d \in Docs :
        /\ scanJobs[d] \in {0, 1}
        /\ scanJobs[d] = 1 => UploadOver(d) /\ \A w \in Workers : scanDoc[w] # d
        /\ ~UploadOver(d) => \A w \in Workers : scanDoc[w] # d
        /\ \A v, w \in Workers : scanDoc[v] = d /\ scanDoc[w] = d => v = w

\* A project has at most one RFP document that is not terminally rejected.
OneActiveRfp == \A d, e \in Docs : ActiveRfp(d) /\ ActiveRfp(e) => d = e

\* The count of scan attempts exceeds the configured maximum only by cut-offs:
\* each task that dies after its attempt was counted can add one.
AttemptsBounded == \A d \in Docs : scanAttempts[d] <= SCAN_MAX_ATTEMPTS + cutOffs

\* Upload and scan implement the promised lifecycle: rows are created one RFP
\* at a time and every status change is an edge of the transition table.
Lifecycle == INSTANCE IngestionLifecycle WITH
    Docs <- Docs, Rfps <- Rfps, status <- status
LifecycleImplemented == Lifecycle!LifecycleSpec

\* Retries are bounded: in the end nothing is queued and nothing runs, unless the
\* event loop of a worker process hangs.  With NoStrandedScan, a document whose
\* request survives leaves SCANNING.
EventuallyQuiet ==
    \/ <>[](\A d \in Docs : scanJobs[d] = 0 /\ \A w \in Workers : ~ScanBusy(w))
    \/ <>[]ScanHung

\* A worker's event loop is never stopped for good by a scan (run_scan is moved to a
\* thread "to avoid blocking the arq event loop", worker.py:49-52).  It can be: the
\* idempotency guard leaves the row locked until the task is back on the loop, and a
\* second job of the document asks for that row on the loop.
LoopRunsOn == \A p \in Processes : []<>(loop[p] = NoOne)
=============================================================================
