-------------------------- MODULE IngestionPipeline --------------------------
(***************************************************************************)
(* The whole ingestion pipeline over one document table: upload requests,   *)
(* scan, promotion and parse workers, interleaved at their commits, unlocked*)
(* reads and file operations.                                               *)
(***************************************************************************)
EXTENDS ScanPipeline, StoragePipeline

laterVars == <<promVars, parseVars>>
pipelineVars == <<scanPipelineVars, laterVars>>

PipelineInit == ScanPipelineInit /\ PromInit /\ ParseInit

Quiescent ==
    /\ ScanQuiescent
    /\ \A d \in Docs : promoteJobs[d] = 0 /\ parseJobs[d] = 0
    /\ \A w \in Workers : ~PromBusy(w) /\ ~ParseBusy(w)

PipelineHung == Hung(ScanClosing \cup PromClosing)
PipelineDone == (Quiescent \/ PipelineHung) /\ UNCHANGED pipelineVars

UploadActs == UploadNext /\ UNCHANGED <<loop, scanVars, laterVars>>
ScanActs == ScanNext /\ UNCHANGED <<loop, uploadVars, laterVars>>
PromActs == PromNext /\ UNCHANGED <<loop, uploadVars, scanVars, parseVars>>
ParseActs == ParseNext /\ UNCHANGED <<loop, uploadVars, scanVars, promVars>>

\* The scan, promotion and parse slots of a process share its event loop.
PipelineBlocks(p) == ScanLoopBlocks(p) \/ StorageLoopBlocks(p)
LoopActs ==
    /\ \E p \in Processes : PipelineBlocks(p) \/ LoopWakes(p)
    /\ UNCHANGED <<uploadVars, scanVars, laterVars>>

PipelineNext ==
    UploadActs \/ ScanActs \/ PromActs \/ ParseActs \/ LoopActs \/ PipelineDone

\* As in ScanPipeline: begun requests and running jobs go on, queued jobs are
\* picked up; new uploads and cut-offs are not required to happen.
PipelineFairness ==
    /\ \A d \in Docs :
        /\ WF_pipelineVars(UploadAdvance(d) /\ UploadActs)
        /\ WF_pipelineVars((\E w \in Workers : ScanDocumentTask(w, d)) /\ ScanActs)
        /\ WF_pipelineVars((\E w \in Workers : PromoteDocumentTask(w, d)) /\ PromActs)
        /\ WF_pipelineVars((\E w \in Workers : PrepareParseAttempt(w, d)) /\ ParseActs)
    /\ \A w \in Workers :
        /\ WF_pipelineVars(ScanAdvance(w) /\ ScanActs)
        /\ WF_pipelineVars(PromAdvance(w) /\ PromActs)
        /\ WF_pipelineVars(ParseAdvance(w) /\ ParseActs)
    /\ \A p \in Processes : WF_pipelineVars(LoopWakes(p) /\ LoopActs)

PipelineSpec == PipelineInit /\ [][PipelineNext]_pipelineVars

FairPipelineSpec == PipelineSpec /\ PipelineFairness

-----------------------------------------------------------------------------
\* Every variable of the table, the queues, the requests and the workers has
\* its type.
PipelineTypeOK == ScanPipelineTypeOK /\ PromTypeOK /\ ParseTypeOK

\* Unless a task or a request is cut off, every document ends in a status that waits for
\* nobody: rejected, completed, failed for an operator to see, or CLEAN, where a
\* parse job the queue lost leaves it for the reprocess route.
SettledStatus ==
    {"REJECTED_TYPE", "REJECTED_MALWARE", "REJECTED_CONTENT_POLICY", "SCAN_FAILED",
     "PROMOTION_FAILED", "CLEAN", "PARSE_FAILED", "COMPLETED"}
EventuallySettled ==
    \A d \in Docs :
        <>(cutOffs > 0) \/ <>[](status[d] \in SettledStatus \cup {NoRow})

\* A task that will move d on from the status it has: one whose own reads do not
\* keep it from writing.
PassCarries(w, d) ==
    scanDoc[w] = d /\ scanPc[w] \in {"enqueuePromotion", "recoverPromotion", "setPromoting"}
RecoveryCarries(w, d) ==
    /\ scanDoc[w] = d
    /\ \/ scanPc[w] = "reloadPromoting"
       \/ scanPc[w] = "setFailed" /\ peek[w] = "PROMOTING"
PromotionCarries(w, d) ==
    /\ promDoc[w] = d
    /\ \/ promPc[w] = "promoting"
       \/ /\ promPc[w] \in {"copy", "copying", "copied", "failing"}
          /\ promSeen[w].status = "PROMOTING"
ParseCarries(w, d) ==
    /\ parseDoc[w] = d
    /\ parsePc[w] \in {"calling", "responded", "failing", "failingTransient"}
    /\ parseAttempts[d] = snapshot[w].attempt

\* Such a task is running, or the job that starts one is queued (a parse job finds
\* PARSING and is refused).
PassAttended(d) == promoteJobs[d] > 0 \/ \E w \in Workers : PassCarries(w, d)
PromotionAttended(d) ==
    promoteJobs[d] > 0 \/ \E w \in Workers : RecoveryCarries(w, d) \/ PromotionCarries(w, d)
ParseAttended(d) == \E w \in Workers : ParseCarries(w, d)

\* Nobody will: the document keeps a status that says somebody is at work on it.
IntakeForgot(d) ==
    \/ status[d] = "QUARANTINED" /\ upload[d] # "quarantined"
    \/ status[d] = "VALIDATING" /\ upload[d] # "validating"
ScanForgot(d) == status[d] = "SCANNING" /\ ~ScanAttended(d)
PassForgot(d) == status[d] = "CLEAN_PENDING_PROMOTION" /\ ~PassAttended(d)
PromotionForgot(d) == status[d] = "PROMOTING" /\ ~PromotionAttended(d)
ParseForgot(d) == status[d] = "PARSING" /\ ~ParseAttended(d)
Forgotten(d) ==
    \/ IntakeForgot(d) \/ ScanForgot(d) \/ PassForgot(d)
    \/ PromotionForgot(d) \/ ParseForgot(d)

Stranded == {d \in Docs : Forgotten(d)}

\* Only a task or a request that is cut off leaves a document behind in a status nobody
\* will change, and each leaves no more than the one it was working on (a process that
\* dies with four tasks may leave four): not a lost or a late enqueue, a recovery that
\* read the row before somebody else wrote it, a promotion or a parse overtaken by
\* another one, or a job that finds nothing to do.
CutOffStrandsOne == Cardinality(Stranded) <= cutOffs
=============================================================================
