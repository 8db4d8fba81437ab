--------------------------- MODULE CleanPromotion ---------------------------
(***************************************************************************)
(* worker.promote_document_task with services/clean_storage_promotion.py:   *)
(* the crash-safe move of a passed file from quarantine to clean storage.   *)
(*                                                                          *)
(* The row is locked, set PROMOTING and committed, then re-read without a   *)
(* lock; the later `with_for_update()` queries lock the row but return the  *)
(* session's cached object, so their status checks see what that unlocked   *)
(* re-read saw.  When the row is already PROMOTING (a redelivered job)      *)
(* transition() is a no-op that does not commit: the lock is then held      *)
(* through the whole copy.                                                  *)
(*                                                                          *)
(* promote_document runs in a thread.  Where it raises with the row locked  *)
(* the lock stays until the task, back on the event loop, closes its        *)
(* session.                                                                 *)
(***************************************************************************)
EXTENDS DocumentStore

CONSTANT PromotionFaults   \* subset of {"copy", "unlink"} that may happen

ASSUME PromotionAssumption == PromotionFaults \subseteq {"copy", "unlink"}

VARIABLES
    promPc,          \* promPc[w]: where job slot w is in promote_document
    promDoc,         \* its document, NoOne while idle
    promSeen,        \* the status and clean identifier of its loaded object
    promId,          \* the clean identifier this attempt writes to
    nextId,          \* identifiers drawn so far (uuid4: never drawn twice)
    partialFiles,    \* <identifier>.partial files in clean storage
    cleanFiles,      \* complete files in clean storage
    cleanupPending   \* Document.cleanup_pending

promVars == <<promPc, promDoc, promSeen, promId, nextId, partialFiles,
              cleanFiles, cleanupPending>>

PromStep == {"idle", "promoting", "copy", "copying", "copied", "failing",
             "enqueueParse", "unlink", "closing"}

PromTypeOK ==
    /\ promPc \in [Workers -> PromStep]
    /\ promDoc \in [Workers -> Docs \cup {NoOne}]
    /\ promSeen \in [Workers -> [status : IngestionStatus \cup {NoRow}, cleanId : Nat]]
    /\ promId \in [Workers -> Nat]
    /\ nextId \in [Docs -> Nat]
    /\ partialFiles \in [Docs -> SUBSET Nat]
    /\ cleanFiles \in [Docs -> SUBSET Nat]
    /\ cleanupPending \in [Docs -> BOOLEAN]

NotLoaded == [status |-> NoRow, cleanId |-> 0]

PromInit ==
    /\ promPc = [w \in Workers |-> "idle"]
    /\ promDoc = [w \in Workers |-> NoOne]
    /\ promSeen = [w \in Workers |-> NotLoaded]
    /\ promId = [w \in Workers |-> 0]
    /\ nextId = [d \in Docs |-> 0]
    /\ partialFiles = [d \in Docs |-> {}]
    /\ cleanFiles = [d \in Docs |-> {}]
    /\ cleanupPending = [d \in Docs |-> FALSE]

PromAt(w, step) == promPc[w] = step
PromGoTo(w, step) == promPc' = [promPc EXCEPT ![w] = step]
PromBusy(w) == promPc[w] # "idle"

\* The transaction of w may lock or update the row.
MayLock(w, d) == rowLock[d] \in {NoOne, Promoter(w)}
Lock(w, d) == rowLock' = [rowLock EXCEPT ![d] = Promoter(w)]
Unlock(d) == rowLock' = [rowLock EXCEPT ![d] = NoOne]

\* The task ends, its session is closed and its lock is gone.
PromEnd(w) ==
    /\ PromGoTo(w, "idle")
    /\ promDoc' = [promDoc EXCEPT ![w] = NoOne]
    /\ promSeen' = [promSeen EXCEPT ![w] = NotLoaded]
    /\ promId' = [promId EXCEPT ![w] = 0]

-----------------------------------------------------------------------------
Promotable == {"CLEAN_PENDING_PROMOTION", "PROMOTING", "PROMOTION_FAILED"}

\* The loaded object, and the identifier the copy will use: the row's own, or
\* a fresh one (so a redelivered attempt never resumes an earlier copy).
LoadForCopy(w, d, s) ==
    /\ promSeen' = [promSeen EXCEPT ![w] = [status |-> s, cleanId |-> cleanId[d]]]
    /\ IF cleanId[d] # 0
       THEN /\ promId' = [promId EXCEPT ![w] = cleanId[d]]
            /\ UNCHANGED nextId
       ELSE /\ promId' = [promId EXCEPT ![w] = nextId[d] + 1]
            /\ nextId' = [nextId EXCEPT ![d] = @ + 1]
    /\ PromGoTo(w, "copy")

\* promote_document refuses any other status: IngestionStateError, with the row
\* still locked.
PromoteRefused(w, d) ==
    /\ status[d] \notin Promotable
    /\ Lock(w, d)
    /\ promDoc' = [promDoc EXCEPT ![w] = d]
    /\ PromGoTo(w, "closing")
    /\ UNCHANGED <<status, promSeen, promId, nextId>>

\* Mutant: a redelivered job promotes a document that is CLEAN already.
PromoteBeginsAgain(w, d) ==
    /\ status[d] \in {"CLEAN_PENDING_PROMOTION", "PROMOTION_FAILED", "CLEAN"}
    /\ SetStatus(d, "PROMOTING")
    /\ promDoc' = [promDoc EXCEPT ![w] = d]
    /\ PromGoTo(w, "promoting")
    /\ UNCHANGED <<rowLock, promSeen, promId, nextId>>

PromoteBegins(w, d) ==
    /\ status[d] \in {"CLEAN_PENDING_PROMOTION", "PROMOTION_FAILED"}
    /\ SetStatus(d, "PROMOTING")
    /\ promDoc' = [promDoc EXCEPT ![w] = d]
    /\ PromGoTo(w, "promoting")
    /\ UNCHANGED <<rowLock, promSeen, promId, nextId>>

PromoteResumes(w, d) ==
    /\ status[d] = "PROMOTING"
    /\ Lock(w, d)
    /\ promDoc' = [promDoc EXCEPT ![w] = d]
    /\ LoadForCopy(w, d, status[d])
    /\ UNCHANGED status

PromoteDocumentTask(w, d) ==
    /\ PromAt(w, "idle") /\ promoteJobs[d] > 0 /\ RowFree(d) /\ LoopFree(w)
    /\ promoteJobs' = TakeFrom(promoteJobs, d)
    /\ PromoteRefused(w, d) \/ PromoteBegins(w, d) \/ PromoteResumes(w, d)
    /\ UNCHANGED <<scanAttempts, quarantineFile, scanJobs, parseJobs, cutOffs,
                   cleanId, partialFiles, cleanFiles, cleanupPending>>

\* The start of a promotion of d is waiting for its row on the loop of p.
PromWaits(p, d) ==
    \E w \in Workers : ProcessOf[w] = p /\ PromAt(w, "idle") /\ promoteJobs[d] > 0

\* doc.clean_storage_identifier is read after the commit: an unlocked reload.
PromReload(w) ==
    /\ PromAt(w, "promoting")
    /\ LoadForCopy(w, promDoc[w], status[promDoc[w]])
    /\ UNCHANGED <<storeVars, promDoc, partialFiles, cleanFiles,
                   cleanupPending>>

\* A loaded file_path that already names a clean file resolves to no
\* quarantine path; a source that is gone cannot be opened.
SourceReadable(w) == promSeen[w].cleanId = 0 /\ quarantineFile[promDoc[w]]

\* _perform_staged_copy: open the source, create <identifier>.partial ...
CopyStarts(w) ==
    LET d == promDoc[w] IN
    /\ PromAt(w, "copy") /\ SourceReadable(w)
    /\ partialFiles' = [partialFiles EXCEPT ![d] = @ \cup {promId[w]}]
    /\ PromGoTo(w, "copying")
    /\ UNCHANGED <<storeVars, promDoc, promSeen, promId, nextId,
                   cleanFiles, cleanupPending>>

\* Mutant: the file is moved out of quarantine instead of copied.
CopyFinishesMoving(w) ==
    LET d == promDoc[w] IN
    /\ PromAt(w, "copying")
    /\ partialFiles' = [partialFiles EXCEPT ![d] = @ \ {promId[w]}]
    /\ cleanFiles' = [cleanFiles EXCEPT ![d] = @ \cup {promId[w]}]
    /\ quarantineFile' = [quarantineFile EXCEPT ![d] = FALSE]
    /\ PromGoTo(w, "copied")
    /\ UNCHANGED <<status, scanAttempts, rowLock, cleanId, scanJobs, promoteJobs,
                   parseJobs, cutOffs, promDoc, promSeen, promId, nextId,
                   cleanupPending>>

\* ... digest, size and fsync are fine: rename it to its final name.
CopyFinishes(w) ==
    LET d == promDoc[w] IN
    /\ PromAt(w, "copying")
    /\ partialFiles' = [partialFiles EXCEPT ![d] = @ \ {promId[w]}]
    /\ cleanFiles' = [cleanFiles EXCEPT ![d] = @ \cup {promId[w]}]
    /\ PromGoTo(w, "copied")
    /\ UNCHANGED <<storeVars, promDoc, promSeen, promId, nextId,
                   cleanupPending>>

\* Any failure of the copy: remove the partial file.
CopyFails(w) ==
    /\ \/ PromAt(w, "copy") /\ ("copy" \in PromotionFaults \/ ~SourceReadable(w))
       \/ PromAt(w, "copying") /\ "copy" \in PromotionFaults
    /\ partialFiles' = [partialFiles EXCEPT ![promDoc[w]] = @ \ {promId[w]}]
    /\ PromGoTo(w, "failing")
    /\ UNCHANGED <<storeVars, promDoc, promSeen, promId, nextId,
                   cleanFiles, cleanupPending>>

\* Mutant: the failure path deletes the quarantine source with the copy.
RecordFailureDeletes(w) ==
    LET d == promDoc[w] IN
    /\ PromAt(w, "failing") /\ MayLock(w, d)
    /\ promSeen[w].status = "PROMOTING"
    /\ SetStatus(d, "PROMOTION_FAILED")
    /\ quarantineFile' = [quarantineFile EXCEPT ![d] = FALSE]
    /\ Unlock(d)
    /\ PromEnd(w)
    /\ UNCHANGED <<scanAttempts, scanJobs, promoteJobs, parseJobs, cutOffs, cleanId,
                   nextId, partialFiles, cleanFiles, cleanupPending>>

\* Lock the row; the cached status decides whether PROMOTION_FAILED is written.
RecordFailure(w) ==
    LET d == promDoc[w] IN
    /\ PromAt(w, "failing") /\ MayLock(w, d)
    /\ promSeen[w].status = "PROMOTING"
    /\ SetStatus(d, "PROMOTION_FAILED")
    /\ Unlock(d)
    /\ PromEnd(w)
    /\ UNCHANGED <<scanAttempts, quarantineFile, scanJobs, promoteJobs, parseJobs,
                   cutOffs, cleanId, nextId, partialFiles, cleanFiles,
                   cleanupPending>>

\* Mutant: the row is committed before the partial file is renamed.
PromoteCommitsEarly(w) ==
    LET d == promDoc[w] IN
    /\ PromAt(w, "copying") /\ MayLock(w, d)
    /\ promSeen[w].status = "PROMOTING"
    /\ SetStatus(d, "CLEAN")
    /\ cleanId' = [cleanId EXCEPT ![d] = promId[w]]
    /\ Unlock(d)
    /\ PromGoTo(w, "enqueueParse")
    /\ UNCHANGED <<scanAttempts, quarantineFile, scanJobs, promoteJobs, parseJobs,
                   cutOffs, promDoc, promSeen, promId, nextId, partialFiles,
                   cleanFiles, cleanupPending>>

\* Lock the row; if the cached status is PROMOTING, point it at the clean file.
PromoteCommits(w) ==
    LET d == promDoc[w] IN
    /\ PromAt(w, "copied") /\ MayLock(w, d)
    /\ promSeen[w].status = "PROMOTING"
    /\ SetStatus(d, "CLEAN")
    /\ cleanId' = [cleanId EXCEPT ![d] = promId[w]]
    /\ Unlock(d)
    /\ PromGoTo(w, "enqueueParse")
    /\ UNCHANGED <<scanAttempts, quarantineFile, scanJobs, promoteJobs, parseJobs,
                   cutOffs, promDoc, promSeen, promId, nextId, partialFiles,
                   cleanFiles, cleanupPending>>

\* "Document state changed during promotion", or before its failure could be
\* recorded: promote_document raises with the row locked and nothing written.
PromoteAborts(w) ==
    LET d == promDoc[w] IN
    /\ promPc[w] \in {"copied", "failing"} /\ MayLock(w, d)
    /\ promSeen[w].status # "PROMOTING"
    /\ Lock(w, d)
    /\ PromGoTo(w, "closing")
    /\ UNCHANGED <<status, scanAttempts, quarantineFile, scanJobs, promoteJobs,
                   parseJobs, cutOffs, cleanId, promDoc, promSeen, promId, nextId,
                   partialFiles, cleanFiles, cleanupPending>>

\* promote_document_task after promote_document raised: close the session.
PromClose(w) ==
    /\ PromAt(w, "closing") /\ LoopFree(w)
    /\ rowLock' = Released(Promoter(w), promDoc[w])
    /\ PromEnd(w)
    /\ UNCHANGED <<status, scanAttempts, quarantineFile, scanJobs, promoteJobs,
                   parseJobs, cutOffs, cleanId, nextId, partialFiles, cleanFiles,
                   cleanupPending>>

\* enqueue_parse_job: a failed enqueue writes an audit event and nothing else.
EnqueueParseJob(w) ==
    \E outcome \in EnqueueOutcomes :
        /\ PromAt(w, "enqueueParse")
        /\ parseJobs' = EnqueueTo(parseJobs, promDoc[w], outcome)
        /\ PromGoTo(w, "unlink")
        /\ UNCHANGED <<status, scanAttempts, rowLock, quarantineFile, scanJobs,
                       promoteJobs, cutOffs, promDoc, promSeen, promId, cleanId,
                       nextId, partialFiles, cleanFiles, cleanupPending>>

\* The quarantine source is deleted ...
UnlinkSource(w) ==
    /\ PromAt(w, "unlink") /\ quarantineFile[promDoc[w]]
    /\ quarantineFile' = [quarantineFile EXCEPT ![promDoc[w]] = FALSE]
    /\ PromEnd(w)
    /\ UNCHANGED <<status, scanAttempts, rowLock, scanJobs, promoteJobs, parseJobs,
                   cutOffs, cleanId, nextId, partialFiles, cleanFiles,
                   cleanupPending>>

\* Mutant: a failed unlink is logged but not marked.
UnlinkFailsUnmarked(w) ==
    LET d == promDoc[w] IN
    /\ PromAt(w, "unlink") /\ MayLock(w, d)
    /\ "unlink" \in PromotionFaults \/ ~quarantineFile[d]
    /\ PromEnd(w)
    /\ UNCHANGED <<storeVars, nextId, partialFiles, cleanFiles, cleanupPending>>

\* ... or could not be (or was gone already): the row is marked.
UnlinkFails(w) ==
    LET d == promDoc[w] IN
    /\ PromAt(w, "unlink") /\ MayLock(w, d)
    /\ "unlink" \in PromotionFaults \/ ~quarantineFile[d]
    /\ cleanupPending' = [cleanupPending EXCEPT ![d] = TRUE]
    /\ PromEnd(w)
    /\ UNCHANGED <<storeVars, nextId, partialFiles, cleanFiles>>

\* An exception outside the try block (the clean root cannot be created, the clean
\* path is not below it, a database error): nothing is recorded, what was copied
\* stays, the session is closed and the job is not delivered again.
PromEscapes(w) ==
    /\ "error" \in CutOffKinds
    /\ PromBusy(w) /\ ~PromAt(w, "closing") /\ CutOff
    /\ MayKeep(Promoter(w), promDoc[w])
    /\ PromGoTo(w, "closing")
    /\ UNCHANGED <<status, scanAttempts, quarantineFile, scanJobs, promoteJobs,
                   parseJobs, cleanId, promDoc, promSeen, promId, nextId,
                   partialFiles, cleanFiles, cleanupPending>>

\* The worker dies: the lock is released, files stay, the job comes again.
PromoteCutOff(w) ==
    LET d == promDoc[w] IN
    /\ "death" \in CutOffKinds
    /\ PromBusy(w) /\ CutOff
    /\ promoteJobs' = Redeliver(promoteJobs, d)
    /\ rowLock' = Released(Promoter(w), d)
    /\ PromEnd(w)
    /\ UNCHANGED <<status, scanAttempts, quarantineFile, scanJobs, parseJobs,
                   cleanId, nextId, partialFiles, cleanFiles, cleanupPending>>

PromAdvance(w) ==
    \/ PromReload(w) \/ CopyStarts(w) \/ CopyFinishes(w) \/ CopyFails(w)
    \/ RecordFailure(w) \/ PromoteCommits(w) \/ PromoteAborts(w) \/ PromClose(w)
    \/ EnqueueParseJob(w) \/ UnlinkSource(w) \/ UnlinkFails(w)

PromNext ==
    \E w \in Workers :
        \/ \E d \in Docs : PromoteDocumentTask(w, d)
        \/ PromAdvance(w)
        \/ PromEscapes(w)
        \/ PromoteCutOff(w)
=============================================================================
