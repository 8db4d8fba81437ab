--------------------------- MODULE StoragePipeline ---------------------------
(***************************************************************************)
(* Promotion and parse workers over one document table: the second half of  *)
(* ingestion, from CLEAN_PENDING_PROMOTION on.  Its initial states are those*)
(* the scan can leave: every document passed, its file in quarantine, and   *)
(* between one and MaxDuplicates promotion jobs queued (two scan tasks that *)
(* both pass the document queue one each).                                  *)
(***************************************************************************)
EXTENDS CleanPromotion, DocumentParsing

CONSTANT MaxDuplicates   \* bound: promotion jobs queued for one document

ASSUME DuplicatesAssumption == MaxDuplicates \in Nat \ {0}

storageVars == <<storeVars, loop, promVars, parseVars>>

StorageInit ==
    /\ status = [d \in Docs |-> "CLEAN_PENDING_PROMOTION"]
    /\ scanAttempts = [d \in Docs |-> 1]
    /\ rowLock = [d \in Docs |-> NoOne]
    /\ cleanId = [d \in Docs |-> 0]
    /\ quarantineFile = [d \in Docs |-> TRUE]
    /\ scanJobs = [d \in Docs |-> 0]
    /\ promoteJobs \in [Docs -> 1..MaxDuplicates]
    /\ parseJobs = [d \in Docs |-> 0]
    /\ cutOffs = 0
    /\ loop = [p \in Processes |-> NoOne]
    /\ PromInit /\ ParseInit

StorageQuiet ==
    /\ \A d \in Docs : promoteJobs[d] = 0 /\ parseJobs[d] = 0
    /\ \A w \in Workers : ~PromBusy(w) /\ ~ParseBusy(w)

\* Promotion tasks whose next step, on the event loop, closes their session.
PromClosing == {Promoter(w) : w \in {v \in Workers : promPc[v] = "closing"}}

StorageDone == (StorageQuiet \/ Hung(PromClosing)) /\ UNCHANGED storageVars

StorageLoopBlocks(p) ==
    \E d \in Docs : (PromWaits(p, d) \/ ParseWaits(p, d)) /\ LoopBlocks(p, d)

StorageNext ==
    \/ PromNext /\ UNCHANGED <<loop, parseVars>>
    \/ ParseNext /\ UNCHANGED <<loop, promVars>>
    \/ (\E p \in Processes : StorageLoopBlocks(p) \/ LoopWakes(p))
       /\ UNCHANGED <<promVars, parseVars>>
    \/ StorageDone

StorageSpec == StorageInit /\ [][StorageNext]_storageVars

-----------------------------------------------------------------------------
\* Every variable of the table and of the two kinds of worker has its type.
StorageTypeOK == StoreTypeOK /\ PromTypeOK /\ ParseTypeOK

ParseableStatus == {"CLEAN", "PARSING", "PARSE_FAILED", "COMPLETED"}

\* The bytes of an accepted document are never lost: until the row points at a
\* complete file in clean storage, the quarantine source is there, whatever
\* is cut off or runs twice between copy, commit and unlink.
BytesPreserved ==
    \A d \in Docs : status[d] # NoRow =>
        quarantineFile[d] \/ cleanId[d] \in cleanFiles[d]

\* A document that may be parsed points at a complete clean file, never at a
\* partial copy or at a name that does not exist.
CleanHasFile ==
    \A d \in Docs : status[d] \in ParseableStatus => cleanId[d] \in cleanFiles[d]

\* A document in PROMOTION_FAILED still has its quarantine source, so the
\* promotion can be tried again.
FailedKeepsSource ==
    \A d \in Docs : status[d] = "PROMOTION_FAILED" => quarantineFile[d]

\* A quarantine file left behind by a promoted document is marked for cleanup,
\* is about to be unlinked, or was left by a promotion that was cut off.
LeftoverMarked ==
    \A d \in Docs : status[d] \in ParseableStatus /\ quarantineFile[d] =>
        \/ cleanupPending[d]
        \/ cutOffs > 0
        \/ \E w \in Workers : promDoc[w] = d /\ promPc[w] \in {"enqueueParse", "unlink"}

\* The parse cap is checked under the lock, so unlike the scan cap it holds
\* with cut-offs, duplicated jobs and stale promotions.
ParseAttemptsCapped == \A d \in Docs : parseAttempts[d] <= PARSE_MAX_ATTEMPTS

\* A COMPLETED document's pages are those of its latest attempt and of the
\* clean file the row names: no slower earlier attempt overwrites them.
CompletedPagesCurrent ==
    \A d \in Docs : status[d] = "COMPLETED" =>
        pages[d] = [attempt |-> parseAttempts[d], cleanId |-> cleanId[d]]

\* An attempt that still holds the token sees the clean file it was started
\* with: the drift check of persist_parse_results never finds a difference.
SnapshotNeverDrifts ==
    \A w \in Workers :
        ParseBusy(w) /\ AttemptCurrent(w) => snapshot[w].cleanId = cleanId[parseDoc[w]]
=============================================================================
