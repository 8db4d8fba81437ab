---------------------------- MODULE StorageProofs ----------------------------
(***************************************************************************)
(* Proofs about StoragePipeline, for any documents, workers, duplicated     *)
(* promotion jobs, enqueue outcomes, faults, caps and number of cut-offs.   *)
(***************************************************************************)
EXTENDS StoragePipeline, TLAPS

\* A job slot has a document exactly while it runs a task.
StorageBusy ==
    \A w \in Workers :
        /\ promDoc[w] = NoOne <=> promPc[w] = "idle"
        /\ parseDoc[w] = NoOne <=> parsePc[w] = "idle"

StorageTypes == StorageTypeOK /\ StorageBusy

\* What loading the row for the copy leaves in w's variables.
Loaded(w) ==
    /\ promSeen' \in [Workers -> [status : IngestionStatus \cup {NoRow}, cleanId : Nat]]
    /\ promId' \in [Workers -> Nat]
    /\ nextId' \in [Docs -> Nat]
    /\ promPc' = [promPc EXCEPT ![w] = "copy"]

\* Loading the row for the copy gives the loaded object and the identifier
\* their types, whether the identifier is the row's own or a fresh one.
LEMMA LoadForCopyTypes ==
    ASSUME StorageTypes, NEW w \in Workers, NEW d \in Docs,
           NEW s \in IngestionStatus \cup {NoRow}, LoadForCopy(w, d, s)
    PROVE  Loaded(w)
<1> USE DEF StorageTypes, StorageTypeOK, StoreTypeOK, PromTypeOK
<1>1. cleanId[d] \in Nat /\ nextId[d] + 1 \in Nat
  OBVIOUS
<1>2. [status |-> s, cleanId |-> cleanId[d]]
          \in [status : IngestionStatus \cup {NoRow}, cleanId : Nat]
  BY <1>1
<1>3. promSeen' \in [Workers -> [status : IngestionStatus \cup {NoRow}, cleanId : Nat]]
  BY <1>2 DEF LoadForCopy
<1>4. promId' \in [Workers -> Nat] /\ nextId' \in [Docs -> Nat]
  BY <1>1 DEF LoadForCopy
<1>5. QED
  BY <1>3, <1>4 DEF LoadForCopy, PromGoTo, Loaded

\* The locks keep their type when a promotion locks a row, closes its session, or an
\* error comes before that.
LEMMA PromoterTypes ==
    ASSUME rowLock \in [Docs -> Holders \cup {NoOne}], NEW w \in Workers, NEW d \in Docs
    PROVE  /\ Lock(w, d) => rowLock' \in [Docs -> Holders \cup {NoOne}]
           /\ Released(Promoter(w), d) \in [Docs -> Holders \cup {NoOne}]
           /\ MayKeep(Promoter(w), d) => rowLock' \in [Docs -> Holders \cup {NoOne}]
<1>1. Promoter(w) \in Holders
  BY DEF Promoter, Holders
<1>2. QED
  BY <1>1 DEF Lock, Released, MayKeep

\* A promotion step keeps every variable in its type.
LEMMA PromKeepsTypes ==
    ASSUME StorageTypes, PromNext, UNCHANGED <<loop, parseVars>>
    PROVE  StorageTypes'
<1>0. ASSUME NEW w \in Workers, NEW d \in Docs,
             NEW s \in IngestionStatus \cup {NoRow}, LoadForCopy(w, d, s)
      PROVE  Loaded(w)
  BY <1>0, LoadForCopyTypes
<1> USE StoreAssumption
        DEF StorageTypes, StorageBusy, StorageTypeOK, StoreTypeOK, PromTypeOK,
            ParseTypeOK, storeVars, parseVars, PromStep, PromAt, PromGoTo,
            PromEnd, SetStatus, Unlock
<1>1. PICK w \in Workers : \/ \E d \in Docs : PromoteDocumentTask(w, d)
                           \/ PromAdvance(w)
                           \/ PromEscapes(w)
                           \/ PromoteCutOff(w)
  BY DEF PromNext
<1>2. ASSUME NEW d \in Docs, PromoteDocumentTask(w, d)
      PROVE  StorageTypes'
  <2> USE <1>2 DEF PromoteDocumentTask, TakeFrom
  <2>1. CASE PromoteRefused(w, d)
    <3>1. rowLock' \in [Docs -> Holders \cup {NoOne}]
      BY <2>1, PromoterTypes DEF PromoteRefused
    <3>2. StoreTypeOK'
      <4>1. promoteJobs' \in [Docs -> Nat]
        OBVIOUS
      <4>2. UNCHANGED <<status, scanAttempts, cleanId, quarantineFile, scanJobs, parseJobs,
                        cutOffs, loop>>
        BY <2>1 DEF PromoteRefused
      <4>3. QED
        BY <3>1, <4>1, <4>2
    <3>3. PromTypeOK'
      BY <2>1 DEF PromoteRefused
    <3>4. StorageBusy' /\ ParseTypeOK'
      BY <2>1 DEF PromoteRefused
    <3>5. QED
      BY <3>2, <3>3, <3>4
  <2>2. CASE PromoteBegins(w, d)
    BY <2>2 DEF PromoteBegins, IngestionStatus
  <2>3. CASE PromoteResumes(w, d)
    <3>1. /\ status[d] \in IngestionStatus \cup {NoRow}
          /\ LoadForCopy(w, d, status[d])
      BY <2>3 DEF PromoteResumes
    <3>2. Loaded(w)
      BY <3>1, <1>0
    <3>3. StoreTypeOK'
      BY <2>3, PromoterTypes DEF PromoteResumes
    <3>4. PromTypeOK'
      BY <2>3, <3>2 DEF PromoteResumes, Loaded
    <3>5. StorageBusy'
      BY <2>3, <3>2 DEF PromoteResumes, Loaded
    <3>6. QED
      BY <3>3, <3>4, <3>5
  <2>4. QED
    BY <2>1, <2>2, <2>3
<1>3. CASE PromReload(w)
  <2>1. /\ promDoc[w] \in Docs
        /\ status[promDoc[w]] \in IngestionStatus \cup {NoRow}
    BY <1>3 DEF PromReload
  <2>2. Loaded(w)
    BY <1>3, <2>1, <1>0 DEF PromReload
  <2>3. QED
    BY <1>3, <2>1, <2>2 DEF PromReload, Loaded
<1>4. CASE CopyStarts(w)
  BY <1>4 DEF CopyStarts
<1>5. CASE CopyFinishes(w)
  BY <1>5 DEF CopyFinishes
<1>6. CASE CopyFails(w)
  BY <1>6 DEF CopyFails
<1>7. CASE RecordFailure(w)
  BY <1>7 DEF RecordFailure, NotLoaded, IngestionStatus
<1>8. CASE PromoteCommits(w)
  BY <1>8 DEF PromoteCommits, IngestionStatus
<1>9. CASE PromoteAborts(w)
  <2>1. promDoc[w] \in Docs
    BY <1>9 DEF PromoteAborts
  <2>2. rowLock' \in [Docs -> Holders \cup {NoOne}]
    BY <1>9, <2>1, PromoterTypes DEF PromoteAborts
  <2>3. QED
    BY <1>9, <2>1, <2>2 DEF PromoteAborts
<1>10. CASE EnqueueParseJob(w)
  BY <1>10 DEF EnqueueParseJob, EnqueueTo, Delivered
<1>11. CASE UnlinkSource(w)
  BY <1>11 DEF UnlinkSource, NotLoaded
<1>12. CASE UnlinkFails(w)
  BY <1>12 DEF UnlinkFails, NotLoaded
<1>13. CASE PromoteCutOff(w)
  <2>1. promDoc[w] \in Docs
    BY <1>13 DEF PromoteCutOff, PromBusy
  <2>2. rowLock' \in [Docs -> Holders \cup {NoOne}]
    BY <1>13, <2>1, PromoterTypes DEF PromoteCutOff
  <2>3. QED
    BY <1>13, <2>1, <2>2 DEF PromoteCutOff, CutOff, Redeliver, NotLoaded
<1>14. CASE PromClose(w)
  <2>1. promDoc[w] \in Docs
    BY <1>14 DEF PromClose
  <2>2. rowLock' \in [Docs -> Holders \cup {NoOne}]
    BY <1>14, <2>1, PromoterTypes DEF PromClose
  <2>3. QED
    BY <1>14, <2>1, <2>2 DEF PromClose, NotLoaded
<1>15. CASE PromEscapes(w)
  <2>1. promDoc[w] \in Docs
    BY <1>15 DEF PromEscapes, PromBusy
  <2>2. rowLock' \in [Docs -> Holders \cup {NoOne}]
    BY <1>15, <2>1, PromoterTypes DEF PromEscapes
  <2>3. QED
    BY <1>15, <2>1, <2>2 DEF PromEscapes, PromBusy, CutOff
<1>16. QED
  BY <1>1, <1>2, <1>3, <1>4, <1>5, <1>6, <1>7, <1>8, <1>9, <1>10, <1>11, <1>12,
     <1>13, <1>14, <1>15 DEF PromAdvance

\* A parse step keeps every variable in its type.
LEMMA ParseKeepsTypes ==
    ASSUME StorageTypes, ParseNext, UNCHANGED <<loop, promVars>>
    PROVE  StorageTypes'
<1> USE StoreAssumption
        DEF StorageTypes, StorageBusy, StorageTypeOK, StoreTypeOK, PromTypeOK,
            ParseTypeOK, storeVars, promVars, ParseStep, ParseAt, ParseGoTo,
            ParseEnd, SetStatus
<1>0. NoSnapshot \in Snapshot
  BY DEF NoSnapshot, Snapshot
<1>1. PICK w \in Workers : \/ \E d \in Docs : PrepareParseAttempt(w, d)
                           \/ ParseAdvance(w)
                           \/ ParseCutOff(w)
  BY DEF ParseNext
<1>2. ASSUME NEW d \in Docs, PrepareParseAttempt(w, d)
      PROVE  StorageTypes'
  <2> USE <1>2 DEF PrepareParseAttempt, TakeFrom
  <2>1. CASE PrepareRefused(w, d)
    BY <2>1 DEF PrepareRefused
  <2>2. CASE PrepareClaims(w, d)
    <3>1. parseAttempts[d] + 1 \in Nat /\ cleanId[d] \in Nat
      OBVIOUS
    <3>2. [attempt |-> parseAttempts[d] + 1, cleanId |-> cleanId[d]] \in Snapshot
      BY <3>1 DEF Snapshot
    <3>3. QED
      BY <2>2, <3>1, <3>2 DEF PrepareClaims, IngestionStatus
  <2>3. QED
    BY <2>1, <2>2
<1>3. CASE ParserResponds(w)
  <2>1. PICK step \in ParseStep \ {"idle"} : parsePc' = [parsePc EXCEPT ![w] = step]
    BY <1>3 DEF ParserResponds, ParserAnswers, ParserRaises
  <2>2. /\ UNCHANGED <<storeVars, parseDoc, snapshot, parseAttempts, pages, extractJobs>>
        /\ parsePc[w] # "idle"
    BY <1>3 DEF ParserResponds
  <2>3. QED
    BY <2>1, <2>2
<1>4. CASE FailParseAttempt(w)
  <2>1. parseDoc[w] \in Docs /\ parseDoc[w] # NoOne
    BY <1>4 DEF FailParseAttempt
  <2>2. status' \in [Docs -> IngestionStatus \cup {NoRow}]
    BY <1>4, <2>1 DEF FailParseAttempt, IngestionStatus
  <2>3. CASE ParseGoTo(w, "retry") /\ UNCHANGED <<parseDoc, snapshot>>
    BY <1>4, <2>1, <2>2, <2>3 DEF FailParseAttempt
  <2>4. CASE ParseEnd(w)
    BY <1>0, <1>4, <2>2, <2>4 DEF FailParseAttempt
  <2>5. QED
    BY <1>4, <2>3, <2>4 DEF FailParseAttempt
<1>5. CASE EnqueueParseRetry(w)
  BY <1>0, <1>5 DEF EnqueueParseRetry, EnqueueTo, Delivered
<1>6. CASE PersistParseResults(w)
  <2>1. parseDoc[w] \in Docs /\ parseDoc[w] # NoOne
    BY <1>6 DEF PersistParseResults
  <2>2. status' \in [Docs -> IngestionStatus \cup {NoRow}]
    BY <1>6, <2>1 DEF PersistParseResults, IngestionStatus
  <2>3. CASE cleanId[parseDoc[w]] # snapshot[w].cleanId
    <3>1. ParseEnd(w) /\ UNCHANGED pages
      BY <1>6, <2>3 DEF PersistParseResults
    <3>2. QED
      BY <1>0, <1>6, <2>2, <3>1 DEF PersistParseResults
  <2>4. CASE cleanId[parseDoc[w]] = snapshot[w].cleanId
    <3>1. /\ pages' = [pages EXCEPT ![parseDoc[w]] = snapshot[w]]
          /\ ParseGoTo(w, "enqueueExtraction") /\ UNCHANGED <<parseDoc, snapshot>>
      BY <1>6, <2>4 DEF PersistParseResults
    <3>2. snapshot[w] \in Snapshot
      OBVIOUS
    <3>3. QED
      BY <1>6, <2>1, <2>2, <3>1, <3>2 DEF PersistParseResults
  <2>5. QED
    BY <2>3, <2>4
<1>7. CASE PersistStale(w)
  BY <1>0, <1>7 DEF PersistStale
<1>8. CASE EnqueueExtractionJob(w)
  BY <1>0, <1>8 DEF EnqueueExtractionJob, EnqueueTo, Delivered
<1>9. CASE ParseCutOff(w)
  BY <1>0, <1>9 DEF ParseCutOff, ParseBusy, CutOff, AfterCutOff, Redeliver
<1>10. QED
  BY <1>1, <1>2, <1>3, <1>4, <1>5, <1>6, <1>7, <1>8, <1>9 DEF ParseAdvance

-----------------------------------------------------------------------------
\* The task of slot w has neither ended nor raised.
PromWorks(w) == promPc[w] \notin {"idle", "closing"}

\* The inductive invariant behind the two properties of the files.  A task that was
\* not refused works on a row that exists; a slot that has renamed its copy finds it in clean
\* storage; a slot past the commit, which is the only one that deletes the
\* source, works on a row whose clean file is there.
FilesInv ==
    /\ CleanHasFile
    /\ BytesPreserved
    /\ \A w \in Workers : PromWorks(w) => status[promDoc[w]] # NoRow
    /\ \A w \in Workers :
          promPc[w] = "copied" => promId[w] \in cleanFiles[promDoc[w]]
    /\ \A w \in Workers :
          promPc[w] \in {"enqueueParse", "unlink"} =>
              cleanId[promDoc[w]] \in cleanFiles[promDoc[w]]

\* The inductive invariant behind the properties of parse attempts: no slot has
\* a token from the future, so a new claim makes every other token stale.
AttemptsInv ==
    /\ ParseAttemptsCapped
    /\ \A w \in Workers :
          ParseBusy(w) => snapshot[w].attempt <= parseAttempts[parseDoc[w]]
    /\ SnapshotNeverDrifts
    /\ CompletedPagesCurrent

\* A promotion step keeps the invariant of the files.
LEMMA PromKeepsFiles ==
    ASSUME StorageTypes, FilesInv, PromNext
    PROVE  FilesInv'
<1> USE StoreAssumption
        DEF StorageTypes, StorageBusy, StorageTypeOK, StoreTypeOK, PromTypeOK,
            FilesInv, CleanHasFile, BytesPreserved, ParseableStatus, NoRow,
            storeVars, PromAt, PromGoTo,
            PromEnd, SetStatus, Unlock, PromWorks
<1>1. PICK w \in Workers : \/ \E d \in Docs : PromoteDocumentTask(w, d)
                           \/ PromAdvance(w)
                           \/ PromEscapes(w)
                           \/ PromoteCutOff(w)
  BY DEF PromNext
<1>2. ASSUME NEW d \in Docs, PromoteDocumentTask(w, d)
      PROVE  FilesInv'
  <2> USE <1>2 DEF PromoteDocumentTask
  <2>1. CASE PromoteRefused(w, d)
    BY <2>1 DEF PromoteRefused
  <2>2. CASE PromoteBegins(w, d)
    BY <2>2 DEF PromoteBegins
  <2>3. CASE PromoteResumes(w, d)
    BY <2>3 DEF PromoteResumes, LoadForCopy
  <2>4. QED
    BY <2>1, <2>2, <2>3
<1>3. CASE PromReload(w)
  BY <1>3 DEF PromReload, LoadForCopy
<1>4. CASE CopyStarts(w)
  BY <1>4 DEF CopyStarts
<1>5. CASE CopyFinishes(w)
  BY <1>5 DEF CopyFinishes
<1>6. CASE CopyFails(w)
  BY <1>6 DEF CopyFails
<1>7. CASE RecordFailure(w)
  BY <1>7 DEF RecordFailure
<1>8. CASE PromoteCommits(w)
  BY <1>8 DEF PromoteCommits
<1>9. CASE PromoteAborts(w)
  BY <1>9 DEF PromoteAborts
<1>10. CASE EnqueueParseJob(w)
  BY <1>10 DEF EnqueueParseJob
<1>11. CASE UnlinkSource(w)
  BY <1>11 DEF UnlinkSource
<1>12. CASE UnlinkFails(w)
  BY <1>12 DEF UnlinkFails
<1>13. CASE PromoteCutOff(w)
  BY <1>13 DEF PromoteCutOff, PromBusy
<1>14. CASE PromClose(w)
  BY <1>14 DEF PromClose
<1>15. CASE PromEscapes(w)
  BY <1>15 DEF PromEscapes, PromBusy
<1>16. QED
  BY <1>1, <1>2, <1>3, <1>4, <1>5, <1>6, <1>7, <1>8, <1>9, <1>10, <1>11, <1>12,
     <1>13, <1>14, <1>15 DEF PromAdvance

\* A parse step moves a status only within ParseableStatus and touches no file,
\* no identifier and no queue but its own.
LEMMA ParseEffect ==
    ASSUME StorageTypes, ParseNext
    PROVE  /\ UNCHANGED <<cleanId, quarantineFile, scanJobs, promoteJobs>>
           /\ \A d \in Docs : \/ status'[d] = status[d]
                              \/ {status[d], status'[d]} \subseteq ParseableStatus
<1> DEFINE Effect ==
        /\ UNCHANGED <<cleanId, quarantineFile, scanJobs, promoteJobs>>
        /\ \A d \in Docs : \/ status'[d] = status[d]
                           \/ {status[d], status'[d]} \subseteq ParseableStatus
<1>1. Effect
  <2> USE StoreAssumption
          DEF StorageTypes, StorageBusy, StorageTypeOK, StoreTypeOK, ParseTypeOK,
              storeVars, ParseAt, SetStatus, ParseableStatus, AttemptCurrent
  <2>1. PICK w \in Workers : \/ \E d \in Docs : PrepareParseAttempt(w, d)
                             \/ ParseAdvance(w)
                             \/ ParseCutOff(w)
    BY DEF ParseNext
  <2>2. ASSUME NEW d \in Docs, PrepareParseAttempt(w, d)
        PROVE  Effect
    BY <2>2 DEF PrepareParseAttempt, PrepareRefused, PrepareClaims
  <2>3. CASE ParserResponds(w)
    BY <2>3 DEF ParserResponds, ParserAnswers, ParserRaises
  <2>4. CASE FailParseAttempt(w)
    BY <2>4 DEF FailParseAttempt
  <2>5. CASE EnqueueParseRetry(w)
    BY <2>5 DEF EnqueueParseRetry
  <2>6. CASE PersistParseResults(w)
    BY <2>6 DEF PersistParseResults
  <2>7. CASE PersistStale(w)
    BY <2>7 DEF PersistStale
  <2>8. CASE EnqueueExtractionJob(w)
    BY <2>8 DEF EnqueueExtractionJob
  <2>9. CASE ParseCutOff(w)
    BY <2>9 DEF ParseCutOff
  <2>10. QED
    BY <2>1, <2>2, <2>3, <2>4, <2>5, <2>6, <2>7, <2>8, <2>9 DEF ParseAdvance
<1>2. QED
  BY <1>1

\* So it keeps the invariant of the files.
LEMMA ParseKeepsFiles ==
    ASSUME StorageTypes, FilesInv, ParseNext, UNCHANGED promVars
    PROVE  FilesInv'
<1>1. /\ UNCHANGED <<cleanId, quarantineFile, cleanFiles, promPc, promDoc, promId>>
      /\ \A d \in Docs : \/ status'[d] = status[d]
                         \/ {status[d], status'[d]} \subseteq ParseableStatus
  BY ParseEffect DEF promVars
<1>2. \A d \in Docs : /\ status'[d] \in ParseableStatus => status[d] \in ParseableStatus
                      /\ status'[d] = NoRow <=> status[d] = NoRow
  BY <1>1 DEF ParseableStatus, NoRow
<1>3. CleanHasFile' /\ BytesPreserved'
  BY <1>1, <1>2 DEF FilesInv, CleanHasFile, BytesPreserved
<1>4. \A w \in Workers : PromWorks(w) => promDoc[w] \in Docs
  BY DEF StorageTypes, StorageBusy, StorageTypeOK, PromTypeOK, PromWorks
<1>5. QED
  BY <1>1, <1>2, <1>3, <1>4 DEF FilesInv, PromWorks

\* A promotion step touches no parse attempt, and where it writes a row it
\* leaves a status in which no attempt is current and no pages are final.
LEMMA PromKeepsAttempts ==
    ASSUME StorageTypes, AttemptsInv, PromNext, UNCHANGED parseVars
    PROVE  AttemptsInv'
<1> DEFINE Effect ==
        \A d \in Docs : \/ status'[d] = status[d] /\ cleanId'[d] = cleanId[d]
                        \/ status'[d] \notin {"PARSING", "COMPLETED"}
<1>1. Effect
  <2> USE StoreAssumption
          DEF StorageTypes, StorageBusy, StorageTypeOK, StoreTypeOK, PromTypeOK,
              storeVars, PromAt, SetStatus
  <2>1. PICK w \in Workers : \/ \E d \in Docs : PromoteDocumentTask(w, d)
                             \/ PromAdvance(w)
                             \/ PromEscapes(w)
                             \/ PromoteCutOff(w)
    BY DEF PromNext
  <2>2. ASSUME NEW d \in Docs, PromoteDocumentTask(w, d)
        PROVE  Effect
    BY <2>2 DEF PromoteDocumentTask, PromoteRefused, PromoteBegins, PromoteResumes
  <2>3. CASE PromReload(w)
    BY <2>3 DEF PromReload
  <2>4. CASE CopyStarts(w) \/ CopyFinishes(w) \/ CopyFails(w)
    BY <2>4 DEF CopyStarts, CopyFinishes, CopyFails
  <2>5. CASE RecordFailure(w)
    BY <2>5 DEF RecordFailure
  <2>6. CASE PromoteCommits(w)
    BY <2>6 DEF PromoteCommits
  <2>7. CASE PromoteAborts(w)
    BY <2>7 DEF PromoteAborts
  <2>8. CASE EnqueueParseJob(w)
    BY <2>8 DEF EnqueueParseJob
  <2>9. CASE UnlinkSource(w) \/ UnlinkFails(w)
    BY <2>9 DEF UnlinkSource, UnlinkFails
  <2>10. CASE PromoteCutOff(w) \/ PromClose(w) \/ PromEscapes(w)
    BY <2>10 DEF PromoteCutOff, PromClose, PromEscapes
  <2>11. QED
    BY <2>1, <2>2, <2>3, <2>4, <2>5, <2>6, <2>7, <2>8, <2>9, <2>10 DEF PromAdvance
<1>2. ParseAttemptsCapped' /\ CompletedPagesCurrent'
  BY <1>1 DEF AttemptsInv, ParseAttemptsCapped, CompletedPagesCurrent, parseVars
<1>3. SnapshotNeverDrifts'
  BY <1>1, StoreAssumption
     DEF AttemptsInv, SnapshotNeverDrifts, AttemptCurrent, ParseBusy, parseVars,
         StorageTypes, StorageBusy, StorageTypeOK, ParseTypeOK
<1>4. QED
  BY <1>2, <1>3 DEF AttemptsInv, ParseBusy, parseVars

\* A parse step that claims nothing and stores nothing: no row enters PARSING or
\* COMPLETED, and a slot that is still busy has the snapshot it had.
Settles ==
    /\ UNCHANGED <<cleanId, parseAttempts, pages>>
    /\ \A d \in Docs :
          status'[d] = status[d] \/ status'[d] \notin {"PARSING", "COMPLETED"}
    /\ \A v \in Workers :
          \/ parsePc'[v] = "idle"
          \/ /\ parsePc[v] # "idle"
             /\ parseDoc'[v] = parseDoc[v] /\ snapshot'[v] = snapshot[v]

\* Such a step keeps the invariant of the attempts.
LEMMA SettlesKeepsAttempts ==
    ASSUME StorageTypes, AttemptsInv, Settles
    PROVE  AttemptsInv'
<1>1. ParseAttemptsCapped' /\ CompletedPagesCurrent'
  BY DEF AttemptsInv, Settles, ParseAttemptsCapped, CompletedPagesCurrent
<1>2. ASSUME NEW v \in Workers, ParseBusy(v)'
      PROVE  /\ parseDoc'[v] = parseDoc[v] /\ snapshot'[v] = snapshot[v]
             /\ ParseBusy(v) /\ parseDoc[v] \in Docs
  BY <1>2 DEF Settles, ParseBusy, StorageTypes, StorageBusy, StorageTypeOK, ParseTypeOK
<1>3. SnapshotNeverDrifts'
  BY <1>2 DEF Settles, AttemptsInv, SnapshotNeverDrifts, AttemptCurrent
<1>4. \A v \in Workers :
        ParseBusy(v)' => snapshot'[v].attempt <= parseAttempts'[parseDoc'[v]]
  BY <1>2 DEF Settles, AttemptsInv
<1>5. QED
  BY <1>1, <1>3, <1>4 DEF AttemptsInv

\* A claim keeps the invariant of the attempts: the new token is above every
\* token taken for the document, so no other slot's attempt is current.
LEMMA ClaimKeepsAttempts ==
    ASSUME StorageTypes, AttemptsInv, NEW w \in Workers, NEW d \in Docs,
           PrepareClaims(w, d), UNCHANGED <<cleanId, pages>>
    PROVE  AttemptsInv'
<1> USE StoreAssumption, ParseAssumption
        DEF StorageTypes, StorageBusy, StorageTypeOK, StoreTypeOK, ParseTypeOK
<1> DEFINE token == parseAttempts[d] + 1
<1>1. /\ parseAttempts' = [parseAttempts EXCEPT ![d] = token]
      /\ token \in Nat /\ token <= PARSE_MAX_ATTEMPTS
      /\ status' = [status EXCEPT ![d] = "PARSING"]
  BY DEF PrepareClaims, SetStatus
<1>2. /\ snapshot'[w].attempt = token /\ snapshot'[w].cleanId = cleanId[d]
      /\ parseDoc'[w] = d
  BY DEF PrepareClaims
<1>3. ASSUME NEW v \in Workers, v # w
      PROVE  /\ snapshot'[v] = snapshot[v] /\ parseDoc'[v] = parseDoc[v]
             /\ ParseBusy(v)' <=> ParseBusy(v)
  BY <1>3 DEF PrepareClaims, ParseGoTo, ParseBusy
<1>4. ASSUME NEW v \in Workers, ParseBusy(v)
      PROVE  /\ parseDoc[v] \in Docs
             /\ snapshot[v].attempt \in Nat
             /\ snapshot[v].attempt <= parseAttempts[parseDoc[v]]
  BY <1>4 DEF AttemptsInv, ParseBusy, Snapshot
<1>5. ParseAttemptsCapped'
  BY <1>1 DEF AttemptsInv, ParseAttemptsCapped
<1>6. CompletedPagesCurrent'
  BY <1>1 DEF AttemptsInv, CompletedPagesCurrent
<1>7. ASSUME NEW v \in Workers, ParseBusy(v)'
      PROVE  snapshot'[v].attempt <= parseAttempts'[parseDoc'[v]]
  <2>1. CASE v = w
    BY <2>1, <1>1, <1>2
  <2>2. CASE v # w
    BY <2>2, <1>1, <1>3, <1>4, <1>7
  <2>3. QED
    BY <2>1, <2>2
<1>8. ASSUME NEW v \in Workers, ParseBusy(v)', AttemptCurrent(v)'
      PROVE  snapshot'[v].cleanId = cleanId'[parseDoc'[v]]
  <2>1. CASE v = w
    BY <2>1, <1>2
  <2>2. CASE v # w /\ parseDoc[v] = d
    BY <2>2, <1>1, <1>3, <1>4, <1>8 DEF AttemptCurrent
  <2>3. CASE v # w /\ parseDoc[v] # d
    <3>1. AttemptCurrent(v)
      BY <2>3, <1>1, <1>3, <1>4, <1>8 DEF AttemptCurrent
    <3>2. QED
      BY <2>3, <3>1, <1>3, <1>8 DEF AttemptsInv, SnapshotNeverDrifts
  <2>4. QED
    BY <2>1, <2>2, <2>3
<1>9. QED
  BY <1>5, <1>6, <1>7, <1>8 DEF AttemptsInv, SnapshotNeverDrifts

\* Storing the pages keeps the invariant of the attempts: the attempt is current,
\* and its clean file is the row's.
LEMMA PersistKeepsAttempts ==
    ASSUME StorageTypes, AttemptsInv, NEW w \in Workers, PersistParseResults(w)
    PROVE  AttemptsInv'
<1> USE StoreAssumption
        DEF StorageTypes, StorageBusy, StorageTypeOK, StoreTypeOK, ParseTypeOK
<1>1. PICK d \in Docs : d = parseDoc[w]
  BY DEF PersistParseResults, ParseAt
<1>2. /\ ParseBusy(w) /\ AttemptCurrent(w)
      /\ snapshot[w].attempt = parseAttempts[d] /\ snapshot[w].cleanId = cleanId[d]
  BY <1>1 DEF PersistParseResults, AttemptCurrent, AttemptsInv, SnapshotNeverDrifts,
              ParseBusy, ParseAt
<1>3. /\ pages' = [pages EXCEPT ![d] = snapshot[w]]
      /\ status' = [status EXCEPT ![d] = "COMPLETED"]
      /\ parsePc' = [parsePc EXCEPT ![w] = "enqueueExtraction"]
      /\ UNCHANGED <<cleanId, parseAttempts, parseDoc, snapshot>>
  BY <1>1, <1>2 DEF PersistParseResults, SetStatus, ParseGoTo
<1>4. snapshot[w] = [attempt |-> parseAttempts[d], cleanId |-> cleanId[d]]
  BY <1>2 DEF Snapshot
<1>5. ParseAttemptsCapped'
  BY <1>3 DEF AttemptsInv, ParseAttemptsCapped
<1>6. CompletedPagesCurrent'
  BY <1>3, <1>4 DEF AttemptsInv, CompletedPagesCurrent
<1>7. \A v \in Workers : ParseBusy(v)' => ParseBusy(v) /\ parseDoc[v] \in Docs
  BY <1>2, <1>3 DEF ParseBusy
<1>8. SnapshotNeverDrifts'
  BY <1>3, <1>7 DEF AttemptsInv, SnapshotNeverDrifts, AttemptCurrent
<1>9. QED
  BY <1>3, <1>5, <1>6, <1>7, <1>8 DEF AttemptsInv

\* A parse step keeps the invariant of the attempts.
LEMMA ParseKeepsAttempts ==
    ASSUME StorageTypes, AttemptsInv, ParseNext
    PROVE  AttemptsInv'
<1>1. PICK w \in Workers : \/ \E d \in Docs : PrepareParseAttempt(w, d)
                           \/ ParseAdvance(w)
                           \/ ParseCutOff(w)
  BY DEF ParseNext
<1>2. ASSUME NEW d \in Docs, PrepareParseAttempt(w, d), PrepareClaims(w, d)
      PROVE  AttemptsInv'
  BY <1>2, ClaimKeepsAttempts DEF PrepareParseAttempt
<1>3. CASE PersistParseResults(w)
  BY <1>3, PersistKeepsAttempts
<1>4. ASSUME NEW d \in Docs, PrepareParseAttempt(w, d), PrepareRefused(w, d)
      PROVE  Settles
  BY <1>4 DEF PrepareParseAttempt, PrepareRefused, Settles
<1> USE DEF StorageTypes, StorageTypeOK, StoreTypeOK, ParseTypeOK, storeVars, Settles,
            ParseAt, ParseGoTo, ParseEnd, ParseBusy
<1>5. ASSUME ParserResponds(w) PROVE Settles
  BY <1>5 DEF ParserResponds, ParserAnswers, ParserRaises
<1>6. ASSUME FailParseAttempt(w) PROVE Settles
  <2>1. \A d \in Docs :
          status'[d] = status[d] \/ status'[d] \notin {"PARSING", "COMPLETED"}
    BY <1>6 DEF FailParseAttempt
  <2>2. CASE ParseGoTo(w, "retry") /\ UNCHANGED <<parseDoc, snapshot>>
    BY <1>6, <2>1, <2>2 DEF FailParseAttempt
  <2>3. CASE ParseEnd(w)
    BY <1>6, <2>1, <2>3 DEF FailParseAttempt
  <2>4. QED
    BY <1>6, <2>2, <2>3 DEF FailParseAttempt
<1>7. ASSUME EnqueueParseRetry(w) PROVE Settles
  BY <1>7 DEF EnqueueParseRetry
<1>8. ASSUME PersistStale(w) PROVE Settles
  BY <1>8 DEF PersistStale
<1>9. ASSUME EnqueueExtractionJob(w) PROVE Settles
  BY <1>9 DEF EnqueueExtractionJob
<1>10. ASSUME ParseCutOff(w) PROVE Settles
  BY <1>10 DEF ParseCutOff
<1> HIDE DEF StorageTypes, StorageTypeOK, Settles
<1>11. Settles => AttemptsInv'
  BY SettlesKeepsAttempts
<1>12. QED
  BY <1>1, <1>2, <1>3, <1>4, <1>5, <1>6, <1>7, <1>8, <1>9, <1>10, <1>11
     DEF ParseAdvance, PrepareParseAttempt

-----------------------------------------------------------------------------
StorageInv == StorageTypes /\ FilesInv /\ AttemptsInv

\* The initial states satisfy the inductive invariant.
LEMMA StorageInitInv == StorageInit => StorageInv
<1> SUFFICES ASSUME StorageInit PROVE StorageInv
  OBVIOUS
<1> USE StoreAssumption, ParseAssumption, DuplicatesAssumption
        DEF StorageInit, PromInit, ParseInit
<1>1. NotLoaded \in [status : IngestionStatus \cup {NoRow}, cleanId : Nat]
  BY DEF NotLoaded
<1>2. NoSnapshot \in Snapshot
  BY DEF NoSnapshot, Snapshot
<1>3. StoreTypeOK
  BY DEF StoreTypeOK, IngestionStatus
<1>4. PromTypeOK /\ ParseTypeOK /\ StorageBusy
  BY <1>1, <1>2 DEF PromTypeOK, ParseTypeOK, StorageBusy, PromStep, ParseStep
<1>5. FilesInv
  BY DEF FilesInv, CleanHasFile, BytesPreserved, PromWorks, ParseableStatus
<1>6. AttemptsInv
  BY DEF AttemptsInv, ParseAttemptsCapped, SnapshotNeverDrifts,
         CompletedPagesCurrent, ParseBusy
<1>7. QED
  BY <1>3, <1>4, <1>5, <1>6 DEF StorageInv, StorageTypes, StorageTypeOK

\* Every step of the promotion and parse workers keeps the inductive invariant.
LEMMA StorageStepInv == StorageInv /\ [StorageNext]_storageVars => StorageInv'
<1> SUFFICES ASSUME StorageInv, [StorageNext]_storageVars PROVE StorageInv'
  OBVIOUS
<1> USE DEF StorageInv
<1>1. CASE PromNext /\ UNCHANGED <<loop, parseVars>>
  BY <1>1, PromKeepsTypes, PromKeepsFiles, PromKeepsAttempts
<1>2. CASE ParseNext /\ UNCHANGED <<loop, promVars>>
  BY <1>2, ParseKeepsTypes, ParseKeepsFiles, ParseKeepsAttempts
<1>3. CASE UNCHANGED storageVars
  BY <1>3 DEF storageVars, storeVars, promVars, parseVars, StorageTypes,
              StorageTypeOK, StoreTypeOK, PromTypeOK, ParseTypeOK, StorageBusy,
              FilesInv, CleanHasFile, BytesPreserved, PromWorks, AttemptsInv,
              ParseAttemptsCapped,
              SnapshotNeverDrifts, AttemptCurrent, CompletedPagesCurrent, ParseBusy
<1>4. ASSUME NEW p \in Processes, StorageLoopBlocks(p) \/ LoopWakes(p),
             UNCHANGED <<promVars, parseVars>>
      PROVE  StorageInv'
  <2>1. loop' \in [Processes -> Docs \cup {NoOne}] /\ UNCHANGED storeVars
    BY <1>4 DEF StorageLoopBlocks, LoopBlocks, LoopWakes, StorageTypes, StorageTypeOK,
                StoreTypeOK
  <2>2. QED
    BY <1>4, <2>1
       DEF storeVars, promVars, parseVars, StorageTypes, StorageTypeOK, StoreTypeOK,
           PromTypeOK, ParseTypeOK, StorageBusy, FilesInv, CleanHasFile, BytesPreserved,
           PromWorks, AttemptsInv, ParseAttemptsCapped, SnapshotNeverDrifts,
           AttemptCurrent, CompletedPagesCurrent, ParseBusy
<1>5. QED
  BY <1>1, <1>2, <1>3, <1>4 DEF StorageNext, StorageDone

-----------------------------------------------------------------------------
\* A promotion step opens a row to parsing only together with the task that will
\* unlink the source, and that task ends by unlinking, by marking the row, or by
\* being cut off.
LEMMA PromKeepsLeftovers ==
    ASSUME StorageTypes, LeftoverMarked, PromNext
    PROVE  LeftoverMarked'
<1>0. /\ status \in [Docs -> IngestionStatus \cup {NoRow}] /\ cutOffs \in Nat
      /\ quarantineFile \in [Docs -> BOOLEAN] /\ cleanupPending \in [Docs -> BOOLEAN]
      /\ promPc \in [Workers -> PromStep] /\ promDoc \in [Workers -> Docs \cup {NoOne}]
      /\ \A w \in Workers : promPc[w] # "idle" => promDoc[w] \in Docs
  BY StoreAssumption DEF StorageTypes, StorageBusy, StorageTypeOK, StoreTypeOK, PromTypeOK
<1>1. PICK w \in Workers : \/ \E d \in Docs : PromoteDocumentTask(w, d)
                           \/ PromAdvance(w)
                           \/ PromEscapes(w)
                           \/ PromoteCutOff(w)
  BY DEF PromNext
<1> USE <1>0 DEF LeftoverMarked, PromAt, PromGoTo, PromEnd, storeVars
\* A task that has no source to unlink may do what opens no row.
<1>2. ASSUME promPc[w] \notin {"enqueueParse", "unlink"},
             \A v \in Workers \ {w} : promPc'[v] = promPc[v] /\ promDoc'[v] = promDoc[v],
             \A d \in Docs : status'[d] \in ParseableStatus => status[d] \in ParseableStatus,
             quarantineFile' = quarantineFile, cleanupPending' = cleanupPending,
             cutOffs' = cutOffs
      PROVE  LeftoverMarked'
  BY <1>2
<1>3. ASSUME NEW d \in Docs, PromoteDocumentTask(w, d)
      PROVE  LeftoverMarked'
  BY <1>2, <1>3 DEF PromoteDocumentTask, PromoteRefused, PromoteBegins, PromoteResumes,
     LoadForCopy, SetStatus, ParseableStatus
<1>4. CASE PromReload(w) \/ CopyStarts(w) \/ CopyFinishes(w) \/ CopyFails(w)
           \/ RecordFailure(w) \/ PromoteAborts(w) \/ PromClose(w)
  BY <1>2, <1>4 DEF PromReload, LoadForCopy, CopyStarts, CopyFinishes, CopyFails,
     RecordFailure, PromoteAborts, PromClose, SetStatus, ParseableStatus
<1>5. CASE PromoteCommits(w)
  <2>1. promPc'[w] = "enqueueParse" /\ promDoc'[w] = promDoc[w] /\ promDoc[w] \in Docs
    BY <1>5 DEF PromoteCommits
  <2>2. /\ \A d \in Docs \ {promDoc[w]} : status'[d] = status[d]
        /\ \A v \in Workers \ {w} : promPc'[v] = promPc[v] /\ promDoc'[v] = promDoc[v]
        /\ UNCHANGED <<quarantineFile, cleanupPending, cutOffs>>
    BY <1>5 DEF PromoteCommits, SetStatus
  <2>3. QED
    BY <2>1, <2>2
<1>6. CASE EnqueueParseJob(w)
  BY <1>6 DEF EnqueueParseJob
<1>7. CASE UnlinkSource(w)
  BY <1>7 DEF UnlinkSource
<1>8. CASE UnlinkFails(w)
  BY <1>8 DEF UnlinkFails
<1>9. CASE PromoteCutOff(w) \/ PromEscapes(w)
  BY <1>9 DEF PromoteCutOff, PromEscapes, CutOff
<1>10. QED
  BY <1>1, <1>3, <1>4, <1>5, <1>6, <1>7, <1>8, <1>9 DEF PromAdvance

\* A step that opens no row to parsing, puts no file back and touches no promotion.
LEMMA OthersKeepLeftovers ==
    ASSUME LeftoverMarked, UNCHANGED promVars, cutOffs \in Nat,
           cutOffs' \in {cutOffs, cutOffs + 1},
           \A d \in Docs : status'[d] \in ParseableStatus /\ quarantineFile'[d] =>
                              status[d] \in ParseableStatus /\ quarantineFile[d]
    PROVE  LeftoverMarked'
<1>1. cutOffs > 0 => cutOffs' > 0
  OBVIOUS
<1>2. QED
  BY <1>1 DEF LeftoverMarked, promVars

\* A parse step counts at most one task that was cut off.
LEMMA ParseCountsCutOffs ==
    ASSUME StorageTypes, ParseNext
    PROVE  cutOffs \in Nat /\ cutOffs' \in {cutOffs, cutOffs + 1}
<1>1. cutOffs \in Nat
  BY StoreAssumption DEF StorageTypes, StorageTypeOK, StoreTypeOK
<1>2. PICK w \in Workers : \/ \E d \in Docs : PrepareParseAttempt(w, d)
                           \/ ParseAdvance(w)
                           \/ ParseCutOff(w)
  BY DEF ParseNext
<1>3. QED
  BY <1>1, <1>2 DEF PrepareParseAttempt, ParseAdvance, ParserResponds, FailParseAttempt,
     EnqueueParseRetry, PersistParseResults, PersistStale, EnqueueExtractionJob,
     ParseCutOff, CutOff, storeVars

\* A parse step keeps every left-over file accounted for.
LEMMA ParseKeepsLeftovers ==
    ASSUME StorageTypes, LeftoverMarked, ParseNext, UNCHANGED promVars
    PROVE  LeftoverMarked'
<1>1. /\ quarantineFile' = quarantineFile
      /\ \A d \in Docs : status'[d] \in ParseableStatus => status[d] \in ParseableStatus
  BY ParseEffect
<1>2. QED
  BY <1>1, ParseCountsCutOffs, OthersKeepLeftovers

\* The inductive invariant always holds.
THEOREM StorageInvariant == StorageSpec => []StorageInv
BY StorageInitInv, StorageStepInv, PTL DEF StorageSpec

\* Type correctness of promotion and parsing, whatever fails or is cut off.
THEOREM StorageTypesCorrect == StorageSpec => []StorageTypeOK
<1>1. StorageInv => StorageTypeOK
  BY DEF StorageInv, StorageTypes
<1>2. QED
  BY <1>1, StorageInvariant, PTL

\* The bytes of a document are never lost between quarantine and clean storage,
\* for any number of workers, duplicated jobs and cut-offs: the source is deleted
\* only by a slot past its commit, and by then the row names a complete file.
THEOREM BytesNeverLost == StorageSpec => []BytesPreserved
<1>1. StorageInv => BytesPreserved
  BY DEF StorageInv, FilesInv
<1>2. QED
  BY <1>1, StorageInvariant, PTL

\* A document open to parsing always names a complete file in clean storage.
THEOREM CleanAlwaysHasFile == StorageSpec => []CleanHasFile
<1>1. StorageInv => CleanHasFile
  BY DEF StorageInv, FilesInv
<1>2. QED
  BY <1>1, StorageInvariant, PTL

\* The cap on parse attempts holds however jobs are duplicated or redelivered.
THEOREM ParseCapHolds == StorageSpec => []ParseAttemptsCapped
<1>1. StorageInv => ParseAttemptsCapped
  BY DEF StorageInv, AttemptsInv
<1>2. QED
  BY <1>1, StorageInvariant, PTL

\* Pages of a COMPLETED document come from its latest attempt and from the clean
\* file its row names: a slow attempt whose token is stale stores nothing.
THEOREM PagesNeverStale == StorageSpec => []CompletedPagesCurrent
<1>1. StorageInv => CompletedPagesCurrent
  BY DEF StorageInv, AttemptsInv
<1>2. QED
  BY <1>1, StorageInvariant, PTL

\* A current attempt always sees the clean file it started with, so the drift
\* branch of persist_parse_results is never taken.
THEOREM DriftImpossible == StorageSpec => []SnapshotNeverDrifts
<1>1. StorageInv => SnapshotNeverDrifts
  BY DEF StorageInv, AttemptsInv
<1>2. QED
  BY <1>1, StorageInvariant, PTL

\* A quarantine file that outlives its promotion is marked for cleanup, has a task
\* about to unlink it, or was left by a cut-off, with duplicated promotions too.
THEOREM LeftoversMarked == StorageSpec => []LeftoverMarked
<1>1. StorageInit => LeftoverMarked
  BY DEF StorageInit, LeftoverMarked, ParseableStatus
<1>2. StorageInv /\ StorageInv' /\ LeftoverMarked /\ [StorageNext]_storageVars =>
          LeftoverMarked'
  <2> SUFFICES ASSUME StorageInv, StorageInv', LeftoverMarked, [StorageNext]_storageVars
               PROVE  LeftoverMarked'
    OBVIOUS
  <2>1. CASE PromNext
    BY <2>1, PromKeepsLeftovers DEF StorageInv
  <2>2. CASE ParseNext /\ UNCHANGED <<loop, promVars>>
    BY <2>2, ParseKeepsLeftovers DEF StorageInv
  <2>3. CASE UNCHANGED storageVars
    BY <2>3 DEF storageVars, storeVars, promVars, LeftoverMarked
  <2>4. ASSUME NEW p \in Processes, StorageLoopBlocks(p) \/ LoopWakes(p),
               UNCHANGED <<promVars, parseVars>>
        PROVE  LeftoverMarked'
    BY <2>4 DEF StorageLoopBlocks, LoopBlocks, LoopWakes, storeVars, promVars,
                LeftoverMarked
  <2>5. QED
    BY <2>1, <2>2, <2>3, <2>4 DEF StorageNext, StorageDone
<1>3. QED
  BY <1>1, <1>2, StorageInvariant, PTL DEF StorageSpec
=============================================================================
