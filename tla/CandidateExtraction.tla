------------------------- MODULE CandidateExtraction -------------------------
(***************************************************************************)
(* worker.extract_requirements_task with create_requirement_candidates.     *)
(* Phase A takes the snapshot under the document lock, phase B reads the    *)
(* pages again (the commit expired them) and asks the extractor, phase C    *)
(* verifies the snapshot under the lock and writes candidates, tasks and    *)
(* the run in one commit.                                                   *)
(*                                                                          *)
(* Inside phase C the PROPOSED candidates of earlier runs are read without  *)
(* a lock (_supersede_stale_candidates), then their open tasks, and both    *)
(* are written by the flush, which waits for whoever holds the rows.        *)
(***************************************************************************)
EXTENDS ExtractionStore

CONSTANT MaxProposals   \* bound: candidates one answer of the extractor keeps

VARIABLES
    extPc,      \* extPc[j]: where delivery j is
    proposals,  \* the candidates its answer will create
    stale,      \* the PROPOSED candidates of other runs it read
    openTasks   \* those of them whose task it read as OPEN

extVars == <<extPc, proposals, stale, openTasks>>

ExtractionStep ==
    {"queued", "request", "extract", "persist", "readTasks", "flush", "ended"}

ExtractionTypeOK ==
    /\ extPc \in [Jobs -> ExtractionStep]
    /\ proposals \in [Jobs -> SUBSET Candidates]
    /\ stale \in [Jobs -> SUBSET Candidates]
    /\ openTasks \in [Jobs -> SUBSET Candidates]

ExtractionInit ==
    /\ extPc = [j \in Jobs |-> "queued"]
    /\ proposals = [j \in Jobs |-> {}]
    /\ stale = [j \in Jobs |-> {}]
    /\ openTasks = [j \in Jobs |-> {}]

ExtAt(j, step) == extPc[j] = step
ExtGoTo(j, step) == extPc' = [extPc EXCEPT ![j] = step]
SetRunStatus(j, s) == run' = [run EXCEPT ![j].status = s]

\* The checks of phase A, in order: COMPLETED, every page hash set and
\* matching, no COMPLETED run for the snapshot.  (Tenant and input budget
\* refuse in the same way, before the run row exists.)
SnapshotAccepted(j) ==
    /\ ingestion = "COMPLETED"
    /\ pages.hashed
    /\ ~CompletedRunExists(pages.generation, run[j].prompt)

PhaseARefuses(j) ==
    /\ ExtAt(j, "queued") /\ docLock = Nobody
    /\ ~SnapshotAccepted(j)
    /\ ExtGoTo(j, "ended")
    /\ UNCHANGED <<tables, proposals, stale, openTasks>>

PhaseASnapshots(j) ==
    /\ ExtAt(j, "queued") /\ docLock = Nobody
    /\ SnapshotAccepted(j)
    /\ run' = [run EXCEPT ![j].status = "RUNNING", ![j].snapshot = pages.generation]
    /\ ExtGoTo(j, "request")
    /\ UNCHANGED <<ingestion, pages, candidate, promoted, docLock, pageLock, rowLock,
                   proposals, stale, openTasks>>

\* Reading an expired page reloads it.  A page that was replaced meanwhile
\* raises outside every handler of the service: the task ends, the run stays
\* RUNNING.
BuildRequest(j) ==
    /\ ExtAt(j, "request")
    /\ ExtGoTo(j, IF pages.generation = run[j].snapshot THEN "extract" ELSE "ended")
    /\ UNCHANGED <<tables, proposals, stale, openTasks>>

\* extractor.extract() with the candidate-local validation of phase C already
\* applied: C is what the answer leaves to be written.
ExtractorAnswers(j) ==
    /\ ExtAt(j, "extract")
    /\ \E C \in SUBSET Candidates :
        /\ Cardinality(C) <= MaxProposals
        /\ \A k \in Jobs : C \cap proposals[k] = {}
        /\ proposals' = [proposals EXCEPT ![j] = C]
    /\ ExtGoTo(j, "persist")
    /\ UNCHANGED <<tables, stale, openTasks>>

\* ExtractionError or any other exception: the run is marked FAILED.
ExtractorFails(j) ==
    /\ ExtAt(j, "extract")
    /\ SetRunStatus(j, "FAILED")
    /\ ExtGoTo(j, "ended")
    /\ UNCHANGED <<ingestion, pages, candidate, promoted, docLock, pageLock, rowLock,
                   proposals, stale, openTasks>>

RunStillValid(j) ==
    /\ run[j].status = "RUNNING"
    /\ ingestion = "COMPLETED"
    /\ pages.generation = run[j].snapshot
    /\ pages.hashed

\* Mutant: phase C does not lock the document.
PersistVerifiesUnlocked(j) ==
    /\ ExtAt(j, "persist") /\ docLock = Nobody
    /\ RunStillValid(j)
    /\ stale' = [stale EXCEPT ![j] =
            {c \in Candidates : Exists(c) /\ Open(c) /\ candidate[c].of # j}]
    /\ ExtGoTo(j, "readTasks")
    /\ UNCHANGED <<tables, proposals, openTasks>>

\* _persist_candidates up to the unlocked SELECT of the stale candidates; the
\* document lock is kept to the commit.
PersistVerifies(j) ==
    /\ ExtAt(j, "persist") /\ docLock = Nobody
    /\ RunStillValid(j)
    /\ docLock' = j
    /\ stale' = [stale EXCEPT ![j] =
            {c \in Candidates : Exists(c) /\ Open(c) /\ candidate[c].of # j}]
    /\ ExtGoTo(j, "readTasks")
    /\ UNCHANGED <<content, pageLock, rowLock,
                   proposals, openTasks>>

PersistRefuses(j) ==
    /\ ExtAt(j, "persist") /\ docLock = Nobody
    /\ ~RunStillValid(j)
    /\ SetRunStatus(j, "FAILED")
    /\ ExtGoTo(j, "ended")
    /\ UNCHANGED <<ingestion, pages, candidate, promoted, docLock, pageLock, rowLock,
                   proposals, stale, openTasks>>

PersistReadsTasks(j) ==
    /\ ExtAt(j, "readTasks")
    /\ openTasks' = [openTasks EXCEPT ![j] =
            {c \in stale[j] : Exists(c) /\ candidate[c].task = "OPEN"}]
    /\ ExtGoTo(j, "flush")
    /\ UNCHANGED <<tables, proposals, stale>>

\* Mutant: an abandoned transaction keeps the document row.
ReleaseDocumentNever(j) == docLock' = docLock

ReleaseDocument(j) == docLock' = IF docLock = j THEN Nobody ELSE docLock

\* The UPDATEs need the stale rows; the INSERTs, by their foreign key, the pages.
RowsFree(j) ==
    /\ \A c \in stale[j] : rowLock[c] = Nobody
    /\ proposals[j] # {} => pageLock = Nobody

\* Mutant: the task of a superseded candidate stays open.
SupersededRowQueued(c, closed) == [candidate[c] EXCEPT !.status = "SUPERSEDED"]

\* The rows as the flush leaves them.  The UPDATE names the primary key only:
\* it writes SUPERSEDED whatever the status is by now.
SupersededRow(c, closed) ==
    [candidate[c] EXCEPT !.status = "SUPERSEDED",
                         !.task = IF closed THEN "SUPERSEDED" ELSE @]

ProposedRow(j) ==
    [status |-> "PROPOSED", of |-> j, page |-> run[j].snapshot, task |-> "OPEN"]

\* Flush and commit: supersede, insert candidates and tasks, COMPLETED.
PersistCommits(j) ==
    /\ ExtAt(j, "flush") /\ RowsFree(j)
    /\ ~CompletedRunExists(run[j].snapshot, run[j].prompt)
    /\ candidate' = [c \in Candidates |->
            IF c \in stale[j] THEN SupersededRow(c, c \in openTasks[j])
            ELSE IF c \in proposals[j] THEN ProposedRow(j)
            ELSE candidate[c]]
    /\ SetRunStatus(j, "COMPLETED")
    /\ ReleaseDocument(j)
    /\ ExtGoTo(j, "ended")
    /\ UNCHANGED <<ingestion, pages, promoted, pageLock, rowLock, proposals, stale, openTasks>>

\* The unique index refuses the commit.  The exception handler queries on the
\* same session, which must be rolled back first: marking FAILED fails too,
\* and the run stays RUNNING.  A deadlock victim and any other database error
\* in phase C end in the same way.
PersistAborts(j) ==
    /\ docLock = j
    /\ ReleaseDocument(j)
    /\ ExtGoTo(j, "ended")
    /\ UNCHANGED <<content, pageLock, rowLock,
                   proposals, stale, openTasks>>

PersistDuplicate(j) ==
    /\ ExtAt(j, "flush") /\ RowsFree(j)
    /\ CompletedRunExists(run[j].snapshot, run[j].prompt)
    /\ PersistAborts(j)

\* The worker dies: PostgreSQL rolls the transaction back, the run stays
\* RUNNING.  arq delivers the job again, which is another delivery.
ExtractionCrash(j) ==
    /\ extPc[j] \notin {"queued", "ended"}
    /\ ReleaseDocument(j)
    /\ ExtGoTo(j, "ended")
    /\ UNCHANGED <<content, pageLock, rowLock,
                   proposals, stale, openTasks>>

ExtractionStepOf(j) ==
    \/ PhaseARefuses(j) \/ PhaseASnapshots(j) \/ BuildRequest(j)
    \/ ExtractorAnswers(j) \/ ExtractorFails(j)
    \/ PersistVerifies(j) \/ PersistRefuses(j) \/ PersistReadsTasks(j)
    \/ PersistCommits(j) \/ PersistDuplicate(j)
=============================================================================
