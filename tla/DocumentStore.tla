---------------------------- MODULE DocumentStore ----------------------------
(***************************************************************************)
(* The state the ingestion components share: the columns of the Document    *)
(* row that more than one component writes, PostgreSQL's row lock on it,    *)
(* the quarantine file, and the arq job queues in Redis.                    *)
(*                                                                          *)
(* A database transaction that locks the row (SELECT ... FOR UPDATE), reads *)
(* it and commits is ONE step: no other writer can get between.  A read     *)
(* made outside such a transaction is a step of its own, and the value read *)
(* is kept in a variable of the reader until it is used.                    *)
(*                                                                          *)
(* A worker process runs several job slots on one event loop.  Scan and     *)
(* promotion do most of their work in threads of their own, but their first *)
(* lock, what follows the thread, and closing the session need the loop;    *)
(* parsing runs on it altogether.  A FOR UPDATE that the loop itself waits  *)
(* for stops every task of the process that needs the loop.                 *)
(***************************************************************************)
EXTENDS IngestionState, FiniteSets

CONSTANTS
    Docs,             \* documents that may be uploaded (all to one project)
    Rfps,             \* those uploaded with doc_role "rfp"; others: knowledge
    Content,          \* Content[d]: what an ideal scanner says of d's bytes
    Workers,          \* arq job slots running concurrently
    Processes,        \* the worker processes (WorkerSettings.max_jobs slots each)
    ProcessOf,        \* ProcessOf[w]: the process slot w belongs to
    NoOne,            \* nobody holds the lock; no document
    SCAN_MAX_ATTEMPTS, \* settings.SCAN_MAX_ATTEMPTS
    EnqueueOutcomes,  \* subset of {"ok", "lost", "late"}, see below
    CutOffKinds,      \* subset of {"death", "error"}, see below
    MaxCutOffs        \* bound: tasks and requests cut off in one behaviour

\* _enqueue_*_to_redis opens a pool, enqueues and closes.  "ok": the job is
\* queued; "lost": it raises and nothing was queued; "late": the job is queued
\* and then a later await (the reply, redis.close()) raises.
\* A task may be cut off before it has recorded an outcome.  "death": its process
\* dies (a death that takes k tasks with it counts k times) and arq delivers the
\* job again; "error": an exception, or for a parse the CancelledError of
\* job_timeout, leaves it with nobody to catch it, and arq drops the job.
Scanner(w) == <<"scan", w>>
Promoter(w) == <<"promote", w>>
Holders == {"scan", "promote"} \X Workers

ASSUME StoreAssumption ==
    /\ Rfps \subseteq Docs
    /\ Content \in [Docs -> {"benign", "malware", "policy", "untyped"}]
    /\ NoOne \notin Holders /\ NoOne \notin Docs
    /\ ProcessOf \in [Workers -> Processes]
    /\ CutOffKinds \subseteq {"death", "error"}
    /\ EnqueueOutcomes \subseteq {"ok", "lost", "late"}
    /\ SCAN_MAX_ATTEMPTS \in Nat \ {0}
    /\ MaxCutOffs \in Nat

VARIABLES
    status,          \* Document.ingestion_status, NoRow before the INSERT
    scanAttempts,    \* Document.scan_attempt_count
    rowLock,         \* the task whose session holds the row lock across steps
    cleanId,         \* Document.clean_storage_identifier, 0 for NULL; written
                     \* with file_path, which until then names the quarantine file
    quarantineFile,  \* the file exists in quarantine storage
    scanJobs,        \* scan_document_task jobs waiting in Redis
    promoteJobs,     \* promote_document_task jobs waiting in Redis
    parseJobs,       \* parse_document_task jobs waiting in Redis
    cutOffs,         \* tasks and requests cut off so far
    loop             \* loop[p]: the document whose row p's event loop waits for

storeVars == <<status, scanAttempts, rowLock, cleanId, quarantineFile,
               scanJobs, promoteJobs, parseJobs, cutOffs>>

StoreTypeOK ==
    /\ status \in [Docs -> IngestionStatus \cup {NoRow}]
    /\ scanAttempts \in [Docs -> Nat]
    /\ rowLock \in [Docs -> Holders \cup {NoOne}]
    /\ cleanId \in [Docs -> Nat]
    /\ quarantineFile \in [Docs -> BOOLEAN]
    /\ scanJobs \in [Docs -> Nat]
    /\ promoteJobs \in [Docs -> Nat]
    /\ parseJobs \in [Docs -> Nat]
    /\ cutOffs \in 0..MaxCutOffs
    /\ loop \in [Processes -> Docs \cup {NoOne}]

StoreInit ==
    /\ status = [d \in Docs |-> NoRow]
    /\ scanAttempts = [d \in Docs |-> 0]
    /\ rowLock = [d \in Docs |-> NoOne]
    /\ cleanId = [d \in Docs |-> 0]
    /\ quarantineFile = [d \in Docs |-> FALSE]
    /\ scanJobs = [d \in Docs |-> 0]
    /\ promoteJobs = [d \in Docs |-> 0]
    /\ parseJobs = [d \in Docs |-> 0]
    /\ cutOffs = 0
    /\ loop = [p \in Processes |-> NoOne]

\* A transaction may lock or update d's row.
RowFree(d) == rowLock[d] = NoOne

\* The session of a task is closed, or the task dies: its lock is gone.
Released(holder, d) ==
    IF rowLock[d] = holder THEN [rowLock EXCEPT ![d] = NoOne] ELSE rowLock

\* An error may leave a lock with the failed transaction until the session is
\* closed, or come before the lock was asked for.
MayKeep(holder, d) ==
    \/ UNCHANGED rowLock
    \/ RowFree(d) /\ rowLock' = [rowLock EXCEPT ![d] = holder]

\* The event loop of w's process is not waiting for a row.
LoopFree(w) == loop[ProcessOf[w]] = NoOne

\* A task of p asks for a locked row on the event loop, which stops there until
\* the row is free.  (A process that dies meanwhile is replaced by one that takes
\* up the redelivered job and asks again.)
LoopBlocks(p, d) ==
    /\ loop[p] = NoOne /\ ~RowFree(d)
    /\ loop' = [loop EXCEPT ![p] = d]
    /\ UNCHANGED storeVars

LoopWakes(p) ==
    /\ loop[p] # NoOne /\ RowFree(loop[p])
    /\ loop' = [loop EXCEPT ![p] = NoOne]
    /\ UNCHANGED storeVars

\* Event loops that wait for one another: each waits for a row whose holder, one of
\* the tasks in `closing`, needs the loop of one of them to close its session.
\* PostgreSQL sees sessions that are idle in a transaction and no cycle.
Hung(closing) ==
    \E hung \in (SUBSET Processes) \ {{}} : \A p \in hung :
        /\ loop[p] # NoOne
        /\ \E w \in Workers :
            ProcessOf[w] \in hung /\ rowLock[loop[p]] \in {Scanner(w), Promoter(w)} \cap closing

SetStatus(d, s) == status' = [status EXCEPT ![d] = s]

Delivered(outcome) == IF outcome \in {"ok", "late"} THEN 1 ELSE 0
Raises(outcome) == outcome \in {"lost", "late"}

\* An arq enqueue of document d with the given outcome.
EnqueueTo(queue, d, outcome) ==
    [queue EXCEPT ![d] = @ + Delivered(outcome)]

\* A worker picks a job; a job whose worker dies is delivered again, one that
\* raises is not.
TakeFrom(queue, d) == [queue EXCEPT ![d] = @ - 1]
Redeliver(queue, d) == [queue EXCEPT ![d] = @ + 1]

AfterCutOff(queue, d, kind) == IF kind = "death" THEN Redeliver(queue, d) ELSE queue

CutOff == cutOffs < MaxCutOffs /\ cutOffs' = cutOffs + 1

\* project_service._first_active_rfp: the row holds the project's RFP slot.
ActiveRfp(d) == d \in Rfps /\ status[d] # NoRow /\ status[d] \notin TerminalRejected
=============================================================================
