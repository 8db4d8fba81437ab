# A TLA+ model of the RFP application

This directory specifies the stateful core of the application in `src/`: the
ingestion pipeline that takes an uploaded document from the HTTP request to stored
pages, the extraction of requirement candidates and their review by people, the
compliance workspace that turns requirements into answers, and the sessions and login
throttling around every request. The models contain what makes these hard: requests
and jobs that interleave, row locks that are shorter than the work, lost, late and
repeated jobs, crashes, unhandled errors, retries, timeouts and an unreachable Redis.
TLC checks them on small instances; TLAPS proves the main safety properties for every
instance.

## 1. The system

| Component | Source (`src/app/...`) | State it keeps | Operations |
|---|---|---|---|
| Ingestion state machine | `services/ingestion_state.py` | `Document.ingestion_status` | `transition` along a fixed table; a same-state call is a no-op without commit |
| Upload intake | `services/project_service.py`, `services/document_ingestion.py`, `services/quarantine_storage.py`, `web/routes/projects.py` | quarantine file, new `Document` row, project row lock | RFP and knowledge upload, streaming, INSERT, type detection, enqueue |
| Queues | `core/queue.py`, arq/Redis | five job queues | enqueue, retry enqueue, recovery handlers |
| Scan | `worker.py`, `services/malware_scan.py` | status, `scan_attempt_count` | `prepare_scan_attempt`, `run_scan`, retry |
| Promotion | `services/clean_storage_promotion.py` | clean files, `clean_storage_identifier`, `cleanup_pending` | staged copy, commit, parse enqueue, unlink |
| Parsing | `services/document_parsing.py` | attempt token and count, `DocumentPage` rows | claim, parser call, persist, fail, retry |
| Requirement extraction | `services/candidate_extraction.py`, `services/anthropic_extractor.py` | `ExtractionRun`, `RequirementCandidate`, `CandidateReviewTask` | snapshot, provider calls, validation, supersede, persist, fail |
| Candidate review | `services/candidate_review.py`, `core/security.py`, `cli/requirement_reviewer.py` | decisions, promoted `Requirement` rows, the reviewer capability | authorise, approve, edit, reject, replay, grant, revoke |
| Legacy processing job | `services/project_service.py`, `worker.py` | `ProcessingJob`, pages, machine-written requirements | retry route, run, replace pages, replace requirements |
| Compliance workspace | `web/routes/compliance.py` | requirement rows, `DraftResponse`, evidence links | edit, delete, merge, split, draft, edit draft, approve, reject, request changes, reopen, assign, export |
| Sessions | `core/sessions/middleware.py`, `core/sessions/store.py`, `scripts/revoke_user_sessions.py` | Redis records and per-user index | resolve, expire, log in, log out, refresh, revoke |
| Login throttling | `core/sessions/throttling.py`, `web/routes/auth.py` | three windowed counters | check, count a failure, reset |
| Scanner client, inspectors, parser service, LLM client | `services/`, `parser_service/` | none | outcomes only |
| Feedback and operations pages, settings, logging, scripts | `web/routes/`, `core/`, `scripts/` | single rows, none | not modelled, section 5 |

How they interact. A request inserts a row and queues a scan job; scan, promotion,
parse and extraction jobs queue one another. All of them share the `Document` row,
and are ordered only by PostgreSQL's row lock, where the code takes it, and by the
status they find. An extraction run writes candidates; reviewers decide them in
requests of their own, and an approval inserts a `Requirement`, which needs the
`Document` row a running extraction may hold. The legacy job replaces the pages of the
same document, which cascades to the candidates. The workspace works on the
requirements. Every request passes through the session middleware; a login also
through the throttle.

What is hard about it:

- **Locks are shorter than the work.** `run_scan` commits its attempt, and so drops the
  lock, before it scans; `promote_document` re-reads its object without a lock; the
  enqueue recovery handlers never lock; extraction reads the candidates it will
  supersede without a lock.
- **ORM objects are caches.** A `with_for_update()` query on a session that already
  holds the object locks the row and returns the old attributes; a commit writes a
  column if it differs from what was loaded, not from what is there.
- **An enqueue is not atomic.** It may store the job and then raise; the caller then
  recovers from a failure that was none.
- **Processes die** between commits, file operations, enqueues and Redis calls, and
  tasks end in exceptions that no handler catches.
- **One event loop, synchronous locks.** The tasks of a worker process share an event
  loop, and some of them ask for a row lock on it.
- **Caps and retries** count attempts in places that a redelivered job passes by.
- **Locks are taken in different orders** by extraction, review and the legacy job, so
  PostgreSQL has to break deadlocks.
- **Each Redis call is an await.** Between the lookup and the save of a session, or
  between the check and the increment of a counter, other requests run.

The properties that make each component correct are those of section 3; the hazards
they are aimed at, with their lines, are in `PROJECT.json`.

## 2. The modules

| Module | Models |
|---|---|
| `IngestionState` | statuses, transition table, the outcomes of `transition()` |
| `DocumentStore` | shared row columns, row lock, quarantine files, job queues, enqueue outcomes, cut-offs, the event loops of the worker processes |
| `IngestionLifecycle` | abstract: rows are created one RFP at a time, a status moves only along the table |
| `UploadIntake`, `MalwareScan`, `CleanPromotion`, `DocumentParsing` | an upload request; the scan, promotion and parse tasks on concurrent job slots |
| `ScanPipeline`, `StoragePipeline`, `IngestionPipeline` | the compositions: requests and scan; promotion and parsing; everything over one table |
| `ExtractionStore` | pages, runs, candidates with their tasks, promoted requirements and the row locks of one document |
| `CandidateExtraction` | `extract_requirements_task` and the three phases of `create_requirement_candidates` |
| `CandidateReview` | the review submissions, their authorisation, the operator CLI |
| `LegacyProcessing` | the legacy `ProcessingJob` |
| `ReviewSystem` | the three above over one document, with crashes, database errors and deadlock detection |
| `CandidateDecisions` | abstract: the machine proposes and withdraws, a human decides an open candidate once |
| `ProviderExtraction` | one run in detail: retry loop, error mapping, usage, candidate-by-candidate validation |
| `WorkspaceRows` | the workspace's rows and how an ORM handler writes them |
| `RequirementMatrix`, `ResponseReview`, `Workspace` | matrix edits; drafting, review and export of answers; both together |
| `Sessions` | the session middleware, the Redis store, the revocation script |
| `LoginThrottle` | login attempts against the three counters |
| `MC...` | instances for TLC |
| `ScanPipelineProofs`, `StorageProofs`, `PipelineProofs`, `ReviewProofs`, `ProviderProofs`, `WorkspaceProofs`, `SessionProofs`, `LoginThrottleProofs` | theorems and proofs |

### State and actions

Every variable stands for a column, a file, a queue, a Redis key, or the local state
of a request or job: where it is and what it read earlier. History variables (in
`Workspace` and `Sessions`) are marked as such; no guard reads them. A few data are
abstracted:

- a clean storage identifier is a number drawn from a per-document counter (a uuid4 is
  never drawn twice), and so is a session id a member of `Ids \ drawn`;
- the pages of a document, and the snapshot hash over them, are a generation number:
  pages are only ever replaced as a whole;
- a requirement's text is a set of fragments; an answer's text is the number of the
  request that wrote it; of the rows that hang off a requirement, those of one
  requirement `Focus` are kept;
- what a model, a scanner, a parser or a password check answers is a free choice
  among the outcomes the code tells apart.

A transaction that locks, reads and commits is one action. An unlocked read, a file
operation, an enqueue, an await, and each commit of a handler that commits several
times are actions of their own; anything may happen in between. Sessions run at READ
COMMITTED: a plain SELECT takes no lock, and what follows a `FOR UPDATE` is one step
up to the commit unless the transaction must wait in between. In the workspace
`Column(loaded, new, now)` is the ORM's rule: a commit updates a column only when the
new value differs from the loaded one. Drafting runs on the event loop of the one web
process, so that between its `max(version)` and its commit no other draft is inserted;
the other handlers run on threads and interleave freely.

### Environment

`Content[d]` says what an ideal scanner would find in a file. `ScanFaults`,
`PromotionFaults` and `ParseFaults` select the failures that may happen; each then
happens or not wherever the code handles it. `EnqueueOutcomes` selects among `ok`
(queued), `lost` (raises, nothing queued) and `late` (queued, and raises all the same).
A run without `late` is called *exact*. Extraction deliveries and the legacy job may
die at every step. Redis may be unreachable at every await. PostgreSQL's deadlock
detector aborts either party. `Tick` moves the clock of `Sessions` and
`LoginThrottle`; Redis drops a key whose TTL has run out.

**Cut-offs.** In the pipeline a task or a request may be *cut off* before it has
recorded an outcome. The kind `death` is the death of its process: the row lock goes,
and arq delivers the job again. The kind `error` is an exception that nobody catches
(outside the `try` of `promote_document` or `run_scan`, inside an `except` block, in
phase C of a parse and again in the `fail_parse_attempt` that follows on the broken
session) or, for a parse, the `CancelledError` of arq's `job_timeout`: arq does not
deliver the job again, and the row lock may stay until the session is closed. Each
cut-off is one task's. A worker process runs up to `max_jobs = 4` tasks and a web
process many requests, so a death that takes *k* of them with it is *k* cut-offs, and
all bounds in terms of `cutOffs` are per task, not per process. `CutOffKinds` selects
the kinds, `MaxCutOffs` bounds their number.

**Event loops.** `ProcessOf` puts job slots into worker processes. Scan and promotion
ask for their first row lock on the event loop of the process, do their work in a
thread, and close their session on the loop again; where the thread ends without a
commit (the idempotency guard of `run_scan`, a refused or overtaken promotion) the row
stays locked until then (`"after"`, `"closing"`). Parsing runs on the loop altogether.
`LoopBlocks` is a loop that waits for a row, during which no other task of the process
takes a step that needs it; `Hung` is a set of loops that wait for one another.

`QUEUE_ENABLED` is true. arq's redelivery is modelled, its delays and retry limit are
not: a queued job may run at any time.

Operators whose comment begins with "Mutant" are plausible mistakes in the
definition that follows them. No specification uses them: they are substituted one at
a time to see that each property can fail.

## 3. What TLC checks

| Run | Instance | Shows |
|---|---|---|
| `scan_live` | fair; one document, two slots of one process, all enqueue outcomes, all scan faults, a death | `NoStrandedScan`: a SCANNING document has a job, a request or a worker that will move it, or its request died; `EventuallyQuiet`: the retries stop unless the event loop hangs |
| `storage_duplicates` | duplicated promotion jobs, all promotion and parse faults, two cut-offs of both kinds | `BytesPreserved`, `CleanHasFile`, `ParseAttemptsCapped`, `CompletedPagesCurrent`, `SnapshotNeverDrifts` |
| `pipeline_exact` | fair, exact; two RFPs, two slots, all faults, a cut-off of either kind | `SingleFlight`, `OneActiveRfp`, `AttemptsBounded` (cap plus cut-offs), `FailedKeepsSource`, `LeftoverMarked`, `TrustedOnlyIfBenign`, `CutOffStrandsOne` (a cut-off task leaves at most one document in a status nobody will change, nothing else leaves any), refinement of `IngestionLifecycle`, `EventuallySettled` (unless something was cut off) |
| `review` | two deliveries with two prompt versions, two submissions, two candidates, the legacy job | `DecidedOnce`, `RequirementBacked`, `OneProposingRun`, `OpenIsQueued`, `ToldTheTruth`, refinement of `CandidateDecisions` |
| `review_live` | fair; two deliveries, one submission, the legacy job | `SubmissionsEnd`, `DocumentUnlocked`: the deadlock detector ends the waits of the three on one another |
| `workspace` | two handlers, three requests, two rows and one that can be split off | `NoUncheckedMachineText`, `ApprovedAgrees`, `QuietMergeKeepsText` |
| `sessions` | two requests, two ids, one user, idle timeout 1, absolute 2, three ticks | `AuthenticatedRecently`, `FreshIdAtLogin`, `EndedStaysEnded` (a session ended while no other request held it; the rest is `LoggedOutStaysOut` below) |
| `provider_extraction` | two retries, two calls, answers of up to three units, two dedup keys | `CallsBounded`, `RetriesExhausted`, `UsageReported`, `KeptExactly` (a unit is lost to its own fault or to an earlier unit of its key; see `SiblingsKept` below), `UnitsAccountedFor` |
| `login_throttle` | fair clock; two attempts, two accounts, one address, limits 1 and 2 | `ThrottleBounded`, `AddressRemembered`, `NoPermanentLockout` |

**Bounds.** Two documents are what a violation of the one-RFP rule needs, two slots,
deliveries, submissions, handlers or attempts what a race needs. Caps of two allow a
first attempt, a retry and a refusal. One or two cut-offs cover a death followed by a
redelivery and a second one in the repeated attempt. One process with two slots is what
a hanging loop needs; the proofs are for any processes. `MaxDuplicates` is the number of
promotion jobs two racing scans can queue. Two prompt versions let a second run
complete for pages that already have one, which is when candidates are superseded.
Three workspace requests are a draft, an edit and an approval, or a merge with two
that interfere. The session bounds reach the absolute timeout, and a second login on
a fresh id; `MaxTime` is one tick more than the absolute timeout. `MaxProposals`,
`MaxServed` and `MaxTokens` bound what one answer keeps, how many requests are served
and what a message costs. Where members of a set are interchangeable, safety runs use
symmetry; liveness runs do not.

**Deadlock.** `review`, `review_live`, `workspace` and `sessions` may stop: every
delivery and submission of the instance has ended, the bound on requests or the clock
is reached.

**Fairness.** Weak fairness for the steps of a request that has begun, for picking up a
queued job, and for the steps of a running job: the event loop and arq's workers keep
running what they started. A step that needs the event loop is enabled only while the
loop is free, and the loop goes on when its row is. That this need not happen is shown
by `LoopRunsOn` below; `EventuallyQuiet` says what holds otherwise. `pipeline_exact` needs no
such exception: without a late enqueue two jobs of one document do not meet, and a lock
left open by an error counts as a cut-off.

`review_live` adds the deadlock detector, which PostgreSQL runs after
`deadlock_timeout`. Nothing else ends a cycle of waits: the rollback of a submission
(`ReviewRollsBack`) is a fault and not fair, a refused text (`ReviewInvalid`) is found
before the submission waits, and the application sets no lock timeout
(`core/database.py`). The throttle asks only that time passes. Uploads, people, faults,
cut-offs and the parse beside the review are not fair. No strong fairness is needed:
whoever waits for a lock waits for a task that is itself scheduled.

### Where the code and its documents disagree

| Run or configuration | Statement refuted | How |
|---|---|---|
| `pipeline_source_lost` | PROMOTION_FAILED preserves the quarantine source (`clean_storage_promotion.py:25`) | the unlocked recovery of a late enqueue overwrites CLEAN after the promoter unlinked the source |
| `review_overwrite` | human decisions "are never rewritten by a machine run" (`candidate_extraction.py:796`) | a rejection committed between the unlocked read of the PROPOSED candidates and the flush becomes SUPERSEDED; the decision record stays. An approval is safe: the INSERT of its `Requirement` waits for the document row the extraction holds |
| `workspace_export` | the export contains "only approved responses" (`README.md:289`) | `edit_draft_response` replaces the text of an approved draft and leaves the draft's status, which is what the export looks at |
| `LoopRunsOn`, `MCLoopHang.cfg` | `run_scan` is in a thread "to avoid blocking the arq event loop" (`worker.py:49`) | the idempotency guard returns without a commit; before the task is back on the loop to close its session, a second job of the document asks for the locked row on that loop. PostgreSQL sees no cycle, so the process hangs |
| `LoggedOutStaysOut`, `MCSessionsLogout.cfg` | a copied cookie "stops working immediately after logout" (`README.md:180`) | a request that was inside when the logout deleted the record saves its copy under the old id (`middleware.py:265`) |
| `ActiveIsRevocable`, `MCSessionsRevocation.cfg` | the script revokes "every active session" (`revoke_user_sessions.py:2`) | a login registers between the read of the user index and its deletion (`store.py:154`, `165`): its session lives on and is in no index |
| `SiblingsKept`, `MCProviderSiblings.cfg` | a malformed candidate is skipped "keeping its valid siblings" (`candidate_extraction.py:693`) | the dedup key, with the first 100 characters of the text, is noted before the characters are checked (`743`, `749`): a unit with a control character further on hides a later sound one |

The first three are runs of `PROJECT.json`. The other four are configurations beside
the passing runs of the same modules (`MCScanPipeline`, `MCSessions`, `MCProvider`), each
of which ends in the counterexample described: the passing property next to it leaves
out exactly that case, and they show that the case is real.

`pipeline_source_lost` and the hang need an enqueue that delivers and raises,
`review_overwrite` and the two about sessions one interleaving, `workspace_export` and
`SiblingsKept` no concurrency at all. What the code does keep in spite of them is
among the passing properties: `BytesPreserved`, `EventuallyQuiet` up to the hang,
`DecidedOnce` with `DecisionsImplemented`, `NoUncheckedMachineText`, `EndedStaysEnded`
and `KeptExactly`.

Observations made while modelling, visible in the models, that no run is about:

- a late enqueue lets two scans of one document run at once, and its unlocked recovery
  can revive a rejected RFP (`queue.py:133`); a redelivered SCANNING job is not compared
  with the attempt cap; an exception the scan re-raises schedules no retry; CLEAN can
  be committed from a cached PROMOTING. `SingleFlight`, `OneActiveRfp` and
  `AttemptsBounded` are therefore checked, and proved, for exact environments;
- the check of the throttle and its increments are separate awaits, so the limits are
  soft (compare `throttling.py:68`); `ThrottleBounded` says by how much;
- with the default `MAX_PROVIDER_CALLS` of 1 the retry setting has no effect;
- a run whose phase C meets a database error stays RUNNING, because marking it FAILED
  uses the same session;
- the TTL of the per-user session index is overwritten by each registration, so it may
  become shorter than that of an older session: a second way to what
  `ActiveIsRevocable` shows.

## 4. What is proved

The theorems hold for all values of the constants (any sets of documents, slots,
deliveries, submissions, users, identifiers; any caps, faults, enqueue outcomes,
numbers and kinds of cut-offs, processes, limits and timeouts), under the named assumptions of the modules
that declare them, which TLC evaluates in every run. Attempts in flight are finitely
many.

**`ScanPipelineProofs`.** `TypesCorrect`; the type invariant needs `BusyHasDoc` (a slot
has a document exactly while it runs a task). `ScanNeverStranded`: the strengthening
says of each step that can make a row SCANNING who is responsible for it afterwards;
the hard cases are the task that ends without writing and the recovery that writes
from an old read.

**`StorageProofs`**, from one invariant `StorageInv`. `BytesNeverLost` and
`CleanAlwaysHasFile` come from `FilesInv`: a slot that renamed its copy finds it in
clean storage, a slot past its commit works on a row whose file is there, complete
files are never removed. `ParseCapHolds`, `PagesNeverStale` and `DriftImpossible` come
from `AttemptsInv`: no slot's token is above the row's count, so a new claim makes every
other token stale. `DriftImpossible` says that the "clean file changed" branch of
`persist_parse_results` is defensive. `LeftoversMarked` is inductive on top of
`StorageInv`.

**`PipelineProofs`**: the composition. `PipelineInv` joins the above with `IntakeInv`
(before the INSERT there is no row, after it everybody who works on a document has
one) and `TrustInv` (whoever may write a trusted status works on a benign document).
Each stage is summed up by what it may do to the others. From that follow
`PipelineKeepsBytes`, `PipelineTrustsOnlyBenign`, `PipelineNeverStrands`,
`PipelineParsesSafely`, `PipelineTypesCorrect` and `PipelineMarksLeftovers`, late
enqueues included.

`PipelineCutOffsStrandOne` needs no more than the types. `Forgotten` says, status by
status, that no request, queued job or task is left that will move the row: a task
whose cached status or token keeps it from writing does not count. `HandsOn` says of a
step that cuts nobody off that whoever it relieves of a document has a successor, a
`CutOffStep` forgets at most the document of the task that was cut off, and the stranded
documents are counted against the cut-offs. The hard cases are the two recovery paths,
which decide from unlocked reads, and the tasks that end without writing: their
unlocked read, when it missed the status, missed it because somebody else had moved the
row. `ScanKeepsHeld` is the part for SCANNING and also gives `ScanNeverStranded`. The
count is per cut-off task: nothing is said about how many of them one death takes.

The rest of the module is about exact environments. Its theorems have the hypothesis
`Exact`, that no enqueue is late; `pipeline_source_lost` shows that
`PipelineFailedKeepsSource` is false without it. The hypothesis is about Redis, not
about the schedule: cut-offs, redeliveries, lost enqueues and faults stay in. Under it
`ExactInv` is inductive:

- `SingleFlight` and `PromotionFlight`: the request, the queue and the slots hand a
  document from one to the next, so that at most one of them has it at each stage;
- `RequestInv`, `TaskInv`, `PromotionInv`: therefore the status each of them cached, and
  later writes from, is the row's status. This is what the code relies on when it
  writes through an object loaded before an await or a file operation;
- `SourceInv`: until the row is open to parsing the quarantine file is there;
- `ProjectInv`: who holds the project row found no active RFP and no one inserts one
  meanwhile; with `RequestInv` and `TaskInv` no rejected RFP comes back;
- `CountInv`: a SCANNING document whose scan has not started has an attempt left. The
  bound alone is not inductive.

From it follow `PipelineSingleFlight`, `PipelineOneActiveRfp`, `PipelineAttemptsBounded`
and `PipelineFailedKeepsSource`, and `PipelineImplementsLifecycle`: every step of the
detailed pipeline creates a row, moves one status along the table, or stutters in
`IngestionLifecycle`. The refinement mapping is the status column itself; the work is
that no write from a cached status leaves the table.

**`ReviewProofs`.** Types first need `LocksInv` (who holds a lock is where the code
takes it) and `StaleExists` (a flush finds the rows it read, because the legacy job,
which alone removes candidates, needs the document row for its commit). `SystemInv`
adds three parts:

- `RunsInv`: every candidate and decision goes back to one completed run, so an id is
  inserted once;
- `QueueInv`: while a run holds the document row it knows every open candidate, and a
  candidate it will supersede without closing its task has no open task. Neither
  `OneProposingRun` nor `OpenIsQueued` is inductive without it;
- `DecideInv`: a submission that decides holds an open candidate of the current pages;
  settled statuses are on record; while the legacy job replaces the pages it holds
  every candidate and no requirement rests on one.

`DecisionsAreFinal`, `RequirementsRestOnDecisions`, `ProposalsDoNotCompete`,
`NothingLeavesTheQueueUnseen` and `SubmissionsToldTheTruth` follow.

`ReviewImplementsDecisions`: `SystemSpec` implements
`CandidateDecisions`, with a candidate's verdict read from the decision records first
and from its row otherwise. A commit of extraction is a `Reconcile`, a page
replacement a `Withdraw`, a committed submission a `Decide`, the deletion of
requirements a `Remove`; everything else stutters. `DecidedOnce` makes the record
unambiguous. The overwritten status of `review_overwrite` is not a counterexample: the
decision record outlives the row.

**`ProviderProofs`.** From one invariant over the retry loop and the validation loop:
`ProviderCallsBounded`, `RetriesAreRight` (with `PermanentNotRetried`),
`UsageAlwaysReported`, `ExactlyTheRightUnitsKept`. `AccountInv` (the units looked at are
as many as the rows and the issues counted) gives `EveryUnitAccountedFor`.

**`WorkspaceProofs`.** The handlers of the workspace take no lock, so `WorkspaceInv` says
of each request in flight how far what it read can be from the rows:

- `JobOK`: what a request of each kind carries;
- `DraftOK`: the draft a reviewer selected is still there (drafts are only appended, and
  deleted with their requirement), and its text is the one that was read or one a person
  has typed since. With it `ApprovedTextVetted`: no schedule approves a machine's text
  unread;
- `ReadOK`: a request not overtaken has the row and the newest draft as they are, which
  gives `ApprovedAnswered`;
- `MergeOK`: a merge not overtaken has its rows with the texts it read, and between its
  two commits the primary holds all of them: `MergesKeepText`, the action property.

**`SessionProofs`.** `SessionInv` consists of the types, `IdInv` and `LoginInv`. `IdInv`
splits the ids into those that carry users and those that never do, and says that only
a request which has deleted an ended id, and will not save under it, still holds it:
`IdsChangeAtLogin` and `EndedSessionsStayEnded`, although `store.save` is
unconditional. `LoginInv` says that a record's anchor is never after the login it counts
from, through refreshes, slow requests and a second login on the same session:
`LoginsAreRecent`.

**`LoginThrottleProofs`.** `OverrunBounded`: the bound on a counter is not inductive; the
counter plus the attempts that passed its check and have yet to record a failure is
(`OverrunInv`). `AddressNotForgiven` is the action property.

**Model-checked only.** Liveness under fairness, which the prover does not support:
`EventuallyQuiet`, `EventuallySettled`, `SubmissionsEnd`, `DocumentUnlocked`,
`NoPermanentLockout`. Every other property of a passing run is also a theorem.

## 5. What is not modelled

- The bytes: file type detection, content inspection, ClamAV's framing, text
  extraction, prompts, JSON handling, evidence and grounding rules, spreadsheet and DOCX
  layout. Their outcomes are free choices.
- arq's `job_timeout` of a scan or a promotion, which cancels the task while its thread
  goes on using the session that is being closed: what two threads do to one SQLAlchemy
  session is outside the model. The timeout of a parse, which has no thread, is a
  cut-off. The legacy job and the extraction, which run on the same loops, are modelled
  apart from them.
- A reaper: the code has none. Rows left in a passing status by a task that was cut off
  stay there; `CutOffStrandsOne` says how many they are and that nothing else leaves
  any. Extraction runs left RUNNING by a database error in their phase C stay too, and
  no property is stated about them.
- The order in which one DELETE statement locks the rows of its cascade: the legacy job
  gets its candidate locks at once (`LegacyDeletesPages`), so that a cycle of three
  parties appears as the cycles of two of them.
- The synchronous fallbacks of `QUEUE_ENABLED=false`; start-up, settings validation,
  logging, metrics; feedback and operations pages, which insert or read single rows;
  one-shot scripts and the offline evaluation, except session revocation.
- The drafting provider's text heuristics and cost arithmetic (`core/llm.py`): pure text
  and number formatting with no state beyond the draft it returns.

## 6. Plan

1. *(done)* The ingestion pipeline with its composition, abstract lifecycle and proofs.
2. *(done)* Extraction, review and the legacy job with their abstract specification,
   its refinement proof and liveness; provider calls; sessions; throttling; the
   compliance workspace.
3. *(done)* Proofs for exact environments, for what a cut-off strands, for the workspace
   and for the counts of a run.
4. Pure algorithms against reference definitions: evidence validation, retry back-off,
   filename normalisation, the client address from forwarded headers.
