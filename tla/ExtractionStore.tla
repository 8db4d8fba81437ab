--------------------------- MODULE ExtractionStore ---------------------------
(***************************************************************************)
(* The tables extraction, review and the legacy processing job share, for   *)
(* one document of one organisation: its pages, the ExtractionRun rows, the *)
(* RequirementCandidate rows with their CandidateReviewTask, the promoted   *)
(* Requirement rows and the row locks PostgreSQL keeps on the document, on  *)
(* its pages and on the candidates.                                         *)
(*                                                                          *)
(* The snapshot hash covers the id of every page, and pages are only ever   *)
(* replaced as a whole, so a generation number stands for the pages and for *)
(* their hash.  Sessions run at READ COMMITTED: a plain SELECT takes no     *)
(* lock and is a step of its own; what follows a FOR UPDATE up to the       *)
(* commit is one step unless the transaction has to wait in between.        *)
(***************************************************************************)
EXTENDS Naturals, FiniteSets

CONSTANTS
    Jobs,            \* deliveries of extract_requirements_task for the document
    Requests,        \* review submissions
    Candidates,      \* ids a RequirementCandidate may get
    PromptVersions,  \* PROMPT_VERSIONs of the workers of a rolling deployment
    Nobody,          \* holds no lock
    Legacy           \* the legacy processing job, as a lock holder

ASSUME StoreAssumption ==
    /\ Nobody \notin Jobs \cup Requests \cup {Legacy}
    /\ Legacy \notin Jobs \cup Requests
    /\ Jobs \cap Requests = {}
    /\ PromptVersions # {}

VARIABLES
    ingestion,    \* Document.ingestion_status: CLEAN until parsed, then COMPLETED
    pages,        \* generation of the DocumentPage rows; hashed: content_sha256 set
    run,          \* run[j]: the ExtractionRun delivery j created
    candidate,    \* candidate[c]: the RequirementCandidate row and its task
    promoted,     \* candidates some Requirement.source_candidate_id names
    docLock,      \* the job that holds FOR UPDATE on the Document row
    pageLock,     \* the legacy job deleted the page rows and has not committed
    rowLock       \* rowLock[c]: who holds the candidate (and its task) row

content == <<ingestion, pages, run, candidate, promoted>>
tables == <<content, docLock, pageLock, rowLock>>

RunStatus == {"none", "RUNNING", "COMPLETED", "FAILED"}
DecidedStatus == {"APPROVED", "EDITED", "REJECTED"}
CandidateStatus == {"PROPOSED", "SUPERSEDED"} \cup DecidedStatus
TaskStatus == {"OPEN", "COMPLETED", "SUPERSEDED"}

\* snapshot: input_snapshot_sha256; prompt: prompt_version.
ExtractionRun == [status : RunStatus, snapshot : Nat, prompt : PromptVersions]

RequirementCandidate ==
    [status : CandidateStatus, of : Jobs, page : Nat, task : TaskStatus]
NoCandidate == [status |-> "none"]

StoreTypeOK ==
    /\ ingestion \in {"CLEAN", "COMPLETED"}
    /\ pages \in [generation : Nat, hashed : BOOLEAN]
    /\ run \in [Jobs -> ExtractionRun]
    /\ candidate \in [Candidates -> RequirementCandidate \cup {NoCandidate}]
    /\ promoted \subseteq Candidates
    /\ docLock \in Jobs \cup {Nobody}
    /\ pageLock \in {Legacy, Nobody}
    /\ rowLock \in [Candidates -> Requests \cup {Legacy, Nobody}]

StoreInit ==
    /\ ingestion = "CLEAN"
    /\ pages = [generation |-> 0, hashed |-> FALSE]
    /\ run \in [Jobs -> [status : {"none"}, snapshot : {0}, prompt : PromptVersions]]
    /\ candidate = [c \in Candidates |-> NoCandidate]
    /\ promoted = {}
    /\ docLock = Nobody
    /\ pageLock = Nobody
    /\ rowLock = [c \in Candidates |-> Nobody]

Exists(c) == candidate[c] # NoCandidate
Open(c) == candidate[c].status = "PROPOSED"

\* The unique index uq_extraction_runs_completed_snapshot, and the query of
\* phase A: a COMPLETED run of this document for the snapshot and the prompt.
CompletedRunExists(snapshot, prompt) ==
    \E j \in Jobs : /\ run[j].status = "COMPLETED"
                    /\ run[j].snapshot = snapshot
                    /\ run[j].prompt = prompt

\* Mutant: the foreign key to the candidate cascades too.
PagesDeletableAlways == TRUE

\* DELETE FROM document_pages cascades to the candidates cut from those pages
\* and to their tasks; requirements.source_candidate_id is ON DELETE RESTRICT.
PagesDeletable == promoted = {}

\* The pipeline's persist_parse_results (modelled in DocumentParsing): under
\* the document lock the pages are replaced by hashed ones and the document is
\* COMPLETED, after which it is never parsed again.
ParseCompletes ==
    /\ ingestion = "CLEAN" /\ docLock = Nobody /\ pageLock = Nobody
    /\ ingestion' = "COMPLETED"
    /\ pages' = [generation |-> pages.generation + 1, hashed |-> TRUE]
    /\ UNCHANGED <<run, candidate, promoted, docLock, pageLock, rowLock>>
=============================================================================
