--------------------------- MODULE DocumentParsing ---------------------------
(***************************************************************************)
(* worker.parse_document_task with services/document_parsing.py: phase A    *)
(* claims the document under the row lock, phase B calls the parser service *)
(* with no transaction open, phase C stores the pages if the attempt is     *)
(* still the current one.  Each phase uses a session of its own, so nothing *)
(* is decided from a stale object; only the snapshot crosses the phases.    *)
(*                                                                          *)
(* parse_attempt_id, a fresh uuid, is written together with the incremented *)
(* parse_attempt_count, so the count stands for both.                       *)
(*                                                                          *)
(* The whole task runs on the event loop: its FOR UPDATE queries are        *)
(* synchronous calls, and only the call of the parser is awaited.           *)
(***************************************************************************)
EXTENDS DocumentStore

CONSTANTS
    PARSE_MAX_ATTEMPTS,
    ParseFaults    \* subset of {"transient", "permanent"}

ASSUME ParseAssumption ==
    /\ PARSE_MAX_ATTEMPTS \in Nat \ {0}
    /\ ParseFaults \subseteq {"transient", "permanent"}

VARIABLES
    parsePc,        \* parsePc[w]: where job slot w is in the parse pipeline
    parseDoc,       \* its document, NoOne while idle
    snapshot,       \* its ParseAttemptSnapshot: attempt (token) and clean file
    parseAttempts,  \* Document.parse_attempt_count / parse_attempt_id
    pages,          \* the attempt and the clean file the DocumentPage rows are of
    extractJobs     \* extract_requirements_task jobs waiting in Redis

parseVars == <<parsePc, parseDoc, snapshot, parseAttempts, pages, extractJobs>>

ParseStep == {"idle", "calling", "failingTransient", "failing", "retry",
              "responded", "enqueueExtraction"}

Snapshot == [attempt : Nat, cleanId : Nat]
NoSnapshot == [attempt |-> 0, cleanId |-> 0]

ParseTypeOK ==
    /\ parsePc \in [Workers -> ParseStep]
    /\ parseDoc \in [Workers -> Docs \cup {NoOne}]
    /\ snapshot \in [Workers -> Snapshot]
    /\ parseAttempts \in [Docs -> Nat]
    /\ pages \in [Docs -> Snapshot]
    /\ extractJobs \in [Docs -> Nat]

ParseInit ==
    /\ parsePc = [w \in Workers |-> "idle"]
    /\ parseDoc = [w \in Workers |-> NoOne]
    /\ snapshot = [w \in Workers |-> NoSnapshot]
    /\ parseAttempts = [d \in Docs |-> 0]
    /\ pages = [d \in Docs |-> NoSnapshot]
    /\ extractJobs = [d \in Docs |-> 0]

ParseAt(w, step) == parsePc[w] = step
ParseGoTo(w, step) == parsePc' = [parsePc EXCEPT ![w] = step]
ParseBusy(w) == parsePc[w] # "idle"

ParseEnd(w) ==
    /\ ParseGoTo(w, "idle")
    /\ parseDoc' = [parseDoc EXCEPT ![w] = NoOne]
    /\ snapshot' = [snapshot EXCEPT ![w] = NoSnapshot]

-----------------------------------------------------------------------------
\* Phase A is refused: already COMPLETED, not CLEAN/PARSE_FAILED, or capped.
PrepareRefused(w, d) ==
    /\ status[d] \notin {"CLEAN", "PARSE_FAILED"}
       \/ parseAttempts[d] >= PARSE_MAX_ATTEMPTS
    /\ UNCHANGED <<status, parsePc, parseDoc, snapshot, parseAttempts>>

\* Mutant: the cap is off by one.
PrepareClaimsOffByOne(w, d) ==
    /\ status[d] \in {"CLEAN", "PARSE_FAILED"}
    /\ parseAttempts[d] <= PARSE_MAX_ATTEMPTS
    /\ SetStatus(d, "PARSING")
    /\ parseAttempts' = [parseAttempts EXCEPT ![d] = @ + 1]
    /\ snapshot' = [snapshot EXCEPT ![w] =
                        [attempt |-> parseAttempts[d] + 1, cleanId |-> cleanId[d]]]
    /\ parseDoc' = [parseDoc EXCEPT ![w] = d]
    /\ ParseGoTo(w, "calling")

\* Phase A claims the document: new attempt, new token, PARSING.
PrepareClaims(w, d) ==
    /\ status[d] \in {"CLEAN", "PARSE_FAILED"}
    /\ parseAttempts[d] < PARSE_MAX_ATTEMPTS
    /\ SetStatus(d, "PARSING")
    /\ parseAttempts' = [parseAttempts EXCEPT ![d] = @ + 1]
    /\ snapshot' = [snapshot EXCEPT ![w] =
                        [attempt |-> parseAttempts[d] + 1, cleanId |-> cleanId[d]]]
    /\ parseDoc' = [parseDoc EXCEPT ![w] = d]
    /\ ParseGoTo(w, "calling")

PrepareParseAttempt(w, d) ==
    /\ ParseAt(w, "idle") /\ parseJobs[d] > 0 /\ RowFree(d) /\ LoopFree(w)
    /\ parseJobs' = TakeFrom(parseJobs, d)
    /\ PrepareRefused(w, d) \/ PrepareClaims(w, d)
    /\ UNCHANGED <<scanAttempts, rowLock, cleanId, quarantineFile, scanJobs, promoteJobs,
                   cutOffs, pages, extractJobs>>

\* A phase of d's parse is waiting for its row on the loop of p.
ParseWaits(p, d) ==
    \E w \in Workers :
        /\ ProcessOf[w] = p
        /\ \/ ParseAt(w, "idle") /\ parseJobs[d] > 0
           \/ parseDoc[w] = d /\ parsePc[w] \in {"responded", "failing", "failingTransient"}

\* The codes that are worth another attempt.  PARSE_TIMEOUT, with which the
\* service reports its own time limit, is not among them.
TRANSIENT_PARSE_ERRORS == {"PARSER_UNAVAILABLE", "PARSER_TIMEOUT"}

\* _resolve_and_verify_clean_file: the file is gone or is not the one expected.
CleanFileErrors == {"PARSER_INPUT_CHANGED"}

\* parse_document, the service's handler, and the extractors behind it (whose
\* codes are not told apart).
ServiceErrors ==
    {"UNSUPPORTED_CONTENT_TYPE", "INVALID_SHA256_PARAMETER", "INVALID_SIZE_PARAMETER",
     "FILE_TOO_LARGE", "SIZE_MISMATCH", "DIGEST_MISMATCH", "PARSE_TIMEOUT",
     "EXTRACTOR_ERROR", "PARSER_INTERNAL_ERROR"}

\* validate_parser_response.
ResponseErrors ==
    {"PARSER_RESPONSE_INVALID", "PARSER_PROTOCOL_ERROR", "PARSER_OUTPUT_LIMIT"}

\* send_document_for_parsing, by where it goes wrong.
ParserErrors ==
    CleanFileErrors \cup ServiceErrors \cup ResponseErrors \cup
    {"PARSER_UNAVAILABLE", "PARSER_TIMEOUT", "PARSER_DOCUMENT_REJECTED",
     "PARSER_RESPONSE_TOO_LARGE"}

\* Phase B: the parser answers ...
ParserAnswers(w) == ParseGoTo(w, "responded")

\* ... or the call raises one of the codes.
ParserRaises(w) ==
    \E code \in ParserErrors :
        \/ /\ code \in TRANSIENT_PARSE_ERRORS /\ "transient" \in ParseFaults
           /\ ParseGoTo(w, "failingTransient")
        \/ /\ code \notin TRANSIENT_PARSE_ERRORS /\ "permanent" \in ParseFaults
           /\ ParseGoTo(w, "failing")

ParserResponds(w) ==
    /\ ParseAt(w, "calling") /\ LoopFree(w)
    /\ ParserAnswers(w) \/ ParserRaises(w)
    /\ UNCHANGED <<storeVars, parseDoc, snapshot, parseAttempts, pages, extractJobs>>

\* Mutant: the status is checked and the attempt token is not.
AttemptCurrentNoToken(w) == status[parseDoc[w]] = "PARSING"

\* The guard of phase C and of the failure path, under the row lock.
AttemptCurrent(w) ==
    LET d == parseDoc[w] IN
    status[d] = "PARSING" /\ parseAttempts[d] = snapshot[w].attempt

\* Mutant: a permanent failure is not recorded.
FailParseAttemptDrops(w) ==
    LET d == parseDoc[w] IN
    /\ parsePc[w] \in {"failing", "failingTransient"} /\ RowFree(d) /\ LoopFree(w)
    /\ status' = IF AttemptCurrent(w) /\ ParseAt(w, "failingTransient")
                 THEN [status EXCEPT ![d] = "PARSE_FAILED"] ELSE status
    /\ IF ParseAt(w, "failingTransient") /\ snapshot[w].attempt < PARSE_MAX_ATTEMPTS
       THEN ParseGoTo(w, "retry") /\ UNCHANGED <<parseDoc, snapshot>>
       ELSE ParseEnd(w)
    /\ UNCHANGED <<scanAttempts, rowLock, cleanId, quarantineFile, scanJobs, promoteJobs,
                   parseJobs, cutOffs, parseAttempts, pages, extractJobs>>

\* fail_parse_attempt; a transient failure below the cap is retried, whether
\* or not the guard let the failure be recorded.
FailParseAttempt(w) ==
    LET d == parseDoc[w] IN
    /\ parsePc[w] \in {"failing", "failingTransient"} /\ RowFree(d) /\ LoopFree(w)
    /\ status' = IF AttemptCurrent(w)
                 THEN [status EXCEPT ![d] = "PARSE_FAILED"] ELSE status
    /\ IF ParseAt(w, "failingTransient") /\ snapshot[w].attempt < PARSE_MAX_ATTEMPTS
       THEN ParseGoTo(w, "retry") /\ UNCHANGED <<parseDoc, snapshot>>
       ELSE ParseEnd(w)
    /\ UNCHANGED <<scanAttempts, rowLock, cleanId, quarantineFile, scanJobs, promoteJobs,
                   parseJobs, cutOffs, parseAttempts, pages, extractJobs>>

\* enqueue_parse_retry: fire and forget.
EnqueueParseRetry(w) ==
    \E outcome \in EnqueueOutcomes :
        /\ ParseAt(w, "retry") /\ LoopFree(w)
        /\ parseJobs' = EnqueueTo(parseJobs, parseDoc[w], outcome)
        /\ ParseEnd(w)
        /\ UNCHANGED <<status, scanAttempts, rowLock, cleanId, quarantineFile, scanJobs,
                       promoteJobs, cutOffs, parseAttempts, pages, extractJobs>>

\* Mutant: phase C trusts what phase A read before the parser call.
PersistParseResultsUnchecked(w) ==
    LET d == parseDoc[w] IN
    /\ ParseAt(w, "responded") /\ RowFree(d) /\ LoopFree(w)
    /\ pages' = [pages EXCEPT ![d] = snapshot[w]]
    /\ SetStatus(d, "COMPLETED")
    /\ ParseGoTo(w, "enqueueExtraction")
    /\ UNCHANGED <<scanAttempts, rowLock, cleanId, quarantineFile, scanJobs, promoteJobs,
                   parseJobs, cutOffs, parseDoc, snapshot, parseAttempts, extractJobs>>

\* Phase C: pages are replaced and COMPLETED set in one transaction, unless
\* the clean file is no longer the one that was parsed.
PersistParseResults(w) ==
    LET d == parseDoc[w] IN
    /\ ParseAt(w, "responded") /\ RowFree(d) /\ LoopFree(w) /\ AttemptCurrent(w)
    /\ IF cleanId[d] # snapshot[w].cleanId
       THEN /\ SetStatus(d, "PARSE_FAILED")
            /\ ParseEnd(w)
            /\ UNCHANGED pages
       ELSE /\ pages' = [pages EXCEPT ![d] = snapshot[w]]
            /\ SetStatus(d, "COMPLETED")
            /\ ParseGoTo(w, "enqueueExtraction")
            /\ UNCHANGED <<parseDoc, snapshot>>
    /\ UNCHANGED <<scanAttempts, rowLock, cleanId, quarantineFile, scanJobs, promoteJobs,
                   parseJobs, cutOffs, parseAttempts, extractJobs>>

\* Phase C of a superseded attempt: logged, nothing written.
PersistStale(w) ==
    /\ ParseAt(w, "responded") /\ RowFree(parseDoc[w]) /\ LoopFree(w)
    /\ ~AttemptCurrent(w)
    /\ ParseEnd(w)
    /\ UNCHANGED <<storeVars, parseAttempts, pages, extractJobs>>

\* enqueue_extraction_job: a failure is audited and nothing else.
EnqueueExtractionJob(w) ==
    \E outcome \in EnqueueOutcomes :
        /\ ParseAt(w, "enqueueExtraction") /\ LoopFree(w)
        /\ extractJobs' = EnqueueTo(extractJobs, parseDoc[w], outcome)
        /\ ParseEnd(w)
        /\ UNCHANGED <<storeVars, parseAttempts, pages>>

\* The worker dies and the job is delivered again (and finds PARSING); or the task
\* is cancelled while it awaits the parser (job_timeout: `except Exception` does
\* not catch a CancelledError), or a database error leaves it.  In phase C the
\* session is not rolled back, so the fail_parse_attempt that follows raises too.
\* Either way the row stays PARSING.
ParseCutOff(w) ==
    \E kind \in CutOffKinds :
        /\ ParseBusy(w) /\ CutOff
        /\ kind = "error" => LoopFree(w)
        /\ parseJobs' = AfterCutOff(parseJobs, parseDoc[w], kind)
        /\ ParseEnd(w)
        /\ UNCHANGED <<status, scanAttempts, rowLock, cleanId, quarantineFile, scanJobs,
                       promoteJobs, parseAttempts, pages, extractJobs>>

ParseAdvance(w) ==
    \/ ParserResponds(w) \/ FailParseAttempt(w) \/ EnqueueParseRetry(w)
    \/ PersistParseResults(w) \/ PersistStale(w)
    \/ EnqueueExtractionJob(w)

ParseNext ==
    \E w \in Workers :
        \/ \E d \in Docs : PrepareParseAttempt(w, d)
        \/ ParseAdvance(w)
        \/ ParseCutOff(w)
=============================================================================
