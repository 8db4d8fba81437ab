------------------------- MODULE ProviderExtraction -------------------------
(***************************************************************************)
(* One extraction run from the first provider call to the run row: the      *)
(* retry loop of AnthropicRequirementExtractor, the classification of what  *)
(* the provider answers, the usage accounting and the candidate-by-candidate*)
(* validation of _persist_candidates.  CandidateExtraction has the same run *)
(* among its neighbours, with the answer reduced to what it leaves.         *)
(***************************************************************************)
EXTENDS Integers, Sequences, FiniteSets

CONSTANTS
    MAX_RETRIES,            \* REQUIREMENT_EXTRACTION_MAX_RETRIES
    MAX_PROVIDER_CALLS,     \* REQUIREMENT_EXTRACTION_MAX_PROVIDER_CALLS
    MAX_CANDIDATES,         \* MAX_CANDIDATES_PER_DOCUMENT
    Keys,                   \* dedup keys: page, span, first 100 characters
    MaxTokens               \* bound: tokens one message costs

ASSUME ProviderAssumption ==
    /\ MAX_RETRIES \in Nat
    /\ MAX_PROVIDER_CALLS \in Nat \ {0}
    /\ MAX_CANDIDATES \in Nat /\ MaxTokens \in Nat

-----------------------------------------------------------------------------
(* What the provider may answer.                                            *)

\* The first reason the loop meets for skipping the unit, duplicates aside.
\* The contract already refuses an empty or reversed span.
EarlyFaults == {"unknown_source", "invalid_span", "empty_evidence", "evidence_too_long",
                "text_bounds"}
Faults == EarlyFaults \cup {"none", "unsafe"}
SkipCodes == EarlyFaults \cup {"duplicate", "unsafe"}

CandidateUnit == [key : Keys, fault : Faults]

\* What client.messages.create raises.
ApiErrors == {"timeout", "rate_limit", "authentication", "permission", "status_529",
              "status_5xx", "status_400_schema", "status_4xx", "connection", "unexpected"}

\* Stop reasons other than the end of a turn.
BadStops == {"max_tokens", "refusal", "pause_turn"}

\* No usable text block, or a text that JSON or the contract refuses; one
\* candidate outside the contract, or one too many, refuses the whole response.
BadBodies == {"no_block", "no_text", "two_texts", "blank", "malformed", "contract"}

\* ExtractionResponse: the candidate lists the contract lets through.
Responses == UNION {[1..n -> CandidateUnit] : n \in 0..MAX_CANDIDATES}

\* _call_once: the code an exception of the SDK is mapped to; one it does not
\* know escapes extract() and is mapped by the caller.
CodeOfApiError(err) ==
    CASE err = "timeout" -> "PROVIDER_TIMEOUT"
      [] err = "rate_limit" -> "PROVIDER_RATE_LIMITED"
      [] err \in {"authentication", "permission"} -> "PROVIDER_AUTH_FAILED"
      [] err = "status_529" -> "PROVIDER_OVERLOADED"
      [] err \in {"status_5xx", "connection"} -> "PROVIDER_UNAVAILABLE"
      [] err = "status_400_schema" -> "PROVIDER_SCHEMA_REJECTED"
      [] err = "unexpected" -> "EXTRACTOR_FAILED"
      [] OTHER -> "PROVIDER_RESPONSE_INVALID"

\* _parse_message: stop reason first, then blocks, then the contract.
CodeOfStop(stop) ==
    CASE stop = "max_tokens" -> "PROVIDER_OUTPUT_LIMIT"
      [] stop = "refusal" -> "PROVIDER_RESPONSE_INVALID"
      [] OTHER -> "PROVIDER_RESPONSE_INCOMPLETE"

CodeOfBody(bad) ==
    IF bad \in {"malformed", "contract"} THEN "PROVIDER_RESPONSE_INVALID"
    ELSE "PROVIDER_RESPONSE_INCOMPLETE"

TransientCodes == {"PROVIDER_TIMEOUT", "PROVIDER_RATE_LIMITED", "PROVIDER_OVERLOADED",
                   "PROVIDER_UNAVAILABLE"}

-----------------------------------------------------------------------------
VARIABLES
    pc,         \* where the run is
    tries,      \* attempts of extract() so far
    usage,      \* ProviderUsage: calls and tokens
    code,       \* last_error, "none" before one
    units,      \* response.candidates
    next,       \* the unit the loop looks at
    seen,       \* seen_spans
    rows,       \* indices of the units that become candidates
    issues,     \* issue_counts
    run,        \* the ExtractionRun row
    asked,      \* history: requests that reached the provider
    charged,    \* history: tokens of the messages it sent
    unreported  \* history: the usage could not be stored

loopVars == <<units, next, seen, rows, issues>>
spent == <<asked, charged>>
providerVars == <<pc, tries, usage, code, loopVars, run, spent, unreported>>

RunSteps == {"call", "report_error", "report_answer", "mark", "validate", "ended"}

NoCounts == [calls |-> 0, tokens |-> 0]

ProviderInit ==
    /\ pc = "call" /\ tries = 0 /\ usage = NoCounts /\ code = "none"
    /\ units = <<>> /\ next = 1 /\ seen = {} /\ rows = {}
    /\ issues = [c \in SkipCodes |-> 0]
    /\ run = [status |-> "RUNNING", calls |-> 0, tokens |-> 0,
              received |-> 0, accepted |-> 0, skipped |-> 0]
    /\ asked = 0 /\ charged = 0 /\ unreported = FALSE

\* max(1, MAX_RETRIES + 1)
MaxAttempts == MAX_RETRIES + 1

\* Mutant: only the attempts are counted.
MayCallUncounted == pc = "call" /\ tries < MaxAttempts

\* The head of the loop in extract().
MayCall == pc = "call" /\ tries < MaxAttempts /\ usage.calls < MAX_PROVIDER_CALLS

\* Mutant: one retry too few.
RaiseOffByOne(c) ==
    /\ code' = c
    /\ pc' = IF c \in TransientCodes /\ tries + 2 < MaxAttempts THEN "call"
             ELSE "report_error"

\* The except clause: retry a transient failure unless it was the last attempt,
\* otherwise leave the loop and raise.
Raise(c) ==
    /\ code' = c
    /\ pc' = IF c \in TransientCodes /\ tries + 1 < MaxAttempts THEN "call"
             ELSE "report_error"

\* build_requirement_extractor chose DisabledRequirementExtractor.
ExtractorDisabled ==
    /\ pc = "call" /\ tries = 0
    /\ code' = "EXTRACTOR_NOT_CONFIGURED" /\ pc' = "report_error"
    /\ UNCHANGED <<tries, usage, loopVars, run, spent, unreported>>

\* _get_client: without the SDK or a key it raises, on every attempt alike,
\* before a call is counted; once built the client is kept.
ClientFails ==
    /\ MayCall /\ asked = 0
    /\ tries' = tries + 1
    /\ \E c \in {"PROVIDER_UNAVAILABLE", "PROVIDER_AUTH_FAILED"} :
        code \in {"none", c} /\ Raise(c)
    /\ UNCHANGED <<usage, loopVars, run, spent, unreported>>

\* The client was built at the first attempt.
ClientReady == code = "none" \/ asked > 0

\* messages.create raises: counted as a call, no usage reported.
CallFails ==
    /\ MayCall /\ ClientReady
    /\ tries' = tries + 1
    /\ asked' = asked + 1
    /\ usage' = [usage EXCEPT !.calls = @ + 1]
    /\ \E err \in ApiErrors : Raise(CodeOfApiError(err))
    /\ UNCHANGED <<loopVars, run, charged, unreported>>

\* Mutant: the message is parsed first, so that a refused one leaves no usage.
RecordUsageLate(tokens, parsed) ==
    usage' = [calls |-> usage.calls + 1,
              tokens |-> usage.tokens + IF parsed THEN tokens ELSE 0]

\* _record_usage, before anything can reject the message.
RecordUsage(tokens, parsed) ==
    usage' = [calls |-> usage.calls + 1, tokens |-> usage.tokens + tokens]

Answered(tokens, parsed) ==
    /\ tries' = tries + 1
    /\ asked' = asked + 1
    /\ charged' = charged + tokens
    /\ RecordUsage(tokens, parsed)

\* A message with a bad stop reason or without a response the contract accepts.
MessageRejected ==
    /\ MayCall /\ ClientReady
    /\ \E tokens \in 0..MaxTokens : Answered(tokens, FALSE)
    /\ \/ \E stop \in BadStops : Raise(CodeOfStop(stop))
       \/ \E bad \in BadBodies : Raise(CodeOfBody(bad))
    /\ UNCHANGED <<loopVars, run, unreported>>

MessageParsed ==
    /\ MayCall /\ ClientReady
    /\ \E tokens \in 0..MaxTokens : Answered(tokens, TRUE)
    /\ units' \in Responses
    /\ pc' = "report_answer"
    /\ UNCHANGED <<code, next, seen, rows, issues, run, unreported>>

\* The call budget is spent: extract() raises the last error.
BudgetSpent ==
    /\ pc = "call" /\ ~MayCall
    /\ pc' = "report_error"
    /\ UNCHANGED <<tries, usage, code, loopVars, run, spent, unreported>>

-----------------------------------------------------------------------------
(* _record_provider_usage, on both ways out of extract(), in a commit of    *)
(* its own whose failure is swallowed.                                      *)

AfterReport == pc' = IF pc = "report_error" THEN "mark" ELSE "validate"

UsageStored ==
    /\ pc \in {"report_error", "report_answer"}
    /\ run' = [run EXCEPT !.calls = usage.calls, !.tokens = usage.tokens]
    /\ AfterReport
    /\ UNCHANGED <<tries, usage, code, loopVars, spent, unreported>>

UsageLost ==
    /\ pc \in {"report_error", "report_answer"}
    /\ unreported' = TRUE
    /\ AfterReport
    /\ UNCHANGED <<tries, usage, code, loopVars, run, spent>>

-----------------------------------------------------------------------------
(* _persist_candidates: one iteration of the loop over the candidates.      *)

Checking == pc = "validate" /\ next <= Len(units)

Skip(c) == issues' = [issues EXCEPT ![c] = @ + 1]

\* Source, span, evidence and text bounds come before the dedup key is noted.
SkipEarly ==
    /\ Checking /\ units[next].fault \in EarlyFaults
    /\ Skip(units[next].fault)
    /\ next' = next + 1
    /\ UNCHANGED <<pc, tries, usage, code, units, seen, rows, run, spent, unreported>>

SkipDuplicate ==
    /\ Checking /\ units[next].fault \notin EarlyFaults
    /\ units[next].key \in seen
    /\ Skip("duplicate")
    /\ next' = next + 1
    /\ UNCHANGED <<pc, tries, usage, code, units, seen, rows, run, spent, unreported>>

\* find_unsafe_content, after the key was noted.
SkipUnsafe ==
    /\ Checking /\ units[next].fault = "unsafe"
    /\ units[next].key \notin seen
    /\ seen' = seen \cup {units[next].key}
    /\ Skip("unsafe")
    /\ next' = next + 1
    /\ UNCHANGED <<pc, tries, usage, code, units, rows, run, spent, unreported>>

\* Mutant: the key of an accepted unit is not noted.
NoteKeyNever(k) == seen' = seen

NoteKey(k) == seen' = seen \cup {k}

Accept ==
    /\ Checking /\ units[next].fault = "none"
    /\ units[next].key \notin seen
    /\ NoteKey(units[next].key)
    /\ rows' = rows \cup {next}
    /\ next' = next + 1
    /\ UNCHANGED <<pc, tries, usage, code, units, issues, run, spent, unreported>>

-----------------------------------------------------------------------------
(* The run row.                                                             *)

MarkFailed ==
    /\ pc = "mark"
    /\ run' = [run EXCEPT !.status = "FAILED"]
    /\ pc' = "ended"
    /\ UNCHANGED <<tries, usage, code, loopVars, spent, unreported>>

\* The document, its pages or the attempt moved on: nothing of the answer is
\* looked at.
PersistRefuses ==
    /\ pc = "validate" /\ next = 1
    /\ run' = [run EXCEPT !.status = "FAILED"]
    /\ pc' = "ended"
    /\ UNCHANGED <<tries, usage, code, loopVars, spent, unreported>>

LoopOver == pc = "validate" /\ next > Len(units)

\* Mutant: received counts the units that were kept.
CompletedRowKept ==
    [run EXCEPT !.status = "COMPLETED", !.received = Cardinality(rows),
                !.accepted = Cardinality(rows), !.skipped = 0]

\* The counts written with the candidates.
CompletedRow ==
    [run EXCEPT !.status = "COMPLETED", !.received = Len(units),
                !.accepted = Cardinality(rows),
                !.skipped = Len(units) - Cardinality(rows)]

PersistCommits ==
    /\ LoopOver
    /\ run' = CompletedRow
    /\ pc' = "ended"
    /\ UNCHANGED <<tries, usage, code, loopVars, spent, unreported>>

\* A database error: marking the run FAILED fails on the same session.
PersistAborts ==
    /\ LoopOver
    /\ pc' = "ended"
    /\ UNCHANGED <<tries, usage, code, loopVars, run, spent, unreported>>

RunOver == pc = "ended" /\ UNCHANGED providerVars

ProviderNext ==
    \/ ExtractorDisabled \/ ClientFails \/ CallFails \/ MessageRejected \/ MessageParsed \/ BudgetSpent
    \/ UsageStored \/ UsageLost
    \/ SkipEarly \/ SkipDuplicate \/ SkipUnsafe \/ Accept
    \/ MarkFailed \/ PersistRefuses \/ PersistCommits \/ PersistAborts \/ RunOver

ProviderSpec == ProviderInit /\ [][ProviderNext]_providerVars

-----------------------------------------------------------------------------
Codes == {"none", "PROVIDER_AUTH_FAILED", "PROVIDER_SCHEMA_REJECTED",
          "PROVIDER_RESPONSE_INVALID", "PROVIDER_RESPONSE_INCOMPLETE",
          "PROVIDER_OUTPUT_LIMIT", "EXTRACTOR_FAILED",
          "EXTRACTOR_NOT_CONFIGURED"} \cup TransientCodes

\* Every variable of the run holds a value of its type.
ProviderTypeOK ==
    /\ pc \in RunSteps /\ code \in Codes
    /\ tries \in Nat /\ asked \in Nat /\ charged \in Nat
    /\ usage \in [calls : Nat, tokens : Nat]
    /\ units \in Seq(CandidateUnit)
    /\ next \in 1..(Len(units) + 1)
    /\ seen \subseteq Keys
    /\ rows \subseteq 1..Len(units)
    /\ issues \in [SkipCodes -> Nat]
    /\ run \in [status : {"RUNNING", "COMPLETED", "FAILED"}, calls : Nat, tokens : Nat,
                received : Nat, accepted : Nat, skipped : Int]
    /\ unreported \in BOOLEAN

\* The provider is asked at most MAX_PROVIDER_CALLS times and at most once more
\* than MAX_RETRIES, however its failures and half-usable answers alternate.
CallsBounded == asked <= MAX_PROVIDER_CALLS /\ asked <= MaxAttempts

\* A permanent failure ends the asking: a request follows only a transient one.
PermanentNotRetried ==
    [][asked' > asked => code \in TransientCodes \cup {"none"}]_providerVars

\* A run gives up on a transient failure only when its attempts or its calls
\* are spent.
RetriesExhausted ==
    pc \in {"report_error", "mark"} /\ code \in TransientCodes =>
        tries = MaxAttempts \/ asked = MAX_PROVIDER_CALLS

\* What the provider charged is on the run row when the run is over, for failed
\* and refused answers too, unless the commit that stores it failed.
UsageReported ==
    run.status # "RUNNING" /\ ~unreported => run.calls = asked /\ run.tokens = charged

\* What the loop keeps of the units it has looked at: exactly those that have no
\* fault and no earlier unit with their key that got past the bounds checks.  An
\* earlier unsafe unit counts, for its key is noted before its characters are
\* looked at: a bad unit can cost a good one, which SiblingsKept shows.
Sibling(j, i) ==
    /\ units[j].key = units[i].key
    /\ units[j].fault \notin EarlyFaults
KeptExactly ==
    \A i \in 1..(next - 1) :
        i \in rows <=> /\ units[i].fault = "none"
                       /\ \A j \in 1..(i - 1) : ~Sibling(j, i)

\* candidate_extraction.py: "Skipping it and keeping its valid siblings is what a
\* reviewer actually wants".  A unit without fault is kept unless one with its
\* key has been kept before.
SiblingsKept ==
    \A i \in 1..(next - 1) :
        /\ units[i].fault = "none"
        /\ \A j \in rows : j < i => units[j].key # units[i].key
        => i \in rows

\* The counts of a completed run account for every unit of the answer: what was
\* not accepted was skipped, and each skip has its code in
\* validation_issue_counts.
IssuesCounted ==
    issues["unknown_source"] + issues["invalid_span"] + issues["empty_evidence"]
        + issues["evidence_too_long"] + issues["text_bounds"]
        + issues["duplicate"] + issues["unsafe"]
UnitsAccountedFor ==
    run.status = "COMPLETED" =>
        /\ run.received = Len(units)
        /\ run.accepted + run.skipped = run.received
        /\ run.skipped = IssuesCounted
=============================================================================
