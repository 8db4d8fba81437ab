--------------------------- MODULE ProviderProofs ---------------------------
(***************************************************************************)
(* Proofs about ProviderExtraction, for any retry and call limits, any      *)
(* number of candidates in an answer and any token costs.                   *)
(***************************************************************************)
EXTENDS ProviderExtraction, FiniteSetTheorems, TLAPS

\* Every request was counted twice over: as an attempt and as a call of the
\* usage, with the tokens of its answer.  Only a transient failure goes back to
\* the call, and only with an attempt left.
AskingInv ==
    /\ usage.calls = asked /\ usage.tokens = charged
    /\ asked <= tries /\ tries <= MaxAttempts /\ asked <= MAX_PROVIDER_CALLS
    /\ pc = "call" => tries < MaxAttempts /\ code \in TransientCodes \cup {"none"}
    /\ RetriesExhausted

\* Both ways out of extract() pass the commit of the usage.
ReportInv ==
    /\ run.status # "RUNNING" => pc = "ended"
    /\ pc \in {"mark", "validate", "ended"} /\ ~unreported =>
            run.calls = asked /\ run.tokens = charged

\* Keys noted so far: those of the units that got past the bounds checks.
LoopInv ==
    /\ pc \in {"call", "report_error", "report_answer", "mark"} =>
            next = 1 /\ rows = {} /\ seen = {}
    /\ rows \subseteq 1..(next - 1)
    /\ \A k \in Keys : k \in seen <=>
            \E j \in 1..(next - 1) : units[j].key = k /\ units[j].fault \notin EarlyFaults
    /\ KeptExactly

ProviderInv == ProviderTypeOK /\ AskingInv /\ ReportInv /\ LoopInv

\* The codes the loop can raise.
LEMMA CodesRaised ==
    /\ \A err \in ApiErrors : CodeOfApiError(err) \in Codes \ {"none"}
    /\ \A stop \in BadStops : CodeOfStop(stop) \in Codes \ ({"none"} \cup TransientCodes)
    /\ \A bad \in BadBodies : CodeOfBody(bad) \in Codes \ ({"none"} \cup TransientCodes)
BY DEF CodeOfApiError, CodeOfStop, CodeOfBody, ApiErrors, BadStops, BadBodies, Codes,
       TransientCodes

\* One more call of the usage leaves its tokens alone.
LEMMA OneMoreCall ==
    ASSUME NEW u \in [calls : Nat, tokens : Nat]
    PROVE  LET v == [u EXCEPT !.calls = @ + 1] IN
           /\ v \in [calls : Nat, tokens : Nat]
           /\ v.calls = u.calls + 1 /\ v.tokens = u.tokens
OBVIOUS

RunRow == [status : {"RUNNING", "COMPLETED", "FAILED"}, calls : Nat, tokens : Nat,
           received : Nat, accepted : Nat, skipped : Int]

\* The counts of a completed run have the types of their columns.
LEMMA CountsFit ==
    ASSUME NEW r \in RunRow, NEW n \in Nat, NEW k \in Nat
    PROVE  [r EXCEPT !.status = "COMPLETED", !.received = n, !.accepted = k,
                     !.skipped = n - k] \in RunRow
<1>1. n - k \in Int
  OBVIOUS
<1>2. \A i \in Int : [r EXCEPT !.status = "COMPLETED", !.received = n, !.accepted = k,
                                !.skipped = i] \in RunRow
  BY ZenonT(30) DEF RunRow
<1>3. QED
  BY <1>1, <1>2

\* extract() makes at least one attempt.
LEMMA MaxAttemptsIsNat == MaxAttempts \in Nat /\ MaxAttempts > 0
BY ProviderAssumption DEF MaxAttempts

\* A run begins in the invariant.
LEMMA ProviderInitInv == ProviderInit => ProviderInv
<1> SUFFICES ASSUME ProviderInit PROVE ProviderInv
  OBVIOUS
<1>1. units \in Seq(CandidateUnit) /\ Len(units) = 0
  BY DEF ProviderInit
<1>2. issues \in [SkipCodes -> Nat]
  BY DEF ProviderInit
<1>3. ProviderTypeOK
  <2>1. usage \in [calls : Nat, tokens : Nat]
    BY DEF ProviderInit, NoCounts
  <2>2. run \in [status : {"RUNNING", "COMPLETED", "FAILED"}, calls : Nat, tokens : Nat,
                 received : Nat, accepted : Nat, skipped : Int]
    BY DEF ProviderInit
  <2>3. pc \in RunSteps /\ code \in Codes /\ next \in 1..(Len(units) + 1)
    BY <1>1 DEF ProviderInit, RunSteps, Codes
  <2>4. QED
    BY <1>1, <1>2, <2>1, <2>2, <2>3 DEF ProviderInit, ProviderTypeOK
<1>4. AskingInv /\ ReportInv
  BY ProviderAssumption, MaxAttemptsIsNat
     DEF ProviderInit, AskingInv, ReportInv, RetriesExhausted, NoCounts
<1>5. LoopInv
  BY DEF ProviderInit, LoopInv, KeptExactly, Sibling
<1>6. QED
  BY <1>3, <1>4, <1>5 DEF ProviderInv

\* A step that leaves the loop's variables and its place before the loop alone
\* keeps what is said of the loop.
LEMMA LoopUntouched ==
    ASSUME ProviderInv, UNCHANGED loopVars,
           pc' \in {"call", "report_error", "report_answer", "mark"} =>
                pc \in {"call", "report_error", "report_answer", "mark"}
    PROVE  LoopInv'
BY DEF ProviderInv, LoopInv, loopVars, KeptExactly, Sibling

\* Steps before the answer: attempts, calls and what they raise.
LEMMA AskingStep ==
    ASSUME ProviderInv,
           ExtractorDisabled \/ ClientFails \/ CallFails \/ MessageRejected \/ BudgetSpent
    PROVE  ProviderInv'
<1> USE ProviderAssumption, MaxAttemptsIsNat, CodesRaised
<1>1. LoopInv'
  BY LoopUntouched DEF ExtractorDisabled, ClientFails, CallFails, MessageRejected,
     BudgetSpent, MayCall, Raise
<1>2. ProviderTypeOK /\ AskingInv /\ ReportInv
  BY DEF ProviderInv
<1>3. ReportInv'
  BY <1>2 DEF ReportInv, ExtractorDisabled, ClientFails, CallFails, MessageRejected,
     BudgetSpent, MayCall, Raise, ProviderTypeOK
<1>4. ProviderTypeOK' /\ AskingInv'
  <2> USE <1>2 DEF ProviderTypeOK, AskingInv, RetriesExhausted, loopVars, spent, RunSteps
  <2>1. CASE ExtractorDisabled
    BY <2>1 DEF ExtractorDisabled, Codes, TransientCodes
  <2>2. CASE ClientFails
    <3>1. PICK c \in {"PROVIDER_UNAVAILABLE", "PROVIDER_AUTH_FAILED"} : Raise(c)
      BY <2>2 DEF ClientFails
    <3>2. QED
      BY <2>2, <3>1 DEF ClientFails, MayCall, Raise, Codes, TransientCodes
  <2>3. CASE CallFails
    <3>1. PICK err \in ApiErrors : Raise(CodeOfApiError(err))
      BY <2>3 DEF CallFails
    <3>2. PICK c \in Codes \ {"none"} : Raise(c)
      BY <3>1
    <3>0. /\ usage' \in [calls : Nat, tokens : Nat]
          /\ usage'.calls = usage.calls + 1 /\ usage'.tokens = usage.tokens
      <4>1. usage' = [usage EXCEPT !.calls = @ + 1]
        BY <2>3 DEF CallFails
      <4>2. QED
        BY ONLY <4>1, OneMoreCall, <1>2 DEF ProviderTypeOK
    <3>a. /\ tries' = tries + 1 /\ asked' = asked + 1 /\ MayCall
          /\ UNCHANGED <<loopVars, run, charged, unreported>>
      BY <2>3 DEF CallFails
    <3>3. ProviderTypeOK'
      BY ONLY <1>2, <3>0, <3>2, <3>a DEF MayCall, Raise, ProviderTypeOK, loopVars, RunSteps
    <3>4. AskingInv'
      BY ONLY <1>2, <3>0, <3>2, <3>a, MaxAttemptsIsNat, ProviderAssumption
         DEF MayCall, Raise, ProviderTypeOK, AskingInv, RetriesExhausted, Codes, TransientCodes
    <3>5. QED
      BY <3>3, <3>4
  <2>4. CASE MessageRejected
    <3>1. PICK tokens \in 0..MaxTokens : Answered(tokens, FALSE)
      BY <2>4 DEF MessageRejected
    <3>2. PICK c \in Codes \ ({"none"} \cup TransientCodes) : Raise(c)
      BY <2>4 DEF MessageRejected
    <3>3. ProviderTypeOK'
      BY <2>4, <3>1, <3>2 DEF MessageRejected, MayCall, Raise, Answered, RecordUsage
    <3>4. AskingInv'
      BY <2>4, <3>1, <3>2 DEF MessageRejected, MayCall, Raise, Answered, RecordUsage
    <3>5. QED
      BY <3>3, <3>4
  <2>5. CASE BudgetSpent
    BY <2>5 DEF BudgetSpent, MayCall
  <2>6. QED
    BY <2>1, <2>2, <2>3, <2>4, <2>5
<1>5. QED
  BY <1>1, <1>3, <1>4 DEF ProviderInv

\* The answer the loop will look at.
LEMMA ParsedStep ==
    ASSUME ProviderInv, MessageParsed
    PROVE  ProviderInv'
<1> USE ProviderAssumption, MaxAttemptsIsNat
<1>1. PICK tokens \in 0..MaxTokens : Answered(tokens, TRUE)
  BY DEF MessageParsed
<1>2. ProviderTypeOK /\ AskingInv /\ ReportInv /\ LoopInv /\ pc = "call"
  BY DEF ProviderInv, MessageParsed, MayCall
<1>3. units' \in Seq(CandidateUnit) /\ Len(units') \in Nat
  <2>1. PICK n \in 0..MAX_CANDIDATES : units' \in [1..n -> CandidateUnit]
    BY DEF MessageParsed, Responses
  <2>2. QED
    BY <2>1
<1>4. LoopInv' /\ next' = 1
  BY <1>2 DEF MessageParsed, LoopInv, KeptExactly, Sibling
<1>5. ProviderTypeOK'
  <2>1. /\ tries' \in Nat /\ asked' \in Nat /\ charged' \in Nat
        /\ usage' \in [calls : Nat, tokens : Nat]
    BY <1>1, <1>2 DEF ProviderTypeOK, Answered, RecordUsage
  <2>2. pc' \in RunSteps /\ UNCHANGED <<code, seen, rows, issues, run, unreported>>
    BY DEF MessageParsed, RunSteps
  <2>3. rows = {}
    BY <1>2 DEF LoopInv
  <2>4. next' \in 1..(Len(units') + 1)
    BY <1>3, <1>4
  <2>5. QED
    BY <1>2, <1>3, <2>1, <2>2, <2>3, <2>4 DEF ProviderTypeOK
<1>6. AskingInv' /\ ReportInv'
  BY <1>1, <1>2
     DEF ProviderTypeOK, MessageParsed, MayCall, Answered, RecordUsage, AskingInv,
         ReportInv, RetriesExhausted
<1>7. QED
  BY <1>4, <1>5, <1>6 DEF ProviderInv

\* The usage commit, and the writes of the run row.
LEMMA RowStep ==
    ASSUME ProviderInv,
           UsageStored \/ UsageLost \/ MarkFailed \/ PersistRefuses \/ PersistCommits
             \/ PersistAborts \/ UNCHANGED providerVars
    PROVE  ProviderInv'
<1>1. LoopInv'
  BY LoopUntouched DEF UsageStored, UsageLost, MarkFailed, PersistRefuses, PersistCommits,
     PersistAborts, providerVars, AfterReport, LoopOver, loopVars
<1>2. ProviderTypeOK /\ AskingInv /\ ReportInv
  BY DEF ProviderInv
<1>3. Cardinality(rows) \in Nat /\ Len(units) \in Nat
  <2>1. rows \subseteq 1..Len(units) /\ Len(units) \in Nat
    BY <1>2 DEF ProviderTypeOK
  <2>2. IsFiniteSet(1..Len(units))
    BY <2>1, FS_Interval
  <2>4. IsFiniteSet(rows)
    BY <2>1, <2>2, FS_Subset
  <2>3. QED
    BY <2>1, <2>4, FS_CardinalityType
<1>4. ProviderTypeOK'
  <2>1. run' \in RunRow
    <3> USE <1>2 DEF ProviderTypeOK, RunRow
    <3>1. CASE UsageStored
      BY <3>1 DEF UsageStored
    <3>2. CASE MarkFailed \/ PersistRefuses
      BY <3>2 DEF MarkFailed, PersistRefuses
    <3>3. CASE PersistCommits
      <4>1. run' = CompletedRow /\ run \in RunRow
        BY <3>3 DEF PersistCommits
      <4>2. CompletedRow \in RunRow
        BY ONLY <1>3, <4>1, CountsFit DEF CompletedRow
      <4>3. QED
        BY <4>1, <4>2
    <3>4. CASE UsageLost \/ PersistAborts \/ UNCHANGED providerVars
      BY <3>4 DEF UsageLost, PersistAborts, providerVars
    <3>5. QED
      BY <3>1, <3>2, <3>3, <3>4
  <2>2. /\ pc' \in RunSteps /\ unreported' \in BOOLEAN
        /\ UNCHANGED <<tries, usage, code, loopVars, spent>>
    BY <1>2 DEF ProviderTypeOK, UsageStored, UsageLost, MarkFailed, PersistRefuses,
       PersistCommits, PersistAborts, providerVars, AfterReport, RunSteps
  <2>3. QED
    BY <1>2, <2>1, <2>2 DEF ProviderTypeOK, loopVars, spent, RunRow
<1>5. AskingInv'
  BY <1>2 DEF ProviderTypeOK, AskingInv, RetriesExhausted, UsageStored, UsageLost,
     MarkFailed, PersistRefuses, PersistCommits, PersistAborts, providerVars, AfterReport,
     LoopOver, loopVars, spent
<1>6. ReportInv'
  BY <1>2 DEF ProviderTypeOK, AskingInv, ReportInv, UsageStored, UsageLost,
     MarkFailed, PersistRefuses, PersistCommits, PersistAborts, providerVars, AfterReport,
     LoopOver, loopVars, spent, CompletedRow
<1>7. QED
  BY <1>1, <1>4, <1>5, <1>6 DEF ProviderInv

\* One iteration of the loop over the candidates.
LEMMA LoopStep ==
    ASSUME ProviderInv, SkipEarly \/ SkipDuplicate \/ SkipUnsafe \/ Accept
    PROVE  ProviderInv'
<1>1. ProviderTypeOK /\ AskingInv /\ ReportInv /\ LoopInv /\ Checking
  BY DEF ProviderInv, SkipEarly, SkipDuplicate, SkipUnsafe, Accept
<1>2. /\ next \in 1..Len(units) /\ next' = next + 1 /\ units' = units
      /\ units[next] \in CandidateUnit
      /\ pc' = pc /\ pc = "validate"
  BY <1>1 DEF Checking, ProviderTypeOK, SkipEarly, SkipDuplicate, SkipUnsafe, Accept
<1>3. AskingInv' /\ ReportInv'
  BY <1>1, <1>2 DEF AskingInv, ReportInv, RetriesExhausted, SkipEarly, SkipDuplicate,
     SkipUnsafe, Accept, spent
<1>4. ProviderTypeOK'
  <2>1. seen' \subseteq Keys /\ rows' \subseteq 1..Len(units)
    BY <1>1, <1>2 DEF ProviderTypeOK, SkipEarly, SkipDuplicate, SkipUnsafe, Accept, NoteKey,
       CandidateUnit
  <2>2. issues' \in [SkipCodes -> Nat]
    <3>1. \A c \in SkipCodes : Skip(c) => issues' \in [SkipCodes -> Nat]
      BY <1>1 DEF ProviderTypeOK, Skip
    <3>2. (\E c \in SkipCodes : Skip(c)) \/ issues' = issues
      BY DEF SkipEarly, SkipDuplicate, SkipUnsafe, Accept, SkipCodes
    <3>3. QED
      BY <1>1, <3>1, <3>2 DEF ProviderTypeOK
  <2>3. next' \in 1..(Len(units') + 1)
    BY <1>1, <1>2 DEF ProviderTypeOK
  <2>4. UNCHANGED <<pc, tries, usage, code, units, run, asked, charged, unreported>>
    BY DEF SkipEarly, SkipDuplicate, SkipUnsafe, Accept, spent
  <2>5. QED
    BY <1>1, <2>1, <2>2, <2>3, <2>4 DEF ProviderTypeOK
<1>5. \A k \in Keys : k \in seen' <=>
            \/ k \in seen
            \/ k = units[next].key /\ units[next].fault \notin EarlyFaults
  BY <1>1, <1>2 DEF SkipEarly, SkipDuplicate, SkipUnsafe, Accept, NoteKey, EarlyFaults,
     CandidateUnit
<1>6. \A i : i \in rows' <=>
            \/ i \in rows
            \/ i = next /\ units[next].fault = "none" /\ units[next].key \notin seen
  BY <1>1, <1>2 DEF SkipEarly, SkipDuplicate, SkipUnsafe, Accept, EarlyFaults
<1>7. 1..(next' - 1) = (1..(next - 1)) \cup {next}
  BY <1>2
<1>8. \A k \in Keys : k \in seen' <=>
            \E j \in 1..(next' - 1) : units[j].key = k /\ units[j].fault \notin EarlyFaults
  BY <1>1, <1>5, <1>7 DEF LoopInv
<1>9. KeptExactly'
  <2> SUFFICES ASSUME NEW i \in 1..(next' - 1)
               PROVE  i \in rows' <=> /\ units[i].fault = "none"
                                      /\ \A j \in 1..(i - 1) : ~Sibling(j, i)
    BY <1>2 DEF KeptExactly, Sibling
  <2>1. CASE i \in 1..(next - 1)
    BY <1>1, <1>2, <1>6, <2>1 DEF LoopInv, KeptExactly
  <2>2. CASE i = next
    <3>1. i \notin rows
      BY <1>1, <1>2, <2>2 DEF LoopInv
    <3>2. units[i].key \in seen <=> \E j \in 1..(i - 1) : Sibling(j, i)
      BY <1>1, <1>2, <2>2 DEF LoopInv, Sibling, CandidateUnit
    <3>3. QED
      BY <1>6, <2>2, <3>1, <3>2
  <2>3. QED
    BY <1>7, <2>1, <2>2
<1>10. rows' \subseteq 1..(next' - 1)
  BY <1>1, <1>6, <1>7 DEF LoopInv
<1>11. LoopInv'
  BY <1>2, <1>8, <1>9, <1>10 DEF LoopInv
<1>12. QED
  BY <1>3, <1>4, <1>11 DEF ProviderInv

\* Every step of a run keeps the invariant.
LEMMA ProviderStepInv == ProviderInv /\ [ProviderNext]_providerVars => ProviderInv'
BY AskingStep, ParsedStep, RowStep, LoopStep DEF ProviderNext, RunOver

\* The invariant the properties of a run follow from: what was asked is counted,
\* both ways out report it, and the loop has kept exactly what it should.
THEOREM ProviderInvariant == ProviderSpec => []ProviderInv
BY ProviderInitInv, ProviderStepInv, PTL DEF ProviderSpec

\* Every variable of a run keeps its type.
THEOREM ProviderTypesCorrect == ProviderSpec => []ProviderTypeOK
BY ProviderInvariant, PTL DEF ProviderInv

\* However failures and half-usable answers alternate, the provider is asked no
\* more often than the call budget and the retry limit of extract() allow.
THEOREM ProviderCallsBounded == ProviderSpec => []CallsBounded
<1>1. ProviderInv => CallsBounded
  BY ProviderAssumption, MaxAttemptsIsNat
     DEF ProviderInv, AskingInv, CallsBounded, ProviderTypeOK
<1>2. QED
  BY <1>1, ProviderInvariant, PTL

\* extract() gives up on a transient failure only with its attempts or calls
\* spent, and asks again only after a transient failure.
THEOREM RetriesAreRight == ProviderSpec => []RetriesExhausted /\ PermanentNotRetried
<1>1. ProviderInv => RetriesExhausted
  BY DEF ProviderInv, AskingInv
<1>2. ProviderInv /\ [ProviderNext]_providerVars =>
        [asked' > asked => code \in TransientCodes \cup {"none"}]_providerVars
  <2> SUFFICES ASSUME ProviderInv, ProviderNext, asked' > asked
               PROVE  code \in TransientCodes \cup {"none"}
    OBVIOUS
  <2>1. CASE MayCall
    BY <2>1 DEF MayCall, ProviderInv, AskingInv
  <2>2. CASE ~MayCall
    <3>1. asked' = asked /\ asked \in Nat
      BY <2>2 DEF ProviderInv, ProviderTypeOK, ProviderNext, ExtractorDisabled, ClientFails, CallFails, MessageRejected,
         MessageParsed, BudgetSpent, UsageStored, UsageLost, SkipEarly, SkipDuplicate,
         SkipUnsafe, Accept, MarkFailed, PersistRefuses, PersistCommits, PersistAborts,
         RunOver, spent, providerVars
    <3>2. QED
      BY <3>1
  <2>3. QED
    BY <2>1, <2>2
<1>3. QED
  BY <1>1, <1>2, ProviderInvariant, PTL DEF ProviderSpec, PermanentNotRetried

\* A finished run shows what the provider charged, unless that commit failed.
THEOREM UsageAlwaysReported == ProviderSpec => []UsageReported
<1>1. ProviderInv => UsageReported
  BY DEF ProviderInv, ReportInv, UsageReported
<1>2. QED
  BY <1>1, ProviderInvariant, PTL

\* The validation loop keeps exactly the faultless first units of their keys.
THEOREM ExactlyTheRightUnitsKept == ProviderSpec => []KeptExactly
<1>1. ProviderInv => KeptExactly
  BY DEF ProviderInv, LoopInv
<1>2. QED
  BY <1>1, ProviderInvariant, PTL

-----------------------------------------------------------------------------
(* The counts of a completed run.                                           *)

\* Every unit looked at is a candidate or one counted issue; the row of a completed
\* run was written when the last unit had been looked at.
AccountInv ==
    /\ next - 1 = Cardinality(rows) + IssuesCounted
    /\ run.status = "COMPLETED" =>
            /\ next = Len(units) + 1
            /\ run.received = Len(units) /\ run.accepted = Cardinality(rows)
            /\ run.skipped = Len(units) - Cardinality(rows)

\* The candidate rows of a run are finitely many.
LEMMA RowsCounted ==
    ASSUME ProviderTypeOK
    PROVE  IsFiniteSet(rows) /\ Cardinality(rows) \in Nat
<1>1. rows \subseteq 1..Len(units) /\ Len(units) \in Nat
  BY DEF ProviderTypeOK
<1>2. IsFiniteSet(1..Len(units))
  BY <1>1, FS_Interval
<1>3. IsFiniteSet(rows)
  BY <1>1, <1>2, FS_Subset
<1>4. QED
  BY <1>3, FS_CardinalityType

\* So are the issues counted.
LEMMA IssuesNatural ==
    ASSUME ProviderTypeOK
    PROVE  IssuesCounted \in Nat
<1>1. \A c \in SkipCodes : issues[c] \in Nat
  BY DEF ProviderTypeOK
<1>2. SkipCodes = {"unknown_source", "invalid_span", "empty_evidence", "evidence_too_long",
                   "text_bounds", "duplicate", "unsafe"}
  BY DEF SkipCodes, EarlyFaults
<1>3. QED
  BY <1>1, <1>2 DEF IssuesCounted

\* A skip adds one to one of the codes, whichever it is.
LEMMA SkipCountsOne ==
    ASSUME ProviderTypeOK, NEW c \in SkipCodes, Skip(c)
    PROVE  IssuesCounted' = IssuesCounted + 1
<1>1. issues'[c] = issues[c] + 1 /\ \A d \in SkipCodes \ {c} : issues'[d] = issues[d]
  BY DEF ProviderTypeOK, Skip
<1>2. SkipCodes = {"unknown_source", "invalid_span", "empty_evidence", "evidence_too_long",
                   "text_bounds", "duplicate", "unsafe"}
  BY DEF SkipCodes, EarlyFaults
<1>3. \A d \in SkipCodes : issues[d] \in Nat /\ issues'[d] \in Nat
  BY <1>1 DEF ProviderTypeOK
<1>4. /\ issues["unknown_source"] \in Nat /\ issues["invalid_span"] \in Nat
      /\ issues["empty_evidence"] \in Nat /\ issues["evidence_too_long"] \in Nat
      /\ issues["text_bounds"] \in Nat /\ issues["duplicate"] \in Nat
      /\ issues["unsafe"] \in Nat
  BY <1>2, <1>3
<1>5. CASE c = "unknown_source"
  <2>1. /\ issues'["unknown_source"] = issues["unknown_source"] + 1
        /\ issues'["invalid_span"] = issues["invalid_span"]
        /\ issues'["empty_evidence"] = issues["empty_evidence"]
        /\ issues'["evidence_too_long"] = issues["evidence_too_long"]
        /\ issues'["text_bounds"] = issues["text_bounds"]
        /\ issues'["duplicate"] = issues["duplicate"]
        /\ issues'["unsafe"] = issues["unsafe"]
    BY <1>1, <1>2, <1>5
  <2>2. QED
    BY ONLY <1>4, <2>1 DEF IssuesCounted
<1>6. CASE c = "invalid_span"
  <2>1. /\ issues'["invalid_span"] = issues["invalid_span"] + 1
        /\ issues'["unknown_source"] = issues["unknown_source"]
        /\ issues'["empty_evidence"] = issues["empty_evidence"]
        /\ issues'["evidence_too_long"] = issues["evidence_too_long"]
        /\ issues'["text_bounds"] = issues["text_bounds"]
        /\ issues'["duplicate"] = issues["duplicate"]
        /\ issues'["unsafe"] = issues["unsafe"]
    BY <1>1, <1>2, <1>6
  <2>2. QED
    BY ONLY <1>4, <2>1 DEF IssuesCounted
<1>7. CASE c = "empty_evidence"
  <2>1. /\ issues'["empty_evidence"] = issues["empty_evidence"] + 1
        /\ issues'["unknown_source"] = issues["unknown_source"]
        /\ issues'["invalid_span"] = issues["invalid_span"]
        /\ issues'["evidence_too_long"] = issues["evidence_too_long"]
        /\ issues'["text_bounds"] = issues["text_bounds"]
        /\ issues'["duplicate"] = issues["duplicate"]
        /\ issues'["unsafe"] = issues["unsafe"]
    BY <1>1, <1>2, <1>7
  <2>2. QED
    BY ONLY <1>4, <2>1 DEF IssuesCounted
<1>8. CASE c = "evidence_too_long"
  <2>1. /\ issues'["evidence_too_long"] = issues["evidence_too_long"] + 1
        /\ issues'["unknown_source"] = issues["unknown_source"]
        /\ issues'["invalid_span"] = issues["invalid_span"]
        /\ issues'["empty_evidence"] = issues["empty_evidence"]
        /\ issues'["text_bounds"] = issues["text_bounds"]
        /\ issues'["duplicate"] = issues["duplicate"]
        /\ issues'["unsafe"] = issues["unsafe"]
    BY <1>1, <1>2, <1>8
  <2>2. QED
    BY ONLY <1>4, <2>1 DEF IssuesCounted
<1>9. CASE c = "text_bounds"
  <2>1. /\ issues'["text_bounds"] = issues["text_bounds"] + 1
        /\ issues'["unknown_source"] = issues["unknown_source"]
        /\ issues'["invalid_span"] = issues["invalid_span"]
        /\ issues'["empty_evidence"] = issues["empty_evidence"]
        /\ issues'["evidence_too_long"] = issues["evidence_too_long"]
        /\ issues'["duplicate"] = issues["duplicate"]
        /\ issues'["unsafe"] = issues["unsafe"]
    BY <1>1, <1>2, <1>9
  <2>2. QED
    BY ONLY <1>4, <2>1 DEF IssuesCounted
<1>10. CASE c = "duplicate"
  <2>1. /\ issues'["duplicate"] = issues["duplicate"] + 1
        /\ issues'["unknown_source"] = issues["unknown_source"]
        /\ issues'["invalid_span"] = issues["invalid_span"]
        /\ issues'["empty_evidence"] = issues["empty_evidence"]
        /\ issues'["evidence_too_long"] = issues["evidence_too_long"]
        /\ issues'["text_bounds"] = issues["text_bounds"]
        /\ issues'["unsafe"] = issues["unsafe"]
    BY <1>1, <1>2, <1>10
  <2>2. QED
    BY ONLY <1>4, <2>1 DEF IssuesCounted
<1>11. CASE c = "unsafe"
  <2>1. /\ issues'["unsafe"] = issues["unsafe"] + 1
        /\ issues'["unknown_source"] = issues["unknown_source"]
        /\ issues'["invalid_span"] = issues["invalid_span"]
        /\ issues'["empty_evidence"] = issues["empty_evidence"]
        /\ issues'["evidence_too_long"] = issues["evidence_too_long"]
        /\ issues'["text_bounds"] = issues["text_bounds"]
        /\ issues'["duplicate"] = issues["duplicate"]
    BY <1>1, <1>2, <1>11
  <2>2. QED
    BY ONLY <1>4, <2>1 DEF IssuesCounted
<1>12. QED
  BY <1>2, <1>5, <1>6, <1>7, <1>8, <1>9, <1>10, <1>11

\* A run begins with nothing counted and nothing looked at.
LEMMA AccountInit == ProviderInit => AccountInv
<1> SUFFICES ASSUME ProviderInit PROVE AccountInv
  OBVIOUS
<1>1. IssuesCounted = 0
  BY DEF ProviderInit, IssuesCounted, SkipCodes, EarlyFaults
<1>2. Cardinality(rows) = 0
  BY FS_EmptySet DEF ProviderInit
<1>3. QED
  BY <1>1, <1>2 DEF ProviderInit, AccountInv

\* One iteration of the loop: the unit becomes a candidate, or one issue.
LEMMA AccountLoop ==
    ASSUME ProviderInv, AccountInv, SkipEarly \/ SkipDuplicate \/ SkipUnsafe \/ Accept
    PROVE  AccountInv'
<1>0. /\ ProviderTypeOK /\ next \in Nat /\ next' = next + 1 /\ run' = run
      /\ rows \subseteq 1..(next - 1) /\ run.status # "COMPLETED"
  BY DEF ProviderInv, ProviderTypeOK, ReportInv, LoopInv, SkipEarly, SkipDuplicate,
     SkipUnsafe, Accept, Checking
<1>1. IsFiniteSet(rows) /\ Cardinality(rows) \in Nat /\ IssuesCounted \in Nat
  BY <1>0, RowsCounted, IssuesNatural
<1>2. CASE Accept
  <2>1. rows' = rows \cup {next} /\ issues' = issues
    BY <1>2 DEF Accept
  <2>2. next \notin rows
    BY <1>0
  <2>3. Cardinality(rows') = Cardinality(rows) + 1
    BY <1>1, <2>1, <2>2, FS_AddElement
  <2>4. IssuesCounted' = IssuesCounted
    BY <2>1 DEF IssuesCounted
  <2>5. QED
    BY <1>0, <1>1, <2>3, <2>4 DEF AccountInv
<1>3. CASE SkipEarly \/ SkipDuplicate \/ SkipUnsafe
  <2>1. PICK c \in SkipCodes : Skip(c)
    BY <1>3 DEF SkipEarly, SkipDuplicate, SkipUnsafe, SkipCodes
  <2>2. rows' = rows
    BY <1>3 DEF SkipEarly, SkipDuplicate, SkipUnsafe
  <2>3. IssuesCounted' = IssuesCounted + 1
    BY <1>0, <2>1, SkipCountsOne
  <2>4. QED
    BY <1>0, <1>1, <2>2, <2>3 DEF AccountInv
<1>4. QED
  BY <1>2, <1>3

\* Every other step leaves the loop's counts alone; only the commit completes the run.
LEMMA AccountStep ==
    ASSUME ProviderInv, AccountInv, [ProviderNext]_providerVars
    PROVE  AccountInv'
<1>0. ProviderTypeOK /\ Cardinality(rows) \in Nat /\ Len(units) \in Nat
  BY RowsCounted DEF ProviderInv, ProviderTypeOK
<1>1. CASE SkipEarly \/ SkipDuplicate \/ SkipUnsafe \/ Accept
  BY <1>1, AccountLoop
<1>2. CASE PersistCommits
  <2>1. UNCHANGED <<units, next, rows, issues>> /\ run' = CompletedRow /\ LoopOver
    BY <1>2 DEF PersistCommits, loopVars
  <2>2. next = Len(units) + 1
    BY <1>0, <2>1 DEF ProviderTypeOK, LoopOver
  <2>3. /\ run'.received = Len(units) /\ run'.accepted = Cardinality(rows)
        /\ run'.skipped = Len(units) - Cardinality(rows)
    BY <1>0, <2>1 DEF ProviderTypeOK, CompletedRow
  <2>4. IssuesCounted' = IssuesCounted
    BY <2>1 DEF IssuesCounted
  <2>5. QED
    BY <2>1, <2>2, <2>3, <2>4 DEF AccountInv
<1>3. CASE \/ ExtractorDisabled \/ ClientFails \/ CallFails \/ MessageRejected \/ MessageParsed
           \/ BudgetSpent \/ UsageStored \/ UsageLost \/ MarkFailed \/ PersistRefuses
  <2>1. UNCHANGED <<next, rows, issues>> /\ run'.status # "COMPLETED"
    <3>1. pc # "ended"
      BY <1>3 DEF ExtractorDisabled, ClientFails, CallFails, MessageRejected, MessageParsed,
         BudgetSpent, UsageStored, UsageLost, MarkFailed, PersistRefuses, MayCall
    <3>2. run.status = "RUNNING"
      BY <3>1 DEF ProviderInv, ReportInv
    <3>3. UNCHANGED <<next, rows, issues>>
      BY <1>3 DEF ExtractorDisabled, ClientFails, CallFails, MessageRejected, MessageParsed,
         BudgetSpent, UsageStored, UsageLost, MarkFailed, PersistRefuses, loopVars
    <3>4. run'.status \in {"RUNNING", "FAILED"}
      BY <1>0, <1>3, <3>2 DEF ProviderTypeOK, ExtractorDisabled, ClientFails, CallFails,
         MessageRejected, MessageParsed, BudgetSpent, UsageStored, UsageLost, MarkFailed,
         PersistRefuses
    <3>5. QED
      BY <3>3, <3>4
  <2>2. QED
    BY <2>1 DEF AccountInv, IssuesCounted
<1>4. CASE PersistAborts \/ RunOver \/ UNCHANGED providerVars
  BY <1>4 DEF AccountInv, IssuesCounted, PersistAborts, RunOver, providerVars, loopVars
<1>5. QED
  BY <1>1, <1>2, <1>3, <1>4 DEF ProviderNext

\* The counts of a completed run row account for every unit of the answer, and the
\* issue counts for every unit that was skipped.
THEOREM EveryUnitAccountedFor == ProviderSpec => []UnitsAccountedFor
<1>1. ProviderInv /\ AccountInv => UnitsAccountedFor
  <2> SUFFICES ASSUME ProviderInv, AccountInv, run.status = "COMPLETED"
               PROVE  UnitsAccountedFor
    BY DEF UnitsAccountedFor
  <2>1. Cardinality(rows) \in Nat /\ Len(units) \in Nat /\ IssuesCounted \in Nat
    BY RowsCounted, IssuesNatural DEF ProviderInv, ProviderTypeOK
  <2>2. QED
    BY <2>1 DEF AccountInv, UnitsAccountedFor
<1>2. ProviderInv /\ AccountInv /\ [ProviderNext]_providerVars => AccountInv'
  BY AccountStep
<1>3. QED
  BY <1>1, <1>2, AccountInit, ProviderInvariant, PTL DEF ProviderSpec
=============================================================================
