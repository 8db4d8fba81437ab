---------------------------- MODULE ReviewProofs ----------------------------
(***************************************************************************)
(* Proofs about ReviewSystem, for any deliveries, submissions, candidates,  *)
(* users and prompt versions.                                               *)
(***************************************************************************)
EXTENDS ReviewSystem, TLAPS

\* A row that exists has all its columns; no row has a status of its own.
LEMMA RowTypes ==
    ASSUME SystemTypeOK
    PROVE  /\ \A c \in Candidates : Exists(c) => candidate[c] \in RequirementCandidate
           /\ NoCandidate \notin RequirementCandidate
           /\ \A r \in Requests : review[r].pc # "idle" => review[r] \in Submission
           /\ \A r \in Requests : review[r].pc # "idle" => review[r].of \in Candidates
           /\ \A r \in Requests : review[r] \in Submission => review[r] # NoSubmission
<1>1. \A x \in RequirementCandidate : x.status \in CandidateStatus
  BY DEF RequirementCandidate
<1>2. NoCandidate.status = "none" /\ "none" \notin CandidateStatus
  BY DEF NoCandidate, CandidateStatus, DecidedStatus
<1>3. \A x \in Submission : x.of \in Candidates
  BY DEF Submission
<1>4. NoSubmission.pc = "idle"
  BY DEF NoSubmission
<1>5. DOMAIN NoSubmission = {"pc"} /\ \A x \in Submission : "user" \in DOMAIN x
  BY DEF NoSubmission, Submission
<1>6. \A c \in Candidates : candidate[c] \in RequirementCandidate \cup {NoCandidate}
  BY DEF SystemTypeOK, StoreTypeOK
<1>7. \A r \in Requests : review[r] \in Submission \cup {NoSubmission}
  BY DEF SystemTypeOK, ReviewTypeOK
<1>8. NoSubmission \notin Submission
  BY <1>5
<1>9. QED
  BY <1>1, <1>2, <1>3, <1>4, <1>6, <1>7, <1>8 DEF Exists

\* The rows a flush writes.
LEMMA FlushRows ==
    ASSUME SystemTypeOK, NEW j \in Jobs, NEW c \in Candidates
    PROVE  /\ ProposedRow(j) \in RequirementCandidate
           /\ ProposedRow(j).status = "PROPOSED" /\ ProposedRow(j).of = j
           /\ ProposedRow(j).task = "OPEN"
           /\ ProposedRow(j).page = run[j].snapshot
           /\ Exists(c) =>
                LET s == SupersededRow(c, c \in openTasks[j]) IN
                /\ s \in RequirementCandidate
                /\ s.status = "SUPERSEDED" /\ s.of = candidate[c].of
                /\ s.page = candidate[c].page
                /\ s.task = IF c \in openTasks[j] THEN "SUPERSEDED" ELSE candidate[c].task
<1>1. run[j].snapshot \in Nat
  BY DEF SystemTypeOK, StoreTypeOK, ExtractionRun
<1>2. ASSUME Exists(c) PROVE candidate[c] \in RequirementCandidate
  BY <1>2, RowTypes
<1>3. QED
  BY <1>1, <1>2 DEF ProposedRow, SupersededRow, RequirementCandidate, CandidateStatus, TaskStatus

-----------------------------------------------------------------------------
(* Types and locks                                                          *)

\* Who holds a lock is where the code takes it: extraction between the
\* verification and the commit of phase C, the legacy job between the deletion
\* of the pages and its commit, a submission while it decides.
LocksInv ==
    /\ \A j \in Jobs : docLock = j <=> extPc[j] \in {"readTasks", "flush"}
    /\ pageLock = Legacy <=> legacy.pc = "insert"
    /\ \A c \in Candidates : rowLock[c] = Legacy => pageLock = Legacy
    /\ \A r \in Requests :
            ReviewAt(r, "decide") => rowLock[review[r].of] = r /\ Exists(review[r].of)

\* A flush finds the rows it read: the legacy job, which alone removes
\* candidates, needs the document row for its commit.
StaleExists ==
    \A j \in Jobs : docLock = j => \A c \in stale[j] : Exists(c)

TypeInv == SystemTypeOK /\ LocksInv /\ StaleExists

\* The system begins well typed.
LEMMA TypesInit == SystemInit => TypeInv
<1> SUFFICES ASSUME SystemInit PROVE TypeInv
  OBVIOUS
<1> USE DEF SystemInit
<1>1. StoreTypeOK
  <2>1. [status : {"none"}, snapshot : {0}, prompt : PromptVersions] \subseteq ExtractionRun
    BY DEF ExtractionRun, RunStatus
  <2>2. run \in [Jobs -> ExtractionRun]
    BY <2>1 DEF StoreInit
  <2>3. QED
    BY <2>2 DEF StoreInit, StoreTypeOK
<1>2. ExtractionTypeOK
  BY DEF ExtractionInit, ExtractionTypeOK, ExtractionStep
<1>3. ReviewTypeOK
  BY DEF ReviewInit, ReviewTypeOK
<1>4. LegacyTypeOK
  BY DEF LegacyInit, LegacyTypeOK, LegacyStep, JobStatus
<1>5. \A r \in Requests : ~ReviewAt(r, "decide")
  BY DEF ReviewInit, ReviewAt, NoSubmission
<1>6. LocksInv /\ StaleExists
  BY <1>5, StoreAssumption
     DEF StoreInit, ExtractionInit, LegacyInit, LocksInv, StaleExists
<1>7. QED
  BY <1>1, <1>2, <1>3, <1>4, <1>6 DEF TypeInv, SystemTypeOK

\* The steps of a delivery.
LEMMA ExtractionTypes ==
    ASSUME TypeInv, NEW j \in Jobs,
           ExtractionStepOf(j) \/ PersistAborts(j) \/ ExtractionCrash(j),
           UNCHANGED <<reviewVars, legacyVars>>
    PROVE  TypeInv'
<1> USE StoreAssumption
<1>1. /\ ingestion' = ingestion /\ pages' = pages /\ promoted' = promoted
      /\ pageLock' = pageLock /\ rowLock' = rowLock
  BY DEF ExtractionStepOf, PhaseARefuses, PhaseASnapshots, BuildRequest, ExtractorAnswers,
     ExtractorFails, PersistVerifies, PersistRefuses, PersistReadsTasks, PersistCommits,
     PersistDuplicate, PersistAborts, ExtractionCrash, tables, content
<1>2. run' \in [Jobs -> ExtractionRun]
  <2>1. \A s \in RunStatus : [run EXCEPT ![j].status = s] \in [Jobs -> ExtractionRun]
    BY DEF TypeInv, SystemTypeOK, StoreTypeOK, ExtractionRun
  <2>2. CASE PhaseASnapshots(j)
    <3>1. run \in [Jobs -> ExtractionRun] /\ pages.generation \in Nat
      BY DEF TypeInv, SystemTypeOK, StoreTypeOK
    <3>2. run' = [run EXCEPT ![j].status = "RUNNING", ![j].snapshot = pages.generation]
      BY <2>2 DEF PhaseASnapshots
    <3>3. QED
      BY <3>1, <3>2 DEF ExtractionRun, RunStatus
  <2>3. CASE \E s \in RunStatus : SetRunStatus(j, s)
    BY <2>1, <2>3 DEF SetRunStatus
  <2>4. CASE run' = run
    BY <2>4 DEF TypeInv, SystemTypeOK, StoreTypeOK
  <2>5. QED
    BY <2>2, <2>3, <2>4 DEF ExtractionStepOf, PhaseARefuses, BuildRequest, ExtractorAnswers,
       ExtractorFails, PersistVerifies, PersistRefuses, PersistReadsTasks, PersistCommits,
       PersistDuplicate, PersistAborts, ExtractionCrash, tables, content, RunStatus
<1>3. /\ \E s \in ExtractionStep : extPc' = [extPc EXCEPT ![j] = s]
      /\ docLock' \in {docLock, j, Nobody}
  BY DEF ExtractionStepOf, PhaseARefuses, PhaseASnapshots, BuildRequest, ExtractorAnswers,
     ExtractorFails, PersistVerifies, PersistRefuses, PersistReadsTasks, PersistCommits,
     PersistDuplicate, PersistAborts, ExtractionCrash, tables, content, ExtGoTo,
     ExtractionStep, ReleaseDocument
<1>4. /\ proposals' \in [Jobs -> SUBSET Candidates]
      /\ stale' \in [Jobs -> SUBSET Candidates]
      /\ openTasks' \in [Jobs -> SUBSET Candidates]
  BY DEF TypeInv, SystemTypeOK, ExtractionTypeOK, ExtractionStepOf, PhaseARefuses,
     PhaseASnapshots, BuildRequest, ExtractorAnswers,
     ExtractorFails, PersistVerifies, PersistRefuses, PersistReadsTasks, PersistCommits,
     PersistDuplicate, PersistAborts, ExtractionCrash
<1>5. docLock' = j <=> extPc'[j] \in {"readTasks", "flush"}
  BY DEF TypeInv, SystemTypeOK, ExtractionTypeOK, LocksInv, ExtractionStepOf, PhaseARefuses,
     PhaseASnapshots, BuildRequest, ExtractorAnswers, ExtAt, ExtGoTo, ReleaseDocument,
     ExtractorFails, PersistVerifies, PersistRefuses, PersistReadsTasks, PersistCommits,
     PersistDuplicate, PersistAborts, ExtractionCrash, tables, content
<1>6. \A k \in Jobs \ {j} : docLock' = k <=> docLock = k
  BY DEF TypeInv, SystemTypeOK, ExtractionTypeOK, LocksInv, ExtractionStepOf, PhaseARefuses,
     PhaseASnapshots, BuildRequest, ExtractorAnswers, ReleaseDocument,
     ExtractorFails, PersistVerifies, PersistRefuses, PersistReadsTasks, PersistCommits,
     PersistDuplicate, PersistAborts, ExtractionCrash, tables, content
<1>7. /\ candidate' \in [Candidates -> RequirementCandidate \cup {NoCandidate}]
      /\ \A c \in Candidates : Exists(c) => Exists(c)'
  <2>1. CASE candidate' = candidate
    BY <2>1 DEF TypeInv, SystemTypeOK, StoreTypeOK, Exists
  <2>2. CASE PersistCommits(j)
    <3>1. docLock = j
      BY <2>2 DEF PersistCommits, ExtAt, TypeInv, LocksInv
    <3>2. \A c \in stale[j] : Exists(c)
      BY <3>1 DEF TypeInv, StaleExists
    <3>3. \A c \in Candidates : /\ candidate'[c] \in RequirementCandidate \/ candidate'[c] = candidate[c]
      <4> SUFFICES ASSUME NEW c \in Candidates
                   PROVE  candidate'[c] \in RequirementCandidate \/ candidate'[c] = candidate[c]
        OBVIOUS
      <4>1. CASE c \in stale[j]
        <5>1. candidate'[c] = SupersededRow(c, c \in openTasks[j])
          BY <2>2, <4>1 DEF PersistCommits
        <5>2. QED
          BY <3>2, <4>1, <5>1, FlushRows DEF TypeInv
      <4>2. CASE c \notin stale[j] /\ c \in proposals[j]
        <5>1. candidate'[c] = ProposedRow(j)
          BY <2>2, <4>2 DEF PersistCommits
        <5>2. QED
          BY <5>1, FlushRows DEF TypeInv
      <4>3. CASE c \notin stale[j] /\ c \notin proposals[j]
        BY <2>2, <4>3 DEF PersistCommits
      <4>4. QED
        BY <4>1, <4>2, <4>3
    <3>4. candidate' = [c \in Candidates |-> candidate'[c]]
      BY <2>2 DEF PersistCommits
    <3>5. QED
      BY <3>3, <3>4, RowTypes DEF TypeInv, SystemTypeOK, StoreTypeOK, Exists
  <2>3. QED
    BY <2>1, <2>2 DEF ExtractionStepOf, PhaseARefuses, PhaseASnapshots, BuildRequest,
       ExtractorAnswers, ExtractorFails, PersistVerifies, PersistRefuses,
       PersistReadsTasks, PersistDuplicate, PersistAborts, ExtractionCrash, tables, content
<1>8. StaleExists'
  <2> SUFFICES ASSUME NEW k \in Jobs, docLock' = k, NEW c \in stale'[k]
               PROVE  Exists(c)'
    BY DEF StaleExists
  <2>0. c \in Candidates
    BY <1>4
  <2>1. CASE PersistVerifies(j) /\ k = j
    <3>1. Exists(c)
      BY <2>1, <2>0 DEF PersistVerifies, TypeInv, SystemTypeOK, ExtractionTypeOK
    <3>2. QED
      BY <2>0, <3>1, <1>7
  <2>2. CASE ~(PersistVerifies(j) /\ k = j)
    <3>1. docLock = k /\ stale'[k] = stale[k]
      BY <2>2, <1>6 DEF ExtractionStepOf, PhaseARefuses, PhaseASnapshots,
         BuildRequest, ExtractorAnswers, ReleaseDocument, ExtractorFails, PersistVerifies,
         PersistRefuses, PersistReadsTasks, PersistCommits, PersistDuplicate,
         PersistAborts, ExtractionCrash, tables, content, TypeInv, SystemTypeOK, ExtractionTypeOK
    <3>2. QED
      BY <2>0, <3>1, <1>7 DEF TypeInv, StaleExists
  <2>3. QED
    BY <2>1, <2>2
<1>9. LocksInv'
  <2>1. \A k \in Jobs : docLock' = k <=> extPc'[k] \in {"readTasks", "flush"}
    BY <1>3, <1>5, <1>6 DEF TypeInv, LocksInv, SystemTypeOK, ExtractionTypeOK
  <2>2. QED
    BY <2>1, <1>1, <1>7, RowTypes DEF TypeInv, LocksInv, reviewVars, legacyVars, ReviewAt
<1>10. SystemTypeOK'
  <2>1. StoreTypeOK'
    BY <1>1, <1>2, <1>3, <1>7 DEF TypeInv, SystemTypeOK, StoreTypeOK
  <2>2. ExtractionTypeOK'
    BY <1>3, <1>4 DEF TypeInv, SystemTypeOK, ExtractionTypeOK
  <2>3. ReviewTypeOK' /\ LegacyTypeOK'
    BY DEF TypeInv, SystemTypeOK, ReviewTypeOK, LegacyTypeOK, reviewVars, legacyVars
  <2>4. QED
    BY <2>1, <2>2, <2>3 DEF SystemTypeOK
<1>11. QED
  BY <1>8, <1>9, <1>10 DEF TypeInv

\* The steps of a submission, of the operator and of the matrix route.
LEMMA ReviewTypes ==
    ASSUME TypeInv, UNCHANGED <<extVars, legacyVars>>,
           \/ \E r \in Requests :
                \/ ReviewStepOf(r) \/ ReviewRollsBack(r)
                \/ \E u \in Users, c \in Candidates, d \in Offered :
                        ReviewAuthorises(r, u, c, d)
           \/ \E u \in Users, grant \in BOOLEAN : SetCapability(u, grant)
           \/ \E c \in Candidates : DeleteRequirement(c)
    PROVE  TypeInv'
<1> USE StoreAssumption, ReviewAssumption, RowTypes
<1>1. CASE \E u \in Users, grant \in BOOLEAN : SetCapability(u, grant)
  BY <1>1 DEF SetCapability, tables, content, extVars, legacyVars, TypeInv, SystemTypeOK,
     StoreTypeOK, ExtractionTypeOK, ReviewTypeOK, LegacyTypeOK, LocksInv, StaleExists,
     ReviewAt, Exists
<1>2. CASE \E c \in Candidates : DeleteRequirement(c)
  BY <1>2 DEF DeleteRequirement, reviewVars, extVars, legacyVars, TypeInv, SystemTypeOK,
     StoreTypeOK, ExtractionTypeOK, ReviewTypeOK, LegacyTypeOK, LocksInv, StaleExists,
     ReviewAt, Exists
<1>3. ASSUME NEW r \in Requests, NEW u \in Users, NEW c \in Candidates, NEW d \in Offered,
             ReviewAuthorises(r, u, c, d)
      PROVE  TypeInv'
  <2> DEFINE submitted == [user |-> u, of |-> c, decision |-> d,
                           pc |-> IF Authorized(u) THEN "lock" ELSE "ended",
                           outcome |-> IF Authorized(u) THEN "none" ELSE "unauthorized"]
  <2>1. review' = [review EXCEPT ![r] = submitted]
    BY <1>3 DEF ReviewAuthorises
  <2>2. /\ review' \in [Requests -> Submission \cup {NoSubmission}]
        /\ review'[r].pc # "decide"
        /\ \A q \in Requests \ {r} : review'[q] = review[q]
    <3>1. submitted \in Submission /\ submitted.pc # "decide"
      BY DEF Submission, ReviewStep, ReviewOutcome, Decision
    <3>2. review \in [Requests -> Submission \cup {NoSubmission}]
      BY DEF TypeInv, SystemTypeOK, ReviewTypeOK
    <3> HIDE DEF submitted
    <3>3. QED
      BY <2>1, <3>1, <3>2
  <2>3. UNCHANGED <<tables, extVars, legacyVars, capability, decisions>>
    BY <1>3 DEF ReviewAuthorises
  <2>4. SystemTypeOK'
    BY <2>2, <2>3 DEF tables, content, extVars, legacyVars, TypeInv, SystemTypeOK,
       StoreTypeOK, ExtractionTypeOK, ReviewTypeOK, LegacyTypeOK
  <2>5. LocksInv' /\ StaleExists'
    BY <2>2, <2>3 DEF tables, content, extVars, legacyVars, TypeInv, LocksInv,
       StaleExists, ReviewAt, Exists
  <2>6. QED
    BY <2>4, <2>5 DEF TypeInv
<1>4. ASSUME NEW r \in Requests,
             ReviewStepOf(r) \/ ReviewRollsBack(r)
      PROVE  TypeInv'
  <2>1. /\ review[r] \in Submission /\ review[r].of \in Candidates
        /\ review[r].decision \in Decision /\ review[r].user \in Users
    <3>1. review[r].pc \in {"lock", "decide"}
      BY <1>4 DEF ReviewStepOf, ReviewNotFound, AlreadyDecided, ReviewDrift, ReviewInvalid, ReviewLocks,
         ReviewCommits, ReviewRollsBack, MayLock, ReviewAt
    <3>2. review[r] \in Submission
      BY <3>1 DEF TypeInv
    <3>3. QED
      BY <3>2 DEF Submission
  <2>2. /\ review' \in [Requests -> Submission \cup {NoSubmission}]
        /\ review'[r].of = review[r].of
        /\ \A q \in Requests \ {r} : review'[q] = review[q]
    <3>1. \/ review' = [review EXCEPT ![r].pc = "decide"]
          \/ \E o \in ReviewOutcome : ReviewEnds(r, o)
      BY <1>4 DEF ReviewStepOf, ReviewNotFound, AlreadyDecided, ReviewDrift, ReviewInvalid, ReviewLocks,
         ReviewCommits, ReviewRollsBack, ReviewOutcome
    <3>2. CASE review' = [review EXCEPT ![r].pc = "decide"]
      BY <2>1, <3>2 DEF TypeInv, SystemTypeOK, ReviewTypeOK, Submission, ReviewStep
    <3>3. ASSUME NEW o \in ReviewOutcome, ReviewEnds(r, o)
          PROVE  /\ review' \in [Requests -> Submission \cup {NoSubmission}]
                 /\ review'[r].of = review[r].of
                 /\ \A q \in Requests \ {r} : review'[q] = review[q]
      BY <2>1, <3>3 DEF TypeInv, SystemTypeOK, ReviewTypeOK, Submission, ReviewStep,
         ReviewEnds
    <3>4. QED
      BY <3>1, <3>2, <3>3
  <2>3. UNCHANGED <<ingestion, pages, run, docLock, pageLock, capability>>
    BY <1>4 DEF ReviewStepOf, ReviewNotFound, AlreadyDecided, ReviewDrift, ReviewInvalid, ReviewLocks,
       ReviewCommits, ReviewRollsBack, tables, content
  <2>4. /\ promoted' \subseteq Candidates
        /\ decisions' \subseteq [of : Candidates, by : Users, decision : Decision]
    <3>1. CASE ReviewCommits(r)
      BY <2>1, <3>1 DEF ReviewCommits, TypeInv, SystemTypeOK, StoreTypeOK, ReviewTypeOK
    <3>2. CASE promoted' = promoted /\ decisions' = decisions
      BY <3>2 DEF TypeInv, SystemTypeOK, StoreTypeOK, ReviewTypeOK
    <3>3. QED
      BY <1>4, <3>1, <3>2 DEF ReviewStepOf, ReviewNotFound, AlreadyDecided, ReviewDrift, ReviewInvalid,
         ReviewLocks, ReviewRollsBack, tables, content
  <2>5. /\ candidate' \in [Candidates -> RequirementCandidate \cup {NoCandidate}]
        /\ \A c \in Candidates : Exists(c) => candidate'[c] # NoCandidate
    <3>1. CASE candidate' = candidate
      BY <3>1 DEF TypeInv, SystemTypeOK, StoreTypeOK, Exists
    <3>2. CASE ReviewCommits(r)
      <4> DEFINE c == review[r].of
                 new == [candidate[c] EXCEPT !.status = StatusOf[review[r].decision],
                                   !.task = IF @ = "OPEN" THEN "COMPLETED" ELSE @]
      <4>1. candidate' = [candidate EXCEPT ![c] = new]
        BY <3>2, <2>1 DEF ReviewCommits, TypeInv, SystemTypeOK, StoreTypeOK
      <4>2. StatusOf[review[r].decision] \in CandidateStatus
        BY <2>1 DEF StatusOf, Decision, CandidateStatus, DecidedStatus
      <4>3. candidate[c] \in RequirementCandidate => new \in RequirementCandidate
        BY <4>2 DEF RequirementCandidate, TaskStatus
      <4>4. new # NoCandidate /\ new \in RequirementCandidate \cup {NoCandidate}
        <5>1. candidate[c] \in RequirementCandidate
          BY <2>1, <3>2 DEF ReviewCommits, TypeInv, LocksInv
        <5> HIDE DEF new
        <5>2. QED
          BY <4>3, <5>1 DEF TypeInv
      <4>5. QED
        BY <4>1, <4>4, <2>1 DEF TypeInv, SystemTypeOK, StoreTypeOK, Exists
    <3>3. QED
      BY <1>4, <3>1, <3>2 DEF ReviewStepOf, ReviewNotFound, AlreadyDecided, ReviewDrift, ReviewInvalid,
         ReviewLocks, ReviewRollsBack, tables, content
  <2>6. /\ rowLock' \in [Candidates -> Requests \cup {Legacy, Nobody}]
        /\ \A c \in Candidates : rowLock'[c] # rowLock[c] =>
                c = review[r].of /\ rowLock'[c] \in {r, Nobody} /\ rowLock[c] \in {r, Nobody}
        /\ review'[r].pc = "decide" => rowLock'[review[r].of] = r /\ Exists(review[r].of)
    <3>0. /\ rowLock \in [Candidates -> Requests \cup {Legacy, Nobody}]
          /\ review \in [Requests -> Submission \cup {NoSubmission}]
      BY DEF TypeInv, SystemTypeOK, StoreTypeOK, ReviewTypeOK
    <3>1. CASE ReviewLocks(r)
      BY <2>1, <3>0, <3>1 DEF ReviewLocks, MayLock, Locks
    <3>2. CASE /\ rowLock' = rowLock
               /\ \E o \in ReviewOutcome : ReviewEnds(r, o)
      BY <2>1, <3>0, <3>2 DEF ReviewEnds
    <3>3. CASE /\ ReviewAt(r, "decide") /\ Locks(review[r].of, Nobody)
               /\ \E o \in ReviewOutcome : ReviewEnds(r, o)
      <4>1. rowLock[review[r].of] = r
        BY <3>3 DEF TypeInv, LocksInv
      <4>2. QED
        BY <2>1, <3>0, <3>3, <4>1 DEF ReviewEnds, Locks
    <3>4. QED
      BY <1>4, <3>1, <3>2, <3>3 DEF ReviewStepOf, ReviewNotFound, AlreadyDecided, ReviewDrift, ReviewInvalid,
         ReviewCommits, ReviewRollsBack, ReviewOutcome, tables
  <2>7. SystemTypeOK'
    BY <2>2, <2>3, <2>4, <2>5, <2>6 DEF extVars, legacyVars, TypeInv, SystemTypeOK,
       StoreTypeOK, ExtractionTypeOK, ReviewTypeOK, LegacyTypeOK
  <2>8. StaleExists'
    BY <2>3, <2>5 DEF extVars, TypeInv, SystemTypeOK, ExtractionTypeOK, StaleExists, Exists
  <2>9. LocksInv'
    <3>1. \A q \in Requests \ {r} : ReviewAt(q, "decide")' =>
                rowLock'[review'[q].of] = q /\ candidate'[review'[q].of] # NoCandidate
      BY <2>2, <2>5, <2>6, StoreAssumption DEF TypeInv, LocksInv, ReviewAt
    <3>2. ReviewAt(r, "decide")' =>
                rowLock'[review'[r].of] = r /\ candidate'[review'[r].of] # NoCandidate
      BY <2>1, <2>2, <2>5, <2>6 DEF ReviewAt
    <3>3. QED
      BY <2>3, <2>6, <3>1, <3>2 DEF extVars, legacyVars, TypeInv, LocksInv, Exists
  <2>10. QED
    BY <2>7, <2>8, <2>9 DEF TypeInv
<1>5. QED
  BY <1>1, <1>2, <1>3, <1>4

\* Giving up the legacy job's locks touches no other lock.
LEMMA LegacyRowsFreed ==
    ASSUME SystemTypeOK, FreeLegacyRows
    PROVE  /\ pageLock' = Nobody
           /\ rowLock' \in [Candidates -> Requests \cup {Legacy, Nobody}]
           /\ \A c \in Candidates : rowLock'[c] # Legacy
           /\ \A c \in Candidates : rowLock[c] # Legacy => rowLock'[c] = rowLock[c]
BY StoreAssumption DEF FreeLegacyRows, SystemTypeOK, StoreTypeOK

\* The steps of the legacy job, and the parse.
LEMMA LegacyTypes ==
    ASSUME TypeInv, UNCHANGED <<extVars, reviewVars>>,
           \/ LegacyStepOf \/ LegacyCrash \/ LegacyFails \/ RetryDocument
           \/ ParseCompletes /\ UNCHANGED legacyVars
    PROVE  TypeInv'
<1> USE StoreAssumption, RetriesAssumption
<1>a. SystemTypeOK
  BY DEF TypeInv
<1>b. ReviewTypeOK' /\ ExtractionTypeOK'
  BY <1>a DEF SystemTypeOK, ReviewTypeOK, ExtractionTypeOK, extVars, reviewVars
<1>c. UNCHANGED <<extPc, stale, review>>
  BY DEF extVars, reviewVars
<1>1. CASE LegacyFails \/ LegacyCrash
  <2>1. /\ UNCHANGED <<content, docLock, machine>>
        /\ FreeLegacyRows
        /\ legacy'.pc # "insert"
        /\ LegacyTypeOK'
    <3>1. CASE LegacyFails
      BY <3>1, <1>a DEF LegacyFails, SystemTypeOK, LegacyTypeOK, LegacyStep, JobStatus
    <3>2. CASE LegacyCrash
      BY <3>2, <1>a DEF LegacyCrash, LegacyGoTo, SystemTypeOK, LegacyTypeOK, LegacyStep
    <3>3. QED
      BY <1>1, <3>1, <3>2
  <2>2. StoreTypeOK'
    BY <2>1, <1>a, LegacyRowsFreed DEF SystemTypeOK, StoreTypeOK, content
  <2>3. LocksInv'
    BY <2>1, <1>a, <1>c, LegacyRowsFreed, RowTypes
       DEF TypeInv, LocksInv, ReviewAt, Exists, content
  <2>4. StaleExists'
    BY <2>1, <1>c DEF TypeInv, StaleExists, Exists, content
  <2>5. QED
    BY <1>b, <2>1, <2>2, <2>3, <2>4 DEF TypeInv, SystemTypeOK
<1>2. CASE /\ UNCHANGED tables
           /\ legacy' \in [pc : LegacyStep \ {"insert"}, status : JobStatus, attempts : Nat]
           /\ processing' \in {"completed", "pending", "processing", "failed"}
           /\ machine' \in BOOLEAN
           /\ legacy.pc # "insert"
  <2>1. legacy'.pc # "insert" /\ LegacyTypeOK'
    BY <1>2 DEF LegacyTypeOK
  <2>2. LocksInv' /\ StaleExists'
    BY <1>2, <1>c, <2>1 DEF TypeInv, LocksInv, StaleExists, ReviewAt, Exists, tables, content
  <2>3. StoreTypeOK'
    BY <1>2, <1>a DEF SystemTypeOK, StoreTypeOK, tables, content
  <2>4. QED
    BY <1>b, <2>1, <2>2, <2>3 DEF TypeInv, SystemTypeOK
<1>3. CASE LegacyDeletesPages
  <2>1. CASE LegacyFails
    BY <1>1, <2>1
  <2>2. CASE /\ pageLock' = Legacy
             /\ rowLock' = [c \in Candidates |-> IF Exists(c) THEN Legacy ELSE Nobody]
             /\ LegacyGoTo("insert")
             /\ UNCHANGED <<content, docLock, processing, machine>>
    <3>1. LegacyTypeOK' /\ legacy'.pc = "insert"
      BY <2>2, <1>a DEF LegacyGoTo, SystemTypeOK, LegacyTypeOK, LegacyStep
    <3>2. \A r \in Requests : ~ReviewAt(r, "decide")
      BY <1>3, <1>a, RowTypes DEF LegacyDeletesPages, TypeInv, LocksInv, ReviewAt
    <3>3. LocksInv'
      BY <1>c, <2>2, <3>1, <3>2 DEF TypeInv, LocksInv, ReviewAt
    <3>4. StaleExists' /\ StoreTypeOK'
      BY <1>c, <1>a, <2>2 DEF TypeInv, StaleExists, Exists, content, SystemTypeOK, StoreTypeOK
    <3>5. QED
      BY <1>b, <3>1, <3>3, <3>4 DEF TypeInv, SystemTypeOK
  <2>3. QED
    BY <1>3, <2>1, <2>2 DEF LegacyDeletesPages
<1>4. CASE LegacyInsertsPages
  <2>1. LegacyTypeOK' /\ legacy'.pc # "insert" /\ docLock' = Nobody
    BY <1>4, <1>a DEF LegacyInsertsPages, DocumentFree, LegacyGoTo, SystemTypeOK, LegacyTypeOK, LegacyStep
  <2>2. /\ candidate' \in [Candidates -> RequirementCandidate \cup {NoCandidate}]
        /\ \A c \in Candidates : rowLock[c] # Legacy => candidate'[c] = candidate[c]
    BY <1>4, <1>a DEF LegacyInsertsPages, DocumentFree, SystemTypeOK, StoreTypeOK
  <2>3. StoreTypeOK'
    BY <1>4, <1>a, <2>2, LegacyRowsFreed DEF LegacyInsertsPages, DocumentFree, SystemTypeOK, StoreTypeOK
  <2>4. LocksInv'
    <3>1. \A r \in Requests : ReviewAt(r, "decide") =>
             rowLock[review[r].of] = r /\ rowLock[review[r].of] # Legacy
                /\ review[r].of \in Candidates /\ Exists(review[r].of)
      BY <1>a, RowTypes DEF TypeInv, LocksInv, ReviewAt
    <3>2. FreeLegacyRows /\ docLock = Nobody
      BY <1>4 DEF LegacyInsertsPages, DocumentFree
    <3>3. QED
      BY <1>c, <1>a, <2>1, <2>2, <3>1, <3>2, LegacyRowsFreed DEF TypeInv, LocksInv, ReviewAt, Exists
  <2>5. StaleExists'
    BY <2>1 DEF StaleExists
  <2>6. QED
    BY <1>b, <2>1, <2>3, <2>4, <2>5 DEF TypeInv, SystemTypeOK
<1>5. CASE LegacyWritesRequirements
  <2>1. CASE LegacyFails
    BY <1>1, <2>1
  <2>2. CASE /\ promoted' = {} /\ machine' = TRUE
             /\ LegacyGoTo("finish")
             /\ UNCHANGED <<ingestion, pages, run, candidate, docLock, pageLock, rowLock, processing>>
    <3>1. LegacyTypeOK' /\ legacy'.pc # "insert"
      BY <2>2, <1>a DEF LegacyGoTo, SystemTypeOK, LegacyTypeOK, LegacyStep
    <3>2. StoreTypeOK'
      BY <2>2, <1>a DEF SystemTypeOK, StoreTypeOK
    <3>3. LocksInv' /\ StaleExists'
      BY <1>5, <1>c, <2>2, <3>1 DEF LegacyWritesRequirements, LegacyAt, TypeInv, LocksInv, StaleExists,
         ReviewAt, Exists
    <3>4. QED
      BY <1>b, <3>1, <3>2, <3>3 DEF TypeInv, SystemTypeOK
  <2>3. QED
    BY <1>5, <2>1, <2>2 DEF LegacyWritesRequirements
<1>6. CASE ParseCompletes /\ UNCHANGED legacyVars
  <2>1. LegacyTypeOK'
    BY <1>6, <1>a DEF SystemTypeOK, LegacyTypeOK, legacyVars
  <2>2. StoreTypeOK'
    BY <1>6, <1>a DEF ParseCompletes, SystemTypeOK, StoreTypeOK
  <2>3. LocksInv' /\ StaleExists'
    BY <1>6, <1>c DEF ParseCompletes, TypeInv, LocksInv, StaleExists, ReviewAt, Exists, legacyVars
  <2>4. QED
    BY <1>b, <2>1, <2>2, <2>3 DEF TypeInv, SystemTypeOK
<1>7. CASE LegacyStarts \/ LegacyChecks \/ LegacyExtracts \/ LegacyFinishes \/ LegacyGivesUp \/ RetryDocument
  <2>1. CASE LegacyFails
    BY <1>1, <2>1
  <2>2. CASE ~LegacyFails
    <3>0. LegacyTypeOK
      BY <1>a DEF SystemTypeOK
    <3>1. legacy' \in [pc : LegacyStep \ {"insert"}, status : JobStatus, attempts : Nat]
      <4>1. CASE LegacyStarts
        BY <3>0, <4>1 DEF LegacyStarts, LegacyTypeOK, LegacyStep, JobStatus
      <4>2. CASE LegacyFinishes \/ LegacyGivesUp
        BY <3>0, <4>2 DEF LegacyFinishes, LegacyGivesUp, LegacyTypeOK, LegacyStep, JobStatus
      <4>3. CASE RetryDocument
        BY <3>0, <4>3 DEF RetryDocument, LegacyTypeOK, LegacyStep, JobStatus
      <4>4. CASE LegacyGoTo("extract") \/ LegacyGoTo("delete")
        BY <3>0, <4>4 DEF LegacyGoTo, LegacyTypeOK, LegacyStep
      <4>5. QED
        BY <1>7, <2>2, <4>1, <4>2, <4>3, <4>4 DEF LegacyChecks, LegacyExtracts
    <3>2. /\ UNCHANGED tables
          /\ legacy.pc # "insert" /\ machine' = machine
          /\ processing' \in {processing, "completed", "pending", "processing", "failed"}
      BY <1>7, <2>2 DEF LegacyStarts, LegacyChecks, LegacyExtracts, LegacyFinishes, LegacyGivesUp,
         RetryDocument, LegacyAt
    <3>3. QED
      BY <1>2, <3>0, <3>1, <3>2 DEF LegacyTypeOK
  <2>3. QED
    BY <2>1, <2>2
<1>8. QED
  BY <1>1, <1>3, <1>4, <1>5, <1>6, <1>7 DEF LegacyStepOf

\* Every step keeps the types.
LEMMA TypesStep == TypeInv /\ [SystemNext]_systemVars => TypeInv'
<1> SUFFICES ASSUME TypeInv, [SystemNext]_systemVars PROVE TypeInv'
  OBVIOUS
<1>1. CASE Progress
  <2>1. ASSUME NEW j \in Jobs, ExtractionMoves(j) PROVE TypeInv'
    BY <2>1, ExtractionTypes DEF ExtractionMoves
  <2>2. ASSUME NEW j \in Jobs, DeadlockDetected(j) PROVE TypeInv'
    BY <2>2, ExtractionTypes, ReviewTypes, LegacyTypes DEF DeadlockDetected
  <2>3. ASSUME NEW r \in Requests, ReviewMoves(r) PROVE TypeInv'
    BY <2>3, ReviewTypes DEF ReviewMoves
  <2>4. CASE LegacyMoves
    BY <2>4, LegacyTypes DEF LegacyMoves
  <2>5. QED
    BY <1>1, <2>1, <2>2, <2>3, <2>4 DEF Progress
<1>2. CASE Faults
  BY <1>2, ExtractionTypes, ReviewTypes, LegacyTypes DEF Faults
<1>3. CASE People
  BY <1>3, ReviewTypes DEF People
<1>4. CASE Documents
  BY <1>4, LegacyTypes DEF Documents
<1>5. CASE UNCHANGED systemVars
  BY <1>5 DEF systemVars, tables, content, extVars, reviewVars, legacyVars, TypeInv,
     SystemTypeOK, StoreTypeOK, ExtractionTypeOK, ReviewTypeOK, LegacyTypeOK, LocksInv,
     StaleExists, ReviewAt, Exists
<1>6. QED
  BY <1>1, <1>2, <1>3, <1>4, <1>5 DEF SystemNext

\* Tables, deliveries, submissions and the legacy job keep their types, and
\* locks are held exactly where the code holds them.
THEOREM SystemTypesCorrect == SystemSpec => []SystemTypeOK
<1>1. TypeInv => SystemTypeOK
  BY DEF TypeInv
<1>2. QED
  BY <1>1, TypesInit, TypesStep, PTL DEF SystemSpec

-----------------------------------------------------------------------------
(* Runs, proposals and decisions                                            *)

\* Every candidate, and every decision, goes back to the one run that proposed
\* it, and that run is over: an identifier is inserted once.
RunsInv ==
    /\ \A j, k \in Jobs : j # k => proposals[j] \cap proposals[k] = {}
    /\ \A j \in Jobs : run[j].status = "COMPLETED" =>
            extPc[j] = "ended" /\ ingestion = "COMPLETED"
    /\ \A j \in Jobs : docLock = j => ingestion = "COMPLETED"
    /\ \A c \in Candidates : Exists(c) =>
            /\ c \in proposals[candidate[c].of]
            /\ run[candidate[c].of].status = "COMPLETED"
    /\ \A e \in decisions : \E j \in Jobs :
            e.of \in proposals[j] /\ run[j].status = "COMPLETED"

\* While a run holds the document row it knows every open candidate, and what
\* it will not close has no open task.
QueueInv ==
    /\ \A j \in Jobs : docLock = j =>
            \A c \in Candidates : Exists(c) /\ Open(c) => c \in stale[j]
    /\ \A j \in Jobs : extPc[j] = "flush" =>
            \A c \in stale[j] \ openTasks[j] : candidate[c].task # "OPEN"
    /\ OneProposingRun
    /\ OpenIsQueued

\* A submission that decides holds an open candidate of the current pages, for
\* a member; a settled status is on record, and what is on record is settled;
\* while the legacy job replaces the pages it holds every candidate and no
\* Requirement rests on one.
DecideInv ==
    /\ \A r \in Requests : ReviewAt(r, "decide") =>
            /\ Open(review[r].of)
            /\ candidate[review[r].of].page = pages.generation
    /\ \A r \in Requests : review[r].pc \in {"lock", "decide"} => review[r].user \in Members
    /\ \A e \in decisions : Exists(e.of) => ~Open(e.of)
    /\ \A c \in Candidates : Exists(c) /\ candidate[c].status \in DecidedStatus =>
            \E e \in decisions : e.of = c /\ StatusOf[e.decision] = candidate[c].status
    /\ pageLock = Legacy =>
            promoted = {} /\ \A c \in Candidates : Exists(c) => rowLock[c] = Legacy
    /\ DecidedOnce
    /\ RequirementBacked
    /\ ToldTheTruth

SystemInv == TypeInv /\ RunsInv /\ QueueInv /\ DecideInv

\* The system begins in the invariant.
LEMMA SystemInvInit == SystemInit => SystemInv
<1> SUFFICES ASSUME SystemInit PROVE SystemInv
  OBVIOUS
<1>1. TypeInv
  BY TypesInit
<1>2. \A c \in Candidates : ~Exists(c)
  BY DEF SystemInit, StoreInit, Exists
<1>3. \A j \in Jobs : run[j].status = "none" /\ docLock # j /\ extPc[j] = "queued"
  BY StoreAssumption DEF SystemInit, StoreInit, ExtractionInit
<1>4. \A r \in Requests : review[r] = NoSubmission /\ review[r].pc = "idle"
  BY DEF SystemInit, ReviewInit, NoSubmission
<1>5. RunsInv
  BY <1>2, <1>3 DEF SystemInit, ExtractionInit, ReviewInit, RunsInv
<1>6. QueueInv
  BY <1>2, <1>3 DEF QueueInv, OneProposingRun, OpenIsQueued
<1>7. DecideInv
  BY <1>2, <1>4, StoreAssumption DEF SystemInit, StoreInit, ReviewInit, DecideInv, ReviewAt,
     DecidedOnce, RequirementBacked, ToldTheTruth, Submitted
<1>8. QED
  BY <1>1, <1>5, <1>6, <1>7 DEF SystemInv

\* What a delivery never touches, and that only its commit completes a run.
LEMMA ExtractionFrame ==
    ASSUME SystemInv, NEW j \in Jobs,
           ExtractionStepOf(j) \/ PersistAborts(j) \/ ExtractionCrash(j)
    PROVE  /\ UNCHANGED <<ingestion, pages, promoted, pageLock, rowLock>>
           /\ extPc[j] # "ended" /\ run[j].status # "COMPLETED"
           /\ \A k \in Jobs \ {j} : run'[k] = run[k] /\ extPc'[k] = extPc[k]
                    /\ stale'[k] = stale[k] /\ openTasks'[k] = openTasks[k]
                    /\ proposals'[k] = proposals[k] /\ (docLock' = k <=> docLock = k)
           /\ \/ PersistCommits(j)
              \/ candidate' = candidate /\ run'[j].status # "COMPLETED"
<1> USE DEF ExtractionStepOf, PhaseARefuses, PhaseASnapshots, BuildRequest, ExtractorAnswers,
     ExtractorFails, PersistVerifies, PersistRefuses, PersistReadsTasks, PersistCommits,
     PersistDuplicate, PersistAborts, ExtractionCrash, tables, content, ExtGoTo, ExtAt,
     SetRunStatus, ReleaseDocument
<1>0. /\ run \in [Jobs -> ExtractionRun] /\ extPc \in [Jobs -> ExtractionStep]
      /\ proposals \in [Jobs -> SUBSET Candidates] /\ stale \in [Jobs -> SUBSET Candidates]
      /\ openTasks \in [Jobs -> SUBSET Candidates]
      /\ docLock = j => extPc[j] # "ended"
      /\ run[j].status = "COMPLETED" => extPc[j] = "ended"
  BY DEF SystemInv, TypeInv, SystemTypeOK, StoreTypeOK, ExtractionTypeOK, LocksInv, RunsInv
<1>1. UNCHANGED <<ingestion, pages, promoted, pageLock, rowLock>>
  OBVIOUS
<1>2. extPc[j] # "ended" /\ run[j].status # "COMPLETED"
  BY <1>0
<1>3. \A k \in Jobs \ {j} : run'[k] = run[k] /\ extPc'[k] = extPc[k]
  BY <1>0
<1>4. \A k \in Jobs \ {j} : /\ stale'[k] = stale[k] /\ openTasks'[k] = openTasks[k]
                            /\ proposals'[k] = proposals[k]
  BY <1>0
<1>5. \A k \in Jobs \ {j} : docLock' = k <=> docLock = k
  BY StoreAssumption
<1>6. PersistCommits(j) \/ (candidate' = candidate /\ run'[j].status # "COMPLETED")
  BY <1>0, <1>2 DEF ExtractionRun
<1>7. QED
  BY <1>1, <1>2, <1>3, <1>4, <1>5, <1>6

\* Steps of a delivery before its commit, and after.
LEMMA ExtractionKeepsSafe ==
    ASSUME SystemInv, TypeInv', NEW j \in Jobs,
           ExtractionStepOf(j) \/ PersistAborts(j) \/ ExtractionCrash(j),
           ~PersistCommits(j),
           UNCHANGED <<reviewVars, legacyVars>>
    PROVE  SystemInv'
<1> USE ExtractionFrame
<1>a. TypeInv /\ RunsInv /\ QueueInv /\ DecideInv /\ SystemTypeOK
  BY DEF SystemInv, TypeInv
<1>b. /\ UNCHANGED <<ingestion, pages, promoted, pageLock, rowLock, candidate, review, decisions,
                     capability, legacy>>
      /\ run'[j].status # "COMPLETED" /\ run[j].status # "COMPLETED"
      /\ \A k \in Jobs \ {j} : run'[k] = run[k] /\ extPc'[k] = extPc[k]
                    /\ stale'[k] = stale[k] /\ openTasks'[k] = openTasks[k]
                    /\ proposals'[k] = proposals[k] /\ (docLock' = k <=> docLock = k)
  BY DEF reviewVars, legacyVars
<1>c. \A c \in Candidates : Exists(c) => candidate[c].of \in Jobs
  BY <1>a, RowTypes DEF RequirementCandidate
<1>1. \A k \in Jobs \ {j} : proposals'[j] \cap proposals[k] = {}
  <2>1. proposals'[j] = proposals[j] \/ \A k \in Jobs : proposals'[j] \cap proposals[k] = {}
    BY <1>a DEF ExtractionStepOf, PhaseARefuses, PhaseASnapshots, BuildRequest, ExtractorAnswers,
     ExtractorFails, PersistVerifies, PersistRefuses, PersistReadsTasks,
     PersistDuplicate, PersistAborts, ExtractionCrash, SystemTypeOK, ExtractionTypeOK
  <2>2. QED
    BY <1>a, <2>1 DEF RunsInv
<1>2. docLock' = j => /\ ingestion = "COMPLETED"
                      /\ \A c \in Candidates : Exists(c) /\ Open(c) => c \in stale'[j]
  <2>1. CASE PersistVerifies(j)
    <3>1. stale'[j] = {c \in Candidates : Exists(c) /\ Open(c) /\ candidate[c].of # j}
      BY <1>a, <2>1 DEF PersistVerifies, SystemTypeOK, ExtractionTypeOK
    <3>2. \A c \in Candidates : Exists(c) => candidate[c].of # j
      BY <1>a, <1>b DEF RunsInv
    <3>3. QED
      BY <2>1, <3>1, <3>2 DEF PersistVerifies, RunStillValid
  <2>2. CASE ~PersistVerifies(j)
    <3>1. docLock' = j => docLock = j /\ stale'[j] = stale[j]
      BY <2>2, StoreAssumption DEF ExtractionStepOf, PhaseARefuses, PhaseASnapshots, BuildRequest, ExtractorAnswers,
         ExtractorFails, PersistRefuses, PersistReadsTasks, tables,
         PersistDuplicate, PersistAborts, ExtractionCrash, ReleaseDocument
    <3>2. QED
      BY <1>a, <3>1 DEF RunsInv, QueueInv
  <2>3. QED
    BY <2>1, <2>2
<1>3. extPc'[j] = "flush" => \A c \in stale'[j] \ openTasks'[j] : candidate[c].task # "OPEN"
  <2>1. CASE PersistReadsTasks(j)
    <3>1. /\ stale'[j] = stale[j]
          /\ openTasks'[j] = {c \in stale[j] : Exists(c) /\ candidate[c].task = "OPEN"}
      BY <1>a, <2>1 DEF PersistReadsTasks, SystemTypeOK, ExtractionTypeOK
    <3>2. \A c \in stale[j] : Exists(c)
      BY <1>a, <2>1 DEF PersistReadsTasks, ExtAt, TypeInv, LocksInv, StaleExists
    <3>3. QED
      BY <3>1, <3>2
  <2>2. CASE ~PersistReadsTasks(j)
    <3>1. extPc'[j] # "flush"
      BY <1>a, <2>2 DEF ExtractionStepOf, PhaseARefuses, PhaseASnapshots, BuildRequest, ExtractorAnswers,
         ExtractorFails, PersistVerifies, PersistRefuses,
         PersistDuplicate, PersistAborts, ExtractionCrash, ExtGoTo, SystemTypeOK, ExtractionTypeOK
    <3>2. QED
      BY <3>1
  <2>3. QED
    BY <2>1, <2>2
<1>4. RunsInv'
  <2>1. \A i, k \in Jobs : i # k => proposals'[i] \cap proposals'[k] = {}
    BY <1>a, <1>b, <1>1 DEF RunsInv
  <2>2. \A k \in Jobs : run'[k].status = "COMPLETED" =>
            k # j /\ extPc'[k] = "ended" /\ ingestion' = "COMPLETED"
    BY <1>a, <1>b DEF RunsInv
  <2>3. \A k \in Jobs : docLock' = k => ingestion' = "COMPLETED"
    BY <1>a, <1>b, <1>2 DEF RunsInv
  <2>4. \A c \in Candidates : candidate'[c] # NoCandidate =>
            /\ c \in proposals'[candidate'[c].of]
            /\ run'[candidate'[c].of].status = "COMPLETED"
    BY <1>a, <1>b, <1>c DEF RunsInv, Exists
  <2>5. \A e \in decisions' : \E k \in Jobs :
            e.of \in proposals'[k] /\ run'[k].status = "COMPLETED"
    BY <1>a, <1>b DEF RunsInv
  <2>6. QED
    BY <2>1, <2>2, <2>3, <2>4, <2>5 DEF RunsInv, Exists
<1>5. QueueInv'
  <2>1. \A k \in Jobs : docLock' = k =>
            \A c \in Candidates : Exists(c)' /\ Open(c)' => c \in stale'[k]
    BY <1>a, <1>b, <1>2 DEF QueueInv, Exists, Open
  <2>2. \A k \in Jobs : extPc'[k] = "flush" =>
            \A c \in stale'[k] \ openTasks'[k] : candidate'[c].task # "OPEN"
    BY <1>a, <1>b, <1>3 DEF QueueInv
  <2>3. OneProposingRun'
    BY <1>a, <1>b, <1>c DEF QueueInv, OneProposingRun, Exists, Open
  <2>4. OpenIsQueued'
    BY <1>a, <1>b DEF QueueInv, OpenIsQueued, Queued, Exists, Open
  <2>5. QED
    BY <2>1, <2>2, <2>3, <2>4 DEF QueueInv
<1>6. DecideInv'
  BY <1>a, <1>b DEF DecideInv, ReviewAt, Exists, Open, DecidedOnce, RequirementBacked,
     ToldTheTruth, Submitted
<1>7. QED
  BY <1>4, <1>5, <1>6 DEF SystemInv

\* The commit of a run: what was open is superseded, what is new is open and
\* in the queue, and nothing that is decided opens again.
LEMMA CommitKeepsSafe ==
    ASSUME SystemInv, TypeInv', NEW j \in Jobs, PersistCommits(j),
           UNCHANGED <<reviewVars, legacyVars>>
    PROVE  SystemInv'
<1>a. TypeInv /\ RunsInv /\ QueueInv /\ DecideInv /\ SystemTypeOK
  BY DEF SystemInv, TypeInv
<1>b. /\ UNCHANGED <<ingestion, pages, promoted, pageLock, rowLock, review, decisions,
                     capability, legacy, proposals, stale, openTasks>>
      /\ run' = [run EXCEPT ![j].status = "COMPLETED"]
      /\ extPc' = [extPc EXCEPT ![j] = "ended"]
      /\ docLock' = IF docLock = j THEN Nobody ELSE docLock
  BY DEF PersistCommits, SetRunStatus, ExtGoTo, ReleaseDocument, reviewVars, legacyVars
<1>c. docLock = j /\ extPc[j] = "flush" /\ run[j].status # "COMPLETED" /\ docLock' = Nobody
  BY <1>a, <1>b DEF PersistCommits, ExtAt, TypeInv, LocksInv, RunsInv
<1>d. /\ run \in [Jobs -> ExtractionRun] /\ extPc \in [Jobs -> ExtractionStep]
      /\ stale[j] \subseteq Candidates
  BY <1>a DEF SystemTypeOK, StoreTypeOK, ExtractionTypeOK
<1>e. /\ run'[j].status = "COMPLETED" /\ extPc'[j] = "ended"
      /\ \A k \in Jobs \ {j} : run'[k] = run[k] /\ extPc'[k] = extPc[k]
  BY <1>b, <1>d DEF ExtractionRun
<1>1. \A c \in stale[j] : /\ Exists(c) /\ rowLock[c] = Nobody
                          /\ candidate'[c] = SupersededRow(c, c \in openTasks[j])
  BY <1>a, <1>c, <1>d DEF PersistCommits, RowsFree, TypeInv, StaleExists
<1>2. \A c \in stale[j] : /\ candidate'[c] \in RequirementCandidate
                          /\ candidate'[c].status = "SUPERSEDED"
                          /\ candidate'[c].of = candidate[c].of
                          /\ candidate'[c].page = candidate[c].page
                          /\ candidate'[c].task # "OPEN"
  <2> SUFFICES ASSUME NEW c \in stale[j]
               PROVE  /\ candidate'[c] \in RequirementCandidate
                      /\ candidate'[c].status = "SUPERSEDED"
                      /\ candidate'[c].of = candidate[c].of
                      /\ candidate'[c].page = candidate[c].page
                      /\ candidate'[c].task # "OPEN"
    OBVIOUS
  <2>1. c \notin openTasks[j] => candidate[c].task # "OPEN"
    BY <1>a, <1>c DEF QueueInv
  <2>2. QED
    BY <1>a, <1>d, <1>1, <2>1, FlushRows
<1>3. \A c \in proposals[j] : ~Exists(c) /\ c \notin stale[j]
            /\ \A e \in decisions : e.of # c
  <2>1. \A c \in Candidates : Exists(c) => candidate[c].of \in Jobs
    BY <1>a, RowTypes DEF RequirementCandidate
  <2>2. QED
    BY <1>a, <1>c, <1>d, <1>1, <2>1 DEF RunsInv, SystemTypeOK, ExtractionTypeOK
<1>4. \A c \in proposals[j] : /\ c \in Candidates
                              /\ candidate'[c] \in RequirementCandidate
                              /\ candidate'[c].status = "PROPOSED" /\ candidate'[c].of = j
                              /\ candidate'[c].task = "OPEN"
  <2>1. \A c \in proposals[j] : c \in Candidates /\ candidate'[c] = ProposedRow(j)
    BY <1>a, <1>3 DEF PersistCommits, SystemTypeOK, ExtractionTypeOK
  <2>2. QED
    BY <1>a, <2>1, FlushRows
<1>5. \A c \in Candidates : c \notin stale[j] /\ c \notin proposals[j] =>
            candidate'[c] = candidate[c] /\ (Exists(c) => ~Open(c))
  BY <1>a, <1>c DEF PersistCommits, QueueInv
<1>6. NoCandidate \notin RequirementCandidate
  BY <1>a, RowTypes
<1>7. RunsInv'
  <2>1. \A c \in Candidates : candidate'[c] # NoCandidate =>
            /\ c \in proposals'[candidate'[c].of]
            /\ run'[candidate'[c].of].status = "COMPLETED"
    <3> SUFFICES ASSUME NEW c \in Candidates, candidate'[c] # NoCandidate
                 PROVE  /\ c \in proposals'[candidate'[c].of]
                        /\ run'[candidate'[c].of].status = "COMPLETED"
      OBVIOUS
    <3>1. CASE c \in proposals[j]
      BY <1>b, <1>e, <1>4, <3>1
    <3>2. CASE c \notin proposals[j]
      <4>1. Exists(c) /\ candidate'[c].of = candidate[c].of
        BY <1>1, <1>2, <1>5, <3>2 DEF Exists
      <4>2. candidate[c].of \in Jobs
        BY <1>a, <4>1, RowTypes DEF RequirementCandidate
      <4>3. QED
        BY <1>a, <1>b, <1>c, <1>e, <4>1, <4>2 DEF RunsInv
    <3>3. QED
      BY <3>1, <3>2
  <2>2. \A k \in Jobs : run'[k].status = "COMPLETED" =>
            extPc'[k] = "ended" /\ ingestion' = "COMPLETED"
    BY <1>a, <1>b, <1>c, <1>e DEF RunsInv
  <2>3. \A e \in decisions' : \E k \in Jobs :
            e.of \in proposals'[k] /\ run'[k].status = "COMPLETED"
    BY <1>a, <1>b, <1>e DEF RunsInv
  <2>4. \A i, k \in Jobs : i # k => proposals'[i] \cap proposals'[k] = {}
    BY <1>a, <1>b DEF RunsInv
  <2>5. \A k \in Jobs : docLock' # k
    BY <1>c, StoreAssumption
  <2>6. QED
    BY <2>1, <2>2, <2>3, <2>4, <2>5 DEF RunsInv, Exists
<1>8. \A c \in Candidates : candidate'[c] # NoCandidate /\ candidate'[c].status = "PROPOSED" =>
            c \in proposals[j]
  BY <1>2, <1>5 DEF Exists, Open
<1>9. QueueInv'
  <2>1. \A k \in Jobs : docLock' # k
    BY <1>c, StoreAssumption
  <2>2. \A k \in Jobs : extPc'[k] # "flush"
    BY <2>1 DEF TypeInv, LocksInv
  <2>3. OneProposingRun'
    BY <1>4, <1>8, <1>e DEF OneProposingRun, Exists, Open
  <2>4. OpenIsQueued'
    <3> SUFFICES ASSUME NEW c \in Candidates, candidate'[c] # NoCandidate,
                        candidate'[c].status = "PROPOSED" \/ candidate'[c].task = "OPEN"
                 PROVE  candidate'[c].status = "PROPOSED" /\ candidate'[c].task = "OPEN"
      BY DEF OpenIsQueued, Queued, Exists, Open
    <3>1. c \in proposals[j]
      BY <1>a, <1>2, <1>5 DEF QueueInv, OpenIsQueued, Queued, Exists, Open
    <3>2. QED
      BY <1>4, <3>1
  <2>5. QED
    BY <2>1, <2>2, <2>3, <2>4 DEF QueueInv
<1>10. DecideInv'
  <2>1. \A r \in Requests : ReviewAt(r, "decide") =>
            candidate'[review[r].of] = candidate[review[r].of]
    <3> SUFFICES ASSUME NEW r \in Requests, ReviewAt(r, "decide")
                 PROVE  candidate'[review[r].of] = candidate[review[r].of]
      OBVIOUS
    <3>1. review[r].of \in Candidates /\ rowLock[review[r].of] = r /\ Exists(review[r].of)
      BY <1>a, RowTypes DEF TypeInv, LocksInv, ReviewAt
    <3>2. review[r].of \notin stale[j] /\ review[r].of \notin proposals[j]
      BY <1>1, <1>3, <3>1, StoreAssumption
    <3>3. QED
      BY <1>5, <3>1, <3>2
  <2>2. \A e \in decisions : candidate'[e.of] # NoCandidate => candidate'[e.of].status # "PROPOSED"
    <3>1. \A e \in decisions : e.of \in Candidates
      BY <1>a DEF SystemTypeOK, ReviewTypeOK
    <3>2. QED
      BY <1>3, <1>8, <3>1
  <2>3. \A c \in Candidates : candidate'[c] # NoCandidate /\ candidate'[c].status \in DecidedStatus =>
            c \notin stale[j] /\ c \notin proposals[j] /\ candidate'[c] = candidate[c]
    BY <1>2, <1>4, <1>5 DEF DecidedStatus
  <2>4. \A c \in promoted : candidate'[c] # NoCandidate /\ candidate'[c].page = candidate[c].page
    <3>1. \A c \in promoted : c \in Candidates /\ Exists(c)
      BY <1>a DEF DecideInv, RequirementBacked, SystemTypeOK, StoreTypeOK
    <3>2. QED
      BY <1>2, <1>3, <1>5, <1>6, <3>1 DEF Exists
  <2>5. pageLock = Legacy => \A c \in Candidates : candidate'[c] # NoCandidate => Exists(c)
    <3>1. pageLock = Legacy => proposals[j] = {}
      BY StoreAssumption DEF PersistCommits, RowsFree
    <3>2. QED
      BY <1>1, <1>5, <3>1 DEF Exists
  <2>6. DecidedOnce' /\ ToldTheTruth'
    BY <1>a, <1>b DEF DecideInv, DecidedOnce, ToldTheTruth, Submitted
  <2>7. RequirementBacked'
    BY <1>a, <1>b, <2>4 DEF DecideInv, RequirementBacked, Exists
  <2>8. QED
    BY <1>a, <1>b, <2>1, <2>2, <2>3, <2>5, <2>6, <2>7 DEF DecideInv, ReviewAt, Exists, Open
<1>11. QED
  BY <1>7, <1>9, <1>10 DEF SystemInv

\* A step that leaves runs, candidates, decisions and the deliveries alone, and
\* adds no Requirement, has only the submissions and the legacy locks to mind.
LEMMA TablesKept ==
    ASSUME SystemInv, TypeInv',
           UNCHANGED <<ingestion, pages, run, candidate, decisions, docLock, extVars>>,
           promoted' \subseteq promoted,
           pageLock' = Legacy =>
                promoted' = {} /\ \A c \in Candidates : Exists(c) => rowLock'[c] = Legacy,
           \A r \in Requests : review'[r].pc = "decide" =>
                Open(review'[r].of) /\ candidate[review'[r].of].page = pages.generation,
           \A r \in Requests : review'[r].pc \in {"lock", "decide"} => review'[r].user \in Members,
           ToldTheTruth'
    PROVE  SystemInv'
<1>a. RunsInv /\ QueueInv /\ DecideInv
  BY DEF SystemInv
<1>1. RunsInv'
  BY <1>a DEF RunsInv, Exists, extVars
<1>2. QueueInv'
  BY <1>a DEF QueueInv, OneProposingRun, OpenIsQueued, Queued, Exists, Open, extVars
<1>3. DecideInv'
  BY <1>a DEF DecideInv, ReviewAt, Exists, Open, DecidedOnce, RequirementBacked
<1>4. QED
  BY <1>1, <1>2, <1>3 DEF SystemInv

\* Everything people do short of the commit of a decision.
LEMMA ReviewKeepsSafe ==
    ASSUME SystemInv, TypeInv', UNCHANGED <<extVars, legacyVars>>,
           \/ \E r \in Requests :
                \/ ReviewNotFound(r) \/ AlreadyDecided(r) \/ ReviewDrift(r) \/ ReviewInvalid(r) \/ ReviewLocks(r)
                \/ ReviewRollsBack(r)
                \/ \E u \in Users, c \in Candidates, d \in Offered :
                        ReviewAuthorises(r, u, c, d)
           \/ \E u \in Users, grant \in BOOLEAN : SetCapability(u, grant)
           \/ \E c \in Candidates : DeleteRequirement(c)
    PROVE  SystemInv'
<1>a. TypeInv /\ RunsInv /\ QueueInv /\ DecideInv /\ SystemTypeOK
  BY DEF SystemInv, TypeInv
<1>b. /\ \A r \in Requests : review[r].pc = "decide" =>
            Open(review[r].of) /\ candidate[review[r].of].page = pages.generation
      /\ \A r \in Requests : review[r].pc \in {"lock", "decide"} => review[r].user \in Members
      /\ pageLock = Legacy =>
            promoted = {} /\ \A c \in Candidates : Exists(c) => rowLock[c] = Legacy
      /\ ToldTheTruth
  BY <1>a DEF DecideInv, ReviewAt
<1>1. CASE \E u \in Users, grant \in BOOLEAN : SetCapability(u, grant)
  BY <1>1, <1>b, TablesKept DEF SetCapability, tables, content, ToldTheTruth, Submitted
<1>2. CASE \E c \in Candidates : DeleteRequirement(c)
  BY <1>2, <1>b, TablesKept DEF DeleteRequirement, reviewVars, ToldTheTruth, Submitted
<1>3. ASSUME NEW r \in Requests, NEW u \in Users, NEW c \in Candidates, NEW d \in Offered,
             ReviewAuthorises(r, u, c, d)
      PROVE  SystemInv'
  <2>1. /\ \A q \in Requests \ {r} : review'[q] = review[q]
        /\ review'[r].pc # "decide" /\ review'[r].outcome \in {"none", "unauthorized"}
        /\ review'[r].pc = "lock" => review'[r].user \in Members
    BY <1>3, <1>a DEF ReviewAuthorises, Authorized, SystemTypeOK, ReviewTypeOK
  <2>2. UNCHANGED <<tables, decisions>>
    BY <1>3 DEF ReviewAuthorises
  <2>3. ToldTheTruth'
    BY <1>b, <2>1, <2>2 DEF ToldTheTruth, Submitted
  <2>4. QED
    BY <1>b, <2>1, <2>2, <2>3, TablesKept DEF tables, content
<1>4. ASSUME NEW r \in Requests,
             \/ ReviewNotFound(r) \/ AlreadyDecided(r) \/ ReviewDrift(r) \/ ReviewInvalid(r)
             \/ ReviewRollsBack(r)
      PROVE  SystemInv'
  <2>0. /\ review[r] \in Submission /\ review[r].of \in Candidates
        /\ review[r].decision \in Decision
    BY <1>4, <1>a, RowTypes DEF ReviewNotFound, AlreadyDecided, ReviewDrift, ReviewInvalid, ReviewRollsBack,
       MayLock, ReviewAt, Submission
  <2>1. PICK o \in ReviewOutcome : ReviewEnds(r, o) /\ o # "ok"
            /\ (o = "replay" => AlreadyDecided(r) /\
                    candidate[review[r].of].status = StatusOf[review[r].decision])
    BY <1>4 DEF ReviewNotFound, AlreadyDecided, ReviewDrift, ReviewInvalid, ReviewRollsBack, ReviewOutcome
  <2>2. /\ \A q \in Requests \ {r} : review'[q] = review[q]
        /\ review'[r].pc = "ended" /\ review'[r].outcome = o
        /\ review'[r].of = review[r].of /\ review'[r].decision = review[r].decision
    BY <1>a, <2>0, <2>1 DEF ReviewEnds, SystemTypeOK, ReviewTypeOK, Submission
  <2>3. /\ UNCHANGED <<content, docLock, pageLock, decisions>>
        /\ \A c \in Candidates : rowLock[c] = Legacy => rowLock'[c] = Legacy
    <3>1. CASE UNCHANGED <<tables, decisions>>
      BY <3>1 DEF tables
    <3>2. ASSUME ReviewRollsBack(r)
          PROVE  /\ UNCHANGED <<content, docLock, pageLock, decisions>>
                 /\ \A c \in Candidates : rowLock[c] = Legacy => rowLock'[c] = Legacy
      <4>1. rowLock[review[r].of] = r
        BY <1>a, <3>2 DEF ReviewRollsBack, TypeInv, LocksInv
      <4>2. QED
        BY <1>a, <3>2, <4>1, StoreAssumption
           DEF ReviewRollsBack, Locks, SystemTypeOK, StoreTypeOK
    <3>3. QED
      BY <1>4, <3>1, <3>2 DEF ReviewNotFound, AlreadyDecided, ReviewDrift, ReviewInvalid
  <2>4. o = "replay" => \E e \in decisions :
            e.of = review[r].of /\ e.decision = review[r].decision
    <3> SUFFICES ASSUME o = "replay"
                 PROVE  \E e \in decisions :
                            e.of = review[r].of /\ e.decision = review[r].decision
      OBVIOUS
    <3>1. Exists(review[r].of) /\ candidate[review[r].of].status = StatusOf[review[r].decision]
      BY <2>1 DEF AlreadyDecided
    <3>2. StatusOf[review[r].decision] \in DecidedStatus
      BY <2>0 DEF StatusOf, Decision, DecidedStatus
    <3>3. PICK e \in decisions : /\ e.of = review[r].of
                                 /\ StatusOf[e.decision] = StatusOf[review[r].decision]
      BY <1>a, <2>0, <3>1, <3>2 DEF DecideInv
    <3>4. e.decision \in Decision
      BY <1>a DEF SystemTypeOK, ReviewTypeOK
    <3>5. e.decision = review[r].decision
      BY <2>0, <3>3, <3>4 DEF StatusOf, Decision
    <3>6. QED
      BY <3>3, <3>5
  <2>5. ToldTheTruth'
    BY <1>b, <2>1, <2>2, <2>3, <2>4 DEF ToldTheTruth, Submitted
  <2>6. QED
    BY <1>b, <2>2, <2>3, <2>5, TablesKept DEF content
<1>5. ASSUME NEW r \in Requests, ReviewLocks(r)
      PROVE  SystemInv'
  <2>0. review[r] \in Submission /\ review[r].of \in Candidates
    BY <1>5, <1>a, RowTypes DEF ReviewLocks, MayLock, ReviewAt
  <2>1. /\ \A q \in Requests \ {r} : review'[q] = review[q]
        /\ review'[r].pc = "decide" /\ review'[r].of = review[r].of
        /\ review'[r].user = review[r].user /\ review'[r].outcome = review[r].outcome
        /\ review'[r].decision = review[r].decision
    BY <1>a, <1>5, <2>0 DEF ReviewLocks, SystemTypeOK, ReviewTypeOK, Submission
  <2>2. /\ UNCHANGED <<content, docLock, pageLock, decisions>>
        /\ \A c \in Candidates : rowLock[c] = Legacy => rowLock'[c] = Legacy
    BY <1>a, <1>5, StoreAssumption
       DEF ReviewLocks, MayLock, Locks, SystemTypeOK, StoreTypeOK
  <2>3. Open(review[r].of) /\ candidate[review[r].of].page = pages.generation
        /\ review[r].user \in Members
    BY <1>b, <1>5 DEF ReviewLocks, MayLock, ReviewAt, SourceValid
  <2>4. ToldTheTruth'
    <3>1. review[r] # NoSubmission
      BY <1>a, <2>0, RowTypes
    <3>2. QED
      BY <1>b, <2>1, <2>2, <3>1 DEF ToldTheTruth, Submitted
  <2>5. QED
    BY <1>b, <2>1, <2>2, <2>3, <2>4, TablesKept DEF content
<1>6. QED
  BY <1>1, <1>2, <1>3, <1>4, <1>5

\* What the commit of a decision writes.
LEMMA DecisionWrites ==
    ASSUME SystemInv, NEW r \in Requests, ReviewCommits(r)
    PROVE  LET c == review[r].of
               d == review[r].decision
           IN  /\ c \in Candidates /\ d \in Decision /\ review[r].user \in Members
               /\ Exists(c) /\ Open(c) /\ rowLock[c] = r
               /\ candidate[c].page = pages.generation
               /\ \A b \in Candidates \ {c} : candidate'[b] = candidate[b]
               /\ candidate'[c] # NoCandidate /\ candidate'[c].status = StatusOf[d]
               /\ StatusOf[d] \in DecidedStatus
               /\ candidate'[c].of = candidate[c].of /\ candidate'[c].page = candidate[c].page
               /\ candidate'[c].task # "OPEN"
               /\ \A q \in Requests \ {r} : review'[q] = review[q]
               /\ review'[r].pc = "ended" /\ review'[r].of = c /\ review'[r].decision = d
               /\ \A e \in decisions : e.of # c
<1> DEFINE c == review[r].of
           d == review[r].decision
<1>a. TypeInv /\ DecideInv /\ SystemTypeOK
  BY DEF SystemInv, TypeInv
<1>1. review[r] \in Submission /\ c \in Candidates /\ d \in Decision
  BY <1>a, RowTypes DEF ReviewCommits, ReviewAt, Submission
<1>2. Exists(c) /\ Open(c) /\ rowLock[c] = r /\ candidate[c].page = pages.generation
      /\ review[r].user \in Members
  BY <1>a DEF ReviewCommits, TypeInv, LocksInv, DecideInv, ReviewAt
<1>3. candidate[c] \in RequirementCandidate
  BY <1>a, <1>1, <1>2, RowTypes
<1>4. /\ \A b \in Candidates \ {c} : candidate'[b] = candidate[b]
      /\ candidate'[c] = [candidate[c] EXCEPT !.status = StatusOf[d],
                               !.task = IF @ = "OPEN" THEN "COMPLETED" ELSE @]
  BY <1>a, <1>1 DEF ReviewCommits, SystemTypeOK, StoreTypeOK
<1>5. StatusOf[d] \in DecidedStatus
  BY <1>1 DEF StatusOf, Decision, DecidedStatus
<1>6. /\ candidate'[c].status = StatusOf[d]
      /\ candidate'[c].of = candidate[c].of /\ candidate'[c].page = candidate[c].page
      /\ candidate'[c].task # "OPEN"
  BY <1>3, <1>4 DEF RequirementCandidate
<1>7. candidate'[c] # NoCandidate
  BY <1>5, <1>6 DEF NoCandidate, DecidedStatus
<1>8. /\ \A q \in Requests \ {r} : review'[q] = review[q]
      /\ review'[r].pc = "ended" /\ review'[r].of = c /\ review'[r].decision = d
  BY <1>a, <1>1 DEF ReviewCommits, ReviewEnds, SystemTypeOK, ReviewTypeOK, Submission
<1>9. \A e \in decisions : e.of # c
  BY <1>a, <1>2 DEF DecideInv
<1>10. QED
  BY <1>1, <1>2, <1>4, <1>5, <1>6, <1>7, <1>8, <1>9

\* The commit of a decision.
LEMMA DecisionKeepsSafe ==
    ASSUME SystemInv, TypeInv', UNCHANGED <<extVars, legacyVars>>,
           NEW r \in Requests, ReviewCommits(r)
    PROVE  SystemInv'
<1> DEFINE c == review[r].of
           d == review[r].decision
           new == [of |-> c, by |-> review[r].user, decision |-> d]
<1>a. TypeInv /\ RunsInv /\ QueueInv /\ DecideInv /\ SystemTypeOK
  BY DEF SystemInv, TypeInv
<1>b. /\ UNCHANGED <<ingestion, pages, run, docLock, pageLock, extPc, proposals, stale, openTasks>>
      /\ promoted' = IF Promotes(r) THEN promoted \cup {c} ELSE promoted
      /\ decisions' = decisions \cup {new}
      /\ rowLock' = [rowLock EXCEPT ![c] = Nobody]
  BY DEF ReviewCommits, Locks, extVars
<1>1. /\ c \in Candidates /\ d \in Decision /\ review[r].user \in Members
      /\ Exists(c) /\ Open(c) /\ rowLock[c] = r
      /\ candidate[c].page = pages.generation
      /\ \A b \in Candidates \ {c} : candidate'[b] = candidate[b]
      /\ candidate'[c] # NoCandidate /\ candidate'[c].status = StatusOf[d]
      /\ StatusOf[d] \in DecidedStatus
      /\ candidate'[c].of = candidate[c].of /\ candidate'[c].page = candidate[c].page
      /\ candidate'[c].task # "OPEN"
      /\ \A q \in Requests \ {r} : review'[q] = review[q]
      /\ review'[r].pc = "ended" /\ review'[r].of = c /\ review'[r].decision = d
      /\ \A e \in decisions : e.of # c
  BY DecisionWrites
<1>2. new.of = c /\ new.by = review[r].user /\ new.decision = d
  OBVIOUS
<1> HIDE DEF c, d, new
<1>3. StatusOf[d] # "PROPOSED"
  BY <1>1 DEF DecidedStatus
<1>4. \A b \in Candidates : candidate'[b] # NoCandidate /\ candidate'[b].status = "PROPOSED" =>
            b # c /\ Exists(b) /\ Open(b)
  BY <1>1, <1>3 DEF Exists, Open
<1>5. \A b \in Candidates : candidate'[b] # NoCandidate =>
            Exists(b) /\ candidate'[b].of = candidate[b].of /\ candidate'[b].page = candidate[b].page
  BY <1>1 DEF Exists
<1>6. \A e \in decisions : e.of \in Candidates
  BY <1>a DEF SystemTypeOK, ReviewTypeOK
<1>7. RunsInv'
  <2>1. \E j \in Jobs : c \in proposals[j] /\ run[j].status = "COMPLETED"
    BY <1>a, <1>1, RowTypes DEF RunsInv, RequirementCandidate
  <2>2. QED
    BY <1>a, <1>b, <1>2, <1>5, <2>1 DEF RunsInv, Exists
<1>8. QueueInv'
  <2>1. \A j \in Jobs : docLock' = j =>
            \A b \in Candidates : candidate'[b] # NoCandidate /\ candidate'[b].status = "PROPOSED"
                => b \in stale'[j]
    BY <1>a, <1>b, <1>4 DEF QueueInv
  <2>2. \A j \in Jobs : extPc'[j] = "flush" =>
            \A b \in stale'[j] \ openTasks'[j] : candidate'[b].task # "OPEN"
    BY <1>a, <1>b, <1>1 DEF QueueInv, SystemTypeOK, ExtractionTypeOK
  <2>3. OneProposingRun'
    BY <1>a, <1>b, <1>4, <1>5 DEF QueueInv, OneProposingRun, Exists, Open
  <2>4. OpenIsQueued'
    BY <1>a, <1>1, <1>3 DEF QueueInv, OpenIsQueued, Queued, Exists, Open
  <2>5. QED
    BY <2>1, <2>2, <2>3, <2>4 DEF QueueInv, Exists, Open
<1>9. DecideInv'
  <2>1. \A q \in Requests : review'[q].pc = "decide" =>
            /\ candidate'[review'[q].of].status = "PROPOSED"
            /\ candidate'[review'[q].of].page = pages'.generation
    <3> SUFFICES ASSUME NEW q \in Requests, review'[q].pc = "decide"
                 PROVE  /\ candidate'[review'[q].of].status = "PROPOSED"
                        /\ candidate'[review'[q].of].page = pages'.generation
      OBVIOUS
    <3>1. q # r /\ review'[q] = review[q]
      BY <1>1
    <3>2. review[q].of \in Candidates /\ rowLock[review[q].of] = q
      BY <1>a, <3>1, RowTypes DEF TypeInv, LocksInv, ReviewAt
    <3>3. review[q].of # c
      BY <1>1, <3>1, <3>2
    <3>4. QED
      BY <1>a, <1>b, <1>1, <3>1, <3>2, <3>3 DEF DecideInv, ReviewAt, Open
  <2>2. \A q \in Requests : review'[q].pc \in {"lock", "decide"} => review'[q].user \in Members
    BY <1>a, <1>1 DEF DecideInv
  <2>3. \A e \in decisions' : candidate'[e.of] # NoCandidate => candidate'[e.of].status # "PROPOSED"
    BY <1>a, <1>b, <1>1, <1>2, <1>3, <1>6 DEF DecideInv, Exists, Open
  <2>4. \A b \in Candidates :
            candidate'[b] # NoCandidate /\ candidate'[b].status \in DecidedStatus =>
                \E e \in decisions' : e.of = b /\ StatusOf[e.decision] = candidate'[b].status
    BY <1>a, <1>b, <1>1, <1>2 DEF DecideInv, Exists
  <2>5. pageLock' # Legacy
    BY <1>a, <1>b, <1>1, StoreAssumption DEF DecideInv
  <2>6. DecidedOnce'
    <3>1. \A e, f \in decisions : e.of = f.of => e = f /\ e.by \in Members
      BY <1>a DEF DecideInv, DecidedOnce
    <3>2. QED
      BY <1>b, <1>1, <1>2, <3>1 DEF DecidedOnce
  <2>7. RequirementBacked'
    <3>1. \A b \in promoted : /\ Exists(b) /\ candidate[b].page = pages.generation
                              /\ b \in Candidates
                              /\ \E e \in decisions : e.of = b /\ e.decision # "REJECT"
      BY <1>a DEF DecideInv, RequirementBacked, SystemTypeOK, StoreTypeOK
    <3>2. Promotes(r) => d # "REJECT"
      BY DEF Promotes, d
    <3>3. QED
      BY <1>b, <1>1, <1>2, <3>1, <3>2 DEF RequirementBacked, Exists
  <2>8. ToldTheTruth'
    BY <1>a, <1>b, <1>1, <1>2 DEF DecideInv, ToldTheTruth, Submitted
  <2>9. QED
    BY <2>1, <2>2, <2>3, <2>4, <2>5, <2>6, <2>7, <2>8 DEF DecideInv, ReviewAt, Exists, Open
<1>10. QED
  BY <1>7, <1>8, <1>9 DEF SystemInv

\* The legacy job: its locks, its page replacement, its requirements; and the
\* parse, before which no run and so no candidate exists.
LEMMA LegacyKeepsSafe ==
    ASSUME SystemInv, TypeInv', UNCHANGED <<extVars, reviewVars>>,
           \/ LegacyStepOf \/ LegacyCrash \/ LegacyFails \/ RetryDocument
           \/ ParseCompletes /\ UNCHANGED legacyVars
    PROVE  SystemInv'
<1>a. TypeInv /\ RunsInv /\ QueueInv /\ DecideInv /\ SystemTypeOK
  BY DEF SystemInv, TypeInv
<1>b. UNCHANGED <<review, decisions, extPc, proposals, stale, openTasks>>
  BY DEF reviewVars, extVars
<1>c. /\ \A r \in Requests : review'[r].pc = "decide" =>
            Open(review'[r].of) /\ candidate[review'[r].of].page = pages.generation
      /\ \A r \in Requests : review'[r].pc \in {"lock", "decide"} => review'[r].user \in Members
      /\ pageLock = Legacy =>
            promoted = {} /\ \A c \in Candidates : Exists(c) => rowLock[c] = Legacy
      /\ ToldTheTruth'
  BY <1>a, <1>b DEF DecideInv, ReviewAt, ToldTheTruth, Submitted
<1>1. CASE /\ UNCHANGED <<ingestion, pages, run, candidate, docLock>>
           /\ promoted' \subseteq promoted
           /\ \/ UNCHANGED <<pageLock, rowLock>>
              \/ pageLock' = Nobody
              \/ promoted = {} /\ rowLock' = [c \in Candidates |-> IF Exists(c) THEN Legacy ELSE Nobody]
  <2>1. pageLock' = Legacy =>
            promoted' = {} /\ \A c \in Candidates : Exists(c) => rowLock'[c] = Legacy
    BY <1>1, <1>c, StoreAssumption
  <2>2. QED
    BY <1>1, <1>b, <1>c, <2>1, TablesKept
<1>2. CASE /\ \A c \in Candidates : candidate'[c] = NoCandidate
           /\ promoted' = {} /\ docLock' = Nobody /\ pageLock' = Nobody /\ run' = run
           /\ ingestion' \in {ingestion, "COMPLETED"}
  <2>1. \A r \in Requests : review'[r].pc # "decide"
    <3>1. \A r \in Requests : review[r].pc = "decide" => review[r].of \in Candidates
      BY <1>a, RowTypes
    <3>2. LocksInv'
      BY DEF TypeInv
    <3>3. QED
      BY <1>b, <1>2, <3>1, <3>2 DEF LocksInv, ReviewAt, Exists
  <2>2. RunsInv'
    BY <1>a, <1>b, <1>2, StoreAssumption DEF RunsInv, Exists
  <2>3. QueueInv'
    <3>1. \A j \in Jobs : docLock' # j /\ extPc'[j] # "flush"
      BY <1>2, StoreAssumption DEF TypeInv, LocksInv
    <3>2. QED
      BY <1>2, <3>1 DEF QueueInv, OneProposingRun, OpenIsQueued, Exists
  <2>4. DecideInv'
    <3>1. \A e \in decisions : e.of \in Candidates
      BY <1>a DEF SystemTypeOK, ReviewTypeOK
    <3>2. QED
      BY <1>a, <1>b, <1>c, <1>2, <2>1, <3>1, StoreAssumption DEF DecideInv, ReviewAt, Exists,
         DecidedOnce, RequirementBacked
  <2>5. QED
    BY <2>2, <2>3, <2>4 DEF SystemInv
<1>3. CASE LegacyFails \/ LegacyCrash
  BY <1>1, <1>3 DEF LegacyFails, LegacyCrash, FreeLegacyRows, content
<1>4. CASE LegacyInsertsPages
  <2>1. pageLock = Legacy
    BY <1>4, <1>a DEF LegacyInsertsPages, DocumentFree, LegacyAt, TypeInv, LocksInv
  <2>2. QED
    BY <1>4, <1>2, <1>c, <2>1 DEF LegacyInsertsPages, DocumentFree, FreeLegacyRows, Exists
<1>5. CASE ParseCompletes
  <2>1. \A c \in Candidates : ~Exists(c)
    BY <1>5, <1>a, RowTypes DEF ParseCompletes, RunsInv, RequirementCandidate
  <2>2. promoted = {}
    BY <1>a, <2>1 DEF DecideInv, RequirementBacked, SystemTypeOK, StoreTypeOK
  <2>3. QED
    BY <1>2, <1>5, <2>1, <2>2 DEF ParseCompletes, Exists
<1>6. CASE LegacyDeletesPages
  BY <1>1, <1>3, <1>6 DEF LegacyDeletesPages, PagesDeletable, content
<1>7. CASE LegacyWritesRequirements
  BY <1>1, <1>3, <1>7 DEF LegacyWritesRequirements
<1>8. CASE LegacyStarts \/ LegacyChecks \/ LegacyExtracts \/ LegacyFinishes \/ LegacyGivesUp \/ RetryDocument
  BY <1>1, <1>3, <1>8 DEF LegacyStarts, LegacyChecks, LegacyExtracts, LegacyFinishes, LegacyGivesUp,
     RetryDocument, tables, content
<1>9. QED
  BY <1>3, <1>4, <1>5, <1>6, <1>7, <1>8 DEF LegacyStepOf

\* Every step keeps the invariant.
LEMMA SystemInvStep == SystemInv /\ [SystemNext]_systemVars => SystemInv'
<1> SUFFICES ASSUME SystemInv, [SystemNext]_systemVars PROVE SystemInv'
  OBVIOUS
<1>0. TypeInv'
  BY TypesStep DEF SystemInv
<1>a. ASSUME NEW j \in Jobs, ExtractionStepOf(j) \/ PersistAborts(j) \/ ExtractionCrash(j),
             UNCHANGED <<reviewVars, legacyVars>>
      PROVE  SystemInv'
  BY <1>0, <1>a, ExtractionKeepsSafe, CommitKeepsSafe
<1>1. CASE Progress
  <2>1. ASSUME NEW j \in Jobs, ExtractionMoves(j) PROVE SystemInv'
    BY <1>a, <2>1 DEF ExtractionMoves
  <2>2. ASSUME NEW j \in Jobs, DeadlockDetected(j) PROVE SystemInv'
    BY <1>0, <1>a, <2>2, ReviewKeepsSafe, LegacyKeepsSafe DEF DeadlockDetected
  <2>3. ASSUME NEW r \in Requests, ReviewMoves(r) PROVE SystemInv'
    BY <1>0, <2>3, ReviewKeepsSafe, DecisionKeepsSafe DEF ReviewMoves, ReviewStepOf
  <2>4. CASE LegacyMoves
    BY <1>0, <2>4, LegacyKeepsSafe DEF LegacyMoves
  <2>5. QED
    BY <1>1, <2>1, <2>2, <2>3, <2>4 DEF Progress
<1>2. CASE Faults
  BY <1>0, <1>2, <1>a, ReviewKeepsSafe, LegacyKeepsSafe DEF Faults
<1>3. CASE People
  BY <1>0, <1>3, ReviewKeepsSafe DEF People
<1>4. CASE Documents
  BY <1>0, <1>4, LegacyKeepsSafe DEF Documents
<1>5. CASE UNCHANGED systemVars
  <2>1. UNCHANGED <<tables, extVars, reviewVars, legacyVars>>
    BY <1>5 DEF systemVars
  <2>2. RunsInv' /\ QueueInv' /\ DecideInv'
    BY <2>1 DEF tables, content, extVars, reviewVars, legacyVars, SystemInv, RunsInv, QueueInv,
       DecideInv, OneProposingRun, OpenIsQueued, Queued, DecidedOnce, RequirementBacked,
       ToldTheTruth, Submitted, ReviewAt, Exists, Open
  <2>3. QED
    BY <1>0, <2>2 DEF SystemInv
<1>6. QED
  BY <1>1, <1>2, <1>3, <1>4, <1>5 DEF SystemNext

\* The invariant the properties of the review follow from: types, the decisions and
\* what they rest on, and the queue with its runs.
THEOREM SystemInvariant == SystemSpec => []SystemInv
BY SystemInvInit, SystemInvStep, PTL DEF SystemSpec

-----------------------------------------------------------------------------
(* What the invariant says to a reviewer                                    *)

\* A candidate is decided at most once, by a member: the row lock of the
\* decision and the status check under it suffice against every interleaving
\* with extraction, the legacy job and other reviewers.
THEOREM DecisionsAreFinal == SystemSpec => []DecidedOnce
<1>1. SystemInv => DecidedOnce
  BY DEF SystemInv, DecideInv
<1>2. QED
  BY <1>1, SystemInvariant, PTL

\* A promoted Requirement keeps its decision, its candidate and its page.
THEOREM RequirementsRestOnDecisions == SystemSpec => []RequirementBacked
<1>1. SystemInv => RequirementBacked
  BY DEF SystemInv, DecideInv
<1>2. QED
  BY <1>1, SystemInvariant, PTL

\* The open candidates are of one completed run: the document lock of phase C
\* covers the supersede, the insert and the commit.
THEOREM ProposalsDoNotCompete == SystemSpec => []OneProposingRun
<1>1. SystemInv => OneProposingRun
  BY DEF SystemInv, QueueInv
<1>2. QED
  BY <1>1, SystemInvariant, PTL

\* Open candidates and open tasks are in the queue, also when a supersede
\* overtakes a decision between its two unlocked reads.
THEOREM NothingLeavesTheQueueUnseen == SystemSpec => []OpenIsQueued
<1>1. SystemInv => OpenIsQueued
  BY DEF SystemInv, QueueInv
<1>2. QED
  BY <1>1, SystemInvariant, PTL

\* "ok" and "replay" name a decision on record.
THEOREM SubmissionsToldTheTruth == SystemSpec => []ToldTheTruth
<1>1. SystemInv => ToldTheTruth
  BY DEF SystemInv, DecideInv
<1>2. QED
  BY <1>1, SystemInvariant, PTL

-----------------------------------------------------------------------------
(* ReviewSystem implements CandidateDecisions.                              *)

Recorded(c) == \E e \in decisions : e.of = c

\* With one decision per candidate the CHOOSE of Verdict has one answer.
LEMMA OneRecord ==
    ASSUME NEW D, NEW c, NEW e \in D, e.of = c,
           \A x, y \in D : x.of = y.of => x = y
    PROVE  (CHOOSE x \in D : x.of = c) = e
OBVIOUS

\* What Verdict is, before a step and after it.
LEMMA VerdictNow ==
    ASSUME DecidedOnce
    PROVE  /\ \A e \in decisions : e.of \in Candidates => Verdict[e.of] = e.decision
           /\ \A c \in Candidates : ~Recorded(c) =>
                Verdict[c] = IF ~Exists(c) THEN "absent" ELSE IF Open(c) THEN "open" ELSE "retired"
<1>1. \A x, y \in decisions : x.of = y.of => x = y
  BY DEF DecidedOnce
<1>2. ASSUME NEW e \in decisions, e.of \in Candidates PROVE Verdict[e.of] = e.decision
  BY <1>1, <1>2, OneRecord DEF Verdict
<1>3. QED
  BY <1>2 DEF Verdict, Recorded

\* The same after a step.
LEMMA VerdictNext ==
    ASSUME DecidedOnce'
    PROVE  /\ \A e \in decisions' : e.of \in Candidates => Verdict'[e.of] = e.decision
           /\ \A c \in Candidates : (\A e \in decisions' : e.of # c) =>
                Verdict'[c] = IF candidate'[c] = NoCandidate THEN "absent"
                              ELSE IF candidate'[c].status = "PROPOSED" THEN "open" ELSE "retired"
<1>1. \A x, y \in decisions' : x.of = y.of => x = y
  BY DEF DecidedOnce
<1>2. ASSUME NEW e \in decisions', e.of \in Candidates PROVE Verdict'[e.of] = e.decision
  BY <1>1, <1>2, OneRecord DEF Verdict
<1>3. QED
  BY <1>2 DEF Verdict, Exists, Open

\* A candidate keeps its verdict when its decision is on record, and when
\* nothing of it changes.
LEMMA VerdictKept ==
    ASSUME DecidedOnce, DecidedOnce', decisions' = decisions, NEW c \in Candidates,
           Recorded(c) \/ candidate'[c] = candidate[c]
    PROVE  Verdict'[c] = Verdict[c]
<1>1. CASE Recorded(c)
  BY <1>1, VerdictNow, VerdictNext DEF Recorded
<1>2. CASE ~Recorded(c)
  BY <1>2, VerdictNow, VerdictNext DEF Recorded, Exists, Open
<1>3. QED
  BY <1>1, <1>2

\* Steps that touch neither candidates nor decisions.
LEMMA VerdictFramed ==
    ASSUME DecidedOnce, DecidedOnce', UNCHANGED <<candidate, decisions>>
    PROVE  Verdict' = Verdict
<1>1. \A c \in Candidates : Verdict'[c] = Verdict[c]
  BY VerdictKept
<1>2. DOMAIN Verdict = Candidates /\ DOMAIN Verdict' = Candidates
      /\ Verdict = [c \in Candidates |-> Verdict[c]]
      /\ Verdict' = [c \in Candidates |-> Verdict'[c]]
  BY DEF Verdict
<1>3. QED
  BY <1>1, <1>2

AbstractStep == Decisions!DecisionsNext \/ UNCHANGED <<Verdict, promoted>>

-----------------------------------------------------------------------------
(* One lemma per abstract action                                            *)

\* The commit of a run is a Reconcile.  A candidate that was decided after the
\* run read it as open keeps its verdict: the decision is on record.
LEMMA CommitReconciles ==
    ASSUME SystemInv, SystemInv', NEW j \in Jobs, PersistCommits(j), UNCHANGED reviewVars
    PROVE  AbstractStep
<1> DEFINE New == proposals[j]
           Old == {c \in stale[j] : Verdict[c] = "open"}
<1>a. TypeInv /\ RunsInv /\ DecidedOnce /\ DecidedOnce' /\ SystemTypeOK
  BY DEF SystemInv, TypeInv, DecideInv
<1>b. promoted' = promoted /\ decisions' = decisions
  BY DEF PersistCommits, reviewVars
<1>c. /\ New \subseteq Candidates /\ Old \subseteq Candidates /\ stale[j] \subseteq Candidates
      /\ \A e \in decisions : e.of \in Candidates
  BY <1>a DEF SystemTypeOK, ExtractionTypeOK, ReviewTypeOK
<1>d. docLock = j /\ run[j].status # "COMPLETED"
  BY <1>a DEF PersistCommits, ExtAt, TypeInv, LocksInv, RunsInv
<1>1. \A c \in New : ~Exists(c) /\ ~Recorded(c)
  <2>1. \A c \in Candidates : Exists(c) => candidate[c].of \in Jobs
    BY <1>a, RowTypes DEF RequirementCandidate
  <2>2. QED
    BY <1>a, <1>c, <1>d, <2>1 DEF RunsInv, Recorded
<1>2. \A c \in stale[j] : Exists(c) /\ c \notin New
  BY <1>a, <1>d, <1>1 DEF TypeInv, StaleExists
<1>3. \A c \in stale[j] : candidate'[c] # NoCandidate /\ candidate'[c].status = "SUPERSEDED"
  BY <1>a, <1>c, <1>2, FlushRows, RowTypes DEF PersistCommits
<1>4. \A c \in New : candidate'[c] # NoCandidate /\ candidate'[c].status = "PROPOSED"
  <2>1. ProposedRow(j) # NoCandidate /\ ProposedRow(j).status = "PROPOSED"
    BY <1>a, <1>c, FlushRows, RowTypes DEF ProposedRow, NoCandidate
  <2>2. QED
    BY <1>c, <1>2, <2>1 DEF PersistCommits
<1>5. \A c \in Candidates \ (stale[j] \cup New) : candidate'[c] = candidate[c]
  BY DEF PersistCommits
<1>6. \A c \in New : Verdict[c] = "absent" /\ Verdict'[c] = "open"
  BY <1>a, <1>b, <1>c, <1>1, <1>4, VerdictNow, VerdictNext DEF Recorded
<1>7. ASSUME NEW c \in stale[j]
      PROVE  Verdict'[c] = IF c \in Old THEN "retired" ELSE Verdict[c]
  <2>1. CASE Recorded(c)
    <3>1. PICK e \in decisions : e.of = c
      BY <2>1 DEF Recorded
    <3>2. e.decision \in Decision
      BY <1>a DEF SystemTypeOK, ReviewTypeOK
    <3>3. Verdict[c] = e.decision /\ Verdict'[c] = e.decision
      BY <1>a, <1>b, <1>c, <3>1, VerdictNow, VerdictNext
    <3>4. QED
      BY <3>2, <3>3 DEF Decision
  <2>2. CASE ~Recorded(c)
    <3>1. Verdict'[c] = "retired"
      BY <1>a, <1>b, <1>c, <1>3, <2>2, VerdictNext DEF Recorded
    <3>2. Verdict[c] \in {"open", "retired"}
      BY <1>a, <1>c, <1>2, <2>2, VerdictNow
    <3>3. QED
      BY <3>1, <3>2
  <2>3. QED
    BY <2>1, <2>2
<1>8. \A c \in Candidates \ (stale[j] \cup New) : Verdict'[c] = Verdict[c]
  BY <1>a, <1>b, <1>5, VerdictKept
<1>9. Verdict' = [c \in Candidates |->
            IF c \in New THEN "open" ELSE IF c \in Old THEN "retired" ELSE Verdict[c]]
  <2>1. \A c \in Candidates : Verdict'[c] =
            IF c \in New THEN "open" ELSE IF c \in Old THEN "retired" ELSE Verdict[c]
    BY <1>2, <1>6, <1>7, <1>8
  <2>2. Verdict' = [c \in Candidates |-> Verdict'[c]]
    BY DEF Verdict
  <2>3. QED
    BY <2>1, <2>2
<1>10. Decisions!Reconcile(New, Old)
  BY <1>b, <1>6, <1>9 DEF Decisions!Reconcile
<1>11. QED
  BY <1>c, <1>10 DEF AbstractStep, Decisions!DecisionsNext

\* The replacement of the pages by the legacy job is a Withdraw: the candidates
\* the cascade takes that were decided keep their verdict on record.
LEMMA LegacyWithdraws ==
    ASSUME SystemInv, SystemInv', LegacyInsertsPages, UNCHANGED reviewVars
    PROVE  AbstractStep
<1> DEFINE C == {c \in Candidates : Exists(c) /\ rowLock[c] = Legacy /\ ~Recorded(c)}
<1>a. DecidedOnce /\ DecidedOnce'
  BY DEF SystemInv, DecideInv
<1>b. promoted' = promoted /\ decisions' = decisions
  BY DEF LegacyInsertsPages, DocumentFree, reviewVars
<1>1. \A c \in C : Verdict[c] \in {"open", "retired"}
  BY <1>a, VerdictNow
<1>2. \A c \in C : Verdict'[c] = "absent"
  BY <1>a, <1>b, VerdictNext DEF LegacyInsertsPages, DocumentFree, Recorded
<1>3. \A c \in Candidates \ C : Verdict'[c] = Verdict[c]
  <2>1. \A c \in Candidates \ C : Recorded(c) \/ candidate'[c] = candidate[c]
    BY DEF LegacyInsertsPages, DocumentFree, Exists
  <2>2. QED
    BY <1>a, <1>b, <2>1, VerdictKept
<1>4. Verdict' = [c \in Candidates |-> IF c \in C THEN "absent" ELSE Verdict[c]]
  <2>1. Verdict' = [c \in Candidates |-> Verdict'[c]]
    BY DEF Verdict
  <2>2. QED
    BY <1>2, <1>3, <2>1
<1>5. Decisions!Withdraw(C)
  BY <1>b, <1>1, <1>4 DEF Decisions!Withdraw
<1>6. C \in SUBSET Candidates
  OBVIOUS
<1>7. QED
  BY <1>5, <1>6 DEF AbstractStep, Decisions!DecisionsNext

\* The commit of a submission is a Decide.
LEMMA ReviewDecides ==
    ASSUME SystemInv, SystemInv', NEW r \in Requests, ReviewCommits(r)
    PROVE  AbstractStep
<1> DEFINE c == review[r].of
           d == review[r].decision
           new == [of |-> c, by |-> review[r].user, decision |-> d]
<1>a. DecidedOnce /\ DecidedOnce' /\ SystemTypeOK
  BY DEF SystemInv, DecideInv, TypeInv
<1>b. /\ c \in Candidates /\ d \in Decision /\ Exists(c) /\ Open(c)
      /\ \A b \in Candidates \ {c} : candidate'[b] = candidate[b]
      /\ \A e \in decisions : e.of # c
  BY DecisionWrites
<1>c. /\ decisions' = decisions \cup {new}
      /\ promoted' = IF d = "REJECT" THEN promoted ELSE promoted \cup {c}
  BY <1>b DEF ReviewCommits, Promotes, Decision
<1>1. Verdict[c] = "open"
  BY <1>a, <1>b, VerdictNow DEF Recorded
<1>2. Verdict'[c] = d
  <2>1. new \in decisions' /\ new.of = c /\ new.decision = d
    BY <1>c
  <2>2. QED
    BY <1>a, <1>b, <2>1, VerdictNext
<1>3. ASSUME NEW b \in Candidates \ {c} PROVE Verdict'[b] = Verdict[b]
  <2>1. CASE Recorded(b)
    <3>1. PICK e \in decisions : e.of = b
      BY <2>1 DEF Recorded
    <3>2. QED
      BY <1>a, <1>c, <3>1, VerdictNow, VerdictNext
  <2>2. CASE ~Recorded(b)
    <3>1. \A e \in decisions' : e.of # b
      BY <1>3, <1>c, <2>2 DEF Recorded
    <3>2. QED
      BY <1>3, <1>a, <1>b, <2>2, <3>1, VerdictNow, VerdictNext DEF Exists, Open
  <2>3. QED
    BY <2>1, <2>2
<1>4. Verdict' = [Verdict EXCEPT ![c] = d]
  <2>1. Verdict' = [b \in Candidates |-> Verdict'[b]] /\ Verdict = [b \in Candidates |-> Verdict[b]]
    BY DEF Verdict
  <2>2. QED
    BY <1>b, <1>2, <1>3, <2>1
<1>5. Decisions!Decide(c, d)
  BY <1>c, <1>1, <1>4 DEF Decisions!Decide
<1>6. d \in Decisions!Decision
  BY <1>b DEF Decision, Decisions!Decision
<1>7. QED
  BY <1>b, <1>5, <1>6 DEF AbstractStep, Decisions!DecisionsNext

\* Deleting Requirements is a Remove; every other step stutters.
LEMMA OthersRemove ==
    ASSUME SystemInv, SystemInv', UNCHANGED <<candidate, decisions>>, promoted' \subseteq promoted
    PROVE  AbstractStep
<1>1. Verdict' = Verdict
  BY VerdictFramed DEF SystemInv, DecideInv
<1>2. promoted \ promoted' \in SUBSET Candidates
  BY DEF SystemInv, TypeInv, SystemTypeOK, StoreTypeOK
<1>3. promoted' = promoted \ (promoted \ promoted')
  OBVIOUS
<1>4. Decisions!Remove(promoted \ promoted')
  BY <1>1, <1>3 DEF Decisions!Remove
<1>5. QED
  BY <1>2, <1>4 DEF AbstractStep, Decisions!DecisionsNext

\* Every step of the system is a step or a stutter of CandidateDecisions.
LEMMA StepsImplement ==
    ASSUME SystemInv, SystemInv', [SystemNext]_systemVars
    PROVE  AbstractStep
<1>a. ASSUME NEW j \in Jobs, ExtractionStepOf(j) \/ PersistAborts(j) \/ ExtractionCrash(j),
             UNCHANGED reviewVars
      PROVE  AbstractStep
  <2>1. CASE PersistCommits(j)
    BY <1>a, <2>1, CommitReconciles
  <2>2. CASE ~PersistCommits(j)
    BY <1>a, <2>2, ExtractionFrame, OthersRemove DEF reviewVars
  <2>3. QED
    BY <2>1, <2>2
<1>b. ASSUME LegacyFails, UNCHANGED reviewVars PROVE AbstractStep
  BY <1>b, OthersRemove DEF LegacyFails, content, reviewVars
<1>c. ASSUME NEW r \in Requests, ReviewRollsBack(r) PROVE AbstractStep
  BY <1>c, OthersRemove DEF ReviewRollsBack, content
<1>1. ASSUME NEW j \in Jobs, ExtractionMoves(j) PROVE AbstractStep
  BY <1>1, <1>a DEF ExtractionMoves
<1>2. ASSUME NEW j \in Jobs, DeadlockDetected(j) PROVE AbstractStep
  BY <1>2, <1>a, <1>b, <1>c DEF DeadlockDetected
<1>3. ASSUME NEW r \in Requests, ReviewMoves(r) PROVE AbstractStep
  <2>1. CASE ReviewCommits(r)
    BY <2>1, ReviewDecides
  <2>2. CASE ReviewNotFound(r) \/ AlreadyDecided(r) \/ ReviewDrift(r) \/ ReviewInvalid(r) \/ ReviewLocks(r)
    BY <2>2, OthersRemove DEF ReviewNotFound, AlreadyDecided, ReviewDrift, ReviewInvalid, ReviewLocks,
       tables, content
  <2>3. QED
    BY <1>3, <1>c, <2>1, <2>2 DEF ReviewMoves, ReviewStepOf
<1>4. CASE LegacyMoves
  <2>1. UNCHANGED reviewVars
    BY <1>4 DEF LegacyMoves
  <2>2. CASE LegacyInsertsPages
    BY <2>1, <2>2, LegacyWithdraws
  <2>3. CASE LegacyStarts \/ LegacyChecks \/ LegacyExtracts \/ LegacyDeletesPages \/ LegacyFinishes
             \/ LegacyGivesUp
    BY <1>b, <2>1, <2>3, OthersRemove DEF LegacyStarts, LegacyChecks, LegacyExtracts,
       LegacyDeletesPages, LegacyFinishes, LegacyGivesUp, tables, content, reviewVars
  <2>4. CASE LegacyWritesRequirements
    BY <1>b, <2>1, <2>4, OthersRemove DEF LegacyWritesRequirements, reviewVars
  <2>5. QED
    BY <1>4, <2>2, <2>3, <2>4 DEF LegacyMoves, LegacyStepOf
<1>5. CASE Faults
  <2>1. CASE LegacyCrash /\ UNCHANGED reviewVars
    BY <2>1, OthersRemove DEF LegacyCrash, content, reviewVars
  <2>2. QED
    BY <1>5, <1>a, <1>c, <2>1 DEF Faults
<1>6. CASE People
  BY <1>6, OthersRemove DEF People, SetCapability, ReviewAuthorises, DeleteRequirement,
     tables, content, reviewVars
<1>7. CASE Documents
  BY <1>7, OthersRemove DEF Documents, ParseCompletes, RetryDocument, tables, content, reviewVars
<1>8. CASE UNCHANGED systemVars
  BY <1>8, OthersRemove DEF systemVars, tables, content, reviewVars
<1>9. QED
  BY <1>1, <1>2, <1>3, <1>4, <1>5, <1>6, <1>7, <1>8 DEF SystemNext, Progress

\* The record of human decisions is what CandidateDecisions promises: decided
\* once, by nobody but a submission, and never undone by a machine run.
THEOREM ReviewImplementsDecisions == SystemSpec => DecisionsImplemented
<1>1. SystemInit => Decisions!DecisionsInit
  BY DEF SystemInit, StoreInit, ReviewInit, Decisions!DecisionsInit, Verdict, Exists
<1>2. SystemInv /\ SystemInv' /\ [SystemNext]_systemVars
        => [Decisions!DecisionsNext]_<<Verdict, promoted>>
  BY StepsImplement DEF AbstractStep
<1>3. QED
  BY <1>1, <1>2, SystemInvariant, PTL DEF SystemSpec, DecisionsImplemented, Decisions!DecisionsSpec
=============================================================================
