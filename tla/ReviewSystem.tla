---------------------------- MODULE ReviewSystem ----------------------------
(***************************************************************************)
(* Extraction deliveries, review submissions, the operator CLI and the      *)
(* legacy processing job over one document, interleaved.                    *)
(***************************************************************************)
EXTENDS CandidateExtraction, CandidateReview, LegacyProcessing

systemVars == <<tables, extVars, reviewVars, legacyVars>>

SystemInit == StoreInit /\ ExtractionInit /\ ReviewInit /\ LegacyInit

-----------------------------------------------------------------------------
(* PostgreSQL's deadlock detection (external).  The flush of extraction     *)
(* waits for a row of a transaction that itself waits for the document row  *)
(* extraction holds; one of the two is aborted.                             *)

WaitsForReview(j, r) ==
    /\ docLock = j /\ ExtAt(j, "flush")
    /\ ReviewAt(r, "decide") /\ Promotes(r)
    /\ review[r].of \in stale[j] /\ rowLock[review[r].of] = r

WaitsForLegacy(j) ==
    /\ docLock = j /\ ExtAt(j, "flush") /\ ~RowsFree(j)
    /\ LegacyAt("insert")
    /\ \/ pageLock = Legacy /\ proposals[j] # {}
       \/ \E c \in stale[j] : rowLock[c] = Legacy

DeadlockDetected(j) ==
    \/ \E r \in Requests : /\ WaitsForReview(j, r)
                           /\ \/ PersistAborts(j) /\ UNCHANGED <<reviewVars, legacyVars>>
                              \/ /\ ReviewRollsBack(r)
                                 /\ UNCHANGED <<extVars, legacyVars>>
    \/ /\ WaitsForLegacy(j)
       /\ \/ PersistAborts(j) /\ UNCHANGED <<reviewVars, legacyVars>>
          \/ LegacyFails /\ UNCHANGED <<extVars, reviewVars>>

-----------------------------------------------------------------------------
ExtractionMoves(j) == ExtractionStepOf(j) /\ UNCHANGED <<reviewVars, legacyVars>>
ReviewMoves(r) == ReviewStepOf(r) /\ UNCHANGED <<extVars, legacyVars>>
LegacyMoves == LegacyStepOf /\ UNCHANGED <<extVars, reviewVars>>

Progress ==
    \/ \E j \in Jobs : ExtractionMoves(j) \/ DeadlockDetected(j)
    \/ \E r \in Requests : ReviewMoves(r)
    \/ LegacyMoves

Faults ==
    \/ \E j \in Jobs : ExtractionCrash(j) /\ UNCHANGED <<reviewVars, legacyVars>>
    \/ \E r \in Requests : ReviewRollsBack(r) /\ UNCHANGED <<extVars, legacyVars>>
    \/ LegacyCrash /\ UNCHANGED <<extVars, reviewVars>>

People ==
    /\ \/ \E u \in Users, grant \in BOOLEAN : SetCapability(u, grant)
       \/ \E r \in Requests, u \in Users, c \in Candidates, d \in Offered :
            ReviewAuthorises(r, u, c, d)
       \/ \E c \in Candidates : DeleteRequirement(c)
    /\ UNCHANGED <<extVars, legacyVars>>

Documents ==
    \/ ParseCompletes /\ UNCHANGED <<extVars, reviewVars, legacyVars>>
    \/ RetryDocument /\ UNCHANGED <<extVars, reviewVars>>

SystemNext == Progress \/ Faults \/ People \/ Documents

SystemSpec == SystemInit /\ [][SystemNext]_systemVars

\* Workers and requests are scheduled; so is the deadlock detector, and nothing
\* else ends a cycle of waits: the rollback of a submission and the crashes are
\* faults.  Nothing is assumed of people or of the parse.
FairSystemSpec ==
    /\ SystemSpec
    /\ \A j \in Jobs : WF_systemVars(ExtractionMoves(j) \/ DeadlockDetected(j))
    /\ \A r \in Requests : WF_systemVars(ReviewMoves(r))
    /\ WF_systemVars(LegacyMoves)

-----------------------------------------------------------------------------
\* Every variable has its type.
SystemTypeOK == StoreTypeOK /\ ExtractionTypeOK /\ ReviewTypeOK /\ LegacyTypeOK

\* A candidate is decided at most once, by a member of the organisation,
\* whatever submissions, supersedes and lock waits run at the same time.
DecidedOnce ==
    \A e, f \in decisions : e.of = f.of => e = f /\ e.by \in Members

\* A Requirement that came from a candidate rests on a recorded decision that
\* approved or edited it, and its candidate and source page are still there:
\* neither the cascade of a page replacement nor a supersede takes them away.
RequirementBacked ==
    \A c \in promoted :
        /\ Exists(c) /\ candidate[c].page = pages.generation
        /\ \E e \in decisions : e.of = c /\ e.decision # "REJECT"

\* A reviewer never sees two competing sets of proposals: the open candidates
\* of the document are all of one completed run.
OneProposingRun ==
    \A c, d \in Candidates :
        Exists(c) /\ Exists(d) /\ Open(c) /\ Open(d) =>
            /\ candidate[c].of = candidate[d].of
            /\ run[candidate[c].of].status = "COMPLETED"

\* Candidate and task agree: what is open, or has an open task, is in the
\* reviewers' queue.  Neither a supersede that raced a decision nor a
\* rolled back one hides a proposal or leaves work nobody can see.
OpenIsQueued ==
    \A c \in Candidates :
        Exists(c) /\ (Open(c) \/ candidate[c].task = "OPEN") => Queued(c)

\* What a submission is told is true: "ok" and "replay" name a decision on
\* record for that candidate.
ToldTheTruth ==
    \A r \in Requests : Submitted(r) /\ review[r].outcome \in {"ok", "replay"} =>
        \E e \in decisions : e.of = review[r].of /\ e.decision = review[r].decision

\* The record of human decisions: extraction and review implement the abstract
\* specification.
Verdict == [c \in Candidates |->
    IF \E e \in decisions : e.of = c
    THEN (CHOOSE e \in decisions : e.of = c).decision
    ELSE IF ~Exists(c) THEN "absent"
    ELSE IF Open(c) THEN "open" ELSE "retired"]

Decisions == INSTANCE CandidateDecisions WITH
    Candidates <- Candidates, verdict <- Verdict, promoted <- promoted

DecisionsImplemented == Decisions!DecisionsSpec

\* Nobody waits for ever: every authorised submission ends, and every lock on
\* the document is given up, also when extraction, a reviewer and the legacy
\* job wait for one another.
SubmissionsEnd ==
    \A r \in Requests : ReviewAt(r, "lock") ~> ReviewAt(r, "ended")

\* The document row does not stay locked.
DocumentUnlocked == \A j \in Jobs : (docLock = j) ~> (docLock # j)

\* candidate_extraction.py: "APPROVED, EDITED, and REJECTED are human decisions
\* and are never rewritten by a machine run."
HumanDecisionKept ==
    [][\A c \in Candidates :
        Exists(c) /\ candidate[c].status \in DecidedStatus /\ candidate'[c] # NoCandidate
            => candidate'[c].status = candidate[c].status]_systemVars
=============================================================================
