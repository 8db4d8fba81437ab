--------------------------- MODULE CandidateReview ---------------------------
(***************************************************************************)
(* The review routes with services/candidate_review.py, the authorisation   *)
(* of core/security.py they rest on, and the operator CLI that grants and   *)
(* revokes the capability.                                                  *)
(*                                                                          *)
(* A submission is authorised first, by a plain read of the user; then the  *)
(* candidate and its task are locked and everything to the commit is under  *)
(* that lock.  The INSERT of the Requirement also needs the referenced      *)
(* Document row, so it waits while extraction holds that row FOR UPDATE.    *)
(***************************************************************************)
EXTENDS ExtractionStore

CONSTANTS
    Users,     \* users that may submit a review
    Members,   \* those of the organisation the candidates belong to
    Offered    \* the decisions submitted

ASSUME ReviewAssumption ==
    /\ Members \subseteq Users
    /\ Offered \subseteq {"APPROVE", "EDIT", "REJECT"}

VARIABLES
    capability,  \* users with can_review_requirements
    review,      \* review[r]: the submission and how far it is
    decisions    \* the AuditEvent rows of decisions: who decided what

reviewVars == <<capability, review, decisions>>

Decision == {"APPROVE", "EDIT", "REJECT"}
StatusOf == [APPROVE |-> "APPROVED", EDIT |-> "EDITED", REJECT |-> "REJECTED"]

ReviewStep == {"idle", "lock", "decide", "ended"}
ReviewOutcome == {"none", "ok", "unauthorized", "not found", "replay",
                  "conflict", "drift", "invalid"}

Submission == [pc : ReviewStep, user : Users, of : Candidates,
               decision : Decision, outcome : ReviewOutcome]
NoSubmission == [pc |-> "idle"]

ReviewTypeOK ==
    /\ capability \subseteq Users
    /\ review \in [Requests -> Submission \cup {NoSubmission}]
    /\ decisions \subseteq [of : Candidates, by : Users, decision : Decision]

ReviewInit ==
    /\ capability = {}
    /\ review = [r \in Requests |-> NoSubmission]
    /\ decisions = {}

ReviewAt(r, step) == review[r].pc = step
Submitted(r) == review[r] # NoSubmission
ReviewEnds(r, outcome) ==
    review' = [review EXCEPT ![r].pc = "ended", ![r].outcome = outcome]

Locks(c, who) == rowLock' = [rowLock EXCEPT ![c] = who]

-----------------------------------------------------------------------------
(* The CLI and the authorisation                                            *)

\* set_capability --confirm: an unknown or foreign user is refused, a change
\* to the state already held writes nothing.
SetCapability(u, grant) ==
    /\ u \in Members
    /\ (u \in capability) # grant
    /\ capability' = IF grant THEN capability \cup {u} ELSE capability \ {u}
    /\ UNCHANGED <<tables, review, decisions>>

\* require_requirement_reviewer for an active user.
Authorized(u) == u \in Members /\ u \in capability

\* A submission comes from the page of a candidate that was there.
ReviewAuthorises(r, u, c, d) ==
    /\ review[r] = NoSubmission /\ Exists(c)
    /\ review' = [review EXCEPT ![r] =
            [user |-> u, of |-> c, decision |-> d,
             pc |-> IF Authorized(u) THEN "lock" ELSE "ended",
             outcome |-> IF Authorized(u) THEN "none" ELSE "unauthorized"]]
    /\ UNCHANGED <<tables, capability, decisions>>

\* The reviewers' queue, _open_candidate_query: candidate PROPOSED and task OPEN.
Queued(c) == Exists(c) /\ Open(c) /\ candidate[c].task = "OPEN"

-----------------------------------------------------------------------------
(* The decision                                                             *)

\* Mutant: the candidate is read without FOR UPDATE.
MayLockUnlocked(r) == ReviewAt(r, "lock")

\* SELECT ... FOR UPDATE of a row another transaction holds waits for it.
MayLock(r) == ReviewAt(r, "lock") /\ rowLock[review[r].of] = Nobody

ReviewNotFound(r) ==
    /\ MayLock(r) /\ ~Exists(review[r].of)
    /\ ReviewEnds(r, "not found")
    /\ UNCHANGED <<tables, capability, decisions>>

\* Mutant: every settled candidate is reported as this decision.
AlreadyDecidedReplay(r) ==
    /\ MayLock(r) /\ Exists(review[r].of) /\ ~Open(review[r].of)
    /\ ReviewEnds(r, "replay")
    /\ UNCHANGED <<tables, capability, decisions>>

\* Not PROPOSED any more: the same decision is reported as settled, any other
\* is a conflict.
AlreadyDecided(r) ==
    /\ MayLock(r) /\ Exists(review[r].of) /\ ~Open(review[r].of)
    /\ ReviewEnds(r, IF candidate[review[r].of].status = StatusOf[review[r].decision]
                     THEN "replay" ELSE "conflict")
    /\ UNCHANGED <<tables, capability, decisions>>

\* _revalidate_source: the page is there, hashed, and is the one the candidate
\* was cut from.
SourceValid(c) == pages.hashed /\ candidate[c].page = pages.generation

ReviewDrift(r) ==
    /\ MayLock(r) /\ Exists(review[r].of) /\ Open(review[r].of)
    /\ ~SourceValid(review[r].of)
    /\ ReviewEnds(r, "drift")
    /\ UNCHANGED <<tables, capability, decisions>>

\* A comment too long, an EDIT without text or with text that is refused: found
\* before anything is written, and so before the wait of the flush below.
ReviewInvalid(r) ==
    /\ MayLock(r) /\ Exists(review[r].of) /\ Open(review[r].of)
    /\ SourceValid(review[r].of)
    /\ ReviewEnds(r, "invalid")
    /\ UNCHANGED <<tables, capability, decisions>>

ReviewLocks(r) ==
    /\ MayLock(r) /\ Exists(review[r].of) /\ Open(review[r].of)
    /\ SourceValid(review[r].of)
    /\ Locks(review[r].of, r)
    /\ review' = [review EXCEPT ![r].pc = "decide"]
    /\ UNCHANGED <<content, docLock, pageLock,
                   capability, decisions>>

\* Mutant: a rejection creates a Requirement as well.
PromotesAlways(r) == TRUE

Promotes(r) == review[r].decision \in {"APPROVE", "EDIT"}

\* The key-share lock of the Requirement's foreign key on the Document row.
DocumentReadable(r) == Promotes(r) => docLock = Nobody

ReviewCommits(r) ==
    LET c == review[r].of IN
    /\ ReviewAt(r, "decide") /\ DocumentReadable(r)
    /\ candidate' = [candidate EXCEPT
            ![c].status = StatusOf[review[r].decision],
            ![c].task = IF @ = "OPEN" THEN "COMPLETED" ELSE @]
    /\ promoted' = IF Promotes(r) THEN promoted \cup {c} ELSE promoted
    /\ decisions' = decisions \cup
            {[of |-> c, by |-> review[r].user, decision |-> review[r].decision]}
    /\ Locks(c, Nobody)
    /\ ReviewEnds(r, "ok")
    /\ UNCHANGED <<ingestion, pages, run, docLock, pageLock, capability>>

\* The two except blocks around the flush and the commit: a deadlock, another
\* database error, or the death of the web process.  A fault, never a step the
\* scheduler owes: no timeout ends the wait of the flush.
ReviewRollsBack(r) ==
    /\ ReviewAt(r, "decide")
    /\ Locks(review[r].of, Nobody)
    /\ ReviewEnds(r, "conflict")
    /\ UNCHANGED <<content, docLock, pageLock,
                   capability, decisions>>

\* delete_requirement_action of the compliance matrix.
DeleteRequirement(c) ==
    /\ c \in promoted
    /\ promoted' = promoted \ {c}
    /\ UNCHANGED <<ingestion, pages, run, candidate, docLock, pageLock, rowLock, reviewVars>>

ReviewStepOf(r) ==
    \/ ReviewNotFound(r) \/ AlreadyDecided(r) \/ ReviewDrift(r)
    \/ ReviewInvalid(r) \/ ReviewLocks(r) \/ ReviewCommits(r)
=============================================================================
