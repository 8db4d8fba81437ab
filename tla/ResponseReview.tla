--------------------------- MODULE ResponseReview ---------------------------
(***************************************************************************)
(* Drafting, reviewing and exporting the answer to a requirement            *)
(* (app/web/routes/compliance.py).  Drafting is the only handler that       *)
(* awaits: the others run on threads, drafting on the event loop of the     *)
(* one web process, so nothing but those threads runs between its           *)
(* max(version) and its commit, and they insert no draft.                   *)
(***************************************************************************)
EXTENDS WorkspaceRows

ReadingOps == {"edit_draft", "approve", "reject_draft", "changes", "reject_review",
               "reopen"}
ReviewOps == ReadingOps \cup {"draft", "start", "assign", "link"}

\* get_requirement_for_org loads the row, or answers 404.
ReviewLoads(h, op) == Exists(Focus) /\ Arrives(h, Request(op, {Focus}, NoText))

\* The SELECT of the newest draft, for the handlers that have one.
ReadsDraft(h) ==
    /\ job[h].op \in ReadingOps /\ job[h].at = "loaded"
    /\ job' = [job EXCEPT ![h].at = "read", ![h].draft = Latest,
                 ![h].content = IF Latest = 0 THEN 0 ELSE drafts[Latest].content,
                 ![h].status = IF Latest = 0 THEN "draft" ELSE drafts[Latest].status]
    /\ UNCHANGED <<rows, served, vetted, typed, raced>>

\* Mutant: the decision lands on the draft that is newest at the commit.
DecidesNewest(h, s, d) ==
    /\ Exists(Focus)
    /\ row' = [row EXCEPT !.status = Column(job[h].row.status, s, @)]
    /\ drafts' = IF Latest = 0 THEN drafts ELSE [drafts EXCEPT ![Latest].status = d]
    /\ Answers(h, {Focus})
    /\ UNCHANGED <<life, text, evidence, typed>>

\* The commit of status s on the requirement and d on the draft that was read;
\* a requirement without a draft gets only its own status.
Decides(h, s, d) ==
    /\ Exists(Focus)
    /\ row' = [row EXCEPT !.status = Column(job[h].row.status, s, @)]
    /\ drafts' = IF job[h].draft = 0 THEN drafts
                 ELSE [drafts EXCEPT ![job[h].draft].status = Column(job[h].status, d, @)]
    /\ Answers(h, {Focus})
    /\ UNCHANGED <<life, text, evidence, typed>>

HasDraft(h) == job[h].draft # 0

-----------------------------------------------------------------------------
(* draft_requirement_response and regenerate_draft_response: the row is     *)
(* loaded, the provider is awaited, then version, draft and status are      *)
(* written.  The provider's answer says whether it needs evidence.          *)

NextVersion == IF Latest = 0 THEN 1 ELSE drafts[Latest].version + 1

\* Mutant: a new draft leaves the requirement's status alone.
DraftKeepsStatus(h, needsEvidence) ==
    /\ At(h, "draft", "loaded") /\ Exists(Focus)
    /\ drafts' = Append(drafts, [version |-> NextVersion, content |-> job[h].n,
                                 status |-> "draft"])
    /\ Answers(h, {Focus})
    /\ UNCHANGED <<life, text, row, evidence, vetted, typed>>

DraftCommits(h, needsEvidence) ==
    /\ At(h, "draft", "loaded") /\ Exists(Focus)
    /\ drafts' = Append(drafts, [version |-> NextVersion, content |-> job[h].n,
                                 status |-> "draft"])
    /\ row' = [row EXCEPT !.status =
                 Column(job[h].row.status,
                        IF needsEvidence THEN "NEEDS_EVIDENCE" ELSE "DRAFTED", @)]
    /\ Answers(h, {Focus})
    /\ UNCHANGED <<life, text, evidence, vetted, typed>>

-----------------------------------------------------------------------------
(* edit_draft_response: new content on the newest draft, whose status       *)
(* stays; 404 without a draft.                                              *)

EditDraftCommits(h) ==
    /\ At(h, "edit_draft", "read") /\ HasDraft(h) /\ Exists(Focus)
    /\ drafts' = [drafts EXCEPT ![job[h].draft].content = job[h].n]
    /\ row' = [row EXCEPT !.status = Column(job[h].row.status, "DRAFTED", @)]
    /\ typed' = typed \cup {job[h].n}
    /\ Answers(h, {Focus})
    /\ UNCHANGED <<life, text, evidence, vetted>>

-----------------------------------------------------------------------------
(* approve_draft_response: a mandatory requirement without a link, and a    *)
(* draft the grounding check refuses, go to NEEDS_REVIEW.  Without links    *)
(* the verdict of the grounding check is ignored.                           *)

Approvable(h, grounded) == IF evidence THEN grounded ELSE ~job[h].row.mandatory

ApproveCommits(h, grounded) ==
    /\ At(h, "approve", "read") /\ HasDraft(h) /\ Approvable(h, grounded)
    /\ Decides(h, "APPROVED", "approved")
    /\ vetted' = vetted \cup {job[h].content}

ApproveBlocks(h, grounded) ==
    /\ At(h, "approve", "read") /\ HasDraft(h) /\ ~Approvable(h, grounded)
    /\ Decides(h, "NEEDS_REVIEW", "needs_review")
    /\ UNCHANGED vetted

-----------------------------------------------------------------------------
\* reject_draft_response: 404 without a draft.
RejectDraftCommits(h) ==
    /\ At(h, "reject_draft", "read") /\ HasDraft(h)
    /\ Decides(h, "REJECTED", "rejected")
    /\ UNCHANGED vetted

\* request_changes_action, with a reason.
ChangesCommits(h) ==
    /\ At(h, "changes", "read")
    /\ Decides(h, "CHANGES_REQUESTED", "changes_requested")
    /\ UNCHANGED vetted

\* reject_review_action, with a reason.
RejectReviewCommits(h) ==
    /\ At(h, "reject_review", "read")
    /\ Decides(h, "REJECTED", "rejected")
    /\ UNCHANGED vetted

\* Mutant: reopening writes a status no draft has.
ReopenOpens(h) ==
    /\ At(h, "reopen", "read")
    /\ Decides(h, "NEEDS_REVIEW", "open")
    /\ UNCHANGED vetted

\* reopen_review_action
ReopenCommits(h) ==
    /\ At(h, "reopen", "read")
    /\ Decides(h, "NEEDS_REVIEW", "draft")
    /\ UNCHANGED vetted

\* start_review_action
StartCommits(h) ==
    /\ At(h, "start", "loaded")
    /\ Decides(h, "IN_REVIEW", "draft")
    /\ UNCHANGED vetted

\* assign_requirement_reviewer; its ReviewTask row is never read again.
AssignCommits(h) ==
    /\ At(h, "assign", "loaded")
    /\ Decides(h, "NEEDS_REVIEW", "draft")
    /\ UNCHANGED vetted

\* link_evidence_action, once validate_evidence_candidate accepts the snippet.
LinkCommits(h) ==
    /\ At(h, "link", "loaded") /\ Exists(Focus)
    /\ evidence' = TRUE
    /\ job' = [job EXCEPT ![h] = Idle]
    /\ UNCHANGED <<life, text, row, drafts, served, vetted, typed, raced>>

\* 404 without a draft, a refused snippet, a provider error, or a commit that
\* finds the requirement deleted.
ReviewEnds(h) ==
    /\ job[h].op \in ReviewOps
    /\ Ends(h)

-----------------------------------------------------------------------------
\* export_proposal_docx: the text that goes out as the answer, 0 if none.
Exported ==
    IF Latest # 0 /\ drafts[Latest].status = "approved"
    THEN drafts[Latest].content ELSE 0

ReviewStep(h) ==
    \/ \E op \in ReviewOps : ReviewLoads(h, op)
    \/ ReadsDraft(h)
    \/ \E b \in BOOLEAN : DraftCommits(h, b) \/ ApproveCommits(h, b) \/ ApproveBlocks(h, b)
    \/ EditDraftCommits(h) \/ RejectDraftCommits(h)
    \/ ChangesCommits(h) \/ RejectReviewCommits(h) \/ ReopenCommits(h)
    \/ StartCommits(h) \/ AssignCommits(h) \/ LinkCommits(h)
    \/ ReviewEnds(h)
=============================================================================
