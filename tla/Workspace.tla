----------------------------- MODULE Workspace -----------------------------
(***************************************************************************)
(* The compliance workspace: matrix edits and answer reviews by requests    *)
(* that run at the same time.                                               *)
(***************************************************************************)
EXTENDS RequirementMatrix, ResponseReview

WorkspaceNext == \E h \in Handlers : MatrixStep(h) \/ ReviewStep(h)

WorkspaceSpec == WorkspaceInit /\ [][WorkspaceNext]_workspaceVars

-----------------------------------------------------------------------------
\* No machine-written answer leaves in an export that no approval checked, even
\* when drafts are regenerated, edited and approved at the same time: an
\* approved draft's text is one an approval read, or one a person typed.
NoUncheckedMachineText ==
    \A d \in DOMAIN drafts : drafts[d].status = "approved" =>
        drafts[d].content \in vetted \cup typed

\* A requirement shown as APPROVED has its newest answer approved, unless one
\* of its writers worked from a read another one had overtaken, or a person
\* typed the status into the row form.
ApprovedAgrees ==
    Exists(Focus) /\ row.status = "APPROVED" /\ ~raced => Exported # 0

\* A merge whose rows nobody else wrote since it read them loses no text, in
\* either of its transactions, or if it stops between them.
Held == UNION {text[q] : q \in {r \in Reqs : Exists(r)}}

QuietMergeKeepsText ==
    [][\A h \in Handlers :
         job[h].op = "merge" /\ ~job[h].touched /\ job'[h] # job[h] /\ ~job'[h].touched
         => Held \subseteq Held']_workspaceVars

\* What is exported is what was approved.
OnlyApprovedExported == Exported # 0 => Exported \in vetted
=============================================================================
