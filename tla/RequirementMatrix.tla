-------------------------- MODULE RequirementMatrix --------------------------
(***************************************************************************)
(* The compliance matrix: editing, deleting, merging and splitting rows     *)
(* (app/web/routes/compliance.py).                                          *)
(***************************************************************************)
EXTENDS WorkspaceRows

Loads(op, Q) == Request(op, Q, text)

-----------------------------------------------------------------------------
(* update_requirement_action: every field of the form overwrites the row.   *)

EditRowLoads(h, q) == Exists(q) /\ Arrives(h, Loads("edit_row", {q}))

EditRowCommits(h, fragments, status, mandatory) ==
    \E q \in job[h].on :
        /\ At(h, "edit_row", "loaded") /\ Exists(q)
        /\ q # Focus => status = "NOT_STARTED" /\ ~mandatory
        /\ text' = [text EXCEPT ![q] = Column(job[h].texts[q], fragments, @)]
        /\ row' = IF q # Focus THEN row
                  ELSE [status |-> Column(job[h].row.status, status, row.status),
                        mandatory |-> Column(job[h].row.mandatory, mandatory, row.mandatory)]
        /\ job' = [Touched(h, {q}) EXCEPT ![h] = Idle]
        /\ raced' = (raced \/ (q = Focus /\ (job[h].touched \/ status = "APPROVED")))
        /\ UNCHANGED <<life, drafts, evidence, served, vetted, typed>>

-----------------------------------------------------------------------------
(* delete_requirement_action                                                *)

DeleteRowLoads(h, q) == Exists(q) /\ Arrives(h, Loads("delete_row", {q}))

DeleteRowCommits(h) ==
    /\ At(h, "delete_row", "loaded")
    /\ Deletes(job[h].on)
    /\ Answers(h, job[h].on)
    /\ UNCHANGED <<vetted, typed>>

-----------------------------------------------------------------------------
(* merge_requirements_action: one SELECT without an order, so any of the    *)
(* rows can come first; the joined text is committed on that one, and a     *)
(* second transaction deletes the others.                                   *)

MergeLoads(h, Q) ==
    /\ Cardinality(Q) >= 2 /\ \A q \in Q : Exists(q)
    /\ Arrives(h, Loads("merge", Q))

Joined(h) == UNION {job[h].texts[q] : q \in job[h].on}

\* The joined text is longer than each of its parts, so the column is written
\* even when it holds no fragment the row did not have.
MergeWrites(h, primary) ==
    /\ At(h, "merge", "loaded") /\ primary \in job[h].on /\ Exists(primary)
    /\ text' = [text EXCEPT ![primary] = Joined(h)]
    /\ job' = [Touched(h, {primary}) EXCEPT ![h].at = "written", ![h].primary = {primary}]
    /\ raced' = (raced \/ (primary = Focus /\ job[h].touched))
    /\ UNCHANGED <<life, row, drafts, evidence, served, vetted, typed>>

\* Mutant: the deletion starts at the first row of the list.
AllMerged(h) == job[h].on

Secondaries(h) == job[h].on \ job[h].primary

\* Deleting an expired object reloads it first: if one of the rows is gone the
\* transaction fails and deletes none.
MergeDeletes(h) ==
    /\ At(h, "merge", "written") /\ \A q \in Secondaries(h) : Exists(q)
    /\ Deletes(Secondaries(h))
    /\ Answers(h, Secondaries(h))
    /\ UNCHANGED <<vetted, typed>>

-----------------------------------------------------------------------------
(* split_requirement_action: the new row is inserted and the old text loses *)
(* the part, in one transaction.  A part the loaded text does not have      *)
(* leaves the old row unwritten.                                            *)

SplitLoads(h, q) == Exists(q) /\ Arrives(h, Loads("split", {q}))

SplitCommits(h, part, new) ==
    \E q \in job[h].on :
        LET rest == job[h].texts[q] \ part IN
        /\ At(h, "split", "loaded") /\ part # {} /\ life[new] = "unborn"
        /\ rest = job[h].texts[q] \/ Exists(q)
        /\ text' = [text EXCEPT ![q] = Column(job[h].texts[q], rest, @), ![new] = part]
        /\ life' = [life EXCEPT ![new] = "stored"]
        /\ Answers(h, {q})
        /\ UNCHANGED <<row, drafts, evidence, vetted, typed>>

-----------------------------------------------------------------------------
\* The commit finds that a row it must update is gone, or the process stops: a
\* merge can end between its two transactions.
MatrixFails(h) ==
    /\ job[h].op \in {"edit_row", "delete_row", "merge", "split"}
    /\ Ends(h)

MatrixStep(h) ==
    \/ \E q \in Reqs : EditRowLoads(h, q) \/ DeleteRowLoads(h, q) \/ SplitLoads(h, q)
    \/ \E f \in SUBSET Texts, s \in Statuses, m \in BOOLEAN : EditRowCommits(h, f, s, m)
    \/ DeleteRowCommits(h)
    \/ \E Q \in SUBSET Reqs : MergeLoads(h, Q)
    \/ \E q \in Reqs : MergeWrites(h, q)
    \/ MergeDeletes(h)
    \/ \E f \in SUBSET Texts, q \in Reqs : SplitCommits(h, f, q)
    \/ MatrixFails(h)
=============================================================================
