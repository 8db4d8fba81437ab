---------------------------- MODULE WorkspaceRows ----------------------------
(***************************************************************************)
(* The rows behind the compliance workspace and how its handlers write      *)
(* them.  Every handler loads rows through the ORM, computes, and commits;  *)
(* the commit of an ORM session updates a column only when the new value    *)
(* differs from the one the session LOADED, whatever the row holds by then. *)
(*                                                                          *)
(* Texts are sets of fragments.  Of the rows that hang off a requirement    *)
(* (status, drafts, evidence) those of one requirement, Focus, are kept:    *)
(* no handler reads or writes those of another one.                         *)
(***************************************************************************)
EXTENDS Naturals, Sequences, FiniteSets

CONSTANTS Reqs,         \* requirement row identifiers
          Stored,       \* the rows there are at first
          Focus,        \* the requirement whose answer is followed
          Handlers,     \* requests that can be in flight together
          MaxServed     \* bound on the requests served

ASSUME WorkspaceAssumption ==
    /\ Focus \in Stored /\ Stored \subseteq Reqs
    /\ IsFiniteSet(Reqs) /\ MaxServed \in Nat

VARIABLES life,         \* requirement -> unborn, stored or deleted
          text,         \* requirement -> the fragments of its text
          row,          \* status and mandatory flag of Focus
          drafts,       \* the DraftResponse rows of Focus, oldest first
          evidence,     \* whether Focus has an evidence link
          job,          \* handler -> the request it is serving
          served,       \* requests begun so far; names the texts they write
          vetted,       \* history: answer texts an approval has checked
          typed,        \* history: answer texts a person wrote
          raced         \* history: Focus was written over a stale read, or
                        \* its status was typed into the row form

rows == <<life, text, row, drafts, evidence>>
workspaceVars == <<life, text, row, drafts, evidence, job, served, vetted, typed, raced>>

Exists(q) == life[q] = "stored"
Texts == Stored

Statuses == {"NOT_STARTED", "NEEDS_EVIDENCE", "DRAFTED", "NEEDS_REVIEW",
             "APPROVED", "REJECTED", "IN_REVIEW", "CHANGES_REQUESTED"}
DraftStatuses == {"draft", "needs_review", "approved", "rejected",
                  "changes_requested"}

NoText == [q \in Reqs |-> {}]
Idle == [op |-> "idle", at |-> "loaded", n |-> 0, on |-> {}, texts |-> NoText,
         row |-> [status |-> "NOT_STARTED", mandatory |-> FALSE], primary |-> {},
         draft |-> 0, content |-> 0, status |-> "draft", touched |-> FALSE]
At(h, op, at) == job[h].op = op /\ job[h].at = at

\* The value a column holds after a commit that loaded it as l and set it to v.
Column(l, v, now) == IF v = l THEN now ELSE v

\* The newest draft: the largest version, which is the last inserted.
Latest == Len(drafts)

-----------------------------------------------------------------------------
\* What a request remembers: its operation and step, its number, the rows it is
\* about with what it loaded of them, the newest draft it found, and (history)
\* whether another request has written those rows since.
Request(op, Q, seen) ==
    [op |-> op, at |-> "loaded", n |-> served + 1, on |-> Q, texts |-> seen,
     row |-> row, primary |-> {}, draft |-> 0, content |-> 0, status |-> "draft", touched |-> FALSE]

Arrives(h, request) ==
    /\ job[h].op = "idle" /\ served < MaxServed
    /\ job' = [job EXCEPT ![h] = request]
    /\ served' = served + 1
    /\ UNCHANGED <<rows, vetted, typed, raced>>

\* The requests after h has committed to the rows Q.
Touched(h, Q) ==
    [g \in Handlers |->
        IF g # h /\ job[g].on \cap Q # {}
        THEN [job[g] EXCEPT !.touched = TRUE] ELSE job[g]]

\* A request ends without having written anything: an early return, an error
\* answer, or a commit the database refuses because the row is gone.
Ends(h) ==
    /\ job' = [job EXCEPT ![h] = Idle]
    /\ UNCHANGED <<rows, served, vetted, typed, raced>>

\* A request commits to the rows Q and answers.
Answers(h, Q) ==
    /\ job' = [Touched(h, Q) EXCEPT ![h] = Idle]
    /\ raced' = (raced \/ (Focus \in Q /\ job[h].touched))
    /\ UNCHANGED served

\* ondelete=CASCADE: drafts and links of a deleted requirement go with it.
Deletes(Q) ==
    /\ life' = [q \in Reqs |-> IF q \in Q THEN "deleted" ELSE life[q]]
    /\ text' = [q \in Reqs |-> IF q \in Q THEN {} ELSE text[q]]
    /\ drafts' = IF Focus \in Q THEN <<>> ELSE drafts
    /\ evidence' = (evidence /\ Focus \notin Q)
    /\ UNCHANGED row

-----------------------------------------------------------------------------
WorkspaceInit ==
    /\ life = [q \in Reqs |-> IF q \in Stored THEN "stored" ELSE "unborn"]
    /\ text = [q \in Reqs |-> IF q \in Stored THEN {q} ELSE {}]
    /\ row \in [status : {"NOT_STARTED"}, mandatory : BOOLEAN]
    /\ drafts = <<>> /\ evidence = FALSE
    /\ job = [h \in Handlers |-> Idle]
    /\ served = 0 /\ vetted = {} /\ typed = {} /\ raced = FALSE

Rows == [status : Statuses, mandatory : BOOLEAN]
Operations == {"idle", "edit_row", "delete_row", "merge", "split", "edit_draft",
               "approve", "reject_draft", "changes", "reject_review", "reopen",
               "draft", "start", "assign", "link"}
Requests == [op : Operations, at : {"loaded", "read", "written"}, n : 0..MaxServed,
             on : SUBSET Reqs, texts : [Reqs -> SUBSET Texts], row : Rows,
             primary : SUBSET Reqs, draft : Nat, content : 0..MaxServed, status : DraftStatuses,
             touched : BOOLEAN]

WorkspaceTypeOK ==
    /\ life \in [Reqs -> {"unborn", "stored", "deleted"}]
    /\ text \in [Reqs -> SUBSET Texts]
    /\ row \in Rows
    /\ drafts \in Seq([version : Nat, content : 1..MaxServed, status : DraftStatuses])
    /\ evidence \in BOOLEAN
    /\ job \in [Handlers -> Requests]
    /\ served \in 0..MaxServed
    /\ vetted \subseteq 1..MaxServed /\ typed \subseteq 1..MaxServed
    /\ raced \in BOOLEAN
=============================================================================
