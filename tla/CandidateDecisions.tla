------------------------- MODULE CandidateDecisions -------------------------
(***************************************************************************)
(* What extraction and review promise of a candidate, with nothing of how   *)
(* it is done.  The machine proposes and withdraws; a human decides an open *)
(* candidate once, for good; a Requirement is created by the decision that  *)
(* approves or edits, never otherwise, and may be removed later.            *)
(***************************************************************************)
CONSTANT Candidates

VARIABLES
    verdict,   \* verdict[c]: absent, open, retired, or the decision taken
    promoted   \* candidates with a Requirement

Decision == {"APPROVE", "EDIT", "REJECT"}

DecisionsInit ==
    /\ verdict = [c \in Candidates |-> "absent"]
    /\ promoted = {}

\* A completed run proposes New and retires what was open.
Reconcile(New, Old) ==
    /\ \A c \in New : verdict[c] = "absent"
    /\ \A c \in Old : verdict[c] = "open"
    /\ verdict' = [c \in Candidates |->
            IF c \in New THEN "open" ELSE IF c \in Old THEN "retired" ELSE verdict[c]]
    /\ UNCHANGED promoted

\* The pages go, and with them the candidates nobody decided.
Withdraw(C) ==
    /\ \A c \in C : verdict[c] \in {"open", "retired"}
    /\ verdict' = [c \in Candidates |-> IF c \in C THEN "absent" ELSE verdict[c]]
    /\ UNCHANGED promoted

Decide(c, d) ==
    /\ verdict[c] = "open"
    /\ verdict' = [verdict EXCEPT ![c] = d]
    /\ promoted' = IF d = "REJECT" THEN promoted ELSE promoted \cup {c}

Remove(C) ==
    /\ promoted' = promoted \ C
    /\ UNCHANGED verdict

DecisionsNext ==
    \/ \E New, Old \in SUBSET Candidates : Reconcile(New, Old)
    \/ \E C \in SUBSET Candidates : Withdraw(C) \/ Remove(C)
    \/ \E c \in Candidates, d \in Decision : Decide(c, d)

DecisionsSpec == DecisionsInit /\ [][DecisionsNext]_<<verdict, promoted>>
=============================================================================
