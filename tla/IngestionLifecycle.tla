------------------------- MODULE IngestionLifecycle -------------------------
(***************************************************************************)
(* What ingestion promises of the documents of one project, with nothing of *)
(* how it is done: a row is created quarantined, an RFP only while no other *)
(* RFP of the project is active, and from then on its status moves along    *)
(* the transition table, one edge at a time.                                *)
(***************************************************************************)
EXTENDS IngestionState

CONSTANTS Docs, Rfps

VARIABLE status

Active(d) == d \in Rfps /\ status[d] # NoRow /\ status[d] \notin TerminalRejected

LifecycleInit == status = [d \in Docs |-> NoRow]

Create(d) ==
    /\ status[d] = NoRow
    /\ d \in Rfps => \A e \in Docs : ~Active(e)
    /\ status' = [status EXCEPT ![d] = "QUARANTINED"]

Move(d) ==
    /\ status[d] # NoRow
    /\ \E s \in ALLOWED_TRANSITIONS[status[d]] :
            status' = [status EXCEPT ![d] = s]

LifecycleNext == \E d \in Docs : Create(d) \/ Move(d)

LifecycleSpec == LifecycleInit /\ [][LifecycleNext]_status
=============================================================================
