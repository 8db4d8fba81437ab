--------------------------- MODULE IngestionState ---------------------------
(***************************************************************************)
(* The validated ingestion state machine of app/services/ingestion_state.py:*)
(* the statuses a Document row may hold, the transition table, and what     *)
(* transition() does when it is called on a row object whose loaded status  *)
(* is `current`.  transition() decides from the LOADED status of the ORM     *)
(* object, which may differ from the status now stored in the row; the      *)
(* modules that use it therefore pass the status they have in hand.         *)
(***************************************************************************)
EXTENDS Naturals

\* Values of IngestionStatus.ALL.
IngestionStatus ==
    {"QUARANTINED", "VALIDATING", "SCANNING", "REJECTED_TYPE",
     "REJECTED_MALWARE", "REJECTED_CONTENT_POLICY", "SCAN_FAILED",
     "CLEAN_PENDING_PROMOTION", "PROMOTING", "PROMOTION_FAILED", "CLEAN",
     "PARSING", "PARSE_FAILED", "COMPLETED", "LEGACY_UNVERIFIED"}

\* No Document row has been inserted yet for this document.
NoRow == "NO_ROW"

ALLOWED_TRANSITIONS ==
    [s \in IngestionStatus |->
        CASE s = "QUARANTINED"             -> {"VALIDATING"}
          [] s = "VALIDATING"              -> {"SCANNING", "REJECTED_TYPE"}
          [] s = "SCANNING"                -> {"CLEAN_PENDING_PROMOTION",
                                               "REJECTED_MALWARE",
                                               "REJECTED_CONTENT_POLICY",
                                               "SCAN_FAILED"}
          [] s = "SCAN_FAILED"             -> {"SCANNING"}
          [] s = "CLEAN_PENDING_PROMOTION" -> {"PROMOTING"}
          [] s = "PROMOTING"               -> {"CLEAN", "PROMOTION_FAILED"}
          [] s = "PROMOTION_FAILED"        -> {"PROMOTING"}
          [] s = "CLEAN"                   -> {"PARSING"}
          [] s = "PARSING"                 -> {"COMPLETED", "PARSE_FAILED"}
          [] s = "PARSE_FAILED"            -> {"PARSING"}
          [] s = "LEGACY_UNVERIFIED"       -> {"VALIDATING"}
          [] OTHER                         -> {}]

\* The three ways transition(document, new) can end, given the loaded status:
\* "noop" returns without a commit, "error" raises IngestionStateError before
\* touching anything, "ok" writes the new status and commits.
Transition(current, new) ==
    IF current = new THEN "noop"
    ELSE IF new \in ALLOWED_TRANSITIONS[current] THEN "ok" ELSE "error"

\* project_service: statuses that free the project's RFP slot.
TerminalRejected ==
    {"REJECTED_TYPE", "REJECTED_MALWARE", "REJECTED_CONTENT_POLICY"}

\* Statuses that only a passed malware scan and content policy may lead to.
TrustedStatus ==
    {"CLEAN_PENDING_PROMOTION", "PROMOTING", "PROMOTION_FAILED", "CLEAN",
     "PARSING", "PARSE_FAILED", "COMPLETED"}
=============================================================================
