SPECIFICATION SystemSpec
CONSTANTS
    j1 = j1
    j2 = j2
    r1 = r1
    r2 = r2
    c1 = c1
    c2 = c2
    u1 = u1
    Nobody = Nobody
    Legacy = Legacy
    Jobs = {j1, j2}
    Requests = {r1, r2}
    Candidates = {c1, c2}
    PromptVersions = {1, 2}
    Users = {u1}
    Members = {u1}
    MaxProposals = 1
    JOB_MAX_RETRIES = 1
    Offered = {"APPROVE", "REJECT"}
SYMMETRY ReviewSymmetry
CHECK_DEADLOCK FALSE
INVARIANTS
    DecidedOnce
    RequirementBacked
    OneProposingRun
    OpenIsQueued
    ToldTheTruth
PROPERTIES
    DecisionsImplemented
