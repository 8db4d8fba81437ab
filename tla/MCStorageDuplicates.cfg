SPECIFICATION StorageSpec
CONSTANTS
    d1 = d1
    w1 = w1
    w2 = w2
    p1 = p1
    NoOne = NoOne
    Docs = {d1}
    Rfps = {d1}
    Workers = {w1, w2}
    Processes = {p1}
    ProcessOf <- MCOneProcess
    Content <- MCContentBenign
    EnqueueOutcomes = {"ok", "lost"}
    PromotionFaults = {"copy", "unlink"}
    ParseFaults = {"transient", "permanent"}
    SCAN_MAX_ATTEMPTS = 2
    PARSE_MAX_ATTEMPTS = 2
    MaxDuplicates = 2
    CutOffKinds = {"death", "error"}
    MaxCutOffs = 2
SYMMETRY WorkerSymmetry
INVARIANTS
    BytesPreserved
    CleanHasFile
    ParseAttemptsCapped
    CompletedPagesCurrent
    SnapshotNeverDrifts
