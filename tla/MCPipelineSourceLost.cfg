SPECIFICATION PipelineSpec
CONSTANTS
    d1 = d1
    d2 = d2
    w1 = w1
    w2 = w2
    p1 = p1
    NoOne = NoOne
    Docs = {d1}
    Rfps = {d1}
    Workers = {w1}
    Processes = {p1}
    ProcessOf <- MCOneProcess
    Content <- MCContentBenign
    EnqueueOutcomes = {"ok", "late"}
    ScanFaults = {}
    PromotionFaults = {}
    ParseFaults = {}
    SCAN_MAX_ATTEMPTS = 1
    PARSE_MAX_ATTEMPTS = 1
    MaxDuplicates = 1
    CutOffKinds = {"death"}
    MaxCutOffs = 0
INVARIANTS
    FailedKeepsSource
