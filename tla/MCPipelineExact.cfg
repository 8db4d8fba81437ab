SPECIFICATION FairPipelineSpec
CONSTANTS
    d1 = d1
    d2 = d2
    w1 = w1
    w2 = w2
    p1 = p1
    NoOne = NoOne
    Docs = {d1, d2}
    Rfps = {d1, d2}
    Workers = {w1, w2}
    Processes = {p1}
    ProcessOf <- MCOneProcess
    Content <- MCContentMixed
    EnqueueOutcomes = {"ok", "lost"}
    ScanFaults = {"fail", "mismatch", "raise"}
    PromotionFaults = {"copy", "unlink"}
    ParseFaults = {"transient", "permanent"}
    SCAN_MAX_ATTEMPTS = 2
    PARSE_MAX_ATTEMPTS = 2
    MaxDuplicates = 1
    CutOffKinds = {"death", "error"}
    MaxCutOffs = 1
INVARIANTS
    SingleFlight
    OneActiveRfp
    AttemptsBounded
    FailedKeepsSource
    LeftoverMarked
    TrustedOnlyIfBenign
    CutOffStrandsOne
PROPERTIES
    LifecycleImplemented
    EventuallySettled
