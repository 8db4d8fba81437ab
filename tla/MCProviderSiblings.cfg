SPECIFICATION ProviderSpec
CONSTANTS
    k1 = k1
    k2 = k2
    Keys = {k1, k2}
    MAX_RETRIES = 2
    MAX_PROVIDER_CALLS = 2
    MAX_CANDIDATES = 3
    MaxTokens = 1
INVARIANTS
    SiblingsKept
