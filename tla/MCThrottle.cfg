SPECIFICATION FairThrottleSpec
CONSTANTS
    e1 = e1
    e2 = e2
    a1 = a1
    r1 = r1
    r2 = r2
    Accounts = {e1, e2}
    Addresses = {a1}
    Attempts = {r1, r2}
    IpMax = 2
    AccountIpMax = 1
    AccountMax = 2
    IpWindow = 2
    AccountIpWindow = 1
    AccountWindow = 1
INVARIANTS
    ThrottleBounded
PROPERTIES
    AddressRemembered
    NoPermanentLockout
