SPECIFICATION FairSpec
CONSTANTS
    Accounts = {a1, a2}
    Account = a1
    Devices = {d1}
    Keys = {k1, k2}
    Nonces = {n1, n2}
    TTL = 1
    MaxTime = 1
    NoDevice = NoDevice
    Faults = {"load", "restart"}
    Sessions = {s1}
    Runners = {r1, r2}
    MaxOps = 2
INVARIANT PeersAreEarned
INVARIANT AtMostOneLateOperation
INVARIANT TrustIsEarned
PROPERTY RevocationTakesEffect
