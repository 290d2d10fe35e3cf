SPECIFICATION Spec
CONSTANTS
    Accounts = {a1}
    Account = a1
    Devices = {d1}
    Keys = {k1, k2}
    Nonces = {n1, n2}
    TTL = 1
    MaxTime = 1
    NoDevice = NoDevice
    Faults = {}
    Sessions = {s1, s2}
    Runners = {r1, r2}
    MaxOps = 2
SYMMETRY PeerSymmetry
PROPERTY LapseStopsSequence
