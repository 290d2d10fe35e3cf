SPECIFICATION FairSpec
CONSTANTS
    Devices = {d1, d2}
    Keys = {k1, k2, k3}
    NoKey = NoKey
INVARIANT BoundIsTheKeyInUse
INVARIANT MutuallyAccepted
PROPERTY ConnectingEnds
PROPERTY NoWaitForTheGone
