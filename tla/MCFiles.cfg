SPECIFICATION PartSpec
CONSTANTS
    c1 = c1
    c2 = c2
    x = x
    t1 = t1
    t2 = t2
    p1 = p1
    p2 = p2
    Partial = Partial
    NoFile = NoFile
    PowerMayFail = TRUE
    Calls <- MCCalls
    Names <- MCNames
    TempNames <- MCTempNames
    Payloads <- MCPayloads
    Owners = {d1}
    KeyPairs = {k1, k2}
    LastInstant = 2
    Callers <- MCCalls
    NoKeyFile = NoKeyFile
    Torn = Torn
    KeyFaults = {"io", "stop", "power"}
    Accounts = {a1}
    Account = a1
    Devices = {d1}
    Keys = {k1, k2}
    Nonces <- MCPayloads
    TTL = 1
    MaxTime = 2
    NoDevice = NoDevice
    Faults = {"load", "save", "restart"}
    Tokens <- MCTempNames
    Requests <- MCCalls
    MaxLife = 1
    NoSession = NoSession
CONSTRAINT Small
SYMMETRY FileSymmetry
INVARIANT KeepsItsTemp
INVARIANT ErrorAloneMeansNotPublished
PROPERTY PublishesTheOffered
PROPERTY IsAShelf
INVARIANT StoresWhatWasAsked
PROPERTY KeyIsNotLost
INVARIANT NoRequestAfterRevocation
INVARIANT AcceptedIsEntitled
INVARIANT ChallengesPairOnce
PROPERTY ActiveKeyIsKept
PROPERTY SessionsEndWhenExpired
