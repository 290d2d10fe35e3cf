SPECIFICATION PartSpec
CONSTANTS
    Datasets = {1, 2}
    RecordIDs = {1, 2, 3, 4}
    Devices = {1}
    Payloads = {"x"}
    NoPayload = "none"
    EmptyPayload = "{}"
    Applications = {"browser", "search", "bookmarks"}
    Dataset = 1
    Envelopes <- MCEnvelopes
    Peers <- MCPeers
    Limits = {1, 2, 3}
    Clock = {1, 2}
    MaxScanned = 4
    NoRecord = NoRecord
    Offers <- MCOffers
    MaxOffers = 2
    Conns = {c1, c2, c3}
CHECK_DEADLOCK FALSE
INVARIANT TypeOK
INVARIANT WalkIsComplete
INVARIANT ScanNeedsNoOrder
PROPERTY WalkEnds
INVARIANT BothEndsAgree
INVARIANT RunTellsTheTruth
PROPERTY RunEnds
