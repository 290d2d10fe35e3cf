SPECIFICATION FairSpec
CONSTANTS
    Datasets <- MCDatasets
    RecordIDs = {"r1", "r2"}
    Devices <- MCDevices
    Payloads = {"x", "y"}
    NoPayload = "none"
    EmptyPayload = "{}"
    Applications = {"search"}
    Requests = {q1, q2}
    Envelopes <- MCDeletes
    Negotiated <- MCNegotiated
    Stores <- MCDatasets
    RequiredPeers = {1}
    Guard = "none"
    AssertedCompaction = FALSE
    Cutoffs = {1, 2}
    Faults = {"receiptLoad", "receiptSave"}
    NoRecord = NoRecord
INVARIANT AdmittedIsNotLost
PROPERTY TableSpec
PROPERTY WorkFinishes
