SPECIFICATION Spec
CONSTANTS
    Datasets <- MCDatasets
    RecordIDs = {"r1"}
    Devices <- MCDevices
    Payloads = {"x", "y"}
    NoPayload = "none"
    EmptyPayload = "{}"
    Applications = {"search"}
    Requests = {q1, q2}
    Envelopes <- MCEdits
    Negotiated <- MCNoDelete
    Stores <- MCDatasets
    RequiredPeers = {1}
    Guard = "file"
    AssertedCompaction = TRUE
    Cutoffs = {1, 2}
    Faults = {"storeSave", "receiptSave", "receiptLoad", "provider", "crash"}
    NoRecord = NoRecord
SYMMETRY RequestSymmetry
INVARIANT AckedSurvives
INVARIANT ReceiptsAreHonest
PROPERTY NeverReadmitted
