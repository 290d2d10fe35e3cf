SPECIFICATION Spec
CONSTANTS
    Datasets <- MCDatasets
    RecordIDs = {"r1"}
    Devices <- MCDevices
    Payloads = {"x", "y"}
    NoPayload = "none"
    EmptyPayload = "{}"
    Applications = {"search"}
    Requests = {q1, q2}
    Envelopes <- MCEdits
    Negotiated <- MCNegotiated
    Stores <- MCDatasets
    RequiredPeers = {1}
    Guard = "file"
    AssertedCompaction = FALSE
    Cutoffs = {1, 2}
    Faults = {"guardSave", "crash"}
    NoRecord = NoRecord
SYMMETRY RequestSymmetry
PROPERTY NeverReadmitted
