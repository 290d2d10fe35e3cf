SPECIFICATION Spec
CONSTANTS
    Datasets <- MCDatasets
    RecordIDs = {"r1"}
    Devices <- MCDevices
    Payloads = {"x", "y"}
    NoPayload = "none"
    EmptyPayload = "{}"
    Applications = {"search"}
    Requests = {q1, q2}
    Envelopes <- MCBothDelete
    Negotiated <- MCNegotiated
    Stores <- MCDatasets
    RequiredPeers = {1, 2}
    Guard = "file"
    AssertedCompaction = FALSE
    Cutoffs = {1, 2}
    Faults = {}
    NoRecord = NoRecord
SYMMETRY RequestSymmetry
INVARIANT ObservedByAllConverges
