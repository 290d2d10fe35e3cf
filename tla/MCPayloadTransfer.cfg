SPECIFICATION PartSpec
CONSTANTS
    file = file
    text = text
    Transfers = {file, text}
    Chunks <- MCChunks
    Faults = {"source", "staging", "link"}
    Bytes = {0, 1}
    DefaultChunkSize = 2
    MaxLen = 3
    MaxChanges = 2
INVARIANT StreamInStep
INVARIANT OneLateChunk
PROPERTY DeliverySpec
PROPERTY CallsReturn
INVARIANT VerifiesItsOwnPayload
INVARIANT ValidatesWhatCanBeBuilt
INVARIANT ReceiptVouchesForThePayload
