\* Two requests and two writers of one capture; a record of 11 or 80 bytes in
\* hand leaves room for the next reservation of 81, or does not.
SPECIFICATION FairSpec
CONSTANTS
    NONE = NONE
    Captures = {k1}
    Writers = {w1, w2}
    Requests = {r1, r2}
    RECORD_QUEUE_CAPACITY = 1
    RECORD_QUEUE_BYTES = 92
    MAX_ENCODING_INPUT = 1
    METADATA = 10
    BATCH_RECORDS = 1
    CONCURRENT_BATCHES = 1
    Payloads = {1, 2}
    Encodings = {1, 70}
    MaxOffered = 2
INVARIANTS
    TypeOK
    CompleteUnlessMarkerOwed
    BytesAccounted
    AdmissionBounded
    PurgeMeetsNoWriter
PROPERTY LockComesFree
