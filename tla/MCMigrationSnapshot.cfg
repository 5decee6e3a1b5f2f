\* An ingest that was under way fails after the snapshot was taken.
SPECIFICATION Spec
CONSTANTS
    TotalItems = 1
    MaxBatch = 1
    Handlers = {h1}
    Keys = {k}
    Ingesting = {1}
    MaxVersion = 4
    MaxEvidence = 1
    MaxCalls = 1
INVARIANTS
    SnapshotIsCurrent
CHECK_DEADLOCK FALSE
