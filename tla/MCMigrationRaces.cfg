\* Two calls race, one caller repeats itself, the driver fails and resumes,
\* and an ingest fails late.
SPECIFICATION Spec
CONSTANTS
    TotalItems = 2
    MaxBatch = 2
    Handlers = {h1, h2}
    Keys = {k}
    Ingesting = {2}
    MaxVersion = 6
    MaxEvidence = 2
    MaxCalls = 3
INVARIANTS
    TypeOK
    OpenIsRestorable
    EndsWhole
    EndsCertified
    AuditedOnce
    AnswersAreTrue
CHECK_DEADLOCK FALSE
SYMMETRY HandlerSymmetry
