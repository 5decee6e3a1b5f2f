\* A task and its asset, two workers that may take each other over crosswise.
SPECIFICATION Spec
CONSTANTS
    task = task
    asset = asset
    Tasks = {task}
    Assets = {asset}
    TaskOf <- MCTaskOf
    Scope = {task, asset}
    Workers = {w1, w2}
    NoOwner = NoOwner
    MaxAttempts = 2
    MaxFaults = 0
    MaxSlow = 2
    MaxMigrations = 0
INVARIANTS
    TypeOK
    CompletedMeansProjected
    AttachmentsAreGrounded
    FenceGuardsOperation
PROPERTIES
    SupersededRunsAreHarmless
CHECK_DEADLOCK FALSE
SYMMETRY WorkerSymmetry
