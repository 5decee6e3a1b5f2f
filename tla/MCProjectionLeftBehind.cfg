\* Two workers take over job and operation crosswise, one crashes.
SPECIFICATION Spec
CONSTANTS
    task = task
    asset = asset
    Tasks = {task}
    Assets = {}
    TaskOf <- MCTaskOf
    Scope = {task}
    Workers = {w1, w2}
    NoOwner = NoOwner
    MaxAttempts = 2
    MaxFaults = 1
    MaxSlow = 2
    MaxMigrations = 0
INVARIANTS
    NothingLeftBehind
CHECK_DEADLOCK FALSE
SYMMETRY WorkerSymmetry
