\* A task and its asset, one worker that may crash, a migration.
SPECIFICATION FairSpec
CONSTANTS
    task = task
    asset = asset
    Tasks = {task}
    Assets = {asset}
    TaskOf <- MCTaskOf
    Scope = {task, asset}
    Workers = {w1}
    NoOwner = NoOwner
    MaxAttempts = 2
    MaxFaults = 1
    MaxSlow = 0
    MaxMigrations = 1
PROPERTIES
    FrozenScope
    EveryJobSettles
    EveryOperationEnds
CHECK_DEADLOCK FALSE
