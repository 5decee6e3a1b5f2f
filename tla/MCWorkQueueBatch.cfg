\* An outbox row and two jobs: batches, leases, budgets and the contract.
SPECIFICATION Spec
CONSTANTS
    Items = {1, 2, 3}
    Jobs = {2, 3}
    Workers = {w1, w2}
    NoOwner = NoOwner
    MaxAttempts = 2
    Priority <- MCPriority
    BatchSize = 2
    LeaseTime = 1
    DeferTime = 1
    BackoffCap = 1
    MaxClock = 1
    MaxClaims = 3
INVARIANTS
    TypeOK
    LeaseHonoured
    BudgetExact
    DeadLetterEarned
    DoneWasProcessed
PROPERTIES
    SettledByHolder
    ImplementsLeasedQueue
CHECK_DEADLOCK FALSE
SYMMETRY WorkerSymmetry
