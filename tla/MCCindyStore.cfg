\* Two processes drive one task through a cycle and into its repair.
SPECIFICATION MCSpec
CONSTANTS
    Commits = {1, 2, 3, 4}
    Ancestors <- MCAncestors
    PacketEdits <- MCPacketEdits
    Closures <- MCClosures
    Trees = {t0, t1, tx}
    Scopes = {"task", "none", "more"}
    Unexplained <- MCUnexplained
    Nothing = Nothing
    RunIds = {r1, r2}
    Inputs = {i1, i2}
    GitStates <- MCGitStates
    PauseTargets = {"BLOCKED"}
    Procs = {p1, p2}
    Dead = Dead
    t0 = t0
    t1 = t1
    tx = tx
    MaxMoves = 2
    MaxCrashes = 1
    MaxVersion = 9
SYMMETRY Symmetries
INVARIANTS
    TypeOK
    ReviewedWasTested
    VerdictsAreFinal
    AuthoritiesAgree
PROPERTIES
    ImplementsLoop
CHECK_DEADLOCK FALSE
