\* A task and a deliverable on a led node, up to its completion and on.
SPECIFICATION Spec
CONSTANTS
    Principals = {1, 3}
    Domains = {d1}
    NoDomain = NoDomain
    Ranks = {1, 4}
    Bootstrap <- MCBootstrap
    MaxPermissionVersion = 1
    Tasks = {t1}
    Deliverables = {x1}
    Assets = {a1}
    SlotMembers = {}
    FirstLeaders = {3}
    MinCount = 1
    MaxVersion = 4
    MaxNodeVersion = 2
    MaxSent = 1
INVARIANTS
    CompletionHolds
    DeliverableTrail
CHECK_DEADLOCK FALSE
