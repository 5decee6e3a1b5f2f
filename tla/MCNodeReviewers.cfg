\* A task, a manager, a member, and a leader named after the task was made.
SPECIFICATION Spec
CONSTANTS
    Principals = {1, 3}
    Domains = {}
    NoDomain = NoDomain
    Ranks = {1, 4}
    Bootstrap <- MCBootstrap
    MaxPermissionVersion = 0
    Tasks = {t1}
    Deliverables = {}
    Assets = {}
    SlotMembers = {}
    FirstLeaders = {0}
    MinCount = 1
    MaxVersion = 4
    MaxNodeVersion = 2
    MaxSent = 0
INVARIANTS
    AssignedReviewerDecides
CHECK_DEADLOCK FALSE
