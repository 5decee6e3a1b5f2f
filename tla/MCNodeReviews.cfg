\* One task on a node, led or not, in and out of a domain.
SPECIFICATION Spec
CONSTANTS
    Principals = {1, 2}
    Domains = {d1}
    NoDomain = NoDomain
    Ranks = {1, 4}
    Bootstrap <- MCBootstrap
    MaxPermissionVersion = 2
    Tasks = {t1}
    Deliverables = {}
    Assets = {}
    SlotMembers = {2}
    FirstLeaders = {0}
    MinCount = 1
    MaxVersion = 6
    MaxNodeVersion = 2
    MaxSent = 1
INVARIANTS
    TypeOK
    DomainsKeepAdministrator
    ReviewTrail
    ReviewsStayDecidable
PROPERTIES
    AccessChangeIsVersioned
    DecidedAsSeen
CHECK_DEADLOCK FALSE
