--------------------------- MODULE ProjectAccess ---------------------------
(***************************************************************************)
(* Who may do what in a project: memberships, security domains and the     *)
(* grants in them (packages/application/src/security and .../access, over  *)
(* the SQLite adapter).                                                    *)
(*                                                                         *)
(* Every command is one transaction.  It compares the versions its caller  *)
(* read with the stored ones, so that a command which is carried out acts  *)
(* on the state its caller saw; a command that is refused changes nothing  *)
(* and is no step here, and neither is the repetition of one that was      *)
(* carried out, which finds its receipt.  While a migration is open        *)
(* (SecurityMigration) every command is refused.                           *)
(*                                                                         *)
(* Abstractions: one project; a capability is its rank; an expiry lies in  *)
(* the future or in the past; a domain's version and its permission version *)
(* grow together and are one number, 0 for a domain that does not exist;   *)
(* audits, events and outbox rows, written with each change, are left out. *)
(* Principals are active users: nothing deactivates one.  Memberships that *)
(* name domains, which only an older schema wrote, are left out.           *)
(***************************************************************************)
EXTENDS Naturals

CONSTANTS
    Principals,           \* numbers, ordered like the principal ids
    Domains,              \* ids of security domains
    NoDomain,             \* securityDomainId null
    Ranks,                \* ranks of the capabilities that are granted
    Bootstrap,            \* the standing of each principal at the start
    MaxPermissionVersion  \* bound on the grant commands in a domain

NoOne == 0  \* a principal id that is null

ASSUME AccessAssumption ==
    /\ Principals \subseteq Nat \ {NoOne}
    /\ NoDomain \notin Domains
    /\ Ranks \subseteq 1..4
    /\ Bootstrap \in [Principals -> {"manager", "member", "none"}]
    /\ MaxPermissionVersion \in Nat

VARIABLES
    standing,          \* standing[p]: role and status of p's membership
    grants,            \* grants[d][p]: the grant of p in domain d
    permissionVersion, \* permissionVersion[d]
    rooted             \* the domains whose root node is in them

access == <<standing, grants, permissionVersion, rooted>>

Standings == {"manager", "member", "revoked", "none"}

View == 1
Contribute == 2
Edit == 3
ManageAccess == 4

GrantType ==
    [rank : 0..4, active : BOOLEAN, expires : {"never", "later", "past"}]

NoGrant == [rank |-> 0, active |-> FALSE, expires |-> "never"]

AccessTypeOK ==
    /\ standing \in [Principals -> Standings]
    /\ grants \in [Domains -> [Principals -> GrantType]]
    /\ permissionVersion \in [Domains -> Nat]
    /\ rooted \subseteq Domains

AccessInit ==
    /\ standing = Bootstrap
    /\ grants = [d \in Domains |-> [p \in Principals |-> NoGrant]]
    /\ permissionVersion = [d \in Domains |-> 0]
    /\ rooted = {}

-----------------------------------------------------------------------------
(* Authorization.                                                          *)

IsManager(p) == standing[p] = "manager"
IsActive(p) == standing[p] \in {"manager", "member"}
Exists(d) == permissionVersion[d] > 0

GrantAllows(g, rank) == g.active /\ g.expires # "past" /\ g.rank >= rank

IsPermanentAdministrator(g) ==
    g.active /\ g.rank = ManageAccess /\ g.expires = "never"

Administers(p, d) == IsManager(p) /\ IsPermanentAdministrator(grants[d][p])

(* canAccessProjectObject.                                                 *)
CanAccess(p, d, rank) ==
    /\ IsActive(p)
    /\ d # NoDomain =>
           /\ Exists(d)
           /\ rank = ManageAccess => IsManager(p)
           /\ GrantAllows(grants[d][p], rank)

-----------------------------------------------------------------------------
(* Commands.                                                               *)

(* The first domain of a node that has none; its creator administers it.   *)
CreateSecurityRoot(p, d) ==
    /\ IsManager(p)
    /\ ~Exists(d)
    /\ permissionVersion' = [permissionVersion EXCEPT ![d] = 1]
    /\ grants' = [grants EXCEPT ![d][p] =
                     [rank |-> ManageAccess, active |-> TRUE, expires |-> "never"]]
    /\ rooted' = rooted \cup {d}
    /\ UNCHANGED standing

(* Mutant: the grant's target is counted as if it stayed an administrator. *)
AnyAdministrator(d, q, g) ==
    \E p \in Principals : Administers(p, d)

(* saveWithDomainVersion: with the new grant g of q, d keeps a manager who *)
(* administers it without an end.                                          *)
KeepsAdministrator(d, q, g) ==
    \/ IsManager(q) /\ IsPermanentAdministrator(g)
    \/ \E p \in Principals \ {q} : Administers(p, d)

SaveGrant(p, d, q, g) ==
    /\ CanAccess(p, d, ManageAccess)
    /\ d \in rooted
    /\ IsActive(q)
    /\ permissionVersion[d] < MaxPermissionVersion
    /\ KeepsAdministrator(d, q, g)
    /\ grants' = [grants EXCEPT ![d][q] = g]
    /\ permissionVersion' = [permissionVersion EXCEPT ![d] = permissionVersion[d] + 1]
    /\ UNCHANGED <<standing, rooted>>

SetGrant(p, d, q) ==
    \E rank \in Ranks, expires \in {"never", "later"} :
        SaveGrant(p, d, q, [rank |-> rank, active |-> TRUE, expires |-> expires])

RevokeGrant(p, d, q) ==
    /\ grants[d][q].rank > 0
    /\ SaveGrant(p, d, q, [grants[d][q] EXCEPT !.active = FALSE])

Lapse(d, q) ==
    /\ grants[d][q].expires = "later"
    /\ grants' = [grants EXCEPT ![d][q].expires = "past"]
    /\ UNCHANGED <<standing, permissionVersion, rooted>>

(* Mutant: only the domains that q may administer.                         *)
AffectedAdministrations(q) ==
    {d \in Domains : Exists(d) /\ GrantAllows(grants[d][q], ManageAccess)}

(* The domains whose access a restriction of q's membership changes.       *)
Affected(q) == {d \in Domains : Exists(d) /\ GrantAllows(grants[d][q], View)}

(* Mutant: any other administrator will do, for a time or demoted.         *)
ReplaceableForATime(q) ==
    \A d \in Affected(q) : IsPermanentAdministrator(grants[d][q]) =>
        \E p \in Principals \ {q} : GrantAllows(grants[d][p], ManageAccess)

(* restrictWithSecurityDomains: each domain q administers has another one. *)
Replaceable(q) ==
    \A d \in Affected(q) : IsPermanentAdministrator(grants[d][q]) =>
        \E p \in Principals \ {q} : Administers(p, d)

(* Each affected domain gets an event in its root's scope, so that the     *)
(* command is rolled back when a root has left its domain.                 *)
RestrictMembership(p, q, to) ==
    /\ IsManager(p)
    /\ IsActive(q)
    /\ to = "member" => IsManager(q)
    /\ Replaceable(q)
    /\ Affected(q) \subseteq rooted
    /\ standing' = [standing EXCEPT ![q] = to]
    /\ permissionVersion' = [d \in Domains |->
           IF d \in Affected(q) THEN permissionVersion[d] + 1 ELSE permissionVersion[d]]
    /\ UNCHANGED <<grants, rooted>>

Demote(p, q) == RestrictMembership(p, q, "member")
RevokeMembership(p, q) == RestrictMembership(p, q, "revoked")

(* A migration of the root of d out of d or back.                          *)
MoveRoot(d) ==
    /\ Exists(d)
    /\ rooted' = IF d \in rooted THEN rooted \ {d} ELSE rooted \cup {d}
    /\ UNCHANGED <<standing, grants, permissionVersion>>

(* The commands that change no node.                                       *)
ChangeAccess ==
    \/ \E p, q \in Principals, d \in Domains : SetGrant(p, d, q) \/ RevokeGrant(p, d, q)
    \/ \E q \in Principals, d \in Domains : Lapse(d, q)
    \/ \E p, q \in Principals : Demote(p, q) \/ RevokeMembership(p, q)

AccessNext ==
    \/ \E p \in Principals, d \in Domains : CreateSecurityRoot(p, d)
    \/ \E d \in Domains : MoveRoot(d)
    \/ ChangeAccess

AccessSpec == AccessInit /\ [][AccessNext]_access

-----------------------------------------------------------------------------
(* Properties.                                                             *)

(* A security domain always has an active project manager with a permanent *)
(* grant to manage its access, whatever managers do to each other's grants *)
(* and memberships and whatever expires (SECURITY_DOMAIN_LAST_ADMINISTRATOR *)
(* in both write paths).                                                   *)
DomainsKeepAdministrator ==
    \A d \in Domains : Exists(d) => \E p \in Principals : Administers(p, d)

Holders(d) == {h \in Principals \X (View..ManageAccess) : CanAccess(h[1], d, h[2])}

(* Nobody's access to a domain changes without a new permission version of *)
(* it, which its events and answers carry to those who rely on it, unless a *)
(* grant expired: neither a change of a grant nor one of a membership.     *)
AccessChangeIsVersioned ==
    [][\A d \in Domains :
           \/ Holders(d)' = Holders(d)
           \/ permissionVersion'[d] > permissionVersion[d]
           \/ \E q \in Principals : Lapse(d, q)]_access

=============================================================================
