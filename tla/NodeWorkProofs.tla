--------------------------- MODULE NodeWorkProofs ---------------------------
(* A security domain never loses its last administrator, and what the work *)
(* of a node owes to that: its domain keeps an administrator, who can      *)
(* decide every review.  For all tasks, deliverables, principals, domains  *)
(* and bounds.                                                             *)
EXTENDS NodeWork, TLAPS

-----------------------------------------------------------------------------
(* The access rules by themselves.  The invariant is inductive together    *)
(* with the types; what it rests on is that both write paths look for the  *)
(* other administrator in the same transaction that takes one away.        *)

AccessInv == AccessTypeOK /\ DomainsKeepAdministrator

(* The grant of somebody who never had one has the shape of a grant.       *)
LEMMA NoGrantTyped == NoGrant \in GrantType
  BY DEF NoGrant, GrantType

(* Whoever administers a domain still does when his standing and his grant *)
(* there are as they were.                                                 *)
LEMMA StaysAdministered ==
  ASSUME NEW d \in Domains, NEW p \in Principals, Administers(p, d),
         standing'[p] = standing[p], grants'[d][p] = grants[d][p]
  PROVE  Administers(p, d)'
  BY DEF Administers, IsManager, IsPermanentAdministrator

(* A new domain is administered by the manager who created it.             *)
LEMMA RootKeepsAdministrator ==
  ASSUME AccessInv, NEW p \in Principals, NEW d \in Domains, CreateSecurityRoot(p, d)
  PROVE  AccessInv'
  <1> DEFINE g == [rank |-> ManageAccess, active |-> TRUE, expires |-> "never"]
  <1>1. g \in GrantType
    BY DEF GrantType, ManageAccess
  <1>2. AccessTypeOK'
    BY <1>1 DEF AccessInv, AccessTypeOK, CreateSecurityRoot
  <1>3. ASSUME NEW e \in Domains, Exists(e)'
        PROVE  \E q \in Principals : Administers(q, e)'
    <2>1. CASE e = d
      <3>1. grants'[d][p] = g /\ standing'[p] = "manager"
        BY DEF AccessInv, AccessTypeOK, CreateSecurityRoot, IsManager
      <3> QED
        BY <2>1, <3>1 DEF Administers, IsManager, IsPermanentAdministrator
    <2>2. CASE e # d
      <3>1. Exists(e) /\ grants'[e] = grants[e] /\ standing' = standing
        BY <1>3, <2>2 DEF AccessInv, AccessTypeOK, CreateSecurityRoot, Exists
      <3>2. PICK q \in Principals : Administers(q, e)
        BY <3>1 DEF AccessInv, DomainsKeepAdministrator
      <3> QED
        BY <3>1, <3>2, StaysAdministered
    <2> QED
      BY <2>1, <2>2
  <1> QED
    BY <1>2, <1>3 DEF AccessInv, DomainsKeepAdministrator

(* A grant is saved only if an administrator remains with it.              *)
LEMMA GrantKeepsAdministrator ==
  ASSUME AccessInv, NEW p \in Principals, NEW d \in Domains, NEW q \in Principals,
         NEW g \in GrantType, SaveGrant(p, d, q, g)
  PROVE  AccessInv'
  <1>1. AccessTypeOK'
    BY DEF AccessInv, AccessTypeOK, SaveGrant
  <1>2. ASSUME NEW e \in Domains, Exists(e)'
        PROVE  \E r \in Principals : Administers(r, e)'
    <2>1. standing' = standing
      BY DEF SaveGrant
    <2>2. CASE e = d
      <3>1. CASE IsManager(q) /\ IsPermanentAdministrator(g)
        <4>1. grants'[d][q] = g
          BY DEF AccessInv, AccessTypeOK, SaveGrant
        <4> QED
          BY <2>1, <2>2, <3>1, <4>1 DEF Administers, IsManager, IsPermanentAdministrator
      <3>2. CASE \E r \in Principals \ {q} : Administers(r, d)
        <4>1. PICK r \in Principals \ {q} : Administers(r, d)
          BY <3>2
        <4>2. grants'[d][r] = grants[d][r]
          BY DEF AccessInv, AccessTypeOK, SaveGrant
        <4> QED
          BY <2>1, <2>2, <4>1, <4>2, StaysAdministered
      <3> QED
        BY <3>1, <3>2 DEF SaveGrant, KeepsAdministrator
    <2>3. CASE e # d
      <3>1. Exists(e) /\ grants'[e] = grants[e]
        BY <1>2, <2>3 DEF AccessInv, AccessTypeOK, SaveGrant, Exists
      <3>2. PICK r \in Principals : Administers(r, e)
        BY <3>1 DEF AccessInv, DomainsKeepAdministrator
      <3> QED
        BY <2>1, <3>1, <3>2, StaysAdministered
    <2> QED
      BY <2>2, <2>3
  <1> QED
    BY <1>1, <1>2 DEF AccessInv, DomainsKeepAdministrator

(* What expires was never a permanent grant.                               *)
LEMMA LapseKeepsAdministrator ==
  ASSUME AccessInv, NEW d \in Domains, NEW q \in Principals, Lapse(d, q)
  PROVE  AccessInv'
  <1>1. AccessTypeOK'
    <2>1. grants' \in [Domains -> [Principals -> GrantType]]
      <3>0. grants[d][q] \in GrantType
        BY DEF AccessInv, AccessTypeOK
      <3>1. [grants[d][q] EXCEPT !.expires = "past"] \in GrantType
        BY <3>0 DEF GrantType
      <3> QED
        BY <3>1 DEF AccessInv, AccessTypeOK, Lapse
    <2> QED
      BY <2>1 DEF AccessInv, AccessTypeOK, Lapse
  <1>2. ASSUME NEW e \in Domains, Exists(e)'
        PROVE  \E r \in Principals : Administers(r, e)'
    <2>1. Exists(e) /\ standing' = standing
      BY <1>2 DEF Lapse, Exists
    <2>2. PICK r \in Principals : Administers(r, e)
      BY <2>1 DEF AccessInv, DomainsKeepAdministrator
    <2>3. ~(e = d /\ r = q)
      BY <2>2 DEF Lapse, Administers, IsPermanentAdministrator
    <2>4. grants'[e][r] = grants[e][r]
      BY <2>3 DEF AccessInv, AccessTypeOK, Lapse
    <2> QED
      BY <2>1, <2>2, <2>4, StaysAdministered
  <1> QED
    BY <1>1, <1>2 DEF AccessInv, DomainsKeepAdministrator

(* Where the restricted member administers a domain, another manager does. *)
LEMMA RestrictionKeepsAdministrator ==
  ASSUME AccessInv, NEW p \in Principals, NEW q \in Principals,
         NEW to \in {"member", "revoked"}, RestrictMembership(p, q, to)
  PROVE  AccessInv'
  <1>1. AccessTypeOK'
    BY DEF AccessInv, AccessTypeOK, RestrictMembership, Standings
  <1>2. ASSUME NEW e \in Domains, Exists(e)'
        PROVE  \E r \in Principals : Administers(r, e)'
    <2>1. Exists(e) /\ grants' = grants
      BY <1>2 DEF AccessInv, AccessTypeOK, RestrictMembership, Exists, Affected
    <2>2. PICK r \in Principals : Administers(r, e)
      BY <2>1 DEF AccessInv, DomainsKeepAdministrator
    <2>3. PICK s \in Principals \ {q} : Administers(s, e)
      <3>1. CASE r # q
        BY <2>2, <3>1
      <3>2. CASE r = q
        <4>1. IsPermanentAdministrator(grants[e][q])
          BY <2>2, <3>2 DEF Administers
        <4>2. e \in Affected(q)
          BY <2>1, <4>1 DEF Affected, IsPermanentAdministrator, GrantAllows, View, ManageAccess
        <4> QED
          BY <4>1, <4>2 DEF RestrictMembership, Replaceable
      <3> QED
        BY <3>1, <3>2
    <2>4. standing'[s] = standing[s]
      BY DEF AccessInv, AccessTypeOK, RestrictMembership
    <2> QED
      BY <2>1, <2>3, <2>4, StaysAdministered
  <1> QED
    BY <1>1, <1>2 DEF AccessInv, DomainsKeepAdministrator

(* Moving the root of a domain changes neither grants nor memberships.     *)
LEMMA MoveKeepsAdministrator ==
  ASSUME AccessInv, rooted' \subseteq Domains,
         UNCHANGED <<standing, grants, permissionVersion>>
  PROVE  AccessInv'
  BY DEF AccessInv, AccessTypeOK, DomainsKeepAdministrator, Exists, Administers,
         IsManager, IsPermanentAdministrator

(* So does each command that changes access and no node.                   *)
LEMMA ChangeKeepsAdministrator ==
  ASSUME AccessInv, ChangeAccess
  PROVE  AccessInv'
  <1>1. ASSUME NEW p \in Principals, NEW q \in Principals, NEW d \in Domains, SetGrant(p, d, q)
        PROVE  AccessInv'
    <2>1. PICK rank \in Ranks, expires \in {"never", "later"} :
              SaveGrant(p, d, q, [rank |-> rank, active |-> TRUE, expires |-> expires])
      BY <1>1 DEF SetGrant
    <2>2. [rank |-> rank, active |-> TRUE, expires |-> expires] \in GrantType
      BY AccessAssumption DEF GrantType
    <2> QED
      BY <2>1, <2>2, GrantKeepsAdministrator
  <1>2. ASSUME NEW p \in Principals, NEW q \in Principals, NEW d \in Domains, RevokeGrant(p, d, q)
        PROVE  AccessInv'
    <2>1. grants[d][q] \in GrantType
      BY DEF AccessInv, AccessTypeOK
    <2>2. [grants[d][q] EXCEPT !.active = FALSE] \in GrantType
      BY <2>1 DEF GrantType
    <2> QED
      BY <1>2, <2>2, GrantKeepsAdministrator DEF RevokeGrant
  <1>3. ASSUME NEW q \in Principals, NEW d \in Domains, Lapse(d, q)
        PROVE  AccessInv'
    BY <1>3, LapseKeepsAdministrator
  <1>4. ASSUME NEW p \in Principals, NEW q \in Principals, Demote(p, q)
        PROVE  AccessInv'
    BY <1>4, RestrictionKeepsAdministrator DEF Demote
  <1>5. ASSUME NEW p \in Principals, NEW q \in Principals, RevokeMembership(p, q)
        PROVE  AccessInv'
    BY <1>5, RestrictionKeepsAdministrator DEF RevokeMembership
  <1> QED
    BY <1>1, <1>2, <1>3, <1>4, <1>5 DEF ChangeAccess

(* At the start there is no domain to administer.                          *)
LEMMA AccessInvInit == AccessInit => AccessInv
  <1> SUFFICES ASSUME AccessInit PROVE AccessInv
    OBVIOUS
  <1>1. AccessTypeOK
    BY AccessAssumption, NoGrantTyped DEF AccessInit, AccessTypeOK, Standings
  <1>2. DomainsKeepAdministrator
    BY DEF AccessInit, DomainsKeepAdministrator, Exists
  <1> QED
    BY <1>1, <1>2 DEF AccessInv

(* A security domain always has an active project manager with a permanent *)
(* grant to manage its access: SECURITY_DOMAIN_LAST_ADMINISTRATOR in       *)
(* saveWithDomainVersion and restrictWithSecurityDomains is enough.        *)
THEOREM AlwaysAdministered == AccessSpec => []DomainsKeepAdministrator
  <1>1. AccessInit => AccessInv
    BY AccessInvInit
  <1>2. AccessInv /\ [AccessNext]_access => AccessInv'
    <2> SUFFICES ASSUME AccessInv, [AccessNext]_access PROVE AccessInv'
      OBVIOUS
    <2>1. CASE \E p \in Principals, d \in Domains : CreateSecurityRoot(p, d)
      BY <2>1, RootKeepsAdministrator
    <2>2. CASE \E d \in Domains : MoveRoot(d)
      <3>1. rooted' \subseteq Domains /\ UNCHANGED <<standing, grants, permissionVersion>>
        BY <2>2 DEF MoveRoot, AccessInv, AccessTypeOK
      <3> QED
        BY <3>1, MoveKeepsAdministrator
    <2>3. CASE ChangeAccess
      BY <2>3, ChangeKeepsAdministrator
    <2>4. CASE UNCHANGED access
      BY <2>4, MoveKeepsAdministrator DEF access, AccessInv, AccessTypeOK
    <2> QED
      BY <2>1, <2>2, <2>3, <2>4 DEF AccessNext
  <1>3. AccessInv => DomainsKeepAdministrator
    BY DEF AccessInv
  <1> QED
    BY <1>1, <1>2, <1>3, PTL DEF AccessSpec

-----------------------------------------------------------------------------
(* The work of a node.                                                     *)

NodeInv ==
    /\ AccessInv
    /\ node \in NodeType
    /\ node.domain # NoDomain => Exists(node.domain)

(* A node stays a node when it is saved with a new version.                *)
LEMMA SavedNode ==
  ASSUME node \in NodeType, NEW new \in NodeType, SaveNode(new)
  PROVE  node' \in NodeType /\ node'.domain = new.domain
  <1>1. node.version + 1 \in Nat
    BY DEF NodeType
  <1> QED
    BY <1>1 DEF SaveNode, NodeType

(* A step that changes no grant, no membership and not the node's domain.  *)
LEMMA KeptAccess ==
  ASSUME NodeInv, UNCHANGED access, node' \in NodeType, node'.domain = node.domain
  PROVE  NodeInv'
  <1>1. AccessInv'
    BY MoveKeepsAdministrator DEF access, NodeInv, AccessInv, AccessTypeOK
  <1>2. Exists(node.domain)' <=> Exists(node.domain)
    BY DEF access, Exists
  <1> QED
    BY <1>1, <1>2 DEF NodeInv

(* No command removes a domain.                                            *)
LEMMA DomainsStay ==
  ASSUME AccessInv, ChangeAccess, NEW d \in Domains, Exists(d)
  PROVE  Exists(d)'
  <1>1. permissionVersion \in [Domains -> Nat]
    BY DEF AccessInv, AccessTypeOK
  <1>2. ASSUME NEW p \in Principals, NEW q \in Principals, NEW e \in Domains, NEW g,
               SaveGrant(p, e, q, g)
        PROVE  Exists(d)'
    BY <1>1, <1>2 DEF SaveGrant, Exists
  <1>3. ASSUME NEW p \in Principals, NEW q \in Principals, NEW to, RestrictMembership(p, q, to)
        PROVE  Exists(d)'
    BY <1>1, <1>3 DEF RestrictMembership, Exists
  <1>4. ASSUME NEW q \in Principals, NEW e \in Domains, Lapse(e, q)
        PROVE  Exists(d)'
    BY <1>4 DEF Lapse, Exists
  <1> QED
    BY <1>2, <1>3, <1>4 DEF ChangeAccess, SetGrant, RevokeGrant, Demote, RevokeMembership

(* Work on tasks and deliverables, and judging it, changes no access.      *)
LEMMA WorkKeepsAccess ==
  ASSUME NodeInv, Working \/ Composing \/ Judging \/ \E r \in sent : Forget(r)
  PROVE  NodeInv'
  <1>0. node \in NodeType
    BY DEF NodeInv
  <1>1. CASE Working
    <2>1. ASSUME NEW p \in Principals, NEW t \in Tasks,
                 \E assignee \in SomeoneOrNone : CreateTask(p, t, assignee)
          PROVE  UNCHANGED <<access, node>>
      BY <2>1 DEF CreateTask, SaveTask
    <2>2. ASSUME NEW p \in Principals, NEW t \in Tasks,
                 \/ StartTask(p, t) \/ CompleteTask(p, t)
                 \/ SubmitTask(p, t) \/ WithdrawTask(p, t)
          PROVE  UNCHANGED <<access, node>>
      BY <2>2 DEF StartTask, CompleteTask, SubmitTask, WithdrawTask, EndReview, SaveTask
    <2>3. ASSUME NEW p \in Principals, NEW t \in Tasks, NEW q \in Principals,
                 AssignReviewer(p, t, q) \/ AssignAssignee(p, t, q)
          PROVE  UNCHANGED <<access, node>>
      BY <2>3 DEF AssignReviewer, AssignAssignee, SaveTask
    <2>4. ASSUME NEW p \in Principals, NEW x \in Deliverables,
                 NEW required \in BOOLEAN, NEW reviewer \in Principals,
                 InitializeDeliverable(p, x, required, reviewer)
          PROVE  UNCHANGED <<access, node>>
      BY <2>4 DEF InitializeDeliverable, SaveDeliverable
    <2>5. ASSUME NEW p \in Principals, NEW x \in Deliverables,
                 NEW evidence \in SUBSET stored, SubmitDeliverable(p, x, evidence)
          PROVE  UNCHANGED <<access, node>>
      BY <2>5 DEF SubmitDeliverable, SaveDeliverable
    <2>6. ASSUME NEW a \in Assets, StoreAsset(a)
          PROVE  UNCHANGED <<access, node>>
      BY <2>6 DEF StoreAsset, work
    <2>7. UNCHANGED <<access, node>>
      BY <1>1, <2>1, <2>2, <2>3, <2>4, <2>5, <2>6 DEF Working
    <2> QED
      BY <1>0, <2>7, KeptAccess
  <1>2. CASE Composing
    BY <1>2, KeptAccess DEF Composing, ComposeForTask, ComposeForDeliverable, ComposeCompletion,
       Compose, work, NodeInv
  <1>3. CASE Judging
    <2>1. PICK r \in sent : \/ AcceptTask(r) \/ RejectTask(r)
                            \/ AcceptDeliverable(r) \/ WaiveDeliverable(r) \/ CompleteNode(r)
      BY <1>3 DEF Judging
    <2>2. CASE \/ AcceptTask(r) \/ RejectTask(r)
               \/ AcceptDeliverable(r) \/ WaiveDeliverable(r)
      <3>1. UNCHANGED <<access, node>>
        BY <2>2 DEF AcceptTask, RejectTask, EndReview, SaveTask, AcceptDeliverable,
           WaiveDeliverable, SaveDeliverable
      <3> QED
        BY <1>0, <3>1, KeptAccess
    <2>3. CASE CompleteNode(r)
      <3> DEFINE new == [node EXCEPT !.status = "completed"]
      <3>1. new \in NodeType /\ new.domain = node.domain
        BY <1>0 DEF NodeType
      <3>2. SaveNode(new) /\ UNCHANGED access
        BY <2>3 DEF CompleteNode
      <3> HIDE DEF new
      <3>3. node' \in NodeType /\ node'.domain = node.domain
        BY <1>0, <3>1, <3>2, SavedNode
      <3> QED
        BY <3>2, <3>3, KeptAccess
    <2> QED
      BY <2>1, <2>2, <2>3
  <1>4. CASE \E r \in sent : Forget(r)
    BY <1>4, KeptAccess DEF Forget, work, NodeInv
  <1> QED
    BY <1>1, <1>2, <1>3, <1>4

(* A node enters a domain only when the domain exists.                      *)
LEMMA GovernanceKeepsAccess ==
  ASSUME NodeInv, Governing
  PROVE  NodeInv'
  <1>0. AccessInv /\ node \in NodeType /\ NoDomain \notin Domains
    BY AccessAssumption DEF NodeInv
  <1>1. ASSUME NEW p \in Principals, NEW leader \in SomeoneOrNone, AssignLeader(p, leader)
        PROVE  NodeInv'
    <2> DEFINE new == [node EXCEPT !.leader = leader]
    <2>1. new \in NodeType /\ new.domain = node.domain
      BY <1>0 DEF NodeType
    <2>2. SaveNode(new) /\ UNCHANGED access
      BY <1>1 DEF AssignLeader
    <2> HIDE DEF new
    <2>3. node' \in NodeType /\ node'.domain = node.domain
      BY <1>0, <2>1, <2>2, SavedNode
    <2> QED
      BY <2>2, <2>3, KeptAccess
  <1>2. ASSUME NEW p \in Principals, NEW d \in Domains, MakeSensitive(p, d)
        PROVE  NodeInv'
    <2>1. AccessInv'
      BY <1>0, <1>2, RootKeepsAdministrator DEF MakeSensitive
    <2>2. node' \in NodeType /\ node'.domain = d
      <3> DEFINE new == [node EXCEPT !.domain = d, !.root = d]
      <3>1. new \in NodeType /\ new.domain = d
        BY <1>0 DEF NodeType
      <3>2. SaveNode(new)
        BY <1>2 DEF MakeSensitive
      <3> HIDE DEF new
      <3> QED
        BY <1>0, <3>1, <3>2, SavedNode
    <2>3. Exists(d)'
      BY <1>0, <1>2 DEF MakeSensitive, CreateSecurityRoot, Exists, AccessInv, AccessTypeOK
    <2> QED
      BY <2>1, <2>2, <2>3 DEF NodeInv
  <1>3. ASSUME NEW p \in Principals, NEW d \in Domains, MakeOtherSensitive(p, d)
        PROVE  NodeInv'
    <2>1. AccessInv'
      BY <1>0, <1>3, RootKeepsAdministrator DEF MakeOtherSensitive
    <2>2. node' = node
      BY <1>3 DEF MakeOtherSensitive, work
    <2>3. node.domain # NoDomain => Exists(node.domain)'
      BY <1>0, <1>3, <2>2 DEF NodeInv, MakeOtherSensitive, CreateSecurityRoot, Exists, AccessInv,
         AccessTypeOK, NodeType
    <2> QED
      BY <1>0, <2>1, <2>2, <2>3 DEF NodeInv
  <1>4. ASSUME NEW d \in Domains \cup {NoDomain}, Migrate(d)
        PROVE  NodeInv'
    <2>1. rooted' \subseteq Domains
      BY <1>0, <1>4 DEF Migrate, AccessInv, AccessTypeOK
    <2>2. AccessInv'
      BY <1>0, <1>4, <2>1, MoveKeepsAdministrator DEF Migrate
    <2>3. node' \in NodeType /\ node'.domain = d
      <3> DEFINE new == [node EXCEPT !.domain = d]
      <3>1. new \in NodeType /\ new.domain = d
        BY <1>0 DEF NodeType
      <3>2. SaveNode(new)
        BY <1>4 DEF Migrate
      <3> HIDE DEF new
      <3> QED
        BY <1>0, <3>1, <3>2, SavedNode
    <2>4. d # NoDomain => Exists(d)'
      BY <1>4 DEF Migrate, Exists
    <2> QED
      BY <2>2, <2>3, <2>4 DEF NodeInv
  <1>5. CASE ChangeAccess /\ UNCHANGED <<work, stored, sent, counted>>
    <2>1. AccessInv'
      BY <1>0, <1>5, ChangeKeepsAdministrator
    <2>2. node' = node
      BY <1>5 DEF work
    <2>3. ASSUME NEW d \in Domains, d = node.domain
          PROVE  Exists(d)'
      BY <1>0, <1>5, <2>3, DomainsStay, AccessAssumption DEF NodeInv
    <2>4. node.domain # NoDomain => Exists(node.domain)'
      BY <1>0, <2>2, <2>3 DEF NodeType, Exists
    <2> QED
      BY <1>0, <2>1, <2>2, <2>4 DEF NodeInv
  <1> QED
    BY <1>1, <1>2, <1>3, <1>4, <1>5 DEF Governing

(* The administrator of the node's domain may decide any task in it: his   *)
(* grant includes editing and no leader excludes a manager.                *)
LEMMA AdministratorsDecide ==
  ASSUME NodeInv, node.domain # NoDomain, NEW t \in Tasks
  PROVE  \E p \in Principals : MayJudgeTask(p, t)
  <1>1. node.domain \in Domains /\ Exists(node.domain)
    BY DEF NodeInv, NodeType
  <1>2. PICK p \in Principals : Administers(p, node.domain)
    BY <1>1 DEF NodeInv, AccessInv, DomainsKeepAdministrator
  <1>3. CanAccess(p, node.domain, Edit)
    BY <1>1, <1>2 DEF CanAccess, Administers, IsManager, IsActive, IsPermanentAdministrator,
       GrantAllows, Edit, ManageAccess
  <1> QED
    BY <1>2, <1>3 DEF MayJudgeTask, CanAccessObject, Administers

(* The node is typed, administered, and in a domain that exists.           *)
LEMMA NodeInvHolds == Spec => []NodeInv
  <1>1. Init => NodeInv
    BY AccessInvInit, WorkAssumption DEF Init, NodeInv, NodeType, SomeoneOrNone
  <1>2. NodeInv /\ [Next]_vars => NodeInv'
    <2> SUFFICES ASSUME NodeInv, [Next]_vars PROVE NodeInv'
      OBVIOUS
    <2>1. CASE Working \/ Composing \/ Judging \/ \E r \in sent : Forget(r)
      BY <2>1, WorkKeepsAccess
    <2>2. CASE Governing
      BY <2>2, GovernanceKeepsAccess
    <2>3. CASE UNCHANGED vars
      BY <2>3, KeptAccess DEF vars, work, NodeInv
    <2> QED
      BY <2>1, <2>2, <2>3 DEF Next
  <1> QED
    BY <1>1, <1>2, PTL DEF Spec

(* A domain keeps its administrator also while its nodes are worked on, led *)
(* and migrated.                                                           *)
THEOREM AdministeredWhileWorking == Spec => []DomainsKeepAdministrator
  <1>1. NodeInv => DomainsKeepAdministrator
    BY DEF NodeInv, AccessInv
  <1> QED
    BY <1>1, NodeInvHolds, PTL

(* A pending review in a sensitive node can always be decided by somebody, *)
(* whatever happened to its reviewer, the leader and the grants since.     *)
THEOREM ReviewsAreDecidable == Spec => []ReviewsStayDecidable
  <1>1. NodeInv => ReviewsStayDecidable
    BY AdministratorsDecide DEF ReviewsStayDecidable
  <1> QED
    BY <1>1, NodeInvHolds, PTL

-----------------------------------------------------------------------------
(* Permission versions.                                                    *)

Versioned(d) ==
    \/ Holders(d)' = Holders(d)
    \/ permissionVersion'[d] > permissionVersion[d]
    \/ \E q \in Principals : Lapse(d, q)

(* Nobody's access to a domain is gained or lost when neither its version  *)
(* nor the grants in it nor the standing of those who hold them change.    *)
LEMMA AccessKept ==
  ASSUME AccessTypeOK, NEW d \in Domains, permissionVersion'[d] = permissionVersion[d],
         \A p \in Principals :
             /\ grants'[d][p] = grants[d][p]
             /\ standing'[p] = standing[p] \/ ~GrantAllows(grants[d][p], View) \/ ~Exists(d)
  PROVE  Holders(d)' = Holders(d)
  <1>1. d # NoDomain
    BY AccessAssumption
  <1>2. Exists(d)' <=> Exists(d)
    BY DEF Exists
  <1>3. ASSUME NEW p \in Principals, NEW rank \in View..ManageAccess
        PROVE  CanAccess(p, d, rank)' <=> CanAccess(p, d, rank)
    <2>1. CASE standing'[p] = standing[p]
      BY <1>1, <1>2, <2>1 DEF CanAccess, IsActive, IsManager, GrantAllows
    <2>2. CASE ~GrantAllows(grants[d][p], View) \/ ~Exists(d)
      <3>1. ~Exists(d) \/ ~GrantAllows(grants[d][p], rank)
        <4>1. grants[d][p].rank \in 0..4
          BY DEF AccessTypeOK, GrantType
        <4> QED
          BY <2>2, <4>1 DEF GrantAllows, View, ManageAccess
      <3>2. ~Exists(d)' \/ ~GrantAllows(grants'[d][p], rank)
        BY <1>2, <3>1 DEF GrantAllows
      <3>3. ~CanAccess(p, d, rank)
        BY <1>1, <3>1 DEF CanAccess
      <3>4. ~CanAccess(p, d, rank)'
        BY <1>1, <3>2 DEF CanAccess, GrantAllows
      <3> QED
        BY <3>3, <3>4
    <2> QED
      BY <2>1, <2>2
  <1> QED
    BY <1>3 DEF Holders

LEMMA RootIsVersioned ==
  ASSUME AccessTypeOK, NEW p \in Principals, NEW d \in Domains, CreateSecurityRoot(p, d),
         NEW e \in Domains
  PROVE  Versioned(e)
  <1>1. CASE e = d
    BY <1>1 DEF AccessTypeOK, CreateSecurityRoot, Exists, Versioned
  <1>2. CASE e # d
    <2>1. /\ permissionVersion'[e] = permissionVersion[e]
          /\ \A q \in Principals : grants'[e][q] = grants[e][q] /\ standing'[q] = standing[q]
      BY <1>2 DEF AccessTypeOK, CreateSecurityRoot
    <2> QED
      BY <2>1, AccessKept DEF Versioned
  <1> QED
    BY <1>1, <1>2

LEMMA GrantIsVersioned ==
  ASSUME AccessTypeOK, NEW p \in Principals, NEW d \in Domains, NEW q \in Principals, NEW g,
         SaveGrant(p, d, q, g), NEW e \in Domains
  PROVE  Versioned(e)
  <1>1. CASE e = d
    BY <1>1 DEF AccessTypeOK, SaveGrant, Versioned
  <1>2. CASE e # d
    <2>1. /\ permissionVersion'[e] = permissionVersion[e]
          /\ \A r \in Principals : grants'[e][r] = grants[e][r] /\ standing'[r] = standing[r]
      BY <1>2 DEF AccessTypeOK, SaveGrant
    <2> QED
      BY <2>1, AccessKept DEF Versioned
  <1> QED
    BY <1>1, <1>2

(* What expires in one domain changes nothing in another.                  *)
LEMMA LapseIsVersioned ==
  ASSUME AccessTypeOK, NEW d \in Domains, NEW q \in Principals, Lapse(d, q), NEW e \in Domains
  PROVE  Versioned(e)
  <1>1. CASE e = d
    BY <1>1 DEF Versioned
  <1>2. CASE e # d
    <2>1. /\ permissionVersion'[e] = permissionVersion[e]
          /\ \A r \in Principals : grants'[e][r] = grants[e][r] /\ standing'[r] = standing[r]
      BY <1>2 DEF AccessTypeOK, Lapse
    <2> QED
      BY <2>1, AccessKept DEF Versioned
  <1> QED
    BY <1>1, <1>2

(* A member is affected wherever he may at least view: where he is not     *)
(* affected, his standing made no difference.                              *)
LEMMA RestrictionIsVersioned ==
  ASSUME AccessTypeOK, NEW p \in Principals, NEW q \in Principals, NEW to,
         RestrictMembership(p, q, to),
         NEW e \in Domains
  PROVE  Versioned(e)
  <1>1. CASE e \in Affected(q)
    BY <1>1 DEF AccessTypeOK, RestrictMembership, Versioned
  <1>2. CASE e \notin Affected(q)
    <2>1. permissionVersion'[e] = permissionVersion[e] /\ grants' = grants
      BY <1>2 DEF RestrictMembership
    <2>2. \A r \in Principals \ {q} : standing'[r] = standing[r]
      BY DEF AccessTypeOK, RestrictMembership
    <2>3. ~GrantAllows(grants[e][q], View) \/ ~Exists(e)
      BY <1>2 DEF Affected
    <2> QED
      BY <2>1, <2>2, <2>3, AccessKept DEF Versioned
  <1> QED
    BY <1>1, <1>2

LEMMA ChangeIsVersioned ==
  ASSUME AccessTypeOK, ChangeAccess, NEW e \in Domains
  PROVE  Versioned(e)
  <1>1. ASSUME NEW p \in Principals, NEW q \in Principals, NEW d \in Domains,
               SetGrant(p, d, q) \/ RevokeGrant(p, d, q)
        PROVE  Versioned(e)
    <2>1. PICK g : SaveGrant(p, d, q, g)
      BY <1>1 DEF SetGrant, RevokeGrant
    <2> QED
      BY <2>1, GrantIsVersioned
  <1>2. ASSUME NEW q \in Principals, NEW d \in Domains, Lapse(d, q)
        PROVE  Versioned(e)
    BY <1>2, LapseIsVersioned
  <1>3. ASSUME NEW p \in Principals, NEW q \in Principals,
               Demote(p, q) \/ RevokeMembership(p, q)
        PROVE  Versioned(e)
    BY <1>3, RestrictionIsVersioned DEF Demote, RevokeMembership
  <1> QED
    BY <1>1, <1>2, <1>3 DEF ChangeAccess

LEMMA UnchangedIsVersioned ==
  ASSUME AccessTypeOK, UNCHANGED <<standing, grants, permissionVersion>>, NEW e \in Domains
  PROVE  Versioned(e)
  BY AccessKept DEF Versioned

(* Nobody's access to a domain changes without a new permission version of *)
(* it, unless a grant expired: the domains a restriction of a membership   *)
(* bumps (restrictWithSecurityDomains) are all those it matters to.        *)
THEOREM AccessIsVersioned == Spec => AccessChangeIsVersioned
  <1>1. NodeInv /\ [Next]_vars => [\A d \in Domains : Versioned(d)]_access
    <2> SUFFICES ASSUME NodeInv, [Next]_vars, ~UNCHANGED access, NEW d \in Domains
                 PROVE  Versioned(d)
      OBVIOUS
    <2>0. AccessTypeOK
      BY DEF NodeInv, AccessInv
    <2>1. ASSUME Working \/ Composing \/ Judging \/ \E r \in sent : Forget(r)
          PROVE  UNCHANGED access
      <3>1. ASSUME NEW p \in Principals, NEW t \in Tasks,
                   \/ \E assignee \in SomeoneOrNone : CreateTask(p, t, assignee)
                   \/ StartTask(p, t) \/ CompleteTask(p, t)
                   \/ SubmitTask(p, t) \/ WithdrawTask(p, t)
                   \/ \E q \in Principals : AssignReviewer(p, t, q) \/ AssignAssignee(p, t, q)
            PROVE  UNCHANGED access
        BY <3>1 DEF CreateTask, StartTask, CompleteTask, SubmitTask, WithdrawTask, EndReview,
           AssignReviewer, AssignAssignee, SaveTask
      <3>2. ASSUME NEW p \in Principals, NEW x \in Deliverables,
                   \/ \E required \in BOOLEAN, reviewer \in Principals :
                          InitializeDeliverable(p, x, required, reviewer)
                   \/ \E evidence \in SUBSET stored : SubmitDeliverable(p, x, evidence)
            PROVE  UNCHANGED access
        BY <3>2 DEF InitializeDeliverable, SubmitDeliverable, SaveDeliverable
      <3>3. ASSUME NEW a \in Assets, StoreAsset(a) PROVE UNCHANGED access
        BY <3>3 DEF StoreAsset
      <3>4. ASSUME NEW r \in sent,
                   \/ AcceptTask(r) \/ RejectTask(r) \/ AcceptDeliverable(r)
                   \/ WaiveDeliverable(r) \/ CompleteNode(r) \/ Forget(r)
            PROVE  UNCHANGED access
        BY <3>4 DEF AcceptTask, RejectTask, EndReview, SaveTask, AcceptDeliverable,
           WaiveDeliverable, SaveDeliverable, CompleteNode, Forget
      <3>5. ASSUME Composing PROVE UNCHANGED access
        BY <3>5 DEF Composing, ComposeForTask, ComposeForDeliverable, ComposeCompletion, Compose
      <3> QED
        BY <2>1, <3>1, <3>2, <3>3, <3>4, <3>5 DEF Working, Judging
    <2>2. Governing
      BY <2>1 DEF Next, vars
    <2>3. CASE \E p \in Principals, e \in Domains : CreateSecurityRoot(p, e)
      BY <2>0, <2>3, RootIsVersioned
    <2>4. CASE UNCHANGED <<standing, grants, permissionVersion>>
      BY <2>0, <2>4, UnchangedIsVersioned
    <2>5. CASE ChangeAccess
      BY <2>0, <2>5, ChangeIsVersioned
    <2> QED
      BY <2>2, <2>3, <2>4, <2>5
      DEF Governing, AssignLeader, MakeSensitive, MakeOtherSensitive, Migrate, access
  <1> QED
    BY <1>1, NodeInvHolds, PTL DEF Spec, AccessChangeIsVersioned, Versioned

=============================================================================
