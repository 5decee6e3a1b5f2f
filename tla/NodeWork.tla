----------------------------- MODULE NodeWork ------------------------------
(***************************************************************************)
(* The work of one node: its tasks and their reviews, its deliverables,    *)
(* its leader and its completion (packages/application/src/tasks and       *)
(* .../deliverables, the node commands of the SQLite adapter), under the   *)
(* access rules of ProjectAccess.                                          *)
(*                                                                         *)
(* Every command is one transaction and compares the version its caller    *)
(* read.  For most commands it makes no difference when that was; the ones *)
(* by which somebody judges what others did (accept and reject a task,     *)
(* accept and waive a deliverable, complete the node) are composed first   *)
(* and carried out later, if at all, with anything in between.             *)
(*                                                                         *)
(* Abstractions: refused and repeated commands change nothing and are no   *)
(* steps; events and receipts are kept only for deliverables, whose        *)
(* retries are checked against them (DeliverableReplay); an event and its  *)
(* outbox row are one; notes, titles and times are left out. The migration *)
(* of the node to another domain, during which every command is refused,   *)
(* is one step (SecurityMigration shows that it moves all objects of the   *)
(* node or none).  Assets are stored and never go away (AssetIngest).      *)
(***************************************************************************)
EXTENDS ProjectAccess, FiniteSets, Sequences

CONSTANTS
    Tasks, Deliverables, Assets,  \* the ids that may come into being
    SlotMembers,   \* principals bound to the role slot that tasks may name
    FirstLeaders,  \* who may lead the node already, or NoOne
    MinCount,      \* minCount of a deliverable
    MaxVersion,    \* bound on the versions of tasks and deliverables
    MaxNodeVersion,  \* bound on the version of the node
    MaxSent        \* bound on the judgements under way at once

ASSUME WorkAssumption ==
    /\ Tasks \cap Deliverables = {}
    /\ SlotMembers \subseteq Principals
    /\ FirstLeaders \subseteq {p \in Principals : Bootstrap[p] # "none"} \cup {NoOne}
    /\ MinCount \in Nat \ {0}
    /\ {MaxVersion, MaxNodeVersion, MaxSent} \subseteq Nat

VARIABLES
    node,         \* the node: leader, status, domain, the domain it is root of, version
    task,         \* task[t]
    deliverable,  \* deliverable[x]: the row with its evidence links and actions
    events,       \* the events about deliverables
    receipts,     \* the receipts of the commands on deliverables
    stored,       \* available assets of the node
    sent,         \* judgements composed and not yet carried out
    counted       \* history: the tasks and deliverables its completion found

deliverables == <<deliverable, events, receipts>>
work == <<node, task, deliverables>>
vars == <<access, work, stored, sent, counted>>

SomeoneOrNone == Principals \cup {NoOne}

NodeType ==
    [leader : SomeoneOrNone, status : {"in_progress", "completed"},
     domain : Domains \cup {NoDomain}, root : Domains \cup {NoDomain}, version : Nat]

ReviewType ==
    [cycle : Nat, action : {"submitted", "accepted", "rejected", "withdrawn"},
     actor : Principals, reviewer : Principals]

TaskType ==
    [exec : {"absent", "todo", "in_progress", "completed"},
     review : {"not_required", "not_submitted", "pending", "accepted", "rejected", "withdrawn"},
     assignee : SomeoneOrNone, reviewer : SomeoneOrNone, version : Nat,
     reviews : Seq(ReviewType)]

DeliverableActions == {"initialized", "submitted", "accepted", "waived"}

ActionType ==
    [action : DeliverableActions, actor : Principals, evidence : SUBSET Assets]

DeliverableType ==
    [status : {"absent", "pending", "submitted", "accepted", "waived"}, required : BOOLEAN,
     reviewer : SomeoneOrNone, evidence : SUBSET Assets, endedBy : SomeoneOrNone,
     version : Nat, actions : Seq(ActionType)]

EventType ==
    [target : Deliverables, event : ActionType, version : Nat, domain : Domains \cup {NoDomain}]

ReceiptType ==
    [operation : DeliverableActions, actor : Principals, target : Deliverables,
     expected : Nat, result : DeliverableType]

NoTask == [exec |-> "absent", review |-> "not_required", assignee |-> NoOne,
           reviewer |-> NoOne, version |-> 0, reviews |-> <<>>]

NoDeliverable == [status |-> "absent", required |-> FALSE, reviewer |-> NoOne,
                  evidence |-> {}, endedBy |-> NoOne, version |-> 0, actions |-> <<>>]

TypeOK ==
    /\ AccessTypeOK
    /\ node \in NodeType
    /\ task \in [Tasks -> TaskType]
    /\ deliverable \in [Deliverables -> DeliverableType]
    /\ events \subseteq EventType
    /\ receipts \subseteq ReceiptType
    /\ stored \subseteq Assets
    /\ counted \subseteq Tasks \cup Deliverables

Init ==
    /\ AccessInit
    /\ node \in [leader : FirstLeaders, status : {"in_progress"}, domain : {NoDomain},
                root : {NoDomain}, version : {1}]
    /\ task = [t \in Tasks |-> NoTask]
    /\ deliverable = [x \in Deliverables |-> NoDeliverable]
    /\ events = {} /\ receipts = {}
    /\ stored = {}
    /\ sent = {}
    /\ counted = {}

-----------------------------------------------------------------------------
(* Authorization on the node and its objects.                              *)

IsLeader(p) == node.leader # NoOne /\ node.leader = p

(* canAccessProjectObjectDuringMigration, with no migration open.          *)
CanAccessObject(p, rank) ==
    /\ node.leader # NoOne /\ rank \in {Contribute, Edit} => IsManager(p) \/ IsLeader(p)
    /\ CanAccess(p, node.domain, rank)

IsEligible(p) == CanAccess(p, node.domain, View)

MayJudgeTask(p, t) ==
    /\ CanAccessObject(p, Edit)
    /\ p = task[t].reviewer \/ IsManager(p)

MayContribute(p, t) ==
    /\ CanAccessObject(p, Contribute)
    /\ p = task[t].assignee

-----------------------------------------------------------------------------
(* Tasks.                                                                  *)

Exec(t) == task[t].exec
IsMutable(t) == Exec(t) \in {"todo", "in_progress"}

SaveTask(t, new) ==
    /\ task[t].version < MaxVersion
    /\ task' = [task EXCEPT ![t] = [new EXCEPT !.version = task[t].version + 1]]
    /\ UNCHANGED <<access, node, deliverables, stored, counted>>

(* The reviewer a new task gets: the one asked for, the first eligible     *)
(* member of the role slot if one is named, or the leader of the node.     *)
SlotCandidates(slot) == {p \in SlotMembers : slot /\ IsEligible(p)}

(* Mutant: a node without a leader gives a task without a reviewer.        *)
ResolvedOrNone(asked, slot, reviewer) ==
    IF asked # NoOne THEN reviewer = asked /\ IsEligible(asked) ELSE reviewer = node.leader

ResolvedReviewer(asked, slot, reviewer) ==
    IF asked # NoOne THEN reviewer = asked /\ IsEligible(asked)
    ELSE IF SlotCandidates(slot) # {}
         THEN /\ reviewer \in SlotCandidates(slot)
              /\ \A p \in SlotCandidates(slot) : reviewer <= p
         ELSE reviewer = node.leader /\ node.leader # NoOne /\ IsEligible(node.leader)

CreateTask(p, t, assignee) ==
    /\ CanAccessObject(p, Contribute)
    /\ Exec(t) = "absent"
    /\ assignee # NoOne => IsEligible(assignee)
    /\ \/ SaveTask(t, [NoTask EXCEPT !.exec = "todo", !.assignee = assignee])
       \/ \E asked, reviewer \in SomeoneOrNone, slot \in BOOLEAN :
              /\ ResolvedReviewer(asked, slot, reviewer)
              /\ SaveTask(t, [NoTask EXCEPT !.exec = "todo", !.assignee = assignee,
                                            !.review = "not_submitted", !.reviewer = reviewer])
    /\ UNCHANGED sent

StartTask(p, t) ==
    /\ MayContribute(p, t)
    /\ Exec(t) = "todo"
    /\ SaveTask(t, [task[t] EXCEPT !.exec = "in_progress"])
    /\ UNCHANGED sent

CompleteTask(p, t) ==
    /\ MayContribute(p, t)
    /\ Exec(t) = "in_progress"
    /\ task[t].review = "not_required"
    /\ SaveTask(t, [task[t] EXCEPT !.exec = "completed"])
    /\ UNCHANGED sent

Record(t, cycle, action, actor, reviewer) ==
    Append(task[t].reviews,
           [cycle |-> cycle, action |-> action, actor |-> actor, reviewer |-> reviewer])

LastCycle(t) ==
    IF task[t].reviews = <<>> THEN 0 ELSE task[t].reviews[Len(task[t].reviews)].cycle

NextCycle(t) == LastCycle(t) + 1

SubmitTask(p, t) ==
    /\ MayContribute(p, t)
    /\ Exec(t) = "in_progress"
    /\ task[t].review \in {"not_submitted", "rejected", "withdrawn"}
    /\ SaveTask(t, [task[t] EXCEPT !.review = "pending",
                        !.reviews = Record(t, NextCycle(t), "submitted", p, task[t].reviewer)])
    /\ UNCHANGED sent

(* An action on the latest submission, for the reviewer it was made to.    *)
EndReview(p, t, action) ==
    /\ Exec(t) = "in_progress" /\ task[t].review = "pending"
    /\ LET submitted == task[t].reviews[Len(task[t].reviews)] IN
       SaveTask(t, [task[t] EXCEPT
           !.exec = IF action = "accepted" THEN "completed" ELSE @,
           !.review = action,
           !.reviews = Record(t, submitted.cycle, action, p, submitted.reviewer)])

WithdrawTask(p, t) ==
    /\ MayContribute(p, t)
    /\ EndReview(p, t, "withdrawn")
    /\ UNCHANGED sent

(* Mutant: the reviewer may change while a review is pending.              *)
IsUnlocked(t) == Exec(t) # "absent"

IsAssignable(t) == IsMutable(t) /\ task[t].review # "pending"

AssignReviewer(p, t, reviewer) ==
    /\ CanAccessObject(p, Edit) /\ IsManager(p)
    /\ IsEligible(reviewer)
    /\ IsAssignable(t)
    /\ task[t].review # "not_required"
    /\ task[t].reviewer # reviewer
    /\ SaveTask(t, [task[t] EXCEPT !.reviewer = reviewer])
    /\ UNCHANGED sent

AssignAssignee(p, t, assignee) ==
    /\ CanAccessObject(p, Edit) /\ IsManager(p)
    /\ IsEligible(assignee)
    /\ IsAssignable(t)
    /\ task[t].assignee # assignee
    /\ SaveTask(t, [task[t] EXCEPT !.assignee = assignee])
    /\ UNCHANGED sent

-----------------------------------------------------------------------------
(* Judgements: composed on what is there, carried out on what is there then. *)

(* What there is to see of an object, its version left out.                *)
TaskView(t) == [task[t] EXCEPT !.version = 0]
DeliverableView(x) == [deliverable[x] EXCEPT !.version = 0]
NodeView == [node EXCEPT !.version = 0]

Compose(kind, actor, target, expected, seen) ==
    /\ Cardinality(sent) < MaxSent
    /\ sent' = sent \cup {[kind |-> kind, actor |-> actor, target |-> target,
                           expected |-> expected, seen |-> seen]}
    /\ UNCHANGED <<access, work, stored, counted>>

ComposeForTask(kind, p, t) ==
    /\ task[t].review = "pending"
    /\ IsEligible(p)
    /\ Compose(kind, p, t, task[t].version, TaskView(t))

ComposeForDeliverable(kind, p, x) ==
    /\ deliverable[x].status \in {"pending", "submitted"}
    /\ IsEligible(p)
    /\ Compose(kind, p, x, deliverable[x].version, DeliverableView(x))

ComposeCompletion(p) ==
    /\ node.status # "completed"
    /\ IsEligible(p)
    /\ Compose("complete_node", p, NoOne, node.version, NodeView)

Forget(r) ==
    /\ sent' = sent \ {r}
    /\ UNCHANGED <<access, work, stored, counted>>

(* Mutant: the version is not compared.                                    *)
AnyVersion(r, version) == TRUE

IsCurrent(r, version) == r.expected = version

AcceptTask(r) ==
    /\ r.kind = "accept_task" /\ IsCurrent(r, task[r.target].version)
    /\ MayJudgeTask(r.actor, r.target)
    /\ EndReview(r.actor, r.target, "accepted")
    /\ sent' = sent \ {r}

RejectTask(r) ==
    /\ r.kind = "reject_task" /\ IsCurrent(r, task[r.target].version)
    /\ MayJudgeTask(r.actor, r.target)
    /\ EndReview(r.actor, r.target, "rejected")
    /\ sent' = sent \ {r}

-----------------------------------------------------------------------------
(* Deliverables.                                                           *)

(* A row names who ended it when it has ended, and only then; evidence is  *)
(* named by the submission and by no other action.                         *)
IsCanonical(row) ==
    /\ row.status \in {"accepted", "waived"} <=> row.endedBy # NoOne
    /\ \A i \in DOMAIN row.actions :
           row.actions[i].action = "submitted" <=> row.actions[i].evidence # {}

StoreDeliverable(x, row) ==
    /\ row.version = deliverable[x].version + 1
    /\ IsCanonical(row)
    /\ deliverable' = [deliverable EXCEPT ![x] = row]

(* The row, the evidence links, the action, the event and the receipt that *)
(* a command writes in its transaction.                                    *)
SaveDeliverable(p, x, action, new) ==
    LET taken == [action |-> action, actor |-> p,
                  evidence |-> IF action = "submitted" THEN new.evidence ELSE {}]
        saved == [new EXCEPT !.version = deliverable[x].version + 1,
                             !.actions = Append(deliverable[x].actions, taken)]
    IN  /\ deliverable[x].version < MaxVersion
        /\ StoreDeliverable(x, saved)
        /\ events' = events \cup {[target |-> x, event |-> taken, version |-> saved.version,
                                   domain |-> node.domain]}
        /\ receipts' = receipts \cup {[operation |-> action, actor |-> p, target |-> x,
                                       expected |-> deliverable[x].version, result |-> saved]}
        /\ UNCHANGED <<access, node, task, stored, counted>>

MayInitialize(p) == IsManager(p) /\ CanAccessObject(p, Edit)

InitializeDeliverable(p, x, required, reviewer) ==
    /\ MayInitialize(p)
    /\ deliverable[x].status = "absent"
    /\ IsEligible(reviewer)
    /\ SaveDeliverable(p, x, "initialized",
           [NoDeliverable EXCEPT !.status = "pending", !.required = required,
                                 !.reviewer = reviewer])
    /\ UNCHANGED sent

MaySubmitEvidence(p) ==
    /\ CanAccessObject(p, View) /\ CanAccessObject(p, Contribute)
    /\ IsManager(p) \/ IsLeader(p)

AwaitsEvidence(x) == deliverable[x].status = "pending"

SubmitDeliverable(p, x, evidence) ==
    /\ MaySubmitEvidence(p)
    /\ AwaitsEvidence(x)
    /\ Cardinality(evidence) >= MinCount
    /\ SaveDeliverable(p, x, "submitted",
           [deliverable[x] EXCEPT !.status = "submitted", !.evidence = evidence])
    /\ UNCHANGED sent

MayAcceptDeliverable(p, x) ==
    /\ CanAccessObject(p, View)
    /\ \/ p = deliverable[x].reviewer
       \/ IsManager(p) /\ CanAccessObject(p, Edit)

(* What was submitted is one whole submission, and its evidence is there.  *)
SubmissionStands(x) ==
    LET actions == deliverable[x].actions
        links == deliverable[x].evidence
    IN  /\ \E i, j \in DOMAIN actions :
               /\ {k \in DOMAIN actions : actions[k].action = "initialized"} = {i}
               /\ {k \in DOMAIN actions : actions[k].action = "submitted"} = {j}
               /\ actions[j].evidence = links
        /\ Cardinality(links) >= MinCount
        /\ links \subseteq stored

AcceptDeliverable(r) ==
    LET x == r.target IN
    /\ r.kind = "accept_deliverable"
    /\ MayAcceptDeliverable(r.actor, x)
    /\ deliverable[x].status = "submitted"
    /\ IsCurrent(r, deliverable[x].version)
    /\ Len(deliverable[x].actions) = 2 /\ SubmissionStands(x)
    /\ SaveDeliverable(r.actor, x, "accepted",
           [deliverable[x] EXCEPT !.status = "accepted", !.endedBy = r.actor])
    /\ sent' = sent \ {r}

MayWaive(p) == CanAccessObject(p, View) /\ IsManager(p) /\ CanAccessObject(p, Edit)

IsOpen(x) == deliverable[x].status \notin {"absent", "accepted", "waived"}

WaiveDeliverable(r) ==
    LET x == r.target IN
    /\ r.kind = "waive_deliverable"
    /\ MayWaive(r.actor)
    /\ IsOpen(x)
    /\ IsCurrent(r, deliverable[x].version)
    /\ SaveDeliverable(r.actor, x, "waived",
           [deliverable[x] EXCEPT !.status = "waived", !.endedBy = r.actor])
    /\ sent' = sent \ {r}

(* attach-task-asset, see AssetIngest.                                     *)
StoreAsset(a) ==
    /\ a \notin stored
    /\ stored' = stored \cup {a}
    /\ UNCHANGED <<access, work, sent, counted>>

-----------------------------------------------------------------------------
(* The node.                                                               *)

SaveNode(new) ==
    /\ node.version < MaxNodeVersion
    /\ node' = [new EXCEPT !.version = node.version + 1]

ActsOnSensitive(p) == node.domain # NoDomain => CanAccessObject(p, Edit)

AssignLeader(p, leader) ==
    /\ IsManager(p) /\ ActsOnSensitive(p)
    /\ leader # NoOne => IsActive(leader)
    /\ SaveNode([node EXCEPT !.leader = leader])
    /\ UNCHANGED <<access, task, deliverables, stored, sent, counted>>

TaskIsDone(t) ==
    IF task[t].review = "not_required" THEN Exec(t) = "completed" ELSE task[t].review = "accepted"

DeliverableIsDone(x) ==
    deliverable[x].required => deliverable[x].status \in {"accepted", "waived"}

ExistingTasks == {t \in Tasks : Exec(t) # "absent"}
ExistingDeliverables == {x \in Deliverables : deliverable[x].status # "absent"}

(* Mutants: work under review counts as done; the tasks are not looked at. *)
NothingIsWaiting ==
    /\ \A t \in ExistingTasks : Exec(t) # "todo"
    /\ \A x \in ExistingDeliverables : DeliverableIsDone(x)

AllWorkIsDone ==
    /\ \A t \in ExistingTasks : TaskIsDone(t)
    /\ \A x \in ExistingDeliverables : DeliverableIsDone(x)

CompleteNode(r) ==
    /\ r.kind = "complete_node"
    /\ IsActive(r.actor)
    /\ IsManager(r.actor) \/ IsLeader(r.actor)
    /\ ActsOnSensitive(r.actor)
    /\ IsCurrent(r, node.version)
    /\ node.status # "completed"
    /\ AllWorkIsDone
    /\ SaveNode([node EXCEPT !.status = "completed"])
    /\ counted' = ExistingTasks \cup ExistingDeliverables
    /\ sent' = sent \ {r}
    /\ UNCHANGED <<access, task, deliverables, stored>>

(* A first domain for this node, which must be an empty leaf, or another.  *)
MakeSensitive(p, d) ==
    /\ node.domain = NoDomain /\ node.root = NoDomain
    /\ ExistingTasks = {} /\ ExistingDeliverables = {} /\ stored = {}
    /\ CreateSecurityRoot(p, d)
    /\ SaveNode([node EXCEPT !.domain = d, !.root = d])
    /\ UNCHANGED <<task, deliverables, stored, sent, counted>>

MakeOtherSensitive(p, d) ==
    /\ CreateSecurityRoot(p, d)
    /\ UNCHANGED <<work, stored, sent, counted>>

(* A migration that was committed.  It leaves everything of an object but  *)
(* its domain and version, and says so in no event and no receipt.         *)
MovedTask(t) ==
    IF Exec(t) = "absent" THEN task[t]
    ELSE [task[t] EXCEPT !.version = task[t].version + 1]

MovedDeliverable(x) ==
    IF deliverable[x].status = "absent" THEN deliverable[x]
    ELSE [deliverable[x] EXCEPT !.version = deliverable[x].version + 1]

Migrate(d) ==
    /\ d # node.domain
    /\ d # NoDomain => Exists(d)
    /\ SaveNode([node EXCEPT !.domain = d])
    /\ task' = [t \in Tasks |-> MovedTask(t)]
    /\ deliverable' = [x \in Deliverables |-> MovedDeliverable(x)]
    /\ rooted' = IF d # NoDomain /\ d = node.root THEN rooted \cup {d}
                 ELSE rooted \ {node.root}
    /\ UNCHANGED <<standing, grants, permissionVersion, events, receipts, stored, sent, counted>>

-----------------------------------------------------------------------------
Composing ==
    \/ \E p \in Principals, t \in Tasks, kind \in {"accept_task", "reject_task"} :
           ComposeForTask(kind, p, t)
    \/ \E p \in Principals, x \in Deliverables, kind \in {"accept_deliverable", "waive_deliverable"} :
           ComposeForDeliverable(kind, p, x)
    \/ \E p \in Principals : ComposeCompletion(p)

Judging ==
    \E r \in sent :
        \/ AcceptTask(r) \/ RejectTask(r)
        \/ AcceptDeliverable(r) \/ WaiveDeliverable(r)
        \/ CompleteNode(r)

Working ==
    \/ \E p \in Principals, t \in Tasks :
           \/ \E assignee \in SomeoneOrNone : CreateTask(p, t, assignee)
           \/ StartTask(p, t) \/ CompleteTask(p, t)
           \/ SubmitTask(p, t) \/ WithdrawTask(p, t)
           \/ \E q \in Principals : AssignReviewer(p, t, q) \/ AssignAssignee(p, t, q)
    \/ \E p \in Principals, x \in Deliverables :
           \/ \E required \in BOOLEAN, reviewer \in Principals :
                  InitializeDeliverable(p, x, required, reviewer)
           \/ \E evidence \in SUBSET stored : SubmitDeliverable(p, x, evidence)
    \/ \E a \in Assets : StoreAsset(a)

Governing ==
    \/ \E p \in Principals, leader \in SomeoneOrNone : AssignLeader(p, leader)
    \/ \E p \in Principals, d \in Domains : MakeSensitive(p, d) \/ MakeOtherSensitive(p, d)
    \/ \E d \in Domains \cup {NoDomain} : Migrate(d)
    \/ ChangeAccess /\ UNCHANGED <<work, stored, sent, counted>>

Next ==
    \/ Working
    \/ Composing
    \/ Judging
    \/ \E r \in sent : Forget(r)
    \/ Governing

Spec == Init /\ [][Next]_vars

-----------------------------------------------------------------------------
(* Properties.                                                             *)

(* The reviews of a task are whole cycles of a submission and one judgement *)
(* of it, numbered in order, each judged under the reviewer it was         *)
(* submitted to and withdrawn only by who submitted it; nothing follows an *)
(* acceptance; the task's own state agrees with the last entry, and while  *)
(* that is a submission its reviewer stays the one it was submitted to (the *)
(* append-only task_review_actions and the task row are written by         *)
(* different statements of eight commands).                                *)
ReviewTrail ==
    \A t \in ExistingTasks :
        LET trail == task[t].reviews
            last == trail[Len(trail)]
        IN  /\ \A i \in 1..Len(trail) :
                   /\ trail[i].cycle = (i + 1) \div 2
                   /\ trail[i].action = "submitted" <=> i % 2 = 1
                   /\ i % 2 = 0 => trail[i].reviewer = trail[i - 1].reviewer
                   /\ trail[i].action = "withdrawn" => trail[i].actor = trail[i - 1].actor
                   /\ trail[i].action = "accepted" => i = Len(trail)
            /\ IF trail = <<>>
               THEN task[t].review \in {"not_required", "not_submitted"}
               ELSE IF last.action = "submitted"
               THEN /\ task[t].review = "pending" /\ Exec(t) = "in_progress"
                    /\ task[t].reviewer = last.reviewer
               ELSE task[t].review = last.action
            /\ task[t].review \in {"accepted", "not_required"} \/ Exec(t) # "completed"

(* Whoever judges a submission, waives a requirement or completes the node *)
(* acts on what he saw: between the reading and the command nobody has     *)
(* submitted again, reassigned, moved or led it otherwise (expectedVersion).*)
DecidedAsSeen ==
    [][\A r \in sent \ sent' :
           \/ task' # task /\ r.seen = TaskView(r.target)
           \/ deliverable' # deliverable /\ r.seen = DeliverableView(r.target)
           \/ node' # node /\ r.seen = NodeView
           \/ UNCHANGED work]_vars

(* What the completion of the node counted as done stays done: no later    *)
(* command reopens a task or a required deliverable of a completed node.   *)
CompletionHolds ==
    node.status = "completed" =>
        /\ \A t \in Tasks \cap counted : TaskIsDone(t)
        /\ \A x \in Deliverables \cap counted : DeliverableIsDone(x)

(* A pending review in a sensitive node can always be decided by somebody, *)
(* whatever happened to its reviewer, the leader and the grants since.     *)
ReviewsStayDecidable ==
    node.domain # NoDomain =>
        \A t \in Tasks : task[t].review = "pending" =>
            \E p \in Principals : MayJudgeTask(p, t)

(* The reviewer a pending task was submitted to, still a member and with   *)
(* access to the domain, may decide it: "only the assigned reviewer or a   *)
(* project manager can perform this action" (act-on-task.ts).              *)
AssignedReviewerDecides ==
    \A t \in Tasks : task[t].review = "pending" /\ IsEligible(task[t].reviewer) =>
        MayJudgeTask(task[t].reviewer, t)

=============================================================================
