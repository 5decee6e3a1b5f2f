-------------------------- MODULE NodeTrailProofs ---------------------------
(* What happens to the tasks and deliverables of a node, for all of them   *)
(* and all bounds: their types, the reviews of a task, the judgements made *)
(* on what was seen, what the completion of the node counted as done, and  *)
(* what a repeated command on a deliverable is answered.                   *)
EXTENDS NodeWorkProofs, DeliverableReplay, FiniteSetTheorems

-----------------------------------------------------------------------------
(* The reviews of a task.                                                  *)

EntryFits(trail, i) ==
    /\ trail[i].cycle = (i + 1) \div 2
    /\ trail[i].action = "submitted" <=> i % 2 = 1
    /\ i % 2 = 0 => trail[i].reviewer = trail[i - 1].reviewer
    /\ trail[i].action = "withdrawn" => trail[i].actor = trail[i - 1].actor
    /\ trail[i].action = "accepted" => i = Len(trail)

EntriesFit(trail) ==
    /\ trail \in Seq(ReviewType)
    /\ \A i \in 1..Len(trail) : EntryFits(trail, i)

(* Two entries to a cycle.                                                 *)
LEMMA CyclesOfTwo ==
  ASSUME NEW n \in Nat
  PROVE  /\ n % 2 = 0 => (n + 1) % 2 = 1 /\ (n + 1) \div 2 + 1 = (n + 2) \div 2
         /\ n % 2 = 1 => (n + 1) % 2 = 0 /\ (n + 1) \div 2 = (n + 2) \div 2
         /\ n % 2 \in {0, 1} /\ (n + 2) \div 2 \in Nat
  OBVIOUS

(* A last entry follows the others and changes none of them.               *)
LEMMA AppendedReview ==
  ASSUME NEW s \in Seq(ReviewType), NEW e \in ReviewType
  PROVE  /\ Append(s, e) \in Seq(ReviewType)
         /\ Len(s) \in Nat /\ Len(Append(s, e)) = Len(s) + 1
         /\ \A i \in 1..Len(s) : Append(s, e)[i] = s[i]
         /\ Append(s, e)[Len(s) + 1] = e
         /\ Append(s, e) # <<>>
  OBVIOUS

(* What an entry needs to be the next.                                     *)
Follows(e, s) ==
    /\ e \in ReviewType
    /\ e.cycle = (Len(s) + 2) \div 2
    /\ \/ e.action = "submitted" /\ Len(s) % 2 = 0
       \/ /\ e.action # "submitted" /\ Len(s) % 2 = 1
          /\ e.reviewer = s[Len(s)].reviewer
          /\ e.action = "withdrawn" => e.actor = s[Len(s)].actor
    /\ \A i \in 1..Len(s) : s[i].action # "accepted"

LEMMA NextEntryFits ==
  ASSUME NEW s, EntriesFit(s), NEW e, Follows(e, s)
  PROVE  EntriesFit(Append(s, e))
  <1> DEFINE t == Append(s, e)
  <1>1. s \in Seq(ReviewType) /\ e \in ReviewType
    BY DEF EntriesFit, Follows
  <1>2. /\ t \in Seq(ReviewType) /\ Len(s) \in Nat /\ Len(t) = Len(s) + 1
        /\ \A i \in 1..Len(s) : t[i] = s[i]
        /\ t[Len(s) + 1] = e
    BY <1>1, AppendedReview
  <1> HIDE DEF t
  <1>3. ASSUME NEW i \in 1..Len(s) PROVE EntryFits(t, i)
    <2>1. EntryFits(s, i) /\ s[i].action # "accepted" /\ t[i] = s[i]
      BY <1>2, <1>3 DEF EntriesFit, Follows
    <2>2. CASE i = 1
      <3>1. s[i].action = "submitted"
        BY <2>1, <2>2 DEF EntryFits
      <3> QED
        BY <2>1, <2>2, <3>1 DEF EntryFits
    <2>3. CASE i > 1
      <3>1. i - 1 \in 1..Len(s)
        BY <1>2, <1>3, <2>3
      <3>2. t[i - 1] = s[i - 1]
        BY <1>2, <3>1
      <3> QED
        BY <2>1, <3>2 DEF EntryFits
    <2> QED
      BY <1>2, <1>3, <2>2, <2>3
  <1>4. EntryFits(t, Len(s) + 1)
    <2> DEFINE n == Len(s)
    <2>1. n \in Nat /\ Len(t) = n + 1 /\ t[n + 1] = e
      BY <1>2
    <2>2. n % 2 = 1 => t[n] = s[n]
      <3>1. n % 2 = 1 => n \in 1..n
        BY <2>1
      <3> QED
        BY <1>2, <3>1
    <2>3. e.action = "withdrawn" => n % 2 = 1
      BY DEF Follows
    <2>4. /\ (n + 1) - 1 = n /\ ((n + 1) + 1) \div 2 = (n + 2) \div 2
          /\ (n + 1) % 2 = 1 <=> n % 2 = 0
          /\ (n + 1) % 2 = 0 <=> n % 2 = 1
      BY <2>1, CyclesOfTwo
    <2>5. /\ e.cycle = (n + 2) \div 2
          /\ \/ e.action = "submitted" /\ n % 2 = 0
             \/ /\ e.action # "submitted" /\ n % 2 = 1
                /\ e.reviewer = s[n].reviewer
                /\ e.action = "withdrawn" => e.actor = s[n].actor
      BY DEF Follows
    <2> HIDE DEF n
    <2>6. EntryFits(t, n + 1)
      BY <2>1, <2>2, <2>3, <2>4, <2>5 DEF EntryFits
    <2> QED
      BY <2>6 DEF n
  <1>5. EntriesFit(t)
    BY <1>2, <1>3, <1>4 DEF EntriesFit
  <1> QED
    BY <1>5 DEF t

-----------------------------------------------------------------------------
(* The row of a task.                                                      *)

Last(row) == row.reviews[Len(row.reviews)]

StateFits(row) ==
    /\ IF row.reviews = <<>>
       THEN row.review \in {"not_required", "not_submitted"}
       ELSE IF Last(row).action = "submitted"
       THEN /\ row.review = "pending" /\ row.exec = "in_progress"
            /\ row.reviewer = Last(row).reviewer
       ELSE row.review = Last(row).action
    /\ row.review \in {"accepted", "not_required"} \/ row.exec # "completed"

(* The row and its reviews agree; a reviewed task has a reviewer and is    *)
(* completed by its acceptance; while a review is pending, the assignee is *)
(* still who submitted it.                                                 *)
RowFits(row) ==
    /\ row \in TaskType
    /\ EntriesFit(row.reviews)
    /\ StateFits(row)
    /\ row.review # "not_required" => row.reviewer \in Principals
    /\ row.exec = "absent" => row.review = "not_required"
    /\ row.review = "accepted" => row.exec = "completed"
    /\ row.review = "pending" => Last(row).actor = row.assignee

LEMMA NewRowFits ==
  ASSUME NEW row \in TaskType, row.reviews = <<>>,
         \/ row.review = "not_required"
         \/ row.review = "not_submitted" /\ row.reviewer \in Principals /\ row.exec = "todo"
  PROVE  RowFits(row)
  BY DEF RowFits, EntriesFit, StateFits

(* Versions, assignees and, while no review is pending, reviewers may      *)
(* change; so may the execution of a task that waits for no review.        *)
LEMMA VersionFits ==
  ASSUME NEW row, RowFits(row), NEW v \in Nat
  PROVE  RowFits([row EXCEPT !.version = v])
  BY DEF RowFits, StateFits, Last, TaskType

LEMMA AssigneeFits ==
  ASSUME NEW row, RowFits(row), row.review # "pending", NEW p \in Principals
  PROVE  RowFits([row EXCEPT !.assignee = p])
  BY DEF RowFits, StateFits, Last, TaskType, SomeoneOrNone

LEMMA ReviewerFits ==
  ASSUME NEW row, RowFits(row), row.review # "pending", NEW p \in Principals
  PROVE  RowFits([row EXCEPT !.reviewer = p])
  BY DEF RowFits, StateFits, Last, TaskType, SomeoneOrNone

LEMMA StartFits ==
  ASSUME NEW row, RowFits(row), row.exec = "todo"
  PROVE  RowFits([row EXCEPT !.exec = "in_progress"])
  BY DEF RowFits, StateFits, Last, TaskType

LEMMA CompletionFits ==
  ASSUME NEW row, RowFits(row), row.review = "not_required"
  PROVE  RowFits([row EXCEPT !.exec = "completed"])
  BY DEF RowFits, StateFits, Last, TaskType

(* The last entry is a fitting one, and of a known action.                 *)
LEMMA LastFits ==
  ASSUME NEW row, RowFits(row), row.reviews # <<>>
  PROVE  /\ Len(row.reviews) \in Nat /\ Len(row.reviews) \in 1..Len(row.reviews)
         /\ Last(row) \in ReviewType
         /\ EntryFits(row.reviews, Len(row.reviews))
  <1>1. row.reviews \in Seq(ReviewType)
    BY DEF RowFits, EntriesFit
  <1>2. Len(row.reviews) \in Nat /\ Len(row.reviews) \in 1..Len(row.reviews)
    BY <1>1
  <1> QED
    BY <1>1, <1>2 DEF RowFits, EntriesFit, Last

(* No review of a task that is not accepted was an acceptance.             *)
LEMMA NoneAccepted ==
  ASSUME NEW row, RowFits(row), row.review # "accepted", NEW i \in 1..Len(row.reviews)
  PROVE  row.reviews[i].action # "accepted"
  <1> SUFFICES ASSUME row.reviews[i].action = "accepted" PROVE FALSE
    OBVIOUS
  <1>1. row.reviews \in Seq(ReviewType) /\ EntryFits(row.reviews, i)
    BY DEF RowFits, EntriesFit
  <1>2. i = Len(row.reviews) /\ row.reviews # <<>>
    BY <1>1 DEF EntryFits
  <1> QED
    BY <1>2 DEF RowFits, StateFits, Last

(* A row with one more entry, its review and execution set to match.       *)
LEMMA ExtendedRowFits ==
  ASSUME NEW row, RowFits(row), NEW e, Follows(e, row.reviews),
         NEW new \in TaskType, new.reviews = Append(row.reviews, e), new.reviewer \in Principals,
         new.exec \in {"in_progress", "completed"},
         \/ /\ e.action = "submitted" /\ new.review = "pending" /\ new.exec = "in_progress"
            /\ e.reviewer = new.reviewer /\ e.actor = new.assignee
         \/ /\ e.action # "submitted" /\ new.review = e.action
            /\ new.exec = "completed" <=> e.action = "accepted"
  PROVE  RowFits(new)
  <1>1. EntriesFit(new.reviews)
    BY NextEntryFits DEF RowFits
  <1>2. row.reviews \in Seq(ReviewType) /\ e \in ReviewType
    BY DEF RowFits, EntriesFit, Follows
  <1>3. Last(new) = e /\ new.reviews # <<>>
    BY <1>2, AppendedReview DEF Last
  <1>4. StateFits(new)
    BY <1>2, <1>3 DEF StateFits
  <1> QED
    BY <1>1, <1>2, <1>3, <1>4 DEF RowFits, ReviewType

(* A submission opens the next cycle, for the reviewer of the moment.      *)
LEMMA SubmissionFits ==
  ASSUME NEW row, RowFits(row), row.exec = "in_progress", row.assignee \in Principals,
         row.review \in {"not_submitted", "rejected", "withdrawn"},
         NEW cycle, cycle = (IF row.reviews = <<>> THEN 0 ELSE Last(row).cycle) + 1,
         NEW e, e = [cycle |-> cycle, action |-> "submitted", actor |-> row.assignee,
                     reviewer |-> row.reviewer]
  PROVE  RowFits([row EXCEPT !.review = "pending", !.reviews = Append(row.reviews, e)])
  <1> DEFINE n == Len(row.reviews)
             new == [row EXCEPT !.review = "pending", !.reviews = Append(row.reviews, e)]
  <1>1. /\ row \in TaskType /\ row.reviews \in Seq(ReviewType) /\ row.reviewer \in Principals
        /\ n \in Nat
    BY DEF RowFits, EntriesFit
  <1>2. n % 2 = 0 /\ cycle = (n + 2) \div 2
    <2>1. CASE row.reviews = <<>>
      <3>1. n = 0 /\ cycle = 1
        BY <2>1
      <3> QED
        BY <3>1
    <2>2. CASE row.reviews # <<>>
      <3>1. EntryFits(row.reviews, n) /\ Last(row).action # "submitted"
        BY <2>2, LastFits DEF RowFits, StateFits
      <3>2. cycle = (n + 1) \div 2 + 1 /\ n % 2 # 1
        BY <2>2, <3>1 DEF EntryFits, Last
      <3> HIDE DEF n
      <3> QED
        BY <1>1, <3>2, CyclesOfTwo
    <2> QED
      BY <2>1, <2>2
  <1>3. e \in ReviewType /\ cycle \in Nat
    BY <1>1, <1>2, CyclesOfTwo DEF ReviewType
  <1>4. Follows(e, row.reviews)
    <2>1. \A i \in 1..Len(row.reviews) : row.reviews[i].action # "accepted"
      BY NoneAccepted
    <2>2. n % 2 = 0 /\ e.action = "submitted" /\ e.cycle = (n + 2) \div 2
      BY <1>2
    <2> QED
      BY <1>3, <2>1, <2>2 DEF Follows
  <1>5. Append(row.reviews, e) \in Seq(ReviewType)
    BY <1>1, <1>3, AppendedReview
  <1>6. new \in TaskType
    BY <1>1, <1>5 DEF TaskType
  <1>7. /\ new.reviews = Append(row.reviews, e) /\ new.review = "pending"
        /\ new.exec = row.exec /\ new.reviewer = row.reviewer /\ new.assignee = row.assignee
    BY <1>1 DEF TaskType
  <1> HIDE DEF new
  <1>8. RowFits(new)
    BY <1>1, <1>4, <1>6, <1>7, ExtendedRowFits
  <1> QED
    BY <1>8 DEF new

(* A judgement or a withdrawal closes the cycle of the pending submission. *)
LEMMA EndFits ==
  ASSUME NEW row, RowFits(row), row.exec = "in_progress", row.review = "pending",
         NEW action \in {"accepted", "rejected", "withdrawn"}, NEW p \in Principals,
         action = "withdrawn" => p = row.assignee,
         NEW e, e = [cycle |-> Last(row).cycle, action |-> action, actor |-> p,
                     reviewer |-> Last(row).reviewer]
  PROVE  RowFits([row EXCEPT !.exec = IF action = "accepted" THEN "completed" ELSE @,
                             !.review = action, !.reviews = Append(row.reviews, e)])
  <1> DEFINE n == Len(row.reviews)
             new == [row EXCEPT !.exec = IF action = "accepted" THEN "completed" ELSE @,
                                !.review = action, !.reviews = Append(row.reviews, e)]
  <1>1. /\ row \in TaskType /\ row.reviews \in Seq(ReviewType) /\ row.reviewer \in Principals
        /\ n \in Nat
    BY DEF RowFits, EntriesFit
  <1>2. row.reviews # <<>> /\ Last(row).action = "submitted" /\ Last(row).actor = row.assignee
    <2>1. row.reviews # <<>>
      BY DEF RowFits, StateFits
    <2>2. Last(row) \in ReviewType
      BY <2>1, LastFits
    <2> QED
      BY <2>1, <2>2 DEF RowFits, StateFits, ReviewType
  <1>3. EntryFits(row.reviews, n) /\ Last(row) \in ReviewType
    BY <1>2, LastFits
  <1>4. n % 2 = 1 /\ Last(row).cycle = (n + 1) \div 2
    BY <1>2, <1>3 DEF EntryFits, Last
  <1>5. Last(row).cycle = (n + 2) \div 2
    <2> HIDE DEF n
    <2> QED
      BY <1>1, <1>4, CyclesOfTwo
  <1>6. e \in ReviewType
    BY <1>3 DEF ReviewType
  <1>7. Follows(e, row.reviews)
    <2>1. \A i \in 1..Len(row.reviews) : row.reviews[i].action # "accepted"
      BY NoneAccepted
    <2>2. e.action = action /\ e.actor = p /\ e.cycle = (n + 2) \div 2
      BY <1>5
    <2>3. action # "submitted" /\ n % 2 = 1
      BY <1>4
    <2>4. e.reviewer = row.reviews[n].reviewer
      BY DEF Last
    <2>5. action = "withdrawn" => p = row.reviews[n].actor
      BY <1>2 DEF Last
    <2> QED
      BY <1>6, <2>1, <2>2, <2>3, <2>4, <2>5 DEF Follows
  <1>8. Append(row.reviews, e) \in Seq(ReviewType)
    BY <1>1, <1>6, AppendedReview
  <1>9. new \in TaskType
    BY <1>1, <1>8 DEF TaskType
  <1>10. /\ new.reviews = Append(row.reviews, e) /\ new.review = action
         /\ new.exec = IF action = "accepted" THEN "completed" ELSE "in_progress"
         /\ new.reviewer = row.reviewer
    BY <1>1 DEF TaskType
  <1> HIDE DEF new
  <1>11. RowFits(new)
    BY <1>1, <1>7, <1>9, <1>10, ExtendedRowFits
  <1> QED
    BY <1>11 DEF new

-----------------------------------------------------------------------------
(* The invariant of the node's work.                                       *)

TasksFit ==
    /\ task \in [Tasks -> TaskType]
    /\ \A t \in Tasks : RowFits(task[t])

DeliverablesTyped ==
    /\ deliverable \in [Deliverables -> DeliverableType]
    /\ events \subseteq EventType
    /\ receipts \subseteq ReceiptType
    /\ stored \subseteq Assets

(* A judgement under way was composed on a version there has been, and if  *)
(* that is still the version, on what there is now.                        *)
SeenThen(r, version, view) ==
    /\ r.actor \in Principals
    /\ r.expected \in Nat /\ r.expected <= version
    /\ r.expected = version => r.seen = view

Informed(r) ==
    \/ /\ r.kind \in {"accept_task", "reject_task"} /\ r.target \in Tasks
       /\ SeenThen(r, task[r.target].version, TaskView(r.target))
    \/ /\ r.kind \in {"accept_deliverable", "waive_deliverable"} /\ r.target \in Deliverables
       /\ SeenThen(r, deliverable[r.target].version, DeliverableView(r.target))
    \/ r.kind = "complete_node" /\ SeenThen(r, node.version, NodeView)

SentInformed == \A r \in sent : Informed(r)

CountedExists == counted \subseteq ExistingTasks \cup ExistingDeliverables

WorkInv ==
    /\ TasksFit
    /\ DeliverablesTyped
    /\ SentInformed
    /\ CountedExists
    /\ CompletionHolds

Inv == NodeInv /\ WorkInv

(* The kinds of commands are different.                                    *)
LEMMA KindsDiffer ==
  /\ {"accept_task", "reject_task"} \cap {"accept_deliverable", "waive_deliverable"} = {}
  /\ "complete_node" \notin {"accept_task", "reject_task"}
  /\ "complete_node" \notin {"accept_deliverable", "waive_deliverable"}
  OBVIOUS

(* A task that was done is completed, and stays done when it is not saved. *)
LEMMA DoneIsCompleted ==
  ASSUME TasksFit, NEW t \in Tasks, TaskIsDone(t)
  PROVE  Exec(t) = "completed"
  BY DEF TasksFit, TaskIsDone, RowFits, Exec

(* Saving a fitting row of a task that is not completed yet.               *)
LEMMA SavedTask ==
  ASSUME Inv, NEW t \in Tasks, NEW new, RowFits(new), new.version = task[t].version,
         new.exec # "absent", Exec(t) # "completed", SaveTask(t, new), sent' \subseteq sent
  PROVE  WorkInv'
  <1> DEFINE row == [new EXCEPT !.version = task[t].version + 1]
  <1>1. task[t].version \in Nat /\ task \in [Tasks -> TaskType] /\ new \in TaskType
    BY DEF Inv, WorkInv, TasksFit, RowFits, TaskType
  <1>2. RowFits(row) /\ row.version = task[t].version + 1 /\ row.exec = new.exec
    <2>1. task[t].version + 1 \in Nat
      BY <1>1
    <2>2. RowFits(row)
      BY <2>1, VersionFits
    <2> QED
      BY <1>1, <2>2 DEF TaskType
  <1> HIDE DEF row
  <1>3. /\ task' = [task EXCEPT ![t] = row]
        /\ UNCHANGED <<access, node, deliverables, stored, counted>>
    BY DEF SaveTask, row
  <1>4. TasksFit'
    BY <1>1, <1>2, <1>3 DEF Inv, WorkInv, TasksFit, RowFits
  <1>5. DeliverablesTyped'
    BY <1>3 DEF Inv, WorkInv, DeliverablesTyped, deliverables
  <1>6. ASSUME NEW r \in sent'
        PROVE  Informed(r)'
    <2>1. r \in sent /\ Informed(r)
      BY <1>6 DEF Inv, WorkInv, SentInformed
    <2>2. CASE /\ r.kind \in {"accept_task", "reject_task"} /\ r.target \in Tasks
               /\ SeenThen(r, task[r.target].version, TaskView(r.target))
      <3>1. CASE r.target = t
        BY <1>1, <1>2, <1>3, <2>2, <3>1 DEF Informed, SeenThen
      <3>2. CASE r.target # t
        BY <1>1, <1>3, <2>2, <3>2 DEF Informed, SeenThen, TaskView
      <3> QED
        BY <3>1, <3>2
    <2>3. CASE \/ /\ r.kind \in {"accept_deliverable", "waive_deliverable"}
                  /\ r.target \in Deliverables
                  /\ SeenThen(r, deliverable[r.target].version, DeliverableView(r.target))
               \/ r.kind = "complete_node" /\ SeenThen(r, node.version, NodeView)
      BY <1>3, <2>3 DEF Informed, SeenThen, deliverables, DeliverableView, NodeView
    <2> QED
      BY <2>1, <2>2, <2>3 DEF Informed
  <1>7. CountedExists'
    BY <1>1, <1>2, <1>3 DEF Inv, WorkInv, CountedExists, ExistingTasks, ExistingDeliverables,
       Exec, deliverables
  <1>8. CompletionHolds'
    <2> SUFFICES ASSUME node.status = "completed"
                 PROVE  /\ \A u \in Tasks \cap counted : TaskIsDone(u)'
                        /\ \A x \in Deliverables \cap counted : DeliverableIsDone(x)'
      BY <1>3 DEF CompletionHolds
    <2>1. ASSUME NEW u \in Tasks \cap counted
          PROVE  TaskIsDone(u)'
      <3>1. TaskIsDone(u)
        BY DEF Inv, WorkInv, CompletionHolds
      <3>2. u # t
        BY <3>1, DoneIsCompleted DEF Inv, WorkInv
      <3> QED
        BY <1>1, <1>3, <3>1, <3>2 DEF TaskIsDone, Exec
    <2>2. ASSUME NEW x \in Deliverables \cap counted
          PROVE  DeliverableIsDone(x)'
      BY <1>3 DEF Inv, WorkInv, CompletionHolds, DeliverableIsDone, deliverables
    <2> QED
      BY <2>1, <2>2
  <1> QED
    BY <1>4, <1>5, <1>6, <1>7, <1>8 DEF WorkInv, SentInformed

-----------------------------------------------------------------------------
(* The commands on tasks.                                                  *)

(* Whoever a command names as reviewer or assignee is a principal.         *)
LEMMA ResolvedIsPrincipal ==
  ASSUME Inv, NEW asked \in SomeoneOrNone, NEW reviewer \in SomeoneOrNone, NEW slot \in BOOLEAN,
         ResolvedReviewer(asked, slot, reviewer)
  PROVE  reviewer \in Principals
  <1>1. node.leader \in SomeoneOrNone
    BY DEF Inv, NodeInv, NodeType
  <1> QED
    BY <1>1, WorkAssumption DEF ResolvedReviewer, SlotCandidates, SomeoneOrNone

(* A task that comes into being.                                           *)
LEMMA CreateKeeps ==
  ASSUME Inv, NEW p \in Principals, NEW t \in Tasks, NEW assignee \in SomeoneOrNone,
         CreateTask(p, t, assignee)
  PROVE  WorkInv'
  <1>1. task[t].exec = "absent" /\ task[t] \in TaskType /\ sent' = sent
    BY DEF CreateTask, Exec, Inv, WorkInv, TasksFit
  <1>2. ASSUME NEW new \in TaskType, new.exec = "todo", new.reviews = <<>>, new.version = 0,
               \/ new.review = "not_required"
               \/ new.review = "not_submitted" /\ new.reviewer \in Principals,
               SaveTask(t, new)
        PROVE  WorkInv'
    <2>1. RowFits(new)
      BY <1>2, NewRowFits
    <2>2. SaveTask(t, [new EXCEPT !.version = task[t].version])
      BY <1>2 DEF SaveTask, TaskType
    <2>3. RowFits([new EXCEPT !.version = task[t].version])
      BY <1>1, <2>1, VersionFits DEF TaskType
    <2> QED
      BY <1>1, <1>2, <2>2, <2>3, SavedTask DEF TaskType, Exec
  <1>3. /\ NoTask \in TaskType /\ NoTask.review = "not_required" /\ NoTask.reviews = <<>>
        /\ NoTask.version = 0
    <2>1. <<>> \in Seq(ReviewType)
      OBVIOUS
    <2> QED
      BY <2>1 DEF NoTask, TaskType, SomeoneOrNone
  <1>4. CASE SaveTask(t, [NoTask EXCEPT !.exec = "todo", !.assignee = assignee])
    <2> DEFINE new == [NoTask EXCEPT !.exec = "todo", !.assignee = assignee]
    <2>1. /\ new \in TaskType /\ new.exec = "todo" /\ new.reviews = <<>> /\ new.version = 0
          /\ new.review = "not_required"
      BY <1>3 DEF TaskType
    <2> HIDE DEF new
    <2>2. SaveTask(t, new)
      BY <1>4 DEF new
    <2> QED
      BY <1>2, <2>1, <2>2
  <1>5. ASSUME NEW asked \in SomeoneOrNone, NEW reviewer \in SomeoneOrNone, NEW slot \in BOOLEAN,
               ResolvedReviewer(asked, slot, reviewer),
               SaveTask(t, [NoTask EXCEPT !.exec = "todo", !.assignee = assignee,
                                          !.review = "not_submitted", !.reviewer = reviewer])
        PROVE  WorkInv'
    <2> DEFINE new == [NoTask EXCEPT !.exec = "todo", !.assignee = assignee,
                                     !.review = "not_submitted", !.reviewer = reviewer]
    <2>1. /\ new \in TaskType /\ new.exec = "todo" /\ new.reviews = <<>> /\ new.version = 0
          /\ new.review = "not_submitted" /\ new.reviewer = reviewer
      BY <1>3 DEF TaskType
    <2>2. reviewer \in Principals
      BY <1>5, ResolvedIsPrincipal
    <2> HIDE DEF new
    <2>3. SaveTask(t, new)
      BY <1>5 DEF new
    <2> QED
      BY <1>2, <2>1, <2>2, <2>3
  <1> QED
    BY <1>4, <1>5 DEF CreateTask

LEMMA StartKeeps ==
  ASSUME Inv, NEW p \in Principals, NEW t \in Tasks, StartTask(p, t)
  PROVE  WorkInv'
  <1> DEFINE new == [task[t] EXCEPT !.exec = "in_progress"]
  <1>1. RowFits(task[t]) /\ task[t] \in TaskType /\ task[t].exec = "todo"
    BY DEF StartTask, Exec, Inv, WorkInv, TasksFit
  <1>2. RowFits(new) /\ new.version = task[t].version /\ new.exec = "in_progress"
    BY <1>1, StartFits DEF TaskType
  <1>3. SaveTask(t, new) /\ sent' = sent
    BY DEF StartTask
  <1> HIDE DEF new
  <1> QED
    BY <1>1, <1>2, <1>3, SavedTask DEF Exec

LEMMA CompleteKeeps ==
  ASSUME Inv, NEW p \in Principals, NEW t \in Tasks, CompleteTask(p, t)
  PROVE  WorkInv'
  <1> DEFINE new == [task[t] EXCEPT !.exec = "completed"]
  <1>1. /\ RowFits(task[t]) /\ task[t] \in TaskType /\ task[t].exec = "in_progress"
        /\ task[t].review = "not_required"
    BY DEF CompleteTask, Exec, Inv, WorkInv, TasksFit
  <1>2. RowFits(new) /\ new.version = task[t].version /\ new.exec = "completed"
    BY <1>1, CompletionFits DEF TaskType
  <1>3. SaveTask(t, new) /\ sent' = sent
    BY DEF CompleteTask
  <1> HIDE DEF new
  <1> QED
    BY <1>1, <1>2, <1>3, SavedTask DEF Exec

LEMMA SubmitKeeps ==
  ASSUME Inv, NEW p \in Principals, NEW t \in Tasks, SubmitTask(p, t)
  PROVE  WorkInv'
  <1> DEFINE row == task[t]
             cycle == (IF row.reviews = <<>> THEN 0 ELSE Last(row).cycle) + 1
             e == [cycle |-> cycle, action |-> "submitted", actor |-> row.assignee,
                   reviewer |-> row.reviewer]
             new == [row EXCEPT !.review = "pending", !.reviews = Append(row.reviews, e)]
  <1>1. /\ RowFits(row) /\ row \in TaskType /\ row.exec = "in_progress"
        /\ row.review \in {"not_submitted", "rejected", "withdrawn"}
        /\ p = row.assignee
    BY DEF SubmitTask, MayContribute, Exec, Inv, WorkInv, TasksFit
  <1>2. RowFits(new)
    BY <1>1, SubmissionFits
  <1>3. new.version = row.version /\ new.exec = "in_progress"
    BY <1>1 DEF TaskType
  <1>4. SaveTask(t, new) /\ sent' = sent
    BY <1>1 DEF SubmitTask, Record, NextCycle, LastCycle, Last
  <1> HIDE DEF new
  <1> QED
    BY <1>1, <1>2, <1>3, <1>4, SavedTask DEF Exec

LEMMA EndKeeps ==
  ASSUME Inv, NEW p \in Principals, NEW t \in Tasks,
         NEW action \in {"accepted", "rejected", "withdrawn"},
         action = "withdrawn" => p = task[t].assignee,
         EndReview(p, t, action), sent' \subseteq sent
  PROVE  WorkInv'
  <1> DEFINE row == task[t]
             e == [cycle |-> Last(row).cycle, action |-> action, actor |-> p,
                   reviewer |-> Last(row).reviewer]
             new == [row EXCEPT !.exec = IF action = "accepted" THEN "completed" ELSE @,
                                !.review = action, !.reviews = Append(row.reviews, e)]
  <1>1. /\ RowFits(row) /\ row \in TaskType /\ row.exec = "in_progress"
        /\ row.review = "pending"
    BY DEF EndReview, Exec, Inv, WorkInv, TasksFit
  <1>2. RowFits(new)
    BY <1>1, EndFits
  <1>3. new.version = row.version /\ new.exec # "absent"
    BY <1>1 DEF TaskType
  <1>4. SaveTask(t, new)
    BY <1>1 DEF EndReview, Record, Last
  <1> HIDE DEF new
  <1> QED
    BY <1>1, <1>2, <1>3, <1>4, SavedTask DEF Exec

LEMMA AssignmentKeeps ==
  ASSUME Inv, NEW p \in Principals, NEW t \in Tasks, NEW q \in Principals,
         AssignReviewer(p, t, q) \/ AssignAssignee(p, t, q)
  PROVE  WorkInv'
  <1>1. /\ RowFits(task[t]) /\ task[t] \in TaskType /\ task[t].exec \in {"todo", "in_progress"}
        /\ task[t].review # "pending" /\ sent' = sent
    BY DEF AssignReviewer, AssignAssignee, IsAssignable, IsMutable, Exec, Inv, WorkInv, TasksFit
  <1>2. CASE AssignReviewer(p, t, q)
    <2> DEFINE new == [task[t] EXCEPT !.reviewer = q]
    <2>1. RowFits(new) /\ new.version = task[t].version /\ new.exec = task[t].exec
      BY <1>1, ReviewerFits DEF TaskType
    <2>2. SaveTask(t, new)
      BY <1>2 DEF AssignReviewer
    <2> HIDE DEF new
    <2> QED
      BY <1>1, <2>1, <2>2, SavedTask DEF Exec
  <1>3. CASE AssignAssignee(p, t, q)
    <2> DEFINE new == [task[t] EXCEPT !.assignee = q]
    <2>1. RowFits(new) /\ new.version = task[t].version /\ new.exec = task[t].exec
      BY <1>1, AssigneeFits DEF TaskType
    <2>2. SaveTask(t, new)
      BY <1>3 DEF AssignAssignee
    <2> HIDE DEF new
    <2> QED
      BY <1>1, <2>1, <2>2, SavedTask DEF Exec
  <1> QED
    BY <1>2, <1>3

-----------------------------------------------------------------------------
(* The commands on deliverables.                                           *)

(* Saving a deliverable that has not ended, required or not as before.     *)
LEMMA SavedDeliverable ==
  ASSUME Inv, NEW p \in Principals, NEW x \in Deliverables, NEW action \in DeliverableActions,
         NEW new \in DeliverableType, new.status # "absent",
         deliverable[x].status \notin {"accepted", "waived"},
         deliverable[x].status = "absent" \/ new.required = deliverable[x].required,
         SaveDeliverable(p, x, action, new), sent' \subseteq sent
  PROVE  WorkInv'
  <1> DEFINE row == deliverable[x]
             taken == [action |-> action, actor |-> p,
                       evidence |-> IF action = "submitted" THEN new.evidence ELSE {}]
             saved == [new EXCEPT !.version = row.version + 1,
                                  !.actions = Append(row.actions, taken)]
  <1>1. deliverable \in [Deliverables -> DeliverableType] /\ row \in DeliverableType
    BY DEF Inv, WorkInv, DeliverablesTyped
  <1>2. taken \in ActionType
    BY DEF ActionType, DeliverableType
  <1>3. Append(row.actions, taken) \in Seq(ActionType) /\ row.version \in Nat
    BY <1>1, <1>2 DEF DeliverableType
  <1>4. /\ saved \in DeliverableType /\ saved.version = row.version + 1
        /\ saved.status = new.status /\ saved.required = new.required
    <2> DEFINE actions == Append(row.actions, taken)
               v == row.version + 1
    <2>1. actions \in Seq(ActionType) /\ v \in Nat
      BY <1>3
    <2> HIDE DEF actions, v
    <2>2. [new EXCEPT !.version = v, !.actions = actions] \in DeliverableType
      BY <2>1 DEF DeliverableType
    <2>3. saved = [new EXCEPT !.version = v, !.actions = actions]
      BY DEF actions, v
    <2>4. saved.version = v /\ saved.status = new.status /\ saved.required = new.required
      BY <2>3 DEF DeliverableType
    <2> QED
      BY <2>2, <2>3, <2>4 DEF v
  <1>5. /\ deliverable' = [deliverable EXCEPT ![x] = saved]
        /\ events' = events \cup {[target |-> x, event |-> taken, version |-> saved.version,
                                   domain |-> node.domain]}
        /\ receipts' = receipts \cup {[operation |-> action, actor |-> p, target |-> x,
                                       expected |-> row.version, result |-> saved]}
        /\ UNCHANGED <<access, node, task, stored, counted>>
    BY DEF SaveDeliverable, StoreDeliverable
  <1> HIDE DEF taken, saved
  <1>6. TasksFit'
    BY <1>5 DEF Inv, WorkInv, TasksFit
  <1>7. DeliverablesTyped'
    <2>1. [target |-> x, event |-> taken, version |-> saved.version, domain |-> node.domain]
            \in EventType
      <3>1. node.domain \in Domains \cup {NoDomain}
        BY DEF Inv, NodeInv, NodeType
      <3> QED
        BY <1>2, <1>3, <1>4, <3>1 DEF EventType
    <2>2. [operation |-> action, actor |-> p, target |-> x, expected |-> row.version,
           result |-> saved] \in ReceiptType
      BY <1>3, <1>4 DEF ReceiptType
    <2> QED
      BY <1>1, <1>4, <1>5, <2>1, <2>2 DEF Inv, WorkInv, DeliverablesTyped
  <1>8. ASSUME NEW r \in sent'
        PROVE  Informed(r)'
    <2>1. r \in sent /\ Informed(r)
      BY <1>8 DEF Inv, WorkInv, SentInformed
    <2>2. CASE /\ r.kind \in {"accept_deliverable", "waive_deliverable"}
               /\ r.target \in Deliverables
               /\ SeenThen(r, deliverable[r.target].version, DeliverableView(r.target))
      <3>1. CASE r.target = x
        BY <1>1, <1>3, <1>4, <1>5, <2>2, <3>1 DEF Informed, SeenThen
      <3>2. CASE r.target # x
        BY <1>1, <1>5, <2>2, <3>2 DEF Informed, SeenThen, DeliverableView
      <3> QED
        BY <3>1, <3>2
    <2>3. CASE \/ /\ r.kind \in {"accept_task", "reject_task"} /\ r.target \in Tasks
                  /\ SeenThen(r, task[r.target].version, TaskView(r.target))
               \/ r.kind = "complete_node" /\ SeenThen(r, node.version, NodeView)
      BY <1>5, <2>3 DEF Informed, SeenThen, TaskView, NodeView
    <2> QED
      BY <2>1, <2>2, <2>3 DEF Informed
  <1>9. CountedExists'
    BY <1>1, <1>4, <1>5 DEF Inv, WorkInv, CountedExists, ExistingTasks, ExistingDeliverables, Exec
  <1>10. CompletionHolds'
    <2> SUFFICES ASSUME node.status = "completed"
                 PROVE  /\ \A t \in Tasks \cap counted : TaskIsDone(t)'
                        /\ \A y \in Deliverables \cap counted : DeliverableIsDone(y)'
      BY <1>5 DEF CompletionHolds
    <2>1. ASSUME NEW t \in Tasks \cap counted
          PROVE  TaskIsDone(t)'
      BY <1>5 DEF Inv, WorkInv, CompletionHolds, TaskIsDone, Exec
    <2>2. ASSUME NEW y \in Deliverables \cap counted
          PROVE  DeliverableIsDone(y)'
      <3>1. DeliverableIsDone(y)
        BY DEF Inv, WorkInv, CompletionHolds
      <3>2. y \in ExistingDeliverables
        BY WorkAssumption DEF Inv, WorkInv, CountedExists, ExistingTasks
      <3>3. CASE y = x
        <4>1. ~deliverable[x].required /\ deliverable[x].status # "absent"
          BY <3>1, <3>2, <3>3 DEF DeliverableIsDone, ExistingDeliverables
        <4> QED
          BY <1>1, <1>4, <1>5, <3>3, <4>1 DEF DeliverableIsDone
      <3>4. CASE y # x
        BY <1>1, <1>5, <3>1, <3>4 DEF DeliverableIsDone
      <3> QED
        BY <3>3, <3>4
    <2> QED
      BY <2>1, <2>2
  <1> QED
    BY <1>6, <1>7, <1>8, <1>9, <1>10 DEF WorkInv, SentInformed

LEMMA InitializeKeeps ==
  ASSUME Inv, NEW p \in Principals, NEW x \in Deliverables, NEW required \in BOOLEAN,
         NEW reviewer \in Principals, InitializeDeliverable(p, x, required, reviewer)
  PROVE  WorkInv'
  <1> DEFINE new == [NoDeliverable EXCEPT !.status = "pending", !.required = required,
                                          !.reviewer = reviewer]
  <1>1. NoDeliverable \in DeliverableType
    <2>1. <<>> \in Seq(ActionType)
      OBVIOUS
    <2> QED
      BY <2>1 DEF NoDeliverable, DeliverableType, SomeoneOrNone
  <1>2. new \in DeliverableType /\ new.status = "pending"
    BY <1>1 DEF DeliverableType, SomeoneOrNone
  <1>3. /\ SaveDeliverable(p, x, "initialized", new) /\ sent' = sent
        /\ deliverable[x].status = "absent"
    BY DEF InitializeDeliverable
  <1> HIDE DEF new
  <1> QED
    BY <1>2, <1>3, SavedDeliverable DEF DeliverableActions

LEMMA SubmitEvidenceKeeps ==
  ASSUME Inv, NEW p \in Principals, NEW x \in Deliverables, NEW evidence \in SUBSET stored,
         SubmitDeliverable(p, x, evidence)
  PROVE  WorkInv'
  <1> DEFINE new == [deliverable[x] EXCEPT !.status = "submitted", !.evidence = evidence]
  <1>1. deliverable[x] \in DeliverableType /\ evidence \in SUBSET Assets
    BY DEF Inv, WorkInv, DeliverablesTyped
  <1>2. /\ new \in DeliverableType /\ new.status = "submitted"
        /\ new.required = deliverable[x].required
    BY <1>1 DEF DeliverableType
  <1>3. /\ SaveDeliverable(p, x, "submitted", new) /\ sent' = sent
        /\ deliverable[x].status = "pending"
    BY DEF SubmitDeliverable, AwaitsEvidence
  <1> HIDE DEF new
  <1> QED
    BY <1>2, <1>3, SavedDeliverable DEF DeliverableActions

LEMMA EndDeliverableKeeps ==
  ASSUME Inv, NEW p \in Principals, NEW x \in Deliverables, NEW action \in {"accepted", "waived"},
         deliverable[x].status \in {"pending", "submitted"},
         SaveDeliverable(p, x, action,
             [deliverable[x] EXCEPT !.status = action, !.endedBy = p]), sent' \subseteq sent
  PROVE  WorkInv'
  <1> DEFINE new == [deliverable[x] EXCEPT !.status = action, !.endedBy = p]
  <1>1. deliverable[x] \in DeliverableType
    BY DEF Inv, WorkInv, DeliverablesTyped
  <1>2. /\ new \in DeliverableType /\ new.status = action
        /\ new.required = deliverable[x].required
    BY <1>1 DEF DeliverableType, SomeoneOrNone
  <1>3. SaveDeliverable(p, x, action, new)
    OBVIOUS
  <1> HIDE DEF new
  <1> QED
    BY <1>2, <1>3, SavedDeliverable DEF DeliverableActions

-----------------------------------------------------------------------------
(* The other steps.                                                        *)

(* Steps that change neither tasks nor deliverables, and the node not      *)
(* beyond what its completion or its version says.                         *)
LEMMA OtherKeeps ==
  ASSUME Inv, UNCHANGED <<task, deliverables>>, stored' \subseteq Assets,
         \A r \in sent' : Informed(r)',
         \/ UNCHANGED counted /\ node'.status = node.status
         \/ counted' = ExistingTasks \cup ExistingDeliverables /\ AllWorkIsDone
  PROVE  WorkInv'
  <1>1. TasksFit' /\ DeliverablesTyped'
    BY DEF Inv, WorkInv, TasksFit, DeliverablesTyped, deliverables
  <1>2. /\ ExistingTasks' = ExistingTasks /\ ExistingDeliverables' = ExistingDeliverables
        /\ \A t : TaskIsDone(t)' <=> TaskIsDone(t)
        /\ \A x : DeliverableIsDone(x)' <=> DeliverableIsDone(x)
    BY DEF ExistingTasks, ExistingDeliverables, Exec, TaskIsDone, DeliverableIsDone, deliverables
  <1>3. CASE UNCHANGED counted /\ node'.status = node.status
    BY <1>1, <1>2, <1>3 DEF Inv, WorkInv, SentInformed, CountedExists, CompletionHolds
  <1>4. CASE counted' = ExistingTasks \cup ExistingDeliverables /\ AllWorkIsDone
    <2>1. /\ \A t \in Tasks \cap counted' : TaskIsDone(t)
          /\ \A x \in Deliverables \cap counted' : DeliverableIsDone(x)
      BY <1>4, WorkAssumption DEF AllWorkIsDone, ExistingTasks, ExistingDeliverables
    <2> QED
      BY <1>1, <1>2, <1>4, <2>1 DEF WorkInv, SentInformed, CountedExists, CompletionHolds
  <1> QED
    BY <1>3, <1>4

LEMMA ComposingKeeps ==
  ASSUME Inv, Composing
  PROVE  WorkInv'
  <1>1. /\ task \in [Tasks -> TaskType] /\ deliverable \in [Deliverables -> DeliverableType]
        /\ node \in NodeType /\ stored \subseteq Assets
    BY DEF Inv, NodeInv, WorkInv, TasksFit, DeliverablesTyped
  <1>2. ASSUME NEW kind, NEW actor, NEW target, NEW expected, NEW seen,
               Compose(kind, actor, target, expected, seen),
               NEW r, r = [kind |-> kind, actor |-> actor, target |-> target,
                           expected |-> expected, seen |-> seen],
               Informed(r)
        PROVE  WorkInv'
    <2>1. UNCHANGED <<work, stored, counted>> /\ sent' = sent \cup {r}
      BY <1>2 DEF Compose
    <2>2. \A q \in sent \cup {r} : Informed(q)' <=> Informed(q)
      BY <2>1 DEF work, deliverables, Informed, SeenThen, TaskView, DeliverableView, NodeView
    <2> QED
      BY <1>1, <1>2, <2>1, <2>2, OtherKeeps DEF work, Inv, WorkInv, SentInformed
  <1>3. ASSUME NEW p \in Principals, NEW t \in Tasks, NEW kind \in {"accept_task", "reject_task"},
               ComposeForTask(kind, p, t)
        PROVE  WorkInv'
    <2> DEFINE r == [kind |-> kind, actor |-> p, target |-> t,
                     expected |-> task[t].version, seen |-> TaskView(t)]
    <2>1. task[t].version \in Nat
      BY <1>1 DEF TaskType
    <2>2. Informed(r)
      BY <2>1 DEF Informed, SeenThen
    <2> QED
      BY <1>2, <1>3, <2>2 DEF ComposeForTask
  <1>4. ASSUME NEW p \in Principals, NEW x \in Deliverables,
               NEW kind \in {"accept_deliverable", "waive_deliverable"},
               ComposeForDeliverable(kind, p, x)
        PROVE  WorkInv'
    <2> DEFINE r == [kind |-> kind, actor |-> p, target |-> x,
                     expected |-> deliverable[x].version, seen |-> DeliverableView(x)]
    <2>1. deliverable[x].version \in Nat
      BY <1>1 DEF DeliverableType
    <2>2. Informed(r)
      BY <2>1 DEF Informed, SeenThen
    <2> QED
      BY <1>2, <1>4, <2>2 DEF ComposeForDeliverable
  <1>5. ASSUME NEW p \in Principals, ComposeCompletion(p)
        PROVE  WorkInv'
    <2> DEFINE r == [kind |-> "complete_node", actor |-> p, target |-> NoOne,
                     expected |-> node.version, seen |-> NodeView]
    <2>1. node.version \in Nat
      BY <1>1 DEF NodeType
    <2>2. Informed(r)
      BY <2>1 DEF Informed, SeenThen
    <2> QED
      BY <1>2, <1>5, <2>2 DEF ComposeCompletion
  <1> QED
    BY <1>3, <1>4, <1>5 DEF Composing

(* What was composed before the node was saved is out of date from then on. *)
LEMMA SavedNodeKeeps ==
  ASSUME Inv, NEW new \in NodeType, new.version = node.version, SaveNode(new),
         UNCHANGED <<task, deliverables>>, sent' \subseteq sent
  PROVE  \A r \in sent' : Informed(r)'
  <1>1. node'.version = node.version + 1 /\ node.version \in Nat
    BY DEF SaveNode, NodeType
  <1> TAKE r \in sent'
  <1>2. Informed(r)
    BY DEF Inv, WorkInv, SentInformed
  <1>3. CASE r.kind = "complete_node" /\ SeenThen(r, node.version, NodeView)
    BY <1>1, <1>3 DEF Informed, SeenThen
  <1>4. CASE \/ /\ r.kind \in {"accept_task", "reject_task"} /\ r.target \in Tasks
                /\ SeenThen(r, task[r.target].version, TaskView(r.target))
             \/ /\ r.kind \in {"accept_deliverable", "waive_deliverable"}
                /\ r.target \in Deliverables
                /\ SeenThen(r, deliverable[r.target].version, DeliverableView(r.target))
    BY <1>4 DEF Informed, SeenThen, deliverables, TaskView, DeliverableView
  <1> QED
    BY <1>2, <1>3, <1>4 DEF Informed

LEMMA JudgingKeeps ==
  ASSUME Inv, NEW r \in sent,
         \/ AcceptTask(r) \/ RejectTask(r)
         \/ AcceptDeliverable(r) \/ WaiveDeliverable(r) \/ CompleteNode(r)
  PROVE  WorkInv'
  <1>1. Informed(r) /\ r.actor \in Principals
    BY DEF Inv, WorkInv, SentInformed, Informed, SeenThen
  <1>2. sent' \subseteq sent
    BY DEF AcceptTask, RejectTask, AcceptDeliverable, WaiveDeliverable, CompleteNode
  <1>3. CASE AcceptTask(r) \/ RejectTask(r)
    <2>1. r.target \in Tasks
      BY <1>1, <1>3 DEF AcceptTask, RejectTask, Informed
    <2> QED
      BY <1>1, <1>2, <1>3, <2>1, EndKeeps DEF AcceptTask, RejectTask
  <1>4. CASE AcceptDeliverable(r) \/ WaiveDeliverable(r)
    <2>1. r.target \in Deliverables
      BY <1>1, <1>4 DEF AcceptDeliverable, WaiveDeliverable, Informed
    <2>2. deliverable[r.target].status \in {"pending", "submitted"}
      <3>1. deliverable[r.target] \in DeliverableType
        BY <2>1 DEF Inv, WorkInv, DeliverablesTyped
      <3> QED
        BY <1>4, <3>1 DEF AcceptDeliverable, WaiveDeliverable, IsOpen, DeliverableType
    <2> QED
      BY <1>1, <1>2, <1>4, <2>1, <2>2, EndDeliverableKeeps DEF AcceptDeliverable, WaiveDeliverable
  <1>5. CASE CompleteNode(r)
    <2> DEFINE new == [node EXCEPT !.status = "completed"]
    <2>1. new \in NodeType /\ new.version = node.version
      BY DEF Inv, NodeInv, NodeType
    <2>2. /\ SaveNode(new) /\ AllWorkIsDone /\ UNCHANGED <<task, deliverables, stored>>
          /\ counted' = ExistingTasks \cup ExistingDeliverables
      BY <1>5 DEF CompleteNode
    <2>3. stored' \subseteq Assets
      BY <2>2 DEF Inv, WorkInv, DeliverablesTyped
    <2> HIDE DEF new
    <2> QED
      BY <1>2, <2>1, <2>2, <2>3, SavedNodeKeeps, OtherKeeps
  <1> QED
    BY <1>3, <1>4, <1>5

LEMMA WorkingKeeps ==
  ASSUME Inv, Working
  PROVE  WorkInv'
  <1>1. ASSUME NEW p \in Principals, NEW t \in Tasks, WithdrawTask(p, t)
        PROVE  WorkInv'
    BY <1>1, EndKeeps DEF WithdrawTask, MayContribute
  <1>2. ASSUME NEW a \in Assets, StoreAsset(a)
        PROVE  WorkInv'
    <2>1. \A r \in sent' : Informed(r)'
      BY <1>2 DEF Inv, WorkInv, SentInformed, StoreAsset, work, deliverables, Informed, SeenThen,
         TaskView, DeliverableView, NodeView
    <2>2. stored' \subseteq Assets
      BY <1>2 DEF Inv, WorkInv, DeliverablesTyped, StoreAsset
    <2> QED
      BY <1>2, <2>1, <2>2, OtherKeeps DEF StoreAsset, work
  <1> QED
    BY <1>1, <1>2, CreateKeeps, StartKeeps, CompleteKeeps, SubmitKeeps, AssignmentKeeps,
       InitializeKeeps, SubmitEvidenceKeeps DEF Working

(* A migration gives everything a new version and a new domain.            *)
LEMMA MigrationKeeps ==
  ASSUME Inv, NEW d \in Domains \cup {NoDomain}, Migrate(d)
  PROVE  WorkInv'
  <1>1. /\ task \in [Tasks -> TaskType] /\ \A t \in Tasks : RowFits(task[t])
        /\ deliverable \in [Deliverables -> DeliverableType] /\ node \in NodeType
    BY DEF Inv, NodeInv, WorkInv, TasksFit, DeliverablesTyped
  <1>2. /\ task' = [t \in Tasks |-> MovedTask(t)]
        /\ deliverable' = [x \in Deliverables |-> MovedDeliverable(x)]
        /\ UNCHANGED <<events, receipts, stored, sent, counted>>
        /\ SaveNode([node EXCEPT !.domain = d])
    BY DEF Migrate
  <1>3. ASSUME NEW t \in Tasks
        PROVE  /\ RowFits(task'[t])
               /\ task'[t].version \in Nat /\ task'[t].version >= task[t].version
               /\ TaskView(t)' = TaskView(t)
               /\ task'[t].exec = task[t].exec /\ task'[t].review = task[t].review
    <2>1. task'[t] = MovedTask(t) /\ task[t] \in TaskType
      BY <1>1, <1>2
    <2>2. CASE Exec(t) = "absent"
      BY <1>1, <2>1, <2>2 DEF MovedTask, TaskView, TaskType
    <2>3. CASE Exec(t) # "absent"
      <3> DEFINE v == task[t].version + 1
      <3>1. v \in Nat /\ v >= task[t].version
        BY <2>1 DEF TaskType
      <3>2. task'[t] = [task[t] EXCEPT !.version = v]
        BY <2>1, <2>3 DEF MovedTask
      <3> HIDE DEF v
      <3>3. RowFits(task'[t])
        BY <1>1, <3>1, <3>2, VersionFits
      <3>4. [task'[t] EXCEPT !.version = 0] = [task[t] EXCEPT !.version = 0]
        BY <2>1, <3>2 DEF TaskType
      <3> QED
        BY <2>1, <3>1, <3>2, <3>3, <3>4 DEF TaskView, TaskType
    <2> QED
      BY <2>2, <2>3
  <1>4. ASSUME NEW x \in Deliverables
        PROVE  /\ deliverable'[x] \in DeliverableType
               /\ deliverable'[x].version >= deliverable[x].version
               /\ DeliverableView(x)' = DeliverableView(x)
               /\ deliverable'[x].status = deliverable[x].status
               /\ deliverable'[x].required = deliverable[x].required
    <2>1. deliverable'[x] = MovedDeliverable(x) /\ deliverable[x] \in DeliverableType
      BY <1>1, <1>2
    <2>2. CASE deliverable[x].status = "absent"
      BY <2>1, <2>2 DEF MovedDeliverable, DeliverableView, DeliverableType
    <2>3. CASE deliverable[x].status # "absent"
      <3> DEFINE v == deliverable[x].version + 1
      <3>1. v \in Nat /\ v >= deliverable[x].version
        BY <2>1 DEF DeliverableType
      <3>2. deliverable'[x] = [deliverable[x] EXCEPT !.version = v]
        BY <2>1, <2>3 DEF MovedDeliverable
      <3> HIDE DEF v
      <3>3. [deliverable'[x] EXCEPT !.version = 0] = [deliverable[x] EXCEPT !.version = 0]
        BY <2>1, <3>2 DEF DeliverableType
      <3> QED
        BY <2>1, <3>1, <3>2, <3>3 DEF DeliverableView, DeliverableType
    <2> QED
      BY <2>2, <2>3
  <1>5. TasksFit' /\ DeliverablesTyped'
    BY <1>2, <1>3, <1>4 DEF Inv, WorkInv, TasksFit, DeliverablesTyped, RowFits
  <1>6. ASSUME NEW r \in sent'
        PROVE  Informed(r)'
    <2>1. Informed(r)
      BY <1>2 DEF Inv, WorkInv, SentInformed
    <2>2. CASE /\ r.kind \in {"accept_task", "reject_task"} /\ r.target \in Tasks
               /\ SeenThen(r, task[r.target].version, TaskView(r.target))
      <3>1. task[r.target].version \in Nat
        BY <1>1, <2>2 DEF TaskType
      <3> QED
        BY <1>3, <2>2, <3>1 DEF Informed, SeenThen
    <2>3. CASE /\ r.kind \in {"accept_deliverable", "waive_deliverable"}
               /\ r.target \in Deliverables
               /\ SeenThen(r, deliverable[r.target].version, DeliverableView(r.target))
      <3>1. deliverable[r.target].version \in Nat /\ deliverable'[r.target].version \in Nat
        BY <1>1, <1>4, <2>3 DEF DeliverableType
      <3> QED
        BY <1>4, <2>3, <3>1 DEF Informed, SeenThen
    <2>4. CASE r.kind = "complete_node" /\ SeenThen(r, node.version, NodeView)
      <3>1. node'.version = node.version + 1 /\ node.version \in Nat
        BY <1>1, <1>2 DEF SaveNode, NodeType
      <3> QED
        BY <2>4, <3>1 DEF Informed, SeenThen
    <2> QED
      BY <2>1, <2>2, <2>3, <2>4 DEF Informed
  <1>7. CountedExists'
    BY <1>2, <1>3, <1>4 DEF Inv, WorkInv, CountedExists, ExistingTasks, ExistingDeliverables, Exec
  <1>8. CompletionHolds'
    <2>1. node'.status = node.status
      BY <1>1, <1>2 DEF SaveNode, NodeType
    <2> QED
      BY <1>2, <1>3, <1>4, <2>1 DEF Inv, WorkInv, CompletionHolds, TaskIsDone, DeliverableIsDone,
         Exec
  <1> QED
    BY <1>5, <1>6, <1>7, <1>8 DEF WorkInv, SentInformed

LEMMA GoverningKeeps ==
  ASSUME Inv, Governing
  PROVE  WorkInv'
  <1>1. node \in NodeType /\ stored \subseteq Assets
    BY DEF Inv, NodeInv, WorkInv, DeliverablesTyped
  <1>2. ASSUME NEW new \in NodeType, new.version = node.version, new.status = node.status,
               SaveNode(new), UNCHANGED <<task, deliverables, stored, sent, counted>>
        PROVE  WorkInv'
    <2>1. node'.status = node.status
      BY <1>2 DEF SaveNode, NodeType
    <2> QED
      BY <1>1, <1>2, <2>1, SavedNodeKeeps, OtherKeeps
  <1>3. ASSUME NEW p \in Principals, NEW leader \in SomeoneOrNone, AssignLeader(p, leader)
        PROVE  WorkInv'
    <2> DEFINE new == [node EXCEPT !.leader = leader]
    <2>1. new \in NodeType /\ new.version = node.version /\ new.status = node.status
      BY <1>1 DEF NodeType
    <2>2. SaveNode(new) /\ UNCHANGED <<task, deliverables, stored, sent, counted>>
      BY <1>3 DEF AssignLeader
    <2> HIDE DEF new
    <2> QED
      BY <1>2, <2>1, <2>2
  <1>4. ASSUME NEW p \in Principals, NEW d \in Domains, MakeSensitive(p, d)
        PROVE  WorkInv'
    <2> DEFINE new == [node EXCEPT !.domain = d, !.root = d]
    <2>1. new \in NodeType /\ new.version = node.version /\ new.status = node.status
      BY <1>1 DEF NodeType
    <2>2. SaveNode(new) /\ UNCHANGED <<task, deliverables, stored, sent, counted>>
      BY <1>4 DEF MakeSensitive
    <2> HIDE DEF new
    <2> QED
      BY <1>2, <2>1, <2>2
  <1>5. ASSUME UNCHANGED <<work, stored, sent, counted>>
        PROVE  WorkInv'
    <2>1. \A r \in sent' : Informed(r)'
      BY <1>5 DEF Inv, WorkInv, SentInformed, work, deliverables, Informed, SeenThen,
         TaskView, DeliverableView, NodeView
    <2> QED
      BY <1>1, <1>5, <2>1, OtherKeeps DEF work
  <1> QED
    BY <1>3, <1>4, <1>5, MigrationKeeps DEF Governing, MakeOtherSensitive

-----------------------------------------------------------------------------
(* The invariant holds.                                                    *)

LEMMA InvInit == Init => Inv
  <1> SUFFICES ASSUME Init PROVE Inv
    OBVIOUS
  <1>1. NodeInv
    BY AccessInvInit, WorkAssumption DEF Init, NodeInv, NodeType, SomeoneOrNone
  <1>2. NoTask \in TaskType /\ NoTask.reviews = <<>> /\ NoTask.review = "not_required"
    <2>1. <<>> \in Seq(ReviewType)
      OBVIOUS
    <2> QED
      BY <2>1 DEF NoTask, TaskType, SomeoneOrNone
  <1>3. TasksFit
    BY <1>2, NewRowFits DEF Init, TasksFit
  <1>4. NoDeliverable \in DeliverableType
    <2>1. <<>> \in Seq(ActionType)
      OBVIOUS
    <2> QED
      BY <2>1 DEF NoDeliverable, DeliverableType, SomeoneOrNone
  <1>5. DeliverablesTyped
    BY <1>4 DEF Init, DeliverablesTyped
  <1> QED
    BY <1>1, <1>3, <1>5 DEF Init, Inv, WorkInv, SentInformed, CountedExists, CompletionHolds

LEMMA InvKept ==
  ASSUME Inv, [Next]_vars
  PROVE  Inv'
  <1>1. CASE Working
    BY <1>1, WorkKeepsAccess, WorkingKeeps DEF Inv
  <1>2. CASE Composing
    BY <1>2, WorkKeepsAccess, ComposingKeeps DEF Inv
  <1>3. CASE Judging
    BY <1>3, WorkKeepsAccess, JudgingKeeps DEF Inv, Judging
  <1>4. CASE \E r \in sent : Forget(r)
    <2>1. UNCHANGED <<work, stored, counted>> /\ sent' \subseteq sent
      BY <1>4 DEF Forget
    <2>2. \A r \in sent' : Informed(r)'
      BY <2>1 DEF Inv, WorkInv, SentInformed, work, deliverables, Informed, SeenThen,
         TaskView, DeliverableView, NodeView
    <2>3. WorkInv'
      BY <2>1, <2>2, OtherKeeps DEF Inv, WorkInv, DeliverablesTyped, work
    <2> QED
      BY <1>4, <2>3, WorkKeepsAccess DEF Inv
  <1>5. CASE Governing
    BY <1>5, GovernanceKeepsAccess, GoverningKeeps DEF Inv
  <1>6. CASE UNCHANGED vars
    <2>1. UNCHANGED <<access, work, stored, sent, counted>>
      BY <1>6 DEF vars
    <2>2. \A r \in sent' : Informed(r)'
      BY <2>1 DEF Inv, WorkInv, SentInformed, work, deliverables, Informed, SeenThen,
         TaskView, DeliverableView, NodeView
    <2>3. WorkInv'
      BY <2>1, <2>2, OtherKeeps DEF Inv, WorkInv, DeliverablesTyped, work
    <2>4. NodeInv'
      BY <2>1, KeptAccess DEF Inv, NodeInv, work
    <2> QED
      BY <2>3, <2>4 DEF Inv
  <1> QED
    BY <1>1, <1>2, <1>3, <1>4, <1>5, <1>6 DEF Next

LEMMA InvHolds == Spec => []Inv
  BY InvInit, InvKept, PTL DEF Spec

-----------------------------------------------------------------------------
(* What it shows.                                                          *)

(* Every variable of the node's work has its type.                         *)
THEOREM WorkIsTyped == Spec => []TypeOK
  <1>1. Inv => TypeOK
    BY DEF Inv, NodeInv, AccessInv, WorkInv, TasksFit, DeliverablesTyped, CountedExists,
       ExistingTasks, ExistingDeliverables, TypeOK
  <1> QED
    BY <1>1, InvHolds, PTL

(* The reviews of a task are whole cycles of a submission and one judgement *)
(* of it, and the task agrees with the last of them.                       *)
THEOREM ReviewsAreWholeCycles == Spec => []ReviewTrail
  <1>1. ASSUME Inv, NEW t \in ExistingTasks
        PROVE  RowFits(task[t])
    BY <1>1 DEF Inv, WorkInv, TasksFit, ExistingTasks
  <1>2. Inv => ReviewTrail
    BY <1>1 DEF ReviewTrail, RowFits, EntriesFit, EntryFits, StateFits, Last, Exec
  <1> QED
    BY <1>2, InvHolds, PTL

(* What the completion of the node counted as done stays done.             *)
THEOREM CompletionsHold == Spec => []CompletionHolds
  <1>1. Inv => CompletionHolds
    BY DEF Inv, WorkInv
  <1> QED
    BY <1>1, InvHolds, PTL

(* Whoever judges a submission, waives a requirement or completes the node *)
(* acts on what he saw.                                                    *)
THEOREM DecisionsAreInformed == Spec => DecidedAsSeen
  <1> DEFINE Decided == \A r \in sent \ sent' :
                 \/ task' # task /\ r.seen = TaskView(r.target)
                 \/ deliverable' # deliverable /\ r.seen = DeliverableView(r.target)
                 \/ node' # node /\ r.seen = NodeView
                 \/ UNCHANGED work
  <1>1. ASSUME Inv, Next PROVE Decided
    <2> SUFFICES ASSUME NEW r \in sent, r \notin sent'
                 PROVE  \/ task' # task /\ r.seen = TaskView(r.target)
                        \/ deliverable' # deliverable /\ r.seen = DeliverableView(r.target)
                        \/ node' # node /\ r.seen = NodeView
                        \/ UNCHANGED work
      OBVIOUS
    <2>1. Informed(r)
      BY <1>1 DEF Inv, WorkInv, SentInformed
    <2>2. \/ AcceptTask(r) \/ RejectTask(r) \/ AcceptDeliverable(r) \/ WaiveDeliverable(r)
          \/ CompleteNode(r) \/ Forget(r)
      <3>1. ~Working
        BY DEF Working, CreateTask, StartTask, CompleteTask, SubmitTask, WithdrawTask,
           AssignReviewer, AssignAssignee, InitializeDeliverable, SubmitDeliverable, StoreAsset
      <3>2. ~Composing
        BY DEF Composing, ComposeForTask, ComposeForDeliverable, ComposeCompletion, Compose
      <3>3. ~Governing
        BY DEF Governing, AssignLeader, MakeSensitive, MakeOtherSensitive, Migrate
      <3>4. ASSUME NEW q \in sent,
                   \/ AcceptTask(q) \/ RejectTask(q) \/ AcceptDeliverable(q)
                   \/ WaiveDeliverable(q) \/ CompleteNode(q) \/ Forget(q)
            PROVE  q = r
        BY <3>4 DEF AcceptTask, RejectTask, AcceptDeliverable, WaiveDeliverable, CompleteNode, Forget
      <3> QED
        BY <1>1, <3>1, <3>2, <3>3, <3>4 DEF Next, Judging
    <2>3. CASE AcceptTask(r) \/ RejectTask(r)
      <3>1. r.target \in Tasks /\ r.seen = TaskView(r.target)
        BY <2>1, <2>3 DEF AcceptTask, RejectTask, Informed, IsCurrent, SeenThen
      <3>2. task'[r.target].version # task[r.target].version
        <4>1. task[r.target].version \in Nat /\ task \in [Tasks -> TaskType]
          BY <1>1, <3>1 DEF Inv, WorkInv, TasksFit, TaskType
        <4>2. task[r.target] \in TaskType
          BY <3>1, <4>1
        <4>3. ASSUME NEW action, EndReview(r.actor, r.target, action)
              PROVE  task'[r.target].version = task[r.target].version + 1
          <5> DEFINE row == task[r.target]
                     submitted == row.reviews[Len(row.reviews)]
                     new == [row EXCEPT
                                !.exec = IF action = "accepted" THEN "completed" ELSE @,
                                !.review = action,
                                !.reviews = Record(r.target, submitted.cycle, action, r.actor,
                                                   submitted.reviewer)]
          <5>1. SaveTask(r.target, new)
            BY <4>3 DEF EndReview
          <5>2. "version" \in DOMAIN new
            BY <4>2 DEF TaskType
          <5> HIDE DEF new
          <5> QED
            BY <3>1, <4>1, <5>1, <5>2 DEF SaveTask
        <4> QED
          BY <2>3, <4>1, <4>3 DEF AcceptTask, RejectTask
      <3> QED
        BY <3>1, <3>2
    <2>4. CASE AcceptDeliverable(r) \/ WaiveDeliverable(r)
      <3>1. r.target \in Deliverables /\ r.seen = DeliverableView(r.target)
        BY <2>1, <2>4 DEF AcceptDeliverable, WaiveDeliverable, Informed, IsCurrent, SeenThen
      <3>2. deliverable'[r.target].version # deliverable[r.target].version
        <4>1. /\ deliverable[r.target].version \in Nat
              /\ deliverable \in [Deliverables -> DeliverableType]
          BY <1>1, <3>1 DEF Inv, WorkInv, DeliverablesTyped, DeliverableType
        <4>2. PICK row : StoreDeliverable(r.target, row)
          BY <2>4 DEF AcceptDeliverable, WaiveDeliverable, SaveDeliverable
        <4> QED
          BY <3>1, <4>1, <4>2 DEF StoreDeliverable
      <3> QED
        BY <3>1, <3>2
    <2>5. CASE CompleteNode(r)
      <3>1. r.seen = NodeView
        BY <2>1, <2>5 DEF CompleteNode, Informed, IsCurrent, SeenThen
      <3>2. node' # node
        BY <1>1, <2>5 DEF CompleteNode, SaveNode, Inv, NodeInv, NodeType
      <3> QED
        BY <3>1, <3>2
    <2>6. CASE Forget(r)
      BY <2>6 DEF Forget
    <2> QED
      BY <2>2, <2>3, <2>4, <2>5, <2>6
  <1>2. Inv /\ [Next]_vars => [Decided]_vars
    BY <1>1
  <1> QED
    BY <1>2, InvHolds, PTL DEF Spec, DecidedAsSeen

-----------------------------------------------------------------------------
(* The trail of a deliverable.                                             *)

LastAction(row) == row.actions[Len(row.actions)]

EndedBy(e) == IF e.action \in {"accepted", "waived"} THEN e.actor ELSE NoOne
EvidenceOf(e, evidence) == IF e.action = "submitted" THEN evidence ELSE {}

(* Initialized, submitted or not, ended or not, in this order.             *)
OrderFits(s) ==
    /\ s \in Seq(ActionType) /\ Len(s) \in 1..3
    /\ s[1].action = "initialized"
    /\ Len(s) >= 2 => s[2].action \in {"submitted", "waived"}
    /\ Len(s) = 3 => s[2].action = "submitted" /\ s[3].action \in {"accepted", "waived"}

(* The status of the row and who ended it are those of its last action, its *)
(* evidence is that of the submission, and enough.                         *)
TrailFits(row) ==
    /\ row \in DeliverableType
    /\ OrderFits(row.actions)
    /\ row.status = StatusAfter(LastAction(row).action)
    /\ row.endedBy = EndedBy(LastAction(row))
    /\ \A i \in 1..Len(row.actions) :
           row.actions[i].evidence = EvidenceOf(row.actions[i], row.evidence)
    /\ IF "submitted" \in Taken(row.actions)
       THEN row.evidence # {} /\ Cardinality(row.evidence) >= MinCount
       ELSE row.evidence = {}

LEMMA TakenAre ==
  ASSUME NEW s \in Seq(ActionType)
  PROVE  /\ Len(s) = 1 => Taken(s) = {s[1].action}
         /\ Len(s) = 2 => Taken(s) = {s[1].action, s[2].action}
         /\ Len(s) = 3 => Taken(s) = {s[1].action, s[2].action, s[3].action}
  BY DEF Taken

(* The kinds in a history, and that each is there once.                    *)
LEMMA OrderIsLifecycle ==
  ASSUME NEW s, OrderFits(s)
  PROVE  /\ Taken(s) = Lifecycle(s[Len(s)].action, s)
         /\ Len(s) = Cardinality(Taken(s))
  <1>1. ASSUME NEW x, NEW y, x # y
        PROVE  Cardinality({x, y}) = 2 /\ IsFiniteSet({x, y})
    <2>1. IsFiniteSet({x}) /\ Cardinality({x}) = 1
      BY FS_Singleton
    <2>2. {x, y} = {x} \cup {y} /\ y \notin {x}
      BY <1>1
    <2> QED
      BY <2>1, <2>2, FS_AddElement
  <1>2. CASE Len(s) = 1
    <2>1. Taken(s) = {"initialized"}
      BY <1>2, TakenAre DEF OrderFits
    <2>2. Cardinality({"initialized"}) = 1
      BY FS_Singleton
    <2> QED
      BY <1>2, <2>1, <2>2 DEF OrderFits, Lifecycle
  <1>3. CASE Len(s) = 2
    <2>1. Taken(s) = {"initialized", s[2].action} /\ s[2].action \in {"submitted", "waived"}
      BY <1>3, TakenAre DEF OrderFits
    <2>2. Cardinality({"initialized", s[2].action}) = 2
      BY <1>1, <2>1
    <2>3. Taken(s) = Lifecycle(s[2].action, s)
      BY <2>1 DEF Lifecycle
    <2> QED
      BY <1>3, <2>1, <2>2, <2>3
  <1>4. CASE Len(s) = 3
    <2>1. /\ Taken(s) = {"initialized", "submitted", s[3].action}
          /\ s[3].action \in {"accepted", "waived"}
      BY <1>4, TakenAre DEF OrderFits
    <2>2. Cardinality({"initialized", "submitted", s[3].action}) = 3
      <3> DEFINE two == {"initialized", "submitted"}
      <3>1. Cardinality(two) = 2 /\ IsFiniteSet(two)
        BY <1>1
      <3>2. {"initialized", "submitted", s[3].action} = two \cup {s[3].action}
        OBVIOUS
      <3>3. s[3].action \notin two
        BY <2>1
      <3> HIDE DEF two
      <3>4. Cardinality(two \cup {s[3].action}) = 3
        BY <3>1, <3>3, FS_AddElement
      <3> QED
        BY <3>2, <3>4
    <2>3. Taken(s) = Lifecycle(s[3].action, s)
      BY <2>1 DEF Lifecycle
    <2> QED
      BY <1>4, <2>1, <2>2, <2>3
  <1> QED
    BY <1>2, <1>3, <1>4 DEF OrderFits

(* A row with a fitting trail is canonical, and what was submitted stands  *)
(* where its evidence is stored.                                           *)
LEMMA TrailIsCanonical ==
  ASSUME NEW row, TrailFits(row)
  PROVE  IsCanonical(row)
  <1>1. LastAction(row) \in ActionType
    BY DEF TrailFits, OrderFits, LastAction
  <1>2. row.status \in {"accepted", "waived"} <=> row.endedBy # NoOne
    BY <1>1, AccessAssumption DEF TrailFits, StatusAfter, EndedBy, ActionType
  <1>3. ASSUME NEW i \in DOMAIN row.actions
        PROVE  row.actions[i].action = "submitted" <=> row.actions[i].evidence # {}
    <2>1. i \in 1..Len(row.actions) /\ row.actions[i].action \in Taken(row.actions)
      BY DEF TrailFits, OrderFits, Taken
    <2> QED
      BY <2>1 DEF TrailFits, EvidenceOf
  <1> QED
    BY <1>2, <1>3 DEF IsCanonical

LEMMA TrailStands ==
  ASSUME NEW x \in Deliverables, TrailFits(deliverable[x]), deliverable[x].evidence \subseteq stored
  PROVE  EvidenceIsExact(x)
  <1> DEFINE s == deliverable[x].actions
  <1>1. CASE WasSubmitted(x)
    <2>1. s \in Seq(ActionType) /\ Len(s) \in 1..3 /\ DOMAIN s = 1..Len(s)
      BY DEF TrailFits, OrderFits
    <2>2. Len(s) \in {2, 3} /\ s[2].action = "submitted"
      BY <1>1, <2>1, TakenAre DEF TrailFits, OrderFits, WasSubmitted
    <2>3. /\ {k \in DOMAIN s : s[k].action = "initialized"} = {1}
          /\ {k \in DOMAIN s : s[k].action = "submitted"} = {2}
          /\ 1 \in DOMAIN s /\ 2 \in DOMAIN s
      BY <2>1, <2>2 DEF TrailFits, OrderFits
    <2>4. s[2].evidence = deliverable[x].evidence
      BY <2>1, <2>2 DEF TrailFits, EvidenceOf
    <2>5. Cardinality(deliverable[x].evidence) >= MinCount
      BY <1>1 DEF TrailFits, WasSubmitted
    <2> QED
      BY <1>1, <2>3, <2>4, <2>5 DEF EvidenceIsExact, SubmissionStands
  <1>2. CASE ~WasSubmitted(x)
    BY <1>2 DEF TrailFits, WasSubmitted, EvidenceIsExact
  <1> QED
    BY <1>1, <1>2

(* What an action needs to be the next.                                    *)
Continues(e, row) ==
    \/ e.action = "initialized" /\ row.actions = <<>> /\ row.evidence = {}
    \/ /\ TrailFits(row)
       /\ \/ e.action \in {"submitted", "waived"} /\ row.status = "pending"
          \/ e.action \in {"accepted", "waived"} /\ row.status = "submitted"

LEMMA NextActionFits ==
  ASSUME NEW row \in DeliverableType, NEW e \in ActionType, Continues(e, row)
  PROVE  /\ OrderFits(Append(row.actions, e))
         /\ e.action \notin Taken(row.actions)
         /\ Taken(Append(row.actions, e)) = Taken(row.actions) \cup {e.action}
         /\ Append(row.actions, e)[Len(Append(row.actions, e))] = e
  <1> DEFINE s == row.actions
             t == Append(s, e)
  <1>1. s \in Seq(ActionType)
    BY DEF DeliverableType
  <1>2. /\ t \in Seq(ActionType) /\ Len(s) \in Nat /\ Len(t) = Len(s) + 1
        /\ \A i \in 1..Len(s) : t[i] = s[i]
        /\ t[Len(s) + 1] = e
    BY <1>1
  <1>3. Taken(t) = Taken(s) \cup {e.action}
    <2>1. DOMAIN t = 1..(Len(s) + 1) /\ DOMAIN s = 1..Len(s)
      BY <1>1, <1>2
    <2> HIDE DEF t
    <2> QED
      BY <1>2, <2>1 DEF Taken
  <1>4. CASE e.action = "initialized" /\ s = <<>>
    <2>1. Len(s) = 0 /\ Taken(s) = {}
      BY <1>4 DEF Taken
    <2> HIDE DEF t
    <2> QED
      BY <1>2, <1>3, <1>4, <2>1 DEF OrderFits, t
  <1>5. CASE TrailFits(row) /\ e.action \in {"submitted", "waived"} /\ row.status = "pending"
    <2>1. Len(s) = 1 /\ s[1].action = "initialized"
      <3>1. OrderFits(s) /\ StatusAfter(s[Len(s)].action) = "pending"
        BY <1>5 DEF TrailFits, LastAction
      <3>2. Len(s) # 2 /\ Len(s) # 3
        BY <3>1 DEF OrderFits, StatusAfter
      <3> QED
        BY <3>1, <3>2 DEF OrderFits
    <2>2. Taken(s) = {"initialized"}
      BY <1>1, <2>1, TakenAre
    <2>3. t[1] = s[1] /\ t[2] = e /\ Len(t) = 2
      BY <1>2, <2>1
    <2> HIDE DEF t
    <2> QED
      BY <1>2, <1>3, <1>5, <2>1, <2>2, <2>3 DEF OrderFits, t
  <1>6. CASE TrailFits(row) /\ e.action \in {"accepted", "waived"} /\ row.status = "submitted"
    <2>1. Len(s) = 2 /\ s[1].action = "initialized" /\ s[2].action = "submitted"
      BY <1>6 DEF TrailFits, OrderFits, StatusAfter, LastAction
    <2>2. Taken(s) = {"initialized", "submitted"}
      BY <1>1, <2>1, TakenAre
    <2>3. t[1] = s[1] /\ t[2] = s[2] /\ t[3] = e /\ Len(t) = 3
      BY <1>2, <2>1
    <2> HIDE DEF t
    <2> QED
      BY <1>2, <1>3, <1>6, <2>1, <2>2, <2>3 DEF OrderFits, t
  <1> QED
    BY <1>4, <1>5, <1>6 DEF Continues

(* The row that a command saves.                                           *)
LEMMA NextRowFits ==
  ASSUME NEW row \in DeliverableType, NEW e \in ActionType, Continues(e, row),
         NEW new \in DeliverableType, new.actions = Append(row.actions, e),
         new.status = StatusAfter(e.action), new.endedBy = EndedBy(e),
         e.evidence = EvidenceOf(e, new.evidence),
         IF e.action = "submitted"
         THEN new.evidence # {} /\ Cardinality(new.evidence) >= MinCount
         ELSE new.evidence = row.evidence
  PROVE  TrailFits(new) /\ LastAction(new) = e
  <1> DEFINE s == row.actions
             t == new.actions
  <1>1. /\ OrderFits(t) /\ e.action \notin Taken(s) /\ Taken(t) = Taken(s) \cup {e.action}
        /\ LastAction(new) = e
    BY NextActionFits DEF LastAction
  <1>2. /\ s \in Seq(ActionType) /\ Len(s) \in Nat /\ Len(t) = Len(s) + 1
        /\ \A i \in 1..Len(s) : t[i] = s[i]
        /\ t[Len(s) + 1] = e
    BY DEF DeliverableType
  <1>3. CASE e.action = "submitted"
    <2>1. \A i \in 1..Len(s) : s[i].action # "submitted" /\ s[i].evidence = {}
      <3>1. TrailFits(row)
        BY <1>3 DEF Continues
      <3>2. TAKE i \in 1..Len(s)
      <3>3. s[i].action \in Taken(s)
        BY <1>2 DEF Taken
      <3> QED
        BY <1>1, <1>3, <3>1, <3>3 DEF TrailFits, EvidenceOf
    <2>2. \A i \in 1..Len(t) : t[i].evidence = EvidenceOf(t[i], new.evidence)
      <3> TAKE i \in 1..Len(t)
      <3>1. i \in 1..Len(s) \/ i = Len(s) + 1
        BY <1>2
      <3> QED
        BY <1>2, <2>1, <3>1 DEF EvidenceOf
    <2> QED
      BY <1>1, <1>3, <2>2 DEF TrailFits
  <1>4. CASE e.action # "submitted"
    <2>1. \A i \in 1..Len(s) : s[i].evidence = EvidenceOf(s[i], row.evidence)
      BY DEF Continues, TrailFits
    <2>2. \A i \in 1..Len(t) : t[i].evidence = EvidenceOf(t[i], new.evidence)
      <3> TAKE i \in 1..Len(t)
      <3>1. i \in 1..Len(s) \/ i = Len(s) + 1
        BY <1>2
      <3> QED
        BY <1>2, <1>4, <2>1, <3>1 DEF EvidenceOf
    <2>3. IF "submitted" \in Taken(s)
          THEN row.evidence # {} /\ Cardinality(row.evidence) >= MinCount
          ELSE row.evidence = {}
      <3>1. CASE TrailFits(row)
        BY <3>1 DEF TrailFits
      <3>2. CASE s = <<>> /\ row.evidence = {}
        BY <3>2 DEF Taken
      <3> QED
        BY <3>1, <3>2 DEF Continues
    <2> QED
      BY <1>1, <1>4, <2>2, <2>3 DEF TrailFits
  <1> QED
    BY <1>1, <1>3, <1>4

(* A new version does not change what fits.                                *)
LEMMA VersionKeepsTrail ==
  ASSUME NEW row, TrailFits(row), NEW v \in Nat
  PROVE  TrailFits([row EXCEPT !.version = v])
  <1> DEFINE new == [row EXCEPT !.version = v]
  <1>1. /\ new \in DeliverableType /\ new.actions = row.actions /\ new.status = row.status
        /\ new.endedBy = row.endedBy /\ new.evidence = row.evidence
    BY DEF TrailFits, DeliverableType
  <1> HIDE DEF new
  <1>2. TrailFits(new)
    BY <1>1 DEF TrailFits, LastAction
  <1> QED
    BY <1>2 DEF new

-----------------------------------------------------------------------------
(* The invariant of the rows, events and receipts of deliverables.         *)

RowsFit ==
    \A x \in Deliverables :
        IF deliverable[x].status = "absent" THEN deliverable[x] = NoDeliverable
        ELSE TrailFits(deliverable[x]) /\ deliverable[x].evidence \subseteq stored

(* One event to an action; one of the present version is of this domain.   *)
EventFits(e) ==
    LET row == deliverable[e.target] IN
    /\ row.status # "absent"
    /\ e.event.action \in Taken(row.actions)
    /\ e.version <= row.version
    /\ e.version = row.version => e.domain = node.domain

EventsFit ==
    /\ \A e \in events : EventFits(e)
    /\ \A e, f \in events : e.target = f.target /\ e.event.action = f.event.action => e = f

(* A receipt holds the row that its command left, which is the row of now  *)
(* while the version is the same; the event of the command is there.       *)
ReceiptFits(c) ==
    LET row == deliverable[c.target]
        taken == LastAction(c.result)
    IN  /\ row.status # "absent"
        /\ TrailFits(c.result)
        /\ c.result.version = c.expected + 1
        /\ c.result.version <= row.version
        /\ c.result.version = row.version => c.result = row
        /\ taken.action = c.operation /\ taken.actor = c.actor
        /\ \E e \in events : /\ e.target = c.target /\ e.version = c.result.version
                             /\ e.event = taken

ReceiptsFit == \A c \in receipts : ReceiptFits(c)

TrailInv == RowsFit /\ EventsFit /\ ReceiptsFit

(* A command that saves the next action on a deliverable.                  *)
LEMMA SavedTrail ==
  ASSUME Inv, TrailInv,
         NEW p \in Principals, NEW x \in Deliverables, NEW action \in DeliverableActions,
         NEW new \in DeliverableType, SaveDeliverable(p, x, action, new),
         \/ action = "initialized" /\ deliverable[x].status = "absent"
         \/ action \in {"submitted", "waived"} /\ deliverable[x].status = "pending"
         \/ action \in {"accepted", "waived"} /\ deliverable[x].status = "submitted",
         new.status = StatusAfter(action),
         new.endedBy = (IF action \in {"accepted", "waived"} THEN p ELSE NoOne),
         IF action = "submitted"
         THEN Cardinality(new.evidence) >= MinCount /\ new.evidence \subseteq stored
         ELSE new.evidence = deliverable[x].evidence
  PROVE  TrailInv'
  <1> DEFINE row == deliverable[x]
             taken == [action |-> action, actor |-> p,
                       evidence |-> IF action = "submitted" THEN new.evidence ELSE {}]
             saved == [new EXCEPT !.version = row.version + 1,
                                  !.actions = Append(row.actions, taken)]
             event == [target |-> x, event |-> taken, version |-> saved.version,
                       domain |-> node.domain]
             receipt == [operation |-> action, actor |-> p, target |-> x,
                         expected |-> row.version, result |-> saved]
  <1>1. /\ deliverable \in [Deliverables -> DeliverableType] /\ row \in DeliverableType
        /\ events \subseteq EventType /\ receipts \subseteq ReceiptType
    BY DEF Inv, WorkInv, DeliverablesTyped
  <1>2. /\ taken \in ActionType /\ taken.action = action /\ taken.actor = p
        /\ taken.evidence = EvidenceOf(taken, new.evidence)
    BY DEF ActionType, DeliverableType, EvidenceOf
  <1>3. Append(row.actions, taken) \in Seq(ActionType) /\ row.version \in Nat
    BY <1>1, <1>2 DEF DeliverableType
  <1>4. /\ saved \in DeliverableType /\ saved.version = row.version + 1
        /\ saved.actions = Append(row.actions, taken)
        /\ saved.status = new.status /\ saved.endedBy = new.endedBy
        /\ saved.evidence = new.evidence
    <2> DEFINE actions == Append(row.actions, taken)
               v == row.version + 1
    <2>1. actions \in Seq(ActionType) /\ v \in Nat
      BY <1>3
    <2> HIDE DEF actions, v
    <2>2. [new EXCEPT !.version = v, !.actions = actions] \in DeliverableType
      BY <2>1 DEF DeliverableType
    <2>3. saved = [new EXCEPT !.version = v, !.actions = actions]
      BY DEF actions, v
    <2>4. /\ saved.version = v /\ saved.actions = actions
          /\ saved.status = new.status /\ saved.endedBy = new.endedBy
          /\ saved.evidence = new.evidence
      BY <2>3 DEF DeliverableType
    <2> QED
      BY <2>2, <2>3, <2>4 DEF v, actions
  <1>5. /\ deliverable' = [deliverable EXCEPT ![x] = saved]
        /\ events' = events \cup {event}
        /\ receipts' = receipts \cup {receipt}
        /\ node' = node /\ stored' = stored
    BY DEF SaveDeliverable, StoreDeliverable
  <1>6. /\ event.target = x /\ event.event = taken /\ event.version = saved.version
        /\ event.domain = node.domain
        /\ receipt.operation = action /\ receipt.actor = p /\ receipt.target = x
        /\ receipt.expected = row.version /\ receipt.result = saved
    OBVIOUS
  <1> HIDE DEF taken, saved, event, receipt
  <1>7. /\ deliverable'[x] = saved
        /\ \A y \in Deliverables : y # x => deliverable'[y] = deliverable[y]
    BY <1>1, <1>5
  <1>8. Continues(taken, row)
    <2>1. CASE row.status = "absent"
      <3>1. row = NoDeliverable
        BY <2>1 DEF TrailInv, RowsFit
      <3> QED
        BY <1>2, <2>1, <3>1 DEF Continues, NoDeliverable
    <2>2. CASE row.status # "absent"
      <3>1. TrailFits(row)
        BY <2>2 DEF TrailInv, RowsFit
      <3> QED
        BY <1>2, <2>2, <3>1 DEF Continues
    <2> QED
      BY <2>1, <2>2
  <1>9. TrailFits(saved) /\ LastAction(saved) = taken
    <2>1. saved.status = StatusAfter(taken.action) /\ saved.endedBy = EndedBy(taken)
      BY <1>2, <1>4 DEF EndedBy
    <2>2. taken.evidence = EvidenceOf(taken, saved.evidence)
      BY <1>2, <1>4
    <2>3. IF taken.action = "submitted"
          THEN saved.evidence # {} /\ Cardinality(saved.evidence) >= MinCount
          ELSE saved.evidence = row.evidence
      <3>1. CASE action = "submitted"
        <4>1. Cardinality(saved.evidence) >= MinCount /\ MinCount > 0
          BY <1>4, <3>1, WorkAssumption
        <4>2. saved.evidence # {}
          <5>1. Cardinality({}) = 0 /\ MinCount \in Nat
            BY FS_EmptySet, WorkAssumption
          <5> QED
            BY <4>1, <5>1
        <4> QED
          BY <1>2, <3>1, <4>1, <4>2
      <3>2. CASE action # "submitted"
        BY <1>2, <1>4, <3>2
      <3> QED
        BY <3>1, <3>2
    <2> QED
      BY <1>1, <1>2, <1>4, <1>8, <2>1, <2>2, <2>3, NextRowFits
  <1>10. /\ action \notin Taken(row.actions)
         /\ Taken(saved.actions) = Taken(row.actions) \cup {action}
    BY <1>1, <1>2, <1>4, <1>8, NextActionFits
  <1>11. saved.status # "absent" /\ saved.evidence \subseteq stored
    <2>1. saved.status # "absent"
      BY <1>4 DEF StatusAfter, DeliverableActions
    <2>2. row.evidence \subseteq stored
      BY DEF TrailInv, RowsFit, NoDeliverable
    <2> QED
      BY <1>4, <2>1, <2>2
  <1>12. RowsFit'
    <2> SUFFICES ASSUME NEW y \in Deliverables
                 PROVE  IF deliverable'[y].status = "absent" THEN deliverable'[y] = NoDeliverable
                        ELSE /\ TrailFits(deliverable'[y])
                             /\ deliverable'[y].evidence \subseteq stored'
      BY DEF RowsFit
    <2>1. CASE y = x
      BY <1>5, <1>7, <1>9, <1>11, <2>1
    <2>2. CASE y # x
      BY <1>5, <1>7, <2>2 DEF TrailInv, RowsFit
    <2> QED
      BY <2>1, <2>2
  <1>13. ASSUME NEW e \in events
         PROVE  /\ EventFits(e) /\ e.target \in Deliverables /\ e.version \in Nat
                /\ EventFits(e)'
    <2>1. EventFits(e) /\ e.target \in Deliverables /\ e.version \in Nat
      BY <1>1 DEF TrailInv, EventsFit, EventType
    <2>2. CASE e.target = x
      <3>1. /\ e.event.action \in Taken(saved.actions)
            /\ e.version <= row.version
        BY <1>10, <2>1, <2>2 DEF EventFits
      <3>2. e.version < saved.version
        BY <1>3, <1>4, <2>1, <3>1
      <3>3. deliverable'[e.target] = saved /\ saved.version \in Nat
        BY <1>3, <1>4, <1>7, <2>2
      <3> QED
        BY <1>11, <2>1, <3>1, <3>2, <3>3 DEF EventFits
    <2>3. CASE e.target # x
      BY <1>5, <1>7, <2>1, <2>3 DEF EventFits
    <2> QED
      BY <2>1, <2>2, <2>3
  <1>14. ASSUME NEW e, e = event
         PROVE  EventFits(e)'
    <2>1. deliverable'[e.target] = saved /\ saved.version \in Nat
      BY <1>3, <1>4, <1>6, <1>7, <1>14
    <2>2. /\ e.event.action = action /\ e.version = saved.version
          /\ e.domain = node'.domain
      BY <1>2, <1>5, <1>6, <1>14
    <2> QED
      BY <1>10, <1>11, <2>1, <2>2 DEF EventFits
  <1>15. EventsFit'
    <2>1. ASSUME NEW e \in events' PROVE EventFits(e)'
      BY <1>5, <1>13, <1>14
    <2>2. ASSUME NEW e \in events, e.target = x
          PROVE  e.event.action # action
      BY <1>10, <1>13, <2>2 DEF EventFits
    <2>3. ASSUME NEW e \in events', NEW f \in events', e.target = f.target,
                 e.event.action = f.event.action
          PROVE  e = f
      <3>1. CASE e \in events /\ f \in events
        BY <2>3, <3>1 DEF TrailInv, EventsFit
      <3>2. CASE e = event \/ f = event
        BY <1>2, <1>5, <1>6, <2>2, <2>3, <3>2
      <3> QED
        BY <1>5, <3>1, <3>2
    <2> QED
      BY <2>1, <2>3 DEF EventsFit
  <1>16. ASSUME NEW c \in receipts
         PROVE  ReceiptFits(c)'
    <2>1. ReceiptFits(c) /\ c.target \in Deliverables /\ c.expected \in Nat
      BY <1>1 DEF TrailInv, ReceiptsFit, ReceiptType
    <2>2. c.result.version \in Nat
      BY <2>1 DEF ReceiptFits
    <2>3. \E e \in events' : /\ e.target = c.target /\ e.version = c.result.version
                             /\ e.event = LastAction(c.result)
      BY <1>5, <2>1 DEF ReceiptFits
    <2>4. CASE c.target = x
      <3>1. c.result.version < saved.version
        BY <1>3, <1>4, <2>1, <2>2, <2>4 DEF ReceiptFits
      <3> QED
        BY <1>3, <1>4, <1>7, <1>11, <2>1, <2>2, <2>3, <2>4, <3>1 DEF ReceiptFits
    <2>5. CASE c.target # x
      BY <1>7, <2>1, <2>3, <2>5 DEF ReceiptFits
    <2> QED
      BY <2>4, <2>5
  <1>17. ASSUME NEW c, c = receipt
         PROVE  ReceiptFits(c)'
    <2>1. event \in events' /\ event.target = x
      BY <1>5, <1>6
    <2>2. /\ deliverable'[c.target] = saved /\ c.result = saved /\ saved.version \in Nat
          /\ saved.version = c.expected + 1
      BY <1>3, <1>4, <1>6, <1>7, <1>17
    <2>3. \E e \in events' : /\ e.target = c.target /\ e.version = c.result.version
                             /\ e.event = LastAction(c.result)
      BY <1>6, <1>9, <1>17, <2>1, <2>2
    <2>4. taken.action = c.operation /\ taken.actor = c.actor
      BY <1>2, <1>6, <1>17
    <2> QED
      BY <1>9, <1>11, <2>2, <2>3, <2>4 DEF ReceiptFits
  <1>18. ASSUME NEW c \in receipts' PROVE ReceiptFits(c)'
    BY <1>5, <1>16, <1>17
  <1> QED
    BY <1>12, <1>15, <1>18 DEF TrailInv, ReceiptsFit

LEMMA InitializeTrail ==
  ASSUME Inv, TrailInv, NEW p \in Principals, NEW x \in Deliverables, NEW required \in BOOLEAN,
         NEW reviewer \in Principals, InitializeDeliverable(p, x, required, reviewer)
  PROVE  TrailInv'
  <1> DEFINE new == [NoDeliverable EXCEPT !.status = "pending", !.required = required,
                                          !.reviewer = reviewer]
  <1>1. /\ new \in DeliverableType /\ new.status = "pending" /\ new.endedBy = NoOne
        /\ new.evidence = {}
    <2>1. <<>> \in Seq(ActionType)
      OBVIOUS
    <2>2. NoDeliverable \in DeliverableType
      BY <2>1 DEF NoDeliverable, DeliverableType, SomeoneOrNone
    <2>3. new \in DeliverableType
      BY <2>2 DEF DeliverableType, SomeoneOrNone
    <2> QED
      BY <2>3 DEF NoDeliverable
  <1>2. SaveDeliverable(p, x, "initialized", new) /\ deliverable[x].status = "absent"
    BY DEF InitializeDeliverable
  <1>3. deliverable[x].evidence = {}
    BY <1>2 DEF TrailInv, RowsFit, NoDeliverable
  <1> HIDE DEF new
  <1>4. new.status = StatusAfter("initialized") /\ "initialized" \in DeliverableActions
    BY <1>1 DEF StatusAfter, DeliverableActions
  <1> QED
    BY <1>1, <1>2, <1>3, <1>4, SavedTrail

LEMMA SubmitTrail ==
  ASSUME Inv, TrailInv, NEW p \in Principals, NEW x \in Deliverables,
         NEW evidence \in SUBSET stored, SubmitDeliverable(p, x, evidence)
  PROVE  TrailInv'
  <1> DEFINE new == [deliverable[x] EXCEPT !.status = "submitted", !.evidence = evidence]
  <1>1. deliverable[x] \in DeliverableType /\ evidence \in SUBSET Assets
    BY DEF Inv, WorkInv, DeliverablesTyped
  <1>2. /\ SaveDeliverable(p, x, "submitted", new) /\ deliverable[x].status = "pending"
        /\ Cardinality(evidence) >= MinCount
    BY DEF SubmitDeliverable, AwaitsEvidence
  <1>3. deliverable[x].endedBy = NoOne
    <2>1. TrailFits(deliverable[x])
      BY <1>2 DEF TrailInv, RowsFit
    <2> QED
      BY <1>2, <2>1 DEF TrailFits, StatusAfter, EndedBy
  <1>4. /\ new \in DeliverableType /\ new.status = "submitted" /\ new.endedBy = NoOne
        /\ new.evidence = evidence
    BY <1>1, <1>3 DEF DeliverableType
  <1> HIDE DEF new
  <1>5. new.status = StatusAfter("submitted") /\ "submitted" \in DeliverableActions
    BY <1>4 DEF StatusAfter, DeliverableActions
  <1> QED
    BY <1>2, <1>4, <1>5, SavedTrail

LEMMA EndTrail ==
  ASSUME Inv, TrailInv, NEW p \in Principals, NEW x \in Deliverables,
         NEW action \in {"accepted", "waived"},
         \/ action = "waived" /\ deliverable[x].status = "pending"
         \/ deliverable[x].status = "submitted",
         SaveDeliverable(p, x, action,
             [deliverable[x] EXCEPT !.status = action, !.endedBy = p])
  PROVE  TrailInv'
  <1> DEFINE new == [deliverable[x] EXCEPT !.status = action, !.endedBy = p]
  <1>1. deliverable[x] \in DeliverableType
    BY DEF Inv, WorkInv, DeliverablesTyped
  <1>2. /\ new \in DeliverableType /\ new.status = action /\ new.endedBy = p
        /\ new.evidence = deliverable[x].evidence
    BY <1>1 DEF DeliverableType, SomeoneOrNone
  <1>3. SaveDeliverable(p, x, action, new)
    OBVIOUS
  <1> HIDE DEF new
  <1>4. /\ new.status = StatusAfter(action) /\ action \in DeliverableActions
        /\ action # "submitted"
    BY <1>2 DEF StatusAfter, DeliverableActions
  <1> QED
    BY <1>2, <1>3, <1>4, SavedTrail

(* Steps that touch no deliverable and leave the domain of the node, or    *)
(* find no deliverable there.                                              *)
LEMMA OtherTrail ==
  ASSUME Inv, TrailInv, UNCHANGED deliverables, stored \subseteq stored',
         node'.domain = node.domain \/ ExistingDeliverables = {}
  PROVE  TrailInv'
  <1>1. /\ UNCHANGED <<deliverable, events, receipts>>
        /\ events \subseteq EventType
    BY DEF deliverables, Inv, WorkInv, DeliverablesTyped
  <1>2. RowsFit'
    BY <1>1 DEF TrailInv, RowsFit
  <1>3. ASSUME NEW e \in events PROVE EventFits(e)'
    <2>1. EventFits(e) /\ e.target \in Deliverables
      BY <1>1 DEF TrailInv, EventsFit, EventType
    <2>2. node'.domain = node.domain
      BY <2>1 DEF EventFits, ExistingDeliverables
    <2> QED
      BY <1>1, <2>1, <2>2 DEF EventFits
  <1>4. ASSUME NEW c \in receipts PROVE ReceiptFits(c)'
    BY <1>1 DEF TrailInv, ReceiptsFit, ReceiptFits
  <1> QED
    BY <1>1, <1>2, <1>3, <1>4 DEF TrailInv, EventsFit, ReceiptsFit

(* A migration leaves every trail and makes what is recorded older.        *)
LEMMA MigrationTrail ==
  ASSUME Inv, TrailInv, NEW d \in Domains \cup {NoDomain}, Migrate(d)
  PROVE  TrailInv'
  <1>1. /\ deliverable \in [Deliverables -> DeliverableType]
        /\ events \subseteq EventType /\ receipts \subseteq ReceiptType
    BY DEF Inv, WorkInv, DeliverablesTyped
  <1>2. /\ deliverable' = [x \in Deliverables |-> MovedDeliverable(x)]
        /\ UNCHANGED <<events, receipts, stored>>
    BY DEF Migrate
  <1>3. ASSUME NEW x \in Deliverables, deliverable[x].status # "absent"
        PROVE  /\ deliverable'[x].status # "absent"
               /\ deliverable[x].version \in Nat
               /\ deliverable'[x].version = deliverable[x].version + 1
               /\ deliverable'[x].actions = deliverable[x].actions
               /\ TrailFits(deliverable'[x]) /\ deliverable'[x].evidence \subseteq stored
    <2> DEFINE v == deliverable[x].version + 1
    <2>1. TrailFits(deliverable[x]) /\ deliverable[x].evidence \subseteq stored
      BY <1>3 DEF TrailInv, RowsFit
    <2>2. deliverable[x] \in DeliverableType /\ deliverable[x].version \in Nat /\ v \in Nat
      BY <1>1 DEF DeliverableType
    <2>3. deliverable'[x] = [deliverable[x] EXCEPT !.version = v]
      BY <1>2, <1>3 DEF MovedDeliverable
    <2>4. v = deliverable[x].version + 1
      OBVIOUS
    <2> HIDE DEF v
    <2>5. TrailFits(deliverable'[x])
      BY <2>1, <2>2, <2>3, VersionKeepsTrail
    <2> QED
      BY <1>3, <2>1, <2>2, <2>3, <2>4, <2>5 DEF DeliverableType
  <1>4. RowsFit'
    <2> SUFFICES ASSUME NEW x \in Deliverables
                 PROVE  IF deliverable'[x].status = "absent" THEN deliverable'[x] = NoDeliverable
                        ELSE /\ TrailFits(deliverable'[x])
                             /\ deliverable'[x].evidence \subseteq stored'
      BY DEF RowsFit
    <2>1. CASE deliverable[x].status = "absent"
      BY <1>2, <2>1 DEF MovedDeliverable, TrailInv, RowsFit
    <2>2. CASE deliverable[x].status # "absent"
      BY <1>2, <1>3, <2>2
    <2> QED
      BY <2>1, <2>2
  <1>5. ASSUME NEW e \in events PROVE EventFits(e)'
    <2>1. EventFits(e) /\ e.target \in Deliverables /\ e.version \in Nat
      BY <1>1 DEF TrailInv, EventsFit, EventType
    <2> QED
      BY <1>3, <2>1 DEF EventFits
  <1>6. ASSUME NEW c \in receipts PROVE ReceiptFits(c)'
    <2>1. ReceiptFits(c) /\ c.target \in Deliverables /\ c.expected \in Nat
      BY <1>1 DEF TrailInv, ReceiptsFit, ReceiptType
    <2>2. \E e \in events' : /\ e.target = c.target /\ e.version = c.result.version
                             /\ e.event = LastAction(c.result)
      BY <1>2, <2>1 DEF ReceiptFits
    <2>3. c.result.version \in Nat
      BY <2>1 DEF ReceiptFits
    <2> QED
      BY <1>3, <2>1, <2>2, <2>3 DEF ReceiptFits
  <1> QED
    BY <1>2, <1>4, <1>5, <1>6 DEF TrailInv, EventsFit, ReceiptsFit

LEMMA WorkingTrail ==
  ASSUME Inv, TrailInv, Working
  PROVE  TrailInv'
  <1>1. ASSUME NEW t, NEW new, SaveTask(t, new)
        PROVE  TrailInv'
    BY <1>1, OtherTrail DEF SaveTask
  <1>2. ASSUME NEW p \in Principals, NEW t \in Tasks,
               \/ \E assignee \in SomeoneOrNone : CreateTask(p, t, assignee)
               \/ StartTask(p, t) \/ CompleteTask(p, t) \/ SubmitTask(p, t) \/ WithdrawTask(p, t)
               \/ \E q \in Principals : AssignReviewer(p, t, q) \/ AssignAssignee(p, t, q)
        PROVE  TrailInv'
    <2>1. \E new : SaveTask(t, new)
      BY <1>2 DEF CreateTask, StartTask, CompleteTask, SubmitTask, WithdrawTask, EndReview,
         AssignReviewer, AssignAssignee
    <2> QED
      BY <1>1, <2>1
  <1>3. ASSUME NEW a \in Assets, StoreAsset(a)
        PROVE  TrailInv'
    BY <1>3, OtherTrail DEF StoreAsset, work
  <1> QED
    BY <1>2, <1>3, InitializeTrail, SubmitTrail DEF Working

LEMMA JudgingTrail ==
  ASSUME Inv, TrailInv, Judging
  PROVE  TrailInv'
  <1> PICK r \in sent :
          \/ AcceptTask(r) \/ RejectTask(r)
          \/ AcceptDeliverable(r) \/ WaiveDeliverable(r) \/ CompleteNode(r)
    BY DEF Judging
  <1>1. Informed(r) /\ r.actor \in Principals
    BY DEF Inv, WorkInv, SentInformed, Informed, SeenThen
  <1>2. CASE AcceptTask(r) \/ RejectTask(r)
    <2>1. PICK new : SaveTask(r.target, new)
      BY <1>2 DEF AcceptTask, RejectTask, EndReview
    <2> QED
      BY <2>1, OtherTrail DEF SaveTask
  <1>3. CASE AcceptDeliverable(r) \/ WaiveDeliverable(r)
    <2>1. r.target \in Deliverables
      BY <1>1, <1>3 DEF AcceptDeliverable, WaiveDeliverable, Informed
    <2>2. deliverable[r.target] \in DeliverableType
      BY <2>1 DEF Inv, WorkInv, DeliverablesTyped
    <2>3. CASE AcceptDeliverable(r)
      BY <1>1, <2>1, <2>3, EndTrail DEF AcceptDeliverable
    <2>4. CASE WaiveDeliverable(r)
      <3>1. deliverable[r.target].status \in {"pending", "submitted"}
        BY <2>2, <2>4 DEF WaiveDeliverable, IsOpen, DeliverableType
      <3> QED
        BY <1>1, <2>1, <2>4, <3>1, EndTrail DEF WaiveDeliverable
    <2> QED
      BY <1>3, <2>3, <2>4
  <1>4. CASE CompleteNode(r)
    <2>1. node'.domain = node.domain
      BY <1>4 DEF CompleteNode, SaveNode, Inv, NodeInv, NodeType
    <2> QED
      BY <1>4, <2>1, OtherTrail DEF CompleteNode
  <1> QED
    BY <1>2, <1>3, <1>4

LEMMA GoverningTrail ==
  ASSUME Inv, TrailInv, Governing
  PROVE  TrailInv'
  <1>1. ASSUME NEW p \in Principals, NEW leader \in SomeoneOrNone, AssignLeader(p, leader)
        PROVE  TrailInv'
    <2>1. node'.domain = node.domain
      BY <1>1 DEF AssignLeader, SaveNode, Inv, NodeInv, NodeType
    <2> QED
      BY <1>1, <2>1, OtherTrail DEF AssignLeader
  <1>2. ASSUME NEW p \in Principals, NEW d \in Domains, MakeSensitive(p, d)
        PROVE  TrailInv'
    BY <1>2, OtherTrail DEF MakeSensitive
  <1>3. ASSUME UNCHANGED <<work, stored, sent, counted>>
        PROVE  TrailInv'
    BY <1>3, OtherTrail DEF work
  <1> QED
    BY <1>1, <1>2, <1>3, MigrationTrail DEF Governing, MakeOtherSensitive

LEMMA TrailKept ==
  ASSUME Inv, TrailInv, [Next]_vars
  PROVE  TrailInv'
  <1>1. CASE Composing \/ \E r \in sent : Forget(r)
    <2>1. UNCHANGED <<work, stored>>
      BY <1>1 DEF Composing, ComposeForTask, ComposeForDeliverable, ComposeCompletion, Compose,
         Forget
    <2> QED
      BY <2>1, OtherTrail DEF work
  <1>2. CASE UNCHANGED vars
    BY <1>2, OtherTrail DEF vars, work
  <1> QED
    BY <1>1, <1>2, WorkingTrail, JudgingTrail, GoverningTrail DEF Next

LEMMA TrailHolds == Spec => [](Inv /\ TrailInv)
  <1>1. Init => TrailInv
    BY DEF Init, TrailInv, RowsFit, EventsFit, ReceiptsFit, NoDeliverable
  <1> QED
    BY <1>1, TrailKept, InvInit, InvKept, PTL DEF Spec

-----------------------------------------------------------------------------
(* What a retry is answered.                                               *)

LEMMA WholeTrail == Inv /\ TrailInv => TrailIsWhole
  <1> SUFFICES ASSUME TrailInv, NEW x \in Deliverables, deliverable[x].status # "absent"
               PROVE  LET actions == deliverable[x].actions
                          last == actions[Len(actions)].action
                      IN  /\ deliverable[x].status = StatusAfter(last)
                          /\ Taken(actions) = Lifecycle(last, actions)
                          /\ Len(actions) = Cardinality(Taken(actions))
                          /\ EvidenceIsExact(x)
    BY DEF TrailIsWhole, ExistingDeliverables
  <1>1. TrailFits(deliverable[x]) /\ deliverable[x].evidence \subseteq stored
    BY DEF TrailInv, RowsFit
  <1>2. OrderFits(deliverable[x].actions)
    BY <1>1 DEF TrailFits
  <1> QED
    BY <1>1, <1>2, OrderIsLifecycle, TrailStands DEF TrailFits, LastAction

(* A receipt of the present version agrees with everything that is stored. *)
LEMMA PresentIsIntact ==
  ASSUME Inv, TrailInv, NEW c \in receipts,
         deliverable[c.target].version = c.result.version
  PROVE  ~IsStale(c) /\ IsIntact(c) /\ c.result = deliverable[c.target]
         /\ c.result.evidence \subseteq stored
  <1> DEFINE now == deliverable[c.target]
             last == LastAction(now)
             expectedEvent == [target |-> c.target, version |-> now.version,
                               domain |-> node.domain,
                               event |-> [action |-> c.operation, actor |-> c.actor,
                                          evidence |-> IF c.operation = "submitted"
                                                       THEN now.evidence ELSE {}]]
  <1>1. /\ c \in ReceiptType /\ ReceiptFits(c) /\ c.target \in Deliverables
        /\ events \subseteq EventType
    BY DEF Inv, WorkInv, DeliverablesTyped, TrailInv, ReceiptsFit, ReceiptType
  <1>2. /\ c.result = now /\ now.status # "absent" /\ now.version = c.expected + 1
        /\ last.action = c.operation /\ last.actor = c.actor
    BY <1>1 DEF ReceiptFits
  <1>3. TrailFits(now) /\ now.evidence \subseteq stored
    BY <1>1, <1>2 DEF TrailInv, RowsFit
  <1>4. /\ OrderFits(now.actions) /\ last \in ActionType
        /\ Len(now.actions) \in DOMAIN now.actions
        /\ last = now.actions[Len(now.actions)]
    BY <1>3 DEF TrailFits, OrderFits, LastAction
  <1>5. last = [action |-> c.operation, actor |-> c.actor,
                evidence |-> IF c.operation = "submitted" THEN now.evidence ELSE {}]
    <2>1. last.evidence = IF c.operation = "submitted" THEN now.evidence ELSE {}
      BY <1>2, <1>3, <1>4 DEF TrailFits, OrderFits, EvidenceOf
    <2> QED
      BY <1>2, <1>4, <2>1 DEF ActionType
  <1>6. ~IsStale(c)
    BY <1>2, <1>3 DEF IsStale, TrailFits
  <1>7. RecordsAgree(c)
    <2>1. ActionIsExact(c, now)
      <3>1. /\ Taken(now.actions) = Lifecycle(c.operation, now.actions)
            /\ Len(now.actions) = Cardinality(Taken(now.actions))
        BY <1>2, <1>4, OrderIsLifecycle
      <3> QED
        BY <1>4, <1>5, <3>1 DEF ActionIsExact
    <2>2. EndIsExact(c, now)
      BY <1>2, <1>3 DEF EndIsExact, TrailFits, EndedBy
    <2> QED
      BY <1>2, <1>3, <2>1, <2>2, TrailIsCanonical DEF RecordsAgree
  <1>8. EventIsExact(c)
    <2>1. PICK e \in events : /\ e.target = c.target /\ e.version = c.result.version
                              /\ e.event = last
      BY <1>1, <1>2 DEF ReceiptFits
    <2>2. e.domain = node.domain /\ e \in EventType
      BY <1>1, <1>2, <2>1 DEF TrailInv, EventsFit, EventFits
    <2>3. e = expectedEvent
      BY <1>2, <1>5, <2>1, <2>2 DEF EventType
    <2>4. ASSUME NEW f \in events, f.target = c.target,
                 c.operation \in {"initialized", f.event.action}
          PROVE  f = e
      <3>1. f.event.action = c.operation
        <4>1. CASE c.operation = "initialized"
          <5>1. f.event.action \in Taken(now.actions)
            BY <2>4 DEF TrailInv, EventsFit, EventFits
          <5>2. Taken(now.actions) = Lifecycle("initialized", now.actions)
            BY <1>2, <1>4, <4>1, OrderIsLifecycle
          <5> QED
            BY <4>1, <5>1, <5>2 DEF Lifecycle
        <4> QED
          BY <2>4, <4>1
      <3> QED
        BY <1>2, <2>1, <2>4, <3>1 DEF TrailInv, EventsFit
    <2>5. c.operation \in {"initialized", e.event.action}
      BY <1>2, <2>1
    <2>6. {f \in events : /\ f.target = c.target
                          /\ c.operation \in {"initialized", f.event.action}} = {e}
      BY <2>1, <2>4, <2>5
    <2> QED
      BY <2>3, <2>6 DEF EventIsExact
  <1>9. EvidenceIsExact(c.target)
    BY <1>1, <1>3, TrailStands
  <1> QED
    BY <1>2, <1>3, <1>6, <1>7, <1>8, <1>9 DEF IsIntact

(* The trail of a deliverable is whole, and a retry of a command that took *)
(* effect is told its result until something else happens to the           *)
(* deliverable, a conflict from then on, and never that the records are    *)
(* corrupt.                                                                *)
THEOREM RetriesAreAnsweredTruly == Spec => []DeliverableTrail
  <1>1. ASSUME Inv, TrailInv, NEW c \in receipts, RetryAnswer(c) # "forbidden"
        PROVE  LET now == deliverable[c.target] IN
               RetryAnswer(c) =
                   IF now.version # c.result.version THEN "version_conflict"
                   ELSE IF c.operation = "initialized" /\ ~IsEligible(now.reviewer)
                   THEN "reviewer_not_eligible"
                   ELSE "replayed"
    <2>1. c.operation \in DeliverableActions
      BY <1>1 DEF Inv, WorkInv, DeliverablesTyped, ReceiptType
    <2>2. CASE deliverable[c.target].version # c.result.version
      <3>1. IsStale(c) /\ Compared(c) = "version_conflict"
        BY <2>2 DEF IsStale, Compared
      <3> QED
        BY <1>1, <2>1, <2>2, <3>1 DEF RetryAnswer, RetryInitialize, RetrySubmit, RetryAccept,
           RetryWaive, DeliverableActions
    <2>3. CASE deliverable[c.target].version = c.result.version
      <3>1. /\ ~IsStale(c) /\ IsIntact(c) /\ c.result = deliverable[c.target]
            /\ c.result.evidence \subseteq stored
        BY <1>1, <2>3, PresentIsIntact
      <3>2. Compared(c) = "replayed"
        BY <3>1 DEF Compared
      <3> QED
        BY <1>1, <2>1, <2>3, <3>1, <3>2 DEF RetryAnswer, RetryInitialize, RetrySubmit, RetryAccept,
           RetryWaive, DeliverableActions
    <2> QED
      BY <2>2, <2>3
  <1>2. Inv /\ TrailInv => DeliverableTrail
    BY <1>1, WholeTrail DEF DeliverableTrail
  <1> QED
    BY <1>2, TrailHolds, PTL

=============================================================================
