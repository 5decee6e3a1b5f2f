-------------------------- MODULE DeliverableReplay --------------------------
(***************************************************************************)
(* What a repeated command on a deliverable is answered                    *)
(* (packages/application/src/deliverables).                                *)
(*                                                                         *)
(* A client whose answer was lost sends the command again, under the same  *)
(* idempotency key, whenever it likes.  The handler authorizes it anew,    *)
(* finds the receipt of the first time and compares it with everything the *)
(* store holds by then: the row, the evidence links, the actions, the      *)
(* event and its outbox row.  It answers the first result again, a         *)
(* conflict when the row has moved on, or that the records are corrupt; it *)
(* never changes anything, so a retry is no step and its answer is an      *)
(* operator over the state.                                                *)
(*                                                                         *)
(* Abstractions: a retry carries what the command carried (its             *)
(* fingerprint); another payload under a used key is refused before        *)
(* anything is compared, and left out.  The identifiers, times and reasons *)
(* that are compared too are those of the command that wrote them and      *)
(* stand or fall with its actor, its version and its evidence.             *)
(***************************************************************************)
EXTENDS NodeWork

StatusAfter(operation) == IF operation = "initialized" THEN "pending" ELSE operation

(* Mutant: only the status is compared.                                    *)
IsOvertaken(c) == deliverable[c.target].status # StatusAfter(c.operation)

IsStale(c) ==
    LET now == deliverable[c.target] IN
    \/ now.status # StatusAfter(c.operation)
    \/ now.version # c.expected + 1
    \/ now.version # c.result.version

Taken(actions) == {actions[i].action : i \in DOMAIN actions}

(* The kinds of actions there are once the command was the last one.       *)
Lifecycle(operation, actions) ==
    {"initialized", operation} \cup
        (IF operation = "accepted" \/ (operation = "waived" /\ "submitted" \in Taken(actions))
         THEN {"submitted"} ELSE {})

(* The action of the command, by its caller; the only one of its kind, in  *)
(* a history that ends with it.                                            *)
ActionIsExact(c, record) ==
    LET actions == record.actions IN
    /\ Taken(actions) = Lifecycle(c.operation, actions)
    /\ Len(actions) = Cardinality(Taken(actions))
    /\ \E i \in DOMAIN actions :
           actions[i] = [action |-> c.operation, actor |-> c.actor,
                         evidence |-> IF c.operation = "submitted" THEN record.evidence ELSE {}]

EndIsExact(c, record) ==
    record.endedBy = IF c.operation \in {"accepted", "waived"} THEN c.actor ELSE NoOne

(* The result on the receipt and the records of now are the same.          *)
RecordsAgree(c) ==
    LET now == deliverable[c.target] IN
    /\ c.result = now /\ IsCanonical(now)
    /\ ActionIsExact(c, now) /\ ActionIsExact(c, c.result)
    /\ EndIsExact(c, now) /\ EndIsExact(c, c.result)

(* Exactly one event of the kind, of this version and in this domain; an   *)
(* initialization is the only event there is.                              *)
EventIsExact(c) ==
    LET now == deliverable[c.target]
        published == {e \in events : /\ e.target = c.target
                                     /\ c.operation \in {"initialized", e.event.action}}
    IN  published = {[target |-> c.target, version |-> now.version, domain |-> node.domain,
                      event |-> [action |-> c.operation, actor |-> c.actor,
                                 evidence |-> IF c.operation = "submitted"
                                              THEN now.evidence ELSE {}]]}

WasSubmitted(x) == "submitted" \in Taken(deliverable[x].actions)

EvidenceIsExact(x) == IF WasSubmitted(x) THEN SubmissionStands(x) ELSE deliverable[x].evidence = {}

IsIntact(c) == RecordsAgree(c) /\ EventIsExact(c) /\ EvidenceIsExact(c.target)

Compared(c) ==
    IF IsStale(c) THEN "version_conflict"
    ELSE IF ~IsIntact(c) THEN "record_corrupt"
    ELSE "replayed"

RetryInitialize(c) ==
    IF ~MayInitialize(c.actor) THEN "forbidden"
    ELSE IF Compared(c) = "replayed" /\ ~IsEligible(deliverable[c.target].reviewer)
    THEN "reviewer_not_eligible"
    ELSE Compared(c)

(* The evidence of the command must still be there before it is compared.  *)
RetrySubmit(c) ==
    IF ~MaySubmitEvidence(c.actor) THEN "forbidden"
    ELSE IF ~IsStale(c) /\ ~(c.result.evidence \subseteq stored) THEN "evidence_not_found"
    ELSE Compared(c)

RetryAccept(c) ==
    IF ~MayAcceptDeliverable(c.actor, c.target) THEN "forbidden" ELSE Compared(c)

RetryWaive(c) == IF ~MayWaive(c.actor) THEN "forbidden" ELSE Compared(c)

RetryAnswer(c) ==
    CASE c.operation = "initialized" -> RetryInitialize(c)
      [] c.operation = "submitted" -> RetrySubmit(c)
      [] c.operation = "accepted" -> RetryAccept(c)
      [] c.operation = "waived" -> RetryWaive(c)

-----------------------------------------------------------------------------
(* The actions on a deliverable are its initialization, at most one        *)
(* submission and at most one end, as its status says, and what was        *)
(* submitted is enough and is there (row, links and actions are written by *)
(* different statements of four commands, the row also by migrations).     *)
TrailIsWhole ==
    \A x \in ExistingDeliverables :
        LET actions == deliverable[x].actions
            last == actions[Len(actions)].action
        IN  /\ deliverable[x].status = StatusAfter(last)
            /\ Taken(actions) = Lifecycle(last, actions)
            /\ Len(actions) = Cardinality(Taken(actions))
            /\ EvidenceIsExact(x)

(* The trail is whole, and a retry of a command that took effect is told   *)
(* its result for as long as nothing has happened to the deliverable since *)
(* (another command, a migration), of a conflict from then on, and at no   *)
(* time that the records are corrupt; who has lost the right to the        *)
(* command, or named a reviewer who is no longer eligible, is told that.   *)
DeliverableTrail ==
    /\ TrailIsWhole
    /\ \A c \in receipts : RetryAnswer(c) # "forbidden" =>
           LET now == deliverable[c.target] IN
           RetryAnswer(c) =
               IF now.version # c.result.version THEN "version_conflict"
               ELSE IF c.operation = "initialized" /\ ~IsEligible(now.reviewer)
               THEN "reviewer_not_eligible"
               ELSE "replayed"

=============================================================================
