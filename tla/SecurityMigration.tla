------------------------- MODULE SecurityMigration -------------------------
(***************************************************************************)
(* The durable migration of a subtree from one security domain to another  *)
(* (packages/application/src/security over the SQLite adapter): batches    *)
(* move the objects, a verification freezes a snapshot of them, and then a *)
(* commit or a rollback ends the migration.                                *)
(*                                                                         *)
(* Batches and the start of the verification are single transactions.  A   *)
(* commit or rollback call is not: it reads, issues a challenge, asks the  *)
(* collaboration provider, records the answer as evidence and only then    *)
(* writes, and a rollback that fails writes once more.  Several calls run  *)
(* at once, from several processes, any of which may die, and callers      *)
(* repeat a call whose answer they did not get.                            *)
(*                                                                         *)
(* Abstractions.  The objects (nodes, tasks, assets, deliverables) are     *)
(* numbered in the order of their cursors, so that cursor and migratedItems *)
(* are one number.  A security domain stands for the domain and its epoch; *)
(* a snapshot holds the objects themselves in place of their digest.  The  *)
(* authority of the caller is an arbitrary yes or no each time it is       *)
(* checked.  Evidence expires at any time.  One migration is followed from *)
(* its insertion.  No command writes an object of its project meanwhile    *)
(* (assertProjectSecurityStable), but one: the ingest of an asset whose    *)
(* content was being stored then records its failure without asking.       *)
(***************************************************************************)
EXTENDS Naturals, Sequences

CONSTANTS
    TotalItems,   \* objects of the subtree
    MaxBatch,     \* largest batch
    Handlers,     \* commit and rollback calls in progress at once
    Keys,         \* idempotency keys of their callers
    Ingesting,    \* assets whose content is being stored when it is planned
    MaxVersion,   \* bound on the migration's version
    MaxEvidence,  \* bound on the challenges that are issued
    MaxCalls      \* bound on the commit and rollback calls

ASSUME MigrationAssumption ==
    /\ TotalItems \in Nat \ {0}
    /\ MaxBatch \in Nat \ {0}
    /\ Keys # {}
    /\ Ingesting \subseteq 1..TotalItems
    /\ MaxVersion \in Nat /\ MaxEvidence \in Nat /\ MaxCalls \in Nat

VARIABLES
    migration,  \* its row: state, migrated items, version
    object,     \* object[i]: domain and version of object i
    snapshot,   \* the manifest snapshot, <<>> before it is taken
    evidence,   \* readiness evidence, in the order of the challenges
    ingesting,  \* assets whose content is still being stored
    outbound,   \* an outbound fence or unresolved projection in the subtree
    handler,    \* handler[h]: a commit or rollback call in progress
    receipts,   \* idempotency receipts
    audits,     \* security_migration_audits, which the events accompany
    told,       \* history: the outcomes callers were told
    calls       \* number of calls so far

vars == <<migration, object, snapshot, evidence, ingesting, outbound, handler, receipts,
          audits, told, calls>>

Objects == 1..TotalItems

States == {"planned", "active", "verifying", "committed", "retryable",
           "recovery_required", "rolled_back"}

Terminal == {"committed", "rolled_back"}

Outcome(kind) == IF kind = "commit" THEN "committed" ELSE "rolled_back"

(* Both domains bound every access (dualDomainState).                      *)
DualDomain == {"active", "verifying", "retryable", "recovery_required"}

ObjectType == [domain : {"source", "target"}, version : Nat]

EvidenceType ==
    [purpose : {"commit", "rollback"}, status : {"issued", "verified", "consumed"},
     converged : BOOLEAN, live : BOOLEAN, round : Nat]  \* round: history, see below

HandlerType ==
    [pc : {"idle", "receipt", "check", "issue", "ask", "record", "write", "demote_checked",
           "demote"},
     kind : {"commit", "rollback"}, key : Keys, expected : Nat, evidence : Nat,
     converged : BOOLEAN]

IdleHandler ==
    [pc |-> "idle", kind |-> "commit", key |-> CHOOSE k \in Keys : TRUE, expected |-> 0,
     evidence |-> 0, converged |-> FALSE]

TypeOK ==
    /\ migration \in [state : States, migrated : 0..TotalItems, version : Nat]
    /\ object \in [Objects -> ObjectType]
    /\ snapshot \in [Objects -> ObjectType] \cup {<<>>}
    /\ evidence \in Seq(EvidenceType)
    /\ ingesting \subseteq Ingesting
    /\ outbound \in BOOLEAN
    /\ handler \in [Handlers -> HandlerType]
    /\ receipts \subseteq [kind : {"commit", "rollback"}, key : Keys, expected : Nat]
    /\ audits \in Seq(Terminal \cup {"recovery_required"})
    /\ told \subseteq Terminal
    /\ calls \in Nat

Init ==
    /\ migration = [state |-> "planned", migrated |-> 0, version |-> 1]
    /\ object = [i \in Objects |-> [domain |-> "source", version |-> 1]]
    /\ snapshot = <<>>
    /\ evidence = <<>>
    /\ ingesting = Ingesting
    /\ outbound \in BOOLEAN
    /\ handler = [h \in Handlers |-> IdleHandler]
    /\ receipts = {}
    /\ audits = <<>>
    /\ told = {}
    /\ calls = 0

-----------------------------------------------------------------------------
(* The migration row.                                                      *)

Allowed ==
    [planned           |-> {"active", "rolled_back"},
     active            |-> {"verifying", "retryable", "recovery_required", "rolled_back"},
     verifying         |-> {"committed", "retryable", "recovery_required", "rolled_back"},
     retryable         |-> {"active", "verifying", "recovery_required", "rolled_back"},
     recovery_required |-> {"active", "verifying", "rolled_back"},
     committed         |-> {},
     rolled_back       |-> {}]

CanBecome(state) == state \in Allowed[migration.state]

Become(state) ==
    migration' = [migration EXCEPT !.state = state, !.version = migration.version + 1]

(* The inventory is read as a moved prefix and an untouched rest; anything *)
(* else makes every operation that reads it fail.                          *)
InventoryValid ==
    \A i \in Objects :
        object[i].domain = IF i <= migration.migrated THEN "target" ELSE "source"

(* Whoever drives the migration saves its progress: it is activated, a     *)
(* failure is noted, or a failed migration taken up again.                 *)
SaveProgress(state) ==
    /\ migration.version < MaxVersion
    /\ CanBecome(state)
    /\ state \notin Terminal
    /\ migration.state = "planned" /\ state = "active" => ~outbound
    /\ Become(state)
    /\ UNCHANGED <<object, snapshot, evidence, ingesting, outbound, handler, receipts, audits, told, calls>>

(* Mutant: the last object of a batch is counted but not moved.            *)
ExecuteBatchShort(size) ==
    LET last == IF migration.migrated + size <= TotalItems THEN migration.migrated + size
                                                          ELSE TotalItems IN
    /\ migration.version < MaxVersion
    /\ migration.state = "active"
    /\ InventoryValid
    /\ migration.migrated < TotalItems
    /\ object' = [i \in Objects |->
                    IF i \in (migration.migrated + 1)..(last - 1)
                    THEN [domain |-> "target", version |-> object[i].version + 1] ELSE object[i]]
    /\ migration' = [migration EXCEPT !.migrated = last, !.version = migration.version + 1]
    /\ UNCHANGED <<snapshot, evidence, ingesting, outbound, handler, receipts, audits, told, calls>>

(* Mutant: the last batch is not cut off.                                  *)
ExecuteBatchPast(size) ==
    LET last == migration.migrated + size IN
    /\ migration.version < MaxVersion
    /\ migration.state = "active"
    /\ InventoryValid
    /\ migration.migrated < TotalItems
    /\ object' = [i \in Objects |->
                    IF i \in (migration.migrated + 1)..last
                    THEN [domain |-> "target", version |-> object[i].version + 1] ELSE object[i]]
    /\ migration' = [migration EXCEPT !.migrated = last, !.version = migration.version + 1]
    /\ UNCHANGED <<snapshot, evidence, ingesting, outbound, handler, receipts, audits, told, calls>>

(* The next objects and the checkpoint, in one transaction.                *)
ExecuteBatch(size) ==
    LET last == IF migration.migrated + size <= TotalItems THEN migration.migrated + size
                                                          ELSE TotalItems IN
    /\ migration.version < MaxVersion
    /\ migration.state = "active"
    /\ InventoryValid
    /\ migration.migrated < TotalItems
    /\ object' = [i \in Objects |->
                    IF i \in (migration.migrated + 1)..last
                    THEN [domain |-> "target", version |-> object[i].version + 1] ELSE object[i]]
    /\ migration' = [migration EXCEPT !.migrated = last, !.version = migration.version + 1]
    /\ UNCHANGED <<snapshot, evidence, ingesting, outbound, handler, receipts, audits, told, calls>>

(* A snapshot that is there stays; taking it again passes only if it is    *)
(* the same one, its time of creation included.                            *)
BeginVerification ==
    /\ migration.version < MaxVersion
    /\ migration.state = "active"
    /\ InventoryValid
    /\ migration.migrated = TotalItems
    /\ snapshot \in {<<>>, object}
    /\ snapshot' = object
    /\ Become("verifying")
    /\ UNCHANGED <<object, evidence, ingesting, outbound, handler, receipts, audits, told, calls>>

-----------------------------------------------------------------------------
(* Commit and rollback calls.                                              *)

At(h, pc) == handler[h].pc = pc

Goto(h, pc) == handler' = [handler EXCEPT ![h].pc = pc]

(* The call ends with an error, or with an outcome.                        *)
Fail(h) == handler' = [handler EXCEPT ![h] = IdleHandler] /\ told' = told

Answer(h) ==
    /\ handler' = [handler EXCEPT ![h] = IdleHandler]
    /\ told' = told \cup {Outcome(handler[h].kind)}

(* A commit whose certification fails ends; a rollback demotes first.      *)
NotCertified(h) ==
    IF handler[h].kind = "commit" THEN Fail(h) ELSE Goto(h, "demote_checked") /\ told' = told

(* The caller read the row before, now or one write ago, or repeats a call. *)
Start(h, kind, key) ==
    /\ At(h, "idle")
    /\ calls < MaxCalls
    /\ \E expected \in {migration.version, migration.version - 1} \ {0} :
         handler' = [handler EXCEPT ![h] =
            [pc |-> "receipt", kind |-> kind, key |-> key, expected |-> expected,
             evidence |-> 0, converged |-> FALSE]]
    /\ calls' = calls + 1
    /\ UNCHANGED <<migration, object, snapshot, evidence, ingesting, outbound, receipts, audits, told>>

(* Mutant: the operation is not part of the key.                           *)
ReceiptOfKey(h) == {r \in receipts : r.key = handler[h].key}

ReceiptOf(h) == {r \in receipts : r.kind = handler[h].kind /\ r.key = handler[h].key}

(* A receipt under the key is replayed if the payload is the same and the  *)
(* caller is still authorised.                                             *)
ReadReceipt(h) ==
    /\ At(h, "receipt")
    /\ \/ ReceiptOf(h) = {} /\ Goto(h, "check") /\ told' = told
       \/ /\ ReceiptOf(h) # {}
          /\ \A r \in ReceiptOf(h) : r.expected = handler[h].expected
          /\ Answer(h)
       \/ ReceiptOf(h) # {} /\ Fail(h)
    /\ UNCHANGED <<migration, object, snapshot, evidence, ingesting, outbound, receipts, audits, calls>>

(* The caller's authority, the version and the state are read.  Nothing    *)
(* needs to be certified to roll back a migration that moved nothing.      *)
Check(h) ==
    /\ At(h, "check")
    /\ \/ Fail(h)     \* the caller is not authorised
       \/ /\ \/ migration.version # handler[h].expected
             \/ IF handler[h].kind = "commit" THEN migration.state # "verifying"
                                              ELSE migration.state \in Terminal
          /\ Fail(h)
       \/ /\ migration.version = handler[h].expected
          /\ IF handler[h].kind = "commit" THEN migration.state = "verifying"
                                           ELSE migration.state \notin Terminal
          /\ Goto(h, IF handler[h].kind = "rollback" /\ migration.migrated = 0
                     THEN "write" ELSE "issue")
          /\ told' = told
    /\ UNCHANGED <<migration, object, snapshot, evidence, ingesting, outbound, receipts, audits, calls>>

(* issueReadinessChallenge, in a transaction of its own that looks at the  *)
(* state but not at the version.                                           *)
IssueChallenge(h) ==
    /\ At(h, "issue")
    /\ IF /\ snapshot # <<>>
          /\ IF handler[h].kind = "commit" THEN migration.state = "verifying"
                                           ELSE migration.state \notin Terminal
       THEN /\ Len(evidence) < MaxEvidence
            /\ evidence' = Append(evidence, [purpose |-> handler[h].kind, status |-> "issued",
                                             converged |-> FALSE, live |-> TRUE,
                                             round |-> migration.version])
            /\ handler' = [handler EXCEPT ![h].pc = "ask", ![h].evidence = Len(evidence) + 1]
            /\ told' = told
       ELSE NotCertified(h) /\ evidence' = evidence
    /\ UNCHANGED <<migration, object, snapshot, ingesting, outbound, receipts, audits, calls>>

(* checkEpochReadiness at the provider: an answer that fits the challenge, *)
(* with or without convergence, or one that does not, or an error.         *)
AskProvider(h) ==
    /\ At(h, "ask")
    /\ \/ \E converged \in BOOLEAN :
            /\ handler' = [handler EXCEPT ![h].pc = "record", ![h].converged = converged]
            /\ told' = told
       \/ NotCertified(h)
    /\ UNCHANGED <<migration, object, snapshot, evidence, ingesting, outbound, receipts, audits, calls>>

(* recordVerifiedEvidence; an answer without convergence is recorded too.  *)
RecordEvidence(h) ==
    LET e == handler[h].evidence IN
    /\ At(h, "record")
    /\ IF evidence[e].status = "issued" /\ evidence[e].live
       THEN /\ evidence' = [evidence EXCEPT ![e].status = "verified",
                                            ![e].converged = handler[h].converged]
            /\ IF handler[h].converged THEN Goto(h, "write") /\ told' = told
                                       ELSE NotCertified(h)
       ELSE NotCertified(h) /\ evidence' = evidence
    /\ UNCHANGED <<migration, object, snapshot, ingesting, outbound, receipts, audits, calls>>

(* What both final transactions demand of the evidence, and of the objects *)
(* since the snapshot.                                                     *)
Certified(h) ==
    LET e == handler[h].evidence IN
    /\ e # 0
    /\ evidence[e].status = "verified"
    /\ evidence[e].purpose = handler[h].kind
    /\ evidence[e].converged
    /\ evidence[e].live
    /\ InventoryValid
    /\ snapshot = object
    /\ ~outbound

(* The state, the evidence, the audit with its event, and the receipt.     *)
End(h, spent) ==
    /\ Become(Outcome(handler[h].kind))
    /\ evidence' = IF spent THEN [evidence EXCEPT ![handler[h].evidence].status = "consumed"]
                            ELSE evidence
    /\ audits' = Append(audits, Outcome(handler[h].kind))
    /\ receipts' = receipts \cup {[kind |-> handler[h].kind, key |-> handler[h].key,
                                   expected |-> handler[h].expected]}
    /\ Answer(h)

(* Mutant: the version is not compared.                                    *)
AnyVersion(h) == TRUE

Current(h) == migration.version = handler[h].expected

(* commitWithReadinessEvidence                                             *)
CommitPossible(h) ==
    /\ migration.state = "verifying"
    /\ Certified(h)
    /\ \A i \in Objects : object[i].domain = "target"

WriteCommit(h) ==
    /\ At(h, "write")
    /\ handler[h].kind = "commit"
    /\ IF Current(h) /\ CommitPossible(h)
       THEN End(h, TRUE)
       ELSE Fail(h) /\ UNCHANGED <<migration, evidence, receipts, audits>>
    /\ UNCHANGED <<object, snapshot, ingesting, outbound, calls>>

(* rollbackWithAudit gives every object of the snapshot back, if any moved. *)
Restored ==
    IF migration.migrated = 0 THEN object
    ELSE [i \in Objects |-> IF object[i].domain = "target"
                            THEN [domain |-> "source", version |-> object[i].version + 1]
                            ELSE object[i]]

RollbackPossible(h) ==
    /\ migration.state \notin Terminal
    /\ migration.migrated > 0 => Certified(h)
    /\ \A i \in Objects : Restored[i].domain = "source"

(* Mutant: every rollback is taken for one of objects that never moved.    *)
WriteRollbackPlain(h) ==
    /\ At(h, "write")
    /\ handler[h].kind = "rollback"
    /\ IF Current(h) /\ migration.state \notin Terminal
       THEN End(h, FALSE)
       ELSE Fail(h) /\ UNCHANGED <<migration, evidence, receipts, audits>>
    /\ UNCHANGED <<object, snapshot, ingesting, outbound, calls>>

WriteRollback(h) ==
    /\ At(h, "write")
    /\ handler[h].kind = "rollback"
    /\ \/ /\ Current(h) /\ RollbackPossible(h)
          /\ object' = Restored
          /\ End(h, migration.migrated > 0)
       \/ /\ ~Current(h)
          /\ Fail(h)
          /\ UNCHANGED <<migration, object, evidence, receipts, audits>>
       \/ /\ Current(h) /\ ~RollbackPossible(h)
          /\ Goto(h, "demote")
          /\ UNCHANGED <<migration, object, evidence, receipts, audits, told>>
    /\ UNCHANGED <<snapshot, ingesting, outbound, calls>>

(* The final transaction finds the caller without authority, or fails for  *)
(* a reason of its own; only a rollback answers that with a demotion.      *)
WriteRefused(h) ==
    /\ At(h, "write")
    /\ \/ Fail(h)
       \/ handler[h].kind = "rollback" /\ Goto(h, "demote") /\ told' = told
    /\ UNCHANGED <<migration, object, snapshot, evidence, ingesting, outbound, receipts, audits, calls>>

DemoteNow == Become("recovery_required") /\ audits' = Append(audits, "recovery_required")

(* After a failed certification: only the version the call looked at.      *)
DemoteChecked(h) ==
    /\ At(h, "demote_checked")
    /\ migration.version < MaxVersion
    /\ IF Current(h) /\ CanBecome("recovery_required") THEN DemoteNow
                                                       ELSE UNCHANGED <<migration, audits>>
    /\ Fail(h)
    /\ UNCHANGED <<object, snapshot, evidence, ingesting, outbound, receipts, calls>>

(* Mutant: the state is not looked at.                                     *)
DemoteAlways(h) ==
    /\ At(h, "demote")
    /\ migration.version < MaxVersion
    /\ DemoteNow
    /\ Fail(h)
    /\ UNCHANGED <<object, snapshot, evidence, ingesting, outbound, receipts, calls>>

(* After a failed write: whatever version is there by now.                 *)
Demote(h) ==
    /\ At(h, "demote")
    /\ migration.version < MaxVersion
    /\ IF CanBecome("recovery_required") THEN DemoteNow ELSE UNCHANGED <<migration, audits>>
    /\ Fail(h)
    /\ UNCHANGED <<object, snapshot, evidence, ingesting, outbound, receipts, calls>>

(* The process dies, or a transaction that nobody handles fails.           *)
Crash(h) ==
    /\ ~At(h, "idle")
    /\ Fail(h)
    /\ UNCHANGED <<migration, object, snapshot, evidence, ingesting, outbound, receipts, audits, calls>>

-----------------------------------------------------------------------------
(* Around the migration.                                                   *)

Expire(e) ==
    /\ evidence[e].live
    /\ evidence' = [evidence EXCEPT ![e].live = FALSE]
    /\ UNCHANGED <<migration, object, snapshot, ingesting, outbound, handler, receipts, audits, told, calls>>

(* Projections of the subtree start and end while no two domains bound it  *)
(* (CollaborationProjection!ProjectionAllowed).                            *)
Project ==
    /\ migration.state \notin DualDomain
    /\ outbound' = ~outbound
    /\ UNCHANGED <<migration, object, snapshot, evidence, ingesting, handler, receipts, audits, told, calls>>

(* recordFailure of an ingest: the asset passes from initiated, or failed, *)
(* through uploading to failed, which are two versions.                    *)
RecordIngestFailure(i) ==
    /\ i \in ingesting
    /\ migration.state \notin Terminal
    /\ ingesting' = ingesting \ {i}
    /\ object' = [object EXCEPT ![i].version = object[i].version + 2]
    /\ UNCHANGED <<migration, snapshot, evidence, outbound, handler, receipts, audits, told, calls>>

Call(h) ==
    \/ \E kind \in {"commit", "rollback"}, key \in Keys : Start(h, kind, key)
    \/ ReadReceipt(h) \/ Check(h) \/ IssueChallenge(h) \/ AskProvider(h) \/ RecordEvidence(h)
    \/ WriteCommit(h) \/ WriteRollback(h) \/ WriteRefused(h)
    \/ DemoteChecked(h) \/ Demote(h) \/ Crash(h)

Next ==
    \/ \E state \in States : SaveProgress(state)
    \/ \E size \in 1..MaxBatch : ExecuteBatch(size)
    \/ BeginVerification
    \/ \E h \in Handlers : Call(h)
    \/ \E e \in DOMAIN evidence : Expire(e)
    \/ \E i \in Objects : RecordIngestFailure(i)
    \/ Project

Spec == Init /\ [][Next]_vars

-----------------------------------------------------------------------------
(* Properties.                                                             *)

(* Whatever crashes, failures and resumptions cut the work short, the      *)
(* objects that have moved are exactly the first migratedItems: batches    *)
(* can always be taken up at the cursor.                                   *)
MovedPrefix == migration.state \notin Terminal => InventoryValid

(* A migration ends as a whole: committed with every object moved, rolled  *)
(* back with every object where it was.                                    *)
EndsWhole ==
    /\ migration.state = "committed" => \A i \in Objects : object[i].domain = "target"
    /\ migration.state = "rolled_back" => \A i \in Objects : object[i].domain = "source"

Spent == {e \in DOMAIN evidence : evidence[e].status = "consumed"}

(* The provider certified what was written: a commit, and a rollback of    *)
(* moved objects, spends exactly one piece of evidence, for its own        *)
(* purpose and with convergence, and about the version it ended: an answer *)
(* from before the migration left its state and came back does not count.  *)
EndsCertified ==
    /\ migration.state \notin Terminal => Spent = {}
    /\ migration.state = "committed" \/ (migration.state = "rolled_back" /\ migration.migrated > 0) =>
         \E e \in Spent :
            /\ Spent = {e}
            /\ evidence[e].purpose = IF migration.state = "committed" THEN "commit" ELSE "rollback"
            /\ evidence[e].converged
            /\ evidence[e].round + 1 = migration.version

(* The snapshot a rollback restores from, and a certification is about,    *)
(* does not go stale while the migration is open, in whatever states it    *)
(* passes: nothing moves after it is taken, and nothing else changes but   *)
(* assets whose ingest failed.                                             *)
SnapshotIsKept ==
    snapshot # <<>> /\ migration.state \notin Terminal =>
        \A i \in Objects : /\ snapshot[i].domain = object[i].domain
                           /\ i \in ingesting \/ i \notin Ingesting => snapshot[i] = object[i]

(* So an open migration can be continued from its cursor, certified or     *)
(* rolled back from its snapshot, wherever its handlers were cut short.    *)
OpenIsRestorable == MovedPrefix /\ SnapshotIsKept

(* "All existing write paths keep calling the project stability guard and  *)
(* are frozen" (P0-07-TC-SEC-002H.md:21), so that the snapshot stays what  *)
(* the objects are and the migration can end.                              *)
SnapshotIsCurrent ==
    snapshot # <<>> /\ migration.state \notin Terminal => snapshot = object

(* Commit and rollback exclude each other: one terminal audit, with its    *)
(* event, and only the one of the state that was reached.                  *)
AuditedOnce ==
    LET ends == {n \in DOMAIN audits : audits[n] \in Terminal} IN
    /\ \A n \in ends : audits[n] = migration.state
    /\ \A m, n \in ends : m = n
    /\ migration.state \in Terminal => ends # {}

(* No caller is told of an outcome that is not the migration's, not by a   *)
(* replayed receipt either.                                                *)
AnswersAreTrue == told \subseteq {migration.state}

=============================================================================
