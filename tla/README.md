# project-process-map: TLA+ models and proofs

A verification development for the server side of *project-process-map*: a
TypeScript service that keeps projects, process nodes, tasks, assets and
deliverables in SQLite, projects tasks and assets into a collaboration provider
(Huly), and moves subtrees of a project between security domains; and the
orchestrator (*Cindy*) that drives a coding task through build, test, review and
repair on a working copy of the repository itself.  The models are written from
the source; where source and document disagree, the model follows the source and
the run list says so.

Paths below are relative to the repository.  `tlc -config X.cfg M` checks a run,
`tlapm M.tla` the proofs of a module.

## 1. The system

### Components, state, operations

| Component | State it keeps | Operations | Modelled in |
|---|---|---|---|
| Outbox, job queue, worker (`apps/worker/src/worker.ts`, `packages/adapters/src/sqlite/persistence.ts` 4890-5015) | rows of `outbox_messages` and `background_jobs`: state, due time, attempts, lease owner, token and expiry; a worker's batch and the instant of its cycle | claim, mark published / completed, release, defer, dead-letter, reschedule; one cycle of a worker | `WorkQueue`, `LeasedQueue` |
| Collaboration projection (`packages/application/src/integrations/project-collaboration.ts`) | integration operation, outbound fence, external binding; objects at the provider | process a task job, process an asset job, each several transactions with provider calls between | `CollaborationProjection` |
| Integration operations and recovery (`packages/domain/src/integration-operations.ts`, `recover-integration.ts`) | `integration_operations` | advance, operator's retry | `IntegrationOperations`, `CollaborationProjection` |
| Security-domain migration (`packages/application/src/security/*migration*`, `packages/adapters/src/security-migration-coordinator.ts`) | migration row, domain, epoch and version of each object, manifest snapshot, readiness evidence, audits, receipts | save progress, execute batch, begin verification, commit, roll back | `SecurityMigration` |
| Asset ingest and download (`packages/application/src/assets`, `packages/adapters/src/filesystem`) | asset row, operation, blob and metadata file, replica, binding, receipt | attach, download | `AssetIngest` |
| Tasks and reviews (`packages/domain/src/tasks.ts`, `application/src/tasks`) | task row with execution and review state, append-only review actions with cycles | create, start, complete, submit, withdraw, accept, reject, assign reviewer and assignee | `NodeWork` |
| Deliverables (`packages/domain/src/deliverables.ts`, `application/src/deliverables`) | requirement, evidence, actions; the events and receipts a retry is compared with | initialize, submit, accept, waive, and each of them repeated under its key | `NodeWork`, `DeliverableReplay` |
| Process nodes (`executeAssignNodeLeader`, `executeCompleteProjectNode` of the SQLite adapter) | node tree, leader, completion, domain | create, assign leader, complete, become sensitive, migrate | `NodeWork` (leader, completion, domain) |
| Security roots, grants, memberships, access (`application/src/security`, `application/src/access`) | memberships, domains with a permission version, grants | create root, set and revoke a grant, demote and revoke a member; every authorisation | `ProjectAccess`, composed into `NodeWork` |
| Role slots | template slots, bindings | initialize, assign | plan |
| Cindy orchestrator (`tools/cindy`) | `run.json` of each run, its evidence (test, diff, request, result of each cycle), two kinds of lock files; it reads the checkout, its upstream, the task packet and the working tree | create a run, five steps, pause, safety stop, resume, record evidence, prepare for review, start a review, judge it, consume a PASS | `CindyAuthority`, `CindyLoop`, `CindyStore` |
| Identity resolution, event schemas, contracts, API client, Huly extension, scripts, in-memory adapter | - | - | not modelled, see section 7 |

### How they interact

* A command handler runs one SQLite transaction: it changes rows, appends a
  domain event and an outbox message, schedules jobs and inserts a receipt.
  Transactions are serialised by the adapter (`exclusive`), so one transaction
  is one atomic step.
* Handlers that talk to a provider or to the file store *cannot* hold a
  transaction meanwhile.  They are sagas: several transactions with an await
  between them.  Projection, ingest and the ends of a migration are such; their
  models put the step boundaries there.
* The commands on tasks, deliverables, nodes, grants and memberships are single
  transactions.  What is hard about them is the order: a command is composed on a
  version somebody read and is carried out, or refused, after anything else.
* Worker processes claim outbox and job rows under leases and call the
  projection handler; the handler answers `done`, `deferred` or throws.
* The projection asks the security scope before it starts, and the activation
  of a migration asks the fences and operations of its scope.
* Write commands refuse to work while a migration of their project is open
  (`assertProjectSecurityStable`).
* Cindy stands beside the server.  Its processes share files only: a call reads
  the run and the checkout, waits for the lock file of the run, checks again,
  stages a file and renames it, and Git and the files belong to others meanwhile.

### What is hard here

Leases that run out under a living worker; answers that come after a takeover;
three records (job lease, fence, operation) with an owner each; deferrals that
must not consume the attempts; crashes between an external success and its local
record; migrations that begin between two transactions of a saga; commit and
rollback that race; a certification that outlives its round; a demotion that
comes after the end; calls repeated under an idempotency key; files half written;
judgements passed on what has changed since; rights that others lose or replace
while a review is pending; a domain that must never lose its last administrator;
retries that meet what others did since; a working tree that moves between a test,
a review and the record of either, under processes that die holding a lock.
`PROJECT.json` lists each at its line.

## 2. Modules

* **`LeasedQueue`** - what a leased queue promises without time: a row is
  pending, leased to an owner, done or a dead letter, with an attempt count.  It
  is the abstract specification of `WorkQueue`, and `CollaborationProjection`
  uses its operators for the jobs it runs over.
* **`WorkQueue`** - the two tables and the workers over a clock.  `Claim` takes
  up to `BatchSize` ready rows of a table in order of priority, writes a fresh
  token and a lease; the cycle reads its instant once (`worker[w].now`), and each
  item of the batch is then finished, released, deferred or rejected under the
  token it was claimed with, however late.  `Crash` drops a worker at any
  point.  History variables (`charged`, `rejected`, `succeeded`) carry what the
  properties say about the past.
* **`IntegrationOperations`** - the transition table of
  `advanceIntegrationOperation`, shared by two modules.
* **`CollaborationProjection`** - a step per transaction and per external call
  of a task run and of an asset run, for several workers; requests travel and
  may be lost, and take effect at the provider after their sender is gone.
  Migrations of a scope are planned, opened and closed beside it; an operator
  retries.
* **`SecurityMigration`** - one migration from its insertion to its end:
  `SaveProgress`, `ExecuteBatch` and `BeginVerification` are single
  transactions, a commit or rollback call is a sequence of them (receipt, check,
  challenge, provider, evidence, final write, demotion).  `Crash` ends a call
  anywhere.  `RecordIngestFailure` is the one write to its objects that does not
  ask for an open migration.
* **`AssetIngest`** - the three transactions of an attach call and the two files
  between them, each of which may be left unfinished; calls repeat under a key,
  two keys may name one asset; a download reads beside it, and a migration moves
  the asset.
* **`ProjectAccess`** - memberships (`standing`), grants and the permission
  version of each domain.  `CanAccess` is `canAccessProjectObject`; `SaveGrant` and
  `RestrictMembership` are the two write paths with the check that each domain keeps
  an administrator.  `rooted` says whose root node is still in its domain: grants
  of the others cannot be changed (`authorizedDomain`), nor the memberships of those
  who have rights there.
* **`NodeWork`** - the tasks, deliverables, leader and completion of one node,
  under `ProjectAccess`.  Each command is an action; the judgements (accept,
  reject, waive, complete the node) are composed first, with the version and the
  sight their author had (`sent`), and carried out later.  `reviews` and `actions`
  are the append-only records of a task and a deliverable; `counted` remembers
  what the completion found.  `events` and `receipts` are kept for deliverables.
* **`DeliverableReplay`** - what the retry of a command on a deliverable is
  answered.  A retry changes nothing, so its answer is an operator over the state
  (`RetryAnswer`), which compares receipt, row, links, actions and event as the
  handlers do.
* **`CindyAuthority`** - how the repository is judged: `Evaluate` is
  `evaluateGitAuthority` with its checks in their order, `LockedAuthority` the
  inline checks of a transition, `MayBind` those of a new run and its scope.
  `Divergence` is `missing` without an upstream and when the commits between cannot
  be counted (`git.counted`).  Also the states of a run and the edges between them.
* **`CindyLoop`** - what the orchestrator promises: each operation at one instant,
  on the checkout, tree and evidence of that instant.  `run` holds the `run.json`
  files, `evidence` the artifacts, one for each run, kind and cycle.  The world
  (`git`, `tree`, `inputs`) changes at any time.
* **`CindyStore`** - the calls behind it: what a call reads before it waits
  (`Ask...`), the lock (`Lock...`, `Begin...`), the staged record, the checks before
  the rename (`Confirm`, `Fence`), the rename (`Finish`, `WriteEvidence`), a call
  refused, or failed by the disk, before its rename (`GiveUp`), and a process that
  dies with its lock (`Crash`, or after the write, `AfterHolder`).  It implements
  `CindyLoop` over the same files, so its refinement mapping is the identity and
  hides the locks and calls.
* **`WorkQueueProofs`**, **`CollaborationProjectionProofs`**,
  **`SecurityMigrationProofs`**, **`AssetIngestProofs`**, **`NodeWorkProofs`** (with
  `ProjectAccess`), **`NodeTrailProofs`** (with `DeliverableReplay`),
  **`CindyLoopProofs`** (with `CindyAuthority`), **`CindyStoreProofs`** - theorems for
  all constants.
* **`MC...`** - instances for TLC: symmetry sets and values of function-valued
  constants, nothing else.

Definitions whose comment begins with "Mutant:" are deliberate errors that stand
before the definition they distort.  No specification uses them; putting one in
the place of its original makes a property fail, which shows that the property
watches that code.

## 3. Runs

| Run | Question | Bounds and why they suffice |
|---|---|---|
| `queue_batches` | Are leases honoured, is the budget exact, are dead letters earned, was acknowledged work done, does only the holder settle a row, does the timed queue implement `LeasedQueue`? | an outbox row and two jobs in one batch, two workers, three claims, clock to 1 with a lease of 1: a lease can run out under the first and under the second item, be taken over, and be answered late |
| `projection_assets` | Do completed operations have their objects, do attachments have their issue and blob, does a fence guard its operation, do superseded runs change nothing? | a task and its asset, two workers, two missed deadlines: job and fence can be lost by different holders, crosswise |
| `projection_settles` | Does an open migration freeze its scope, does every job settle and every operation end? | a task and its asset, one worker that may crash once, one migration |
| `projection_left_behind` (violated) | Can a job be done while its operation is not? | a crosswise takeover, one crash |
| `migration_races` | Can an open migration always be restored from its snapshot, does it end whole, once and certified; are its answers true? | two objects, two calls in progress, three calls, two certifications, six versions: enough for a failure, a resumption and a race; one asset is being ingested |
| `migration_snapshot` (violated) | Is the snapshot current until the end? | one object whose ingest fails late |
| `ingest_calls` | Is an asset completed once, whole and with one answer; is a download never torn by a migration? | two keys, two contents, two calls at once, four in all, two moves (there and back) |
| `ingest_continues` (violated) | Can every unfinished ingest be continued? | one call that dies |
| `node_reviews` | Are reviews whole cycles, decided as seen and always decidable; does a domain keep its administrator, does its version tell of every change of access? | two managers, one task, one domain; six versions of the task: two cycles with an assignment between; grants of the lowest and the highest capability, two grant commands; the node moves into or out of the domain or is led |
| `node_gate` | Does a completed node stay complete; is a deliverable submitted and ended once, and what is a retry of its commands told? | a manager and a member who leads the node from the start (`FirstLeaders`), a task, a deliverable and an asset, four versions each, and one change of the node: another leader, a migration or its completion |
| `node_reviewers` (violated) | Can the reviewer of a pending task decide it? | a manager and a member, no domain |
| `cindy_calls` | Do the calls of several processes implement `CindyLoop`; is a review of what was tested, is a verdict final, where do the three judgements of Git differ? | two processes, two runs, three trees, two states of the inputs; three scopes: the packet's (one tree is outside), a narrower one and a broader one; eight checkouts, one for each way the repository can be judged: in order, `rev-list` failing, ahead, behind, diverged, a bad closure, a malformed packet, detached without an upstream; it begins in order and with an explained tree, and two moves of the world (away and back, or a tree and a checkout) reach every checkout under every tree; one crash, after which the world stands still, since the lock that stays lets little more happen; nine versions of a run, which reach the test of a second cycle |

Every cfg sets `CHECK_DEADLOCK FALSE`: all systems really stop when their bounded
work is done.  Bounds named `Max...` stand in the guards of the actions that
would otherwise count without end.  Symmetry is over interchangeable processes
and only in runs without liveness.

### What the violated runs show

* `projection_left_behind` - a run that finds itself superseded in its last
  transaction returns without saying so; the worker completes the job.  If the
  superseding run then dies, nobody is left to finish the operation.
* `ingest_continues` - only `planned` and `retryable` operations are taken up,
  and only a failure of the store makes one `retryable`.  A crash, or a refused
  last transaction, leaves it `running` for good; the recovery excludes ingests.
* `migration_snapshot` - `recordFailure` of an ingest writes the asset without
  asking for an open migration, and an ingest does not hold back an activation.
  The snapshot is stale from then on, another is refused, and both ends of the
  migration compare it: it can no longer end.
* `node_reviewers` - accepting and rejecting ask for the capability `edit`, which
  a node with a leader refuses to everybody but the leader and the managers.  A
  designated reviewer who is neither gets `TASK_NOT_FOUND`.  For deliverables the
  reviewer needs `view` only, so that there the question does not arise.

Observations on which no run is spent:

* The claim of a queue row never compares the attempts with their maximum; only
  a released failure does.  A row whose workers die is claimed again and again.
* `writeFile` of the content store creates a file before it has written it; an
  error in between leaves a beginning under a name all retries share, and each
  finds it unequal to its content.
* A completed node accepts new tasks and deliverables; `CompletionHolds` speaks
  of those that its completion counted.
* When a migration has moved the root of a domain out of it, its grants can no
  longer be changed (`rooted`).
* A grant or membership cannot be revoked while a migration of the project is
  open (`manage-security-grant.ts` 82), however long that is.
* The last-administrator checks concern domains: the last manager of a project
  without one can demote himself.
* The states `canceled` and `promoted` of a task and `evidence_due` of a
  deliverable are read but never written.
* An asset job that waits for its task in vain becomes a dead letter before its
  operation exists, so the recovery (`recover-integration.ts` 78) has nothing to
  resume.
* A migration that moved some but not all objects has no snapshot and can be
  rolled back only after its batches are completed.
* The second demotion in `rollback-security-migration.ts` (186) does not compare
  the version the first (108) does, which is harmless because a terminal state
  refuses it.
* A retry of a submission whose answer was lost is told `VERSION_CONFLICT` once
  somebody accepted or waived the deliverable or a migration moved it, though the
  submission took effect.  `DeliverableTrail` states exactly when.
* Cindy: the lock of a process that died is never taken over (the code defers it
  as Decision D), so that its run stays where it is; that of run creation blocks
  every new run.
* Cindy: a safety stop taken in `READY_FOR_REVIEW` or `REVIEWING`, or whose reason
  is `CONTRACT_CONFLICT`, cannot be resumed, and neither can a manual pause; no
  state a run can reach is terminal, so such a run keeps its task.
* Cindy: a `FAIL` recorded as the test of a cycle, or an edit after its `PASS`,
  leaves the run in `TESTING`: the slot is taken, and only a failed review opens a
  new cycle.
* Cindy: `consumeReviewPass` does not look at the state of the run, nor at its
  tests.  Its first evaluation of Git lets a dirty tree pass that the run does not
  own; its final fence (`orchestrator.ts` 649-668) refuses it.  `ReviewedWasTested`
  shows that a PASS it hands out is of a tree that was tested.
* Cindy: when `rev-list` fails, `checkGitUpstreamStatus` reports the upstream and
  `missing` between (`git.ts` 139-141, 156-158).  `evaluateGitAuthority` does not
  ask for `missing` and passes: evidence can be recorded and a PASS consumed, and
  no safety stop can be derived.  The creation of a run, the inline checks of a
  transition and the fence before its rename refuse it (`artifact-store.ts` 2413,
  3160, 4324), so that no run is created or moved.  "Shared identically across
  initRun, resumeRun, and reconcileCurrentState" (`git.ts`, of
  `evaluateGitAuthority`) is not so: `initRun` has checks of its own.
  `AuthoritiesAgree` says where the routines differ and that they do nowhere else.
* A membership cannot be restricted either while its holder has rights in a domain
  whose root has left it: the event of the domain cannot be placed and the command
  is rolled back (`restrict-project-membership.ts` 195).
* Cindy: `cindy-orchestration.md` (125) speaks of at most three automatic repair
  cycles; the count is left to the caller, the code has none.

## 4. Fairness

Only `projection_settles` needs it (`CollaborationProjection!FairSpec`).

* Weak fairness of each worker's steps: a process that lives runs its event
  loop, and every provider call ends (the adapter has timeouts).
* Strong fairness of claiming each job: a worker polls at an interval, and a job
  may be ready and not ready in turn while it is deferred.
* Weak fairness of fences running out: time passes.
* Weak fairness of a migration being closed: this is the operator's duty, not
  the code's.  Without it a job in its scope is deferred for ever, by design.

Nothing is assumed of crashes, losses or the operator's retries.

`cindy_calls` assumes none: the orchestrator is called by people and scripts, and
nothing promises that they call again.

## 5. Proofs

`WorkQueueProofs` proves for all items, workers, batch sizes, lease times and
bounds that satisfy `WorkQueueAssumption`:

* `QueueTyped` - `Spec => []TypeOK`.
* `LeasesAreHonoured`, `LeasesAreExclusive` - from `LeaseInv`, the conjunction of
  the type invariant with: every item of a worker whose lease is alive is held
  by it (`ClaimsHeld`), a batch has no item twice (`ItemsDistinct`), no two claims
  share a token (`TokensDistinct`), and a worker's instant is not ahead of the
  clock (`NowIsPast`).  Honouring alone is not inductive: a late answer settles a
  row by its token, so tokens have to be distinct, and the row of a live lease is
  not ready because the instant its claimer compares cannot be before the
  lease's end.
* `BudgetIsExact`, `DeadLettersAreEarned`, `AcknowledgedWasProcessed` - from
  `BudgetInv`: types, the relation of attempts to charged claims in every state
  of a row (`RowsOK`), and that what a worker is about to acknowledge succeeded
  (`AcksEarned`).
* `OnlyHoldersSettle`, `QueueKeepsItsContract` - from `HolderInv`, which adds to
  `LeaseInv` what is still true when a lease is over: a claim whose token is that of
  its row is of the worker the row names (`HoldersOwn`), and only jobs come up in
  the second half of a cycle, which alone defers and rejects (`JobsInJobBatches`).
  The first makes a late settlement one of the owner in `LeasedQueue`, which knows no
  tokens; without the second an outbox row could be deferred, which the contract
  does not allow.  A claim of a batch is one step of both: every row of it was
  pending, or leased to somebody whose time was up.

`CollaborationProjectionProofs` proves `ProjectionIsTyped`, `ReplicasExist`,
`AttachmentsHaveGround`, `FencesGuard`, `SupersededRunsChangeNothing` and
`ScopesStayFrozen` under `ProjectionAssumption`, for any number of workers and with
no use of the bounds on crashes, missed deadlines and migrations.  `Inv` is the
first four of these properties with

* `RunFits`, `RequestsFit`: what a run has passed is there for good.  A run about to
  complete has its object, one about to attach has the issue and the blob, and so
  has a request of it that is still travelling when the run is long gone;
* `OperationsFit`: an operation has an owner as soon as it exists, and none is planned
  ahead or compensated, so that one with a request under way which is resolved has
  completed, and the request finds its object there;
* `ScopeIsResolved`: while a migration is open no operation of its scope is under
  way.  Opening checks it, and from then on nobody starts one.

The two action properties follow from three lemmas: what a run may change and as
whose owner (`RunChanges`), what the operator's retry may (`RetryChanges`), and what
a late request may bring about in a frozen scope, nothing (`FrozenObjects`).

`SecurityMigrationProofs` proves `MigrationIsTyped`, `OpenMigrationsAreRestorable`,
`MigrationsEndWhole`, `EndsAreCertified`, `EndsAreAuditedOnce` and
`CallersAreToldTheEnd` under `MigrationAssumption` (something to move, a key to call
with) and with no use of the bounds.  `Inv` has a part for each record that has to agree with the others:

* `ProgressInv`: the objects are as far as the cursor says, and a snapshot that is
  taken is of all of them moved;
* `EvidenceInv`: evidence is not from a later round than now, and is spent only by
  an end;
* `CallFits`: a call has not seen a later version than there is, and its evidence was
  asked for since.  An end compares the version the call saw with that of now, so
  its evidence is of this round, however long the provider took and whatever other
  calls did meanwhile;
* `OutcomeInv`: the audit, the receipts and the answers given name the end that the
  migration came to.  None is changed later, since no edge leaves a terminal state.

`NodeWorkProofs` proves of `ProjectAccess` `AlwaysAdministered` under
`AccessAssumption`: the invariant is types and `DomainsKeepAdministrator` itself,
which is inductive.  A saved grant leaves its proposed holder or somebody else as
administrator, a restricted member administers no domain alone, and what expires
was not a permanent grant; one lemma for each.

Of `NodeWork` it proves `AdministeredWhileWorking`, `ReviewsAreDecidable` and
`AccessIsVersioned` under `WorkAssumption`.  `NodeInv` adds to the invariant above
that the node is typed and that its domain, if it has one, exists: a domain is
never removed, and a node enters only one that exists.  The administrator of that
domain is a manager whose grant includes editing, and a leader excludes no manager;
so he may judge any pending task.  Access is versioned because a command that does
not raise the version of a domain changes no grant in it and the standing of
nobody who could at least view it (`AccessKept`, `RestrictionIsVersioned`).

`NodeTrailProofs` proves `WorkIsTyped`, `ReviewsAreWholeCycles`, `CompletionsHold`,
`DecisionsAreInformed` and `RetriesAreAnsweredTruly` under `AccessAssumption` and
`WorkAssumption` (a task is no deliverable, a deliverable asks for some evidence).
`Inv` is `NodeInv` with

* `TasksFit`: the row of a task agrees with its reviews, of which each follows the
  one before (`RowFits`).  `ReviewTrail` needs three facts that it does not state: a
  task under review has a reviewer, its assignee is still who submitted it (so a
  withdrawal is by the submitter), and what is accepted is completed (so it is
  neither submitted nor assigned again);
* `SentInformed`: a judgement under way names a version that has been, and if that
  is the version of now, what it saw is there now.  Every saving of a row, a
  migration's too, raises its version, so comparing it is enough;
* `CountedExists`: what the completion counted existed, so it is not created again.

There is one lemma for each command, and three for what they share: saving a task,
a deliverable, the node.

Retries are answered truly because of `TrailInv`, which says of every deliverable
that its row follows from its actions (`TrailFits`), that it has at most one event
of each kind, and of every receipt that the row it holds is one a command can have
left, is the row of now if the versions are the same, and has its event
(`ReceiptFits`).  `DeliverableTrail` compares records of now only and is not
inductive: a migration raises the version of a row without an event or a receipt, so
it is needed that events and receipts carry the version they were written under,
and that one of the present version is of the present domain of the node.

`AssetIngestProofs` proves `IngestIsTyped`, `FilesHaveOneWriter`, `IngestCompletesAtOnce`,
`CompletedIsStored`, `CallersAreToldTheSame` and `DownloadsAreOfOnePlace` under
`IngestAssumption` and `RecordAssumption` (the marker `None` is no record), with no
use of the bounds.  What the properties leave out and the induction needs:

* `SagaInv`: there is one operation, of the asset's content, because a second key
  finds the asset; until it completes the asset is initiated or failed, so an
  asset that is neither has its receipt;
* `CallInv`: a call past the first transaction carries the content of its operation,
  and one past the second found it running or completed.  A failure makes the
  operation retryable, and the call that recorded it was the only one there;
* `FileInv`: what the call at work has written it has written to the end.  A file
  once stored never changes, since a write needs that there is none;
* `DownloadInv`: a download that saw fewer moves than there were holds an earlier
  version than the asset's.

The two Cindy modules prove under the assumptions of `CindyAuthority`, `CindyLoop`
and `CindyStore` (a history of commits with packets in line; a value `Nothing`
that is no record; owners of locks told apart), for any number of processes,
runs, commits, trees and inputs, and with no use of the bounds:

* `CindyLoopProofs` first frees `Evaluate` of `CindyAuthority` from the order of its
  checks: it fails when one of them does, and then names a pause and a reason
  (`EvaluationFails`).  So it is a condition on the repository, which the other two
  judgements are compared with (`BindingIsEvaluation`, `LockedIsEvaluation`).  They
  differ in a committed closure, in an upstream that cannot be compared and in the
  scope a caller asks for, and in nothing else.
* It then proves `LoopTypes`, `ReviewsAreOfTestedTrees` and
  `HistoryFollowsEvidence` from `LoopInv`.  `ReviewedWasTested` is not inductive: that a
  PASS is of a tested tree needs that results were tested when they were stored
  (`ResultsWereTested`), hence that the request they answer is the only one of its
  cycle (`OneArtifactPerSlot`) and named the tree the run is bound to
  (`GatesHold`), and that evidence belongs to cycles already begun
  (`EvidenceIsOfRun`), so that a new cycle starts with empty slots.  `JudgementsAgree`
  adds `BoundToOpenTask`: a run is bound to a commit without a closure, and its
  binding never changes.
* `CindyStoreProofs` proves the refinement, `StoreImplementsLoop`.  `StoreInv` says of
  every call that holds a lock that what it has staged is `Allowed` by the run and
  the evidence as they are, on the tree it is bound to.  Only the holder of a lock
  writes behind it (`OnlyOwn`), so this lasts (`OthersHold`); evidence that others
  add disallows nothing (`MovingStays`).  The fence then compares the tree and the
  checkout, and the step is the operation that was staged (`AllowedIsOperation`).
  `StoreIsSafe` draws the conclusion.

The proofs have one step for each action and one lemma for each kind of
update; temporal steps are the usual two lines over PTL.

Every safety invariant, action property and refinement that a passing run checks is
stated by a theorem.  Only model-checked: `EveryJobSettles` and `EveryOperationEnds`,
because liveness under fairness is out of the prover's reach, and that the four
violated properties are violated, which only a counterexample shows.

## 6. Abstractions worth knowing

* **Time.** `WorkQueue` has a clock, because its properties are about leases.
  In `CollaborationProjection` a lease or fence may run out at any moment, but
  only `MaxSlow` times under a living holder.
* **Identity.** Where the code hashes a payload into a fingerprint, or derives an
  id from a key, the model uses the payload or the key itself.  Collisions are
  not considered.
* **Authority** is modelled in `ProjectAccess` and `NodeWork`.  Elsewhere it is an
  arbitrary answer each time it is checked (`SecurityMigration!Check`,
  `WriteRefused`; `AssetIngest!writable`, `viewable`), which includes every change
  `ProjectAccess` can make to it.
* **Migrations beside commands.** While one is open every command of `NodeWork` is
  refused; so there a migration is one step that moves the node and all its
  objects, which is what `SecurityMigration` shows of it (`EndsWhole`).
* **Refusals and replays** of a single-transaction command change nothing and are
  no steps of `NodeWork`; what a replay on a deliverable is told is an operator
  (`DeliverableReplay`).
* **Principals** are numbers because an eligible reviewer is chosen by the order of
  ids; `NoOne` is 0.
* **Objects** of a migration are numbered in the order of their cursors, so that
  the cursor and the count of migrated items are one number; a domain stands for
  the domain and its epoch.
* **Events, audit texts, steps** of an operation accompany a write and are left
  out, except the audits of a migration and the events of deliverables, which
  properties are about.
* **Digests** of Cindy (tree, diff, execution snapshot) are the contents themselves:
  a tree with its diff is one value, the snapshot is the tree and the declared
  inputs.  A call awaits the digest of the tree and the snapshot one after the other;
  the model reads them at one instant.  `consumeReviewPass` reads twice and compares,
  and `Consumable` is what it asks for at the second reading.  `git log -1` over the
  task packet is the last edit of it in a history where these edits are in line.
* **The last fence** of a Cindy transition and the rename behind it are one
  step: the code runs them without an await, and what another program does
  within those few system calls is not considered.

## 7. Not modelled

Planning a migration (an inventory is counted once); identity resolution (one
lookup and one insertion); event schemas, contracts and the API client (shape
checks); the in-memory adapter (a test double with the same contract); DDL of
the SQLite schema; HTTP parsing and routing; the Huly extension (manifests and a
view); packaging and verification scripts; the data under `.agent`.

Role slots: their bindings are one conditional write under the same version
check as any other command; `NodeWork` takes the members of a slot as a constant.
Unlike a retry on a deliverable, that of an assignment returns its old result
even when the slot was assigned again since.

Of Cindy: `reconcile.ts`, which reports and changes nothing; the import of tasks
of the previous format; calls that find their work done and return; the sealed
states after a review (`FINAL_GATE` on), which no edge reaches; the computation of
digests and the parsing of `git status`.

## 8. Plan

Done first, because most depends on it: the queue and the sagas that run on it
(`WorkQueue`, `CollaborationProjection`), migration and ingest, then the access
rules and the work they govern (`ProjectAccess`, `NodeWork`), the retries of its
commands (`DeliverableReplay`), and the orchestrator (`CindyAuthority`, `CindyLoop`,
`CindyStore`), with the safety of all of them and the two refinements proved.  What
is left, in this order:

1. `RoleBindings`: slots, bindings, exclusive slots under concurrent assignment,
   and the reviewers tasks take from them; composed with `ProjectAccess`.
2. `MigrationPlanning`: the inventory, its readiness evidence and the decision to
   activate, in place of the count `SecurityMigration` starts from.
3. `NodeTree`: creation of projects, nodes and relations; what a migration's scope
   is while the tree grows.
4. `SecurityMigration` with `ProjectAccess` in place of the arbitrary answers: who
   can see an object at each moment of its migration.
