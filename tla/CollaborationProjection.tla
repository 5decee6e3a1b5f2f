---------------------- MODULE CollaborationProjection ----------------------
(***************************************************************************)
(* Projection of product tasks and assets into the collaboration provider  *)
(* (application/src/integrations/project-collaboration.ts), run by several *)
(* worker processes over leased jobs, while security migrations open and   *)
(* close and an operator puts dead jobs back.                              *)
(*                                                                         *)
(* A run goes through local transactions with external calls in between:   *)
(*   task : prepare, renew, create, finish                                 *)
(*   asset: prepare, probe, renew, put, checkpoint, renew, attach, finish  *)
(* The job lease, the fence and the operation of a subject are three       *)
(* records, each with an owner of its own; they are brought in line only   *)
(* by the checks of these transactions.                                    *)
(*                                                                         *)
(* Abstractions.  A subject (task or asset) has one projection job, so     *)
(* jobs, operations, fences and bindings are indexed by subject and the    *)
(* desired version is left out.  A fence token is the worker that drew it: *)
(* a worker is in one run at a time, forgets its token when it crashes and *)
(* draws a new one before it uses the fence again.  Deadlines are not      *)
(* timed: a lease or fence may run out at any moment, MaxSlow times while  *)
(* its holder is still alive and any number of times once it is gone.      *)
(***************************************************************************)
EXTENDS Integers, IntegrationOperations

CONSTANTS
    Tasks, Assets,   \* the subjects
    TaskOf,          \* the task an asset is attached to
    Scope,           \* the subjects below the root node of the migration
    Workers, NoOwner,
    MaxAttempts,
    MaxFaults,       \* bound on crashes and refused transactions
    MaxSlow,         \* bound on leases and fences that run out under a live holder
    MaxMigrations    \* bound on planned migrations

Subjects == Tasks \cup Assets

ASSUME ProjectionAssumption ==
    /\ Tasks \cap Assets = {}
    /\ TaskOf \in [Assets -> Tasks]
    /\ Scope \subseteq Subjects
    /\ \A a \in Assets : a \in Scope <=> TaskOf[a] \in Scope
    /\ NoOwner \notin Workers
    /\ MaxAttempts \in Nat \ {0}
    /\ MaxFaults \in Nat /\ MaxSlow \in Nat /\ MaxMigrations \in Nat

VARIABLES
    job,        \* job[s]: the row of the projection job of s
    op,         \* op[s]: its integration operation
    fence,      \* fence[s]: its outbound projection fence
    synced,     \* the subjects with a synced external binding
    inflight,   \* requests on their way to the provider
    objects,    \* objects that exist at the provider
    migration,  \* "none", "planned" or "open", of the scope
    proc,       \* proc[w]: what worker process w is doing
    faults, slow, migrations   \* how much of each bound is used

counters == <<faults, slow, migrations>>
vars == <<job, op, fence, synced, inflight, objects, migration, proc, counters>>

Queue == INSTANCE LeasedQueue WITH Items <- Subjects, Jobs <- Subjects, row <- job

Stages == {"create", "put", "attach"}

(* The provider's objects have ids derived from the request id of the job, *)
(* so a subject and a stage name one object however often it is requested. *)
Objects == (Tasks \X {"create"}) \cup (Assets \X {"put", "attach"})

OperationType ==
    [state : OperationStates \cup {"none"}, token : Workers \cup {NoOwner}, stored : BOOLEAN]

FenceType == [token : Workers \cup {NoOwner}, live : BOOLEAN]

ProcType ==
    [pc : {"idle", "prepare", "probe", "renew", "call", "await", "checkpoint", "finish",
           "fail", "settle"},
     subject : Subjects \cup {NoOwner}, stage : Stages, batch : SUBSET Subjects,
     cause : {"none", "retryable", "fatal", "plain"},
     outcome : {"none", "done", "deferred", "retry", "reject"}]

Idle == [pc |-> "idle", subject |-> NoOwner, stage |-> "create", batch |-> {},
         cause |-> "none", outcome |-> "none"]

NoFence == [token |-> NoOwner, live |-> FALSE]

TypeOK ==
    /\ Queue!TypeOK
    /\ op \in [Subjects -> OperationType]
    /\ fence \in [Subjects -> FenceType]
    /\ synced \subseteq Subjects
    /\ inflight \subseteq Objects
    /\ objects \subseteq Objects
    /\ migration \in {"none", "planned", "open"}
    /\ proc \in [Workers -> ProcType]
    /\ faults \in Nat /\ slow \in Nat /\ migrations \in Nat

Init ==
    /\ Queue!Init
    /\ op = [s \in Subjects |-> [state |-> "none", token |-> NoOwner, stored |-> FALSE]]
    /\ fence = [s \in Subjects |-> NoFence]
    /\ synced = {}
    /\ inflight = {}
    /\ objects = {}
    /\ migration = "none"
    /\ proc = [w \in Workers |-> Idle]
    /\ faults = 0 /\ slow = 0 /\ migrations = 0

-----------------------------------------------------------------------------
(* Conditions of the transactions.                                         *)

(* collaborationProjectionAllowed: no open migration covers the subject.   *)
ProjectionAllowed(s) == ~(migration = "open" /\ s \in Scope)

Unresolved(s) == op[s].state \notin Terminal \cup {"none"}

(* Mutant: only fences are looked at.                                      *)
FenceActive == \E s \in Scope : fence[s].live

(* hasActiveFenceOrUnresolvedOperationInMigrationScope                     *)
OutboundActive == \E s \in Scope : fence[s].live \/ Unresolved(s)

OwnsFence(w, s) == fence[s].token = w

(* A fence is renewed and released by its token alone, expired or not.     *)
Renewed(w, s) == IF OwnsFence(w, s) THEN [fence EXCEPT ![s].live = TRUE] ELSE fence

(* Mutant: a null where the row was.                                       *)
ReleasedToNull(w, s) == IF OwnsFence(w, s) THEN [fence EXCEPT ![s] = NoOwner] ELSE fence

Released(w, s) == IF OwnsFence(w, s) THEN [fence EXCEPT ![s] = NoFence] ELSE fence

(* Mutant: tokens are not compared.                                        *)
NeverSuperseded(w, s) == FALSE

Superseded(w, s) == op[s].token \notin {NoOwner, w}

At(w, pc) == proc[w].pc = pc

Goto(w, pc) == proc' = [proc EXCEPT ![w].pc = pc]

GotoStage(w, pc, stage) == proc' = [proc EXCEPT ![w].pc = pc, ![w].stage = stage]

(* The processor returns, or throws past its own handlers.                 *)
Return(w, outcome) == proc' = [proc EXCEPT ![w].pc = "settle", ![w].outcome = outcome]

(* The processor's handler records the failure before it throws again.     *)
Throw(w, cause) == proc' = [proc EXCEPT ![w].pc = "fail", ![w].cause = cause]

-----------------------------------------------------------------------------
(* The worker cycle around a run.                                          *)

(* The commands that create a task or an asset are refused while any       *)
(* migration of the project is under way; an asset needs its task.         *)
Schedule(s) ==
    /\ migration = "none"
    /\ s \in Assets => job[TaskOf[s]].state # "absent"
    /\ Queue!Enqueue(s)
    /\ UNCHANGED <<op, fence, synced, inflight, objects, migration, proc, counters>>

(* Task jobs have the higher priority.                                     *)
First(batch) == IF batch \cap Tasks # {} THEN batch \cap Tasks ELSE batch

Claim(w, batch) ==
    LET early == {s \in batch : \E v \in Workers : Queue!Holds(v, s) /\ s \in proc[v].batch} IN
    /\ At(w, "idle")
    /\ batch # {}
    /\ Queue!Claim(w, batch)
    /\ \E s \in First(batch) :
         proc' = [proc EXCEPT ![w] = [Idle EXCEPT !.pc = "prepare", !.subject = s,
                                                  !.batch = batch]]
    /\ slow' = IF early = {} THEN slow ELSE slow + 1
    /\ slow' <= MaxSlow
    /\ UNCHANGED <<op, fence, synced, inflight, objects, migration, faults, migrations>>

(* Settles the job if the worker still holds its lease, and takes the next *)
(* job of the batch.  An ack or a defer that throws becomes a release.     *)
Settle(w) ==
    LET s == proc[w].subject
        rest == proc[w].batch \ {s} IN
    /\ At(w, "settle")
    /\ IF Queue!Holds(w, s)
       THEN \/ proc[w].outcome = "done" /\ Queue!Complete(w, s)
            \/ proc[w].outcome = "deferred" /\ Queue!Defer(w, s)
            \/ proc[w].outcome = "retry" /\ Queue!Release(w, s)
            \/ proc[w].outcome = "reject" /\ Queue!Reject(w, s)
       ELSE job' = job
    /\ IF rest = {}
       THEN proc' = [proc EXCEPT ![w] = Idle]
       ELSE \E t \in First(rest) :
              proc' = [proc EXCEPT ![w] = [Idle EXCEPT !.pc = "prepare", !.subject = t,
                                                       !.batch = rest]]
    /\ UNCHANGED <<op, fence, synced, inflight, objects, migration, counters>>

-----------------------------------------------------------------------------
(* The first transaction of a run.                                         *)

(* Mutant: an asset does not wait for its task.                            *)
AlwaysReady(s) == TRUE

TaskReady(s) == s \in Assets => TaskOf[s] \in synced

(* An expired fence is taken over, with a fresh token.                     *)
AcquireFence(w, s) ==
    /\ ~fence[s].live
    /\ fence' = [fence EXCEPT ![s] = [token |-> w, live |-> TRUE]]

(* The operation is created, or started again, under the same token.       *)
PrepareOperation(w, s) ==
    /\ op[s].state # "none" => CanAdvance(op[s].state, "running")
    /\ op' = [op EXCEPT ![s].state = "running", ![s].token = w]

(* A completed operation comes with a synced binding, so that the early    *)
(* return for it is the one of the binding.                                *)
Prepare(w) ==
    LET s == proc[w].subject IN
    /\ At(w, "prepare")
    /\ \/ /\ ~ProjectionAllowed(s)
          /\ Return(w, "deferred")
          /\ UNCHANGED <<op, fence>>
       \/ /\ ProjectionAllowed(s)
          /\ s \in synced
          /\ Return(w, "done")
          /\ UNCHANGED <<op, fence>>
       \/ /\ ProjectionAllowed(s) /\ s \notin synced  \* TASK_PROJECTION_NOT_READY
          /\ ~TaskReady(s)
          /\ Return(w, "retry")
          /\ UNCHANGED <<op, fence>>
       \/ /\ ProjectionAllowed(s) /\ s \notin synced /\ TaskReady(s)
          /\ fence[s].live
          /\ Return(w, "deferred")
          /\ UNCHANGED <<op, fence>>
       \/ /\ ProjectionAllowed(s) /\ s \notin synced /\ TaskReady(s)
          /\ ~fence[s].live
          /\ op[s].state = "recovery_required"         \* refused; the fence rolls back
          /\ Return(w, "retry")
          /\ UNCHANGED <<op, fence>>
       \/ /\ ProjectionAllowed(s) /\ s \notin synced /\ TaskReady(s)
          /\ AcquireFence(w, s)
          /\ PrepareOperation(w, s)
          /\ IF s \in Tasks THEN GotoStage(w, "renew", "create") ELSE Goto(w, "probe")
    /\ UNCHANGED <<job, synced, inflight, objects, migration, counters>>

(* Mutant: a stored blob is taken for a finished projection.               *)
ProbeStored(w) ==
    LET s == proc[w].subject IN
    /\ At(w, "probe")
    /\ IF op[s].stored THEN Goto(w, "finish") ELSE GotoStage(w, "renew", "put")
    /\ UNCHANGED <<job, op, fence, synced, inflight, objects, migration, counters>>

(* An asset whose blob is stored already goes straight to its attachment   *)
(* if the provider, which may not answer, still has the blob; otherwise    *)
(* its bytes are read, which may fail.                                     *)
Probe(w) ==
    LET s == proc[w].subject IN
    /\ At(w, "probe")
    /\ \/ /\ op[s].stored
          /\ <<s, "put">> \in objects
          /\ GotoStage(w, "renew", "attach")
       \/ GotoStage(w, "renew", "put")
       \/ op[s].stored /\ \E cause \in {"retryable", "fatal"} : Throw(w, cause)
       \/ Throw(w, "plain")
    /\ UNCHANGED <<job, op, fence, synced, inflight, objects, migration, counters>>

(* Before each external call the scope is checked again and the fence      *)
(* renewed, in one transaction.                                            *)
Renew(w) ==
    LET s == proc[w].subject IN
    /\ At(w, "renew")
    /\ IF ProjectionAllowed(s)
       THEN /\ fence' = Renewed(w, s)
            /\ IF OwnsFence(w, s) THEN Goto(w, "call") ELSE Return(w, "deferred")
       ELSE fence' = fence /\ Return(w, "deferred")
    /\ UNCHANGED <<job, op, synced, inflight, objects, migration, counters>>

-----------------------------------------------------------------------------
(* The external calls.                                                     *)

Call(w) ==
    /\ At(w, "call")
    /\ inflight' = inflight \cup {<<proc[w].subject, proc[w].stage>>}
    /\ Goto(w, "await")
    /\ UNCHANGED <<job, op, fence, synced, objects, migration, counters>>

(* The answer of the call: the object, a timeout or overload that may be   *)
(* tried again, a refusal, or an answer the adapter cannot use.  A failed  *)
(* call may have been carried out, or may still be.                        *)
Await(w) ==
    /\ At(w, "await")
    /\ \/ /\ <<proc[w].subject, proc[w].stage>> \in objects
          /\ Goto(w, IF proc[w].stage = "put" THEN "checkpoint" ELSE "finish")
       \/ \E cause \in {"retryable", "fatal", "plain"} : Throw(w, cause)
    /\ UNCHANGED <<job, op, fence, synced, inflight, objects, migration, counters>>

Deliver ==
    /\ \E o \in inflight : inflight' = inflight \ {o} /\ objects' = objects \cup {o}
    /\ UNCHANGED <<job, op, fence, synced, migration, proc, counters>>

Lose ==
    /\ \E o \in inflight : inflight' = inflight \ {o}
    /\ UNCHANGED <<job, op, fence, synced, objects, migration, proc, counters>>

-----------------------------------------------------------------------------
(* The transactions after a call.                                          *)

(* The stored blob is recorded; a run that was superseded is deferred.     *)
Checkpoint(w) ==
    LET s == proc[w].subject IN
    /\ At(w, "checkpoint")
    /\ IF Superseded(w, s)
       THEN op' = op /\ Return(w, "deferred")
       ELSE IF CanAdvance(op[s].state, "running")
            THEN /\ op' = [op EXCEPT ![s].state = "running", ![s].token = w,
                                     ![s].stored = TRUE]
                 /\ GotoStage(w, "renew", "attach")
            ELSE op' = op /\ Throw(w, "plain")
    /\ UNCHANGED <<job, fence, synced, inflight, objects, migration, counters>>

(* Mutants of Finish: the fence stays; the binding is saved regardless.    *)
FinishKeepingFence(w) ==
    LET s == proc[w].subject IN
    /\ At(w, "finish")
    /\ ~Superseded(w, s)
    /\ CanAdvance(op[s].state, "completed")
    /\ op' = [op EXCEPT ![s] = [state |-> "completed", token |-> w, stored |-> TRUE]]
    /\ synced' = synced \cup {s}
    /\ Return(w, "done")
    /\ UNCHANGED <<job, fence, inflight, objects, migration, counters>>

FinishRegardless(w) ==
    LET s == proc[w].subject IN
    /\ At(w, "finish")
    /\ op' = IF Superseded(w, s) THEN op
             ELSE [op EXCEPT ![s] = [state |-> "completed", token |-> w, stored |-> TRUE]]
    /\ synced' = synced \cup {s}
    /\ fence' = Released(w, s)
    /\ Return(w, "done")
    /\ UNCHANGED <<job, inflight, objects, migration, counters>>

(* The operation completes, the binding is saved and the fence released.   *)
(* A run that was superseded returns as if it had finished.                *)
Finish(w) ==
    LET s == proc[w].subject IN
    /\ At(w, "finish")
    /\ IF op[s].state # "completed" /\ Superseded(w, s)
       THEN Return(w, "done") /\ UNCHANGED <<op, fence, synced>>
       ELSE IF op[s].state = "completed" \/ CanAdvance(op[s].state, "completed")
            THEN /\ op' = IF op[s].state = "completed" THEN op
                          ELSE [op EXCEPT ![s] = [state |-> "completed", token |-> w,
                                                  stored |-> TRUE]]
                 /\ synced' = synced \cup {s}
                 /\ fence' = Released(w, s)
                 /\ Return(w, "done")
            ELSE Throw(w, "plain") /\ UNCHANGED <<op, fence, synced>>
    /\ UNCHANGED <<job, inflight, objects, migration, counters>>

(* A retryable failure keeps the fence, so that the next attempt waits for *)
(* it; any other failure needs an operator and gives the fence up.  A      *)
(* superseded run leaves the operation to its new owner.                   *)
(* Mutant: a failed run is acknowledged.                                   *)
RecordFailureSwallowed(w) ==
    LET s == proc[w].subject IN
    /\ At(w, "fail")
    /\ op' = IF op[s].state \notin Terminal /\ ~Superseded(w, s)
             THEN [op EXCEPT ![s].state = "retryable"] ELSE op
    /\ Return(w, "done")
    /\ UNCHANGED <<job, fence, synced, inflight, objects, migration, counters>>

RecordFailure(w) ==
    LET s == proc[w].subject
        target == IF proc[w].cause = "retryable" THEN "retryable" ELSE "recovery_required"
        mine == op[s].state \notin Terminal /\ ~Superseded(w, s)
        recorded == mine /\ CanAdvance(op[s].state, target) IN
    /\ At(w, "fail")
    /\ op' = IF recorded THEN [op EXCEPT ![s].state = target, ![s].token = w] ELSE op
    /\ fence' = IF ~recorded THEN fence
                ELSE IF target = "retryable" THEN Renewed(w, s) ELSE Released(w, s)
    /\ Return(w, IF proc[w].cause = "fatal" /\ (mine => recorded) THEN "reject" ELSE "retry")
    /\ UNCHANGED <<job, synced, inflight, objects, migration, counters>>

-----------------------------------------------------------------------------
(* Faults and time.                                                        *)

Fault == faults < MaxFaults /\ faults' = faults + 1

Crash(w) ==
    /\ ~At(w, "idle")
    /\ Fault
    /\ proc' = [proc EXCEPT ![w] = Idle]
    /\ UNCHANGED <<job, op, fence, synced, inflight, objects, migration, slow, migrations>>

(* The database refuses a transaction (it is busy or failing).  Only the   *)
(* put, the checkpoint and the final transaction have a handler that       *)
(* records the failure; the others throw to the worker, which releases the *)
(* job with the operation as it is.                                        *)
TransactionFails(w) ==
    /\ \/ /\ \/ proc[w].pc \in {"prepare", "fail"}
             \/ At(w, "renew") /\ proc[w].stage # "put"
          /\ Return(w, "retry")
       \/ /\ \/ proc[w].pc \in {"checkpoint", "finish"}
             \/ At(w, "renew") /\ proc[w].stage = "put"
          /\ Throw(w, "plain")
       \/ /\ At(w, "settle") /\ proc[w].outcome \in {"done", "deferred"}
          /\ Return(w, "retry")
    /\ Fault
    /\ UNCHANGED <<job, op, fence, synced, inflight, objects, migration, slow, migrations>>

FenceExpires(s) ==
    /\ fence[s].live
    /\ fence' = [fence EXCEPT ![s].live = FALSE]
    /\ slow' = IF \E w \in Workers : /\ proc[w].subject = s /\ OwnsFence(w, s)
                                      /\ proc[w].pc \notin {"prepare", "settle"}
               THEN slow + 1 ELSE slow
    /\ slow' <= MaxSlow
    /\ UNCHANGED <<job, op, synced, inflight, objects, migration, proc, faults, migrations>>

-----------------------------------------------------------------------------
(* Migrations and the operator.                                            *)

PlanMigration ==
    /\ migration = "none"
    /\ migrations < MaxMigrations
    /\ migration' = "planned"
    /\ migrations' = migrations + 1
    /\ UNCHANGED <<job, op, fence, synced, inflight, objects, proc, faults, slow>>

(* planned -> active is refused while anything outbound is under way.      *)
OpenMigration ==
    /\ migration = "planned"
    /\ ~OutboundActive
    /\ migration' = "open"
    /\ UNCHANGED <<job, op, fence, synced, inflight, objects, proc, counters>>

(* Committed or rolled back.                                               *)
CloseMigration ==
    /\ migration # "none"
    /\ migration' = "none"
    /\ UNCHANGED <<job, op, fence, synced, inflight, objects, proc, counters>>

(* The operator's retry: the job goes back to the queue and the operation  *)
(* becomes retryable, in one transaction.                                  *)
RetryIntegration(s) ==
    /\ op[s].state \in {"retryable", "recovery_required"}
    /\ Queue!Reschedule(s)
    /\ op' = [op EXCEPT ![s].state = "retryable"]
    /\ UNCHANGED <<fence, synced, inflight, objects, migration, proc, counters>>

-----------------------------------------------------------------------------

Run(w) ==
    \/ Prepare(w) \/ Probe(w) \/ Renew(w) \/ Call(w) \/ Await(w)
    \/ Checkpoint(w) \/ Finish(w) \/ RecordFailure(w) \/ Settle(w)

Next ==
    \/ \E w \in Workers : Run(w) \/ Crash(w) \/ TransactionFails(w)
    \/ \E w \in Workers, batch \in SUBSET Subjects : Claim(w, batch)
    \/ \E s \in Subjects : Schedule(s) \/ FenceExpires(s) \/ RetryIntegration(s)
    \/ Deliver \/ Lose \/ PlanMigration \/ OpenMigration \/ CloseMigration

Spec == Init /\ [][Next]_vars

(* Live processes take their steps; a job that can be claimed again and    *)
(* again is claimed (the claim takes every ready row); deadlines pass; an  *)
(* open migration is brought to its end.                                   *)
Fairness ==
    /\ \A w \in Workers : WF_vars(Run(w))
    /\ \A s \in Subjects :
         /\ SF_vars(\E w \in Workers, batch \in SUBSET Subjects : s \in batch /\ Claim(w, batch))
         /\ WF_vars(FenceExpires(s))
    /\ WF_vars(CloseMigration)

FairSpec == Spec /\ Fairness

-----------------------------------------------------------------------------
(* Properties.                                                             *)

(* P0-07-TC-SEC-002J: while a migration is open nothing is created,        *)
(* uploaded or attached for its scope, and no projection state of the scope *)
(* moves; requests sent before it opened have no late effect either.       *)
FrozenScope ==
    [][migration = "open" /\ migration' = "open" =>
         \A s \in Scope :
            /\ op'[s] = op[s]
            /\ s \in synced' <=> s \in synced
            /\ \A stage \in Stages :
                  <<s, stage>> \in objects' <=> <<s, stage>> \in objects]_vars

(* The product never believes in a replica that is not there: a completed  *)
(* operation and a synced binding come together, and all objects of the    *)
(* subject exist at the provider.                                          *)
CompletedMeansProjected ==
    \A s \in Subjects :
        /\ op[s].state = "completed" <=> s \in synced
        /\ s \in synced => \A stage \in Stages : <<s, stage>> \in Objects => <<s, stage>> \in objects

(* An attachment at the provider hangs on an existing issue and an         *)
(* existing blob, however its runs were cut short, repeated or superseded. *)
AttachmentsAreGrounded ==
    \A a \in Assets : <<a, "attach">> \in objects =>
        <<a, "put">> \in objects /\ <<TaskOf[a], "create">> \in objects

(* A fence that stands guards the operation of the run that set it, and    *)
(* that operation is not resolved: no run gives up or loses the operation  *)
(* to another run and leaves the fence behind.                             *)
FenceGuardsOperation ==
    \A s \in Subjects : fence[s].token # NoOwner =>
        Unresolved(s) /\ op[s].token = fence[s].token

(* A run whose fence was taken over changes the operation no more: a step  *)
(* that is not an operator's retry moves an operation only for the run     *)
(* that has it already, or for the one that takes over an expired fence.   *)
SupersededRunsAreHarmless ==
    [][\A s \in Subjects : op'[s] # op[s] /\ job'[s] = job[s] =>
         \E w \in Workers :
            /\ op'[s].token = w
            /\ \/ op[s].token = w
               \/ ~fence[s].live /\ fence'[s] = [token |-> w, live |-> TRUE]]_vars

(* Every job that is scheduled reaches the end of its queue, as done or as *)
(* a dead letter, whatever migrations, crashes and takeovers defer it.     *)
EveryJobSettles ==
    \A s \in Subjects :
        job[s].state \in {"pending", "leased"} ~> job[s].state \in {"done", "dead_letter"}

(* An operation that was started ends, or its job does: it is completed,   *)
(* or waits for an operator with a dead letter.  (With one missed deadline *)
(* at most; see NothingLeftBehind.)                                        *)
EveryOperationEnds ==
    \A s \in Subjects :
        Unresolved(s) ~> ~Unresolved(s) \/ job[s].state = "dead_letter"

(* ADR-004: a partial success continues or ends as a dead letter, it is    *)
(* never silently left behind.  The job is done, its operation is not, and *)
(* no worker is on it.                                                     *)
NothingLeftBehind ==
    \A s \in Subjects : job[s].state = "done" =>
        s \in synced \/ \E w \in Workers : proc[w].subject = s

=============================================================================
