------------------- MODULE CollaborationProjectionProofs --------------------
(* Replicas are real, attachments grounded, fences honoured and frozen     *)
(* scopes still: for all tasks, assets, scopes, workers and bounds, with   *)
(* no use of the bounds on crashes, missed deadlines and migrations.       *)
EXTENDS CollaborationProjection, TLAPS

(* No operation is planned ahead of its run, or compensated: it has an     *)
(* owner as soon as it is there.                                           *)
OperationsFit ==
    \A s \in Subjects :
        /\ op[s].state \in {"none", "running", "retryable", "recovery_required", "completed"}
        /\ op[s].token = NoOwner <=> op[s].state = "none"

(* What has to be there before an object is asked for.                     *)
Grounded(s, stage) ==
    /\ s \in Assets => <<TaskOf[s], "create">> \in objects
    /\ stage = "attach" => <<s, "put">> \in objects

(* A run past its first transaction has an operation, and the objects that *)
(* its stage builds on exist.                                              *)
RunFits(run) ==
    /\ run.pc # "idle" => run.subject \in Subjects
    /\ run.pc \notin {"idle", "prepare", "settle"} => op[run.subject].state # "none"
    /\ run.pc = "probe" => run.subject \in Assets /\ Grounded(run.subject, "put")
    /\ run.pc \in {"renew", "call", "await", "checkpoint", "finish"} =>
         /\ <<run.subject, run.stage>> \in Objects
         /\ Grounded(run.subject, run.stage)
    /\ run.pc = "checkpoint" => run.stage = "put"
    /\ run.pc = "finish" => run.stage # "put"
    /\ run.pc \in {"checkpoint", "finish"} => <<run.subject, run.stage>> \in objects

(* So do the requests it sent, however late they arrive.                   *)
RequestsFit ==
    \A s \in Subjects, stage \in Stages :
        <<s, stage>> \in inflight => op[s].state # "none" /\ Grounded(s, stage)

(* No operation of the scope is under way while a migration is open.       *)
ScopeIsResolved == migration = "open" => \A s \in Scope : ~Unresolved(s)

Inv ==
    /\ TypeOK
    /\ OperationsFit
    /\ CompletedMeansProjected
    /\ AttachmentsAreGrounded
    /\ FenceGuardsOperation
    /\ \A w \in Workers : RunFits(proc[w])
    /\ RequestsFit
    /\ ScopeIsResolved

-----------------------------------------------------------------------------
(* How a run moves.                                                        *)

Pcs == {"idle", "prepare", "probe", "renew", "call", "await", "checkpoint", "finish",
        "fail", "settle"}

(* The worker's run goes on with a subject at a point and a stage.         *)
Moved(w, pc, subject, stage) ==
    \E run \in ProcType :
        /\ proc' = [proc EXCEPT ![w] = run]
        /\ run.pc = pc /\ run.subject = subject /\ run.stage = stage

LEMMA MovesAreTyped ==
  ASSUME TypeOK, NEW w \in Workers, NEW subject, NEW stage,
         subject = proc[w].subject, stage = proc[w].stage
  PROVE  /\ \A pc \in Pcs : Goto(w, pc) => Moved(w, pc, subject, stage)
         /\ \A pc \in Pcs, s \in Stages : GotoStage(w, pc, s) => Moved(w, pc, subject, s)
         /\ \A outcome \in {"none", "done", "deferred", "retry", "reject"} :
               Return(w, outcome) => Moved(w, "settle", subject, stage)
         /\ \A cause \in {"none", "retryable", "fatal", "plain"} :
               Throw(w, cause) => Moved(w, "fail", subject, stage)
  <1>1. proc \in [Workers -> ProcType] /\ proc[w] \in ProcType
    BY DEF TypeOK
  <1>2. ASSUME NEW pc \in Pcs, Goto(w, pc) PROVE Moved(w, pc, subject, stage)
    <2> DEFINE run == [proc[w] EXCEPT !.pc = pc]
    <2>1. run \in ProcType /\ run.pc = pc /\ run.subject = subject /\ run.stage = stage
      BY <1>1 DEF ProcType, Pcs
    <2>2. proc' = [proc EXCEPT ![w] = run]
      BY <1>1, <1>2 DEF Goto
    <2> QED
      BY <2>1, <2>2 DEF Moved
  <1>3. ASSUME NEW pc \in Pcs, NEW s \in Stages, GotoStage(w, pc, s)
        PROVE  Moved(w, pc, subject, s)
    <2> DEFINE run == [proc[w] EXCEPT !.pc = pc, !.stage = s]
    <2>1. run \in ProcType /\ run.pc = pc /\ run.subject = subject /\ run.stage = s
      BY <1>1 DEF ProcType, Pcs
    <2>2. proc' = [proc EXCEPT ![w] = run]
      BY <1>1, <1>3 DEF GotoStage
    <2> QED
      BY <2>1, <2>2 DEF Moved
  <1>4. ASSUME NEW outcome \in {"none", "done", "deferred", "retry", "reject"},
               Return(w, outcome)
        PROVE  Moved(w, "settle", subject, stage)
    <2> DEFINE run == [proc[w] EXCEPT !.pc = "settle", !.outcome = outcome]
    <2>1. run \in ProcType /\ run.pc = "settle" /\ run.subject = subject /\ run.stage = stage
      BY <1>1 DEF ProcType
    <2>2. proc' = [proc EXCEPT ![w] = run]
      BY <1>1, <1>4 DEF Return
    <2> QED
      BY <2>1, <2>2 DEF Moved
  <1>5. ASSUME NEW cause \in {"none", "retryable", "fatal", "plain"}, Throw(w, cause)
        PROVE  Moved(w, "fail", subject, stage)
    <2> DEFINE run == [proc[w] EXCEPT !.pc = "fail", !.cause = cause]
    <2>1. run \in ProcType /\ run.pc = "fail" /\ run.subject = subject /\ run.stage = stage
      BY <1>1 DEF ProcType
    <2>2. proc' = [proc EXCEPT ![w] = run]
      BY <1>1, <1>5 DEF Throw
    <2> QED
      BY <2>1, <2>2 DEF Moved
  <1> QED
    BY <1>2, <1>3, <1>4, <1>5

(* The other runs keep fitting while operations stay and objects are added. *)
LEMMA RunsStay ==
  ASSUME Inv, NEW w \in Workers, NEW run \in ProcType, proc' = [proc EXCEPT ![w] = run],
         objects \subseteq objects',
         \A s \in Subjects : op[s].state # "none" => op'[s].state # "none",
         RunFits(run)'
  PROVE  proc' \in [Workers -> ProcType] /\ \A v \in Workers : RunFits(proc[v])'
  <1>1. proc \in [Workers -> ProcType]
    BY DEF Inv, TypeOK
  <1>2. proc'[w] = run /\ \A v \in Workers : v # w => proc'[v] = proc[v]
    BY <1>1
  <1>3. ASSUME NEW v \in Workers PROVE RunFits(proc[v])'
    <2>1. CASE v = w
      BY <1>2, <2>1 DEF RunFits, Grounded
    <2>2. CASE v # w
      <3>1. RunFits(proc[v]) /\ proc'[v] = proc[v]
        BY <1>2, <2>2 DEF Inv
      <3> QED
        BY <3>1 DEF RunFits, Grounded
    <2> QED
      BY <2>1, <2>2
  <1> QED
    BY <1>1, <1>3

LEMMA AllRunsStay ==
  ASSUME Inv, proc' = proc, objects \subseteq objects',
         \A s \in Subjects : op[s].state # "none" => op'[s].state # "none"
  PROVE  proc' \in [Workers -> ProcType] /\ \A v \in Workers : RunFits(proc[v])'
  BY DEF Inv, TypeOK, RunFits, Grounded

LEMMA RequestsStay ==
  ASSUME Inv, inflight' \subseteq inflight, objects \subseteq objects',
         \A s \in Subjects : op[s].state # "none" => op'[s].state # "none"
  PROVE  inflight' \subseteq Objects /\ RequestsFit'
  BY DEF Inv, TypeOK, RequestsFit, Grounded

(* The records a step leaves alone that only moves runs and jobs.          *)
rows == <<op, fence, synced, inflight, objects, migration>>

CountersTyped == faults \in Nat /\ slow \in Nat /\ migrations \in Nat

LEMMA RunMoves ==
  ASSUME Inv, UNCHANGED rows, NEW w \in Workers, NEW run \in ProcType,
         proc' = [proc EXCEPT ![w] = run], RunFits(run), Queue!TypeOK', CountersTyped'
  PROVE  Inv'
  <1>1. RunFits(run)'
    BY DEF RunFits, Grounded, rows
  <1>2. proc' \in [Workers -> ProcType] /\ \A v \in Workers : RunFits(proc[v])'
    BY <1>1, RunsStay DEF rows
  <1>3. TypeOK'
    BY <1>2 DEF Inv, TypeOK, CountersTyped, rows
  <1>4. OperationsFit' /\ CompletedMeansProjected' /\ AttachmentsAreGrounded'
    BY DEF Inv, OperationsFit, CompletedMeansProjected, AttachmentsAreGrounded, rows
  <1>5. FenceGuardsOperation' /\ RequestsFit' /\ ScopeIsResolved'
    BY DEF Inv, FenceGuardsOperation, RequestsFit, ScopeIsResolved, Unresolved, Grounded, rows
  <1> QED
    BY <1>2, <1>3, <1>4, <1>5 DEF Inv

(* A step of a run that changes no record but the run.                     *)
LEMMA RunSteps ==
  ASSUME Inv, UNCHANGED rows, UNCHANGED <<job, counters>>, NEW w \in Workers,
         NEW pc, NEW stage, Moved(w, pc, proc[w].subject, stage),
         \A run \in ProcType :
            run.pc = pc /\ run.subject = proc[w].subject /\ run.stage = stage => RunFits(run)
  PROVE  Inv'
  <1>1. PICK run \in ProcType :
          /\ proc' = [proc EXCEPT ![w] = run]
          /\ run.pc = pc /\ run.subject = proc[w].subject /\ run.stage = stage
    BY DEF Moved
  <1>2. Queue!TypeOK' /\ CountersTyped'
    BY DEF Inv, TypeOK, Queue!TypeOK, CountersTyped, counters
  <1>3. RunFits(run)
    BY <1>1
  <1> QED
    BY <1>1, <1>2, <1>3, RunMoves

LEMMA JobsAreTyped ==
  ASSUME Queue!TypeOK, NEW w \in Workers, NEW batch, NEW s \in Subjects,
         \/ Queue!Enqueue(s) \/ Queue!Claim(w, batch) \/ Queue!Complete(w, s)
         \/ Queue!Release(w, s) \/ Queue!Defer(w, s) \/ Queue!Reject(w, s)
         \/ Queue!Reschedule(s)
  PROVE  Queue!TypeOK'
  <1>1. /\ job \in [Subjects -> Queue!RowType]
        /\ \A t \in Subjects : job[t].attempts \in Nat
    BY DEF Queue!TypeOK, Queue!RowType
  <1>2. CASE Queue!Claim(w, batch)
    <2>1. \A t \in Subjects :
            [state |-> "leased", attempts |-> job[t].attempts + 1, owner |-> w] \in Queue!RowType
      BY <1>1 DEF Queue!RowType, Queue!States
    <2> QED
      BY <1>1, <1>2, <2>1 DEF Queue!Claim, Queue!TypeOK
  <1>3. ASSUME NEW state \in Queue!States, NEW attempts \in Nat,
               Queue!Unowned(s, state, attempts)
        PROVE  Queue!TypeOK'
    <2>1. [state |-> state, attempts |-> attempts, owner |-> NoOwner] \in Queue!RowType
      BY DEF Queue!RowType
    <2> QED
      BY <1>1, <1>3, <2>1 DEF Queue!Unowned, Queue!TypeOK
  <1>4. "pending" \in Queue!States /\ "done" \in Queue!States /\ "dead_letter" \in Queue!States
    BY DEF Queue!States
  <1>5. CASE Queue!Enqueue(s) \/ Queue!Reschedule(s)
    BY <1>3, <1>4, <1>5 DEF Queue!Enqueue, Queue!Reschedule
  <1>6. CASE Queue!Complete(w, s) \/ Queue!Reject(w, s)
    BY <1>1, <1>3, <1>4, <1>6 DEF Queue!Complete, Queue!Reject
  <1>7. CASE Queue!Release(w, s)
    <2> DEFINE state == IF job[s].attempts >= MaxAttempts THEN "dead_letter" ELSE "pending"
    <2>1. state \in Queue!States /\ Queue!Unowned(s, state, job[s].attempts)
      BY <1>4, <1>7 DEF Queue!Release
    <2> HIDE DEF state
    <2> QED
      BY <1>1, <1>3, <2>1
  <1>8. CASE Queue!Defer(w, s)
    <2> DEFINE attempts == IF job[s].attempts = 0 THEN 0 ELSE job[s].attempts - 1
    <2>1. attempts \in Nat /\ Queue!Unowned(s, "pending", attempts)
      BY <1>1, <1>8 DEF Queue!Defer
    <2> HIDE DEF attempts
    <2> QED
      BY <1>3, <1>4, <2>1
  <1> QED
    BY <1>2, <1>5, <1>6, <1>7, <1>8

(* The operation of a subject moves, unresolved before and after, with the *)
(* fence of its new owner or without one.                                  *)
LEMMA OperationMoves ==
  ASSUME Inv, NEW s \in Subjects, NEW o \in OperationType, op' = [op EXCEPT ![s] = o],
         o.state \in {"running", "retryable", "recovery_required"}, o.token # NoOwner,
         op[s].state # "completed", ~(migration = "open" /\ s \in Scope),
         fence' \in [Subjects -> FenceType],
         \A t \in Subjects \ {s} : fence'[t] = fence[t],
         fence'[s].token \in {NoOwner, o.token},
         UNCHANGED <<synced, inflight, objects, migration>>
  PROVE  /\ op' \in [Subjects -> OperationType]
         /\ \A t \in Subjects : op[t].state # "none" => op'[t].state # "none"
         /\ OperationsFit' /\ CompletedMeansProjected' /\ AttachmentsAreGrounded'
         /\ FenceGuardsOperation' /\ inflight' \subseteq Objects /\ RequestsFit'
         /\ ScopeIsResolved'
  <1>1. op \in [Subjects -> OperationType]
    BY DEF Inv, TypeOK
  <1>2. op'[s] = o /\ \A t \in Subjects : t # s => op'[t] = op[t]
    BY <1>1
  <1>3. op' \in [Subjects -> OperationType]
    BY <1>1
  <1>4. \A t \in Subjects : op[t].state # "none" => op'[t].state # "none"
    BY <1>2
  <1>5. OperationsFit'
    BY <1>2 DEF Inv, OperationsFit
  <1>6. CompletedMeansProjected' /\ AttachmentsAreGrounded'
    BY <1>2 DEF Inv, CompletedMeansProjected, AttachmentsAreGrounded
  <1>7. FenceGuardsOperation'
    <2>1. ASSUME NEW t \in Subjects, fence'[t].token # NoOwner
          PROVE  Unresolved(t)' /\ op'[t].token = fence'[t].token
      <3>1. CASE t = s
        BY <1>2, <2>1, <3>1 DEF Unresolved, Terminal
      <3>2. CASE t # s
        BY <1>2, <2>1, <3>2 DEF Inv, FenceGuardsOperation, Unresolved
      <3> QED
        BY <3>1, <3>2
    <2> QED
      BY <2>1 DEF FenceGuardsOperation
  <1>8. inflight' \subseteq Objects /\ RequestsFit'
    BY <1>4, RequestsStay
  <1>9. ScopeIsResolved'
    BY <1>2, ProjectionAssumption DEF Inv, ScopeIsResolved, Unresolved
  <1> QED
    BY <1>3, <1>4, <1>5, <1>6, <1>7, <1>8, <1>9

(* The same, with the run that moves it.                                   *)
LEMMA RunMovesOperation ==
  ASSUME Inv, NEW w \in Workers, NEW s \in Subjects, s = proc[w].subject,
         NEW o \in OperationType, op' = [op EXCEPT ![s] = o],
         o.state \in {"running", "retryable", "recovery_required"}, o.token = w,
         op[s].state # "completed", ~(migration = "open" /\ s \in Scope),
         fence' \in [Subjects -> FenceType],
         \A t \in Subjects \ {s} : fence'[t] = fence[t],
         fence'[s].token \in {NoOwner, w},
         UNCHANGED <<job, synced, inflight, objects, migration, counters>>,
         NEW run \in ProcType, proc' = [proc EXCEPT ![w] = run],
         op'[s].state # "none" => RunFits(run)'
  PROVE  Inv'
  <1>1. o.token # NoOwner
    BY ProjectionAssumption
  <1>2. /\ op' \in [Subjects -> OperationType]
        /\ \A t \in Subjects : op[t].state # "none" => op'[t].state # "none"
        /\ OperationsFit' /\ CompletedMeansProjected' /\ AttachmentsAreGrounded'
        /\ FenceGuardsOperation' /\ inflight' \subseteq Objects /\ RequestsFit'
        /\ ScopeIsResolved'
    BY <1>1, OperationMoves
  <1>3. op'[s].state # "none"
    BY DEF Inv, TypeOK
  <1>4. proc' \in [Workers -> ProcType] /\ \A v \in Workers : RunFits(proc[v])'
    BY <1>2, <1>3, RunsStay
  <1>5. TypeOK'
    BY <1>2, <1>4 DEF Inv, TypeOK, Queue!TypeOK, counters
  <1> QED
    BY <1>2, <1>4, <1>5 DEF Inv

(* A fence that is renewed or released is that of the run, and no other.   *)
LEMMA FenceMoves ==
  ASSUME Inv, NEW w \in Workers, NEW s \in Subjects,
         fence' \in {fence, Renewed(w, s), Released(w, s)}
  PROVE  /\ fence' \in [Subjects -> FenceType]
         /\ \A t \in Subjects \ {s} : fence'[t] = fence[t]
         /\ fence'[s].token \in {NoOwner, fence[s].token}
         /\ fence' = Released(w, s) /\ fence[s].token \in {NoOwner, w} =>
              fence'[s].token = NoOwner
  <1>1. fence \in [Subjects -> FenceType]
    BY DEF Inv, TypeOK
  <1>2. NoFence \in FenceType /\ [fence[s] EXCEPT !.live = TRUE] \in FenceType
    BY <1>1 DEF NoFence, FenceType
  <1>3. [fence[s] EXCEPT !.live = TRUE].token = fence[s].token /\ NoFence.token = NoOwner
    BY <1>1 DEF NoFence, FenceType
  <1> DEFINE live == [fence[s] EXCEPT !.live = TRUE]
  <1>4. fence' \in {fence, [fence EXCEPT ![s] = live], [fence EXCEPT ![s] = NoFence]}
    BY DEF Renewed, Released
  <1>5. /\ fence' = Released(w, s) /\ fence[s].token = w =>
             fence' = [fence EXCEPT ![s] = NoFence]
        /\ fence' = Released(w, s) /\ fence[s].token # w => fence' = fence
    BY DEF Released, OwnsFence
  <1> HIDE DEF live
  <1> QED
    BY <1>1, <1>2, <1>3, <1>4, <1>5 DEF live

(* A step that changes only jobs.                                          *)
LEMMA QuietKeeps ==
  ASSUME Inv, UNCHANGED rows, UNCHANGED proc, Queue!TypeOK', CountersTyped'
  PROVE  Inv'
  <1>1. proc' \in [Workers -> ProcType] /\ \A v \in Workers : RunFits(proc[v])'
    BY AllRunsStay DEF rows
  <1>2. TypeOK'
    BY <1>1 DEF Inv, TypeOK, CountersTyped, rows
  <1>3. OperationsFit' /\ CompletedMeansProjected' /\ AttachmentsAreGrounded'
    BY DEF Inv, OperationsFit, CompletedMeansProjected, AttachmentsAreGrounded, rows
  <1>4. FenceGuardsOperation' /\ RequestsFit' /\ ScopeIsResolved'
    BY DEF Inv, FenceGuardsOperation, RequestsFit, ScopeIsResolved, Unresolved, Grounded, rows
  <1> QED
    BY <1>1, <1>2, <1>3, <1>4 DEF Inv

-----------------------------------------------------------------------------
(* The worker cycle.                                                       *)

LEMMA ScheduleKeeps ==
  ASSUME Inv, NEW s \in Subjects, Schedule(s)
  PROVE  Inv'
  <1>1. Queue!TypeOK /\ Queue!Enqueue(s)
    BY DEF Inv, TypeOK, Schedule
  <1>2. Queue!TypeOK'
    <2>1. CASE Workers # {}
      BY <1>1, <2>1, JobsAreTyped
    <2>2. CASE Workers = {}
      <3>1. [state |-> "pending", attempts |-> 0, owner |-> NoOwner] \in Queue!RowType
        BY DEF Queue!RowType, Queue!States
      <3> QED
        BY <1>1, <3>1 DEF Queue!Enqueue, Queue!Unowned, Queue!TypeOK
    <2> QED
      BY <2>1, <2>2
  <1>3. UNCHANGED rows /\ UNCHANGED proc /\ CountersTyped'
    BY DEF Inv, TypeOK, Schedule, rows, CountersTyped, counters
  <1> QED
    BY <1>2, <1>3, QuietKeeps

LEMMA ClaimKeeps ==
  ASSUME Inv, NEW w \in Workers, NEW batch \in SUBSET Subjects, Claim(w, batch)
  PROVE  Inv'
  <1>1. PICK s \in First(batch) :
          proc' = [proc EXCEPT ![w] = [Idle EXCEPT !.pc = "prepare", !.subject = s,
                                                   !.batch = batch]]
    BY DEF Claim
  <1> DEFINE run == [Idle EXCEPT !.pc = "prepare", !.subject = s, !.batch = batch]
  <1>2. s \in Subjects
    BY DEF First
  <1>3. run \in ProcType /\ run.pc = "prepare" /\ run.subject = s
    BY <1>2 DEF Idle, ProcType, Stages
  <1>4. Queue!TypeOK'
    BY <1>2, JobsAreTyped DEF Inv, TypeOK, Claim
  <1>5. CountersTyped' /\ UNCHANGED rows
    BY DEF Inv, TypeOK, Claim, CountersTyped, rows
  <1> HIDE DEF run
  <1>6. RunFits(run)
    BY <1>2, <1>3 DEF RunFits
  <1>7. proc' = [proc EXCEPT ![w] = run]
    BY <1>1 DEF run
  <1> QED
    BY <1>3, <1>4, <1>5, <1>6, <1>7, RunMoves

LEMMA SettleKeeps ==
  ASSUME Inv, NEW w \in Workers, Settle(w)
  PROVE  Inv'
  <1> DEFINE s == proc[w].subject
             rest == proc[w].batch \ {s}
  <1>1. s \in Subjects /\ rest \subseteq Subjects
    BY DEF Inv, TypeOK, ProcType, RunFits, Settle, At
  <1>2. Queue!TypeOK'
    <2>1. CASE job' = job
      BY <2>1 DEF Inv, TypeOK, Queue!TypeOK
    <2>2. CASE Queue!Complete(w, s) \/ Queue!Defer(w, s) \/ Queue!Release(w, s)
               \/ Queue!Reject(w, s)
      BY <1>1, <2>2, JobsAreTyped DEF Inv, TypeOK
    <2> QED
      BY <2>1, <2>2 DEF Settle
  <1>3. CountersTyped' /\ UNCHANGED rows
    BY DEF Inv, TypeOK, Settle, CountersTyped, counters, rows
  <1>4. CASE proc' = [proc EXCEPT ![w] = Idle]
    <2>1. Idle \in ProcType /\ RunFits(Idle)
      BY DEF Idle, ProcType, Stages, RunFits
    <2> QED
      BY <1>2, <1>3, <1>4, <2>1, RunMoves
  <1>5. ASSUME NEW t \in First(rest),
               proc' = [proc EXCEPT ![w] = [Idle EXCEPT !.pc = "prepare", !.subject = t,
                                                        !.batch = rest]]
        PROVE  Inv'
    <2> DEFINE run == [Idle EXCEPT !.pc = "prepare", !.subject = t, !.batch = rest]
    <2>1. t \in Subjects
      BY <1>1 DEF First
    <2>2. run \in ProcType /\ run.pc = "prepare" /\ run.subject = t
      BY <1>1, <2>1 DEF Idle, ProcType, Stages
    <2>3. proc' = [proc EXCEPT ![w] = run]
      BY <1>5
    <2> HIDE DEF run
    <2>4. RunFits(run)
      BY <2>1, <2>2 DEF RunFits
    <2> QED
      BY <1>2, <1>3, <2>2, <2>3, <2>4, RunMoves
  <1> QED
    BY <1>4, <1>5 DEF Settle

LEMMA CrashKeeps ==
  ASSUME Inv, NEW w \in Workers, Crash(w)
  PROVE  Inv'
  <1>1. Idle \in ProcType /\ RunFits(Idle)
    BY DEF Idle, ProcType, Stages, RunFits
  <1>2. Queue!TypeOK' /\ CountersTyped' /\ UNCHANGED rows
    BY DEF Inv, TypeOK, Queue!TypeOK, CountersTyped, Crash, Fault, rows
  <1> QED
    BY <1>1, <1>2, RunMoves DEF Crash

LEMMA TransactionFailsKeeps ==
  ASSUME Inv, NEW w \in Workers, TransactionFails(w)
  PROVE  Inv'
  <1>1. Queue!TypeOK' /\ CountersTyped' /\ UNCHANGED rows
    BY DEF Inv, TypeOK, Queue!TypeOK, CountersTyped, TransactionFails, Fault, rows
  <1>2. RunFits(proc[w]) /\ TypeOK
    BY DEF Inv
  <1>3. CASE Return(w, "retry") /\ proc[w].pc # "idle"
    <2>1. Moved(w, "settle", proc[w].subject, proc[w].stage)
      BY <1>2, <1>3, MovesAreTyped
    <2>2. PICK run \in ProcType :
            /\ proc' = [proc EXCEPT ![w] = run]
            /\ run.pc = "settle" /\ run.subject = proc[w].subject
      BY <2>1 DEF Moved
    <2>3. RunFits(run)
      BY <1>2, <1>3, <2>2 DEF RunFits
    <2> QED
      BY <1>1, <2>2, <2>3, RunMoves
  <1>4. CASE Throw(w, "plain") /\ proc[w].pc \notin {"idle", "prepare", "settle"}
    <2>1. Moved(w, "fail", proc[w].subject, proc[w].stage)
      BY <1>2, <1>4, MovesAreTyped
    <2>2. PICK run \in ProcType :
            /\ proc' = [proc EXCEPT ![w] = run]
            /\ run.pc = "fail" /\ run.subject = proc[w].subject
      BY <2>1 DEF Moved
    <2>3. RunFits(run)
      BY <1>2, <1>4, <2>2 DEF RunFits
    <2> QED
      BY <1>1, <2>2, <2>3, RunMoves
  <1> QED
    BY <1>3, <1>4 DEF TransactionFails, At

-----------------------------------------------------------------------------
(* The steps of a run.                                                     *)

(* A run may always return, and throw once it has an operation.            *)
LEMMA ReturnKeeps ==
  ASSUME Inv, UNCHANGED rows, UNCHANGED <<job, counters>>, NEW w \in Workers,
         NEW outcome \in {"none", "done", "deferred", "retry", "reject"}, Return(w, outcome),
         proc[w].pc # "idle"
  PROVE  Inv'
  <1>1. RunFits(proc[w]) /\ TypeOK
    BY DEF Inv
  <1>2. Moved(w, "settle", proc[w].subject, proc[w].stage)
    BY <1>1, MovesAreTyped
  <1>3. \A run \in ProcType :
          run.pc = "settle" /\ run.subject = proc[w].subject /\ run.stage = proc[w].stage
            => RunFits(run)
    BY <1>1 DEF RunFits
  <1> QED
    BY <1>2, <1>3, RunSteps

LEMMA ThrowKeeps ==
  ASSUME Inv, UNCHANGED rows, UNCHANGED <<job, counters>>, NEW w \in Workers,
         NEW cause \in {"none", "retryable", "fatal", "plain"}, Throw(w, cause),
         proc[w].pc \notin {"idle", "prepare", "settle"}
  PROVE  Inv'
  <1>1. RunFits(proc[w]) /\ TypeOK
    BY DEF Inv
  <1>2. Moved(w, "fail", proc[w].subject, proc[w].stage)
    BY <1>1, MovesAreTyped
  <1>3. \A run \in ProcType :
          run.pc = "fail" /\ run.subject = proc[w].subject /\ run.stage = proc[w].stage
            => RunFits(run)
    BY <1>1 DEF RunFits
  <1> QED
    BY <1>2, <1>3, RunSteps


(* The first transaction changes the operation only if it succeeds.        *)
LEMMA PrepareKeeps ==
  ASSUME Inv, NEW w \in Workers, Prepare(w)
  PROVE  Inv'
  <1> DEFINE s == proc[w].subject
  <1>1. s \in Subjects /\ proc[w].pc # "idle" /\ TypeOK
    BY DEF Inv, RunFits, Prepare, At
  <1>2. UNCHANGED <<job, synced, inflight, objects, migration, counters>>
    BY DEF Prepare
  <1>3. ASSUME NEW outcome \in {"none", "done", "deferred", "retry", "reject"},
               Return(w, outcome), UNCHANGED <<op, fence>>
        PROVE  Inv'
    BY <1>1, <1>2, <1>3, ReturnKeeps DEF rows
  <1>4. CASE /\ ProjectionAllowed(s) /\ s \notin synced /\ TaskReady(s)
             /\ AcquireFence(w, s) /\ PrepareOperation(w, s)
             /\ IF s \in Tasks THEN GotoStage(w, "renew", "create") ELSE Goto(w, "probe")
    <2> DEFINE o == [op[s] EXCEPT !.state = "running", !.token = w]
    <2>1. op \in [Subjects -> OperationType] /\ op[s] \in OperationType
      BY <1>1 DEF TypeOK
    <2>2. o \in OperationType /\ o.state = "running" /\ o.token = w
      BY <2>1 DEF OperationType, OperationStates
    <2>3. op' = [op EXCEPT ![s] = o]
      BY <1>4, <2>1 DEF PrepareOperation
    <2>4. op[s].state # "completed" /\ ~(migration = "open" /\ s \in Scope)
      BY <1>1, <1>4 DEF Inv, CompletedMeansProjected, ProjectionAllowed
    <2>5. /\ fence' \in [Subjects -> FenceType]
          /\ \A t \in Subjects \ {s} : fence'[t] = fence[t]
          /\ fence'[s].token = w
      <3> DEFINE f == [token |-> w, live |-> TRUE]
      <3>1. f \in FenceType /\ f.token = w
        BY DEF FenceType
      <3>2. fence \in [Subjects -> FenceType] /\ fence' = [fence EXCEPT ![s] = f]
        BY <1>1, <1>4 DEF TypeOK, AcquireFence
      <3> HIDE DEF f, s
      <3> QED
        BY <1>1, <3>1, <3>2
    <2> HIDE DEF o
    <2>6. s = proc[w].subject
      OBVIOUS
    <2>7. CASE s \in Tasks
      <3>1. Moved(w, "renew", s, "create")
        BY <1>1, <1>4, <2>7, MovesAreTyped DEF Pcs, Stages
      <3>2. PICK run \in ProcType :
              /\ proc' = [proc EXCEPT ![w] = run]
              /\ run.pc = "renew" /\ run.subject = s /\ run.stage = "create"
        BY <3>1 DEF Moved
      <3>3. <<s, "create">> \in Objects /\ s \notin Assets
        BY <2>7, ProjectionAssumption DEF Objects
      <3>4. op'[s].state # "none" => RunFits(run)'
        BY <1>1, <3>2, <3>3 DEF RunFits, Grounded
      <3> HIDE DEF s
      <3> QED
        BY <1>1, <1>2, <2>2, <2>3, <2>4, <2>5, <2>6, <3>2, <3>4, RunMovesOperation
    <2>8. CASE s \notin Tasks
      <3>1. Moved(w, "probe", s, proc[w].stage)
        BY <1>1, <1>4, <2>8, MovesAreTyped DEF Pcs
      <3>2. PICK run \in ProcType :
              /\ proc' = [proc EXCEPT ![w] = run]
              /\ run.pc = "probe" /\ run.subject = s
        BY <3>1 DEF Moved
      <3>3. s \in Assets /\ TaskOf[s] \in synced /\ TaskOf[s] \in Tasks
        BY <1>1, <1>4, <2>8, ProjectionAssumption DEF Subjects, TaskReady
      <3>4. Grounded(s, "put")
        <4>1. <<TaskOf[s], "create">> \in Objects /\ TaskOf[s] \in Subjects
          BY <3>3 DEF Objects, Subjects
        <4> QED
          BY <3>3, <4>1 DEF Inv, CompletedMeansProjected, Grounded, Stages
      <3>5. op'[s].state # "none" => RunFits(run)'
        BY <1>1, <1>2, <3>2, <3>3, <3>4 DEF RunFits, Grounded
      <3> HIDE DEF s
      <3> QED
        BY <1>1, <1>2, <2>2, <2>3, <2>4, <2>5, <2>6, <3>2, <3>5, RunMovesOperation
    <2> QED
      BY <2>7, <2>8
  <1> QED
    BY <1>3, <1>4 DEF Prepare

LEMMA ProbeKeeps ==
  ASSUME Inv, NEW w \in Workers, Probe(w)
  PROVE  Inv'
  <1> DEFINE s == proc[w].subject
  <1>1. s \in Assets /\ s \in Subjects /\ proc[w].pc = "probe" /\ TypeOK /\ Grounded(s, "put")
        /\ op[s].state # "none"
    BY DEF Inv, RunFits, Probe, At
  <1>2. UNCHANGED rows /\ UNCHANGED <<job, counters>>
    BY DEF Probe, rows
  <1>3. ASSUME NEW stage \in {"put", "attach"}, GotoStage(w, "renew", stage), Grounded(s, stage)
        PROVE  Inv'
    <2>1. Moved(w, "renew", s, stage)
      BY <1>1, <1>3, MovesAreTyped DEF Pcs, Stages
    <2>2. <<s, stage>> \in Objects
      BY <1>1 DEF Objects
    <2>3. \A run \in ProcType :
            run.pc = "renew" /\ run.subject = s /\ run.stage = stage => RunFits(run)
      BY <1>1, <1>3, <2>2 DEF RunFits
    <2> QED
      BY <1>2, <2>1, <2>3, RunSteps
  <1>4. CASE <<s, "put">> \in objects /\ GotoStage(w, "renew", "attach")
    <2>1. Grounded(s, "attach")
      BY <1>1, <1>4 DEF Grounded
    <2> QED
      BY <1>3, <1>4, <2>1
  <1>5. CASE GotoStage(w, "renew", "put")
    BY <1>1, <1>3, <1>5
  <1>6. ASSUME NEW cause \in {"retryable", "fatal", "plain"}, Throw(w, cause) PROVE Inv'
    BY <1>1, <1>2, <1>6, ThrowKeeps
  <1> QED
    BY <1>4, <1>5, <1>6 DEF Probe

(* Only the fence changes, and stays the fence of the same run.            *)
LEMMA FenceKeeps ==
  ASSUME Inv, UNCHANGED <<op, synced, inflight, objects, migration, job>>, CountersTyped',
         fence' \in [Subjects -> FenceType],
         \A t \in Subjects : fence'[t].token = fence[t].token,
         proc' \in [Workers -> ProcType], \A v \in Workers : RunFits(proc[v])'
  PROVE  Inv'
  <1>1. TypeOK'
    BY DEF Inv, TypeOK, Queue!TypeOK, CountersTyped
  <1>2. OperationsFit' /\ CompletedMeansProjected' /\ AttachmentsAreGrounded'
    BY DEF Inv, OperationsFit, CompletedMeansProjected, AttachmentsAreGrounded
  <1>3. FenceGuardsOperation' /\ RequestsFit' /\ ScopeIsResolved'
    BY DEF Inv, FenceGuardsOperation, RequestsFit, ScopeIsResolved, Unresolved, Grounded
  <1> QED
    BY <1>1, <1>2, <1>3 DEF Inv

LEMMA RenewKeeps ==
  ASSUME Inv, NEW w \in Workers, Renew(w)
  PROVE  Inv'
  <1> DEFINE s == proc[w].subject
  <1>1. RunFits(proc[w]) /\ proc[w].pc = "renew" /\ TypeOK /\ s \in Subjects
    BY DEF Inv, RunFits, Renew, At
  <1>2. UNCHANGED <<job, op, synced, inflight, objects, migration, counters>>
    BY DEF Renew
  <1>3. CASE OwnsFence(w, s) /\ fence' = Renewed(w, s) /\ Goto(w, "call")
    <2>1. Moved(w, "call", s, proc[w].stage)
      BY <1>1, <1>3, MovesAreTyped DEF Pcs
    <2>2. PICK run \in ProcType :
            /\ proc' = [proc EXCEPT ![w] = run]
            /\ run.pc = "call" /\ run.subject = s /\ run.stage = proc[w].stage
      BY <2>1 DEF Moved
    <2>3. RunFits(run)'
      BY <1>1, <1>2, <2>2 DEF RunFits, Grounded
    <2>4. proc' \in [Workers -> ProcType] /\ \A v \in Workers : RunFits(proc[v])'
      BY <1>2, <2>2, <2>3, RunsStay
    <2>5. /\ fence' \in [Subjects -> FenceType]
          /\ \A t \in Subjects : fence'[t].token = fence[t].token
      <3> DEFINE f == [fence[s] EXCEPT !.live = TRUE]
      <3>1. fence \in [Subjects -> FenceType] /\ fence[s] \in FenceType
        BY <1>1 DEF TypeOK
      <3>2. f \in FenceType /\ f.token = fence[s].token
        BY <3>1 DEF FenceType
      <3>3. fence' = [fence EXCEPT ![s] = f]
        BY <1>3, <3>1 DEF Renewed
      <3> HIDE DEF f, s
      <3> QED
        BY <1>1, <3>1, <3>2, <3>3
    <2>7. CountersTyped'
      BY <1>1, <1>2 DEF TypeOK, CountersTyped, counters
    <2> QED
      BY <1>2, <2>4, <2>5, <2>7, FenceKeeps
  <1>4. CASE Return(w, "deferred") /\ fence' = fence
    BY <1>1, <1>2, <1>4, ReturnKeeps DEF rows
  <1> QED
    BY <1>3, <1>4 DEF Renew, Renewed

LEMMA FenceExpiresKeeps ==
  ASSUME Inv, NEW s \in Subjects, FenceExpires(s)
  PROVE  Inv'
  <1> DEFINE f == [fence[s] EXCEPT !.live = FALSE]
  <1>1. fence \in [Subjects -> FenceType] /\ fence[s] \in FenceType
    BY DEF Inv, TypeOK
  <1>2. f \in FenceType /\ f.token = fence[s].token
    BY <1>1 DEF FenceType
  <1>3. fence' = [fence EXCEPT ![s] = f]
    BY <1>1 DEF FenceExpires
  <1> HIDE DEF f
  <1>4. /\ fence' \in [Subjects -> FenceType]
        /\ \A t \in Subjects : fence'[t].token = fence[t].token
    BY <1>1, <1>2, <1>3
  <1>5. UNCHANGED <<op, synced, inflight, objects, migration, job, proc>> /\ CountersTyped'
    BY DEF Inv, TypeOK, FenceExpires, CountersTyped
  <1>6. proc' \in [Workers -> ProcType] /\ \A v \in Workers : RunFits(proc[v])'
    BY <1>5, AllRunsStay
  <1> QED
    BY <1>4, <1>5, <1>6, FenceKeeps

-----------------------------------------------------------------------------
(* The external calls.                                                     *)

LEMMA CallKeeps ==
  ASSUME Inv, NEW w \in Workers, Call(w)
  PROVE  Inv'
  <1> DEFINE s == proc[w].subject
             stage == proc[w].stage
  <1>1. /\ RunFits(proc[w]) /\ proc[w].pc = "call" /\ TypeOK /\ s \in Subjects
        /\ <<s, stage>> \in Objects /\ Grounded(s, stage) /\ op[s].state # "none"
    BY DEF Inv, RunFits, Call, At
  <1>2. /\ UNCHANGED <<job, op, fence, synced, objects, migration, counters>>
        /\ inflight' = inflight \cup {<<s, stage>>}
    BY DEF Call
  <1>3. Moved(w, "await", s, stage)
    BY <1>1, MovesAreTyped DEF Call, Pcs
  <1>4. PICK run \in ProcType :
          /\ proc' = [proc EXCEPT ![w] = run]
          /\ run.pc = "await" /\ run.subject = s /\ run.stage = stage
    BY <1>3 DEF Moved
  <1>5. RunFits(run)'
    BY <1>1, <1>2, <1>4 DEF RunFits, Grounded
  <1>6. proc' \in [Workers -> ProcType] /\ \A v \in Workers : RunFits(proc[v])'
    BY <1>2, <1>4, <1>5, RunsStay
  <1>7. RequestsFit'
    <2>1. ASSUME NEW t \in Subjects, NEW g \in Stages, <<t, g>> \in inflight'
          PROVE  op[t].state # "none" /\ Grounded(t, g)
      <3>1. CASE <<t, g>> \in inflight
        BY <3>1 DEF Inv, RequestsFit
      <3>2. CASE t = s /\ g = stage
        BY <1>1, <3>2
      <3> QED
        BY <1>2, <2>1, <3>1, <3>2
    <2> QED
      BY <1>2, <2>1 DEF RequestsFit, Grounded
  <1>8. TypeOK'
    BY <1>1, <1>2, <1>6 DEF TypeOK, Queue!TypeOK, counters
  <1>9. OperationsFit' /\ CompletedMeansProjected' /\ AttachmentsAreGrounded'
    BY <1>2 DEF Inv, OperationsFit, CompletedMeansProjected, AttachmentsAreGrounded
  <1>10. FenceGuardsOperation' /\ ScopeIsResolved'
    BY <1>2 DEF Inv, FenceGuardsOperation, ScopeIsResolved, Unresolved
  <1> QED
    BY <1>6, <1>7, <1>8, <1>9, <1>10 DEF Inv

LEMMA AwaitKeeps ==
  ASSUME Inv, NEW w \in Workers, Await(w)
  PROVE  Inv'
  <1> DEFINE s == proc[w].subject
             stage == proc[w].stage
             next == IF stage = "put" THEN "checkpoint" ELSE "finish"
  <1>1. /\ RunFits(proc[w]) /\ proc[w].pc = "await" /\ TypeOK /\ s \in Subjects
        /\ <<s, stage>> \in Objects /\ Grounded(s, stage) /\ op[s].state # "none"
    BY DEF Inv, RunFits, Await, At
  <1>2. UNCHANGED rows /\ UNCHANGED <<job, counters>>
    BY DEF Await, rows
  <1>3. CASE <<s, stage>> \in objects /\ Goto(w, next)
    <2>1. next \in Pcs
      BY DEF Pcs
    <2>2. Moved(w, next, s, stage)
      BY <1>1, <1>3, <2>1, MovesAreTyped
    <2>3. \A run \in ProcType :
            run.pc = next /\ run.subject = s /\ run.stage = stage => RunFits(run)
      BY <1>1, <1>3 DEF RunFits
    <2> QED
      BY <1>2, <2>2, <2>3, RunSteps
  <1>4. ASSUME NEW cause \in {"retryable", "fatal", "plain"}, Throw(w, cause) PROVE Inv'
    BY <1>1, <1>2, <1>4, ThrowKeeps
  <1> QED
    BY <1>3, <1>4 DEF Await

(* An object that appears was asked for, and grounded when it was.         *)
LEMMA DeliverKeeps ==
  ASSUME Inv, Deliver
  PROVE  Inv'
  <1>1. PICK o \in inflight : inflight' = inflight \ {o} /\ objects' = objects \cup {o}
    BY DEF Deliver
  <1>2. UNCHANGED <<job, op, fence, synced, migration, proc, counters>>
    BY DEF Deliver
  <1>3. o \in Objects /\ TypeOK
    BY DEF Inv, TypeOK
  <1>4. proc' \in [Workers -> ProcType] /\ \A v \in Workers : RunFits(proc[v])'
    BY <1>1, <1>2, AllRunsStay
  <1>5. inflight' \subseteq Objects /\ RequestsFit'
    BY <1>1, <1>2, RequestsStay
  <1>6. TypeOK'
    BY <1>1, <1>2, <1>3, <1>4, <1>5 DEF TypeOK, Queue!TypeOK, counters
  <1>7. AttachmentsAreGrounded'
    <2>1. ASSUME NEW a \in Assets, <<a, "attach">> \in objects'
          PROVE  <<a, "put">> \in objects /\ <<TaskOf[a], "create">> \in objects
      <3>1. CASE <<a, "attach">> \in objects
        BY <3>1 DEF Inv, AttachmentsAreGrounded
      <3>2. CASE <<a, "attach">> \in inflight
        BY <3>2 DEF Inv, RequestsFit, Grounded, Subjects, Stages
      <3> QED
        BY <1>1, <2>1, <3>1, <3>2
    <2> QED
      BY <1>1, <2>1 DEF AttachmentsAreGrounded
  <1>8. OperationsFit' /\ CompletedMeansProjected'
    BY <1>1, <1>2 DEF Inv, OperationsFit, CompletedMeansProjected
  <1>9. FenceGuardsOperation' /\ ScopeIsResolved'
    BY <1>2 DEF Inv, FenceGuardsOperation, ScopeIsResolved, Unresolved
  <1> QED
    BY <1>4, <1>5, <1>6, <1>7, <1>8, <1>9 DEF Inv

LEMMA LoseKeeps ==
  ASSUME Inv, Lose
  PROVE  Inv'
  <1>1. /\ inflight' \subseteq inflight
        /\ UNCHANGED <<job, op, fence, synced, objects, migration, proc, counters>>
    BY DEF Lose
  <1>2. proc' \in [Workers -> ProcType] /\ \A v \in Workers : RunFits(proc[v])'
    BY <1>1, AllRunsStay
  <1>3. inflight' \subseteq Objects /\ RequestsFit'
    BY <1>1, RequestsStay
  <1>4. TypeOK'
    BY <1>1, <1>2, <1>3 DEF Inv, TypeOK, Queue!TypeOK, counters
  <1>5. OperationsFit' /\ CompletedMeansProjected' /\ AttachmentsAreGrounded'
    BY <1>1 DEF Inv, OperationsFit, CompletedMeansProjected, AttachmentsAreGrounded
  <1>6. FenceGuardsOperation' /\ ScopeIsResolved'
    BY <1>1 DEF Inv, FenceGuardsOperation, ScopeIsResolved, Unresolved
  <1> QED
    BY <1>2, <1>3, <1>4, <1>5, <1>6 DEF Inv

-----------------------------------------------------------------------------
(* The transactions after a call.                                          *)

(* A run that is not superseded has the operation, and what may advance is *)
(* not resolved, so that no migration has frozen it.                       *)
LEMMA MayAdvance ==
  ASSUME Inv, NEW w \in Workers, NEW s \in Subjects, op[s].state # "none"
  PROVE  /\ ~Superseded(w, s) => op[s].token = w
         /\ (\E to \in OperationStates : CanAdvance(op[s].state, to)) => Unresolved(s)
         /\ Unresolved(s) => op[s].state # "completed" /\ ~(migration = "open" /\ s \in Scope)
         /\ op[s].state \notin Terminal => Unresolved(s)
         /\ fence[s].token # NoOwner => op[s].token = fence[s].token
  <1>1. op[s].token # NoOwner
    BY DEF Inv, OperationsFit
  <1>2. ~Superseded(w, s) => op[s].token = w
    BY <1>1 DEF Superseded
  <1>3. (\E to \in OperationStates : CanAdvance(op[s].state, to)) => Unresolved(s)
    <2>1. op[s].state \in {"running", "retryable", "recovery_required", "completed"}
      BY DEF Inv, OperationsFit
    <2>2. \A to \in OperationStates : ~CanAdvance("completed", to)
      BY DEF CanAdvance, Allowed
    <2> QED
      BY <2>1, <2>2 DEF Unresolved, Terminal
  <1>4. Unresolved(s) => op[s].state # "completed" /\ ~(migration = "open" /\ s \in Scope)
    BY DEF Inv, ScopeIsResolved, Unresolved, Terminal
  <1>5. op[s].state \notin Terminal => Unresolved(s)
    BY DEF Unresolved, Terminal
  <1> QED
    BY <1>2, <1>3, <1>4, <1>5 DEF Inv, FenceGuardsOperation

LEMMA CheckpointKeeps ==
  ASSUME Inv, NEW w \in Workers, Checkpoint(w)
  PROVE  Inv'
  <1> DEFINE s == proc[w].subject
  <1>1. /\ RunFits(proc[w]) /\ proc[w].pc = "checkpoint" /\ TypeOK /\ s \in Subjects
        /\ <<s, "put">> \in Objects /\ Grounded(s, "put") /\ op[s].state # "none"
        /\ <<s, "put">> \in objects
    BY DEF Inv, RunFits, Checkpoint, At
  <1>2. UNCHANGED <<job, fence, synced, inflight, objects, migration, counters>>
    BY DEF Checkpoint
  <1>3. CASE op' = op /\ (Return(w, "deferred") \/ Throw(w, "plain"))
    BY <1>1, <1>2, <1>3, ReturnKeeps, ThrowKeeps DEF rows
  <1>4. CASE /\ ~Superseded(w, s) /\ CanAdvance(op[s].state, "running")
             /\ op' = [op EXCEPT ![s].state = "running", ![s].token = w, ![s].stored = TRUE]
             /\ GotoStage(w, "renew", "attach")
    <2> DEFINE o == [op[s] EXCEPT !.state = "running", !.token = w, !.stored = TRUE]
    <2>1. op \in [Subjects -> OperationType] /\ op[s] \in OperationType
      BY <1>1 DEF TypeOK
    <2>2. o \in OperationType /\ o.state = "running" /\ o.token = w
      BY <2>1 DEF OperationType, OperationStates
    <2>3. op' = [op EXCEPT ![s] = o]
      BY <1>4, <2>1
    <2>4. /\ op[s].state # "completed" /\ ~(migration = "open" /\ s \in Scope)
          /\ fence[s].token \in {NoOwner, w}
      BY <1>1, <1>4, MayAdvance DEF OperationStates
    <2>5. /\ fence' \in [Subjects -> FenceType]
          /\ \A t \in Subjects \ {s} : fence'[t] = fence[t]
          /\ fence'[s].token \in {NoOwner, w}
      BY <1>1, <1>2, <2>4 DEF TypeOK
    <2>6. Moved(w, "renew", s, "attach")
      BY <1>1, <1>4, MovesAreTyped DEF Pcs, Stages
    <2>7. PICK run \in ProcType :
            /\ proc' = [proc EXCEPT ![w] = run]
            /\ run.pc = "renew" /\ run.subject = s /\ run.stage = "attach"
      BY <2>6 DEF Moved
    <2>8. <<s, "attach">> \in Objects
      BY <1>1 DEF Objects
    <2>9. op'[s].state # "none" => RunFits(run)'
      BY <1>1, <1>2, <2>7, <2>8 DEF RunFits, Grounded
    <2>10. s = proc[w].subject
      OBVIOUS
    <2> HIDE DEF o, s
    <2> QED
      BY <1>1, <1>2, <2>2, <2>3, <2>4, <2>5, <2>7, <2>9, <2>10, RunMovesOperation
  <1> QED
    BY <1>3, <1>4 DEF Checkpoint

LEMMA FinishKeeps ==
  ASSUME Inv, NEW w \in Workers, Finish(w)
  PROVE  Inv'
  <1> DEFINE s == proc[w].subject
             stage == proc[w].stage
  <1>1. /\ RunFits(proc[w]) /\ proc[w].pc = "finish" /\ TypeOK /\ s \in Subjects
        /\ <<s, stage>> \in Objects /\ Grounded(s, stage) /\ op[s].state # "none"
        /\ stage # "put" /\ <<s, stage>> \in objects
    BY DEF Inv, RunFits, Finish, At
  <1>2. UNCHANGED <<job, inflight, objects, migration, counters>>
    BY DEF Finish
  <1>3. CASE UNCHANGED <<op, fence, synced>> /\ (Return(w, "done") \/ Throw(w, "plain"))
    BY <1>1, <1>2, <1>3, ReturnKeeps, ThrowKeeps DEF rows
  <1>4. CASE /\ op[s].state = "completed" /\ op' = op /\ synced' = synced \cup {s}
             /\ fence' = Released(w, s) /\ Return(w, "done")
    <2>1. s \in synced /\ fence[s].token = NoOwner
      BY <1>1, <1>4
      DEF Inv, CompletedMeansProjected, FenceGuardsOperation, Unresolved, Terminal
    <2>2. UNCHANGED <<op, fence, synced>>
      BY <1>4, <2>1, ProjectionAssumption DEF Released, OwnsFence
    <2> QED
      BY <1>3, <1>4, <2>2
  <1>5. CASE /\ ~Superseded(w, s) /\ CanAdvance(op[s].state, "completed")
             /\ op' = [op EXCEPT ![s] = [state |-> "completed", token |-> w, stored |-> TRUE]]
             /\ synced' = synced \cup {s} /\ fence' = Released(w, s) /\ Return(w, "done")
    <2> DEFINE o == [state |-> "completed", token |-> w, stored |-> TRUE]
    <2>1. o \in OperationType /\ o.state = "completed" /\ o.token = w
      BY DEF OperationType, OperationStates
    <2> HIDE DEF o
    <2>2. op \in [Subjects -> OperationType] /\ op' = [op EXCEPT ![s] = o]
      BY <1>1, <1>5 DEF TypeOK, o
    <2>3. /\ op' \in [Subjects -> OperationType] /\ op'[s] = o
          /\ \A t \in Subjects : t # s => op'[t] = op[t]
      BY <1>1, <2>1, <2>2
    <2>4. \A t \in Subjects : op[t].state # "none" => op'[t].state # "none"
      BY <2>1, <2>3
    <2>5. fence[s].token \in {NoOwner, w} /\ ~(migration = "open" /\ s \in Scope)
      BY <1>1, <1>5, MayAdvance DEF OperationStates
    <2>6. /\ fence' \in [Subjects -> FenceType] /\ fence'[s].token = NoOwner
          /\ \A t \in Subjects : t # s => fence'[t] = fence[t]
      BY <1>1, <1>5, <2>5, FenceMoves
    <2>7. Moved(w, "settle", s, stage)
      BY <1>1, <1>5, MovesAreTyped
    <2>8. PICK run \in ProcType :
            /\ proc' = [proc EXCEPT ![w] = run]
            /\ run.pc = "settle" /\ run.subject = s
      BY <2>7 DEF Moved
    <2>9. RunFits(run)'
      BY <1>1, <2>8 DEF RunFits
    <2>10. proc' \in [Workers -> ProcType] /\ \A v \in Workers : RunFits(proc[v])'
      BY <1>2, <2>4, <2>8, <2>9, RunsStay
    <2>11. RequestsFit'
      BY <1>2, <2>4, RequestsStay
    <2>12. TypeOK'
      BY <1>1, <1>2, <1>5, <2>3, <2>6, <2>10 DEF TypeOK, Queue!TypeOK, counters
    <2>13. OperationsFit'
      BY <2>1, <2>3, ProjectionAssumption DEF Inv, OperationsFit
    <2>14. CompletedMeansProjected'
      <3>1. ASSUME NEW g \in Stages, <<s, g>> \in Objects PROVE <<s, g>> \in objects
        <4>1. CASE s \in Tasks
          BY <1>1, <3>1, <4>1, ProjectionAssumption DEF Objects
        <4>2. CASE s \in Assets
          BY <1>1, <3>1, <4>2, ProjectionAssumption DEF Objects, Grounded
        <4> QED
          BY <1>1, <4>1, <4>2 DEF Subjects
      <3>2. ASSUME NEW t \in Subjects
            PROVE  /\ op'[t].state = "completed" <=> t \in synced'
                   /\ t \in synced' =>
                        \A g \in Stages : <<t, g>> \in Objects => <<t, g>> \in objects'
        <4>1. CASE t = s
          BY <1>2, <1>5, <2>1, <2>3, <3>1, <4>1
        <4>2. CASE t # s
          BY <1>2, <1>5, <2>3, <4>2 DEF Inv, CompletedMeansProjected
        <4> QED
          BY <4>1, <4>2
      <3> QED
        BY <3>2 DEF CompletedMeansProjected
    <2>15. AttachmentsAreGrounded'
      BY <1>2 DEF Inv, AttachmentsAreGrounded
    <2>16. FenceGuardsOperation'
      BY <2>3, <2>6 DEF Inv, FenceGuardsOperation, Unresolved
    <2>17. ScopeIsResolved'
      BY <1>2, <2>3, <2>5, ProjectionAssumption DEF Inv, ScopeIsResolved, Unresolved
    <2> QED
      BY <2>10, <2>11, <2>12, <2>13, <2>14, <2>15, <2>16, <2>17 DEF Inv
  <1> QED
    BY <1>3, <1>4, <1>5 DEF Finish

LEMMA RecordFailureKeeps ==
  ASSUME Inv, NEW w \in Workers, RecordFailure(w)
  PROVE  Inv'
  <1> DEFINE s == proc[w].subject
             target == IF proc[w].cause = "retryable" THEN "retryable" ELSE "recovery_required"
             mine == op[s].state \notin Terminal /\ ~Superseded(w, s)
             recorded == mine /\ CanAdvance(op[s].state, target)
             outcome == IF proc[w].cause = "fatal" /\ (mine => recorded) THEN "reject"
                                                                        ELSE "retry"
  <1>1. /\ RunFits(proc[w]) /\ proc[w].pc = "fail" /\ TypeOK /\ s \in Subjects
        /\ op[s].state # "none"
    BY DEF Inv, RunFits, RecordFailure, At
  <1>2. UNCHANGED <<job, synced, inflight, objects, migration, counters>>
    BY DEF RecordFailure
  <1>3. outcome \in {"reject", "retry"} /\ Return(w, outcome)
    BY DEF RecordFailure
  <1> HIDE DEF outcome
  <1>4. CASE ~recorded
    <2>1. op' = op /\ fence' = fence
      BY <1>4 DEF RecordFailure
    <2> QED
      BY <1>1, <1>2, <1>3, <2>1, ReturnKeeps DEF rows
  <1>5. CASE recorded
    <2> DEFINE o == [op[s] EXCEPT !.state = target, !.token = w]
    <2>1. op \in [Subjects -> OperationType] /\ op[s] \in OperationType
      BY <1>1 DEF TypeOK
    <2>2. o \in OperationType /\ o.state \in {"retryable", "recovery_required"} /\ o.token = w
      BY <2>1 DEF OperationType, OperationStates
    <2>3. op' = [op EXCEPT ![s] = o]
      BY <1>5, <2>1 DEF RecordFailure
    <2>4. fence' \in {Renewed(w, s), Released(w, s)}
      BY <1>5 DEF RecordFailure
    <2>5. ~Superseded(w, s) /\ op[s].state \notin Terminal
      BY <1>5
    <2>6. s = proc[w].subject
      OBVIOUS
    <2> HIDE DEF o, s, recorded, mine, target
    <2>7. /\ op[s].state # "completed" /\ ~(migration = "open" /\ s \in Scope)
          /\ fence[s].token \in {NoOwner, w}
      BY <1>1, <2>5, MayAdvance
    <2>8. /\ fence' \in [Subjects -> FenceType]
          /\ \A t \in Subjects \ {s} : fence'[t] = fence[t]
          /\ fence'[s].token \in {NoOwner, w}
      BY <1>1, <2>4, <2>7, FenceMoves
    <2>9. Moved(w, "settle", s, proc[w].stage)
      BY <1>1, <1>3, <2>6, MovesAreTyped
    <2>10. PICK run \in ProcType :
             /\ proc' = [proc EXCEPT ![w] = run]
             /\ run.pc = "settle" /\ run.subject = s
      BY <2>9 DEF Moved
    <2>11. op'[s].state # "none" => RunFits(run)'
      BY <1>1, <2>10 DEF RunFits
    <2> QED
      BY <1>1, <1>2, <2>2, <2>3, <2>6, <2>7, <2>8, <2>10, <2>11, RunMovesOperation
  <1> QED
    BY <1>4, <1>5

-----------------------------------------------------------------------------
(* Migrations and the operator.                                            *)

LEMMA MigrationKeeps ==
  ASSUME Inv, PlanMigration \/ OpenMigration \/ CloseMigration
  PROVE  Inv'
  <1>1. /\ UNCHANGED <<job, op, fence, synced, inflight, objects, proc>>
        /\ migration' \in {"none", "planned", "open"} /\ CountersTyped'
    BY DEF Inv, TypeOK, PlanMigration, OpenMigration, CloseMigration, CountersTyped, counters
  <1>2. proc' \in [Workers -> ProcType] /\ \A v \in Workers : RunFits(proc[v])'
    BY <1>1, AllRunsStay
  <1>3. TypeOK'
    BY <1>1, <1>2 DEF Inv, TypeOK, Queue!TypeOK, CountersTyped
  <1>4. OperationsFit' /\ CompletedMeansProjected' /\ AttachmentsAreGrounded'
    BY <1>1 DEF Inv, OperationsFit, CompletedMeansProjected, AttachmentsAreGrounded
  <1>5. FenceGuardsOperation' /\ RequestsFit'
    BY <1>1 DEF Inv, FenceGuardsOperation, RequestsFit, Unresolved, Grounded
  <1>6. ScopeIsResolved'
    <2>1. CASE OpenMigration
      BY <1>1, <2>1 DEF OpenMigration, OutboundActive, ScopeIsResolved, Unresolved
    <2>2. CASE PlanMigration \/ CloseMigration
      BY <2>2 DEF PlanMigration, CloseMigration, ScopeIsResolved
    <2> QED
      BY <2>1, <2>2
  <1> QED
    BY <1>2, <1>3, <1>4, <1>5, <1>6 DEF Inv

LEMMA RetryIntegrationKeeps ==
  ASSUME Inv, NEW s \in Subjects, RetryIntegration(s)
  PROVE  Inv'
  <1> DEFINE o == [op[s] EXCEPT !.state = "retryable"]
  <1>1. op \in [Subjects -> OperationType] /\ op[s] \in OperationType /\ TypeOK
    BY DEF Inv, TypeOK
  <1>2. o \in OperationType /\ o.state = "retryable" /\ o.token = op[s].token
    BY <1>1 DEF OperationType, OperationStates
  <1>3. op' = [op EXCEPT ![s] = o]
    BY <1>1 DEF RetryIntegration
  <1>4. UNCHANGED <<fence, synced, inflight, objects, migration, proc, counters>>
    BY DEF RetryIntegration
  <1>5. op[s].state # "none" /\ Unresolved(s)
    BY DEF RetryIntegration, Unresolved, Terminal
  <1> HIDE DEF o
  <1>6. /\ o.token # NoOwner /\ op[s].state # "completed"
        /\ ~(migration = "open" /\ s \in Scope) /\ fence'[s].token \in {NoOwner, o.token}
    BY <1>2, <1>4, <1>5
    DEF Inv, OperationsFit, ScopeIsResolved, FenceGuardsOperation, Unresolved, Terminal
  <1>7. fence' \in [Subjects -> FenceType] /\ \A t \in Subjects \ {s} : fence'[t] = fence[t]
    BY <1>1, <1>4 DEF TypeOK
  <1>8. /\ op' \in [Subjects -> OperationType]
        /\ \A t \in Subjects : op[t].state # "none" => op'[t].state # "none"
        /\ OperationsFit' /\ CompletedMeansProjected' /\ AttachmentsAreGrounded'
        /\ FenceGuardsOperation' /\ inflight' \subseteq Objects /\ RequestsFit'
        /\ ScopeIsResolved'
    BY <1>2, <1>3, <1>4, <1>6, <1>7, OperationMoves
  <1>9. proc' \in [Workers -> ProcType] /\ \A v \in Workers : RunFits(proc[v])'
    BY <1>4, <1>8, AllRunsStay
  <1>10. Queue!TypeOK'
    <2>1. Queue!TypeOK /\ Queue!Reschedule(s)
      BY <1>1 DEF TypeOK, RetryIntegration
    <2>2. [state |-> "pending", attempts |-> 0, owner |-> NoOwner] \in Queue!RowType
      BY DEF Queue!RowType, Queue!States
    <2> QED
      BY <2>1, <2>2 DEF Queue!Reschedule, Queue!Unowned, Queue!TypeOK
  <1>11. TypeOK'
    BY <1>1, <1>4, <1>8, <1>9, <1>10 DEF TypeOK, counters
  <1> QED
    BY <1>8, <1>9, <1>11 DEF Inv

-----------------------------------------------------------------------------
(* The invariant and what follows from it.                                 *)

LEMMA InitInv == Init => Inv
  <1> SUFFICES ASSUME Init PROVE Inv
    OBVIOUS
  <1>1. /\ job = [s \in Subjects |-> [state |-> "absent", attempts |-> 0, owner |-> NoOwner]]
        /\ op = [s \in Subjects |-> [state |-> "none", token |-> NoOwner, stored |-> FALSE]]
        /\ fence = [s \in Subjects |-> NoFence] /\ proc = [w \in Workers |-> Idle]
        /\ synced = {} /\ inflight = {} /\ objects = {} /\ migration = "none"
    BY DEF Init, Queue!Init
  <1>2. Queue!TypeOK
    BY <1>1 DEF Queue!TypeOK, Queue!RowType, Queue!States
  <1>3. Idle \in ProcType /\ Idle.pc = "idle" /\ NoFence \in FenceType /\ NoFence.token = NoOwner
    BY DEF Idle, ProcType, Stages, NoFence, FenceType
  <1>4. op \in [Subjects -> OperationType]
    BY <1>1 DEF OperationType
  <1>5. fence \in [Subjects -> FenceType] /\ proc \in [Workers -> ProcType]
    BY <1>1, <1>3
  <1>6. TypeOK
    BY <1>1, <1>2, <1>4, <1>5 DEF Init, TypeOK
  <1>7. OperationsFit /\ CompletedMeansProjected /\ AttachmentsAreGrounded
    BY <1>1 DEF OperationsFit, CompletedMeansProjected, AttachmentsAreGrounded
  <1>8. FenceGuardsOperation
    BY <1>1, <1>3 DEF FenceGuardsOperation
  <1>9. \A w \in Workers : RunFits(proc[w])
    BY <1>1, <1>3 DEF RunFits
  <1>10. RequestsFit /\ ScopeIsResolved
    BY <1>1 DEF RequestsFit, ScopeIsResolved
  <1> QED
    BY <1>6, <1>7, <1>8, <1>9, <1>10 DEF Inv

LEMMA InvKept == Inv /\ [Next]_vars => Inv'
  <1> SUFFICES ASSUME Inv, [Next]_vars PROVE Inv'
    OBVIOUS
  <1>1. ASSUME NEW w \in Workers, Run(w) PROVE Inv'
    <2>1. CASE Prepare(w) \/ Probe(w) \/ Renew(w)
      BY <2>1, PrepareKeeps, ProbeKeeps, RenewKeeps
    <2>2. CASE Call(w) \/ Await(w)
      BY <2>2, CallKeeps, AwaitKeeps
    <2>3. CASE Checkpoint(w) \/ Finish(w) \/ RecordFailure(w)
      BY <2>3, CheckpointKeeps, FinishKeeps, RecordFailureKeeps
    <2>4. CASE Settle(w)
      BY <2>4, SettleKeeps
    <2> QED
      BY <1>1, <2>1, <2>2, <2>3, <2>4 DEF Run
  <1>2. ASSUME NEW w \in Workers, Crash(w) \/ TransactionFails(w) PROVE Inv'
    BY <1>2, CrashKeeps, TransactionFailsKeeps
  <1>3. ASSUME NEW w \in Workers, NEW batch \in SUBSET Subjects, Claim(w, batch) PROVE Inv'
    BY <1>3, ClaimKeeps
  <1>4. ASSUME NEW s \in Subjects, Schedule(s) \/ FenceExpires(s) \/ RetryIntegration(s)
        PROVE  Inv'
    BY <1>4, ScheduleKeeps, FenceExpiresKeeps, RetryIntegrationKeeps
  <1>5. CASE Deliver \/ Lose
    BY <1>5, DeliverKeeps, LoseKeeps
  <1>6. CASE PlanMigration \/ OpenMigration \/ CloseMigration
    BY <1>6, MigrationKeeps
  <1>7. CASE UNCHANGED vars
    <2>1. UNCHANGED rows /\ UNCHANGED <<job, proc, counters>>
      BY <1>7 DEF vars, rows
    <2>2. Queue!TypeOK' /\ CountersTyped'
      BY <2>1 DEF Inv, TypeOK, Queue!TypeOK, CountersTyped, counters
    <2> QED
      BY <2>1, <2>2, QuietKeeps
  <1> QED
    BY <1>1, <1>2, <1>3, <1>4, <1>5, <1>6, <1>7 DEF Next

LEMMA InvHolds == Spec => []Inv
  <1>1. Init => Inv
    BY InitInv
  <1>2. Inv /\ [Next]_vars => Inv'
    BY InvKept
  <1> QED
    BY <1>1, <1>2, PTL DEF Spec

(* Every record keeps its type: a fence that is released is still a fence, *)
(* and no run writes the operation of a subject that is not there.         *)
THEOREM ProjectionIsTyped == Spec => []TypeOK
  <1>1. Inv => TypeOK
    BY DEF Inv
  <1> QED
    BY <1>1, InvHolds, PTL

(* A synced binding and a completed operation come together, and the       *)
(* replica is at the provider: the final transaction is reached only over  *)
(* answers that show its objects, whatever runs take over from each other. *)
THEOREM ReplicasExist == Spec => []CompletedMeansProjected
  <1>1. Inv => CompletedMeansProjected
    BY DEF Inv
  <1> QED
    BY <1>1, InvHolds, PTL

(* Every attachment that ever appears, from a request however late, hangs  *)
(* on an issue and a blob that exist.                                      *)
THEOREM AttachmentsHaveGround == Spec => []AttachmentsAreGrounded
  <1>1. Inv => AttachmentsAreGrounded
    BY DEF Inv
  <1> QED
    BY <1>1, InvHolds, PTL

(* A fence that stands belongs to the run that has the unresolved operation. *)
THEOREM FencesGuard == Spec => []FenceGuardsOperation
  <1>1. Inv => FenceGuardsOperation
    BY DEF Inv
  <1> QED
    BY <1>1, InvHolds, PTL

-----------------------------------------------------------------------------
(* What a step does to operations and bindings.                            *)

(* The operation of s is changed by the run that has it, or by one that    *)
(* takes an expired fence over.                                            *)
ChangedBy(w, s) ==
    /\ op'[s].token = w
    /\ \/ op[s].token = w
       \/ ~fence[s].live /\ fence'[s] = [token |-> w, live |-> TRUE]

LEMMA RunChanges ==
  ASSUME Inv, NEW w \in Workers, Run(w), NEW t \in Subjects
  PROVE  /\ op'[t] # op[t] => ChangedBy(w, t) /\ ~(migration = "open" /\ t \in Scope)
         /\ ~(t \in synced' <=> t \in synced) => ~(migration = "open" /\ t \in Scope)
         /\ objects' = objects
  <1> DEFINE s == proc[w].subject
  <1>1. op \in [Subjects -> OperationType] /\ fence \in [Subjects -> FenceType]
    BY DEF Inv, TypeOK
  <1>2. objects' = objects
    BY DEF Run, Prepare, Probe, Renew, Call, Await, Checkpoint, Finish, RecordFailure, Settle
  <1>3. CASE UNCHANGED <<op, synced>>
    BY <1>2, <1>3
  <1>4. CASE Probe(w) \/ Renew(w) \/ Call(w) \/ Await(w) \/ Settle(w)
    BY <1>3, <1>4 DEF Probe, Renew, Call, Await, Settle
  <1>5. CASE Prepare(w)
    <2>1. s \in Subjects
      BY <1>5 DEF Inv, RunFits, Prepare, At
    <2>2. CASE ProjectionAllowed(s) /\ AcquireFence(w, s) /\ PrepareOperation(w, s)
               /\ synced' = synced
      <3> DEFINE f == [token |-> w, live |-> TRUE]
                 o == [op[s] EXCEPT !.state = "running", !.token = w]
      <3>1. op' = [op EXCEPT ![s] = o] /\ fence' = [fence EXCEPT ![s] = f] /\ ~fence[s].live
        BY <1>1, <2>1, <2>2 DEF PrepareOperation, AcquireFence
      <3>2. o.token = w
        BY <1>1, <2>1 DEF OperationType
      <3> HIDE DEF f, o
      <3>3. op'[s] = o /\ fence'[s] = f /\ \A u \in Subjects : u # s => op'[u] = op[u]
        BY <1>1, <2>1, <3>1
      <3>4. ChangedBy(w, s)
        BY <3>1, <3>2, <3>3 DEF ChangedBy, f
      <3> QED
        BY <1>2, <2>2, <3>3, <3>4 DEF ProjectionAllowed
    <2> QED
      BY <1>3, <1>5, <2>2 DEF Prepare
  <1>6. ASSUME NEW o \in OperationType, op' = [op EXCEPT ![s] = o], o.token = w,
               s \in Subjects, ~Superseded(w, s), Unresolved(s), op[s].state # "none",
               synced' \in {synced, synced \cup {s}}
        PROVE  /\ op'[t] # op[t] => ChangedBy(w, t) /\ ~(migration = "open" /\ t \in Scope)
               /\ ~(t \in synced' <=> t \in synced) => ~(migration = "open" /\ t \in Scope)
               /\ objects' = objects
    <2>1. op[s].token = w /\ ~(migration = "open" /\ s \in Scope)
      BY <1>6, MayAdvance
    <2> HIDE DEF s
    <2>2. op'[s] = o /\ \A u \in Subjects : u # s => op'[u] = op[u]
      BY <1>1, <1>6
    <2>3. ChangedBy(w, s)
      BY <1>6, <2>1, <2>2 DEF ChangedBy
    <2> QED
      BY <1>2, <1>6, <2>1, <2>2, <2>3
  <1>7. CASE Checkpoint(w)
    <2>1. s \in Subjects /\ op[s].state # "none" /\ synced' = synced
      BY <1>7 DEF Inv, RunFits, Checkpoint, At
    <2>2. CASE /\ ~Superseded(w, s) /\ CanAdvance(op[s].state, "running")
               /\ op' = [op EXCEPT ![s].state = "running", ![s].token = w, ![s].stored = TRUE]
      <3> DEFINE o == [op[s] EXCEPT !.state = "running", !.token = w, !.stored = TRUE]
      <3>1. o \in OperationType /\ o.token = w
        BY <1>1, <2>1 DEF OperationType, OperationStates
      <3>2. op' = [op EXCEPT ![s] = o]
        BY <1>1, <2>1, <2>2
      <3>3. Unresolved(s)
        BY <2>1, <2>2, MayAdvance DEF OperationStates
      <3> HIDE DEF o
      <3> QED
        BY <1>6, <2>1, <2>2, <3>1, <3>2, <3>3
    <2> QED
      BY <1>3, <1>7, <2>1, <2>2 DEF Checkpoint
  <1>8. CASE Finish(w)
    <2>1. s \in Subjects /\ op[s].state # "none"
      BY <1>8 DEF Inv, RunFits, Finish, At
    <2>2. CASE op[s].state = "completed" /\ op' = op /\ synced' = synced \cup {s}
      <3>1. s \in synced
        BY <2>1, <2>2 DEF Inv, CompletedMeansProjected
      <3> QED
        BY <1>2, <2>2, <3>1
    <2>3. CASE /\ ~Superseded(w, s) /\ CanAdvance(op[s].state, "completed")
               /\ op' = [op EXCEPT ![s] = [state |-> "completed", token |-> w, stored |-> TRUE]]
               /\ synced' = synced \cup {s}
      <3> DEFINE o == [state |-> "completed", token |-> w, stored |-> TRUE]
      <3>1. o \in OperationType /\ o.token = w
        BY DEF OperationType, OperationStates
      <3>2. op' = [op EXCEPT ![s] = o]
        BY <2>3
      <3>3. Unresolved(s)
        BY <2>1, <2>3, MayAdvance DEF OperationStates
      <3> HIDE DEF o
      <3> QED
        BY <1>6, <2>1, <2>3, <3>1, <3>2, <3>3
    <2> QED
      BY <1>3, <1>8, <2>2, <2>3 DEF Finish
  <1>9. CASE RecordFailure(w)
    <2> DEFINE target == IF proc[w].cause = "retryable" THEN "retryable" ELSE "recovery_required"
    <2>1. s \in Subjects /\ op[s].state # "none" /\ synced' = synced
      BY <1>9 DEF Inv, RunFits, RecordFailure, At
    <2>2. CASE /\ op[s].state \notin Terminal /\ ~Superseded(w, s)
               /\ op' = [op EXCEPT ![s].state = target, ![s].token = w]
      <3> DEFINE o == [op[s] EXCEPT !.state = target, !.token = w]
      <3>1. op[s] \in OperationType /\ target \in OperationStates
        BY <1>1, <2>1 DEF OperationStates
      <3>2. op' = [op EXCEPT ![s] = o]
        BY <1>1, <2>1, <2>2
      <3>3. Unresolved(s)
        BY <2>1, <2>2, MayAdvance
      <3> HIDE DEF target
      <3>4. o \in OperationType /\ o.token = w
        BY <3>1 DEF OperationType
      <3> HIDE DEF o
      <3> QED
        BY <1>6, <2>1, <2>2, <3>2, <3>3, <3>4
    <2>3. CASE op' = op
      BY <1>3, <2>1, <2>3
    <2> QED
      BY <1>9, <2>2, <2>3 DEF RecordFailure
  <1> QED
    BY <1>4, <1>5, <1>7, <1>8, <1>9 DEF Run

(* No other step touches them, but an operator's retry.                    *)
LEMMA OthersChangeNothing ==
  ASSUME Inv, [Next]_vars, \A w \in Workers : ~Run(w),
         \A s \in Subjects : ~RetryIntegration(s)
  PROVE  op' = op /\ synced' = synced /\ (~Deliver => objects' = objects)
  BY DEF Next, vars, Crash, TransactionFails, Claim, Schedule, FenceExpires, Deliver, Lose,
         PlanMigration, OpenMigration, CloseMigration

LEMMA RetryChanges ==
  ASSUME Inv, NEW s \in Subjects, RetryIntegration(s), NEW t \in Subjects
  PROVE  /\ op'[t] # op[t] => job'[t] # job[t] /\ ~(migration = "open" /\ t \in Scope)
         /\ UNCHANGED <<synced, objects>>
  <1>1. op \in [Subjects -> OperationType] /\ job \in [Subjects -> Queue!RowType]
    BY DEF Inv, TypeOK, Queue!TypeOK
  <1>2. UNCHANGED <<synced, objects>>
    BY DEF RetryIntegration
  <1>3. t # s => op'[t] = op[t]
    BY <1>1 DEF RetryIntegration
  <1>4. job'[s] # job[s]
    <2>1. job[s].state = "dead_letter"
          /\ job' = [job EXCEPT ![s] = [state |-> "pending", attempts |-> 0, owner |-> NoOwner]]
      BY DEF RetryIntegration, Queue!Reschedule, Queue!Unowned
    <2>2. job'[s].state = "pending"
      BY <1>1, <2>1
    <2> QED
      BY <2>1, <2>2
  <1>5. ~(migration = "open" /\ s \in Scope)
    BY DEF Inv, ScopeIsResolved, RetryIntegration, Unresolved, Terminal
  <1> QED
    BY <1>2, <1>3, <1>4, <1>5

(* What arrives for a frozen subject was asked for by a run that has       *)
(* finished, so that it was there already.                                 *)
LEMMA FrozenObjects ==
  ASSUME Inv, Deliver, migration = "open", NEW s \in Scope, NEW stage \in Stages,
         <<s, stage>> \in objects'
  PROVE  <<s, stage>> \in objects
  <1>1. s \in Subjects /\ (<<s, stage>> \in objects \/ <<s, stage>> \in inflight)
    BY ProjectionAssumption DEF Deliver
  <1>2. CASE <<s, stage>> \in inflight
    <2>1. op[s].state # "none" /\ ~Unresolved(s) /\ <<s, stage>> \in Objects
      BY <1>1, <1>2 DEF Inv, TypeOK, RequestsFit, ScopeIsResolved
    <2>2. op[s].state = "completed"
      BY <1>1, <2>1 DEF Inv, OperationsFit, Unresolved, Terminal
    <2> QED
      BY <1>1, <2>1, <2>2 DEF Inv, CompletedMeansProjected
  <1> QED
    BY <1>1, <1>2

(* A run whose fence was taken over changes its operation no more, in the  *)
(* checkpoint, the final transaction or the record of its failure.         *)
THEOREM SupersededRunsChangeNothing == Spec => SupersededRunsAreHarmless
  <1>1. ASSUME Inv, [Next]_vars, NEW s \in Subjects, op'[s] # op[s], job'[s] = job[s]
        PROVE  \E w \in Workers :
                 /\ op'[s].token = w
                 /\ \/ op[s].token = w
                    \/ ~fence[s].live /\ fence'[s] = [token |-> w, live |-> TRUE]
    <2>1. ~(\E t \in Subjects : RetryIntegration(t))
      BY <1>1, RetryChanges
    <2>2. PICK w \in Workers : Run(w)
      BY <1>1, <2>1, OthersChangeNothing
    <2>3. ChangedBy(w, s)
      BY <1>1, <2>2, RunChanges
    <2> QED
      BY <2>3 DEF ChangedBy
  <1>2. Inv /\ [Next]_vars =>
          (\A s \in Subjects : op'[s] # op[s] /\ job'[s] = job[s] =>
             \E w \in Workers :
                /\ op'[s].token = w
                /\ \/ op[s].token = w
                   \/ ~fence[s].live /\ fence'[s] = [token |-> w, live |-> TRUE])
    BY <1>1
  <1> QED
    BY <1>2, InvHolds, PTL DEF Spec, SupersededRunsAreHarmless

(* While a migration is open its scope stands still, at the provider too:  *)
(* opening waits for every operation of the scope to be resolved, and no   *)
(* run that is still alive can move a resolved one.                        *)
THEOREM ScopesStayFrozen == Spec => FrozenScope
  <1>1. ASSUME Inv, [Next]_vars, migration = "open", NEW s \in Scope
        PROVE  /\ op'[s] = op[s]
               /\ s \in synced' <=> s \in synced
               /\ \A stage \in Stages :
                     <<s, stage>> \in objects' <=> <<s, stage>> \in objects
    <2>1. s \in Subjects
      BY ProjectionAssumption
    <2>2. ASSUME NEW w \in Workers, Run(w)
          PROVE  op'[s] = op[s] /\ (s \in synced' <=> s \in synced) /\ objects' = objects
      BY <1>1, <2>1, <2>2, RunChanges
    <2>3. ASSUME NEW t \in Subjects, RetryIntegration(t)
          PROVE  op'[s] = op[s] /\ synced' = synced /\ objects' = objects
      BY <1>1, <2>1, <2>3, RetryChanges
    <2>4. CASE Deliver
      <3>1. op' = op /\ synced' = synced /\ objects \subseteq objects'
        BY <2>4 DEF Deliver
      <3>2. ASSUME NEW stage \in Stages, <<s, stage>> \in objects'
            PROVE  <<s, stage>> \in objects
        BY <1>1, <2>4, <3>2, FrozenObjects
      <3> QED
        BY <3>1, <3>2
    <2> QED
      BY <1>1, <2>2, <2>3, <2>4, OthersChangeNothing
  <1>2. Inv /\ [Next]_vars =>
          (migration = "open" /\ migration' = "open" =>
             \A s \in Scope :
                /\ op'[s] = op[s]
                /\ s \in synced' <=> s \in synced
                /\ \A stage \in Stages :
                      <<s, stage>> \in objects' <=> <<s, stage>> \in objects)
    BY <1>1
  <1> QED
    BY <1>2, InvHolds, PTL DEF Spec, FrozenScope

=============================================================================
