-------------------------- MODULE CindyStoreProofs --------------------------
(* The calls of CindyStore, with their locks, their staged records and their *)
(* crashes, implement CindyLoop: for any number of processes, runs and trees *)
(* and with no bound on moves, crashes or versions.  What a call has staged  *)
(* stays allowed by the evidence until its fence, because nobody but the     *)
(* holder of a lock writes the run or the evidence behind it; the tree may   *)
(* move meanwhile, and the fence compares it.                                *)
EXTENDS CindyStore, CindyLoopProofs

-----------------------------------------------------------------------------
(* The types of calls and locks                                              *)

WriteCall ==
    [pc : {"writing", "locked", "sealed"}, version : Nat,
     item : {e \in Artifact : e.kind \in Kinds /\ e.says \in Says(e.kind)},
     after : {"none", "review", "judge"}]

MoveCall == [pc : {"moving", "confirmed"}, run : RunIds, next : Run,
             snapshot : (Trees \X Inputs) \cup {Nothing}, fenced : BOOLEAN]

CreateCall == [pc : {"creating"}, run : RunIds, next : Run]

ReviewCall == [pc : {"reviewing"}, run : RunIds]

JudgeCall == [pc : {"judging"}, run : RunIds, says : Verdicts \cup {"BOUND"}, version : Nat]

ResumeCall == [pc : {"resuming"}, run : RunIds, tree : Trees]

Calls == {Idle} \cup WriteCall \cup MoveCall \cup CreateCall \cup ReviewCall
           \cup JudgeCall \cup ResumeCall

StoreTypes ==
    /\ proc \in [Procs -> Calls]
    /\ lock \in [RunIds -> Procs \cup {Nothing, Dead}]
    /\ initLock \in Procs \cup {Nothing, Dead}

LEMMA CallTypes ==
  ASSUME StoreTypes, NEW p \in Procs
  PROVE  /\ proc[p].pc \in {"writing", "locked", "sealed"} => proc[p] \in WriteCall
         /\ proc[p].pc \in {"moving", "confirmed"} => proc[p] \in MoveCall
         /\ proc[p].pc = "creating" => proc[p] \in CreateCall
         /\ proc[p].pc = "resuming" => proc[p] \in ResumeCall
  BY DEF StoreTypes, Calls, Idle, WriteCall, MoveCall, CreateCall, ReviewCall, JudgeCall,
         ResumeCall

-----------------------------------------------------------------------------
(* What a call holds and has staged                                          *)

\* The record next of run r, bound to t, follows from the evidence by one of
\* the operations that are fenced.
Allowed(r, t, next) ==
    \/ \E s \in StepTargets : MayStep(r, s) /\ next = Moved(r, s, t)
    \/ \E s \in PauseTargets : MayPause(r, s) /\ next = Paused(r, s, t)
    \/ MayResume(r) /\ next = Resumed(r, t)
    \/ \E i \in Inputs : MayPrepare(r, t, i) /\ next = Prepared(r, t)
    \/ \E i \in Inputs : MayReview(r, t, i) /\ next = InReview(r, t)
    \/ \E v \in Verdicts, i \in Inputs : MayJudge(r, v, t, i) /\ next = Judged(r, v)

Stop(r, next) == \E v \in Failures : MayStop(r) /\ next = Stopped(r, v)

Creating(call) ==
    /\ ~ActiveRunExists
    /\ call.next = NewRun(call.next.bound, call.next.at)

Writing(call) == MayRecord(call.item) \/ IsDuplicate(call.item)

Moving(call) ==
    IF call.fenced THEN Allowed(call.run, call.next.bound, call.next)
                   ELSE Stop(call.run, call.next)

Holding(p) ==
    /\ proc[p].pc = "creating" => initLock = p /\ Creating(proc[p])
    /\ proc[p].pc \in {"locked", "sealed"} => lock[proc[p].item.run] = p /\ Writing(proc[p])
    /\ proc[p].pc \in {"moving", "confirmed"} => lock[proc[p].run] = p /\ Moving(proc[p])

StoreInv == StoreTypes /\ \A p \in Procs : Holding(p)

\* A move is of a run that exists.
LEMMA MovingExists ==
  ASSUME NEW call, Moving(call)
  PROVE  Exists(call.run)
  BY DEF Moving, Allowed, Stop, MayStep, MayPause, MayResume, MayPrepare, MayReview,
         MayJudge, MayStop

LEMMA WritingExists ==
  ASSUME LoopInv, NEW call \in WriteCall, Writing(call)
  PROVE  Exists(call.item.run)
  BY DEF Writing, MayRecord, IsDuplicate, LoopInv, EvidenceIsOfRun

\* More evidence disallows no move of a run whose record is as it was.
LEMMA MovingStays ==
  ASSUME NEW call, Moving(call), run'[call.run] = run[call.run], evidence \subseteq evidence'
  PROVE  Moving(call)'
  <1>1. \A kind, says, t, i :
          HasLive(call.run, kind, says, t, i) => HasLive(call.run, kind, says, t, i)'
    BY DEF HasLive, BoundTo
  <1>2. CASE call.fenced
    <2>1. Allowed(call.run, call.next.bound, call.next)
      BY <1>2 DEF Moving
    <2>2. Allowed(call.run, call.next.bound, call.next)'
      BY <1>1, <2>1
      DEF Allowed, MayStep, MayPause, MayResume, MayPrepare, MayReview, MayJudge,
          Moved, Paused, Resumed, Prepared, InReview, Judged, Exists, HasLive, BoundTo
    <2> QED
      BY <1>2, <2>2 DEF Moving
  <1>3. CASE ~call.fenced
    BY <1>3 DEF Moving, Stop, MayStop, Stopped, Exists
  <1> QED
    BY <1>2, <1>3

\* A write stays due when its run and that run's evidence are as they were.
LEMMA WritingStays ==
  ASSUME NEW call, Writing(call), run'[call.item.run] = run[call.item.run],
         \A e : e.run = call.item.run => (e \in evidence' <=> e \in evidence)
  PROVE  Writing(call)'
  <1>1. \A kind, cycle : Stored(call.item.run, kind, cycle)' = Stored(call.item.run, kind, cycle)
    BY DEF Stored
  <1>2. CASE MayRecord(call.item)
    BY <1>1, <1>2 DEF Writing, MayRecord, Answers, Stored, Exists
  <1>3. CASE IsDuplicate(call.item)
    BY <1>3 DEF Writing, IsDuplicate
  <1> QED
    BY <1>2, <1>3 DEF Writing

\* A process that writes only behind the locks it holds, and creates only where
\* nothing is, leaves what the others hold and have staged.
OnlyOwn(q) ==
    /\ \A r \in RunIds : lock'[r] = lock[r] \/ lock[r] \in {Nothing, q}
    /\ initLock' = initLock \/ initLock \in {Nothing, q}
    /\ \A r \in RunIds : run'[r] = run[r] \/ lock[r] = q \/ ~Exists(r)
    /\ evidence \subseteq evidence'
    /\ \A e \in evidence' : e \in evidence \/ lock[e.run] = q
    /\ run' = run \/ ActiveRunExists \/ initLock = q

LEMMA OthersHold ==
  ASSUME LoopInv, StoreInv, NEW q, OnlyOwn(q),
         NEW p \in Procs, p # q, proc'[p] = proc[p]
  PROVE  Holding(p)'
  <1> DEFINE call == proc[p]
  <1>1. Holding(p) /\ StoreTypes /\ p # Nothing
    BY OwnerAssumption DEF StoreInv
  <1>2. ASSUME call.pc = "creating" PROVE initLock' = p /\ Creating(call)'
    <2>1. initLock = p /\ Creating(call)
      BY <1>1, <1>2 DEF Holding
    <2>2. initLock' = p
      BY <1>1, <2>1 DEF OnlyOwn
    <2>3. run' = run
      BY <2>1 DEF OnlyOwn, Creating
    <2> QED
      BY <2>1, <2>2, <2>3 DEF Creating, ActiveRunExists, Exists, NewRun
  <1>3. ASSUME call.pc \in {"locked", "sealed"} PROVE lock'[call.item.run] = p /\ Writing(call)'
    <2>1. call \in WriteCall /\ call.item.run \in RunIds
      BY <1>1, <1>3, CallTypes DEF WriteCall, Artifact
    <2>2. lock[call.item.run] = p /\ Writing(call)
      BY <1>1, <1>3 DEF Holding
    <2>3. Exists(call.item.run)
      BY <2>1, <2>2, WritingExists
    <2>4. lock'[call.item.run] = p /\ run'[call.item.run] = run[call.item.run]
      BY <1>1, <2>1, <2>2, <2>3 DEF OnlyOwn
    <2>5. \A e : e.run = call.item.run => (e \in evidence' <=> e \in evidence)
      BY <2>2 DEF OnlyOwn
    <2> QED
      BY <2>2, <2>4, <2>5, WritingStays
  <1>4. ASSUME call.pc \in {"moving", "confirmed"} PROVE lock'[call.run] = p /\ Moving(call)'
    <2>1. call \in MoveCall /\ call.run \in RunIds
      BY <1>1, <1>4, CallTypes DEF MoveCall
    <2>2. lock[call.run] = p /\ Moving(call)
      BY <1>1, <1>4 DEF Holding
    <2>3. Exists(call.run)
      BY <2>2, MovingExists
    <2>4. lock'[call.run] = p /\ run'[call.run] = run[call.run]
      BY <1>1, <2>1, <2>2, <2>3 DEF OnlyOwn
    <2> QED
      BY <2>2, <2>4, MovingStays DEF OnlyOwn
  <1> QED
    BY <1>2, <1>3, <1>4 DEF Holding, Creating, Writing, Moving

\* A step of q that touches nothing of the loop is a stutter of it.
LEMMA QuietStep ==
  ASSUME LoopInv, StoreInv, NEW q \in Procs, NEW c \in Calls, Become(q, c),
         UNCHANGED <<world, run, evidence>>,
         lock' \in [RunIds -> Procs \cup {Nothing, Dead}],
         initLock' \in Procs \cup {Nothing, Dead},
         \A r \in RunIds : lock'[r] = lock[r] \/ lock[r] \in {Nothing, q},
         initLock' = initLock \/ initLock \in {Nothing, q},
         Holding(q)'
  PROVE  StoreInv' /\ [LoopNext]_loopVars
  <1>1. /\ proc' = [proc EXCEPT ![q] = c] /\ proc'[q] = c
        /\ \A p \in Procs \ {q} : proc'[p] = proc[p]
    BY DEF Become, StoreInv, StoreTypes
  <1>2. StoreTypes'
    BY <1>1 DEF StoreInv, StoreTypes
  <1>3. OnlyOwn(q)
    BY DEF OnlyOwn
  <1>4. \A p \in Procs : Holding(p)'
    BY <1>1, <1>3, OthersHold
  <1> QED
    BY <1>2, <1>4 DEF StoreInv, loopVars, world

\* A call that has no lock yet has staged nothing.
LEMMA WaitingHolds ==
  ASSUME NEW q, proc'[q].pc \in {"idle", "writing", "reviewing", "judging", "resuming"}
  PROVE  Holding(q)'
  BY DEF Holding

LEMMA WaitingStep ==
  ASSUME LoopInv, StoreInv, NEW q \in Procs, NEW c \in Calls, Become(q, c),
         c.pc \in {"idle", "writing", "reviewing", "judging", "resuming"},
         UNCHANGED <<world, run, evidence, lock, initLock>>
  PROVE  StoreInv' /\ [LoopNext]_loopVars
  <1>1. proc'[q] = c
    BY DEF Become, StoreInv, StoreTypes
  <1>2. Holding(q)'
    BY <1>1, WaitingHolds
  <1> QED
    BY <1>2, QuietStep DEF StoreInv, StoreTypes

\* The lock of r is free and q takes it.
LEMMA LockingStep ==
  ASSUME LoopInv, StoreInv, NEW q \in Procs, NEW r \in RunIds, NEW c \in Calls,
         Become(q, c), AcquireRunLock(q, r), UNCHANGED <<world, run, evidence, initLock>>,
         Holding(q)'
  PROVE  StoreInv' /\ [LoopNext]_loopVars
  <1>1. /\ lock' \in [RunIds -> Procs \cup {Nothing, Dead}]
        /\ \A s \in RunIds : lock'[s] = lock[s] \/ lock[s] \in {Nothing, q}
    BY DEF AcquireRunLock, StoreInv, StoreTypes
  <1>2. initLock' \in Procs \cup {Nothing, Dead}
    BY DEF StoreInv, StoreTypes
  <1> QED
    BY <1>1, <1>2, QuietStep

-----------------------------------------------------------------------------
(* Calls before their lock                                                   *)

LEMMA AskWriteStep ==
  ASSUME LoopInv, StoreInv, NEW p \in Procs, NEW r \in RunIds, NEW kind \in Kinds,
         NEW says \in Says(kind), NEW after \in {"none", "review", "judge"},
         AskWrite(p, r, kind, says, after)
  PROVE  StoreInv' /\ [LoopNext]_loopVars
  <1> DEFINE item == BoundTo(r, kind, says, tree, inputs)
             c == [pc |-> "writing", item |-> item, version |-> run[r].version,
                   after |-> after]
  <1>1. run[r] \in Run /\ tree \in Trees /\ inputs \in Inputs
    BY ExistingIsRun DEF LoopInv, TypeOK, AskWrite
  <1>2. says \in Verdicts \cup {"BOUND"}
    BY DEF Says
  <1>3. item \in Artifact /\ item.kind = kind /\ item.says = says
    BY <1>1, <1>2 DEF BoundTo, Artifact, Run
  <1>4. c \in WriteCall
    BY <1>1, <1>3 DEF WriteCall, Run
  <1>5. c \in Calls /\ c.pc = "writing"
    BY <1>4 DEF Calls
  <1> QED
    BY <1>5, WaitingStep DEF AskWrite

LEMMA AskStep ==
  ASSUME LoopInv, StoreInv, NEW p \in Procs, NEW r \in RunIds,
         \/ AskTestResult(p, r) \/ AskDiffManifest(p, r)
         \/ AskReviewRequest(p, r) \/ AskReviewResult(p, r)
  PROVE  StoreInv' /\ [LoopNext]_loopVars
  <1>1. /\ Says("test") = Verdicts /\ Says("result") = Verdicts
        /\ "BOUND" \in Says("diff") /\ "BOUND" \in Says("request")
    BY DEF Says
  <1>2. {"test", "diff", "request", "result"} \subseteq Kinds
    BY DEF Kinds
  <1> QED
    BY <1>1, <1>2, AskWriteStep
    DEF AskTestResult, AskDiffManifest, AskReviewRequest, AskReviewResult

LEMMA AskResumeStep ==
  ASSUME LoopInv, StoreInv, NEW p \in Procs, NEW r \in RunIds, AskResume(p, r)
  PROVE  StoreInv' /\ [LoopNext]_loopVars
  <1> DEFINE c == [pc |-> "resuming", run |-> r, tree |-> tree]
  <1>1. c \in Calls /\ c.pc = "resuming"
    BY DEF LoopInv, TypeOK, Calls, ResumeCall
  <1> QED
    BY <1>1, WaitingStep DEF AskResume

-----------------------------------------------------------------------------
(* Taking a lock and staging                                                 *)

LEMMA BeginInitStep ==
  ASSUME LoopInv, StoreInv, NEW p \in Procs, NEW r \in RunIds, BeginInit(p, r)
  PROVE  StoreInv' /\ [LoopNext]_loopVars
  <1>0. PICK s \in Scopes :
          Become(p, [pc |-> "creating", run |-> r, next |-> NewRun(tree, Binding(git, s))])
    BY DEF BeginInit
  <1>1. PICK c :
          /\ c = [pc |-> "creating", run |-> r, next |-> NewRun(tree, Binding(git, s))]
          /\ Become(p, c)
    BY <1>0
  <1>2. c.next \in Run /\ c.next = NewRun(c.next.bound, c.next.at)
    BY <1>1, NewRunTyped DEF LoopInv, NewRun
  <1>3. c \in Calls /\ c.pc = "creating"
    BY <1>1, <1>2 DEF Calls, CreateCall
  <1>4. /\ Become(p, c) /\ UNCHANGED <<world, run, evidence, lock>>
        /\ initLock = Nothing /\ initLock' = p /\ ~ActiveRunExists
    BY <1>1 DEF BeginInit, AcquireInitLock
  <1>5. proc'[p] = c
    BY <1>4 DEF Become, StoreInv, StoreTypes
  <1>6. Creating(c)'
    BY <1>2, <1>4 DEF Creating, ActiveRunExists, Exists, NewRun
  <1>7. Holding(p)'
    BY <1>3, <1>4, <1>5, <1>6 DEF Holding
  <1> QED
    BY <1>3, <1>4, <1>7, QuietStep DEF StoreInv, StoreTypes

LEMMA LockWriteStep ==
  ASSUME LoopInv, StoreInv, NEW p \in Procs, LockWrite(p)
  PROVE  StoreInv' /\ [LoopNext]_loopVars
  <1>1. PICK c : c = [proc[p] EXCEPT !.pc = "locked"]
    OBVIOUS
  <1>2. proc[p] \in WriteCall
    BY CallTypes DEF LockWrite, StoreInv
  <1>3. /\ c \in WriteCall /\ c.pc = "locked" /\ c.item = proc[p].item
        /\ c.item.run \in RunIds
    BY <1>1, <1>2 DEF WriteCall, Artifact
  <1>4. /\ Become(p, c) /\ AcquireRunLock(p, c.item.run)
        /\ MayRecord(c.item) \/ IsDuplicate(c.item)
        /\ UNCHANGED <<world, run, evidence, initLock>>
    BY <1>1, <1>3 DEF LockWrite
  <1>5. proc'[p] = c /\ lock'[c.item.run] = p /\ c \in Calls
    BY <1>3, <1>4 DEF Become, AcquireRunLock, StoreInv, StoreTypes, Calls
  <1>6. Writing(c)'
    BY <1>4, WritingStays DEF Writing
  <1>7. Holding(p)'
    BY <1>3, <1>5, <1>6 DEF Holding
  <1> QED
    BY <1>3, <1>4, <1>5, <1>7, LockingStep

LEMMA SealWriteStep ==
  ASSUME LoopInv, StoreInv, NEW p \in Procs, SealWrite(p)
  PROVE  StoreInv' /\ [LoopNext]_loopVars
  <1>1. PICK c : c = [proc[p] EXCEPT !.pc = "sealed"]
    OBVIOUS
  <1>2. proc[p] \in WriteCall /\ proc[p].pc = "locked"
    BY CallTypes DEF SealWrite, StoreInv
  <1>3. c \in WriteCall /\ c.pc = "sealed" /\ c.item = proc[p].item
    BY <1>1, <1>2 DEF WriteCall
  <1>4. Become(p, c) /\ UNCHANGED <<world, run, evidence, lock, initLock>>
    BY <1>1 DEF SealWrite
  <1>5. lock[c.item.run] = p /\ Writing(c)
    BY <1>2, <1>3 DEF StoreInv, Holding, Writing
  <1>6. proc'[p] = c /\ lock'[c.item.run] = p /\ c \in Calls
    BY <1>3, <1>4, <1>5 DEF Become, StoreInv, StoreTypes, Calls
  <1>7. Writing(c)'
    BY <1>4, <1>5, WritingStays
  <1>8. Holding(p)'
    BY <1>3, <1>6, <1>7 DEF Holding
  <1> QED
    BY <1>4, <1>6, <1>8, QuietStep DEF StoreInv, StoreTypes

\* A move that is staged as its operation allows is held as such.
LEMMA StagedStep ==
  ASSUME LoopInv, StoreInv, NEW p \in Procs, NEW r \in RunIds, NEW next \in Run,
         NEW snapshot \in (Trees \X Inputs) \cup {Nothing}, NEW fenced \in BOOLEAN,
         AcquireRunLock(p, r),
         Become(p, [pc |-> "moving", run |-> r, next |-> next, snapshot |-> snapshot,
                    fenced |-> fenced]),
         UNCHANGED <<world, run, evidence, initLock>>,
         IF fenced THEN Allowed(r, next.bound, next) ELSE Stop(r, next)
  PROVE  StoreInv' /\ [LoopNext]_loopVars
  <1>1. PICK c : c = [pc |-> "moving", run |-> r, next |-> next, snapshot |-> snapshot,
                      fenced |-> fenced]
    OBVIOUS
  <1>2. c \in MoveCall /\ c.pc = "moving" /\ c.run = r
    BY <1>1 DEF MoveCall
  <1>3. Become(p, c)
    BY <1>1
  <1>4. proc'[p] = c /\ lock'[r] = p /\ c \in Calls
    BY <1>2, <1>3 DEF Become, AcquireRunLock, StoreInv, StoreTypes, Calls
  <1>5. Moving(c)
    BY <1>1 DEF Moving
  <1>6. Moving(c)'
    BY <1>5, MovingStays
  <1>7. Holding(p)'
    BY <1>2, <1>4, <1>6 DEF Holding
  <1> QED
    BY <1>3, <1>4, <1>7, LockingStep

LEMMA StagedAllowed ==
  ASSUME LoopInv, StoreInv, NEW p \in Procs, NEW r \in RunIds, NEW next \in Run,
         Allowed(r, next.bound, next),
         StageAuthorised(p, r, next) \/ Stage(p, r, next, Nothing)
  PROVE  StoreInv' /\ [LoopNext]_loopVars
  <1>1. Snapshot \in Trees \X Inputs
    BY DEF Snapshot, LoopInv, TypeOK
  <1> QED
    BY <1>1, StagedStep DEF StageAuthorised, Stage

LEMMA BeginStepStep ==
  ASSUME LoopInv, StoreInv, NEW p \in Procs, NEW r \in RunIds, BeginStep(p, r)
  PROVE  StoreInv' /\ [LoopNext]_loopVars
  <1>1. PICK s \in StepTargets : MayStep(r, s) /\ StageAuthorised(p, r, Moved(r, s, tree))
    BY DEF BeginStep
  <1>2. PICK next : next = Moved(r, s, tree)
    OBVIOUS
  <1>3. s \in RunStates /\ Exists(r) /\ tree \in Trees /\ TypeOK
    BY <1>1 DEF StepTargets, RunStates, ResumeTargets, MayStep, LoopInv, TypeOK
  <1>4. next \in Run /\ next.bound = tree
    BY <1>2, <1>3, MovedRecord
  <1>5. Allowed(r, next.bound, next)
    BY <1>1, <1>2, <1>4 DEF Allowed
  <1> QED
    BY <1>1, <1>2, <1>4, <1>5, StagedAllowed

LEMMA BeginPauseStep ==
  ASSUME LoopInv, StoreInv, NEW p \in Procs, NEW r \in RunIds, BeginPause(p, r)
  PROVE  StoreInv' /\ [LoopNext]_loopVars
  <1>1. PICK s \in PauseTargets : MayPause(r, s) /\ StageAuthorised(p, r, Paused(r, s, tree))
    BY DEF BeginPause
  <1>2. PICK next : next = Paused(r, s, tree)
    OBVIOUS
  <1>3. next \in Run /\ next.bound = tree
    BY <1>1, <1>2, PausedRecord DEF LoopInv, TypeOK
  <1>4. Allowed(r, next.bound, next)
    BY <1>1, <1>2, <1>3 DEF Allowed
  <1> QED
    BY <1>1, <1>2, <1>3, <1>4, StagedAllowed

LEMMA BeginPrepareStep ==
  ASSUME LoopInv, StoreInv, NEW p \in Procs, NEW r \in RunIds, BeginPrepare(p, r)
  PROVE  StoreInv' /\ [LoopNext]_loopVars
  <1>1. PICK next : next = Prepared(r, tree)
    OBVIOUS
  <1>2. Exists(r) /\ tree \in Trees /\ inputs \in Inputs /\ TypeOK
    BY DEF BeginPrepare, MayPrepare, LoopInv, TypeOK
  <1>3. next \in Run /\ next.bound = tree
    BY <1>1, <1>2, MovedRecord DEF Prepared, RunStates, ResumeTargets
  <1>4. Allowed(r, next.bound, next)
    BY <1>1, <1>2, <1>3 DEF Allowed, BeginPrepare
  <1> QED
    BY <1>1, <1>3, <1>4, StagedAllowed DEF BeginPrepare

LEMMA BeginReviewStep ==
  ASSUME LoopInv, StoreInv, NEW p \in Procs, NEW r \in RunIds, BeginReview(p, r)
  PROVE  StoreInv' /\ [LoopNext]_loopVars
  <1>1. PICK next : next = InReview(r, tree)
    OBVIOUS
  <1>2. Exists(r) /\ tree \in Trees /\ inputs \in Inputs /\ TypeOK
    BY DEF BeginReview, MayReview, LoopInv, TypeOK
  <1>3. next \in Run /\ next.bound = tree
    BY <1>1, <1>2, MovedRecord DEF InReview, RunStates, ResumeTargets
  <1>4. Allowed(r, next.bound, next)
    BY <1>1, <1>2, <1>3 DEF Allowed, BeginReview
  <1> QED
    BY <1>1, <1>3, <1>4, StagedAllowed DEF BeginReview

\* The request that is live names the tree the run has been bound to since the
\* review began.
LEMMA BeginJudgeStep ==
  ASSUME LoopInv, StoreInv, NEW p \in Procs, NEW r \in RunIds, BeginJudge(p, r)
  PROVE  StoreInv' /\ [LoopNext]_loopVars
  <1>1. PICK v \in Verdicts :
          Exists(r) /\ MayJudge(r, v, tree, inputs) /\ StageAuthorised(p, r, Judged(r, v))
    BY DEF BeginJudge
  <1>2. PICK next : next = Judged(r, v)
    OBVIOUS
  <1>3. next \in Run /\ next.bound = run[r].bound
    BY <1>1, <1>2, JudgedRecord DEF LoopInv
  <1>4. run[r].bound = tree
    <2>1. PICK e \in evidence : e = BoundTo(r, "request", "BOUND", tree, inputs)
      BY <1>1 DEF MayJudge, HasLive
    <2>2. /\ e.run = r /\ e.kind = "request" /\ e.cycle = run[r].cycle /\ e.tree = tree
      BY <2>1 DEF BoundTo
    <2>3. GatePassed(r) /\ run[r].state = "REVIEWING"
      BY <1>1 DEF LoopInv, GatesHold, MayJudge, EvidenceGated
    <2>4. PICK f \in evidence : /\ f.run = r /\ f.kind = "request"
                                /\ f.cycle = run[r].cycle /\ f.tree = run[r].bound
      BY <2>3 DEF GatePassed, TestedTree, Stored
    <2> QED
      BY <2>2, <2>4 DEF LoopInv, OneArtifactPerSlot
  <1>5. inputs \in Inputs
    BY DEF LoopInv, TypeOK
  <1>6. Allowed(r, next.bound, next)
    BY <1>1, <1>2, <1>3, <1>4, <1>5 DEF Allowed
  <1> QED
    BY <1>1, <1>2, <1>3, <1>6, StagedAllowed

LEMMA BeginResumeStep ==
  ASSUME LoopInv, StoreInv, NEW p \in Procs, NEW r \in RunIds, BeginResume(p, r)
  PROVE  StoreInv' /\ [LoopNext]_loopVars
  <1>1. PICK t : t = proc[p].tree
    OBVIOUS
  <1>2. t \in Trees /\ MayResume(r)
    BY <1>1, CallTypes DEF BeginResume, ResumeCall, StoreInv
  <1>3. PICK next : next = Resumed(r, t)
    OBVIOUS
  <1>4. next \in Run /\ next.bound = t
    BY <1>2, <1>3, ResumedRecord DEF LoopInv
  <1>5. Allowed(r, next.bound, next)
    BY <1>2, <1>3, <1>4 DEF Allowed
  <1> QED
    BY <1>1, <1>3, <1>4, <1>5, StagedAllowed DEF BeginResume

\* A stop is of a check that failed, which names a pause and a reason.
LEMMA BeginStopStep ==
  ASSUME LoopInv, StoreInv, NEW p \in Procs, NEW r \in RunIds, BeginStop(p, r)
  PROVE  StoreInv' /\ [LoopNext]_loopVars
  <1> DEFINE owned == OwnsDirtyTree(tree, run[r].at.scope)
  <1>1. PICK v : v = IF owned THEN Evaluate(git, tree, run[r].at)
                              ELSE OwnershipChecks(tree, run[r].at.scope)[1]
    OBVIOUS
  <1>2. v.stop \in PauseStates /\ v.reason \in Reasons
    <2>1. CASE owned
      <3>1. v \in CheckType /\ v.fails
        BY <1>1, <2>1, EvaluationFails DEF BeginStop
      <3>2. v # Clear
        BY <3>1 DEF Clear, Check
      <3> QED
        BY <3>1, <3>2 DEF CheckType
    <2>2. CASE ~owned
      <3>1. v.stop = "DIRTY_TREE_UNEXPLAINED" /\ v.reason = "DIRTY_TREE_UNEXPLAINED"
        BY <1>1, <2>2 DEF OwnershipChecks, Check
      <3> QED
        BY <3>1 DEF PauseStates, SafetyStops, Reasons
    <2> QED
      BY <2>1, <2>2
  <1>3. PICK w \in Failures : w = [stop |-> v.stop, reason |-> v.reason]
    BY <1>2 DEF Failures
  <1>4. PICK next : next = Stopped(r, v)
    OBVIOUS
  <1>5. MayStop(r) /\ next = Stopped(r, w)
    BY <1>3, <1>4 DEF BeginStop, Stopped, StopFor
  <1>6. next \in Run /\ Stop(r, next)
    BY <1>5, StoppedRecord DEF LoopInv, Stop
  <1>7. Become(p, [pc |-> "moving", run |-> r, next |-> next, snapshot |-> Nothing,
                   fenced |-> FALSE])
    BY <1>1, <1>4 DEF BeginStop
  <1>8. AcquireRunLock(p, r) /\ UNCHANGED <<world, run, evidence, initLock>>
    BY DEF BeginStop
  <1> QED
    BY <1>6, <1>7, <1>8, StagedStep

LEMMA ConfirmStep ==
  ASSUME LoopInv, StoreInv, NEW p \in Procs, Confirm(p)
  PROVE  StoreInv' /\ [LoopNext]_loopVars
  <1>1. PICK c : c = [proc[p] EXCEPT !.pc = "confirmed"]
    OBVIOUS
  <1>2. proc[p] \in MoveCall /\ proc[p].pc = "moving"
    BY CallTypes DEF Confirm, StoreInv
  <1>3. /\ c \in MoveCall /\ c.pc = "confirmed" /\ c.run = proc[p].run
        /\ c.next = proc[p].next /\ c.fenced = proc[p].fenced
    BY <1>1, <1>2 DEF MoveCall
  <1>4. Become(p, c) /\ UNCHANGED <<world, run, evidence, lock, initLock>>
    BY <1>1 DEF Confirm
  <1>5. lock[c.run] = p /\ Moving(c)
    BY <1>2, <1>3 DEF StoreInv, Holding, Moving
  <1>6. proc'[p] = c /\ lock'[c.run] = p /\ c \in Calls
    BY <1>3, <1>4, <1>5 DEF Become, StoreInv, StoreTypes, Calls
  <1>7. Moving(c)'
    BY <1>4, <1>5, MovingStays
  <1>8. Holding(p)'
    BY <1>3, <1>6, <1>7 DEF Holding
  <1> QED
    BY <1>4, <1>6, <1>8, QuietStep DEF StoreInv, StoreTypes

-----------------------------------------------------------------------------
(* Taking effect                                                             *)

\* A process that writes behind its lock and then waits leaves the invariant.
LEMMA DoneStep ==
  ASSUME LoopInv, StoreInv, NEW q \in Procs, NEW c \in Calls, Become(q, c),
         c.pc \in {"idle", "writing", "reviewing", "judging", "resuming"},
         lock' \in [RunIds -> Procs \cup {Nothing, Dead}],
         initLock' \in Procs \cup {Nothing, Dead},
         OnlyOwn(q)
  PROVE  StoreInv'
  <1>1. /\ proc' = [proc EXCEPT ![q] = c] /\ proc'[q] = c
        /\ \A p \in Procs \ {q} : proc'[p] = proc[p]
    BY DEF Become, StoreInv, StoreTypes
  <1>2. StoreTypes'
    BY <1>1 DEF StoreInv, StoreTypes
  <1>3. Holding(q)'
    BY <1>1, WaitingHolds
  <1>4. \A p \in Procs : Holding(p)'
    BY <1>1, <1>3, OthersHold
  <1> QED
    BY <1>2, <1>4 DEF StoreInv

LEMMA FinishInitStep ==
  ASSUME LoopInv, StoreInv, NEW p \in Procs, FinishInit(p)
  PROVE  StoreInv' /\ [LoopNext]_loopVars
  <1>1. PICK c : c = proc[p]
    OBVIOUS
  <1>2. c \in CreateCall /\ c.run \in RunIds /\ initLock = p /\ Creating(c)
    BY <1>1, CallTypes DEF FinishInit, StoreInv, Holding, CreateCall
  <1>3. /\ run' = IF InitFence(c) THEN [run EXCEPT ![c.run] = c.next] ELSE run
        /\ initLock' \in {Nothing, Dead} /\ Become(p, Idle)
        /\ UNCHANGED <<world, evidence, lock>>
    BY <1>1 DEF FinishInit, ReleaseInitLock
  <1>4. OnlyOwn(p)
    BY <1>2, <1>3 DEF OnlyOwn, Creating, ActiveRunExists
  <1>5. StoreInv'
    <2>1. Idle \in Calls /\ Idle.pc = "idle"
      BY DEF Calls, Idle
    <2> QED
      BY <1>3, <1>4, <2>1, DoneStep DEF StoreInv, StoreTypes
  <1>6. [LoopNext]_loopVars
    <2>1. CASE InitFence(c)
      <3> DEFINE at == c.next.at
      <3>1. at \in Bindings
        BY <1>2 DEF CreateCall, Run
      <3>2. at.scope \in Scopes
        BY <3>1 DEF Bindings, Binding
      <3>3. /\ ~ActiveRunExists /\ MayBind(git, tree, at.scope)
            /\ c.next = NewRun(tree, Binding(git, at.scope))
        BY <1>2, <2>1 DEF InitFence, Creating
      <3>4. InitializeRun(c.run)
        BY <1>3, <2>1, <3>2, <3>3 DEF InitializeRun
      <3> QED
        BY <1>2, <3>4 DEF LoopNext
    <2>2. CASE ~InitFence(c)
      BY <1>3, <2>2 DEF loopVars, world
    <2> QED
      BY <2>1, <2>2
  <1> QED
    BY <1>5, <1>6

LEMMA WriteEvidenceStep ==
  ASSUME LoopInv, StoreInv, NEW p \in Procs, WriteEvidence(p)
  PROVE  StoreInv' /\ [LoopNext]_loopVars
  <1>1. PICK c : c = proc[p]
    OBVIOUS
  <1>2. PICK e : e = c.item
    OBVIOUS
  <1>3. c \in WriteCall /\ e \in Artifact /\ e.run \in RunIds /\ lock[e.run] = p /\ Writing(c)
    BY <1>1, <1>2, CallTypes DEF WriteEvidence, StoreInv, Holding, WriteCall, Artifact
  <1>4. PICK left \in {Nothing, Dead} :
          /\ lock' = [lock EXCEPT ![e.run] = left]
          /\ Become(p, IF left = Dead THEN Idle ELSE AfterWrite(c))
    BY <1>1, <1>2 DEF WriteEvidence
  <1>5. evidence' = evidence \cup {e} /\ UNCHANGED <<world, run, initLock>>
    BY <1>1, <1>2 DEF WriteEvidence
  <1>6. PICK d : d = IF left = Dead THEN Idle ELSE AfterWrite(c)
    OBVIOUS
  <1>7. d \in Calls /\ d.pc \in {"idle", "reviewing", "judging"}
    <2>1. Idle \in Calls /\ Idle.pc = "idle"
      BY DEF Calls, Idle
    <2>2. c.after = "none" => AfterWrite(c) = Idle
      BY DEF AfterWrite
    <2>3. c.after = "review" => AfterWrite(c) \in ReviewCall
      BY <1>2, <1>3 DEF AfterWrite, ReviewCall
    <2>4. c.after = "judge" => AfterWrite(c) \in JudgeCall
      BY <1>2, <1>3 DEF AfterWrite, JudgeCall, WriteCall, Artifact
    <2>5. c.after \in {"none", "review", "judge"}
      BY <1>3 DEF WriteCall
    <2>6. \A x \in ReviewCall \cup JudgeCall : x \in Calls /\ x.pc \in {"reviewing", "judging"}
      BY DEF Calls, ReviewCall, JudgeCall
    <2> QED
      BY <1>6, <2>1, <2>2, <2>3, <2>4, <2>5, <2>6
  <1>8. OnlyOwn(p)
    BY <1>3, <1>4, <1>5 DEF OnlyOwn, StoreInv, StoreTypes
  <1>9. StoreInv'
    BY <1>3, <1>4, <1>5, <1>6, <1>7, <1>8, DoneStep DEF StoreInv, StoreTypes
  <1>10. [LoopNext]_loopVars
    <2>1. CASE MayRecord(e)
      <3>1. e = BoundTo(e.run, e.kind, e.says, e.tree, e.inputs)
        BY <1>3, <2>1 DEF MayRecord, BoundTo, Artifact
      <3>2. e.kind \in Kinds /\ e.says \in Says(e.kind) /\ e.tree \in Trees /\ e.inputs \in Inputs
        BY <1>2, <1>3 DEF WriteCall, Artifact
      <3>3. Exists(e.run)
        BY <2>1 DEF MayRecord
      <3>4. RecordEvidence(e.run)
        BY <1>5, <2>1, <3>1, <3>2, <3>3 DEF RecordEvidence
      <3> QED
        BY <1>3, <3>4 DEF LoopNext
    <2>2. CASE IsDuplicate(e)
      BY <1>5, <2>2 DEF IsDuplicate, loopVars, world
    <2> QED
      BY <1>2, <1>3, <2>1, <2>2 DEF Writing
  <1> QED
    BY <1>9, <1>10

\* What the fence lets through is the operation that was staged, on the tree
\* that is there now.
LEMMA AllowedIsOperation ==
  ASSUME NEW r \in RunIds, NEW next, Allowed(r, tree, next), Publish(r, next)
  PROVE  LoopNext
  <1>1. CASE \E s \in StepTargets : MayStep(r, s) /\ next = Moved(r, s, tree)
    BY <1>1 DEF StepRun, LoopNext
  <1>2. CASE \E s \in PauseTargets : MayPause(r, s) /\ next = Paused(r, s, tree)
    BY <1>2 DEF PauseRun, LoopNext
  <1>3. CASE MayResume(r) /\ next = Resumed(r, tree)
    BY <1>3 DEF ResumeRun, LoopNext
  <1>4. CASE \E i \in Inputs : MayPrepare(r, tree, i) /\ next = Prepared(r, tree)
    BY <1>4 DEF PrepareForReview, LoopNext
  <1>5. CASE \E i \in Inputs : MayReview(r, tree, i) /\ next = InReview(r, tree)
    BY <1>5 DEF StartReview, LoopNext
  <1>6. CASE \E v \in Verdicts, i \in Inputs : MayJudge(r, v, tree, i) /\ next = Judged(r, v)
    BY <1>6 DEF JudgeReview, LoopNext
  <1> QED
    BY <1>1, <1>2, <1>3, <1>4, <1>5, <1>6 DEF Allowed

LEMMA FinishStep ==
  ASSUME LoopInv, StoreInv, NEW p \in Procs, Finish(p)
  PROVE  StoreInv' /\ [LoopNext]_loopVars
  <1>1. PICK c : c = proc[p]
    OBVIOUS
  <1>2. c \in MoveCall /\ c.run \in RunIds /\ lock[c.run] = p /\ Moving(c)
    BY <1>1, CallTypes DEF Finish, StoreInv, Holding, MoveCall
  <1>3. /\ run' = IF Fence(c) THEN [run EXCEPT ![c.run] = c.next] ELSE run
        /\ Become(p, Idle) /\ UNCHANGED <<world, evidence, initLock>>
    BY <1>1 DEF Finish
  <1>4. PICK left \in {Nothing, Dead} : lock' = [lock EXCEPT ![c.run] = left]
    BY <1>1 DEF Finish, ReleaseRunLock
  <1>5. Exists(c.run) /\ ActiveRunExists
    BY <1>2, MovingExists DEF ActiveRunExists
  <1>6. OnlyOwn(p)
    BY <1>2, <1>3, <1>4, <1>5 DEF OnlyOwn, StoreInv, StoreTypes, LoopInv, TypeOK
  <1>7. StoreInv'
    <2>1. Idle \in Calls /\ Idle.pc = "idle"
      BY DEF Calls, Idle
    <2> QED
      BY <1>2, <1>3, <1>4, <1>6, <2>1, DoneStep DEF StoreInv, StoreTypes
  <1>8. [LoopNext]_loopVars
    <2>1. CASE ~Fence(c)
      BY <1>3, <2>1 DEF loopVars, world
    <2>2. CASE Fence(c) /\ c.fenced
      <3>1. c.next.bound = tree /\ FenceHolds(c.run)
        BY <2>2 DEF Fence
      <3>2. Publish(c.run, c.next)
        BY <1>3, <2>2, <3>1 DEF Publish
      <3>3. Allowed(c.run, tree, c.next)
        BY <1>2, <2>2, <3>1 DEF Moving
      <3> QED
        BY <1>2, <3>2, <3>3, AllowedIsOperation
    <2>3. CASE Fence(c) /\ ~c.fenced
      <3>1. Stop(c.run, c.next)
        BY <1>2, <2>3 DEF Moving
      <3>2. DeriveSafetyStop(c.run)
        BY <1>3, <2>3, <3>1 DEF Stop, DeriveSafetyStop
      <3> QED
        BY <1>2, <3>2 DEF LoopNext
    <2> QED
      BY <2>1, <2>2, <2>3
  <1> QED
    BY <1>7, <1>8

-----------------------------------------------------------------------------
(* Failures and the world                                                    *)

LEMMA GiveUpStep ==
  ASSUME LoopInv, StoreInv, NEW p \in Procs, GiveUp(p)
  PROVE  StoreInv' /\ [LoopNext]_loopVars
  <1>1. Idle \in Calls /\ Idle.pc = "idle"
    BY DEF Calls, Idle
  <1>2. /\ Become(p, Idle) /\ UNCHANGED <<world, run, evidence>>
        /\ lock' = [r \in RunIds |-> IF lock[r] = p THEN Nothing ELSE lock[r]]
        /\ initLock' = IF initLock = p THEN Nothing ELSE initLock
    BY DEF GiveUp
  <1>3. /\ lock' \in [RunIds -> Procs \cup {Nothing, Dead}]
        /\ initLock' \in Procs \cup {Nothing, Dead}
        /\ \A r \in RunIds : lock'[r] = lock[r] \/ lock[r] \in {Nothing, p}
        /\ initLock' = initLock \/ initLock \in {Nothing, p}
    BY <1>2 DEF StoreInv, StoreTypes
  <1>4. Holding(p)'
    BY <1>1, <1>2, WaitingHolds DEF Become, StoreInv, StoreTypes
  <1> QED
    BY <1>1, <1>2, <1>3, <1>4, QuietStep

LEMMA CrashStep ==
  ASSUME LoopInv, StoreInv, NEW p \in Procs, Crash(p)
  PROVE  StoreInv' /\ [LoopNext]_loopVars
  <1>1. Idle \in Calls /\ Idle.pc = "idle"
    BY DEF Calls, Idle
  <1>2. /\ Become(p, Idle) /\ UNCHANGED <<world, run, evidence>>
        /\ lock' = [r \in RunIds |-> IF lock[r] = p THEN Dead ELSE lock[r]]
        /\ initLock' = IF initLock = p THEN Dead ELSE initLock
    BY DEF Crash
  <1>3. /\ lock' \in [RunIds -> Procs \cup {Nothing, Dead}]
        /\ initLock' \in Procs \cup {Nothing, Dead}
        /\ \A r \in RunIds : lock'[r] = lock[r] \/ lock[r] \in {Nothing, p}
        /\ initLock' = initLock \/ initLock \in {Nothing, p}
    BY <1>2 DEF StoreInv, StoreTypes
  <1>4. Holding(p)'
    BY <1>1, <1>2, WaitingHolds DEF Become, StoreInv, StoreTypes
  <1> QED
    BY <1>1, <1>2, <1>3, <1>4, QuietStep

\* What calls hold and have staged does not depend on the world.
LEMMA RestHolds ==
  ASSUME LoopInv, StoreInv, UNCHANGED <<run, evidence, lock, initLock, proc>>
  PROVE  StoreInv'
  <1>1. OnlyOwn(Nothing)
    BY DEF OnlyOwn
  <1>2. ASSUME NEW p \in Procs PROVE Holding(p)'
    BY <1>1, OthersHold, OwnerAssumption
  <1> QED
    BY <1>2 DEF StoreInv, StoreTypes

LEMMA DriftStep ==
  ASSUME LoopInv, StoreInv, Drift
  PROVE  StoreInv' /\ [LoopNext]_loopVars
  <1>1. StoreInv'
    BY RestHolds DEF Drift
  <1>2. Environment
    BY DEF Drift, Environment, LoopInv, TypeOK
  <1> QED
    BY <1>1, <1>2 DEF LoopNext

-----------------------------------------------------------------------------
(* The refinement                                                            *)

LEMMA StoreStep ==
  ASSUME LoopInv, StoreInv, [Next]_storeVars
  PROVE  StoreInv' /\ [LoopNext]_loopVars
  <1>1. CASE Drift
    BY <1>1, DriftStep
  <1>2. ASSUME NEW p \in Procs, FinishInit(p) \/ LockWrite(p) \/ SealWrite(p) \/ WriteEvidence(p)
        PROVE  StoreInv' /\ [LoopNext]_loopVars
    BY <1>2, FinishInitStep, LockWriteStep, SealWriteStep, WriteEvidenceStep
  <1>3. ASSUME NEW p \in Procs, Confirm(p) \/ Finish(p) \/ GiveUp(p) \/ Crash(p)
        PROVE  StoreInv' /\ [LoopNext]_loopVars
    BY <1>3, ConfirmStep, FinishStep, GiveUpStep, CrashStep
  <1>4. ASSUME NEW p \in Procs, NEW r \in RunIds,
               \/ AskTestResult(p, r) \/ AskDiffManifest(p, r)
               \/ AskReviewRequest(p, r) \/ AskReviewResult(p, r)
        PROVE  StoreInv' /\ [LoopNext]_loopVars
    BY <1>4, AskStep
  <1>5. ASSUME NEW p \in Procs, NEW r \in RunIds,
               BeginInit(p, r) \/ AskResume(p, r) \/ BeginResume(p, r) \/ BeginStop(p, r)
        PROVE  StoreInv' /\ [LoopNext]_loopVars
    BY <1>5, BeginInitStep, AskResumeStep, BeginResumeStep, BeginStopStep
  <1>6. ASSUME NEW p \in Procs, NEW r \in RunIds,
               \/ BeginStep(p, r) \/ BeginPause(p, r) \/ BeginPrepare(p, r)
               \/ BeginReview(p, r) \/ BeginJudge(p, r)
        PROVE  StoreInv' /\ [LoopNext]_loopVars
    BY <1>6, BeginStepStep, BeginPauseStep, BeginPrepareStep, BeginReviewStep, BeginJudgeStep
  <1>7. CASE UNCHANGED storeVars
    <2>1. UNCHANGED loopVars /\ UNCHANGED <<run, evidence, lock, initLock, proc>>
      BY <1>7 DEF storeVars, loopVars
    <2> QED
      BY <2>1, RestHolds
  <1>8. CASE Next
    BY <1>1, <1>2, <1>3, <1>4, <1>5, <1>6, <1>8 DEF Next
  <1> QED
    BY <1>7, <1>8

LEMMA StoreInitially == Init => LoopInit /\ LoopInv /\ StoreInv
  <1> SUFFICES ASSUME Init PROVE LoopInit /\ LoopInv /\ StoreInv
    OBVIOUS
  <1>1. LoopInit /\ LoopInv
    BY InitInv DEF Init
  <1>2. StoreTypes
    BY DEF Init, StoreTypes, Calls
  <1>3. \A p \in Procs : Holding(p)
    BY DEF Init, Holding, Idle
  <1> QED
    BY <1>1, <1>2, <1>3 DEF StoreInv

\* What is promised of a run is what its calls, run by any number of processes
\* that interleave and crash, do to its files.
THEOREM StoreImplementsLoop == Spec => ImplementsLoop
  <1>1. Init => LoopInit /\ LoopInv /\ StoreInv
    BY StoreInitially
  <1>2. LoopInv /\ StoreInv /\ [Next]_storeVars => LoopInv' /\ StoreInv' /\ [LoopNext]_loopVars
    BY StoreStep, StepPreserves
  <1> QED
    BY <1>1, <1>2, PTL DEF Spec, ImplementsLoop, LoopSpec

\* So whatever CindyLoop keeps, the files keep.
THEOREM StoreIsSafe ==
  Spec => [](TypeOK /\ ReviewedWasTested /\ VerdictsAreFinal /\ AuthoritiesAgree)
  <1>1. Spec => LoopSpec
    BY StoreImplementsLoop DEF ImplementsLoop
  <1> QED
    BY <1>1, LoopTypes, ReviewsAreOfTestedTrees, HistoryFollowsEvidence, JudgementsAgree, PTL

=============================================================================
