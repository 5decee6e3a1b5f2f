----------------------------- MODULE CindyStore -----------------------------
(* How the task orchestrator carries out the operations of CindyLoop         *)
(* (tools/cindy/artifact-store.ts and orchestrator.ts).  Calls of several    *)
(* processes interleave: each reads the run and the files, waits for the     *)
(* lock file of the run, checks everything again under the lock, stages the  *)
(* new record, and renames it into place behind a last fence.  The           *)
(* repository, the tree and the inputs may change between any two of these   *)
(* steps, and a process may die and leave its lock behind for ever.          *)
EXTENDS CindyLoop

CONSTANTS
    Procs,          \* processes that call the orchestrator
    Dead,           \* the owner of a lock whose process is gone
    MaxMoves,       \* bound on the changes of git, tree and inputs
    MaxCrashes,     \* bound on the processes that die with a lock
    MaxVersion      \* bound on the versions of a run

ASSUME OwnerAssumption == Nothing \notin Procs /\ Dead \notin Procs /\ Dead # Nothing

VARIABLES
    lock,           \* .run.lock of each run: its owner, or Nothing
    initLock,       \* the lock of run creation: its owner, or Nothing
    proc,           \* the call each process is in
    moves, crashes  \* counters for the bounds

storeVars == <<git, tree, inputs, run, evidence, lock, initLock, proc, moves, crashes>>

Idle == [pc |-> "idle"]

Snapshot == <<tree, inputs>>

Become(p, call) == proc' = [proc EXCEPT ![p] = call]

-----------------------------------------------------------------------------
(* Locks: taken by linking a complete candidate file, so an existing lock,   *)
(* live or dead, refuses; released by the owner; a dead one is never taken   *)
(* over.                                                                     *)

AcquireRunLock(p, r) ==
    lock[r] = Nothing /\ lock' = [lock EXCEPT ![r] = p]

AcquireInitLock(p) == initLock = Nothing /\ initLock' = p

\* What a lock is after its holder: free, or left by a process that died
\* between its write and the release.
AfterHolder(left) ==
    \/ left = Nothing /\ UNCHANGED crashes
    \/ left = Dead /\ crashes < MaxCrashes /\ crashes' = crashes + 1

ReleaseRunLock(r) ==
    \E left \in {Nothing, Dead} : AfterHolder(left) /\ lock' = [lock EXCEPT ![r] = left]

ReleaseInitLock ==
    \E left \in {Nothing, Dead} : AfterHolder(left) /\ initLock' = left

-----------------------------------------------------------------------------
(* Creating a run                                                            *)

\* initializeRunSafely under the init lock: no run of this name, no active run
\* of the task (no run ever becomes terminal), and a repository to bind to.
BeginInit(p, r) ==
    /\ proc[p] = Idle
    /\ AcquireInitLock(p)
    /\ ~ActiveRunExists
    /\ \E s \in Scopes :
          /\ MayBind(git, tree, s)
          /\ Become(p, [pc |-> "creating", run |-> r, next |-> NewRun(tree, Binding(git, s))])
    /\ UNCHANGED <<world, run, evidence, lock, moves, crashes>>

\* The fence before the staged directory is renamed: nothing has moved.
InitFence(call) ==
    /\ ~Exists(call.run)
    /\ MayBind(git, tree, call.next.at.scope)
    /\ Binding(git, call.next.at.scope) = call.next.at
    /\ tree = call.next.bound

FinishInit(p) ==
    LET call == proc[p]
    IN  /\ call.pc = "creating"
        /\ run' = IF InitFence(call) THEN [run EXCEPT ![call.run] = call.next] ELSE run
        /\ ReleaseInitLock
        /\ Become(p, Idle)
        /\ UNCHANGED <<world, evidence, lock, moves>>

-----------------------------------------------------------------------------
(* Writing evidence                                                          *)

\* What every writer reads before it waits for the lock: the state and version
\* of the run, Git's authority, the tree and the snapshot.  after is what the
\* call goes on to do.
AskWrite(p, r, kind, says, after) ==
    /\ proc[p] = Idle
    /\ Exists(r)
    /\ run[r].state = RecordedIn(kind)
    /\ RunAuthorised(r)
    /\ Become(p, [pc |-> "writing", item |-> BoundTo(r, kind, says, tree, inputs),
                  version |-> run[r].version, after |-> after])
    /\ UNCHANGED <<world, run, evidence, lock, initLock, moves, crashes>>

AskTestResult(p, r) == \E v \in Verdicts : AskWrite(p, r, "test", v, "none")

AskDiffManifest(p, r) == AskWrite(p, r, "diff", "BOUND", "none")

\* recordReviewRequest, by itself or as the first half of startReview.
AskReviewRequest(p, r) ==
    \E after \in {"none", "review"} : AskWrite(p, r, "request", "BOUND", after)

\* The first half of recordValidatedReviewResult: a live request is there, and
\* no other result.
AskReviewResult(p, r) ==
    \E v \in Verdicts :
        /\ AskWrite(p, r, "result", v, "judge")
        /\ HasLive(r, "request", "BOUND", tree, inputs)
        /\ Stored(r, "result", run[r].cycle) \subseteq {BoundTo(r, "result", v, tree, inputs)}

\* The call that follows a write.
AfterWrite(call) ==
    CASE call.after = "none"   -> Idle
      [] call.after = "review" -> [pc |-> "reviewing", run |-> call.item.run]
      [] call.after = "judge"  -> [pc |-> "judging", run |-> call.item.run,
                                   says |-> call.item.says, version |-> call.version]

\* The identical artifact is already there: a duplicate, which passes the same
\* checks and writes nothing.
IsDuplicate(e) ==
    /\ e \in evidence
    /\ run[e.run].state = RecordedIn(e.kind)
    /\ e.cycle = run[e.run].cycle

\* The typed writer under the lock: the run is the one that was read, the slot
\* is free, and Git authorises the run.
LockWrite(p) ==
    LET call == proc[p]
    IN  /\ call.pc = "writing"
        /\ AcquireRunLock(p, call.item.run)
        /\ run[call.item.run].version = call.version
        /\ MayRecord(call.item) \/ IsDuplicate(call.item)
        /\ RunAuthorised(call.item.run)
        /\ Become(p, [call EXCEPT !.pc = "locked"])
        /\ UNCHANGED <<world, run, evidence, initLock, moves, crashes>>

\* Then the tree and the snapshot are those of the artifact, at the run's HEAD.
SealWrite(p) ==
    LET call == proc[p]
    IN  /\ call.pc = "locked"
        /\ Snapshot = <<call.item.tree, call.item.inputs>>
        /\ git.head = run[call.item.run].at.head
        /\ Become(p, [call EXCEPT !.pc = "sealed"])
        /\ UNCHANGED <<world, run, evidence, lock, initLock, moves, crashes>>

\* Then the file is staged and renamed; nothing is compared once more.
WriteEvidence(p) ==
    LET call == proc[p]
    IN  /\ call.pc = "sealed"
        /\ evidence' = evidence \cup {call.item}
        /\ \E left \in {Nothing, Dead} :
              /\ AfterHolder(left)
              /\ lock' = [lock EXCEPT ![call.item.run] = left]
              /\ Become(p, IF left = Dead THEN Idle ELSE AfterWrite(call))
        /\ UNCHANGED <<world, run, initLock, moves>>

-----------------------------------------------------------------------------
(* Transitions: checked and staged under the lock, then published            *)

\* The lock is taken, the run is read and the next record is computed from the
\* live tree; snapshot is what the fence compares, Nothing for a resume.
Stage(p, r, next, snapshot) ==
    /\ AcquireRunLock(p, r)
    /\ run[r].version < MaxVersion
    /\ Become(p, [pc |-> "moving", run |-> r, next |-> next, snapshot |-> snapshot,
                  fenced |-> TRUE])
    /\ UNCHANGED <<world, run, evidence, initLock, moves, crashes>>

\* Every operation but a resume and a stop first checks Git inline.
StageAuthorised(p, r, next) ==
    LockedAuthority(git, tree, run[r].at) /\ Stage(p, r, next, Snapshot)

BeginStep(p, r) ==
    /\ proc[p] = Idle
    /\ \E s \in StepTargets : MayStep(r, s) /\ StageAuthorised(p, r, Moved(r, s, tree))

BeginPause(p, r) ==
    /\ proc[p] = Idle
    /\ \E s \in PauseTargets : MayPause(r, s) /\ StageAuthorised(p, r, Paused(r, s, tree))

BeginPrepare(p, r) ==
    /\ proc[p] = Idle
    /\ MayPrepare(r, tree, inputs)
    /\ StageAuthorised(p, r, Prepared(r, tree))

\* startReview, on a request recorded by the same call or before it.
BeginReview(p, r) ==
    /\ proc[p] \in {Idle, [pc |-> "reviewing", run |-> r]}
    /\ MayReview(r, tree, inputs)
    /\ StageAuthorised(p, r, InReview(r, tree))

\* The second half of recordValidatedReviewResult, at the version its first
\* half read.
BeginJudge(p, r) ==
    \E v \in Verdicts :
        /\ Exists(r)
        /\ proc[p] = [pc |-> "judging", run |-> r, says |-> v, version |-> run[r].version]
        /\ MayJudge(r, v, tree, inputs)
        /\ StageAuthorised(p, r, Judged(r, v))

\* resumeRun reads the tree before it waits for the lock.
AskResume(p, r) ==
    /\ proc[p] = Idle
    /\ Exists(r)
    /\ run[r].state \in PauseStates
    /\ run[r].pausedFrom \in ResumeTargets
    /\ Become(p, [pc |-> "resuming", run |-> r, tree |-> tree])
    /\ UNCHANGED <<world, run, evidence, lock, initLock, moves, crashes>>

BeginResume(p, r) ==
    /\ proc[p].pc = "resuming"
    /\ proc[p].run = r
    /\ MayResume(r)
    /\ RunAuthorised(r)
    /\ Stage(p, r, Resumed(r, proc[p].tree), Nothing)

\* deriveSafetyStop asks for a failure now and publishes without a fence.
BeginStop(p, r) ==
    LET verdict == Evaluate(git, tree, run[r].at)
        scope   == run[r].at.scope
    IN  /\ proc[p] = Idle
        /\ MayStop(r)
        /\ verdict.fails
        /\ run[r].version < MaxVersion
        /\ AcquireRunLock(p, r)
        /\ Become(p, [pc |-> "moving", run |-> r, snapshot |-> Nothing, fenced |-> FALSE,
                      next |-> Stopped(r, IF OwnsDirtyTree(tree, scope) THEN verdict
                                          ELSE OwnershipChecks(tree, scope)[1])])
        /\ UNCHANGED <<world, run, evidence, initLock, moves, crashes>>

\* Before the rename, first: the record on disk is the one that was read and
\* the execution snapshot is the one of the checks.
Confirm(p) ==
    LET call == proc[p]
    IN  /\ call.pc = "moving"
        /\ call.next.version = run[call.run].version + 1
        /\ call.snapshot \in {Snapshot, Nothing}
        /\ Become(p, [call EXCEPT !.pc = "confirmed"])
        /\ UNCHANGED <<world, run, evidence, lock, initLock, moves, crashes>>

\* Mutant: the tree is compared when the record is staged, not again.
FenceWithoutTree(call) == call.fenced => FenceHolds(call.run)

\* Then, without a pause up to the rename: the tree is the one of the record
\* and Git still agrees.
Fence(call) ==
    call.fenced => call.next.bound = tree /\ FenceHolds(call.run)

Finish(p) ==
    LET call == proc[p]
    IN  /\ call.pc = "confirmed"
        /\ run' = IF Fence(call) THEN [run EXCEPT ![call.run] = call.next] ELSE run
        /\ ReleaseRunLock(call.run)
        /\ Become(p, Idle)
        /\ UNCHANGED <<world, evidence, initLock, moves>>

-----------------------------------------------------------------------------
(* Failures and the world outside                                            *)

\* A call ends, refused by a lock or a check or failed by the disk, before its
\* rename and frees the lock it holds.
GiveUp(p) ==
    /\ proc[p] # Idle
    /\ lock' = [r \in RunIds |-> IF lock[r] = p THEN Nothing ELSE lock[r]]
    /\ initLock' = IF initLock = p THEN Nothing ELSE initLock
    /\ Become(p, Idle)
    /\ UNCHANGED <<world, run, evidence, moves, crashes>>

\* A process dies before its rename; staged files are ignored, the lock stays.
Crash(p) ==
    /\ proc[p].pc \in {"locked", "sealed", "moving", "confirmed", "creating"}
    /\ crashes < MaxCrashes
    /\ crashes' = crashes + 1
    /\ lock' = [r \in RunIds |-> IF lock[r] = p THEN Dead ELSE lock[r]]
    /\ initLock' = IF initLock = p THEN Dead ELSE initLock
    /\ Become(p, Idle)
    /\ UNCHANGED <<world, run, evidence, moves>>

\* A commit, a fetch, a checkout, an edit or a new input, by anyone.
Drift ==
    /\ moves < MaxMoves
    /\ moves' = moves + 1
    /\ \/ git' \in GitStates \ {git} /\ UNCHANGED <<tree, inputs>>
       \/ tree' \in Trees \ {tree} /\ UNCHANGED <<git, inputs>>
       \/ inputs' \in Inputs \ {inputs} /\ UNCHANGED <<git, tree>>
    /\ UNCHANGED <<run, evidence, lock, initLock, proc, crashes>>

-----------------------------------------------------------------------------
Init ==
    /\ LoopInit
    /\ lock = [r \in RunIds |-> Nothing]
    /\ initLock = Nothing
    /\ proc = [p \in Procs |-> Idle]
    /\ moves = 0
    /\ crashes = 0

Next ==
    \/ Drift
    \/ \E p \in Procs :
          \/ FinishInit(p)
          \/ LockWrite(p)
          \/ SealWrite(p)
          \/ WriteEvidence(p)
          \/ Confirm(p)
          \/ Finish(p)
          \/ GiveUp(p)
          \/ Crash(p)
    \/ \E p \in Procs, r \in RunIds :
          \/ BeginInit(p, r)
          \/ AskTestResult(p, r)
          \/ AskDiffManifest(p, r)
          \/ AskReviewRequest(p, r)
          \/ AskReviewResult(p, r)
          \/ BeginStep(p, r)
          \/ BeginPause(p, r)
          \/ BeginPrepare(p, r)
          \/ BeginReview(p, r)
          \/ BeginJudge(p, r)
          \/ AskResume(p, r)
          \/ BeginResume(p, r)
          \/ BeginStop(p, r)

Spec == Init /\ [][Next]_storeVars

-----------------------------------------------------------------------------
(* Properties                                                                *)

\* Every call, with all its steps, crashes and the changes between them, takes
\* effect at one instant or not at all, as CindyLoop says: what a call read
\* before its lock, its staging or its last pause never lets it publish a
\* record for a tree, a repository or evidence that is not there when the fence
\* looks (executeSemanticTransition, initializeRunSafely, the typed writer).
\* The fence and the rename behind it, one synchronous stretch of the code, are
\* one step here.
ImplementsLoop == LoopSpec
=============================================================================
