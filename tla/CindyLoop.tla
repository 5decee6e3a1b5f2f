------------------------------ MODULE CindyLoop ------------------------------
(* What the task orchestrator promises of a run: a task is built, tested,    *)
(* reviewed and repaired in cycles, each operation takes effect at one       *)
(* instant, and at that instant the repository, the working tree and the     *)
(* recorded evidence allow it.  The files, the locks and the steps of a call *)
(* are in CindyStore, which implements this module.                          *)
EXTENDS CindyAuthority

CONSTANTS
    RunIds,         \* run directories of the task
    Inputs,         \* contents of the declared ignored inputs, which are part
                    \* of an execution snapshot but not of the tree
    GitStates,      \* the states of the checkout and its upstream
    PauseTargets    \* the manual pauses that callers ask for

ASSUME PauseAssumption == PauseTargets \subseteq ManualPauses

ASSUME GitAssumption ==
    \A g \in GitStates :
        /\ g.head \in Commits
        /\ g.upstream = [ref |-> g.upstream.ref, commit |-> g.upstream.commit]

VARIABLES
    git,            \* the checkout: branch, HEAD, upstream, and whether the
                    \* commits between the two can be counted
    tree,           \* the working tree
    inputs,         \* the declared ignored inputs
    run,            \* run.json of each run, or Nothing
    evidence        \* the typed artifacts written so far

world == <<git, tree, inputs>>
loopVars == <<git, tree, inputs, run, evidence>>

Kinds == {"test", "diff", "request", "result"}

Verdicts == {"PASS", "FAIL"}

\* The artifacts one can hand in: a test or a review has a verdict.
Says(kind) == IF kind \in {"test", "result"} THEN Verdicts ELSE {"BOUND"}

Artifact == [run : RunIds, kind : Kinds, cycle : Nat, says : Verdicts \cup {"BOUND"},
             tree : Trees, inputs : Inputs]

Bindings == {Binding(g, s) : g \in GitStates, s \in Scopes}

Run == [state : RunStates, version : Nat, cycle : Nat, bound : Trees,
        pausedFrom : ResumeTargets \cup {Nothing},
        reason : Reasons \cup ManualPauses \cup {Nothing},
        verdicts : SUBSET (Nat \X Verdicts), at : Bindings]

ASSUME RecordAssumption == Nothing \notin Run /\ Nothing \notin Bindings

TypeOK ==
    /\ git \in GitStates
    /\ tree \in Trees
    /\ inputs \in Inputs
    /\ run \in [RunIds -> Run \cup {Nothing}]
    /\ evidence \subseteq Artifact

-----------------------------------------------------------------------------
(* Evidence                                                                  *)

Exists(r) == run[r] # Nothing

\* resolveActiveRunForTask: no state that a run can reach ends it.
ActiveRunExists == \E r \in RunIds : Exists(r)

Stored(r, kind, cycle) ==
    {e \in evidence : e.run = r /\ e.kind = kind /\ e.cycle = cycle}

\* An artifact bound to the run's cycle, a tree and an execution snapshot.
BoundTo(r, kind, says, t, i) ==
    [run |-> r, kind |-> kind, cycle |-> run[r].cycle, says |-> says,
     tree |-> t, inputs |-> i]

\* The state in which a kind is recorded.
RecordedIn(kind) ==
    CASE kind \in {"test", "diff"} -> "TESTING"
      [] kind = "request"          -> "READY_FOR_REVIEW"
      [] kind = "result"           -> "REVIEWING"

\* The cycle has such an artifact for this tree and these inputs.
HasLive(r, kind, says, t, i) == BoundTo(r, kind, says, t, i) \in evidence

RunAuthorised(r) == Authorised(git, tree, run[r].at)

\* The fence before a transition evaluates Git again, and refuses an upstream
\* that is not equal, which the evaluation alone lets pass when it cannot be
\* compared.
FenceHolds(r) == RunAuthorised(r) /\ Divergence(git) = "equal"

\* A result is given on the tree and the inputs of the request of its cycle.
Answers(e) ==
    \E q \in Stored(e.run, "request", e.cycle) : q.tree = e.tree /\ q.inputs = e.inputs

\* Mutant: the slot is not looked at again under the lock.
MayRecordTwice(e) ==
    /\ Exists(e.run)
    /\ run[e.run].state = RecordedIn(e.kind)
    /\ e.cycle = run[e.run].cycle
    /\ e.kind = "result" => Answers(e)

\* The typed writer: the artifact is for the state and the cycle of the run,
\* its slot is empty, and a result answers a request.
MayRecord(e) ==
    /\ Exists(e.run)
    /\ run[e.run].state = RecordedIn(e.kind)
    /\ e.cycle = run[e.run].cycle
    /\ Stored(e.run, e.kind, e.cycle) = {}
    /\ e.kind = "result" => Answers(e)

-----------------------------------------------------------------------------
(* Transitions: when the evidence allows each, and the record it writes      *)

\* A record one version on, in another state, bound to the tree t that the call
\* looked at.
Moved(r, state, t) ==
    [run[r] EXCEPT !.state = state, !.version = @ + 1, !.bound = t]

\* markReadyForBuilder, startBuilding, completeBuilding, startTesting and
\* startRepairBuilding: one edge each.
StepTargets == {"READY_FOR_BUILDER", "BUILDING", "BUILDER_COMPLETE", "TESTING",
                "REPAIR_BUILDING"}

MayStep(r, state) ==
    Exists(r) /\ state \in StepTargets /\ ValidTransition(run[r].state, state)

MayPause(r, state) ==
    Exists(r) /\ state \in PauseTargets /\ ValidTransition(run[r].state, state)

Paused(r, state, t) ==
    [Moved(r, state, t) EXCEPT !.pausedFrom = run[r].state, !.reason = state]

\* What deriveSafetyStop makes of a failed evaluation: every stop that is not
\* about the tree becomes GIT_SAFETY_STOP and keeps the reason.
StopFor(verdict) ==
    IF verdict.stop = "DIRTY_TREE_UNEXPLAINED" THEN "DIRTY_TREE_UNEXPLAINED"
                                               ELSE "GIT_SAFETY_STOP"

\* All that an evaluation can find wrong.
Failures == [stop : PauseStates, reason : Reasons]

\* Mutant: a paused run can be stopped.
MayStopPaused(r) == Exists(r)

MayStop(r) == Exists(r) /\ run[r].state \notin PauseStates

\* A stop keeps the tree the run was bound to.
Stopped(r, verdict) ==
    [run[r] EXCEPT !.state = StopFor(verdict), !.version = @ + 1,
                   !.pausedFrom = run[r].state, !.reason = verdict.reason]

\* resumeRun: back to the state the pause left, unless that state is gated on
\* evidence or the pause, or its reason, is for a person to lift.
MayResume(r) ==
    /\ Exists(r)
    /\ run[r].state \in SafetyStops
    /\ run[r].pausedFrom \in ResumeTargets \ EvidenceGated
    /\ run[r].reason \notin ManualPauses

Resumed(r, t) ==
    [Moved(r, run[r].pausedFrom, t) EXCEPT !.pausedFrom = Nothing, !.reason = Nothing]

\* Mutant: any PASS of the cycle will do, whatever was edited since.
MayPrepareStale(r, t, i) ==
    /\ Exists(r)
    /\ run[r].state = "TESTING"
    /\ \E e \in Stored(r, "test", run[r].cycle) : e.says = "PASS"
    /\ HasLive(r, "diff", "BOUND", t, i)

\* prepareForReview: the tests of the cycle passed, and they and the diff were
\* bound to the tree that is there and to one state of the inputs.
MayPrepare(r, t, i) ==
    /\ Exists(r)
    /\ run[r].state = "TESTING"
    /\ HasLive(r, "test", "PASS", t, i)
    /\ HasLive(r, "diff", "BOUND", t, i)

Prepared(r, t) == Moved(r, "READY_FOR_REVIEW", t)

\* startReview: nothing moved since the tests, and a request names the tree.
MayReview(r, t, i) ==
    /\ Exists(r)
    /\ run[r].state = "READY_FOR_REVIEW"
    /\ run[r].bound = t
    /\ HasLive(r, "request", "BOUND", t, i)

InReview(r, t) == Moved(r, "REVIEWING", t)

\* recordValidatedReviewResult: the stored result decides.  A PASS is noted
\* once and the run stays in review (the states after it are sealed); a FAIL
\* opens the next cycle.
MayJudge(r, verdict, t, i) ==
    /\ Exists(r)
    /\ run[r].state = "REVIEWING"
    /\ HasLive(r, "request", "BOUND", t, i)
    /\ HasLive(r, "result", verdict, t, i)
    /\ <<run[r].cycle, verdict>> \notin run[r].verdicts

Judged(r, verdict) ==
    [run[r] EXCEPT
        !.state = IF verdict = "PASS" THEN "REVIEWING" ELSE "REPAIR_INITIALIZED",
        !.version = @ + 1,
        !.cycle = IF verdict = "PASS" THEN @ ELSE @ + 1,
        !.verdicts = @ \cup {<<run[r].cycle, verdict>>}]

NewRun(t, at) ==
    [state |-> "TASK_INITIALIZED", version |-> 1, cycle |-> 1, bound |-> t,
     pausedFrom |-> Nothing, reason |-> Nothing, verdicts |-> {}, at |-> at]

\* consumeReviewPass: the verdict PASS of the current cycle can be used now.
\* Snapshot and Git are read twice.  The first evaluation lets an unexplained
\* tree pass, the final fence refuses whatever the evaluation finds.  The state
\* of the run is not asked for.
Consumable(r) ==
    /\ Exists(r)
    /\ HasLive(r, "request", "BOUND", tree, inputs)
    /\ HasLive(r, "result", "PASS", tree, inputs)
    /\ RunAuthorised(r)

-----------------------------------------------------------------------------
(* The operations, each at one instant                                       *)

\* The fence before a write: Git still authorises the run and the tree is the
\* one the new record is bound to.
Publish(r, next) ==
    /\ FenceHolds(r)
    /\ next.bound = tree
    /\ run' = [run EXCEPT ![r] = next]
    /\ UNCHANGED <<world, evidence>>

InitializeRun(r) ==
    /\ ~ActiveRunExists
    /\ \E s \in Scopes :
          MayBind(git, tree, s) /\ run' = [run EXCEPT ![r] = NewRun(tree, Binding(git, s))]
    /\ UNCHANGED <<world, evidence>>

StepRun(r) == \E s \in StepTargets : MayStep(r, s) /\ Publish(r, Moved(r, s, tree))

PauseRun(r) == \E s \in PauseTargets : MayPause(r, s) /\ Publish(r, Paused(r, s, tree))

\* A stop is derived from a failure that was seen; nothing is checked again.
DeriveSafetyStop(r) ==
    /\ MayStop(r)
    /\ \E v \in Failures : run' = [run EXCEPT ![r] = Stopped(r, v)]
    /\ UNCHANGED <<world, evidence>>

ResumeRun(r) == MayResume(r) /\ Publish(r, Resumed(r, tree))

\* The evidence is for the tree that is there and for inputs that were there
\* when the call looked.
PrepareForReview(r) ==
    \E i \in Inputs : MayPrepare(r, tree, i) /\ Publish(r, Prepared(r, tree))

StartReview(r) ==
    \E i \in Inputs : MayReview(r, tree, i) /\ Publish(r, InReview(r, tree))

JudgeReview(r) ==
    \E v \in Verdicts, i \in Inputs : MayJudge(r, v, tree, i) /\ Publish(r, Judged(r, v))

\* Nothing is looked at again before an artifact is put in place, so the files
\* may be others by then; the transitions that use it compare.
RecordEvidence(r) ==
    \E kind \in Kinds, t \in Trees, i \in Inputs : \E says \in Says(kind) :
        /\ Exists(r)
        /\ MayRecord(BoundTo(r, kind, says, t, i))
        /\ evidence' = evidence \cup {BoundTo(r, kind, says, t, i)}
        /\ UNCHANGED <<world, run>>

\* The repository and the files change under the orchestrator at any time.
Environment ==
    /\ git' \in GitStates
    /\ tree' \in Trees
    /\ inputs' \in Inputs
    /\ UNCHANGED <<run, evidence>>

LoopInit ==
    /\ git \in GitStates
    /\ tree \in Trees
    /\ inputs \in Inputs
    /\ run = [r \in RunIds |-> Nothing]
    /\ evidence = {}

LoopNext ==
    \/ Environment
    \/ \E r \in RunIds :
          \/ InitializeRun(r)
          \/ StepRun(r)
          \/ PauseRun(r)
          \/ DeriveSafetyStop(r)
          \/ ResumeRun(r)
          \/ PrepareForReview(r)
          \/ StartReview(r)
          \/ JudgeReview(r)
          \/ RecordEvidence(r)

LoopSpec == LoopInit /\ [][LoopNext]_loopVars

-----------------------------------------------------------------------------
(* Properties                                                                *)

\* A run that waits for a review or is in one was tested: the tests of its
\* cycle passed, and they, the diff and (in review) the request all speak of
\* the tree the run is bound to, whatever was edited, stopped, resumed or
\* recorded by others on the way (prepareForReview, startReview).  And a PASS
\* that can be used is one of the tree that was tested in this cycle, though
\* consumeReviewPass looks at the request and the result only.
TestedTree(r, kind, says, t) ==
    \E e \in Stored(r, kind, run[r].cycle) : e.says = says /\ e.tree = t

ReviewedWasTested ==
    \A r \in RunIds :
        /\ Exists(r) /\ run[r].state \in EvidenceGated =>
              /\ TestedTree(r, "test", "PASS", run[r].bound)
              /\ TestedTree(r, "diff", "BOUND", run[r].bound)
              /\ run[r].state = "REVIEWING" => TestedTree(r, "request", "BOUND", run[r].bound)
        /\ Consumable(r) => TestedTree(r, "test", "PASS", tree)

\* A slot holds one artifact for ever, so the history of a run never tells two
\* stories: a cycle is left behind exactly by a FAIL whose result is on disk,
\* and a verdict in the history is the one of the stored result.
VerdictsAreFinal ==
    /\ \A e, f \in evidence :
          e.run = f.run /\ e.kind = f.kind /\ e.cycle = f.cycle => e = f
    /\ \A r \in RunIds : Exists(r) =>
          /\ \A c \in 1 .. run[r].cycle - 1 : <<c, "FAIL">> \in run[r].verdicts
          /\ \A v \in run[r].verdicts :
                /\ v[1] <= run[r].cycle
                /\ v[2] = "FAIL" => v[1] < run[r].cycle
                /\ \E e \in Stored(r, "result", v[1]) : e.says = v[2]

\* Three routines judge the repository, and differ in nothing but this.  What a
\* new run is checked for is the evaluation without a run, and no closure, an
\* upstream that can be compared and the scope its caller asks for ("Shared
\* identically across initRun, resumeRun, and reconcileCurrentState" says
\* evaluateGitAuthority, which initializeRunSafely does not call).  A run is
\* bound to a commit that carries its packet and no closure, so the inline
\* checks of a transition, which do not read the closure, are the evaluation at
\* its fence, and an upstream that can be compared.
AuthoritiesAgree ==
    /\ LET open == /\ Authorised(git, tree, Nothing)
                   /\ Closures[git.head] = "none"
                   /\ Divergence(git) # "missing"
       IN  \A s \in Scopes :
             MayBind(git, tree, s) <=> /\ open
                                      /\ NotBroadened(s, CommittedPacket(git.head).scope)
                                      /\ OwnsDirtyTree(tree, s)
    /\ \A r \in RunIds : Exists(r) =>
          (LockedAuthority(git, tree, run[r].at) <=>
             RunAuthorised(r) /\ Divergence(git) # "missing")
=============================================================================
