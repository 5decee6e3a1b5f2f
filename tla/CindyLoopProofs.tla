-------------------------- MODULE CindyLoopProofs --------------------------
(* What a run of the orchestrator is worth, for every history of the         *)
(* repository, every number of trees, inputs and runs: a review is of what   *)
(* was tested, and a verdict that was recorded is final.  The invariant is   *)
(* LoopInv: with the evidence in write-once slots, a result can only be of   *)
(* the tree under review, and that one was tested before the review began.   *)
EXTENDS CindyLoop, TLAPS, SequenceTheorems, WellFoundedInduction

-----------------------------------------------------------------------------
(* The judgements of CindyAuthority, freed from the order of their checks:   *)
(* an evaluation clears the repository exactly when none of its checks       *)
(* fails, and when it fails it names a stop and a reason.                    *)

\* What a check that fails names: where the run stops, and why.
CheckType == [fails : BOOLEAN, stop : PauseStates, reason : Reasons] \cup {Clear}

Fails(checks) == \E i \in DOMAIN checks : checks[i].fails

\* A set of indices that is not empty has a least one.
LEMMA LeastIndex ==
  ASSUME NEW T, T \subseteq Nat, T # {}
  PROVE  \E i \in T : \A j \in T : i <= j
  <1> DEFINE R == {ss \in Nat \X Nat : ss[1] < ss[2]}
  <1>1. IsWellFoundedOn(R, Nat)
    BY NatLessThanWellFounded DEF OpToRel
  <1>2. PICK i \in T : \A j \in T : ~ (<<j, i>> \in R)
    BY <1>1, WFMin, Zenon
  <1>3. ASSUME NEW j \in T PROVE i <= j
    <2>1. i \in Nat /\ j \in Nat /\ ~ (<<j, i>> \in R)
      BY <1>2
    <2> QED
      BY <2>1
  <1> QED
    BY <1>3

\* The first check that fails is one of those that fail.
LEMMA FirstFailingFails ==
  ASSUME NEW checks \in Seq(CheckType)
  PROVE  /\ FirstFailing(checks) \in CheckType
         /\ FirstFailing(checks).fails <=> Fails(checks)
  <1> DEFINE failing == {i \in DOMAIN checks : checks[i].fails}
             least == CHOOSE i \in failing : \A j \in failing : i <= j
  <1>1. CASE failing = {}
    <2>1. FirstFailing(checks) = Clear /\ ~Fails(checks)
      BY <1>1 DEF FirstFailing, Fails
    <2> QED
      BY <2>1 DEF Clear, Check, CheckType
  <1>2. CASE failing # {}
    <2>1. failing \subseteq Nat
      OBVIOUS
    <2>2. \E i \in failing : \A j \in failing : i <= j
      BY <1>2, <2>1, LeastIndex
    <2>3. least \in failing
      BY <2>2
    <2>4. FirstFailing(checks) = checks[least]
      BY <1>2 DEF FirstFailing
    <2> QED
      BY <2>3, <2>4 DEF Fails
  <1> QED
    BY <1>1, <1>2

LEMMA FailsOfBoth ==
  ASSUME NEW s \in Seq(CheckType), NEW t \in Seq(CheckType)
  PROVE  /\ s \o t \in Seq(CheckType)
         /\ Fails(s \o t) <=> Fails(s) \/ Fails(t)
  <1>1. /\ s \o t \in Seq(CheckType)
        /\ Len(s \o t) = Len(s) + Len(t)
        /\ \A i \in 1 .. Len(s) + Len(t) :
              (s \o t)[i] = IF i <= Len(s) THEN s[i] ELSE t[i - Len(s)]
    BY ConcatProperties
  <1>2. ASSUME Fails(s \o t) PROVE Fails(s) \/ Fails(t)
    <2>1. PICK i \in 1 .. Len(s) + Len(t) : (s \o t)[i].fails
      BY <1>1, <1>2 DEF Fails
    <2>2. CASE i <= Len(s)
      BY <1>1, <2>1, <2>2 DEF Fails
    <2>3. CASE ~(i <= Len(s))
      <3>1. i - Len(s) \in DOMAIN t /\ t[i - Len(s)].fails
        BY <1>1, <2>1, <2>3
      <3> QED
        BY <3>1 DEF Fails
    <2> QED
      BY <2>2, <2>3
  <1>3. ASSUME Fails(s) PROVE Fails(s \o t)
    <2>1. PICK i \in 1 .. Len(s) : s[i].fails
      BY <1>3 DEF Fails
    <2>2. i \in DOMAIN (s \o t) /\ (s \o t)[i] = s[i]
      BY <1>1
    <2> QED
      BY <2>1, <2>2 DEF Fails
  <1>4. ASSUME Fails(t) PROVE Fails(s \o t)
    <2>1. PICK i \in 1 .. Len(t) : t[i].fails
      BY <1>4 DEF Fails
    <2>2. i + Len(s) \in DOMAIN (s \o t) /\ (s \o t)[i + Len(s)] = t[i]
      BY <1>1
    <2> QED
      BY <2>1, <2>2 DEF Fails
  <1> QED
    BY <1>1, <1>2, <1>3, <1>4

-----------------------------------------------------------------------------
(* The lists of checks                                                       *)

LEMMA ListsAreTyped ==
  ASSUME NEW g, NEW t, NEW bound, NEW scope
  PROVE  /\ CommittedChecks(g) \in Seq(CheckType)
         /\ PacketChecks(g, bound) \in Seq(CheckType)
         /\ BindingChecks(g, bound) \in Seq(CheckType)
         /\ DivergenceChecks(g) \in Seq(CheckType)
         /\ UnboundChecks(g) \in Seq(CheckType)
         /\ OwnershipChecks(t, scope) \in Seq(CheckType)
  <1>1. {"GIT_SAFETY_STOP", "CONTRACT_CONFLICT", "DIRTY_TREE_UNEXPLAINED"} \subseteq PauseStates
    BY DEF PauseStates, ManualPauses, SafetyStops
  <1> USE <1>1 DEF GitStop, Check, CheckType, Reasons
  <1>4. CommittedChecks(g) \in Seq(CheckType)
    BY DEF CommittedChecks
  <1>5. PacketChecks(g, bound) \in Seq(CheckType)
    BY DEF PacketChecks, IsAncestor
  <1>6. BindingChecks(g, bound) \in Seq(CheckType)
    BY DEF BindingChecks
  <1>7. DivergenceChecks(g) \in Seq(CheckType) /\ UnboundChecks(g) \in Seq(CheckType)
    BY DEF DivergenceChecks, UnboundChecks
  <1>8. OwnershipChecks(t, scope) \in Seq(CheckType)
    BY DEF OwnershipChecks, OwnsDirtyTree
  <1> QED
    BY <1>4, <1>5, <1>6, <1>7, <1>8

\* A list of checks fails when one of them does.
LEMMA FailsOfList ==
  ASSUME NEW s
  PROVE  /\ DOMAIN s = 1 .. 1 => (Fails(s) <=> s[1].fails)
         /\ DOMAIN s = 1 .. 3 => (Fails(s) <=> s[1].fails \/ s[2].fails \/ s[3].fails)
         /\ DOMAIN s = 1 .. 4 =>
              (Fails(s) <=> s[1].fails \/ s[2].fails \/ s[3].fails \/ s[4].fails)
         /\ DOMAIN s = 1 .. 5 =>
              (Fails(s) <=> s[1].fails \/ s[2].fails \/ s[3].fails \/ s[4].fails \/ s[5].fails)
  BY DEF Fails

LEMMA CommittedFails ==
  ASSUME NEW g
  PROVE  Fails(CommittedChecks(g)) <=>
           \/ g.branch = Nothing \/ Closures[g.head] = "invalid"
           \/ CommittedPacket(g.head).kind \in {"missing", "malformed"}
  <1>1. DOMAIN CommittedChecks(g) = 1 .. 4
    BY DEF CommittedChecks
  <1>2. /\ CommittedChecks(g)[1].fails <=> g.branch = Nothing
        /\ CommittedChecks(g)[2].fails <=> Closures[g.head] = "invalid"
        /\ CommittedChecks(g)[3].fails <=> CommittedPacket(g.head).kind = "missing"
        /\ CommittedChecks(g)[4].fails <=> CommittedPacket(g.head).kind = "malformed"
    BY DEF CommittedChecks, GitStop, Check
  <1> QED
    BY <1>1, <1>2, FailsOfList

LEMMA PacketFails ==
  ASSUME NEW g, NEW bound
  PROVE  Fails(PacketChecks(g, bound)) <=>
           \/ ~IsAncestor(CommittedPacket(g.head).base, TaskAuthorityCommit(g.head))
           \/ g.branch # CommittedPacket(g.head).branch
           \/ bound # Nothing /\ g.branch # bound.branch
           \/ g.upstream = NoUpstream
  <1>1. DOMAIN PacketChecks(g, bound) = 1 .. 4
    BY DEF PacketChecks
  <1>2. /\ PacketChecks(g, bound)[1].fails <=> ~IsAncestor(CommittedPacket(g.head).base, TaskAuthorityCommit(g.head))
        /\ PacketChecks(g, bound)[2].fails <=> g.branch # CommittedPacket(g.head).branch
        /\ PacketChecks(g, bound)[3].fails <=> bound # Nothing /\ g.branch # bound.branch
        /\ PacketChecks(g, bound)[4].fails <=> g.upstream = NoUpstream
    BY DEF PacketChecks, GitStop, Check
  <1> QED
    BY <1>1, <1>2, FailsOfList

LEMMA BindingFails ==
  ASSUME NEW g, NEW bound
  PROVE  Fails(BindingChecks(g, bound)) <=>
           \/ bound.head # TaskAuthorityCommit(g.head)
           \/ g.head # bound.head
           \/ bound.base # CommittedPacket(g.head).base
           \/ g.upstream.commit # bound.upstream.commit
           \/ g.upstream.ref # bound.upstream.ref
  <1>1. DOMAIN BindingChecks(g, bound) = 1 .. 5
    BY DEF BindingChecks
  <1>2. /\ BindingChecks(g, bound)[1].fails <=> bound.head # TaskAuthorityCommit(g.head)
        /\ BindingChecks(g, bound)[2].fails <=> g.head # bound.head
        /\ BindingChecks(g, bound)[3].fails <=> bound.base # CommittedPacket(g.head).base
        /\ BindingChecks(g, bound)[4].fails <=> g.upstream.commit # bound.upstream.commit
        /\ BindingChecks(g, bound)[5].fails <=> g.upstream.ref # bound.upstream.ref
    BY DEF BindingChecks, GitStop, Check
  <1> QED
    BY <1>1, <1>2, FailsOfList

LEMMA DivergenceFails ==
  ASSUME NEW g
  PROVE  Fails(DivergenceChecks(g)) <=>
           Divergence(g) \in {"ahead", "behind", "diverged"}
  <1>1. DOMAIN DivergenceChecks(g) = 1 .. 3
    BY DEF DivergenceChecks
  <1>2. /\ DivergenceChecks(g)[1].fails <=> Divergence(g) = "ahead"
        /\ DivergenceChecks(g)[2].fails <=> Divergence(g) = "behind"
        /\ DivergenceChecks(g)[3].fails <=> Divergence(g) = "diverged"
    BY DEF DivergenceChecks, GitStop, Check
  <1> QED
    BY <1>1, <1>2, FailsOfList

LEMMA UnboundFails ==
  ASSUME NEW g
  PROVE  Fails(UnboundChecks(g)) <=>
           g.head # TaskAuthorityCommit(g.head)
  <1>1. DOMAIN UnboundChecks(g) = 1 .. 1
    BY DEF UnboundChecks
  <1>2. /\ UnboundChecks(g)[1].fails <=> g.head # TaskAuthorityCommit(g.head)
    BY DEF UnboundChecks, GitStop, Check
  <1> QED
    BY <1>1, <1>2, FailsOfList

LEMMA OwnershipFails ==
  ASSUME NEW t, NEW scope
  PROVE  Fails(OwnershipChecks(t, scope)) <=> ~OwnsDirtyTree(t, scope)
  <1>1. DOMAIN OwnershipChecks(t, scope) = 1 .. 1
    BY DEF OwnershipChecks
  <1>2. OwnershipChecks(t, scope)[1].fails <=> ~OwnsDirtyTree(t, scope)
    BY DEF OwnershipChecks, GitStop, Check
  <1> QED
    BY <1>1, <1>2, FailsOfList

-----------------------------------------------------------------------------
(* The evaluation as a condition on the repository                           *)

\* What every evaluation asks of the repository and the tree.
SoundCheckout(g, t, scope) ==
    /\ g.branch # Nothing
    /\ Closures[g.head] # "invalid"
    /\ CommittedPacket(g.head).kind \notin {"missing", "malformed"}
    /\ IsAncestor(CommittedPacket(g.head).base, TaskAuthorityCommit(g.head))
    /\ g.branch = CommittedPacket(g.head).branch
    /\ g.upstream # NoUpstream
    /\ Divergence(g) \notin {"ahead", "behind", "diverged"}
    /\ OwnsDirtyTree(t, scope)

\* What it asks of a run.
AsBound(g, bound) ==
    /\ g.branch = bound.branch
    /\ bound.head = TaskAuthorityCommit(g.head)
    /\ g.head = bound.head
    /\ bound.base = CommittedPacket(g.head).base
    /\ g.upstream.commit = bound.upstream.commit
    /\ g.upstream.ref = bound.upstream.ref

\* An evaluation is one of its checks, or clear; it fails when one of them does.
LEMMA EvaluationFails ==
  ASSUME NEW g, NEW t, NEW bound
  PROVE  /\ Evaluate(g, t, bound) \in CheckType
         /\ bound = Nothing =>
              (Evaluate(g, t, bound).fails <=>
                 \/ Fails(CommittedChecks(g)) \/ Fails(PacketChecks(g, bound))
                 \/ Fails(DivergenceChecks(g)) \/ Fails(UnboundChecks(g))
                 \/ Fails(OwnershipChecks(t, ScopeFor(g, bound))))
         /\ bound # Nothing =>
              (Evaluate(g, t, bound).fails <=>
                 \/ Fails(CommittedChecks(g)) \/ Fails(PacketChecks(g, bound))
                 \/ Fails(BindingChecks(g, bound)) \/ Fails(DivergenceChecks(g))
                 \/ Fails(OwnershipChecks(t, ScopeFor(g, bound))))
  <1> DEFINE committed == FirstFailing(CommittedChecks(g))
             free == DivergenceChecks(g) \o UnboundChecks(g)
             held == BindingChecks(g, bound) \o DivergenceChecks(g)
             middle == IF bound = Nothing THEN free ELSE held
             begun == PacketChecks(g, bound) \o middle
             owned == OwnershipChecks(t, ScopeFor(g, bound))
             all == begun \o owned
  <1>1. committed \in CheckType /\ (committed.fails <=> Fails(CommittedChecks(g)))
    BY ListsAreTyped, FirstFailingFails
  <1>2. /\ free \in Seq(CheckType)
        /\ Fails(free) <=> Fails(DivergenceChecks(g)) \/ Fails(UnboundChecks(g))
    BY ListsAreTyped, FailsOfBoth
  <1>3. /\ held \in Seq(CheckType)
        /\ Fails(held) <=> Fails(BindingChecks(g, bound)) \/ Fails(DivergenceChecks(g))
    BY ListsAreTyped, FailsOfBoth
  <1>4. middle \in Seq(CheckType) /\ PacketChecks(g, bound) \in Seq(CheckType)
    BY <1>2, <1>3, ListsAreTyped
  <1>5. /\ begun \in Seq(CheckType)
        /\ Fails(begun) <=> Fails(PacketChecks(g, bound)) \/ Fails(middle)
    <2> HIDE DEF middle
    <2> QED
      BY <1>4, FailsOfBoth
  <1>6. /\ all \in Seq(CheckType)
        /\ Fails(all) <=> Fails(begun) \/ Fails(owned)
    <2>1. owned \in Seq(CheckType)
      BY ListsAreTyped
    <2> HIDE DEF begun, owned
    <2> QED
      BY <1>5, <2>1, FailsOfBoth
  <1>7. FirstFailing(all) \in CheckType /\ (FirstFailing(all).fails <=> Fails(all))
    <2> HIDE DEF all
    <2> QED
      BY <1>6, FirstFailingFails
  <1>8. Evaluate(g, t, bound) = IF committed.fails THEN committed ELSE FirstFailing(all)
    BY DEF Evaluate
  <1>9. /\ bound = Nothing => middle = free
        /\ bound # Nothing => middle = held
    OBVIOUS
  <1> HIDE DEF committed, free, held, middle, begun, all
  <1> QED
    BY <1>1, <1>2, <1>3, <1>5, <1>6, <1>7, <1>8, <1>9

LEMMA AuthorisedUnbound ==
  ASSUME NEW g, NEW t
  PROVE  Authorised(g, t, Nothing) <=>
           /\ SoundCheckout(g, t, CommittedPacket(g.head).scope)
           /\ g.head = TaskAuthorityCommit(g.head)
  BY EvaluationFails, CommittedFails, PacketFails, DivergenceFails, UnboundFails, OwnershipFails
  DEF Authorised, SoundCheckout, ScopeFor

LEMMA AuthorisedBound ==
  ASSUME NEW g, NEW t, NEW bound, bound # Nothing
  PROVE  Authorised(g, t, bound) <=> SoundCheckout(g, t, bound.scope) /\ AsBound(g, bound)
  BY EvaluationFails, CommittedFails, PacketFails, BindingFails, DivergenceFails, OwnershipFails
  DEF Authorised, SoundCheckout, AsBound, ScopeFor

-----------------------------------------------------------------------------
(* The three judgements                                                      *)

LEMMA PacketKinds ==
  ASSUME NEW c \in Commits
  PROVE  CommittedPacket(c).kind \in {"valid", "malformed", "missing"}
  <1>1. CASE PacketCommits(c) = {}
    BY <1>1 DEF CommittedPacket
  <1>2. CASE PacketCommits(c) # {}
    <2>1. TaskAuthorityCommit(c) \in PacketCommits(c)
      BY <1>2, PacketAssumption DEF TaskAuthorityCommit
    <2>2. CommittedPacket(c) = PacketEdits[TaskAuthorityCommit(c)]
      BY <1>2 DEF CommittedPacket
    <2> QED
      BY <2>1, <2>2, HistoryAssumption DEF PacketCommits
  <1> QED
    BY <1>1, <1>2

LEMMA DivergenceKinds ==
  ASSUME NEW g
  PROVE  /\ Divergence(g) \in {"missing", "ahead", "behind", "diverged", "equal"}
         /\ g.upstream = NoUpstream => Divergence(g) = "missing"
  BY DEF Divergence

\* What a new run is checked for is the evaluation without a run, and that the
\* task is not closed, the upstream can be compared and the scope asked for is
\* no broader than the packet's and explains the tree.
LEMMA BindingIsEvaluation ==
  ASSUME NEW g, NEW t \in Trees, NEW s \in Scopes, g.head \in Commits
  PROVE  MayBind(g, t, s) <=> /\ Authorised(g, t, Nothing)
                              /\ Closures[g.head] = "none"
                              /\ Divergence(g) # "missing"
                              /\ NotBroadened(s, CommittedPacket(g.head).scope)
                              /\ OwnsDirtyTree(t, s)
  <1>1. /\ CommittedPacket(g.head).kind \in {"valid", "malformed", "missing"}
        /\ Divergence(g) \in {"missing", "ahead", "behind", "diverged", "equal"}
        /\ g.upstream = NoUpstream => Divergence(g) = "missing"
    BY PacketKinds, DivergenceKinds
  <1>2. NotBroadened(s, CommittedPacket(g.head).scope) /\ OwnsDirtyTree(t, s)
          => OwnsDirtyTree(t, CommittedPacket(g.head).scope)
    BY DEF NotBroadened, OwnsDirtyTree
  <1>3. Closures[g.head] \in {"none", "closed", "invalid"}
    BY HistoryAssumption
  <1> QED
    BY <1>1, <1>2, <1>3, AuthorisedUnbound DEF MayBind, SoundCheckout

\* For a run bound to a commit without a closure, the inline checks of a
\* transition are the evaluation of its fence and an upstream that can be
\* compared.
LEMMA LockedIsEvaluation ==
  ASSUME NEW g, NEW t, NEW bound, g.head \in Commits, bound # Nothing,
         Closures[bound.head] = "none",
         g.upstream = [ref |-> g.upstream.ref, commit |-> g.upstream.commit],
         bound.upstream = [ref |-> bound.upstream.ref, commit |-> bound.upstream.commit]
  PROVE  LockedAuthority(g, t, bound) <=> Authorised(g, t, bound) /\ Divergence(g) # "missing"
  <1>1. g.upstream = bound.upstream <=> /\ g.upstream.commit = bound.upstream.commit
                                       /\ g.upstream.ref = bound.upstream.ref
    OBVIOUS
  <1>2. /\ CommittedPacket(g.head).kind \in {"valid", "malformed", "missing"}
        /\ Divergence(g) \in {"missing", "ahead", "behind", "diverged", "equal"}
        /\ g.upstream = NoUpstream => Divergence(g) = "missing"
    BY PacketKinds, DivergenceKinds
  <1> QED
    BY <1>1, <1>2, AuthorisedBound DEF LockedAuthority, SoundCheckout, AsBound

-----------------------------------------------------------------------------
(* The invariant                                                             *)

\* A slot holds one artifact.
OneArtifactPerSlot ==
    \A e, f \in evidence :
        e.run = f.run /\ e.kind = f.kind /\ e.cycle = f.cycle => e = f

\* Evidence belongs to a cycle its run has begun.
EvidenceIsOfRun ==
    \A e \in evidence : Exists(e.run) /\ e.cycle <= run[e.run].cycle

\* The gate a run is behind in a state: the artifacts it passed, by tree.
GatePassed(r) ==
    /\ TestedTree(r, "test", "PASS", run[r].bound)
    /\ TestedTree(r, "diff", "BOUND", run[r].bound)
    /\ run[r].state = "REVIEWING" => TestedTree(r, "request", "BOUND", run[r].bound)

GatesHold == \A r \in RunIds : Exists(r) /\ run[r].state \in EvidenceGated => GatePassed(r)

\* Whatever has a result was tested in the same cycle.
ResultsWereTested ==
    \A e \in evidence : e.kind = "result" =>
        \E f \in evidence : /\ f.kind = "test" /\ f.says = "PASS"
                            /\ f.run = e.run /\ f.cycle = e.cycle /\ f.tree = e.tree

HistoryIsRecorded(r) ==
    /\ \A c \in 1 .. run[r].cycle - 1 : <<c, "FAIL">> \in run[r].verdicts
    /\ \A v \in run[r].verdicts :
          /\ v[1] <= run[r].cycle
          /\ v[2] = "FAIL" => v[1] < run[r].cycle
          /\ \E e \in Stored(r, "result", v[1]) : e.says = v[2]

HistoriesAreRecorded == \A r \in RunIds : Exists(r) => HistoryIsRecorded(r)

LoopInv ==
    /\ TypeOK
    /\ OneArtifactPerSlot
    /\ EvidenceIsOfRun
    /\ GatesHold
    /\ ResultsWereTested
    /\ HistoriesAreRecorded

(* The invariant says what the properties say.                               *)
LEMMA LoopInvImpliesReviewed ==
  ASSUME LoopInv
  PROVE  ReviewedWasTested
  <1> SUFFICES ASSUME NEW r \in RunIds
               PROVE  /\ Exists(r) /\ run[r].state \in EvidenceGated => GatePassed(r)
                      /\ Consumable(r) => TestedTree(r, "test", "PASS", tree)
    BY DEF ReviewedWasTested, GatePassed
  <1>1. ASSUME Exists(r), run[r].state \in EvidenceGated PROVE GatePassed(r)
    BY <1>1 DEF LoopInv, GatesHold
  <1>2. ASSUME Consumable(r) PROVE TestedTree(r, "test", "PASS", tree)
    <2>1. PICK e \in evidence : e = BoundTo(r, "result", "PASS", tree, inputs)
      BY <1>2 DEF Consumable, HasLive
    <2>2. /\ e.kind = "result" /\ e.run = r
          /\ e.cycle = run[r].cycle /\ e.tree = tree
      BY <2>1 DEF BoundTo
    <2> QED
      BY <2>2 DEF LoopInv, ResultsWereTested, TestedTree, Stored
  <1> QED
    BY <1>1, <1>2

LEMMA LoopInvImpliesFinal ==
  ASSUME LoopInv
  PROVE  VerdictsAreFinal
  BY DEF LoopInv, VerdictsAreFinal, OneArtifactPerSlot, HistoriesAreRecorded, HistoryIsRecorded

-----------------------------------------------------------------------------
(* Types                                                                     *)

LEMMA ExistingIsRun ==
  ASSUME TypeOK, NEW r \in RunIds
  PROVE  Exists(r) <=> run[r] \in Run
  BY RecordAssumption DEF TypeOK, Exists

(* Writing a record in a state of RunStates leaves the types.                *)
LEMMA NewRunTyped ==
  ASSUME TypeOK, NEW s \in Scopes
  PROVE  NewRun(tree, Binding(git, s)) \in Run
  BY DEF TypeOK, NewRun, Run, RunStates, ResumeTargets, PauseStates, Bindings, Verdicts

\* What a move changes of a record, and that the others keep.
LEMMA MovedRecord ==
  ASSUME TypeOK, NEW r \in RunIds, Exists(r), NEW s \in RunStates, NEW t \in Trees
  PROVE  LET x == Moved(r, s, t)
         IN  /\ x \in Run /\ x.state = s /\ x.bound = t
             /\ x.cycle = run[r].cycle /\ x.verdicts = run[r].verdicts /\ x.at = run[r].at
  <1>1. run[r] \in Run
    BY ExistingIsRun
  <1>2. run[r].version + 1 \in Nat
    BY <1>1 DEF Run
  <1>3. [[[run[r] EXCEPT !.state = s] EXCEPT !.version = run[r].version + 1]
                 EXCEPT !.bound = t] \in Run
    BY <1>1, <1>2 DEF Run
  <1> QED
    BY <1>1, <1>3 DEF Moved, Run

\* A pause notes where the run was, which was not a pause.
LEMMA PausedRecord ==
  ASSUME TypeOK, NEW r \in RunIds, NEW s \in PauseTargets, NEW t \in Trees, MayPause(r, s)
  PROVE  LET x == Paused(r, s, t)
         IN  /\ x \in Run /\ x.state = s /\ x.bound = t /\ s \notin EvidenceGated
             /\ x.cycle = run[r].cycle /\ x.verdicts = run[r].verdicts /\ x.at = run[r].at
  <1>1. s \in ManualPauses /\ s \in RunStates \ EvidenceGated
    BY PauseAssumption DEF RunStates, PauseStates, ManualPauses, EvidenceGated
  <1>2. PICK m : m = Moved(r, s, t)
    OBVIOUS
  <1>3. /\ m \in Run /\ m.state = s /\ m.bound = t /\ m.cycle = run[r].cycle
        /\ m.verdicts = run[r].verdicts /\ m.at = run[r].at
    BY <1>1, <1>2, MovedRecord DEF MayPause
  <1>4. run[r].state \in ResumeTargets
    BY ExistingIsRun DEF MayPause, ValidTransition, CanTransition, Run, RunStates
  <1>5. [[m EXCEPT !.pausedFrom = run[r].state] EXCEPT !.reason = s] \in Run
    BY <1>1, <1>3, <1>4 DEF Run
  <1>6. Paused(r, s, t) = [m EXCEPT !.pausedFrom = run[r].state, !.reason = s]
    BY <1>2 DEF Paused
  <1> QED
    BY <1>1, <1>3, <1>5, <1>6 DEF Run

LEMMA StoppedRecord ==
  ASSUME TypeOK, NEW r \in RunIds, NEW v \in Failures, MayStop(r)
  PROVE  LET x == Stopped(r, v)
         IN  /\ x \in Run /\ x.state \notin EvidenceGated
             /\ x.cycle = run[r].cycle /\ x.verdicts = run[r].verdicts /\ x.at = run[r].at
  <1>1. run[r] \in Run /\ run[r].state \in ResumeTargets
    BY ExistingIsRun DEF MayStop, Run, RunStates
  <1>2. StopFor(v) \in RunStates \ EvidenceGated /\ v.reason \in Reasons
    BY DEF StopFor, RunStates, PauseStates, SafetyStops, EvidenceGated, Failures
  <1>3. run[r].version + 1 \in Nat
    BY <1>1 DEF Run
  <1>4. [[[[run[r] EXCEPT !.state = StopFor(v)] EXCEPT !.version = run[r].version + 1]
                   EXCEPT !.pausedFrom = run[r].state] EXCEPT !.reason = v.reason] \in Run
    BY <1>1, <1>2, <1>3 DEF Run
  <1> QED
    BY <1>1, <1>2, <1>4 DEF Stopped, Run

LEMMA ResumedRecord ==
  ASSUME TypeOK, NEW r \in RunIds, NEW t \in Trees, MayResume(r)
  PROVE  LET x == Resumed(r, t)
         IN  /\ x \in Run /\ x.bound = t /\ x.state \notin EvidenceGated
             /\ x.cycle = run[r].cycle /\ x.verdicts = run[r].verdicts /\ x.at = run[r].at
  <1>1. run[r].pausedFrom \in RunStates \ EvidenceGated
    BY DEF MayResume, RunStates
  <1>2. PICK m : m = Moved(r, run[r].pausedFrom, t)
    OBVIOUS
  <1>3. /\ m \in Run /\ m.state = run[r].pausedFrom /\ m.bound = t /\ m.cycle = run[r].cycle
        /\ m.verdicts = run[r].verdicts /\ m.at = run[r].at
    BY <1>1, <1>2, MovedRecord DEF MayResume
  <1>4. [[m EXCEPT !.pausedFrom = Nothing] EXCEPT !.reason = Nothing] \in Run
    BY <1>3 DEF Run
  <1>5. Resumed(r, t) = [m EXCEPT !.pausedFrom = Nothing, !.reason = Nothing]
    BY <1>2 DEF Resumed
  <1> QED
    BY <1>1, <1>3, <1>4, <1>5 DEF Run

\* A PASS leaves the run in review, a FAIL opens the next cycle.
LEMMA JudgedRecord ==
  ASSUME TypeOK, NEW r \in RunIds, NEW v \in Verdicts, Exists(r)
  PROVE  LET x == Judged(r, v)
         IN  /\ x \in Run /\ x.bound = run[r].bound /\ x.at = run[r].at
             /\ x.state = IF v = "PASS" THEN "REVIEWING" ELSE "REPAIR_INITIALIZED"
             /\ x.cycle = IF v = "PASS" THEN run[r].cycle ELSE run[r].cycle + 1
             /\ x.verdicts = run[r].verdicts \cup {<<run[r].cycle, v>>}
  <1> DEFINE state == IF v = "PASS" THEN "REVIEWING" ELSE "REPAIR_INITIALIZED"
             cycle == IF v = "PASS" THEN run[r].cycle ELSE run[r].cycle + 1
             verdicts == run[r].verdicts \cup {<<run[r].cycle, v>>}
  <1>1. run[r] \in Run
    BY ExistingIsRun
  <1>2. /\ state \in RunStates /\ run[r].version + 1 \in Nat /\ cycle \in Nat
        /\ verdicts \in SUBSET (Nat \X Verdicts)
    BY <1>1 DEF Run, RunStates, ResumeTargets
  <1>3. [[[[run[r] EXCEPT !.state = state] EXCEPT !.version = run[r].version + 1]
              EXCEPT !.cycle = cycle] EXCEPT !.verdicts = verdicts] \in Run
    BY <1>1, <1>2 DEF Run
  <1> QED
    BY <1>1, <1>3 DEF Judged, Run

LEMMA InitInv == LoopInit => LoopInv
  BY DEF LoopInit, LoopInv, TypeOK, OneArtifactPerSlot, EvidenceIsOfRun, GatesHold,
         ResultsWereTested, HistoriesAreRecorded, Exists

-----------------------------------------------------------------------------
(* Writing the record of one run                                             *)

\* The other runs keep their records, and what a run's gate and history rest
\* on is evidence, which stays: only the new record has to be looked at.
LEMMA WritingPreserves ==
  ASSUME LoopInv, NEW r \in RunIds, NEW next \in Run,
         run' = [run EXCEPT ![r] = next], UNCHANGED <<world, evidence>>,
         \A e \in evidence : e.run = r => e.cycle <= next.cycle,
         next.state \in EvidenceGated => GatePassed(r)',
         HistoryIsRecorded(r)'
  PROVE  LoopInv'
  <1>1. TypeOK'
    BY DEF LoopInv, TypeOK, world
  <1>2. run'[r] = next /\ next # Nothing /\ \A q \in RunIds \ {r} : run'[q] = run[q]
    BY RecordAssumption DEF LoopInv, TypeOK
  <1>3. OneArtifactPerSlot' /\ ResultsWereTested'
    BY DEF LoopInv, OneArtifactPerSlot, ResultsWereTested
  <1>4. EvidenceIsOfRun'
    BY <1>2 DEF LoopInv, EvidenceIsOfRun, Exists, TypeOK, Artifact
  <1>5. GatesHold'
    <2>1. ASSUME NEW q \in RunIds, q # r, Exists(q)', run'[q].state \in EvidenceGated
          PROVE  GatePassed(q)'
      <3>1. run'[q] = run[q] /\ evidence' = evidence
        BY <1>2, <2>1
      <3>2. GatePassed(q)
        BY <2>1, <3>1 DEF LoopInv, GatesHold, Exists
      <3> QED
        BY <3>1, <3>2 DEF GatePassed, TestedTree, Stored
    <2> QED
      BY <1>2, <2>1 DEF GatesHold
  <1>6. HistoriesAreRecorded'
    <2>1. ASSUME NEW q \in RunIds, q # r, Exists(q)'
          PROVE  HistoryIsRecorded(q)'
      <3>1. run'[q] = run[q] /\ evidence' = evidence
        BY <1>2, <2>1
      <3>2. HistoryIsRecorded(q)
        BY <2>1, <3>1 DEF LoopInv, HistoriesAreRecorded, Exists
      <3> QED
        BY <3>1, <3>2 DEF HistoryIsRecorded, Stored
    <2> QED
      BY <2>1 DEF HistoriesAreRecorded
  <1> QED
    BY <1>1, <1>3, <1>4, <1>5, <1>6 DEF LoopInv

\* A move within the cycle, to a state no evidence guards, keeps the invariant.
LEMMA MovingPreserves ==
  ASSUME LoopInv, NEW r \in RunIds, Exists(r), NEW next \in Run,
         run' = [run EXCEPT ![r] = next], UNCHANGED <<world, evidence>>,
         next.cycle = run[r].cycle, next.verdicts = run[r].verdicts,
         next.state \in EvidenceGated => GatePassed(r)'
  PROVE  LoopInv'
  <1>1. run'[r] = next
    BY DEF LoopInv, TypeOK
  <1>2. \A e \in evidence : e.run = r => e.cycle <= next.cycle
    BY DEF LoopInv, EvidenceIsOfRun
  <1>3. HistoryIsRecorded(r)'
    <2>1. HistoryIsRecorded(r)
      BY DEF LoopInv, HistoriesAreRecorded
    <2> QED
      BY <1>1, <2>1 DEF HistoryIsRecorded, Stored
  <1> QED
    BY <1>2, <1>3, WritingPreserves

-----------------------------------------------------------------------------
(* One lemma per operation                                                   *)

LEMMA InitializeRunPreserves ==
  ASSUME LoopInv, NEW r \in RunIds, InitializeRun(r)
  PROVE  LoopInv'
  <1>1. PICK s \in Scopes : run' = [run EXCEPT ![r] = NewRun(tree, Binding(git, s))]
    BY DEF InitializeRun
  <1>2. NewRun(tree, Binding(git, s)) \in Run
    BY NewRunTyped DEF LoopInv
  <1>3. UNCHANGED <<world, evidence>> /\ ~Exists(r) /\ \A e \in evidence : e.run # r
    BY DEF InitializeRun, ActiveRunExists, LoopInv, EvidenceIsOfRun
  <1>4. run'[r] = NewRun(tree, Binding(git, s))
    BY <1>1 DEF LoopInv, TypeOK
  <1>5. \A t, at : /\ NewRun(t, at).state \notin EvidenceGated
                   /\ NewRun(t, at).cycle = 1 /\ NewRun(t, at).verdicts = {}
    BY DEF NewRun, EvidenceGated
  <1>6. HistoryIsRecorded(r)'
    BY <1>4, <1>5 DEF HistoryIsRecorded
  <1> QED
    BY <1>1, <1>2, <1>3, <1>5, <1>6, WritingPreserves

LEMMA StepRunPreserves ==
  ASSUME LoopInv, NEW r \in RunIds, StepRun(r)
  PROVE  LoopInv'
  <1>1. PICK s \in StepTargets : MayStep(r, s) /\ Publish(r, Moved(r, s, tree))
    BY DEF StepRun
  <1>2. s \in RunStates \ EvidenceGated
    BY DEF StepTargets, RunStates, ResumeTargets, EvidenceGated
  <1>3. Exists(r) /\ tree \in Trees /\ TypeOK
    BY <1>1 DEF MayStep, LoopInv, TypeOK
  <1>4. /\ Moved(r, s, tree) \in Run /\ Moved(r, s, tree).state = s
        /\ Moved(r, s, tree).cycle = run[r].cycle
        /\ Moved(r, s, tree).verdicts = run[r].verdicts
    BY <1>2, <1>3, MovedRecord
  <1> QED
    BY <1>1, <1>2, <1>3, <1>4, MovingPreserves DEF Publish

LEMMA PauseRunPreserves ==
  ASSUME LoopInv, NEW r \in RunIds, PauseRun(r)
  PROVE  LoopInv'
  <1>1. PICK s \in PauseTargets : MayPause(r, s) /\ Publish(r, Paused(r, s, tree))
    BY DEF PauseRun
  <1>2. Exists(r) /\ tree \in Trees /\ TypeOK
    BY <1>1 DEF MayPause, LoopInv, TypeOK
  <1>3. /\ Paused(r, s, tree) \in Run /\ Paused(r, s, tree).state \notin EvidenceGated
        /\ Paused(r, s, tree).cycle = run[r].cycle
        /\ Paused(r, s, tree).verdicts = run[r].verdicts
    BY <1>1, <1>2, PausedRecord
  <1> QED
    BY <1>1, <1>2, <1>3, MovingPreserves DEF Publish

LEMMA DeriveSafetyStopPreserves ==
  ASSUME LoopInv, NEW r \in RunIds, DeriveSafetyStop(r)
  PROVE  LoopInv'
  BY StoppedRecord, MovingPreserves DEF DeriveSafetyStop, MayStop, LoopInv

LEMMA ResumeRunPreserves ==
  ASSUME LoopInv, NEW r \in RunIds, ResumeRun(r)
  PROVE  LoopInv'
  BY ResumedRecord, MovingPreserves DEF ResumeRun, Publish, MayResume, LoopInv, TypeOK

\* The tests and the diff it compares are those of the tree it binds.
LEMMA PrepareForReviewPreserves ==
  ASSUME LoopInv, NEW r \in RunIds, PrepareForReview(r)
  PROVE  LoopInv'
  <1>1. PICK i \in Inputs : MayPrepare(r, tree, i) /\ Publish(r, Prepared(r, tree))
    BY DEF PrepareForReview
  <1>2. Exists(r) /\ tree \in Trees /\ "READY_FOR_REVIEW" \in RunStates
    BY <1>1 DEF LoopInv, TypeOK, MayPrepare, RunStates, ResumeTargets
  <1>4. /\ Prepared(r, tree) \in Run /\ Prepared(r, tree).cycle = run[r].cycle
        /\ Prepared(r, tree).state = "READY_FOR_REVIEW"
        /\ Prepared(r, tree).verdicts = run[r].verdicts /\ Prepared(r, tree).bound = tree
    BY <1>2, MovedRecord DEF LoopInv, Prepared
  <1>5. run'[r] = Prepared(r, tree) /\ evidence' = evidence
    BY <1>1 DEF Publish, LoopInv, TypeOK
  <1>6. /\ BoundTo(r, "test", "PASS", tree, i) \in evidence
        /\ BoundTo(r, "diff", "BOUND", tree, i) \in evidence
    BY <1>1 DEF MayPrepare, HasLive
  <1>7. GatePassed(r)'
    BY <1>4, <1>5, <1>6 DEF GatePassed, TestedTree, Stored, BoundTo
  <1> QED
    BY <1>1, <1>2, <1>4, <1>7, MovingPreserves DEF Publish

\* The gate before held for the tree the run was bound to, which is the live one.
LEMMA StartReviewPreserves ==
  ASSUME LoopInv, NEW r \in RunIds, StartReview(r)
  PROVE  LoopInv'
  <1>1. PICK i \in Inputs : MayReview(r, tree, i) /\ Publish(r, InReview(r, tree))
    BY DEF StartReview
  <1>2. Exists(r) /\ tree \in Trees /\ "REVIEWING" \in RunStates /\ run[r].bound = tree
    BY <1>1 DEF LoopInv, TypeOK, MayReview, RunStates, ResumeTargets
  <1>4. /\ InReview(r, tree) \in Run /\ InReview(r, tree).cycle = run[r].cycle
        /\ InReview(r, tree).state = "REVIEWING"
        /\ InReview(r, tree).verdicts = run[r].verdicts
        /\ InReview(r, tree).bound = run[r].bound
    BY <1>2, MovedRecord DEF LoopInv, InReview
  <1>5. run'[r] = InReview(r, tree) /\ evidence' = evidence
    BY <1>1 DEF Publish, LoopInv, TypeOK
  <1>6. GatePassed(r)
    BY <1>1, <1>2 DEF LoopInv, GatesHold, MayReview, EvidenceGated
  <1>7. BoundTo(r, "request", "BOUND", run[r].bound, i) \in evidence
    BY <1>1 DEF MayReview, HasLive
  <1>8. GatePassed(r)'
    BY <1>4, <1>5, <1>6, <1>7 DEF GatePassed, TestedTree, Stored, BoundTo
  <1> QED
    BY <1>1, <1>2, <1>4, <1>8, MovingPreserves DEF Publish

\* What a history says depends on the new record and the evidence alone.
LEMMA HistoryRead ==
  ASSUME NEW r \in RunIds, NEW cycle \in Nat, NEW verdicts \in SUBSET (Nat \X Verdicts),
         run'[r].cycle = cycle, run'[r].verdicts = verdicts, evidence' = evidence,
         \A c \in 1 .. cycle - 1 : <<c, "FAIL">> \in verdicts,
         \A w \in verdicts : /\ w[1] <= cycle
                             /\ w[2] = "FAIL" => w[1] < cycle
                             /\ \E e \in Stored(r, "result", w[1]) : e.says = w[2]
  PROVE  HistoryIsRecorded(r)'
  BY DEF HistoryIsRecorded, Stored

\* The verdict that enters the history is the one of the stored result; a FAIL
\* completes the cycle that it leaves.
LEMMA JudgeReviewPreserves ==
  ASSUME LoopInv, NEW r \in RunIds, JudgeReview(r)
  PROVE  LoopInv'
  <1>1. PICK v \in Verdicts, i \in Inputs : MayJudge(r, v, tree, i) /\ Publish(r, Judged(r, v))
    BY DEF JudgeReview
  <1> DEFINE x == run[r]
             state == IF v = "PASS" THEN "REVIEWING" ELSE "REPAIR_INITIALIZED"
             cycle == IF v = "PASS" THEN x.cycle ELSE x.cycle + 1
             verdicts == x.verdicts \cup {<<x.cycle, v>>}
  <1>2. Exists(r) /\ x \in Run
    BY <1>1, ExistingIsRun DEF MayJudge, LoopInv
  <1>5. Judged(r, v) \in Run /\ cycle \in Nat /\ verdicts \in SUBSET (Nat \X Verdicts)
    BY <1>2, JudgedRecord DEF LoopInv, Run
  <1>6. /\ Judged(r, v).state = state /\ Judged(r, v).cycle = cycle
        /\ Judged(r, v).verdicts = verdicts /\ Judged(r, v).bound = x.bound
    BY <1>2, JudgedRecord DEF LoopInv
  <1>7. /\ run' = [run EXCEPT ![r] = Judged(r, v)] /\ run'[r] = Judged(r, v)
        /\ UNCHANGED <<world, evidence>> /\ evidence' = evidence
    BY <1>1 DEF Publish, LoopInv, TypeOK
  <1>8. \A e \in evidence : e.run = r => e.cycle <= cycle
    <2>1. \A e \in evidence : e.run = r => e.cycle <= x.cycle /\ e.cycle \in Nat
      BY DEF LoopInv, EvidenceIsOfRun, TypeOK, Artifact
    <2> QED
      BY <1>2, <2>1 DEF Run
  <1>9. ASSUME state \in EvidenceGated PROVE GatePassed(r)'
    <2>1. v = "PASS" /\ cycle = x.cycle
      BY <1>9 DEF EvidenceGated
    <2>2. GatePassed(r) /\ x.state = "REVIEWING"
      BY <1>1, <1>2 DEF LoopInv, GatesHold, MayJudge, EvidenceGated
    <2> QED
      BY <1>6, <1>7, <2>1, <2>2 DEF GatePassed, TestedTree, Stored
  <1>10. HistoryIsRecorded(r)'
    <2>1. HistoryIsRecorded(r)
      BY <1>2 DEF LoopInv, HistoriesAreRecorded
    <2>2. BoundTo(r, "result", v, tree, i) \in Stored(r, "result", x.cycle)
      BY <1>1 DEF MayJudge, HasLive, Stored, BoundTo
    <2>3. ASSUME NEW c \in 1 .. cycle - 1 PROVE <<c, "FAIL">> \in verdicts
      <3>1. x.cycle \in Nat
        BY <1>2 DEF Run
      <3>2. CASE c \in 1 .. x.cycle - 1
        BY <2>1, <3>2 DEF HistoryIsRecorded
      <3>3. CASE c \notin 1 .. x.cycle - 1
        <4>1. v # "PASS" /\ c = x.cycle
          BY <3>1, <3>3
        <4> QED
          BY <4>1 DEF Verdicts
      <3> QED
        BY <3>2, <3>3
    <2>4. ASSUME NEW w \in verdicts
          PROVE  /\ w[1] <= cycle
                 /\ w[2] = "FAIL" => w[1] < cycle
                 /\ \E e \in Stored(r, "result", w[1]) : e.says = w[2]
      <3>1. CASE w \in x.verdicts
        <4>1. w[1] \in Nat
          BY <1>2, <3>1 DEF Run
        <4> QED
          BY <1>2, <2>1, <3>1, <4>1 DEF HistoryIsRecorded, Run
      <3>2. CASE w = <<x.cycle, v>>
        <4>1. w[1] = x.cycle /\ w[2] = v /\ x.cycle \in Nat
          BY <1>2, <3>2 DEF Run
        <4>2. BoundTo(r, "result", v, tree, i).says = v
          BY DEF BoundTo
        <4> QED
          BY <2>2, <4>1, <4>2
      <3> QED
        BY <3>1, <3>2
    <2>5. run'[r].cycle = cycle /\ run'[r].verdicts = verdicts /\ evidence' = evidence
      BY <1>6, <1>7
    <2> HIDE DEF x, state, cycle, verdicts
    <2> QED
      BY <1>5, <2>3, <2>4, <2>5, HistoryRead
  <1>11. Judged(r, v).state \in EvidenceGated => GatePassed(r)'
    BY <1>6, <1>9
  <1>12. \A e \in evidence : e.run = r => e.cycle <= Judged(r, v).cycle
    BY <1>6, <1>8
  <1> QED
    BY <1>5, <1>7, <1>10, <1>11, <1>12, WritingPreserves

\* A result is of the tree under review: it answers the one request of the
\* cycle, and that names the tree the run is bound to.
LEMMA RecordEvidencePreserves ==
  ASSUME LoopInv, NEW r \in RunIds, RecordEvidence(r)
  PROVE  LoopInv'
  <1>1. PICK kind \in Kinds, t \in Trees, i \in Inputs :
          \E says \in Says(kind) :
             /\ Exists(r)
             /\ MayRecord(BoundTo(r, kind, says, t, i))
             /\ evidence' = evidence \cup {BoundTo(r, kind, says, t, i)}
             /\ UNCHANGED <<world, run>>
    BY DEF RecordEvidence
  <1>2. PICK says \in Says(kind) :
             /\ Exists(r)
             /\ MayRecord(BoundTo(r, kind, says, t, i))
             /\ evidence' = evidence \cup {BoundTo(r, kind, says, t, i)}
             /\ UNCHANGED <<world, run>>
    BY <1>1
  <1> DEFINE new == BoundTo(r, kind, says, t, i)
  <1>3. run[r] \in Run /\ run' = run
    BY <1>2, ExistingIsRun DEF LoopInv
  <1>4. /\ new.run = r /\ new.kind = kind /\ new.cycle = run[r].cycle
        /\ new.says = says /\ new.tree = t /\ new.inputs = i
    BY DEF BoundTo
  <1>5. new \in Artifact
    <2>1. says \in Verdicts \cup {"BOUND"}
      BY DEF Says
    <2> QED
      BY <1>3, <2>1 DEF BoundTo, Artifact, Run
  <1>6. \A e \in evidence' : e \in evidence \/ e = new
    BY <1>2
  <1>7. TypeOK'
    BY <1>2, <1>3, <1>5 DEF LoopInv, TypeOK, world
  <1>8. OneArtifactPerSlot'
    <2>1. \A e \in evidence : ~(e.run = r /\ e.kind = kind /\ e.cycle = run[r].cycle)
      BY <1>2, <1>4 DEF MayRecord, Stored
    <2> QED
      BY <1>4, <1>6, <2>1 DEF LoopInv, OneArtifactPerSlot
  <1>9. EvidenceIsOfRun'
    <2>1. new.cycle <= run[r].cycle
      BY <1>3, <1>4 DEF Run
    <2> QED
      BY <1>2, <1>3, <1>4, <1>6, <2>1 DEF LoopInv, EvidenceIsOfRun, Exists
  <1>10. GatesHold'
    BY <1>2, <1>3 DEF LoopInv, GatesHold, GatePassed, TestedTree, Stored, Exists
  <1>11. ResultsWereTested'
    <2>1. ASSUME kind = "result"
          PROVE  \E f \in evidence : /\ f.kind = "test" /\ f.says = "PASS"
                                    /\ f.run = r /\ f.cycle = run[r].cycle /\ f.tree = t
      <3>1. run[r].state = "REVIEWING" /\ Answers(new)
        BY <1>2, <1>4, <2>1 DEF MayRecord, RecordedIn
      <3>2. PICK q \in evidence : /\ q.run = r /\ q.kind = "request"
                                  /\ q.cycle = run[r].cycle /\ q.tree = t
        BY <1>4, <3>1 DEF Answers, Stored
      <3>3. GatePassed(r)
        BY <1>2, <3>1 DEF LoopInv, GatesHold, EvidenceGated
      <3>4. PICK g \in evidence : /\ g.run = r /\ g.kind = "request"
                                  /\ g.cycle = run[r].cycle /\ g.tree = run[r].bound
        BY <3>1, <3>3 DEF GatePassed, TestedTree, Stored
      <3>5. t = run[r].bound
        BY <3>2, <3>4 DEF LoopInv, OneArtifactPerSlot
      <3> QED
        BY <3>3, <3>5 DEF GatePassed, TestedTree, Stored
    <2>2. ASSUME NEW e \in evidence', e.kind = "result"
          PROVE  \E f \in evidence' : /\ f.kind = "test" /\ f.says = "PASS"
                                     /\ f.run = e.run /\ f.cycle = e.cycle /\ f.tree = e.tree
      <3>1. CASE e \in evidence
        BY <1>2, <2>2, <3>1 DEF LoopInv, ResultsWereTested
      <3>2. CASE e = new
        BY <1>2, <1>4, <2>1, <2>2, <3>2
      <3> QED
        BY <1>6, <3>1, <3>2
    <2> QED
      BY <2>2 DEF ResultsWereTested
  <1>12. HistoriesAreRecorded'
    BY <1>2, <1>3 DEF LoopInv, HistoriesAreRecorded, HistoryIsRecorded, Stored, Exists
  <1> QED
    BY <1>7, <1>8, <1>9, <1>10, <1>11, <1>12 DEF LoopInv

\* What the invariant says of runs and evidence does not depend on the world.
LEMMA EnvironmentPreserves ==
  ASSUME LoopInv, git' \in GitStates, tree' \in Trees, inputs' \in Inputs,
         UNCHANGED <<run, evidence>>
  PROVE  LoopInv'
  BY DEF LoopInv, TypeOK, OneArtifactPerSlot, EvidenceIsOfRun, GatesHold, GatePassed,
         ResultsWereTested, HistoriesAreRecorded, HistoryIsRecorded, TestedTree, Stored, Exists

-----------------------------------------------------------------------------
(* Bindings                                                                  *)

\* A run is bound to a commit of an open task.
BoundToOpenTask == \A r \in RunIds : Exists(r) => Closures[run[r].at.head] = "none"

\* What it was bound to never changes.
LEMMA BindingIsKept ==
  ASSUME LoopInv, [LoopNext]_loopVars, NEW r \in RunIds, run'[r] # run[r]
  PROVE  \/ \E s \in Scopes : MayBind(git, tree, s) /\ run'[r] = NewRun(tree, Binding(git, s))
         \/ Exists(r) /\ run'[r].at = run[r].at
  <1>1. \A q \in RunIds : Exists(q) => run[q] \in Run
    BY ExistingIsRun DEF LoopInv
  <1>2. \A q \in RunIds : \A next : run' = [run EXCEPT ![q] = next] => q = r /\ run'[r] = next
    BY DEF LoopInv, TypeOK
  <1>3. \A s : Exists(r) => Moved(r, s, tree).at = run[r].at
    BY <1>1 DEF Moved, Run
  <1>4. \A s : Exists(r) => Paused(r, s, tree).at = run[r].at
    BY <1>1 DEF Paused, Moved, Run
  <1>5. \A v : Exists(r) => Stopped(r, v).at = run[r].at
    BY <1>1 DEF Stopped, Run
  <1>6. Exists(r) => Resumed(r, tree).at = run[r].at
    BY <1>1 DEF Resumed, Moved, Run
  <1>7. \A v : Exists(r) => Judged(r, v).at = run[r].at
    BY <1>1 DEF Judged, Run
  <1>8. CASE \E q \in RunIds : InitializeRun(q)
    BY <1>2, <1>8 DEF InitializeRun
  <1>9. CASE \E q \in RunIds : StepRun(q)
    BY <1>2, <1>3, <1>9 DEF StepRun, MayStep, Publish
  <1>10. CASE \E q \in RunIds : PauseRun(q)
    BY <1>2, <1>4, <1>10 DEF PauseRun, MayPause, Publish
  <1>11. CASE \E q \in RunIds : DeriveSafetyStop(q)
    BY <1>2, <1>5, <1>11 DEF DeriveSafetyStop, MayStop
  <1>12. CASE \E q \in RunIds : ResumeRun(q)
    BY <1>2, <1>6, <1>12 DEF ResumeRun, MayResume, Publish
  <1>13. CASE \E q \in RunIds : PrepareForReview(q)
    BY <1>2, <1>3, <1>13 DEF PrepareForReview, MayPrepare, Prepared, Publish
  <1>14. CASE \E q \in RunIds : StartReview(q)
    BY <1>2, <1>3, <1>14 DEF StartReview, MayReview, InReview, Publish
  <1>15. CASE \E q \in RunIds : JudgeReview(q)
    BY <1>2, <1>7, <1>15 DEF JudgeReview, MayJudge, Publish
  <1>16. CASE run' = run
    BY <1>16
  <1> QED
    BY <1>8, <1>9, <1>10, <1>11, <1>12, <1>13, <1>14, <1>15, <1>16
    DEF LoopNext, loopVars, Environment, RecordEvidence

LEMMA BindingStaysOpen ==
  ASSUME LoopInv, LoopInv', BoundToOpenTask, [LoopNext]_loopVars
  PROVE  BoundToOpenTask'
  <1> SUFFICES ASSUME NEW r \in RunIds, Exists(r)'
               PROVE  Closures[run'[r].at.head] = "none"
    BY DEF BoundToOpenTask
  <1>1. CASE run'[r] = run[r]
    BY <1>1 DEF BoundToOpenTask, Exists
  <1>2. CASE \E s \in Scopes : MayBind(git, tree, s) /\ run'[r] = NewRun(tree, Binding(git, s))
    BY <1>2 DEF MayBind, NewRun, Binding
  <1>3. CASE Exists(r) /\ run'[r].at = run[r].at
    BY <1>3 DEF BoundToOpenTask
  <1> QED
    BY <1>1, <1>2, <1>3, BindingIsKept

LEMMA OpenTasksAgree ==
  ASSUME LoopInv, BoundToOpenTask
  PROVE  AuthoritiesAgree
  <1>1. /\ tree \in Trees /\ git.head \in Commits
        /\ git.upstream = [ref |-> git.upstream.ref, commit |-> git.upstream.commit]
    BY GitAssumption DEF LoopInv, TypeOK
  <1>2. ASSUME NEW s \in Scopes
        PROVE  MayBind(git, tree, s) <=>
                 /\ Authorised(git, tree, Nothing)
                 /\ Closures[git.head] = "none"
                 /\ Divergence(git) # "missing"
                 /\ NotBroadened(s, CommittedPacket(git.head).scope)
                 /\ OwnsDirtyTree(tree, s)
    BY <1>1, BindingIsEvaluation
  <1>3. ASSUME NEW r \in RunIds, Exists(r)
        PROVE  LockedAuthority(git, tree, run[r].at) <=>
                 RunAuthorised(r) /\ Divergence(git) # "missing"
    <2>1. run[r].at \in Bindings
      BY <1>3, ExistingIsRun DEF LoopInv, Run
    <2>2. PICK g \in GitStates, s \in Scopes : run[r].at = Binding(g, s)
      BY <2>1 DEF Bindings
    <2>3. run[r].at # Nothing
      BY <2>1, RecordAssumption
    <2>4. run[r].at.upstream =
            [ref |-> run[r].at.upstream.ref, commit |-> run[r].at.upstream.commit]
      BY <2>2, GitAssumption DEF Binding
    <2>5. Closures[run[r].at.head] = "none"
      BY <1>3 DEF BoundToOpenTask
    <2> QED
      BY <1>1, <2>3, <2>4, <2>5, LockedIsEvaluation DEF RunAuthorised
  <1> QED
    BY <1>2, <1>3 DEF AuthoritiesAgree

-----------------------------------------------------------------------------
(* The invariant of the specification, and what follows from it              *)

LEMMA StutterPreserves ==
  ASSUME LoopInv, UNCHANGED loopVars
  PROVE  LoopInv'
  <1>1. git' = git /\ tree' = tree /\ inputs' = inputs /\ UNCHANGED <<run, evidence>>
    BY DEF loopVars
  <1> QED
    BY <1>1, EnvironmentPreserves DEF LoopInv, TypeOK

LEMMA StepPreserves ==
  ASSUME LoopInv, [LoopNext]_loopVars
  PROVE  LoopInv'
  <1>1. CASE Environment
    BY <1>1, EnvironmentPreserves DEF Environment
  <1>2. ASSUME NEW r \in RunIds, InitializeRun(r) PROVE LoopInv'
    BY <1>2, InitializeRunPreserves
  <1>3. ASSUME NEW r \in RunIds, StepRun(r) PROVE LoopInv'
    BY <1>3, StepRunPreserves
  <1>4. ASSUME NEW r \in RunIds, PauseRun(r) PROVE LoopInv'
    BY <1>4, PauseRunPreserves
  <1>5. ASSUME NEW r \in RunIds, DeriveSafetyStop(r) PROVE LoopInv'
    BY <1>5, DeriveSafetyStopPreserves
  <1>6. ASSUME NEW r \in RunIds, ResumeRun(r) PROVE LoopInv'
    BY <1>6, ResumeRunPreserves
  <1>7. ASSUME NEW r \in RunIds, PrepareForReview(r) PROVE LoopInv'
    BY <1>7, PrepareForReviewPreserves
  <1>8. ASSUME NEW r \in RunIds, StartReview(r) PROVE LoopInv'
    BY <1>8, StartReviewPreserves
  <1>9. ASSUME NEW r \in RunIds, JudgeReview(r) PROVE LoopInv'
    BY <1>9, JudgeReviewPreserves
  <1>10. ASSUME NEW r \in RunIds, RecordEvidence(r) PROVE LoopInv'
    BY <1>10, RecordEvidencePreserves
  <1>11. CASE UNCHANGED loopVars
    BY <1>11, StutterPreserves
  <1> QED
    BY <1>1, <1>2, <1>3, <1>4, <1>5, <1>6, <1>7, <1>8, <1>9, <1>10, <1>11 DEF LoopNext

LEMMA LoopInvariant == LoopSpec => []LoopInv
  <1>1. LoopInit => LoopInv
    BY InitInv
  <1>2. LoopInv /\ [LoopNext]_loopVars => LoopInv'
    BY StepPreserves
  <1> QED
    BY <1>1, <1>2, PTL DEF LoopSpec

\* The record of a run, its bindings and the evidence keep their shape.
THEOREM LoopTypes == LoopSpec => []TypeOK
  <1>1. LoopInv => TypeOK
    BY DEF LoopInv
  <1> QED
    BY <1>1, LoopInvariant, PTL

\* No run reaches a review, and no PASS can be used, for a tree that was not
\* tested in that cycle.
THEOREM ReviewsAreOfTestedTrees == LoopSpec => []ReviewedWasTested
  <1>1. LoopInv => ReviewedWasTested
    BY LoopInvImpliesReviewed
  <1> QED
    BY <1>1, LoopInvariant, PTL

\* Evidence is written once, and the history of a run is what it says.
THEOREM HistoryFollowsEvidence == LoopSpec => []VerdictsAreFinal
  <1>1. LoopInv => VerdictsAreFinal
    BY LoopInvImpliesFinal
  <1> QED
    BY <1>1, LoopInvariant, PTL

\* All who judge the repository judge alike, but for a closure, an upstream that
\* cannot be compared and the scope a new run is given.
THEOREM JudgementsAgree == LoopSpec => []AuthoritiesAgree
  <1>1. LoopInit => BoundToOpenTask
    BY DEF LoopInit, BoundToOpenTask, Exists
  <1>2. LoopInv /\ LoopInv' /\ BoundToOpenTask /\ [LoopNext]_loopVars => BoundToOpenTask'
    BY BindingStaysOpen
  <1>3. LoopInv /\ BoundToOpenTask => AuthoritiesAgree
    BY OpenTasksAgree
  <1> QED
    BY <1>1, <1>2, <1>3, LoopInvariant, PTL DEF LoopSpec

=============================================================================
