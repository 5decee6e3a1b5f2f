--------------------------- MODULE CindyAuthority ---------------------------
(* What the task orchestrator (tools/cindy) reads from Git before it lets a  *)
(* run move: the branch, HEAD and its upstream, the task packet and the      *)
(* closure committed at HEAD, and who owns the dirty files of the working    *)
(* tree.  Three routines judge these facts.  evaluateGitAuthority is shared  *)
(* by resume, reconcile, the writers of evidence and the fence before a      *)
(* write, and names what is wrong; the creation of a run and the transition  *)
(* under the run lock have checks of their own.                              *)
EXTENDS Naturals, Sequences, FiniteSets

CONSTANTS
    Commits,        \* commits of the repository
    Ancestors,      \* Ancestors[c]: the commits reachable from c, c included
    PacketEdits,    \* PacketEdits[c]: the task packet a commit writes, for the
                    \* commits that touch task.json
    Closures,       \* Closures[c]: "none", "closed" or "invalid" at c
    Trees,          \* contents of the working tree
    Scopes,         \* allowed scopes: of the task packet, or of a run
    Unexplained,    \* Unexplained[s]: the trees with a dirty file outside s
    Nothing         \* the value of what is not there

ASSUME HistoryAssumption ==
    /\ \A c \in Commits : c \in Ancestors[c] /\ Ancestors[c] \subseteq Commits
    /\ DOMAIN PacketEdits \subseteq Commits
    /\ \A c \in DOMAIN PacketEdits :
          PacketEdits[c].kind \in {"valid", "malformed"}
    /\ Closures \in [Commits -> {"none", "closed", "invalid"}]
    /\ Unexplained \in [Scopes -> SUBSET Trees]
    /\ Nothing \notin Commits \cup Trees

NoUpstream == [ref |-> Nothing, commit |-> Nothing]

-----------------------------------------------------------------------------
(* Git: history and upstream                                                 *)

\* The last commit reachable from c that wrote the packet (git log -1 -- path).
PacketCommits(c) == {a \in Ancestors[c] : a \in DOMAIN PacketEdits}

ASSUME PacketAssumption ==
    \* The edits of the packet are in line: one is the last.
    \A c \in Commits : PacketCommits(c) # {} =>
        \E a \in PacketCommits(c) : \A b \in PacketCommits(c) : b \in Ancestors[a]

TaskAuthorityCommit(c) ==
    LET edits == PacketCommits(c)
    IN  CHOOSE a \in edits : \A b \in edits : b \in Ancestors[a]

\* The packet at c: missing, or what its authority commit wrote.
CommittedPacket(c) ==
    IF PacketCommits(c) = {}
      THEN [kind |-> "missing", branch |-> Nothing, base |-> Nothing, scope |-> Nothing]
      ELSE PacketEdits[TaskAuthorityCommit(c)]

IsAncestor(a, c) == c \in Commits /\ a \in Ancestors[c]

\* git rev-list --left-right HEAD...@{upstream}, as a relation of two commits.
\* When rev-list fails, or counts nothing, the upstream is there and yet what
\* lies between is "missing".
Divergence(g) ==
    LET ahead  == ~IsAncestor(g.head, g.upstream.commit)
        behind == ~IsAncestor(g.upstream.commit, g.head)
    IN  IF g.upstream = NoUpstream \/ ~g.counted THEN "missing"
        ELSE CASE ahead /\ behind   -> "diverged"
               [] ahead /\ ~behind  -> "ahead"
               [] behind /\ ~ahead  -> "behind"
               [] ~ahead /\ ~behind -> "equal"

\* Every dirty file is inside the allowed scope s.
OwnsDirtyTree(t, s) == t \notin Unexplained[s]

\* A scope that explains no more than the one of the packet.
NotBroadened(s, of) == Unexplained[of] \subseteq Unexplained[s]

-----------------------------------------------------------------------------
(* evaluateGitAuthority: the checks in their order; the first that fails     *)
(* gives the pause state and the reason.                                     *)

Check(fails, stop, reason) == [fails |-> fails, stop |-> stop, reason |-> reason]

GitStop(fails, reason) == Check(fails, "GIT_SAFETY_STOP", reason)

Clear == Check(FALSE, Nothing, "NONE")

\* What HEAD commits to: it is on a branch, the closure can be read, the task
\* packet is there and well formed.
CommittedChecks(g) ==
    LET packet == CommittedPacket(g.head)
    IN  << GitStop(g.branch = Nothing, "BRANCH_MISMATCH"),
           Check(Closures[g.head] = "invalid", "CONTRACT_CONFLICT", "INVALID_COMMITTED_CLOSURE"),
           Check(packet.kind = "missing", "CONTRACT_CONFLICT", "TASK_PACKET_NOT_COMMITTED"),
           Check(packet.kind = "malformed", "CONTRACT_CONFLICT", "CONTRACT_CONFLICT") >>

\* The packet against the repository: its base is behind its own commit, its
\* branch is the one checked out and the one of the run, and has an upstream.
PacketChecks(g, bound) ==
    LET packet == CommittedPacket(g.head)
    IN  << GitStop(~IsAncestor(packet.base, TaskAuthorityCommit(g.head)), "BASELINE_DRIFT"),
           GitStop(g.branch # packet.branch, "BRANCH_MISMATCH"),
           GitStop(bound # Nothing /\ g.branch # bound.branch, "BRANCH_MISMATCH"),
           GitStop(g.upstream = NoUpstream, "UPSTREAM_MISSING") >>

\* The repository against what the run was bound to when it was created.
BindingChecks(g, bound) ==
    LET authority == TaskAuthorityCommit(g.head)
    IN  << GitStop(bound.head # authority, "TASK_PACKET_DRIFT"),
           GitStop(g.head # bound.head, "HEAD_DRIFT"),
           GitStop(bound.base # CommittedPacket(g.head).base, "BASELINE_MISMATCH"),
           GitStop(g.upstream.commit # bound.upstream.commit, "UPSTREAM_DRIFT"),
           GitStop(g.upstream.ref # bound.upstream.ref, "UPSTREAM_DRIFT") >>

\* What cannot be counted is none of the three, and passes.
DivergenceChecks(g) ==
  << GitStop(Divergence(g) = "ahead", "UPSTREAM_AHEAD"),
     GitStop(Divergence(g) = "behind", "UPSTREAM_BEHIND"),
     GitStop(Divergence(g) = "diverged", "UPSTREAM_DIVERGED") >>

\* Without a run HEAD itself has to be the commit of the packet.
UnboundChecks(g) ==
  << GitStop(g.head # TaskAuthorityCommit(g.head), "BASELINE_DRIFT") >>

OwnershipChecks(t, s) ==
  << Check(~OwnsDirtyTree(t, s), "DIRTY_TREE_UNEXPLAINED", "DIRTY_TREE_UNEXPLAINED") >>

\* The scope of the run, or of the packet when there is none.
ScopeFor(g, bound) ==
    IF bound = Nothing THEN CommittedPacket(g.head).scope ELSE bound.scope

FirstFailing(checks) ==
    LET failing == {i \in DOMAIN checks : checks[i].fails}
    IN  IF failing = {} THEN Clear
        ELSE checks[CHOOSE i \in failing : \A j \in failing : i <= j]

\* bound is the run's record of Git, Nothing when there is no run.  A detached
\* HEAD, a lost packet or an unreadable closure ends the evaluation at once.
Evaluate(g, t, bound) ==
    LET committed == FirstFailing(CommittedChecks(g))
    IN  IF committed.fails THEN committed
        ELSE FirstFailing(PacketChecks(g, bound)
                          \o (IF bound = Nothing
                                THEN DivergenceChecks(g) \o UnboundChecks(g)
                                ELSE BindingChecks(g, bound) \o DivergenceChecks(g))
                          \o OwnershipChecks(t, ScopeFor(g, bound)))

Authorised(g, t, bound) == ~Evaluate(g, t, bound).fails

\* The checks a transition makes inline under the run lock, before it reads
\* evidence.  It does not look at the committed closure.
LockedAuthority(g, t, bound) ==
    LET packet    == CommittedPacket(g.head)
        authority == TaskAuthorityCommit(g.head)
    IN  /\ packet.kind = "valid"
        /\ g.head = bound.head
        /\ g.head = authority
        /\ bound.base = packet.base
        /\ IsAncestor(packet.base, authority)
        /\ g.branch # Nothing
        /\ g.branch = packet.branch
        /\ g.branch = bound.branch
        /\ g.upstream # NoUpstream
        /\ g.upstream = bound.upstream
        /\ Divergence(g) = "equal"
        /\ OwnsDirtyTree(t, bound.scope)

\* Mutant: an upstream that cannot be compared is taken for an equal one.
MayBindUncounted(g, t, s) ==
    LET packet == CommittedPacket(g.head)
    IN  /\ Closures[g.head] = "none"
        /\ packet.kind = "valid"
        /\ g.branch # Nothing
        /\ g.upstream # NoUpstream
        /\ Divergence(g) \notin {"ahead", "behind", "diverged"}
        /\ g.branch = packet.branch
        /\ IsAncestor(packet.base, TaskAuthorityCommit(g.head))
        /\ g.head = TaskAuthorityCommit(g.head)
        /\ NotBroadened(s, packet.scope)
        /\ OwnsDirtyTree(t, s)

\* The checks of initializeRunSafely, which binds the new run to what it reads
\* and to the scope s: the packet's, or the narrower one its caller asks for.
MayBind(g, t, s) ==
    LET packet == CommittedPacket(g.head)
    IN  /\ Closures[g.head] = "none"
        /\ packet.kind = "valid"
        /\ g.branch # Nothing
        /\ Divergence(g) = "equal"
        /\ g.branch = packet.branch
        /\ IsAncestor(packet.base, TaskAuthorityCommit(g.head))
        /\ g.head = TaskAuthorityCommit(g.head)
        /\ NotBroadened(s, packet.scope)
        /\ OwnsDirtyTree(t, s)

Binding(g, s) == [branch |-> g.branch, head |-> g.head, upstream |-> g.upstream,
                  base |-> CommittedPacket(g.head).base, scope |-> s]

-----------------------------------------------------------------------------
(* The states of a run                                                       *)

ManualPauses == {"BLOCKED", "PRODUCT_DECISION_REQUIRED", "CONTRACT_CONFLICT",
                 "MIGRATION_OR_SECURITY_AMBIGUITY"}

SafetyStops == {"DIRTY_TREE_UNEXPLAINED", "GIT_SAFETY_STOP"}

\* What an evaluation can name as the reason of a stop.
Reasons == {"BRANCH_MISMATCH", "INVALID_COMMITTED_CLOSURE", "TASK_PACKET_NOT_COMMITTED",
            "CONTRACT_CONFLICT", "BASELINE_DRIFT", "BASELINE_MISMATCH", "HEAD_DRIFT",
            "TASK_PACKET_DRIFT", "UPSTREAM_MISSING", "UPSTREAM_DRIFT", "UPSTREAM_AHEAD",
            "UPSTREAM_BEHIND", "UPSTREAM_DIVERGED", "DIRTY_TREE_UNEXPLAINED"}

PauseStates == ManualPauses \cup SafetyStops

ResumeTargets == {"TASK_INITIALIZED", "READY_FOR_BUILDER", "BUILDING",
                  "BUILDER_COMPLETE", "TESTING", "READY_FOR_REVIEW", "REVIEWING",
                  "REPAIR_INITIALIZED", "REPAIR_BUILDING"}

\* The sealed states (FINAL_GATE and after) have no executable edge.
RunStates == PauseStates \cup ResumeTargets

EvidenceGated == {"READY_FOR_REVIEW", "REVIEWING"}

BaseTransitions ==
  { <<"TASK_INITIALIZED", "READY_FOR_BUILDER">>, <<"READY_FOR_BUILDER", "BUILDING">>,
    <<"BUILDING", "BUILDER_COMPLETE">>, <<"BUILDING", "TESTING">>,
    <<"BUILDER_COMPLETE", "TESTING">>, <<"TESTING", "READY_FOR_REVIEW">>,
    <<"READY_FOR_REVIEW", "REVIEWING">>, <<"REVIEWING", "REPAIR_INITIALIZED">>,
    <<"REPAIR_INITIALIZED", "REPAIR_BUILDING">>, <<"REPAIR_BUILDING", "TESTING">> }

CanTransition(from, to) ==
    /\ from \notin PauseStates
    /\ to \in PauseStates \/ <<from, to>> \in BaseTransitions

\* validateTransition without the evidence of a dedicated operation.
ValidTransition(from, to) ==
    CanTransition(from, to) /\ to \notin EvidenceGated
=============================================================================
