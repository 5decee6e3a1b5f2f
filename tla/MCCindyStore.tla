---- MODULE MCCindyStore ----
EXTENDS CindyStore, TLC

CONSTANTS t0, t1, tx

\* 1 is the base and 2 commits the task packet.  3 rewrites it and carries a
\* closure that cannot be read; 4, beside 2, has a packet that cannot be read.
MCAncestors == [c \in Commits |-> IF c = 4 THEN {1, 4} ELSE 1 .. c]

MCPacketEdits ==
  [c \in {2, 3, 4} |-> [kind |-> IF c = 4 THEN "malformed" ELSE "valid",
                        branch |-> "task", base |-> 1, scope |-> "task"]]

MCClosures == [c \in Commits |-> IF c = 3 THEN "invalid" ELSE "none"]

\* The packet explains the edits of two trees.  A caller may ask for a scope
\* that explains none of them, or more than the packet.
MCUnexplained == [s \in Scopes |-> CASE s = "task" -> {tx}
                                     [] s = "none" -> Trees
                                     [] s = "more" -> {}]

Upstream(c) == [ref |-> "origin/task", commit |-> c]

Checkout(head, upstream, counted) ==
  [branch |-> "task", head |-> head, upstream |-> upstream, counted |-> counted]

MCGitStates ==
  { Checkout(2, Upstream(2), TRUE),     \* in order
    Checkout(2, Upstream(2), FALSE),    \* rev-list fails
    Checkout(2, Upstream(1), TRUE),     \* ahead
    Checkout(2, Upstream(3), TRUE),     \* behind
    Checkout(2, Upstream(4), TRUE),     \* diverged
    Checkout(3, Upstream(3), TRUE),     \* the closure is invalid
    Checkout(4, Upstream(4), TRUE),     \* the packet is malformed
    [Checkout(2, NoUpstream, TRUE) EXCEPT !.branch = Nothing] }

\* The checkout begins in order and the packet explains the tree.  Once a
\* process has died, with a lock that stays, the world stands still.
MCSpec ==
  /\ Init /\ git = Checkout(2, Upstream(2), TRUE) /\ tree # tx
  /\ [][Next /\ (moves' # moves => crashes = 0)]_storeVars

Symmetries == Permutations(Procs) \cup Permutations(RunIds) \cup Permutations({t0, t1})
                \cup Permutations(Inputs)
====
