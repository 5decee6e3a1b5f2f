---------------------------- MODULE MCWorkQueue ----------------------------
(* Instances of WorkQueue for TLC: item 1 is an outbox row, the others are *)
(* jobs, the higher id with the higher priority.                           *)
EXTENDS WorkQueue, TLC

MCPriority == [i \in Items |-> IF i \in Jobs THEN i ELSE 0]

WorkerSymmetry == Permutations(Workers)

=============================================================================
