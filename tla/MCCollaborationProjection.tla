--------------------- MODULE MCCollaborationProjection ---------------------
(* Instances of CollaborationProjection for TLC.                           *)
EXTENDS CollaborationProjection, TLC

CONSTANTS task, asset

MCTaskOf == [a \in Assets |-> task]

WorkerSymmetry == Permutations(Workers)

=============================================================================
