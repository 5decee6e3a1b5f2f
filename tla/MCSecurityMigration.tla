------------------------ MODULE MCSecurityMigration ------------------------
(* Instances of SecurityMigration for TLC.                                 *)
EXTENDS SecurityMigration, TLC

HandlerSymmetry == Permutations(Handlers)

=============================================================================
