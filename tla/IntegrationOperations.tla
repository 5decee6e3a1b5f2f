----------------------- MODULE IntegrationOperations -----------------------
(***************************************************************************)
(* The life cycle of a durable integration operation: which states         *)
(* advanceIntegrationOperation (packages/domain) lets it move between.      *)
(***************************************************************************)

OperationStates ==
    {"planned", "running", "retryable", "completed", "compensated", "recovery_required"}

Terminal == {"completed", "compensated"}

Allowed ==
    [planned           |-> {"running", "recovery_required"},
     running           |-> {"running", "retryable", "completed", "compensated",
                            "recovery_required"},
     retryable         |-> {"running", "retryable", "recovery_required"},
     recovery_required |-> {"retryable", "compensated"},
     completed         |-> {},
     compensated       |-> {}]

(* A transition that is not allowed throws, and its transaction rolls back. *)
CanAdvance(from, to) == to \in Allowed[from]

=============================================================================
