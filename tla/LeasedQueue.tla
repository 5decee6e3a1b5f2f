---------------------------- MODULE LeasedQueue ----------------------------
(***************************************************************************)
(* What the durable queues of the persistence adapters promise to their    *)
(* consumers, without clocks, tokens or batches.                           *)
(*                                                                         *)
(* A row of outbox_messages or background_jobs is absent, pending, leased  *)
(* to one worker, done, or a dead letter.  A leased row may be taken over  *)
(* by any worker (its lease may have expired), and only the worker that    *)
(* took it last may settle it.  Outbox rows are published or released;     *)
(* jobs may also be deferred, rejected outright, and put back by an        *)
(* operator once they are dead letters.                                    *)
(*                                                                         *)
(* WorkQueue implements this module with leases that expire on a clock;    *)
(* CollaborationProjection uses these actions for its own job rows.        *)
(***************************************************************************)
EXTENDS Integers

CONSTANTS
    Items,        \* rows of both tables
    Jobs,         \* the rows of background_jobs; the others are outbox rows
    Workers,      \* consumers, one per worker process
    NoOwner,      \* the lease_owner NULL
    MaxAttempts   \* max_attempts of every row, positive

VARIABLE
    row           \* row[i]: the row of item i, as the table holds it

States == {"absent", "pending", "leased", "done", "dead_letter"}

RowType == [state : States, attempts : Nat, owner : Workers \cup {NoOwner}]

TypeOK == row \in [Items -> RowType]

Init == row = [i \in Items |-> [state |-> "absent", attempts |-> 0, owner |-> NoOwner]]

-----------------------------------------------------------------------------

Unowned(i, state, attempts) ==
    row' = [row EXCEPT ![i] = [state |-> state, attempts |-> attempts, owner |-> NoOwner]]

Holds(w, i) == row[i].state = "leased" /\ row[i].owner = w

(* The row is inserted by the transaction of the command that needs it.    *)
Enqueue(i) ==
    /\ row[i].state = "absent"
    /\ Unowned(i, "pending", 0)

(* Mutant: a row whose worker is gone is never leased again.               *)
ClaimPending(w, batch) ==
    /\ \A i \in batch : row[i].state = "pending"
    /\ row' = [i \in Items |->
                 IF i \in batch
                 THEN [state |-> "leased", attempts |-> row[i].attempts + 1, owner |-> w]
                 ELSE row[i]]

(* A worker leases a whole batch in one transaction.                       *)
Claim(w, batch) ==
    /\ \A i \in batch : row[i].state \in {"pending", "leased"}
    /\ row' = [i \in Items |->
                 IF i \in batch
                 THEN [state |-> "leased", attempts |-> row[i].attempts + 1, owner |-> w]
                 ELSE row[i]]

Complete(w, i) ==
    /\ Holds(w, i)
    /\ Unowned(i, "done", row[i].attempts)

(* A failed attempt is retried until the budget is spent.                  *)
Release(w, i) ==
    /\ Holds(w, i)
    /\ Unowned(i, IF row[i].attempts >= MaxAttempts THEN "dead_letter" ELSE "pending",
               row[i].attempts)

(* A deferred job gives the attempt of its claim back.                     *)
Defer(w, i) ==
    /\ i \in Jobs
    /\ Holds(w, i)
    /\ Unowned(i, "pending", IF row[i].attempts = 0 THEN 0 ELSE row[i].attempts - 1)

Reject(w, i) ==
    /\ i \in Jobs
    /\ Holds(w, i)
    /\ Unowned(i, "dead_letter", row[i].attempts)

Reschedule(i) ==
    /\ i \in Jobs
    /\ row[i].state = "dead_letter"
    /\ Unowned(i, "pending", 0)

Settle(w, i) == Complete(w, i) \/ Release(w, i) \/ Defer(w, i) \/ Reject(w, i)

Next ==
    \/ \E i \in Items : Enqueue(i) \/ Reschedule(i)
    \/ \E w \in Workers, batch \in SUBSET Items : Claim(w, batch)
    \/ \E w \in Workers, i \in Items : Settle(w, i)

Spec == Init /\ [][Next]_row

=============================================================================
