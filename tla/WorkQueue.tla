----------------------------- MODULE WorkQueue -----------------------------
(***************************************************************************)
(* The outbox and job tables and the worker processes that consume them    *)
(* (apps/worker/src/worker.ts over the queue operations of the SQLite      *)
(* adapter).                                                               *)
(*                                                                         *)
(* A worker cycle reads the clock once, leases a batch of outbox rows and  *)
(* handles them one after the other, then leases a batch of jobs and       *)
(* handles those, still with the time it read at the start.  Several       *)
(* processes run cycles at once, any of them may stop between two steps,   *)
(* and a slow batch outlives its leases.                                   *)
(*                                                                         *)
(* Abstractions: a lease token is the number of the claim transaction that *)
(* wrote it (tokens are compared only on one row, so a token per batch     *)
(* tells the same claims apart as a random token per row); error texts,    *)
(* tenants and payloads are left out; time is counted in seconds.          *)
(***************************************************************************)
EXTENDS Integers, Sequences

CONSTANTS
    Items,        \* row ids of both tables, numbers so that they are ordered
    Jobs,         \* the rows of background_jobs; the others are outbox rows
    Workers,      \* worker ids
    NoOwner,      \* lease_owner NULL
    MaxAttempts,  \* max_attempts of every row
    Priority,     \* priority of each row (the same for all outbox rows)
    BatchSize,    \* rows leased by one claim
    LeaseTime,    \* leaseMilliseconds
    DeferTime,    \* freezeDeferMilliseconds of the job processor
    BackoffCap,   \* longest delay of nextAttempt
    MaxClock,     \* bound on the clock
    MaxClaims     \* bound on the claim transactions that lease something

ASSUME WorkQueueAssumption ==
    /\ Items \subseteq Nat
    /\ Jobs \subseteq Items
    /\ NoOwner \notin Workers
    /\ MaxAttempts \in Nat \ {0}
    /\ Priority \in [Items -> Nat]
    /\ BatchSize \in Nat \ {0}
    /\ LeaseTime \in Nat \ {0}
    /\ DeferTime \in Nat
    /\ BackoffCap \in Nat \ {0}
    /\ MaxClock \in Nat
    /\ MaxClaims \in Nat

VARIABLES
    clock,      \* wall clock
    row,        \* row[i]: the row of item i
    worker,     \* worker[w]: the memory of worker process w
    claims,     \* number of claim transactions so far, the source of tokens
    succeeded,  \* history: items a processor has handled successfully
    charged,    \* history: attempts of i lost to failures and dead leases
    rejected    \* history: jobs rejected as not retryable

history == <<succeeded, charged, rejected>>
vars == <<clock, row, worker, claims, succeeded, charged, rejected>>

States == {"absent", "pending", "leased", "done", "dead_letter"}

RowType ==
    [state : States, availableAt : Nat, attempts : Nat,
     owner : Workers \cup {NoOwner}, token : Nat, expiresAt : Nat]

ClaimType == [item : Items, token : Nat, attempts : Nat]

WorkerType ==
    [phase : {"idle", "outbox", "jobs"}, step : {"claim", "run", "settle"},
     now : Nat, batch : Seq(ClaimType),
     outcome : {"none", "ok", "deferred", "failed", "rejected"}, deferUntil : Nat]

Idle == [phase |-> "idle", step |-> "claim", now |-> 0, batch |-> <<>>,
         outcome |-> "none", deferUntil |-> 0]

TypeOK ==
    /\ clock \in Nat
    /\ row \in [Items -> RowType]
    /\ worker \in [Workers -> WorkerType]
    /\ claims \in Nat
    /\ succeeded \subseteq Items
    /\ charged \in [Items -> Nat]
    /\ rejected \subseteq Items

Init ==
    /\ clock = 0
    /\ row = [i \in Items |-> [state |-> "absent", availableAt |-> 0, attempts |-> 0,
                               owner |-> NoOwner, token |-> 0, expiresAt |-> 0]]
    /\ worker = [w \in Workers |-> Idle]
    /\ claims = 0
    /\ succeeded = {}
    /\ charged = [i \in Items |-> 0]
    /\ rejected = {}

-----------------------------------------------------------------------------
(* The tables.                                                             *)

(* Mutant: the owner stays on a row that is no longer leased.              *)
UnleasedKeepingOwner(r, state, availableAt, attempts) ==
    [r EXCEPT !.state = state, !.availableAt = availableAt, !.attempts = attempts,
              !.token = 0, !.expiresAt = 0]

Unleased(r, state, availableAt, attempts) ==
    [r EXCEPT !.state = state, !.availableAt = availableAt, !.attempts = attempts,
              !.owner = NoOwner, !.token = 0, !.expiresAt = 0]

Table(phase) == IF phase = "jobs" THEN Jobs ELSE Items \ Jobs

(* Mutant: a lease is over one second early.                               *)
ReadyEarly(r, now) ==
    \/ r.state = "pending" /\ r.availableAt <= now
    \/ r.state = "leased" /\ r.expiresAt <= now + 1

ReadyAt(r, now) ==
    \/ r.state = "pending" /\ r.availableAt <= now
    \/ r.state = "leased" /\ r.expiresAt <= now

(* ORDER BY priority DESC, available_at_utc, id.                           *)
Before(i, j) ==
    \/ Priority[i] > Priority[j]
    \/ /\ Priority[i] = Priority[j]
       /\ \/ row[i].availableAt < row[j].availableAt
          \/ row[i].availableAt = row[j].availableAt /\ i < j

(* The rows LIMIT BatchSize leaves of the ready ones, in queue order.      *)
Batches(phase, now) ==
    LET ready == {i \in Table(phase) : ReadyAt(row[i], now)}
        InOrder(b) == \A j, k \in DOMAIN b : j < k => Before(b[j], b[k])
        CutsAt(b) == \A i \in ready : \/ \E k \in DOMAIN b : b[k] = i
                                      \/ /\ Len(b) = BatchSize
                                         /\ \A k \in DOMAIN b : Before(b[k], i)
    IN  {b \in UNION {[1..n -> ready] : n \in 0..BatchSize} : InOrder(b) /\ CutsAt(b)}

Leased(r, w, until) ==
    [r EXCEPT !.state = "leased", !.attempts = r.attempts + 1,
              !.owner = w, !.token = claims + 1, !.expiresAt = until]

Backoff(attempts) ==
    IF 2 ^ (attempts - 1) \in 0..BackoffCap THEN 2 ^ (attempts - 1) ELSE BackoffCap

(* A command inserts the row in its own transaction.                       *)
Enqueue(i) ==
    /\ row[i].state = "absent"
    /\ row' = [row EXCEPT ![i] = Unleased(row[i], "pending", clock, 0)]
    /\ UNCHANGED <<clock, worker, claims, history>>

(* The operator's retry puts a dead job back with a fresh budget.          *)
RescheduleDeadLetter(i) ==
    /\ i \in Jobs
    /\ row[i].state = "dead_letter"
    /\ row' = [row EXCEPT ![i] = Unleased(row[i], "pending", clock, 0)]
    /\ charged' = [charged EXCEPT ![i] = 0]
    /\ rejected' = rejected \ {i}
    /\ UNCHANGED <<clock, worker, claims, succeeded>>

-----------------------------------------------------------------------------
(* A worker cycle.                                                         *)

Become(w, memory) == worker' = [worker EXCEPT ![w] = memory]

StartCycle(w) ==
    /\ worker[w].phase = "idle"
    /\ Become(w, [Idle EXCEPT !.phase = "outbox", !.now = clock])
    /\ UNCHANGED <<clock, row, claims, history>>

ClaimQueue(w) ==
    /\ worker[w].phase # "idle"
    /\ worker[w].step = "claim"
    /\ \E b \in Batches(worker[w].phase, worker[w].now) :
         LET taken == {b[k] : k \in DOMAIN b}
         IN  /\ row' = [i \in Items |-> IF i \in taken
                                        THEN Leased(row[i], w, worker[w].now + LeaseTime)
                                        ELSE row[i]]
             /\ Become(w, [worker[w] EXCEPT !.step = "run",
                  !.batch = [k \in 1..Len(b) |-> [item |-> b[k], token |-> claims + 1,
                                                  attempts |-> row[b[k]].attempts + 1]]])
             /\ charged' = [i \in Items |-> IF i \in taken /\ row[i].state = "leased"
                                            THEN charged[i] + 1
                                            ELSE charged[i]]
             /\ claims' = IF b = <<>> THEN claims ELSE claims + 1
             /\ claims' <= MaxClaims
    /\ UNCHANGED <<clock, succeeded, rejected>>

(* publish of an outbox message, processJob of a job: the external part.   *)
Process(w) ==
    /\ worker[w].step = "run"
    /\ worker[w].batch # <<>>
    /\ \E outcome \in IF worker[w].phase = "jobs"
                      THEN {"ok", "deferred", "failed", "rejected"}
                      ELSE {"ok", "failed"} :
         /\ Become(w, [worker[w] EXCEPT !.step = "settle", !.outcome = outcome,
                !.deferUntil = IF outcome = "deferred" THEN clock + DeferTime ELSE 0])
         /\ succeeded' = IF outcome = "ok"
                         THEN succeeded \cup {Head(worker[w].batch).item}
                         ELSE succeeded
    /\ UNCHANGED <<clock, row, claims, charged, rejected>>

(* Mutant: WHERE state = 'leased'                                          *)
MatchesAnyLease(c) == row[c.item].state = "leased"

(* WHERE state = 'leased' AND lease_token = ?                              *)
Matches(c) == row[c.item].state = "leased" /\ row[c.item].token = c.token

Settling(w, outcomes) ==
    /\ worker[w].step = "settle"
    /\ worker[w].outcome \in outcomes
    /\ worker[w].batch # <<>>

NextItem(w) ==
    Become(w, [worker[w] EXCEPT !.step = "run", !.batch = Tail(worker[w].batch),
                                !.outcome = "none", !.deferUntil = 0])

Update(c, new) == row' = IF Matches(c) THEN [row EXCEPT ![c.item] = new] ELSE row

Charge(c) == charged' = IF Matches(c) THEN [charged EXCEPT ![c.item] = charged[c.item] + 1]
                                      ELSE charged

(* Mutants: a state no consumer knows; a deferral acknowledged as success. *)
CompleteQueueUnknownState(w) ==
    LET c == Head(worker[w].batch) IN
    /\ Settling(w, {"ok"})
    /\ Update(c, Unleased(row[c.item], "processed", row[c.item].availableAt, row[c.item].attempts))
    /\ NextItem(w)
    /\ UNCHANGED <<clock, claims, history>>

CompleteQueueDeferred(w) ==
    LET c == Head(worker[w].batch) IN
    /\ Settling(w, {"ok", "deferred"})
    /\ Update(c, Unleased(row[c.item], "done", row[c.item].availableAt, row[c.item].attempts))
    /\ NextItem(w)
    /\ UNCHANGED <<clock, claims, history>>

(* markPublished, markCompleted                                            *)
CompleteQueue(w) ==
    LET c == Head(worker[w].batch) IN
    /\ Settling(w, {"ok"})
    /\ Update(c, Unleased(row[c.item], "done", row[c.item].availableAt, row[c.item].attempts))
    /\ NextItem(w)
    /\ UNCHANGED <<clock, claims, history>>

(* An ack or a defer that throws is caught with the processor's own errors. *)
AckFails(w) ==
    /\ Settling(w, {"ok", "deferred"})
    /\ Become(w, [worker[w] EXCEPT !.outcome = "failed", !.deferUntil = 0])
    /\ UNCHANGED <<clock, row, claims, history>>

(* Mutant: the budget is one attempt short.                                *)
ReleaseQueueShort(w) ==
    LET c == Head(worker[w].batch)
        state == IF row[c.item].attempts + 1 >= MaxAttempts THEN "dead_letter" ELSE "pending" IN
    /\ Settling(w, {"failed"})
    /\ Update(c, Unleased(row[c.item], state, worker[w].now + Backoff(c.attempts),
                          row[c.item].attempts))
    /\ Charge(c)
    /\ NextItem(w)
    /\ UNCHANGED <<clock, claims, succeeded, rejected>>

ReleaseQueue(w) ==
    LET c == Head(worker[w].batch)
        state == IF row[c.item].attempts >= MaxAttempts THEN "dead_letter" ELSE "pending" IN
    /\ Settling(w, {"failed"})
    /\ Update(c, Unleased(row[c.item], state, worker[w].now + Backoff(c.attempts),
                          row[c.item].attempts))
    /\ Charge(c)
    /\ NextItem(w)
    /\ UNCHANGED <<clock, claims, succeeded, rejected>>

(* Mutant: a deferral keeps the attempt of its claim.                      *)
DeferJobCharged(w) ==
    LET c == Head(worker[w].batch) IN
    /\ Settling(w, {"deferred"})
    /\ Update(c, Unleased(row[c.item], "pending", worker[w].deferUntil, row[c.item].attempts))
    /\ NextItem(w)
    /\ UNCHANGED <<clock, claims, history>>

DeferJob(w) ==
    LET c == Head(worker[w].batch)
        attempts == IF row[c.item].attempts = 0 THEN 0 ELSE row[c.item].attempts - 1 IN
    /\ Settling(w, {"deferred"})
    /\ Update(c, Unleased(row[c.item], "pending", worker[w].deferUntil, attempts))
    /\ NextItem(w)
    /\ UNCHANGED <<clock, claims, history>>

MarkJobDeadLetter(w) ==
    LET c == Head(worker[w].batch) IN
    /\ Settling(w, {"rejected"})
    /\ Update(c, Unleased(row[c.item], "dead_letter", row[c.item].availableAt,
                          row[c.item].attempts))
    /\ rejected' = IF Matches(c) THEN rejected \cup {c.item} ELSE rejected
    /\ NextItem(w)
    /\ UNCHANGED <<clock, claims, succeeded, charged>>

(* The outbox batch is followed by the jobs, the jobs by the next interval. *)
EndBatch(w) ==
    /\ worker[w].step = "run"
    /\ worker[w].batch = <<>>
    /\ Become(w, IF worker[w].phase = "outbox"
                 THEN [Idle EXCEPT !.phase = "jobs", !.now = worker[w].now]
                 ELSE Idle)
    /\ UNCHANGED <<clock, row, claims, history>>

(* The process dies or is stopped, or the database refuses a call that no  *)
(* handler catches: what the cycle knew is lost, its leases stay.          *)
Stop(w) ==
    /\ worker[w].phase # "idle"
    /\ Become(w, Idle)
    /\ UNCHANGED <<clock, row, claims, history>>

Tick ==
    /\ clock < MaxClock
    /\ clock' = clock + 1
    /\ UNCHANGED <<row, worker, claims, history>>

SettleItem(w) ==
    CompleteQueue(w) \/ ReleaseQueue(w) \/ DeferJob(w) \/ MarkJobDeadLetter(w)

Cycle(w) ==
    \/ StartCycle(w) \/ ClaimQueue(w) \/ Process(w) \/ AckFails(w)
    \/ SettleItem(w) \/ EndBatch(w) \/ Stop(w)

Next ==
    \/ \E i \in Items : Enqueue(i) \/ RescheduleDeadLetter(i)
    \/ \E w \in Workers : Cycle(w)
    \/ Tick

Spec == Init /\ [][Next]_vars

-----------------------------------------------------------------------------
(* Properties.                                                             *)

ClaimsOf(w) == {worker[w].batch[k] : k \in DOMAIN worker[w].batch}

LeaseAlive(w) == worker[w].now + LeaseTime > clock

(* A worker whose lease has not run out still owns every row of its batch: *)
(* nobody takes a row over early, whatever the stale time of its own cycle *)
(* and however the row was deferred, released or put back meanwhile.       *)
LeaseHonoured ==
    \A w \in Workers : LeaseAlive(w) =>
        \A c \in ClaimsOf(w) : Matches(c) /\ row[c.item].owner = w

(* Two workers handle the same row at the same time only if one of them    *)
(* has outlived its lease.                                                 *)
LeaseExclusion ==
    \A v, w \in Workers : v # w /\ LeaseAlive(v) /\ LeaseAlive(w) =>
        \A c \in ClaimsOf(v), d \in ClaimsOf(w) : c.item # d.item

(* The budget counts failures and dead leases only: however deferrals,     *)
(* takeovers and late answers interleave, a row that is still in play has  *)
(* used one attempt per charged claim and one for the claim in progress.   *)
BudgetExact ==
    \A i \in Items :
        /\ row[i].state = "pending" => row[i].attempts = charged[i]
        /\ row[i].state = "leased" => row[i].attempts = charged[i] + 1

(* A row becomes a dead letter only by an explicit rejection or by as many *)
(* charged attempts as its budget has, never because it was deferred.      *)
DeadLetterEarned ==
    \A i \in Items : row[i].state = "dead_letter" =>
        i \in rejected \/ charged[i] >= MaxAttempts

(* Nothing is acknowledged that no processor has handled: work leaves the  *)
(* queue as done only after a success, even when the worker that succeeded *)
(* is not the one that acknowledges.                                       *)
DoneWasProcessed == \A i \in Items : row[i].state = "done" => i \in succeeded

(* Only the latest claimant of a row moves it out of its lease, so a       *)
(* worker that was taken over changes nothing when it finally answers.     *)
SettledByHolder ==
    [][\A i \in Items : row[i].state = "leased" /\ row'[i].state # "leased" =>
         \E w \in Workers : /\ worker[w].batch # <<>>
                            /\ Head(worker[w].batch).item = i
                            /\ Head(worker[w].batch).token = row[i].token
                            /\ worker'[w].batch = Tail(worker[w].batch)]_vars

(* The queue implements its contract.                                      *)
Contract == INSTANCE LeasedQueue WITH
    row <- [i \in Items |-> [state |-> row[i].state, attempts |-> row[i].attempts,
                             owner |-> row[i].owner]]

ImplementsLeasedQueue == Contract!Spec

=============================================================================
