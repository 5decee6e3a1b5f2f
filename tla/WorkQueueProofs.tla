-------------------------- MODULE WorkQueueProofs --------------------------
(***************************************************************************)
(* Proofs about WorkQueue, for any tables, workers, batch sizes, lease     *)
(* times, budgets and bounds.                                              *)
(***************************************************************************)
EXTENDS WorkQueue, SequenceTheorems, TLAPS

-----------------------------------------------------------------------------
(* Types.                                                                  *)

LEMMA UnleasedType ==
    ASSUME NEW r \in RowType, NEW state \in States, NEW at \in Nat, NEW attempts \in Nat
    PROVE  Unleased(r, state, at, attempts) \in RowType
  BY DEF Unleased, RowType

LEMMA LeasedType ==
    ASSUME NEW r \in RowType, NEW w \in Workers, NEW until \in Nat, claims \in Nat
    PROVE  Leased(r, w, until) \in RowType
  <1>1. r.attempts + 1 \in Nat /\ claims + 1 \in Nat
    BY DEF RowType
  <1> QED
    BY <1>1 DEF Leased, RowType, States

LEMMA BackoffType ==
    ASSUME NEW attempts
    PROVE  Backoff(attempts) \in Nat
  BY WorkQueueAssumption DEF Backoff, WorkQueueAssumption

(* The batch of a worker: its head, its tail, and where the tail comes from. *)
LEMMA HeadOfBatch ==
    ASSUME TypeOK, NEW w \in Workers, worker[w].batch # <<>>
    PROVE  /\ 1 \in DOMAIN worker[w].batch
           /\ Head(worker[w].batch) = worker[w].batch[1]
           /\ Head(worker[w].batch) \in ClaimType
           /\ Head(worker[w].batch).item \in Items
           /\ Tail(worker[w].batch) \in Seq(ClaimType)
           /\ \A k \in DOMAIN Tail(worker[w].batch) :
                 /\ k + 1 \in DOMAIN worker[w].batch
                 /\ k \in Nat /\ k + 1 # 1
                 /\ Tail(worker[w].batch)[k] = worker[w].batch[k + 1]
  <1> DEFINE s == worker[w].batch
  <1>1. s \in Seq(ClaimType)
    BY DEF TypeOK, WorkerType
  <1>2. /\ Head(s) \in ClaimType /\ Tail(s) \in Seq(ClaimType)
        /\ Len(Tail(s)) = Len(s) - 1
        /\ \A i \in 1..Len(Tail(s)) : Tail(s)[i] = s[i + 1]
    BY <1>1, HeadTailProperties
  <1>3. Len(s) \in Nat \ {0} /\ DOMAIN s = 1..Len(s)
    BY <1>1, LenProperties, EmptySeq
  <1>4. DOMAIN Tail(s) = 1..Len(Tail(s))
    BY <1>2, LenProperties
  <1>5. Head(s) = s[1] /\ Head(s).item \in Items
    BY <1>2 DEF ClaimType
  <1> QED
    BY <1>2, <1>3, <1>4, <1>5

LEMMA BatchType ==
    ASSUME NEW phase, NEW now, NEW b \in Batches(phase, now)
    PROVE  /\ Len(b) \in Nat /\ DOMAIN b = 1..Len(b)
           /\ \A k \in 1..Len(b) : b[k] \in Items /\ ReadyAt(row[b[k]], now)
           /\ \A j, k \in 1..Len(b) : j < k => Before(b[j], b[k])
  <1> DEFINE ready == {i \in Table(phase) : ReadyAt(row[i], now)}
  <1>1. PICK n \in 0..BatchSize : b \in [1..n -> ready]
    BY DEF Batches
  <1>2. b \in Seq(ready)
    BY <1>1, WorkQueueAssumption DEF WorkQueueAssumption
  <1>3. ready \subseteq Items
    BY WorkQueueAssumption DEF Table, WorkQueueAssumption
  <1>4. \A j, k \in DOMAIN b : j < k => Before(b[j], b[k])
    BY DEF Batches
  <1> QED
    BY <1>1, <1>2, <1>3, <1>4, WorkQueueAssumption DEF WorkQueueAssumption

LEMMA InitType == Init => TypeOK
  BY WorkQueueAssumption DEF Init, TypeOK, Idle, RowType, States, WorkerType, WorkQueueAssumption

LEMMA BecomeType ==
    ASSUME TypeOK, NEW w \in Workers, NEW memory \in WorkerType, Become(w, memory)
    PROVE  worker' \in [Workers -> WorkerType]
  BY DEF TypeOK, Become

LEMMA IdleType ==
    /\ Idle \in WorkerType
    /\ \A now \in Nat, phase \in {"idle", "outbox", "jobs"} :
          [Idle EXCEPT !.phase = phase, !.now = now] \in WorkerType
  <1>1. <<>> \in Seq(ClaimType)
    BY EmptySeq
  <1>2. Idle \in WorkerType
    BY <1>1 DEF Idle, WorkerType
  <1> QED
    BY <1>2 DEF WorkerType

(* The steps that settle an item have the shape of this lemma.             *)
LEMMA SettleType ==
    ASSUME TypeOK, NEW w \in Workers, worker[w].batch # <<>>,
           NEW new \in RowType,
           Update(Head(worker[w].batch), new), NextItem(w)
    PROVE  row' \in [Items -> RowType] /\ worker' \in [Workers -> WorkerType]
  <1>1. /\ Head(worker[w].batch).item \in Items
        /\ Tail(worker[w].batch) \in Seq(ClaimType)
    BY HeadOfBatch
  <1>2. row' \in [Items -> RowType]
    BY <1>1 DEF TypeOK, Update
  <1>3. [worker[w] EXCEPT !.step = "run", !.batch = Tail(worker[w].batch),
                          !.outcome = "none", !.deferUntil = 0] \in WorkerType
    BY <1>1 DEF TypeOK, WorkerType
  <1>4. worker' \in [Workers -> WorkerType]
    BY <1>3, BecomeType DEF NextItem
  <1> QED
    BY <1>2, <1>4

LEMMA NextType == TypeOK /\ [Next]_vars => TypeOK'
  <1> SUFFICES ASSUME TypeOK, [Next]_vars PROVE TypeOK'
    OBVIOUS
  <1> USE WorkQueueAssumption DEF WorkQueueAssumption
  <1>1. ASSUME NEW i \in Items, Enqueue(i) PROVE TypeOK'
    <2>1. row[i] \in RowType /\ clock \in Nat
      BY DEF TypeOK
    <2>2. Unleased(row[i], "pending", clock, 0) \in RowType
      BY <2>1, UnleasedType DEF States
    <2> QED
      BY <1>1, <2>2 DEF Enqueue, TypeOK, history
  <1>2. ASSUME NEW i \in Items, RescheduleDeadLetter(i) PROVE TypeOK'
    <2>1. row[i] \in RowType /\ clock \in Nat
      BY DEF TypeOK
    <2>2. Unleased(row[i], "pending", clock, 0) \in RowType
      BY <2>1, UnleasedType DEF States
    <2> QED
      BY <1>2, <2>2 DEF RescheduleDeadLetter, TypeOK
  <1>3. ASSUME NEW w \in Workers, StartCycle(w) PROVE TypeOK'
    <2>1. worker' \in [Workers -> WorkerType]
      BY <1>3, IdleType, BecomeType DEF StartCycle, TypeOK
    <2> QED
      BY <1>3, <2>1 DEF StartCycle, TypeOK, history
  <1>4. ASSUME NEW w \in Workers, ClaimQueue(w) PROVE TypeOK'
    <2>1. PICK b \in Batches(worker[w].phase, worker[w].now) :
            LET taken == {b[k] : k \in DOMAIN b}
            IN  /\ row' = [i \in Items |-> IF i \in taken
                                           THEN Leased(row[i], w, worker[w].now + LeaseTime)
                                           ELSE row[i]]
                /\ Become(w, [worker[w] EXCEPT !.step = "run",
                     !.batch = [k \in 1..Len(b) |-> [item |-> b[k], token |-> claims + 1,
                                                     attempts |-> row[b[k]].attempts + 1]]])
                /\ charged' = [i \in Items |-> IF i \in taken /\ row[i].state = "leased"
                                               THEN charged[i] + 1
                                               ELSE charged[i]]
                /\ claims' = IF b = <<>> THEN claims ELSE claims + 1
      BY <1>4 DEF ClaimQueue
    <2>2. Len(b) \in Nat /\ \A k \in 1..Len(b) : b[k] \in Items
      BY BatchType
    <2>3. \A i \in Items : Leased(row[i], w, worker[w].now + LeaseTime) \in RowType
      <3>1. worker[w].now + LeaseTime \in Nat /\ claims \in Nat
        BY DEF TypeOK, WorkerType
      <3>2. \A i \in Items : row[i] \in RowType
        BY DEF TypeOK
      <3> QED
        BY <3>1, <3>2, LeasedType
    <2>4. row' \in [Items -> RowType]
      BY <2>1, <2>3 DEF TypeOK
    <2>5. charged' \in [Items -> Nat] /\ claims' \in Nat
      BY <2>1 DEF TypeOK
    <2> DEFINE batch == [k \in 1..Len(b) |-> [item |-> b[k], token |-> claims + 1,
                                             attempts |-> row[b[k]].attempts + 1]]
    <2>6. \A k \in 1..Len(b) : [item |-> b[k], token |-> claims + 1,
                                attempts |-> row[b[k]].attempts + 1] \in ClaimType
      <3>1. \A i \in Items : row[i].attempts + 1 \in Nat
        BY DEF TypeOK, RowType
      <3>2. claims + 1 \in Nat
        BY DEF TypeOK
      <3> QED
        BY <2>2, <3>1, <3>2 DEF ClaimType
    <2>7. batch \in Seq(ClaimType)
      BY <2>2, <2>6
    <2> HIDE DEF batch
    <2>8. [worker[w] EXCEPT !.step = "run", !.batch = batch] \in WorkerType
      BY <2>7 DEF TypeOK, WorkerType
    <2>9. worker' \in [Workers -> WorkerType]
      BY <2>1, <2>8, BecomeType DEF batch
    <2> QED
      BY <1>4, <2>4, <2>5, <2>9 DEF ClaimQueue, TypeOK
  <1>5. ASSUME NEW w \in Workers, Process(w) PROVE TypeOK'
    <2>1. Head(worker[w].batch).item \in Items
      BY <1>5, HeadOfBatch DEF Process
    <2>2. \A outcome \in {"ok", "deferred", "failed", "rejected"}, until \in Nat :
            [worker[w] EXCEPT !.step = "settle", !.outcome = outcome, !.deferUntil = until]
              \in WorkerType
      BY DEF TypeOK, WorkerType
    <2>5. \A outcome : (IF outcome = "deferred" THEN clock + DeferTime ELSE 0) \in Nat
      BY DEF TypeOK
    <2>3. PICK outcome \in {"ok", "deferred", "failed", "rejected"} :
            Become(w, [worker[w] EXCEPT !.step = "settle", !.outcome = outcome,
               !.deferUntil = IF outcome = "deferred" THEN clock + DeferTime ELSE 0])
      BY <1>5 DEF Process
    <2>4. worker' \in [Workers -> WorkerType]
      BY <2>2, <2>3, <2>5, BecomeType
    <2> QED
      BY <1>5, <2>1, <2>4 DEF Process, TypeOK
  <1>6. ASSUME NEW w \in Workers, AckFails(w) PROVE TypeOK'
    <2>1. [worker[w] EXCEPT !.outcome = "failed", !.deferUntil = 0] \in WorkerType
      BY DEF TypeOK, WorkerType
    <2>2. worker' \in [Workers -> WorkerType]
      BY <1>6, <2>1, BecomeType DEF AckFails
    <2> QED
      BY <1>6, <2>2 DEF AckFails, TypeOK, history
  <1>7. ASSUME NEW w \in Workers, SettleItem(w) PROVE TypeOK'
    <2> DEFINE c == Head(worker[w].batch)
    <2>1. worker[w].batch # <<>>
      BY <1>7 DEF SettleItem, CompleteQueue, ReleaseQueue, DeferJob, MarkJobDeadLetter, Settling
    <2>2. c.item \in Items /\ row[c.item] \in RowType
      BY <2>1, HeadOfBatch DEF TypeOK
    <2>3. row[c.item].attempts \in Nat /\ row[c.item].availableAt \in Nat
      BY <2>2 DEF RowType
    <2>4. worker[w].now \in Nat /\ worker[w].deferUntil \in Nat
      BY DEF TypeOK, WorkerType
    <2>5. CASE CompleteQueue(w)
      <3>1. Unleased(row[c.item], "done", row[c.item].availableAt, row[c.item].attempts) \in RowType
        BY <2>2, <2>3, UnleasedType DEF States
      <3>2. row' \in [Items -> RowType] /\ worker' \in [Workers -> WorkerType]
        BY <2>1, <2>5, <3>1, SettleType DEF CompleteQueue
      <3> QED
        BY <2>5, <3>2 DEF CompleteQueue, TypeOK, history
    <2>6. CASE ReleaseQueue(w)
      <3> DEFINE state == IF row[c.item].attempts >= MaxAttempts THEN "dead_letter" ELSE "pending"
      <3>1. worker[w].now + Backoff(c.attempts) \in Nat
        BY <2>4, BackoffType
      <3>2. Unleased(row[c.item], state, worker[w].now + Backoff(c.attempts), row[c.item].attempts)
              \in RowType
        BY <2>2, <2>3, <3>1, UnleasedType DEF States
      <3>3. row' \in [Items -> RowType] /\ worker' \in [Workers -> WorkerType]
        BY <2>1, <2>6, <3>2, SettleType DEF ReleaseQueue
      <3>4. charged' \in [Items -> Nat]
        <4>1. charged \in [Items -> Nat]
          BY DEF TypeOK
        <4>2. charged' = charged \/ charged' = [charged EXCEPT ![c.item] = charged[c.item] + 1]
          BY <2>6 DEF ReleaseQueue, Charge
        <4>3. charged[c.item] \in Nat
          BY <2>2, <4>1
        <4> QED
          BY <2>2, <4>1, <4>2, <4>3
      <3> QED
        BY <2>6, <3>3, <3>4 DEF ReleaseQueue, TypeOK
    <2>7. CASE DeferJob(w)
      <3> DEFINE attempts == IF row[c.item].attempts = 0 THEN 0 ELSE row[c.item].attempts - 1
      <3>1. attempts \in Nat
        BY <2>3
      <3>2. Unleased(row[c.item], "pending", worker[w].deferUntil, attempts) \in RowType
        BY <2>2, <2>4, <3>1, UnleasedType DEF States
      <3>3. row' \in [Items -> RowType] /\ worker' \in [Workers -> WorkerType]
        BY <2>1, <2>7, <3>2, SettleType DEF DeferJob
      <3> QED
        BY <2>7, <3>3 DEF DeferJob, TypeOK, history
    <2>8. CASE MarkJobDeadLetter(w)
      <3>1. Unleased(row[c.item], "dead_letter", row[c.item].availableAt, row[c.item].attempts)
              \in RowType
        BY <2>2, <2>3, UnleasedType DEF States
      <3>2. row' \in [Items -> RowType] /\ worker' \in [Workers -> WorkerType]
        BY <2>1, <2>8, <3>1, SettleType DEF MarkJobDeadLetter
      <3> QED
        BY <2>2, <2>8, <3>2 DEF MarkJobDeadLetter, TypeOK
    <2> QED
      BY <1>7, <2>5, <2>6, <2>7, <2>8 DEF SettleItem
  <1>8. ASSUME NEW w \in Workers, EndBatch(w) PROVE TypeOK'
    <2>1. worker' \in [Workers -> WorkerType]
      <3>1. worker[w].now \in Nat
        BY DEF TypeOK, WorkerType
      <3>2. (IF worker[w].phase = "outbox"
             THEN [Idle EXCEPT !.phase = "jobs", !.now = worker[w].now]
             ELSE Idle) \in WorkerType
        BY <3>1, IdleType
      <3> QED
        BY <1>8, <3>2, BecomeType DEF EndBatch
    <2> QED
      BY <1>8, <2>1 DEF EndBatch, TypeOK, history
  <1>9. ASSUME NEW w \in Workers, Stop(w) PROVE TypeOK'
    <2>1. worker' \in [Workers -> WorkerType]
      BY <1>9, IdleType, BecomeType DEF Stop
    <2> QED
      BY <1>9, <2>1 DEF Stop, TypeOK, history
  <1>10. CASE Tick
    BY <1>10 DEF Tick, TypeOK, history
  <1>11. CASE UNCHANGED vars
    BY <1>11 DEF vars, TypeOK
  <1> QED
    BY <1>1, <1>2, <1>3, <1>4, <1>5, <1>6, <1>7, <1>8, <1>9, <1>10, <1>11 DEF Next, Cycle

(* Every reachable state of the queue is well typed.                       *)
THEOREM QueueTyped == Spec => []TypeOK
  BY InitType, NextType, PTL DEF Spec

-----------------------------------------------------------------------------
(* Leases.                                                                 *)

(* A claim in the memory of a worker carries the token of one claim        *)
(* transaction of that worker; while its lease lasts the row says the same. *)
ClaimsHeld ==
    \A w \in Workers : \A k \in DOMAIN worker[w].batch :
        /\ worker[w].batch[k].token <= claims
        /\ LeaseAlive(w) =>
             /\ Matches(worker[w].batch[k])
             /\ row[worker[w].batch[k].item].owner = w
             /\ row[worker[w].batch[k].item].expiresAt = worker[w].now + LeaseTime

ItemsDistinct ==
    \A w \in Workers : \A j, k \in DOMAIN worker[w].batch :
        j # k => worker[w].batch[j].item # worker[w].batch[k].item

TokensDistinct ==
    \A v, w \in Workers : v # w =>
        \A j \in DOMAIN worker[v].batch, k \in DOMAIN worker[w].batch :
            worker[v].batch[j].token # worker[w].batch[k].token

NowIsPast == \A w \in Workers : worker[w].now <= clock

LeaseInv == TypeOK /\ ClaimsHeld /\ ItemsDistinct /\ TokensDistinct /\ NowIsPast

LEMMA InitLease == Init => LeaseInv
  <1> SUFFICES ASSUME Init PROVE LeaseInv
    OBVIOUS
  <1>1. TypeOK
    BY InitType
  <1>2. \A w \in Workers : worker[w].batch = <<>> /\ worker[w].now = 0
    BY DEF Init, Idle
  <1>3. DOMAIN <<>> = {}
    OBVIOUS
  <1> QED
    BY <1>1, <1>2, <1>3 DEF LeaseInv, ClaimsHeld, ItemsDistinct, TokensDistinct, NowIsPast, Init

(* A step that gives a worker an empty batch, or leaves it its batch and   *)
(* its time, touches no claim.                                             *)
LEMMA MemoryStep ==
    ASSUME LeaseInv, TypeOK', NEW w \in Workers, NEW memory, Become(w, memory),
           \/ memory.batch = <<>> /\ memory.now <= clock
           \/ memory.batch = worker[w].batch /\ memory.now = worker[w].now,
           UNCHANGED <<clock, row, claims>>
    PROVE  LeaseInv'
  <1>1. worker' = [worker EXCEPT ![w] = memory]
    BY DEF Become
  <1>2. /\ worker'[w] = memory
        /\ \A v \in Workers \ {w} : worker'[v] = worker[v]
    BY <1>1 DEF LeaseInv, TypeOK
  <1>3. DOMAIN <<>> = {}
    OBVIOUS
  <1>4. ClaimsHeld'
    BY <1>2, <1>3 DEF LeaseInv, ClaimsHeld, LeaseAlive, Matches
  <1>5. ItemsDistinct'
    BY <1>2, <1>3 DEF LeaseInv, ItemsDistinct
  <1>6. TokensDistinct'
    BY <1>2, <1>3 DEF LeaseInv, TokensDistinct
  <1>7. NowIsPast'
    BY <1>2 DEF LeaseInv, NowIsPast
  <1> QED
    BY <1>4, <1>5, <1>6, <1>7 DEF LeaseInv

(* A settled item leaves the batch of its worker, and only the row the     *)
(* claim matched changes.                                                  *)
LEMMA SettleStep ==
    ASSUME LeaseInv, TypeOK', NEW w \in Workers, worker[w].batch # <<>>,
           NEW new, Update(Head(worker[w].batch), new), NextItem(w),
           UNCHANGED <<clock, claims>>
    PROVE  LeaseInv'
  <1> DEFINE c == Head(worker[w].batch)
  <1> USE DEF LeaseInv
  <1>1. /\ 1 \in DOMAIN worker[w].batch
        /\ c = worker[w].batch[1]
        /\ c.item \in Items
        /\ \A k \in DOMAIN Tail(worker[w].batch) :
              /\ k + 1 \in DOMAIN worker[w].batch
              /\ k \in Nat /\ k + 1 # 1
              /\ Tail(worker[w].batch)[k] = worker[w].batch[k + 1]
    BY HeadOfBatch
  <1>2. /\ worker'[w].batch = Tail(worker[w].batch)
        /\ worker'[w].now = worker[w].now
        /\ \A v \in Workers \ {w} : worker'[v] = worker[v]
    BY DEF NextItem, Become, TypeOK, WorkerType
  <1> HIDE DEF c
  <1>3. \A v \in Workers : \A k \in DOMAIN worker'[v].batch :
          /\ worker'[v].now = worker[v].now
          /\ \E j \in DOMAIN worker[v].batch :
                /\ worker'[v].batch[k] = worker[v].batch[j]
                /\ v = w => j = k + 1 /\ j # 1
    BY <1>1, <1>2
  <1>4. \/ row' = row
        \/ Matches(c) /\ row' = [row EXCEPT ![c.item] = new]
    BY DEF Update, c
  <1>5. ASSUME NEW v \in Workers, NEW j \in DOMAIN worker[v].batch, LeaseAlive(v),
               v = w => j # 1
        PROVE  row'[worker[v].batch[j].item] = row[worker[v].batch[j].item]
    <2> DEFINE d == worker[v].batch[j]
    <2>1. Matches(d)
      BY <1>5 DEF ClaimsHeld
    <2>2. CASE row' = row
      BY <2>2
    <2>3. CASE Matches(c) /\ row' = [row EXCEPT ![c.item] = new]
      <3>1. c.item # d.item
        <4>1. CASE v = w
          BY <1>1, <1>5, <4>1 DEF ItemsDistinct
        <4>2. CASE v # w
          <5>1. c.token # d.token
            BY <1>1, <4>2 DEF TokensDistinct
          <5> QED
            BY <2>1, <2>3, <5>1 DEF Matches
        <4> QED
          BY <4>1, <4>2
      <3> QED
        BY <2>3, <3>1, <2>1 DEF TypeOK
    <2> QED
      BY <1>4, <2>2, <2>3
  <1>6. ClaimsHeld'
    BY <1>3, <1>5 DEF ClaimsHeld, LeaseAlive, Matches
  <1>7. ItemsDistinct'
    <2> SUFFICES ASSUME NEW v \in Workers, NEW j \in DOMAIN worker'[v].batch,
                        NEW k \in DOMAIN worker'[v].batch, j # k
                 PROVE  worker'[v].batch[j].item # worker'[v].batch[k].item
      BY DEF ItemsDistinct
    <2>1. CASE v = w
      <3>1. /\ j + 1 \in DOMAIN worker[w].batch /\ worker'[w].batch[j] = worker[w].batch[j + 1]
            /\ k + 1 \in DOMAIN worker[w].batch /\ worker'[w].batch[k] = worker[w].batch[k + 1]
            /\ j \in Nat /\ k \in Nat
        BY <1>1, <1>2, <2>1
      <3>2. j + 1 # k + 1
        BY <3>1
      <3> QED
        BY <2>1, <3>1, <3>2 DEF ItemsDistinct
    <2>2. CASE v # w
      BY <1>2, <2>2 DEF ItemsDistinct
    <2> QED
      BY <2>1, <2>2
  <1>8. TokensDistinct'
    BY <1>3 DEF TokensDistinct
  <1>9. NowIsPast'
    BY <1>2 DEF NowIsPast
  <1> QED
    BY <1>6, <1>7, <1>8, <1>9

(* A claim takes only rows whose lease is over for every clock: rows of a  *)
(* batch that is still alive are not ready.                                *)
LEMMA ClaimStep ==
    ASSUME LeaseInv, TypeOK', NEW w \in Workers, ClaimQueue(w)
    PROVE  LeaseInv'
  <1> USE DEF LeaseInv
  <1> DEFINE until == worker[w].now + LeaseTime
             Batch(b) == [k \in 1..Len(b) |-> [item |-> b[k], token |-> claims + 1,
                                               attempts |-> row[b[k]].attempts + 1]]
  <1>1. PICK b \in Batches(worker[w].phase, worker[w].now) :
          /\ row' = [i \in Items |-> IF i \in {b[k] : k \in DOMAIN b}
                                     THEN Leased(row[i], w, until) ELSE row[i]]
          /\ Become(w, [worker[w] EXCEPT !.step = "run", !.batch = Batch(b)])
          /\ claims' = IF b = <<>> THEN claims ELSE claims + 1
    BY DEF ClaimQueue
  <1>2. /\ Len(b) \in Nat /\ DOMAIN b = 1..Len(b)
        /\ \A k \in 1..Len(b) : b[k] \in Items /\ ReadyAt(row[b[k]], worker[w].now)
        /\ \A j, k \in 1..Len(b) : j < k => Before(b[j], b[k])
    BY BatchType
  <1>3. /\ worker'[w].batch = Batch(b)
        /\ worker'[w].now = worker[w].now
        /\ \A v \in Workers \ {w} : worker'[v] = worker[v]
    BY <1>1 DEF Become, TypeOK, WorkerType
  <1>4. DOMAIN Batch(b) = DOMAIN b
        /\ \A k \in DOMAIN b : Batch(b)[k].item = b[k] /\ Batch(b)[k].token = claims + 1
    BY <1>2
  <1>5. clock' = clock /\ clock \in Nat /\ claims \in Nat
    BY DEF ClaimQueue, TypeOK
  <1>6. \A v \in Workers : worker[v].now \in Nat /\ worker[v].now <= clock
    BY DEF TypeOK, WorkerType, NowIsPast
  <1>7. \A k \in DOMAIN b : claims' = claims + 1
    BY <1>1, <1>2
  <1>8. claims <= claims'
    BY <1>1, <1>5
  <1> HIDE DEF Batch
  <1>9. ASSUME NEW v \in Workers, v # w, NEW j \in DOMAIN worker[v].batch, LeaseAlive(v)
        PROVE  row'[worker[v].batch[j].item] = row[worker[v].batch[j].item]
    <2> DEFINE i == worker[v].batch[j].item
    <2>1. i \in Items
      <3>1. worker[v].batch \in Seq(ClaimType)
        BY DEF TypeOK, WorkerType
      <3>2. worker[v].batch[j] \in ClaimType
        BY <3>1, LenProperties
      <3> QED
        BY <3>2 DEF ClaimType
    <2>2. row[i].state = "leased" /\ row[i].expiresAt = worker[v].now + LeaseTime
      BY <1>9 DEF ClaimsHeld, Matches
    <2>3. row[i].expiresAt > clock
      BY <1>9, <2>2 DEF LeaseAlive
    <2>4. ~ReadyAt(row[i], worker[w].now)
      <3>1. row[i].expiresAt \in Nat
        BY <2>1 DEF TypeOK, RowType
      <3> QED
        BY <1>5, <1>6, <2>2, <2>3, <3>1 DEF ReadyAt
    <2>5. i \notin {b[k] : k \in DOMAIN b}
      BY <1>2, <2>4
    <2> QED
      BY <1>1, <2>1, <2>5
  <1>10. ASSUME NEW k \in DOMAIN b
         PROVE  /\ row'[b[k]].state = "leased" /\ row'[b[k]].token = claims + 1
                /\ row'[b[k]].owner = w /\ row'[b[k]].expiresAt = until
    <2>1. b[k] \in Items /\ row'[b[k]] = Leased(row[b[k]], w, until)
      BY <1>1, <1>2
    <2>2. row[b[k]] \in RowType
      BY <2>1 DEF TypeOK
    <2> QED
      BY <2>1, <2>2 DEF Leased, RowType
  <1>11. ClaimsHeld'
    <2> SUFFICES ASSUME NEW v \in Workers, NEW k \in DOMAIN worker'[v].batch
                 PROVE  /\ worker'[v].batch[k].token <= claims'
                        /\ LeaseAlive(v)' =>
                             /\ Matches(worker[v].batch[k])'
                             /\ row'[worker'[v].batch[k].item].owner = v
                             /\ row'[worker'[v].batch[k].item].expiresAt = worker'[v].now + LeaseTime
      BY DEF ClaimsHeld
    <2>1. CASE v = w
      BY <2>1, <1>3, <1>4, <1>5, <1>7, <1>10 DEF Matches
    <2>2. CASE v # w
      <3>1. worker'[v] = worker[v]
        BY <1>3, <2>2
      <3>2. worker[v].batch[k].token \in Nat
        <4>1. worker[v].batch \in Seq(ClaimType)
          BY DEF TypeOK, WorkerType
        <4>2. worker[v].batch[k] \in ClaimType
          BY <3>1, <4>1, LenProperties
        <4> QED
          BY <4>2 DEF ClaimType
      <3>3. worker[v].batch[k].token <= claims'
        <4>1. worker[v].batch[k].token <= claims
          BY <3>1 DEF ClaimsHeld
        <4>2. claims \in Nat /\ claims' \in Nat
          BY DEF TypeOK
        <4> QED
          BY <1>8, <3>2, <4>1, <4>2
      <3>4. LeaseAlive(v)' => LeaseAlive(v)
        BY <1>5, <3>1 DEF LeaseAlive
      <3> QED
        BY <1>9, <2>2, <3>1, <3>3, <3>4 DEF ClaimsHeld, Matches
    <2> QED
      BY <2>1, <2>2
  <1>12. ItemsDistinct'
    <2>1. \A i \in Items : ~Before(i, i)
      BY WorkQueueAssumption DEF Before, TypeOK, RowType, WorkQueueAssumption
    <2>2. \A j, k \in DOMAIN b : j # k => b[j] # b[k]
      <3>1. \A j, k \in DOMAIN b : j # k => j < k \/ k < j
        BY <1>2
      <3> QED
        BY <1>2, <2>1, <3>1
    <2> QED
      BY <1>3, <1>4, <2>2 DEF ItemsDistinct
  <1>13. TokensDistinct'
    <2>1. \A v \in Workers : \A j \in DOMAIN worker[v].batch :
            worker[v].batch[j].token # claims + 1
      <3> SUFFICES ASSUME NEW v \in Workers, NEW j \in DOMAIN worker[v].batch
                   PROVE  worker[v].batch[j].token # claims + 1
        OBVIOUS
      <3>1. worker[v].batch \in Seq(ClaimType)
        BY DEF TypeOK, WorkerType
      <3>2. worker[v].batch[j] \in ClaimType
        BY <3>1, LenProperties
      <3>3. worker[v].batch[j].token \in Nat /\ worker[v].batch[j].token <= claims
        BY <3>2 DEF ClaimType, ClaimsHeld
      <3> QED
        BY <1>5, <3>3
    <2> QED
      BY <1>3, <1>4, <2>1 DEF TokensDistinct
  <1>14. NowIsPast'
    BY <1>3, <1>5 DEF NowIsPast
  <1> QED
    BY <1>11, <1>12, <1>13, <1>14

LEMMA NextLease == LeaseInv /\ [Next]_vars => LeaseInv'
  <1> SUFFICES ASSUME LeaseInv, [Next]_vars PROVE LeaseInv'
    OBVIOUS
  <1>1. TypeOK /\ TypeOK'
    BY NextType DEF LeaseInv
  <1>2. ASSUME UNCHANGED <<worker, claims, clock>>,
               \E i \in Items : /\ row[i].state # "leased"
                               /\ \A j \in Items \ {i} : row'[j] = row[j]
        PROVE  LeaseInv'
    <2>1. PICK i \in Items : /\ row[i].state # "leased"
                            /\ \A j \in Items \ {i} : row'[j] = row[j]
      BY <1>2
    <2>2. \A w \in Workers : \A k \in DOMAIN worker[w].batch : worker[w].batch[k].item \in Items
      <3> SUFFICES ASSUME NEW w \in Workers, NEW k \in DOMAIN worker[w].batch
                   PROVE  worker[w].batch[k].item \in Items
        OBVIOUS
      <3>1. worker[w].batch \in Seq(ClaimType)
        BY <1>1 DEF TypeOK, WorkerType
      <3>2. worker[w].batch[k] \in ClaimType
        BY <3>1, LenProperties
      <3> QED
        BY <3>2 DEF ClaimType
    <2>3. ClaimsHeld'
      BY <1>2, <2>1, <2>2 DEF LeaseInv, ClaimsHeld, LeaseAlive, Matches
    <2> QED
      BY <1>1, <1>2, <2>3 DEF LeaseInv, ItemsDistinct, TokensDistinct, NowIsPast
  <1>3. ASSUME NEW i \in Items, Enqueue(i) PROVE LeaseInv'
    <2>1. row[i].state # "leased" /\ \A j \in Items \ {i} : row'[j] = row[j]
      BY <1>1, <1>3 DEF Enqueue, TypeOK
    <2> QED
      BY <1>2, <1>3, <2>1 DEF Enqueue
  <1>4. ASSUME NEW i \in Items, RescheduleDeadLetter(i) PROVE LeaseInv'
    <2>1. row[i].state # "leased" /\ \A j \in Items \ {i} : row'[j] = row[j]
      BY <1>1, <1>4 DEF RescheduleDeadLetter, TypeOK
    <2> QED
      BY <1>2, <1>4, <2>1 DEF RescheduleDeadLetter
  <1>5. ASSUME NEW w \in Workers, Cycle(w) PROVE LeaseInv'
    <2>0. /\ worker[w] \in WorkerType /\ worker[w].now <= clock /\ clock \in Nat
          /\ 0 <= clock
      BY <1>1 DEF TypeOK, LeaseInv, NowIsPast
    <2>1. CASE StartCycle(w)
      <3> DEFINE memory == [Idle EXCEPT !.phase = "outbox", !.now = clock]
      <3>1. memory.batch = <<>> /\ memory.now = clock
        BY DEF Idle
      <3>2. Become(w, memory) /\ UNCHANGED <<clock, row, claims>>
        BY <2>1 DEF StartCycle
      <3> HIDE DEF memory
      <3> QED
        BY <1>1, <2>0, <3>1, <3>2, MemoryStep
    <2>2. CASE ClaimQueue(w)
      BY <1>1, <2>2, ClaimStep
    <2>3. CASE Process(w)
      <3>1. PICK outcome, until :
              Become(w, [worker[w] EXCEPT !.step = "settle", !.outcome = outcome,
                                          !.deferUntil = until])
        BY <2>3 DEF Process
      <3> DEFINE memory == [worker[w] EXCEPT !.step = "settle", !.outcome = outcome,
                                             !.deferUntil = until]
      <3>2. memory.batch = worker[w].batch /\ memory.now = worker[w].now
        BY <2>0 DEF WorkerType
      <3>3. Become(w, memory) /\ UNCHANGED <<clock, row, claims>>
        BY <2>3, <3>1 DEF Process
      <3> HIDE DEF memory
      <3> QED
        BY <1>1, <3>2, <3>3, MemoryStep
    <2>4. CASE AckFails(w)
      <3> DEFINE memory == [worker[w] EXCEPT !.outcome = "failed", !.deferUntil = 0]
      <3>1. memory.batch = worker[w].batch /\ memory.now = worker[w].now
        BY <2>0 DEF WorkerType
      <3>2. Become(w, memory) /\ UNCHANGED <<clock, row, claims>>
        BY <2>4 DEF AckFails
      <3> HIDE DEF memory
      <3> QED
        BY <1>1, <3>1, <3>2, MemoryStep
    <2>5. CASE SettleItem(w)
      <3>1. /\ worker[w].batch # <<>> /\ NextItem(w) /\ UNCHANGED <<clock, claims>>
            /\ \E new : Update(Head(worker[w].batch), new)
        BY <2>5 DEF SettleItem, CompleteQueue, ReleaseQueue, DeferJob, MarkJobDeadLetter, Settling
      <3> QED
        BY <1>1, <3>1, SettleStep
    <2>6. CASE EndBatch(w)
      <3> DEFINE memory == IF worker[w].phase = "outbox"
                           THEN [Idle EXCEPT !.phase = "jobs", !.now = worker[w].now]
                           ELSE Idle
      <3>1. memory.batch = <<>> /\ memory.now <= clock
        BY <2>0 DEF Idle
      <3>2. Become(w, memory) /\ UNCHANGED <<clock, row, claims>>
        BY <2>6 DEF EndBatch
      <3> HIDE DEF memory
      <3> QED
        BY <1>1, <3>1, <3>2, MemoryStep
    <2>7. CASE Stop(w)
      <3>1. Idle.batch = <<>> /\ Idle.now <= clock
        BY <2>0 DEF Idle
      <3>2. Become(w, Idle) /\ UNCHANGED <<clock, row, claims>>
        BY <2>7 DEF Stop
      <3> QED
        BY <1>1, <3>1, <3>2, MemoryStep
    <2> QED
      BY <1>5, <2>1, <2>2, <2>3, <2>4, <2>5, <2>6, <2>7 DEF Cycle
  <1>6. CASE Tick
    <2>1. clock \in Nat /\ clock' = clock + 1 /\ UNCHANGED <<row, worker, claims>>
      BY <1>1, <1>6 DEF Tick, TypeOK
    <2>2. \A w \in Workers : worker[w].now \in Nat
      BY <1>1 DEF TypeOK, WorkerType
    <2>3. \A w \in Workers : LeaseAlive(w)' => LeaseAlive(w)
      BY <2>1, <2>2, WorkQueueAssumption DEF LeaseAlive, WorkQueueAssumption
    <2>4. ClaimsHeld'
      BY <2>1, <2>3 DEF LeaseInv, ClaimsHeld, Matches
    <2>5. NowIsPast'
      BY <2>1, <2>2 DEF LeaseInv, NowIsPast
    <2> QED
      BY <1>1, <2>1, <2>4, <2>5 DEF LeaseInv, ItemsDistinct, TokensDistinct
  <1>7. CASE UNCHANGED vars
    BY <1>1, <1>7 DEF vars, LeaseInv, ClaimsHeld, LeaseAlive, Matches, ItemsDistinct,
       TokensDistinct, NowIsPast
  <1> QED
    BY <1>3, <1>4, <1>5, <1>6, <1>7 DEF Next

LEMMA LeaseInvHonours == LeaseInv => LeaseHonoured
  BY DEF LeaseInv, ClaimsHeld, LeaseHonoured, ClaimsOf

LEMMA LeaseInvExcludes == LeaseInv => LeaseExclusion
  <1> SUFFICES ASSUME LeaseInv,
                      NEW v \in Workers, NEW w \in Workers, v # w, LeaseAlive(v), LeaseAlive(w),
                      NEW j \in DOMAIN worker[v].batch, NEW k \in DOMAIN worker[w].batch,
                      worker[v].batch[j].item = worker[w].batch[k].item
               PROVE  FALSE
    BY DEF LeaseExclusion, ClaimsOf
  <1> QED
    BY DEF LeaseInv, ClaimsHeld

LEMMA LeaseInvariant == Spec => []LeaseInv
  BY InitLease, NextLease, PTL DEF Spec

(* As long as its lease lasts, a worker owns every row of its batch,       *)
(* whatever the other workers claim with the stale time of their cycles.   *)
THEOREM LeasesAreHonoured == Spec => []LeaseHonoured
  BY LeaseInvariant, LeaseInvHonours, PTL

(* Two workers inside their leases never work on the same row.             *)
THEOREM LeasesAreExclusive == Spec => []LeaseExclusion
  BY LeaseInvariant, LeaseInvExcludes, PTL

-----------------------------------------------------------------------------
(* The attempt budget, dead letters and acknowledgements.                  *)

RowOK(i) ==
    /\ row[i].state = "absent" => charged[i] = 0
    /\ row[i].state = "pending" => row[i].attempts = charged[i]
    /\ row[i].state = "leased" => row[i].attempts = charged[i] + 1
    /\ row[i].state = "dead_letter" => i \in rejected \/ charged[i] >= MaxAttempts
    /\ row[i].state = "done" => i \in succeeded

RowsOK == \A i \in Items : RowOK(i)

(* A worker about to acknowledge has handled the head of its batch.        *)
AcksEarned ==
    \A w \in Workers :
        worker[w].step = "settle" /\ worker[w].outcome = "ok" /\ worker[w].batch # <<>> =>
            Head(worker[w].batch).item \in succeeded

BudgetInv == TypeOK /\ RowsOK /\ AcksEarned

LEMMA BudgetInvImplies == BudgetInv => BudgetExact /\ DeadLetterEarned /\ DoneWasProcessed
  BY DEF BudgetInv, RowsOK, RowOK, BudgetExact, DeadLetterEarned, DoneWasProcessed

LEMMA InitBudget == Init => BudgetInv
  <1> SUFFICES ASSUME Init PROVE BudgetInv
    OBVIOUS
  <1>1. TypeOK
    BY InitType
  <1>2. RowsOK
    BY DEF Init, RowsOK, RowOK
  <1>3. AcksEarned
    BY DEF Init, AcksEarned, Idle
  <1> QED
    BY <1>1, <1>2, <1>3 DEF BudgetInv

(* All that a step leaves alone keeps its place in the invariant.          *)
LEMMA OneRow ==
    ASSUME RowsOK, NEW i \in Items, succeeded \subseteq succeeded', RowOK(i)',
           \A j \in Items \ {i} : /\ row'[j] = row[j] /\ charged'[j] = charged[j]
                                  /\ j \in rejected => j \in rejected'
    PROVE  RowsOK'
  BY DEF RowsOK, RowOK

LEMMA SameAcks ==
    ASSUME TypeOK, AcksEarned, NEW w \in Workers, NEW memory, Become(w, memory),
           memory.step # "settle" \/ memory.outcome # "ok",
           succeeded \subseteq succeeded'
    PROVE  AcksEarned'
  <1>1. /\ worker'[w] = memory
        /\ \A v \in Workers \ {w} : worker'[v] = worker[v]
    BY DEF Become, TypeOK
  <1> QED
    BY <1>1 DEF AcksEarned

LEMMA SettleBudget ==
    ASSUME BudgetInv, NEW w \in Workers, SettleItem(w)
    PROVE  RowsOK' /\ AcksEarned'
  <1>0. PICK c : c = Head(worker[w].batch)
    OBVIOUS
  <1>1. TypeOK /\ RowsOK /\ AcksEarned /\ worker[w].batch # <<>> /\ NextItem(w)
    BY DEF BudgetInv, SettleItem, CompleteQueue, ReleaseQueue, DeferJob, MarkJobDeadLetter, Settling
  <1>2. c.item \in Items /\ row[c.item] \in RowType /\ charged[c.item] \in Nat
    BY <1>0, <1>1, HeadOfBatch DEF TypeOK
  <1>3. row[c.item].attempts \in Nat
    BY <1>2 DEF RowType
  <1>4. succeeded' = succeeded
    BY DEF SettleItem, CompleteQueue, ReleaseQueue, DeferJob, MarkJobDeadLetter, history
  <1>5. AcksEarned'
    <2>1. worker[w] \in WorkerType
      BY <1>1 DEF TypeOK
    <2> DEFINE memory == [worker[w] EXCEPT !.step = "run", !.batch = Tail(worker[w].batch),
                                           !.outcome = "none", !.deferUntil = 0]
    <2>2. memory.step # "settle"
      BY <2>1 DEF WorkerType
    <2>3. Become(w, memory)
      BY <1>1 DEF NextItem
    <2> HIDE DEF memory
    <2> QED
      BY <1>1, <1>4, <2>2, <2>3, SameAcks
  <1>6. ASSUME NEW new, Update(c, new), charged \in [Items -> Nat],
               Matches(c) => /\ \A j \in Items \ {c.item} : charged'[j] = charged[j]
                             /\ rejected \subseteq rejected'
                             /\ row' = [row EXCEPT ![c.item] = new] => RowOK(c.item)',
               ~Matches(c) => charged' = charged /\ rejected' = rejected
        PROVE  RowsOK'
    <2>1. CASE Matches(c)
      <3>1. row' = [row EXCEPT ![c.item] = new]
        BY <1>6, <2>1 DEF Update
      <3> QED
        BY <1>1, <1>2, <1>4, <1>6, <2>1, <3>1, OneRow DEF TypeOK
    <2>2. CASE ~Matches(c)
      BY <1>1, <1>4, <1>6, <2>2 DEF Update, RowsOK, RowOK
    <2> QED
      BY <2>1, <2>2
  <1>7. Matches(c) => row[c.item].attempts = charged[c.item] + 1
    BY <1>1, <1>2 DEF Matches, RowsOK, RowOK
  <1>8. charged \in [Items -> Nat] /\ row \in [Items -> RowType]
    BY <1>1 DEF TypeOK
  <1>9. ASSUME NEW new, row' = [row EXCEPT ![c.item] = new]
        PROVE  row'[c.item] = new
    BY <1>2, <1>8, <1>9
  <1>10. \A state, at, attempts :
           LET r == Unleased(row[c.item], state, at, attempts)
           IN  r.state = state /\ r.attempts = attempts
    BY <1>2 DEF Unleased, RowType
  <1>11. CASE CompleteQueue(w)
    <2>1. Update(c, Unleased(row[c.item], "done", row[c.item].availableAt, row[c.item].attempts))
          /\ charged' = charged /\ rejected' = rejected
      BY <1>11, <1>0 DEF CompleteQueue, history
    <2>2. c.item \in succeeded'
      BY <1>1, <1>4, <1>11, <1>0 DEF CompleteQueue, Settling, AcksEarned
    <2> QED
      BY <1>5, <1>6, <1>8, <1>9, <1>10, <2>1, <2>2 DEF RowOK
  <1>12. CASE ReleaseQueue(w)
    <2> DEFINE state == IF row[c.item].attempts >= MaxAttempts THEN "dead_letter" ELSE "pending"
               new == Unleased(row[c.item], state, worker[w].now + Backoff(c.attempts),
                               row[c.item].attempts)
    <2>1. Update(c, new) /\ Charge(c) /\ rejected' = rejected
      BY <1>12, <1>0 DEF ReleaseQueue
    <2>2. new.state = state /\ new.attempts = row[c.item].attempts
      BY <1>10
    <2> HIDE DEF new
    <2>3. Matches(c) => /\ charged'[c.item] = charged[c.item] + 1
                        /\ \A j \in Items \ {c.item} : charged'[j] = charged[j]
      BY <1>2, <1>8, <2>1 DEF Charge
    <2>4. ~Matches(c) => charged' = charged
      BY <2>1 DEF Charge
    <2>5. ASSUME Matches(c), row' = [row EXCEPT ![c.item] = new]
          PROVE  RowOK(c.item)'
      BY <1>7, <1>9, <2>2, <2>3, <2>5 DEF RowOK
    <2> QED
      BY <1>5, <1>6, <1>8, <2>1, <2>3, <2>4, <2>5
  <1>13. CASE DeferJob(w)
    <2> DEFINE attempts == IF row[c.item].attempts = 0 THEN 0 ELSE row[c.item].attempts - 1
               new == Unleased(row[c.item], "pending", worker[w].deferUntil, attempts)
    <2>1. Update(c, new) /\ charged' = charged /\ rejected' = rejected
      BY <1>13, <1>0 DEF DeferJob, history
    <2>2. new.state = "pending" /\ new.attempts = attempts
      BY <1>10
    <2> HIDE DEF new
    <2>3. Matches(c) => attempts = charged[c.item]
      BY <1>2, <1>3, <1>7
    <2> HIDE DEF attempts
    <2>4. ASSUME Matches(c), row' = [row EXCEPT ![c.item] = new]
          PROVE  RowOK(c.item)'
      BY <1>9, <2>1, <2>2, <2>3, <2>4 DEF RowOK
    <2> QED
      BY <1>5, <1>6, <1>8, <2>1, <2>4
  <1>14. CASE MarkJobDeadLetter(w)
    <2> DEFINE new == Unleased(row[c.item], "dead_letter", row[c.item].availableAt,
                               row[c.item].attempts)
    <2>1. /\ Update(c, new) /\ charged' = charged
          /\ rejected' = IF Matches(c) THEN rejected \cup {c.item} ELSE rejected
      BY <1>14, <1>0 DEF MarkJobDeadLetter
    <2>2. new.state = "dead_letter"
      BY <1>10
    <2> HIDE DEF new
    <2>3. ASSUME Matches(c), row' = [row EXCEPT ![c.item] = new]
          PROVE  RowOK(c.item)'
      BY <1>9, <2>1, <2>2, <2>3 DEF RowOK
    <2> QED
      BY <1>5, <1>6, <1>8, <2>1, <2>3
  <1> QED
    BY <1>11, <1>12, <1>13, <1>14 DEF SettleItem

LEMMA NextBudget == BudgetInv /\ [Next]_vars => BudgetInv'
  <1> SUFFICES ASSUME BudgetInv, [Next]_vars PROVE BudgetInv'
    OBVIOUS
  <1>1. TypeOK /\ TypeOK' /\ RowsOK /\ AcksEarned
    BY NextType DEF BudgetInv
  <1>2. SUFFICES RowsOK' /\ AcksEarned'
    BY <1>1 DEF BudgetInv
  <1>3. ASSUME UNCHANGED <<row, charged, rejected>>, succeeded \subseteq succeeded'
        PROVE  RowsOK'
    BY <1>1, <1>3 DEF RowsOK, RowOK
  <1>4. ASSUME UNCHANGED worker, succeeded' = succeeded
        PROVE  AcksEarned'
    BY <1>1, <1>4 DEF AcksEarned
  <1>5. ASSUME NEW i \in Items, NEW at, row' = [row EXCEPT ![i] = Unleased(row[i], "pending", at, 0)]
        PROVE  /\ row'[i].state = "pending" /\ row'[i].attempts = 0
               /\ \A j \in Items \ {i} : row'[j] = row[j]
    BY <1>1, <1>5 DEF TypeOK, Unleased, RowType
  <1>6. ASSUME NEW i \in Items, Enqueue(i) PROVE RowsOK' /\ AcksEarned'
    <2>1. row[i].state = "absent" /\ row' = [row EXCEPT ![i] = Unleased(row[i], "pending", clock, 0)]
          /\ UNCHANGED <<worker, succeeded, charged, rejected>>
      BY <1>6 DEF Enqueue, history
    <2>2. RowOK(i)'
      BY <1>1, <1>5, <2>1 DEF RowsOK, RowOK
    <2>3. RowsOK'
      BY <1>1, <1>5, <2>1, <2>2, OneRow
    <2> QED
      BY <1>4, <2>1, <2>3
  <1>7. ASSUME NEW i \in Items, RescheduleDeadLetter(i) PROVE RowsOK' /\ AcksEarned'
    <2>1. /\ row' = [row EXCEPT ![i] = Unleased(row[i], "pending", clock, 0)]
          /\ charged' = [charged EXCEPT ![i] = 0] /\ rejected' = rejected \ {i}
          /\ UNCHANGED <<worker, succeeded>>
      BY <1>7 DEF RescheduleDeadLetter
    <2>2. charged'[i] = 0 /\ \A j \in Items \ {i} : charged'[j] = charged[j]
      BY <1>1, <2>1 DEF TypeOK
    <2>3. RowOK(i)'
      BY <1>1, <1>5, <2>1, <2>2 DEF RowOK
    <2>4. RowsOK'
      BY <1>1, <1>5, <2>1, <2>2, <2>3, OneRow
    <2> QED
      BY <1>4, <2>1, <2>4
  <1>8. ASSUME NEW w \in Workers, Cycle(w) PROVE RowsOK' /\ AcksEarned'
    <2>0. worker[w] \in WorkerType
      BY <1>1 DEF TypeOK
    <2>1. CASE StartCycle(w)
      <3> DEFINE memory == [Idle EXCEPT !.phase = "outbox", !.now = clock]
      <3>1. memory.step # "settle"
        BY DEF Idle
      <3>2. Become(w, memory) /\ UNCHANGED <<row, charged, rejected, succeeded>>
        BY <2>1 DEF StartCycle, history
      <3> HIDE DEF memory
      <3> QED
        BY <1>1, <1>3, <3>1, <3>2, SameAcks
    <2>2. CASE ClaimQueue(w)
      <3>1. PICK b \in Batches(worker[w].phase, worker[w].now) :
              LET taken == {b[k] : k \in DOMAIN b}
              IN  /\ row' = [i \in Items |-> IF i \in taken
                                             THEN Leased(row[i], w, worker[w].now + LeaseTime)
                                             ELSE row[i]]
                  /\ Become(w, [worker[w] EXCEPT !.step = "run",
                               !.batch = [k \in 1..Len(b) |->
                                           [item |-> b[k], token |-> claims + 1,
                                            attempts |-> row[b[k]].attempts + 1]]])
                  /\ charged' = [i \in Items |-> IF i \in taken /\ row[i].state = "leased"
                                                 THEN charged[i] + 1
                                                 ELSE charged[i]]
        BY <2>2 DEF ClaimQueue
      <3>2. \A k \in DOMAIN b : b[k] \in Items /\ ReadyAt(row[b[k]], worker[w].now)
        BY BatchType
      <3>3. UNCHANGED <<succeeded, rejected>>
        BY <2>2 DEF ClaimQueue
      <3>4. ASSUME NEW i \in Items PROVE RowOK(i)'
        <4>1. CASE i \in {b[k] : k \in DOMAIN b}
          <5>1. row[i] \in RowType /\ row[i].state \in {"pending", "leased"}
            BY <1>1, <3>2, <4>1 DEF TypeOK, ReadyAt
          <5>2. row'[i].state = "leased" /\ row'[i].attempts = row[i].attempts + 1
            BY <3>1, <4>1, <5>1 DEF Leased, RowType
          <5>3. charged'[i] = IF row[i].state = "leased" THEN charged[i] + 1 ELSE charged[i]
            BY <3>1, <4>1
          <5> QED
            BY <1>1, <5>1, <5>2, <5>3 DEF RowsOK, RowOK
        <4>2. CASE i \notin {b[k] : k \in DOMAIN b}
          BY <1>1, <3>1, <3>3, <4>2 DEF RowsOK, RowOK
        <4> QED
          BY <4>1, <4>2
      <3> DEFINE memory ==
            [worker[w] EXCEPT !.step = "run",
               !.batch = [k \in 1..Len(b) |-> [item |-> b[k], token |-> claims + 1,
                                               attempts |-> row[b[k]].attempts + 1]]]
      <3>5. memory.step # "settle"
        BY <2>0 DEF WorkerType
      <3>6. Become(w, memory)
        BY <3>1
      <3> HIDE DEF memory
      <3> QED
        BY <1>1, <3>3, <3>4, <3>5, <3>6, SameAcks DEF RowsOK
    <2>3. CASE Process(w)
      <3>1. PICK outcome, until :
              /\ Become(w, [worker[w] EXCEPT !.step = "settle", !.outcome = outcome,
                                             !.deferUntil = until])
              /\ succeeded' = IF outcome = "ok"
                              THEN succeeded \cup {Head(worker[w].batch).item} ELSE succeeded
        BY <2>3 DEF Process
      <3>2. RowsOK'
        BY <1>3, <2>3, <3>1 DEF Process
      <3>3. /\ worker'[w].batch = worker[w].batch /\ worker'[w].outcome = outcome
            /\ \A v \in Workers \ {w} : worker'[v] = worker[v]
        BY <1>1, <2>0, <3>1 DEF Become, TypeOK, WorkerType
      <3>4. AcksEarned'
        BY <1>1, <3>1, <3>3 DEF AcksEarned
      <3> QED
        BY <3>2, <3>4
    <2>4. CASE AckFails(w)
      <3> DEFINE memory == [worker[w] EXCEPT !.outcome = "failed", !.deferUntil = 0]
      <3>1. memory.outcome # "ok"
        BY <2>0 DEF WorkerType
      <3>2. Become(w, memory) /\ UNCHANGED <<row, charged, rejected, succeeded>>
        BY <2>4 DEF AckFails, history
      <3> HIDE DEF memory
      <3> QED
        BY <1>1, <1>3, <3>1, <3>2, SameAcks
    <2>5. CASE SettleItem(w)
      BY <2>5, SettleBudget
    <2>6. CASE EndBatch(w)
      <3> DEFINE memory == IF worker[w].phase = "outbox"
                           THEN [Idle EXCEPT !.phase = "jobs", !.now = worker[w].now]
                           ELSE Idle
      <3>1. memory.step # "settle"
        BY DEF Idle
      <3>2. Become(w, memory) /\ UNCHANGED <<row, charged, rejected, succeeded>>
        BY <2>6 DEF EndBatch, history
      <3> HIDE DEF memory
      <3> QED
        BY <1>1, <1>3, <3>1, <3>2, SameAcks
    <2>7. CASE Stop(w)
      <3>1. Idle.step # "settle"
        BY DEF Idle
      <3>2. Become(w, Idle) /\ UNCHANGED <<row, charged, rejected, succeeded>>
        BY <2>7 DEF Stop, history
      <3> QED
        BY <1>1, <1>3, <3>1, <3>2, SameAcks
    <2> QED
      BY <1>8, <2>1, <2>2, <2>3, <2>4, <2>5, <2>6, <2>7 DEF Cycle
  <1>9. CASE Tick
    BY <1>3, <1>4, <1>9 DEF Tick, history
  <1>10. CASE UNCHANGED vars
    BY <1>3, <1>4, <1>10 DEF vars
  <1> QED
    BY <1>6, <1>7, <1>8, <1>9, <1>10 DEF Next

LEMMA BudgetInvariant == Spec => []BudgetInv
  BY InitBudget, NextBudget, PTL DEF Spec

(* Deferrals, takeovers and late answers never change how many attempts a  *)
(* row has used beyond its charged ones.                                   *)
THEOREM BudgetIsExact == Spec => []BudgetExact
  BY BudgetInvariant, BudgetInvImplies, PTL

(* No row dies before its budget is spent, unless it is rejected.          *)
THEOREM DeadLettersAreEarned == Spec => []DeadLetterEarned
  BY BudgetInvariant, BudgetInvImplies, PTL

(* Nothing is acknowledged before somebody has handled it.                 *)
THEOREM AcknowledgedWasProcessed == Spec => []DoneWasProcessed
  BY BudgetInvariant, BudgetInvImplies, PTL

-----------------------------------------------------------------------------
(* Who may settle.                                                         *)

(* Also when its lease is over: a claim that still matches its row is the  *)
(* latest claim of that row, and its worker is the owner the row names.    *)
HoldersOwn ==
    \A w \in Workers : \A k \in DOMAIN worker[w].batch :
        Matches(worker[w].batch[k]) => row[worker[w].batch[k].item].owner = w

(* Only jobs are handled in the second half of a cycle, and only there can *)
(* an item be deferred or rejected.                                        *)
JobsInJobBatches ==
    \A w \in Workers :
        /\ worker[w].phase = "jobs" =>
             \A k \in DOMAIN worker[w].batch : worker[w].batch[k].item \in Jobs
        /\ worker[w].outcome \in {"deferred", "rejected"} => worker[w].phase = "jobs"

HolderInv == LeaseInv /\ HoldersOwn /\ JobsInJobBatches

LEMMA InitHolder == Init => HolderInv
  <1> SUFFICES ASSUME Init PROVE HolderInv
    OBVIOUS
  <1>1. LeaseInv
    BY InitLease
  <1>2. \A w \in Workers : /\ worker[w].batch = <<>> /\ worker[w].phase = "idle"
                           /\ worker[w].outcome = "none"
    BY DEF Init, Idle
  <1>3. DOMAIN <<>> = {}
    OBVIOUS
  <1> QED
    BY <1>1, <1>2, <1>3 DEF HolderInv, HoldersOwn, JobsInJobBatches

LEMMA ItemsOfBatch ==
    ASSUME TypeOK, NEW w \in Workers, NEW k \in DOMAIN worker[w].batch
    PROVE  worker[w].batch[k].item \in Items /\ worker[w].batch[k].token \in Nat
  <1>1. worker[w].batch \in Seq(ClaimType)
    BY DEF TypeOK, WorkerType
  <1>2. worker[w].batch[k] \in ClaimType
    BY <1>1, LenProperties
  <1> QED
    BY <1>2 DEF ClaimType

(* What the four ways to settle an item have in common: the head leaves    *)
(* the batch, and its row leaves its lease if the claim still matches it.  *)
LEMMA SettleShape ==
    ASSUME TypeOK, NEW w \in Workers, SettleItem(w), NEW c, c = Head(worker[w].batch)
    PROVE  /\ worker[w].batch # <<>> /\ c.item \in Items
           /\ worker'[w].batch = Tail(worker[w].batch)
           /\ worker'[w].phase = worker[w].phase /\ worker'[w].outcome = "none"
           /\ \A v \in Workers \ {w} : worker'[v] = worker[v]
           /\ \A i \in Items \ {c.item} : row'[i] = row[i]
           /\ IF Matches(c) THEN row'[c.item].state # "leased" ELSE row' = row
  <1>1. worker[w].batch # <<>> /\ NextItem(w)
    BY DEF SettleItem, CompleteQueue, ReleaseQueue, DeferJob, MarkJobDeadLetter, Settling
  <1>2. c.item \in Items /\ row[c.item] \in RowType
    BY <1>1, HeadOfBatch DEF TypeOK
  <1>3. /\ worker'[w].batch = Tail(worker[w].batch)
        /\ worker'[w].phase = worker[w].phase /\ worker'[w].outcome = "none"
        /\ \A v \in Workers \ {w} : worker'[v] = worker[v]
    BY <1>1 DEF NextItem, Become, TypeOK, WorkerType
  <1>4. PICK state, at, attempts :
          /\ state \in {"done", "pending", "dead_letter"}
          /\ Update(c, Unleased(row[c.item], state, at, attempts))
    BY DEF SettleItem, CompleteQueue, ReleaseQueue, DeferJob, MarkJobDeadLetter
  <1>5. Unleased(row[c.item], state, at, attempts).state # "leased"
    BY <1>2, <1>4 DEF Unleased, RowType
  <1> QED
    BY <1>1, <1>2, <1>3, <1>4, <1>5 DEF Update, TypeOK

(* A step that leaves the rows alone and gives a worker no new claim.      *)
LEMMA HolderMemory ==
    ASSUME HolderInv, NEW w \in Workers, NEW memory, Become(w, memory), UNCHANGED row,
           \/ memory.batch = <<>>
           \/ memory.batch = worker[w].batch /\ memory.phase = worker[w].phase,
           memory.outcome \in {"deferred", "rejected"} => memory.phase = "jobs"
    PROVE  HoldersOwn' /\ JobsInJobBatches'
  <1>1. /\ worker'[w] = memory
        /\ \A v \in Workers \ {w} : worker'[v] = worker[v]
    BY DEF Become, HolderInv, LeaseInv, TypeOK
  <1>2. DOMAIN <<>> = {}
    OBVIOUS
  <1>3. HoldersOwn'
    BY <1>1, <1>2 DEF HolderInv, HoldersOwn, Matches
  <1>4. JobsInJobBatches'
    BY <1>1, <1>2 DEF HolderInv, JobsInJobBatches
  <1> QED
    BY <1>3, <1>4

LEMMA SettleHolder ==
    ASSUME HolderInv, NEW w \in Workers, SettleItem(w)
    PROVE  HoldersOwn' /\ JobsInJobBatches'
  <1>0. PICK c : c = Head(worker[w].batch)
    OBVIOUS
  <1>1. TypeOK
    BY DEF HolderInv, LeaseInv
  <1>2. /\ worker[w].batch # <<>> /\ c.item \in Items
        /\ worker'[w].batch = Tail(worker[w].batch)
        /\ worker'[w].phase = worker[w].phase /\ worker'[w].outcome = "none"
        /\ \A v \in Workers \ {w} : worker'[v] = worker[v]
        /\ \A i \in Items \ {c.item} : row'[i] = row[i]
        /\ IF Matches(c) THEN row'[c.item].state # "leased" ELSE row' = row
    BY <1>0, <1>1, SettleShape
  <1>3. \A k \in DOMAIN Tail(worker[w].batch) :
          /\ k + 1 \in DOMAIN worker[w].batch
          /\ Tail(worker[w].batch)[k] = worker[w].batch[k + 1]
    BY <1>1, <1>2, HeadOfBatch
  <1>4. ASSUME NEW v \in Workers, NEW k \in DOMAIN worker'[v].batch
        PROVE  \E j \in DOMAIN worker[v].batch : worker'[v].batch[k] = worker[v].batch[j]
    <2>1. CASE v = w
      <3>1. k \in DOMAIN Tail(worker[w].batch) /\ worker'[v].batch[k] = Tail(worker[w].batch)[k]
        BY <1>2, <2>1
      <3> QED
        BY <1>3, <2>1, <3>1
    <2>2. CASE v # w
      BY <1>2, <2>2
    <2> QED
      BY <2>1, <2>2
  <1>5. HoldersOwn'
    <2> SUFFICES ASSUME NEW v \in Workers, NEW k \in DOMAIN worker'[v].batch,
                        Matches(worker[v].batch[k])'
                 PROVE  row'[worker'[v].batch[k].item].owner = v
      BY DEF HoldersOwn
    <2>1. PICK j \in DOMAIN worker[v].batch : worker'[v].batch[k] = worker[v].batch[j]
      BY <1>4
    <2> DEFINE d == worker[v].batch[j]
    <2>2. d.item \in Items
      BY <1>1, ItemsOfBatch
    <2>3. row'[d.item].state = "leased" /\ row'[d.item].token = d.token
      BY <2>1 DEF Matches
    <2>4. row'[d.item] = row[d.item]
      BY <1>2, <2>2, <2>3
    <2>5. Matches(d)
      BY <2>3, <2>4 DEF Matches
    <2> QED
      BY <2>1, <2>4, <2>5 DEF HolderInv, HoldersOwn
  <1>6. JobsInJobBatches'
    <2> SUFFICES ASSUME NEW v \in Workers
                 PROVE  /\ worker'[v].phase = "jobs" =>
                             \A k \in DOMAIN worker'[v].batch : worker'[v].batch[k].item \in Jobs
                        /\ worker'[v].outcome \in {"deferred", "rejected"} =>
                             worker'[v].phase = "jobs"
      BY DEF JobsInJobBatches
    <2>1. worker'[v].phase = worker[v].phase
      BY <1>2
    <2>2. worker'[v].outcome \in {"deferred", "rejected"} => worker[v].phase = "jobs"
      BY <1>2 DEF HolderInv, JobsInJobBatches
    <2> QED
      BY <1>4, <2>1, <2>2 DEF HolderInv, JobsInJobBatches
  <1> QED
    BY <1>5, <1>6

(* The token of a claim is new, so no older claim of a taken row matches.  *)
LEMMA ClaimHolder ==
    ASSUME HolderInv, NEW w \in Workers, ClaimQueue(w)
    PROVE  HoldersOwn' /\ JobsInJobBatches'
  <1> DEFINE until == worker[w].now + LeaseTime
             Batch(b) == [k \in 1..Len(b) |-> [item |-> b[k], token |-> claims + 1,
                                               attempts |-> row[b[k]].attempts + 1]]
  <1>0. TypeOK /\ ClaimsHeld
    BY DEF HolderInv, LeaseInv
  <1>1. PICK b \in Batches(worker[w].phase, worker[w].now) :
          /\ row' = [i \in Items |-> IF i \in {b[k] : k \in DOMAIN b}
                                     THEN Leased(row[i], w, until) ELSE row[i]]
          /\ Become(w, [worker[w] EXCEPT !.step = "run", !.batch = Batch(b)])
    BY DEF ClaimQueue
  <1>2. /\ Len(b) \in Nat /\ DOMAIN b = 1..Len(b)
        /\ \A k \in 1..Len(b) : b[k] \in Items
    BY BatchType
  <1>3. /\ worker'[w].batch = Batch(b)
        /\ worker'[w].phase = worker[w].phase /\ worker'[w].outcome = worker[w].outcome
        /\ \A v \in Workers \ {w} : worker'[v] = worker[v]
    BY <1>0, <1>1 DEF Become, TypeOK, WorkerType
  <1>4. DOMAIN Batch(b) = DOMAIN b
        /\ \A k \in DOMAIN b : Batch(b)[k].item = b[k] /\ Batch(b)[k].token = claims + 1
    BY <1>2
  <1> HIDE DEF Batch
  <1>5. ASSUME NEW k \in DOMAIN b
        PROVE  row'[b[k]].owner = w /\ row'[b[k]].token = claims + 1
    <2>1. b[k] \in Items /\ row'[b[k]] = Leased(row[b[k]], w, until)
      BY <1>1, <1>2
    <2>2. row[b[k]] \in RowType
      BY <1>0, <2>1 DEF TypeOK
    <2> QED
      BY <2>1, <2>2 DEF Leased, RowType
  <1>6. HoldersOwn'
    <2> SUFFICES ASSUME NEW v \in Workers, NEW k \in DOMAIN worker'[v].batch,
                        Matches(worker[v].batch[k])'
                 PROVE  row'[worker'[v].batch[k].item].owner = v
      BY DEF HoldersOwn
    <2>1. CASE v = w
      BY <1>3, <1>4, <1>5, <2>1
    <2>2. CASE v # w
      <3> DEFINE d == worker[v].batch[k]
      <3>1. worker'[v] = worker[v]
        BY <1>3, <2>2
      <3>2. d.item \in Items /\ d.token \in Nat
        BY <1>0, <3>1, ItemsOfBatch
      <3>3. d.token <= claims /\ claims \in Nat
        BY <1>0, <3>1 DEF ClaimsHeld, TypeOK
      <3>4. row'[d.item].token = d.token /\ row'[d.item].state = "leased"
        BY <3>1 DEF Matches
      <3>5. d.token # claims + 1
        BY <3>2, <3>3
      <3>6. d.item \notin {b[j] : j \in DOMAIN b}
        BY <1>5, <3>4, <3>5
      <3>7. row'[d.item] = row[d.item]
        BY <1>1, <3>2, <3>6
      <3>8. Matches(d)
        BY <3>4, <3>7 DEF Matches
      <3> QED
        BY <3>1, <3>7, <3>8 DEF HolderInv, HoldersOwn
    <2> QED
      BY <2>1, <2>2
  <1>7. JobsInJobBatches'
    <2>1. \A k \in DOMAIN b : b[k] \in Table(worker[w].phase)
      <3> DEFINE ready == {i \in Table(worker[w].phase) : ReadyAt(row[i], worker[w].now)}
      <3>1. PICK n \in 0..BatchSize : b \in [1..n -> ready]
        BY DEF Batches
      <3> QED
        BY <3>1
    <2>2. worker[w].phase = "jobs" => \A k \in DOMAIN b : b[k] \in Jobs
      BY <2>1 DEF Table
    <2> QED
      BY <1>3, <1>4, <2>2 DEF HolderInv, JobsInJobBatches
  <1> QED
    BY <1>6, <1>7

LEMMA NextHolder == HolderInv /\ [Next]_vars => HolderInv'
  <1> SUFFICES ASSUME HolderInv, [Next]_vars PROVE HolderInv'
    OBVIOUS
  <1>1. LeaseInv /\ LeaseInv' /\ TypeOK
    BY NextLease DEF HolderInv, LeaseInv
  <1>2. SUFFICES HoldersOwn' /\ JobsInJobBatches'
    BY <1>1 DEF HolderInv
  <1>3. ASSUME NEW i \in Items, UNCHANGED worker, row'[i].state # "leased",
               \A j \in Items \ {i} : row'[j] = row[j]
        PROVE  HoldersOwn' /\ JobsInJobBatches'
    <2>1. \A w \in Workers : \A k \in DOMAIN worker[w].batch : worker[w].batch[k].item \in Items
      BY <1>1, ItemsOfBatch
    <2>2. HoldersOwn'
      BY <1>3, <2>1 DEF HolderInv, HoldersOwn, Matches
    <2> QED
      BY <1>3, <2>2 DEF HolderInv, JobsInJobBatches
  <1>4. ASSUME NEW i \in Items, row' = [row EXCEPT ![i] = Unleased(row[i], "pending", clock, 0)]
        PROVE  row'[i].state # "leased" /\ \A j \in Items \ {i} : row'[j] = row[j]
    BY <1>1, <1>4 DEF TypeOK, Unleased, RowType
  <1>5. ASSUME NEW i \in Items, Enqueue(i) PROVE HoldersOwn' /\ JobsInJobBatches'
    BY <1>3, <1>4, <1>5 DEF Enqueue
  <1>6. ASSUME NEW i \in Items, RescheduleDeadLetter(i) PROVE HoldersOwn' /\ JobsInJobBatches'
    BY <1>3, <1>4, <1>6 DEF RescheduleDeadLetter
  <1>7. ASSUME NEW w \in Workers, Cycle(w) PROVE HoldersOwn' /\ JobsInJobBatches'
    <2>0. worker[w] \in WorkerType
      BY <1>1 DEF TypeOK
    <2>1. CASE StartCycle(w)
      <3> DEFINE memory == [Idle EXCEPT !.phase = "outbox", !.now = clock]
      <3>1. memory.batch = <<>> /\ memory.outcome = "none"
        BY DEF Idle
      <3>2. Become(w, memory) /\ UNCHANGED row
        BY <2>1 DEF StartCycle
      <3> HIDE DEF memory
      <3> QED
        BY <3>1, <3>2, HolderMemory
    <2>2. CASE ClaimQueue(w)
      BY <2>2, ClaimHolder
    <2>3. CASE Process(w)
      <3>1. PICK outcome, until :
              /\ Become(w, [worker[w] EXCEPT !.step = "settle", !.outcome = outcome,
                                             !.deferUntil = until])
              /\ outcome \in {"deferred", "rejected"} => worker[w].phase = "jobs"
        BY <2>3 DEF Process
      <3> DEFINE memory == [worker[w] EXCEPT !.step = "settle", !.outcome = outcome,
                                             !.deferUntil = until]
      <3>2. /\ memory.batch = worker[w].batch /\ memory.phase = worker[w].phase
            /\ memory.outcome = outcome
        BY <2>0 DEF WorkerType
      <3>3. Become(w, memory) /\ UNCHANGED row
        BY <2>3, <3>1 DEF Process
      <3> HIDE DEF memory
      <3> QED
        BY <3>1, <3>2, <3>3, HolderMemory
    <2>4. CASE AckFails(w)
      <3> DEFINE memory == [worker[w] EXCEPT !.outcome = "failed", !.deferUntil = 0]
      <3>1. /\ memory.batch = worker[w].batch /\ memory.phase = worker[w].phase
            /\ memory.outcome = "failed"
        BY <2>0 DEF WorkerType
      <3>2. Become(w, memory) /\ UNCHANGED row
        BY <2>4 DEF AckFails
      <3> HIDE DEF memory
      <3> QED
        BY <3>1, <3>2, HolderMemory
    <2>5. CASE SettleItem(w)
      BY <2>5, SettleHolder
    <2>6. CASE EndBatch(w)
      <3> DEFINE memory == IF worker[w].phase = "outbox"
                           THEN [Idle EXCEPT !.phase = "jobs", !.now = worker[w].now]
                           ELSE Idle
      <3>1. memory.batch = <<>> /\ memory.outcome = "none"
        BY DEF Idle
      <3>2. Become(w, memory) /\ UNCHANGED row
        BY <2>6 DEF EndBatch
      <3> HIDE DEF memory
      <3> QED
        BY <3>1, <3>2, HolderMemory
    <2>7. CASE Stop(w)
      <3>1. Idle.batch = <<>> /\ Idle.outcome = "none"
        BY DEF Idle
      <3>2. Become(w, Idle) /\ UNCHANGED row
        BY <2>7 DEF Stop
      <3> QED
        BY <3>1, <3>2, HolderMemory
    <2> QED
      BY <1>7, <2>1, <2>2, <2>3, <2>4, <2>5, <2>6, <2>7 DEF Cycle
  <1>8. CASE UNCHANGED <<row, worker>>
    BY <1>8 DEF HolderInv, HoldersOwn, JobsInJobBatches, Matches
  <1> QED
    BY <1>5, <1>6, <1>7, <1>8 DEF Next, Tick, vars

LEMMA HolderInvariant == Spec => []HolderInv
  BY InitHolder, NextHolder, PTL DEF Spec

(* A row leaves its lease only when its latest claimant settles it: a      *)
(* worker that was taken over changes nothing when it finally answers.     *)
THEOREM OnlyHoldersSettle == Spec => SettledByHolder
  <1> DEFINE Left(i) == row[i].state = "leased" /\ row'[i].state # "leased"
             Holder(i, w) == /\ worker[w].batch # <<>>
                             /\ Head(worker[w].batch).item = i
                             /\ Head(worker[w].batch).token = row[i].token
                             /\ worker'[w].batch = Tail(worker[w].batch)
  <1>1. TypeOK /\ [Next]_vars => [\A i \in Items : Left(i) => \E w \in Workers : Holder(i, w)]_vars
    <2> SUFFICES ASSUME TypeOK, Next, NEW i \in Items, Left(i)
                 PROVE  \E w \in Workers : Holder(i, w)
      OBVIOUS
    <2>1. ASSUME NEW j \in Items, row[j].state # "leased",
                 row' = [row EXCEPT ![j] = Unleased(row[j], "pending", clock, 0)]
          PROVE  FALSE
      BY <2>1 DEF TypeOK
    <2>2. ASSUME NEW j \in Items, Enqueue(j) \/ RescheduleDeadLetter(j)
          PROVE  FALSE
      BY <2>1, <2>2 DEF Enqueue, RescheduleDeadLetter
    <2>3. PICK w \in Workers : Cycle(w)
      BY <2>2 DEF Next, Tick
    <2>4. ASSUME ClaimQueue(w) PROVE FALSE
      <3> DEFINE until == worker[w].now + LeaseTime
      <3>1. PICK b \in Batches(worker[w].phase, worker[w].now) :
              row' = [k \in Items |-> IF k \in {b[j] : j \in DOMAIN b}
                                      THEN Leased(row[k], w, until) ELSE row[k]]
        BY <2>4 DEF ClaimQueue
      <3>2. row[i] \in RowType
        BY DEF TypeOK
      <3>3. Leased(row[i], w, until).state = "leased"
        BY <3>2 DEF Leased, RowType
      <3> QED
        BY <3>1, <3>3
    <2>5. SettleItem(w)
      BY <2>3, <2>4 DEF Cycle, StartCycle, Process, AckFails, EndBatch, Stop
    <2> DEFINE c == Head(worker[w].batch)
    <2>6. /\ worker[w].batch # <<>> /\ worker'[w].batch = Tail(worker[w].batch)
          /\ \A j \in Items \ {c.item} : row'[j] = row[j]
          /\ IF Matches(c) THEN row'[c.item].state # "leased" ELSE row' = row
      BY <2>5, SettleShape
    <2>7. c.item = i /\ Matches(c)
      BY <2>6
    <2> QED
      BY <2>6, <2>7 DEF Matches
  <1> QED
    BY <1>1, QueueTyped, PTL DEF Spec, SettledByHolder

-----------------------------------------------------------------------------
(* The contract.                                                           *)

(* The rows as the contract of the queue sees them.                        *)
QueueRows == [i \in Items |-> [state |-> row[i].state, attempts |-> row[i].attempts,
                               owner |-> row[i].owner]]

LEMMA InitContract == Init => Contract!Init
  BY DEF Init, Contract!Init

(* A step that writes one row without a lease, as the contract sees it.    *)
LEMMA UnleasedContract ==
    ASSUME TypeOK, NEW i \in Items, NEW state, NEW at, NEW attempts,
           row' = [row EXCEPT ![i] = Unleased(row[i], state, at, attempts)]
    PROVE  Contract!Unowned(i, state, attempts)
  <1>1. row[i] \in RowType
    BY DEF TypeOK
  <1> DEFINE new == Unleased(row[i], state, at, attempts)
  <1>2. new.state = state /\ new.attempts = attempts /\ new.owner = NoOwner
    BY <1>1 DEF Unleased, RowType
  <1>3. row' = [row EXCEPT ![i] = new]
    OBVIOUS
  <1> HIDE DEF new
  <1>4. row'[i] = new /\ \A j \in Items \ {i} : row'[j] = row[j]
    BY <1>3 DEF TypeOK
  <1>5. QueueRows' = [QueueRows EXCEPT ![i] = [state |-> state, attempts |-> attempts,
                                               owner |-> NoOwner]]
    BY <1>2, <1>4 DEF QueueRows
  <1> QED
    BY <1>5 DEF QueueRows, Contract!Unowned

(* A settled item is settled by the owner the row names, and the way it is *)
(* settled is one the contract allows for its table.                       *)
LEMMA SettleContract ==
    ASSUME HolderInv, NEW w \in Workers, SettleItem(w)
    PROVE  Contract!Next \/ UNCHANGED row
  <1>0. PICK c : c = Head(worker[w].batch)
    OBVIOUS
  <1>1. TypeOK /\ worker[w].batch # <<>>
    BY DEF HolderInv, LeaseInv, SettleItem, CompleteQueue, ReleaseQueue, DeferJob,
       MarkJobDeadLetter, Settling
  <1>2. c.item \in Items /\ 1 \in DOMAIN worker[w].batch /\ c = worker[w].batch[1]
    BY <1>0, <1>1, HeadOfBatch
  <1>3. CASE ~Matches(c)
    BY <1>0, <1>1, <1>3, SettleShape
  <1>4. CASE Matches(c)
    <2>0. PICK i \in Items : i = c.item
      BY <1>2
    <2>1. row[i].state = "leased" /\ row[i].owner = w
      BY <1>2, <1>4, <2>0 DEF HolderInv, HoldersOwn, Matches
    <2>2. Contract!Holds(w, i)
      BY <2>1 DEF Contract!Holds
    <2>3. worker[w].outcome \in {"deferred", "rejected"} => i \in Jobs
      BY <1>2, <2>0 DEF HolderInv, JobsInJobBatches
    <2>4. ASSUME NEW new, Update(c, new)
          PROVE  row'[i] = new /\ \A j \in Items \ {i} : row'[j] = row[j]
      BY <1>1, <1>4, <2>0, <2>4 DEF Update, TypeOK
    <2>5. \A state, at, attempts :
             LET r == Unleased(row[i], state, at, attempts)
             IN  r.state = state /\ r.attempts = attempts /\ r.owner = NoOwner
      BY <1>1 DEF Unleased, RowType, TypeOK
    <2>6. CASE CompleteQueue(w)
      <3> DEFINE new == Unleased(row[i], "done", row[i].availableAt, row[i].attempts)
      <3>1. Update(c, new)
        BY <1>0, <2>0, <2>6 DEF CompleteQueue
      <3>2. new.state = "done" /\ new.attempts = row[i].attempts /\ new.owner = NoOwner
        BY <2>5
      <3> HIDE DEF new
      <3>3. /\ row'[i].state = "done" /\ row'[i].attempts = row[i].attempts
            /\ row'[i].owner = NoOwner /\ \A j \in Items \ {i} : row'[j] = row[j]
        BY <2>4, <3>1, <3>2
      <3>5. Contract!Complete(w, i)
        BY <2>2, <3>3 DEF Contract!Complete, Contract!Unowned
      <3> QED
        BY <3>5 DEF Contract!Next, Contract!Settle
    <2>7. CASE ReleaseQueue(w)
      <3> DEFINE state == IF row[i].attempts >= MaxAttempts THEN "dead_letter" ELSE "pending"
                 new == Unleased(row[i], state, worker[w].now + Backoff(c.attempts),
                                 row[i].attempts)
      <3>1. Update(c, new)
        BY <1>0, <2>0, <2>7 DEF ReleaseQueue
      <3>2. new.state = state /\ new.attempts = row[i].attempts /\ new.owner = NoOwner
        BY <2>5
      <3> HIDE DEF new
      <3>3. /\ row'[i].state = state /\ row'[i].attempts = row[i].attempts
            /\ row'[i].owner = NoOwner /\ \A j \in Items \ {i} : row'[j] = row[j]
        BY <2>4, <3>1, <3>2
      <3>5. Contract!Release(w, i)
        BY <2>2, <3>3 DEF Contract!Release, Contract!Unowned
      <3> QED
        BY <3>5 DEF Contract!Next, Contract!Settle
    <2>8. CASE DeferJob(w)
      <3> DEFINE attempts == IF row[i].attempts = 0 THEN 0 ELSE row[i].attempts - 1
                 new == Unleased(row[i], "pending", worker[w].deferUntil, attempts)
      <3>1. Update(c, new)
        BY <1>0, <2>0, <2>8 DEF DeferJob
      <3>2. new.state = "pending" /\ new.attempts = attempts /\ new.owner = NoOwner
        BY <2>5
      <3> HIDE DEF new
      <3>3. /\ row'[i].state = "pending" /\ row'[i].attempts = attempts
            /\ row'[i].owner = NoOwner /\ \A j \in Items \ {i} : row'[j] = row[j]
        BY <2>4, <3>1, <3>2
      <3>4. i \in Jobs
        BY <2>3, <2>8 DEF DeferJob, Settling
      <3>5. Contract!Defer(w, i)
        BY <2>2, <3>3, <3>4 DEF Contract!Defer, Contract!Unowned
      <3> QED
        BY <3>5 DEF Contract!Next, Contract!Settle
    <2>9. CASE MarkJobDeadLetter(w)
      <3> DEFINE new == Unleased(row[i], "dead_letter", row[i].availableAt, row[i].attempts)
      <3>1. Update(c, new)
        BY <1>0, <2>0, <2>9 DEF MarkJobDeadLetter
      <3>2. new.state = "dead_letter" /\ new.attempts = row[i].attempts /\ new.owner = NoOwner
        BY <2>5
      <3> HIDE DEF new
      <3>3. /\ row'[i].state = "dead_letter" /\ row'[i].attempts = row[i].attempts
            /\ row'[i].owner = NoOwner /\ \A j \in Items \ {i} : row'[j] = row[j]
        BY <2>4, <3>1, <3>2
      <3>4. i \in Jobs
        BY <2>3, <2>9 DEF MarkJobDeadLetter, Settling
      <3>5. Contract!Reject(w, i)
        BY <2>2, <3>3, <3>4 DEF Contract!Reject, Contract!Unowned
      <3> QED
        BY <3>5 DEF Contract!Next, Contract!Settle
    <2> QED
      BY <2>6, <2>7, <2>8, <2>9 DEF SettleItem
  <1> QED
    BY <1>3, <1>4

(* The rows a claim takes are pending, or leased with a lease that is over. *)
LEMMA ClaimContract ==
    ASSUME TypeOK, NEW w \in Workers, ClaimQueue(w)
    PROVE  Contract!Next
  <1>1. PICK b \in Batches(worker[w].phase, worker[w].now) :
          row' = [i \in Items |-> IF i \in {b[k] : k \in DOMAIN b}
                                  THEN Leased(row[i], w, worker[w].now + LeaseTime) ELSE row[i]]
    BY DEF ClaimQueue
  <1> DEFINE taken == {b[k] : k \in DOMAIN b}
  <1>2. \A k \in DOMAIN b : b[k] \in Items /\ ReadyAt(row[b[k]], worker[w].now)
    BY BatchType
  <1>3. /\ taken \in SUBSET Items
        /\ \A i \in taken : row[i].state \in {"pending", "leased"}
    BY <1>2 DEF ReadyAt
  <1>4. \A i \in Items : row[i] \in RowType
    BY DEF TypeOK
  <1>5. \A i \in Items : LET r == Leased(row[i], w, worker[w].now + LeaseTime)
                         IN  /\ r.state = "leased" /\ r.attempts = row[i].attempts + 1
                             /\ r.owner = w
    BY <1>4 DEF Leased, RowType
  <1>6. \A i \in Items : row'[i] = IF i \in taken
                                   THEN Leased(row[i], w, worker[w].now + LeaseTime) ELSE row[i]
    BY <1>1
  <1> HIDE DEF taken
  <1>7. QueueRows' = [i \in Items |->
                        IF i \in taken
                        THEN [state |-> "leased", attempts |-> QueueRows[i].attempts + 1, owner |-> w]
                        ELSE QueueRows[i]]
    BY <1>5, <1>6 DEF QueueRows
  <1>8. \A i \in taken : QueueRows[i].state \in {"pending", "leased"}
    BY <1>3 DEF QueueRows
  <1>9. Contract!Claim(w, taken)
    BY <1>7, <1>8 DEF QueueRows, Contract!Claim
  <1> QED
    BY <1>3, <1>9 DEF Contract!Next

LEMMA NextContract == HolderInv /\ [Next]_vars => [Contract!Next]_QueueRows
  <1> SUFFICES ASSUME HolderInv, [Next]_vars PROVE Contract!Next \/ UNCHANGED row
    BY DEF QueueRows
  <1>1. TypeOK
    BY DEF HolderInv, LeaseInv
  <1>2. ASSUME NEW i \in Items, Enqueue(i) PROVE Contract!Next
    <2>1. Contract!Unowned(i, "pending", 0)
      BY <1>1, <1>2, UnleasedContract DEF Enqueue
    <2>2. Contract!Enqueue(i)
      BY <1>2, <2>1 DEF Enqueue, Contract!Enqueue
    <2> QED
      BY <2>2 DEF Contract!Next
  <1>3. ASSUME NEW i \in Items, RescheduleDeadLetter(i) PROVE Contract!Next
    <2>1. Contract!Unowned(i, "pending", 0)
      BY <1>1, <1>3, UnleasedContract DEF RescheduleDeadLetter
    <2>2. Contract!Reschedule(i)
      BY <1>3, <2>1 DEF RescheduleDeadLetter, Contract!Reschedule
    <2> QED
      BY <2>2 DEF Contract!Next
  <1>4. ASSUME NEW w \in Workers, Cycle(w) PROVE Contract!Next \/ UNCHANGED row
    BY <1>1, <1>4, SettleContract, ClaimContract
    DEF Cycle, StartCycle, Process, AckFails, EndBatch, Stop
  <1> QED
    BY <1>2, <1>3, <1>4 DEF Next, Tick, vars

(* Leases that expire on a clock, tokens, batches and late answers amount  *)
(* to the contract: each step of the tables is one the contract allows, or *)
(* changes nothing the contract speaks of.                                 *)
THEOREM QueueKeepsItsContract == Spec => ImplementsLeasedQueue
  <1>1. Init => Contract!Init
    BY InitContract
  <1>2. HolderInv /\ [Next]_vars => [Contract!Next]_QueueRows
    BY NextContract
  <1> QED
    BY <1>1, <1>2, HolderInvariant, PTL DEF Spec, ImplementsLeasedQueue, Contract!Spec, QueueRows

=============================================================================
