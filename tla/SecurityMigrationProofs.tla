---------------------- MODULE SecurityMigrationProofs -----------------------
(* A migration can be taken up while it is open and ends as a whole,       *)
(* certified, audited and told as it ended: for all numbers of objects,    *)
(* batches, calls, keys and ingests, and with no use of the bounds.        *)
EXTENDS SecurityMigration, SequenceTheorems, TLAPS

(* Versions start with 1, and a snapshot is taken of moved objects only.   *)
ProgressInv ==
    /\ migration.version >= 1
    /\ OpenIsRestorable
    /\ EndsWhole
    /\ snapshot # <<>> /\ migration.state \notin Terminal => migration.migrated = TotalItems

(* Evidence is spent only by an end.                                       *)
EvidenceInv ==
    /\ EndsCertified
    /\ \A e \in DOMAIN evidence : evidence[e].round <= migration.version

(* A call that was checked has not seen a later version than there is now, *)
(* and its evidence was asked for since.                                   *)
CallFits(h) ==
    /\ handler[h].pc \notin {"idle", "receipt", "check"} => handler[h].expected <= migration.version
    /\ handler[h].pc \in {"ask", "record"} => handler[h].evidence # 0
    /\ handler[h].evidence # 0 =>
         /\ handler[h].evidence \in DOMAIN evidence
         /\ handler[h].expected <= evidence[handler[h].evidence].round

(* What was told or may be told again is how the migration ended.          *)
OutcomeInv ==
    /\ AuditedOnce
    /\ AnswersAreTrue
    /\ \A r \in receipts : Outcome(r.kind) = migration.state

Inv ==
    /\ TypeOK
    /\ ProgressInv
    /\ EvidenceInv
    /\ \A h \in Handlers : CallFits(h)
    /\ OutcomeInv

LEMMA IdleTyped ==
  /\ IdleHandler \in HandlerType
  /\ IdleHandler.pc = "idle" /\ IdleHandler.evidence = 0
  BY MigrationAssumption DEF IdleHandler, HandlerType

LEMMA InitInv == Init => Inv
  <1> SUFFICES ASSUME Init PROVE Inv
    OBVIOUS
  <1>1. TypeOK
    <2>1. migration \in [state : States, migrated : 0..TotalItems, version : Nat]
      BY MigrationAssumption DEF Init, States
    <2>2. object \in [Objects -> ObjectType]
      BY DEF Init, ObjectType
    <2>3. handler \in [Handlers -> HandlerType]
      BY IdleTyped DEF Init
    <2>4. evidence \in Seq(EvidenceType) /\ audits \in Seq(Terminal \cup {"recovery_required"})
      BY DEF Init
    <2>5. outbound \in BOOLEAN
      BY DEF Init
    <2> QED
      BY <2>1, <2>2, <2>3, <2>4, <2>5 DEF Init, TypeOK
  <1>2. ProgressInv
    BY MigrationAssumption
    DEF Init, ProgressInv, OpenIsRestorable, MovedPrefix, InventoryValid, SnapshotIsKept, EndsWhole,
        Objects
  <1>3. EvidenceInv
    BY DEF Init, EvidenceInv, EndsCertified, Spent, Terminal
  <1>4. \A h \in Handlers : CallFits(h)
    BY IdleTyped DEF Init, CallFits
  <1>5. OutcomeInv
    BY DEF Init, OutcomeInv, AuditedOnce, AnswersAreTrue, Terminal
  <1> QED
    BY <1>1, <1>2, <1>3, <1>4, <1>5 DEF Inv

-----------------------------------------------------------------------------
(* What the parts of the invariant need.                                   *)

(* A call in progress keeps fitting when time goes on.                     *)
LEMMA CallsStay ==
  ASSUME Inv, NEW h \in Handlers, NEW c \in HandlerType, handler' = [handler EXCEPT ![h] = c],
         migration'.version \in Nat, migration.version <= migration'.version,
         DOMAIN evidence \subseteq DOMAIN evidence',
         \A e \in DOMAIN evidence : evidence'[e].round = evidence[e].round,
         c.pc \notin {"idle", "receipt", "check"} => c.expected <= migration'.version,
         c.pc \in {"ask", "record"} => c.evidence # 0,
         c.evidence # 0 => /\ c.evidence \in DOMAIN evidence'
                           /\ c.expected <= evidence'[c.evidence].round
  PROVE  \A g \in Handlers : CallFits(g)'
  <1>1. handler \in [Handlers -> HandlerType] /\ migration.version \in Nat
    BY DEF Inv, TypeOK
  <1>2. handler'[h] = c /\ \A g \in Handlers : g # h => handler'[g] = handler[g]
    BY <1>1
  <1>3. ASSUME NEW g \in Handlers PROVE CallFits(g)'
    <2>1. CASE g = h
      BY <1>2, <2>1 DEF CallFits
    <2>2. CASE g # h
      <3>1. handler'[g] = handler[g] /\ handler[g].expected \in Nat /\ CallFits(g)
        BY <1>1, <1>2, <2>2 DEF Inv, HandlerType
      <3> QED
        BY <1>1, <3>1 DEF CallFits
    <2> QED
      BY <2>1, <2>2
  <1> QED
    BY <1>3

(* The same without a call that changes.                                   *)
LEMMA AllCallsStay ==
  ASSUME Inv, handler' = handler,
         migration'.version \in Nat, migration.version <= migration'.version,
         DOMAIN evidence \subseteq DOMAIN evidence',
         \A e \in DOMAIN evidence : evidence'[e].round = evidence[e].round
  PROVE  \A g \in Handlers : CallFits(g)'
  <1>1. handler \in [Handlers -> HandlerType] /\ migration.version \in Nat
    BY DEF Inv, TypeOK
  <1>2. ASSUME NEW g \in Handlers PROVE CallFits(g)'
    <2>1. handler[g].expected \in Nat /\ CallFits(g)
      BY <1>1 DEF Inv, HandlerType
    <2> QED
      BY <1>1, <2>1 DEF CallFits
  <1> QED
    BY <1>2

(* While the migration is open nothing has been spent, told or promised.   *)
LEMMA OpenSaysNothing ==
  ASSUME Inv, migration.state \notin Terminal
  PROVE  /\ Spent = {} /\ told = {} /\ receipts = {}
         /\ \A n \in DOMAIN audits : audits[n] \notin Terminal
  <1>1. \A kind \in {"commit", "rollback"} : Outcome(kind) \in Terminal
    BY DEF Outcome, Terminal
  <1>2. receipts = {}
    BY <1>1 DEF Inv, TypeOK, OutcomeInv
  <1>3. told = {}
    BY DEF Inv, TypeOK, OutcomeInv, AnswersAreTrue
  <1>4. \A n \in DOMAIN audits : audits[n] \notin Terminal
    BY DEF Inv, OutcomeInv, AuditedOnce
  <1> QED
    BY <1>2, <1>3, <1>4 DEF Inv, EvidenceInv, EndsCertified

(* It stays so as long as it is open, with a demotion audited or not.      *)
LEMMA StaysOpen ==
  ASSUME Inv, migration.state \notin Terminal, migration'.state \notin Terminal,
         migration'.version \in Nat, migration.version <= migration'.version,
         UNCHANGED <<evidence, receipts, told>>,
         audits' \in {audits, Append(audits, "recovery_required")}
  PROVE  EvidenceInv' /\ OutcomeInv' /\ audits' \in Seq(Terminal \cup {"recovery_required"})
  <1>1. /\ evidence \in Seq(EvidenceType) /\ migration.version \in Nat
        /\ audits \in Seq(Terminal \cup {"recovery_required"})
    BY DEF Inv, TypeOK
  <1>2. audits' \in Seq(Terminal \cup {"recovery_required"})
    BY <1>1
  <1>3. \A n \in DOMAIN audits' : audits'[n] \notin Terminal
    <2>1. CASE audits' = audits
      BY <2>1, OpenSaysNothing
    <2>2. CASE audits' = Append(audits, "recovery_required")
      <3>1. ASSUME NEW n \in DOMAIN audits' PROVE audits'[n] \notin Terminal
        <4>1. n \in DOMAIN audits \/ n = Len(audits) + 1
          BY <1>1, <2>2, <3>1
        <4>2. CASE n \in DOMAIN audits
          BY <1>1, <2>2, <4>2, OpenSaysNothing
        <4>3. CASE n = Len(audits) + 1
          BY <1>1, <2>2, <4>3 DEF Terminal
        <4> QED
          BY <4>1, <4>2, <4>3
      <3> QED
        BY <3>1
    <2> QED
      BY <2>1, <2>2
  <1>4. EvidenceInv'
    <2>1. ASSUME NEW e \in DOMAIN evidence PROVE evidence[e].round <= migration'.version
      <3>1. evidence[e] \in EvidenceType
        BY <1>1
      <3>2. evidence[e].round \in Nat /\ evidence[e].round <= migration.version
        BY <3>1 DEF Inv, EvidenceInv, EvidenceType
      <3> QED
        BY <1>1, <3>2
    <2> QED
      BY <2>1, OpenSaysNothing DEF EvidenceInv, EndsCertified, Spent, Terminal
  <1>5. OutcomeInv'
    BY <1>3, OpenSaysNothing DEF OutcomeInv, AuditedOnce, AnswersAreTrue
  <1> QED
    BY <1>2, <1>4, <1>5

(* Evidence is asked for, recorded, or expires: none of that spends it.    *)
LEMMA EvidenceMoves ==
  ASSUME Inv, UNCHANGED migration, evidence' \in Seq(EvidenceType),
         DOMAIN evidence \subseteq DOMAIN evidence',
         \A e \in DOMAIN evidence :
            /\ evidence'[e].round = evidence[e].round
            /\ evidence'[e].purpose = evidence[e].purpose
            /\ evidence'[e].status = "consumed" <=> evidence[e].status = "consumed"
            /\ evidence[e].status = "consumed" => evidence'[e].converged = evidence[e].converged,
         \A e \in DOMAIN evidence' \ DOMAIN evidence :
            evidence'[e].status # "consumed" /\ evidence'[e].round <= migration.version
  PROVE  EvidenceInv'
  <1>1. Spent' = Spent
    BY DEF Spent
  <1>2. \A e \in DOMAIN evidence' : evidence'[e].round <= migration.version
    BY DEF Inv, EvidenceInv
  <1>3. \A e \in Spent : e \in DOMAIN evidence /\ evidence[e].status = "consumed"
    BY DEF Spent
  <1> QED
    BY <1>1, <1>2, <1>3 DEF Inv, EvidenceInv, EndsCertified

(* The rows a call that only reads leaves alone.                           *)
rows == <<migration, object, snapshot, evidence, ingesting, outbound, receipts, audits>>

(* What a call is told is how the migration ended, or nothing.             *)
LEMMA CallMoves ==
  ASSUME Inv, UNCHANGED rows, NEW h \in Handlers, NEW c \in HandlerType,
         handler' = [handler EXCEPT ![h] = c], calls' \in Nat,
         \/ told' = told
         \/ told' = told \cup {migration.state} /\ migration.state \in Terminal,
         c.pc \notin {"idle", "receipt", "check"} => c.expected <= migration.version,
         c.pc \in {"ask", "record"} => c.evidence # 0,
         c.evidence # 0 => /\ c.evidence \in DOMAIN evidence
                           /\ c.expected <= evidence[c.evidence].round
  PROVE  Inv'
  <1>1. migration.version \in Nat
    BY DEF Inv, TypeOK
  <1>2. \A g \in Handlers : CallFits(g)'
    <2>1. /\ migration' = migration /\ evidence' = evidence
          /\ migration.version <= migration.version
      BY <1>1 DEF rows
    <2> QED
      BY <1>1, <2>1, CallsStay
  <1>3. TypeOK'
    BY DEF Inv, TypeOK, rows
  <1>4. ProgressInv'
    BY DEF Inv, ProgressInv, OpenIsRestorable, MovedPrefix, InventoryValid, SnapshotIsKept,
           EndsWhole, rows
  <1>5. EvidenceInv'
    BY DEF Inv, EvidenceInv, EndsCertified, Spent, rows
  <1>6. OutcomeInv'
    BY DEF Inv, OutcomeInv, AuditedOnce, AnswersAreTrue, rows
  <1> QED
    BY <1>2, <1>3, <1>4, <1>5, <1>6 DEF Inv

LEMMA FailKeeps ==
  ASSUME Inv, UNCHANGED rows, UNCHANGED calls, NEW h \in Handlers, Fail(h)
  PROVE  Inv'
  <1>1. calls' \in Nat
    BY DEF Inv, TypeOK
  <1> QED
    BY <1>1, IdleTyped, CallMoves DEF Fail

(* A call goes on that fits where it goes.                                 *)
LEMMA GotoKeeps ==
  ASSUME Inv, UNCHANGED rows, UNCHANGED <<calls, told>>, NEW h \in Handlers,
         NEW pc \in {"check", "issue", "record", "write", "demote_checked", "demote"},
         NEW converged \in BOOLEAN,
         handler' = [handler EXCEPT ![h].pc = pc, ![h].converged = converged],
         pc # "check" => handler[h].expected <= migration.version,
         pc = "record" => handler[h].evidence # 0
  PROVE  Inv'
  <1> DEFINE c == [handler[h] EXCEPT !.pc = pc, !.converged = converged]
  <1>1. handler \in [Handlers -> HandlerType] /\ handler[h] \in HandlerType /\ calls' \in Nat
    BY DEF Inv, TypeOK
  <1>2. /\ c \in HandlerType /\ c.pc = pc /\ c.expected = handler[h].expected
        /\ c.evidence = handler[h].evidence /\ handler' = [handler EXCEPT ![h] = c]
    BY <1>1 DEF HandlerType
  <1> HIDE DEF c
  <1>3. /\ c.pc \notin {"idle", "receipt", "check"} => c.expected <= migration.version
        /\ c.pc \in {"ask", "record"} => c.evidence # 0
        /\ c.evidence # 0 => /\ c.evidence \in DOMAIN evidence
                             /\ c.expected <= evidence[c.evidence].round
    BY <1>2 DEF Inv, CallFits
  <1>4. told' = told
    OBVIOUS
  <1> QED
    BY <1>1, <1>2, <1>3, <1>4, CallMoves

LEMMA GotoIsStep ==
  ASSUME Inv, NEW h \in Handlers, NEW pc, Goto(h, pc)
  PROVE  /\ handler' = [handler EXCEPT ![h].pc = pc, ![h].converged = handler[h].converged]
         /\ handler[h].converged \in BOOLEAN
  <1>1. handler \in [Handlers -> HandlerType] /\ handler[h] \in HandlerType
    BY DEF Inv, TypeOK
  <1>2. [handler[h] EXCEPT !.pc = pc, !.converged = handler[h].converged]
          = [handler[h] EXCEPT !.pc = pc]
    BY <1>1 DEF HandlerType
  <1>3. handler[h].converged \in BOOLEAN
    BY <1>1 DEF HandlerType
  <1> QED
    BY <1>1, <1>2, <1>3 DEF Goto

LEMMA StartKeeps ==
  ASSUME Inv, NEW h \in Handlers, NEW kind \in {"commit", "rollback"}, NEW key \in Keys,
         Start(h, kind, key)
  PROVE  Inv'
  <1>1. migration.version \in Nat /\ migration.version >= 1 /\ calls' \in Nat
    BY DEF Inv, TypeOK, ProgressInv, Start
  <1>2. PICK expected \in {migration.version, migration.version - 1} \ {0} :
          handler' = [handler EXCEPT ![h] =
            [pc |-> "receipt", kind |-> kind, key |-> key, expected |-> expected,
             evidence |-> 0, converged |-> FALSE]]
    BY DEF Start
  <1> DEFINE c == [pc |-> "receipt", kind |-> kind, key |-> key, expected |-> expected,
                   evidence |-> 0, converged |-> FALSE]
  <1>3. c \in HandlerType /\ c.pc = "receipt" /\ c.evidence = 0
    BY <1>1, <1>2 DEF HandlerType
  <1>4. UNCHANGED rows /\ told' = told
    BY DEF Start, rows
  <1> HIDE DEF c
  <1>5. handler' = [handler EXCEPT ![h] = c]
    BY <1>2 DEF c
  <1> QED
    BY <1>1, <1>3, <1>4, <1>5, CallMoves

LEMMA ReadReceiptKeeps ==
  ASSUME Inv, NEW h \in Handlers, ReadReceipt(h)
  PROVE  Inv'
  <1>1. UNCHANGED rows /\ UNCHANGED calls
    BY DEF ReadReceipt, rows
  <1>2. CASE Goto(h, "check") /\ told' = told
    BY <1>1, <1>2, GotoIsStep, GotoKeeps
  <1>3. CASE ReceiptOf(h) # {} /\ Answer(h)
    <2>1. PICK r \in receipts : r.kind = handler[h].kind
      BY <1>3 DEF ReceiptOf
    <2>2. Outcome(handler[h].kind) = migration.state
      BY <2>1 DEF Inv, OutcomeInv
    <2>3. migration.state \in Terminal
      BY <2>2 DEF Outcome, Terminal
    <2>4. calls' \in Nat
      BY <1>1 DEF Inv, TypeOK
    <2>5. handler' = [handler EXCEPT ![h] = IdleHandler]
          /\ told' = told \cup {migration.state}
      BY <1>3, <2>2 DEF Answer
    <2> QED
      BY <1>1, <2>3, <2>4, <2>5, IdleTyped, CallMoves
  <1>4. CASE Fail(h)
    BY <1>1, <1>4, FailKeeps
  <1> QED
    BY <1>2, <1>3, <1>4 DEF ReadReceipt

LEMMA CheckKeeps ==
  ASSUME Inv, NEW h \in Handlers, Check(h)
  PROVE  Inv'
  <1>1. UNCHANGED rows /\ UNCHANGED calls
    BY DEF Check, rows
  <1>2. CASE Fail(h)
    BY <1>1, <1>2, FailKeeps
  <1>3. ASSUME NEW pc \in {"write", "issue"}, Goto(h, pc), told' = told,
               migration.version = handler[h].expected
        PROVE  Inv'
    <2>1. handler[h].expected <= migration.version
      BY <1>3 DEF Inv, TypeOK
    <2>2. /\ handler' = [handler EXCEPT ![h].pc = pc, ![h].converged = handler[h].converged]
          /\ handler[h].converged \in BOOLEAN
      BY <1>3, GotoIsStep
    <2> QED
      BY <1>1, <1>3, <2>1, <2>2, GotoKeeps
  <1> QED
    BY <1>2, <1>3 DEF Check

(* A failed certification ends a commit, and leads a rollback to demote.   *)
LEMMA NotCertifiedKeeps ==
  ASSUME Inv, UNCHANGED rows, UNCHANGED calls, NEW h \in Handlers,
         handler[h].pc \in {"issue", "ask", "record"}, NotCertified(h)
  PROVE  Inv'
  <1>1. handler[h].expected <= migration.version
    BY DEF Inv, CallFits
  <1>2. CASE Fail(h)
    BY <1>2, FailKeeps
  <1>3. CASE Goto(h, "demote_checked") /\ told' = told
    BY <1>1, <1>3, GotoIsStep, GotoKeeps
  <1> QED
    BY <1>2, <1>3 DEF NotCertified

LEMMA AskProviderKeeps ==
  ASSUME Inv, NEW h \in Handlers, AskProvider(h)
  PROVE  Inv'
  <1>1. UNCHANGED rows /\ UNCHANGED calls /\ handler[h].pc = "ask"
    BY DEF AskProvider, rows, At
  <1>2. handler[h].expected <= migration.version /\ handler[h].evidence # 0
    BY <1>1 DEF Inv, CallFits
  <1>3. ASSUME NEW converged \in BOOLEAN, told' = told,
               handler' = [handler EXCEPT ![h].pc = "record", ![h].converged = converged]
        PROVE  Inv'
    BY <1>1, <1>2, <1>3, GotoKeeps
  <1>4. CASE NotCertified(h)
    BY <1>1, <1>4, NotCertifiedKeeps
  <1> QED
    BY <1>3, <1>4 DEF AskProvider

LEMMA WriteRefusedKeeps ==
  ASSUME Inv, NEW h \in Handlers, WriteRefused(h)
  PROVE  Inv'
  <1>1. UNCHANGED rows /\ UNCHANGED calls /\ handler[h].pc = "write"
    BY DEF WriteRefused, rows, At
  <1>2. handler[h].expected <= migration.version
    BY <1>1 DEF Inv, CallFits
  <1>3. CASE Fail(h)
    BY <1>1, <1>3, FailKeeps
  <1>4. CASE Goto(h, "demote") /\ told' = told
    BY <1>1, <1>2, <1>4, GotoIsStep, GotoKeeps
  <1> QED
    BY <1>3, <1>4 DEF WriteRefused

-----------------------------------------------------------------------------
(* Steps that concern the evidence.                                        *)

LEMMA QuietProgress ==
  ASSUME Inv, UNCHANGED <<migration, object, snapshot, ingesting>>
  PROVE  ProgressInv'
  BY DEF Inv, ProgressInv, OpenIsRestorable, MovedPrefix, InventoryValid, SnapshotIsKept, EndsWhole

LEMMA QuietOutcome ==
  ASSUME Inv, UNCHANGED <<migration, receipts, audits, told>>
  PROVE  OutcomeInv'
  BY DEF Inv, OutcomeInv, AuditedOnce, AnswersAreTrue

(* One piece of evidence is replaced.                                      *)
LEMMA Replaced ==
  ASSUME NEW s \in Seq(EvidenceType), NEW e \in DOMAIN s, NEW x \in EvidenceType
  PROVE  /\ [s EXCEPT ![e] = x] \in Seq(EvidenceType)
         /\ DOMAIN [s EXCEPT ![e] = x] = DOMAIN s
         /\ [s EXCEPT ![e] = x][e] = x
         /\ \A i \in DOMAIN s : i # e => [s EXCEPT ![e] = x][i] = s[i]
  OBVIOUS

LEMMA OneIsReplaced ==
  ASSUME Inv, UNCHANGED migration, NEW e \in DOMAIN evidence, NEW x \in EvidenceType,
         evidence' = [evidence EXCEPT ![e] = x],
         x.round = evidence[e].round, x.purpose = evidence[e].purpose,
         x.status = "consumed" <=> evidence[e].status = "consumed",
         evidence[e].status = "consumed" => x.converged = evidence[e].converged
  PROVE  /\ EvidenceInv' /\ evidence' \in Seq(EvidenceType)
         /\ DOMAIN evidence' = DOMAIN evidence
         /\ \A i \in DOMAIN evidence : evidence'[i].round = evidence[i].round
  <1>1. evidence \in Seq(EvidenceType)
    BY DEF Inv, TypeOK
  <1>2. /\ evidence' \in Seq(EvidenceType) /\ DOMAIN evidence' = DOMAIN evidence
        /\ evidence'[e] = x /\ \A i \in DOMAIN evidence : i # e => evidence'[i] = evidence[i]
    BY <1>1, Replaced
  <1>3. \A i \in DOMAIN evidence :
            /\ evidence'[i].round = evidence[i].round
            /\ evidence'[i].purpose = evidence[i].purpose
            /\ evidence'[i].status = "consumed" <=> evidence[i].status = "consumed"
            /\ evidence[i].status = "consumed" => evidence'[i].converged = evidence[i].converged
    BY <1>2
  <1> QED
    BY <1>2, <1>3, EvidenceMoves

LEMMA ExpireKeeps ==
  ASSUME Inv, NEW e \in DOMAIN evidence, Expire(e)
  PROVE  Inv'
  <1> DEFINE x == [evidence[e] EXCEPT !.live = FALSE]
  <1>1. /\ evidence \in Seq(EvidenceType) /\ evidence[e] \in EvidenceType
        /\ migration.version \in Nat
    BY DEF Inv, TypeOK
  <1>2. /\ x \in EvidenceType /\ x.round = evidence[e].round /\ x.purpose = evidence[e].purpose
        /\ x.status = evidence[e].status /\ x.converged = evidence[e].converged
        /\ evidence' = [evidence EXCEPT ![e] = x]
    BY <1>1 DEF EvidenceType, Expire
  <1>3. UNCHANGED <<migration, object, snapshot, ingesting, outbound, handler, receipts, audits,
                    told, calls>>
    BY DEF Expire
  <1> HIDE DEF x
  <1>4. /\ EvidenceInv' /\ evidence' \in Seq(EvidenceType)
        /\ DOMAIN evidence' = DOMAIN evidence
        /\ \A i \in DOMAIN evidence : evidence'[i].round = evidence[i].round
    BY <1>2, <1>3, OneIsReplaced
  <1>5. \A g \in Handlers : CallFits(g)'
    <2>1. migration'.version \in Nat /\ migration.version <= migration'.version
      BY <1>1, <1>3
    <2> QED
      BY <1>3, <1>4, <2>1, AllCallsStay
  <1>6. TypeOK'
    BY <1>3, <1>4 DEF Inv, TypeOK
  <1> QED
    BY <1>3, <1>4, <1>5, <1>6, QuietProgress, QuietOutcome DEF Inv

(* A challenge is about the version at which it is issued.                 *)
LEMMA IssueChallengeKeeps ==
  ASSUME Inv, NEW h \in Handlers, IssueChallenge(h)
  PROVE  Inv'
  <1>1. /\ handler \in [Handlers -> HandlerType] /\ handler[h] \in HandlerType
        /\ evidence \in Seq(EvidenceType) /\ migration.version \in Nat
        /\ handler[h].pc = "issue" /\ handler[h].expected <= migration.version
        /\ UNCHANGED <<migration, object, snapshot, ingesting, outbound, receipts, audits, calls>>
    BY DEF Inv, TypeOK, CallFits, IssueChallenge, At
  <1>2. CASE NotCertified(h) /\ evidence' = evidence
    BY <1>1, <1>2, NotCertifiedKeeps DEF rows
  <1> DEFINE r == [purpose |-> handler[h].kind, status |-> "issued", converged |-> FALSE,
                   live |-> TRUE, round |-> migration.version]
             c == [handler[h] EXCEPT !.pc = "ask", !.evidence = Len(evidence) + 1]
  <1>3. ASSUME evidence' = Append(evidence, r), handler' = [handler EXCEPT ![h] = c], told' = told
        PROVE  Inv'
    <2>1. Len(evidence) + 1 \in Nat
      BY <1>1
    <2>2. /\ c \in HandlerType /\ c.pc = "ask" /\ c.evidence = Len(evidence) + 1
          /\ c.expected = handler[h].expected
      BY <1>1, <2>1 DEF HandlerType
    <2>3. r \in EvidenceType /\ r.status = "issued" /\ r.round = migration.version
      BY <1>1 DEF EvidenceType, HandlerType
    <2> HIDE DEF r, c
    <2>4. /\ evidence' \in Seq(EvidenceType) /\ evidence'[Len(evidence) + 1] = r
          /\ DOMAIN evidence' = DOMAIN evidence \cup {Len(evidence) + 1}
          /\ \A e \in DOMAIN evidence : evidence'[e] = evidence[e]
      BY <1>1, <1>3, <2>3, AppendProperties
    <2>5. EvidenceInv'
      <3>1. \A e \in DOMAIN evidence' \ DOMAIN evidence :
                evidence'[e].status # "consumed" /\ evidence'[e].round <= migration.version
        BY <1>1, <2>3, <2>4
      <3> QED
        BY <1>1, <2>4, <3>1, EvidenceMoves
    <2>6. \A g \in Handlers : CallFits(g)'
      <3>1. migration'.version \in Nat /\ migration.version <= migration'.version
        BY <1>1
      <3>2. /\ c.expected <= migration'.version /\ c.evidence # 0 /\ c.evidence \in DOMAIN evidence'
            /\ c.expected <= evidence'[c.evidence].round
        BY <1>1, <2>2, <2>3, <2>4
      <3> QED
        BY <1>3, <2>2, <2>4, <3>1, <3>2, CallsStay
    <2>7. TypeOK'
      <3>1. handler' \in [Handlers -> HandlerType]
        BY <1>1, <1>3, <2>2
      <3> QED
        BY <1>1, <1>3, <2>4, <3>1 DEF Inv, TypeOK
    <2> QED
      BY <1>1, <1>3, <2>5, <2>6, <2>7, QuietProgress, QuietOutcome DEF Inv
  <1> QED
    BY <1>1, <1>2, <1>3 DEF IssueChallenge

LEMMA RecordEvidenceKeeps ==
  ASSUME Inv, NEW h \in Handlers, RecordEvidence(h)
  PROVE  Inv'
  <1> DEFINE e == handler[h].evidence
             x == [evidence[e] EXCEPT !.status = "verified", !.converged = handler[h].converged]
  <1>1. /\ handler \in [Handlers -> HandlerType] /\ handler[h] \in HandlerType
        /\ evidence \in Seq(EvidenceType) /\ migration.version \in Nat
        /\ handler[h].pc = "record" /\ handler[h].expected <= migration.version
        /\ e \in DOMAIN evidence /\ handler[h].expected <= evidence[e].round
        /\ evidence[e] \in EvidenceType
        /\ UNCHANGED <<migration, object, snapshot, ingesting, outbound, receipts, audits, calls>>
    BY DEF Inv, TypeOK, CallFits, RecordEvidence, At
  <1>2. CASE NotCertified(h) /\ evidence' = evidence
    BY <1>1, <1>2, NotCertifiedKeeps DEF rows
  <1>3. ASSUME evidence[e].status = "issued", evidence' = [evidence EXCEPT ![e] = x],
               told' = told, NEW c \in HandlerType, handler' = [handler EXCEPT ![h] = c],
               \/ c.pc = "idle" /\ c.evidence = 0
               \/ /\ c.pc \in {"write", "demote_checked"} /\ c.evidence = e
                  /\ c.expected = handler[h].expected
        PROVE  Inv'
    <2>1. /\ x \in EvidenceType /\ x.round = evidence[e].round
          /\ x.purpose = evidence[e].purpose /\ x.status = "verified"
      BY <1>1 DEF EvidenceType, HandlerType
    <2> HIDE DEF x, e
    <2>2. /\ EvidenceInv' /\ evidence' \in Seq(EvidenceType)
          /\ DOMAIN evidence' = DOMAIN evidence
          /\ \A i \in DOMAIN evidence : evidence'[i].round = evidence[i].round
      BY <1>1, <1>3, <2>1, OneIsReplaced
    <2>3. \A g \in Handlers : CallFits(g)'
      <3>1. migration'.version \in Nat /\ migration.version <= migration'.version
        BY <1>1
      <3>2. /\ c.pc \notin {"idle", "receipt", "check"} => c.expected <= migration'.version
            /\ c.pc \in {"ask", "record"} => c.evidence # 0
            /\ c.evidence # 0 => /\ c.evidence \in DOMAIN evidence'
                                 /\ c.expected <= evidence'[c.evidence].round
        BY <1>1, <1>3, <2>2
      <3> QED
        BY <1>3, <2>2, <3>1, <3>2, CallsStay
    <2>4. TypeOK'
      <3>1. handler' \in [Handlers -> HandlerType]
        BY <1>1, <1>3
      <3> QED
        BY <1>1, <1>3, <2>2, <3>1 DEF Inv, TypeOK
    <2> QED
      BY <1>1, <1>3, <2>2, <2>3, <2>4, QuietProgress, QuietOutcome DEF Inv
  <1>4. CASE /\ evidence[e].status = "issued"
             /\ evidence' = [evidence EXCEPT ![e].status = "verified",
                                             ![e].converged = handler[h].converged]
             /\ (Goto(h, "write") /\ told' = told) \/ NotCertified(h)
    <2>1. evidence' = [evidence EXCEPT ![e] = x]
      BY <1>1, <1>4
    <2>2. ASSUME NEW pc \in {"write", "demote_checked"}, Goto(h, pc), told' = told
          PROVE  Inv'
      <3> DEFINE c == [handler[h] EXCEPT !.pc = pc]
      <3>1. /\ c \in HandlerType /\ c.pc = pc /\ c.evidence = e
            /\ c.expected = handler[h].expected /\ handler' = [handler EXCEPT ![h] = c]
        BY <1>1, <2>2 DEF HandlerType, Goto
      <3> HIDE DEF c, x, e
      <3> QED
        BY <1>3, <1>4, <2>1, <2>2, <3>1
    <2>3. CASE Fail(h)
      <3> HIDE DEF x, e
      <3> QED
        BY <1>3, <1>4, <2>1, <2>3, IdleTyped DEF Fail
    <2> QED
      BY <1>4, <2>2, <2>3 DEF NotCertified
  <1> QED
    BY <1>2, <1>4 DEF RecordEvidence

-----------------------------------------------------------------------------
(* Steps of a migration that stays open.                                   *)

LEMMA Becoming ==
  ASSUME Inv, NEW state \in States, CanBecome(state)
  PROVE  migration.state \notin Terminal
  BY DEF Inv, TypeOK, CanBecome, Allowed, Terminal, States

LEMMA NextVersion ==
  ASSUME Inv, NEW state \in States, NEW migrated \in 0..TotalItems,
         migration' = [migration EXCEPT !.state = state, !.migrated = migrated,
                                        !.version = migration.version + 1]
  PROVE  /\ migration' \in [state : States, migrated : 0..TotalItems, version : Nat]
         /\ migration'.state = state /\ migration'.migrated = migrated
         /\ migration'.version = migration.version + 1
         /\ migration.version \in Nat /\ migration'.version \in Nat
         /\ migration.version <= migration'.version /\ migration'.version >= 1
  <1> DEFINE version == migration.version + 1
  <1>1. /\ migration \in [state : States, migrated : 0..TotalItems, version : Nat]
        /\ migration.version \in Nat
    BY DEF Inv, TypeOK
  <1>2. version \in Nat /\ migration.version <= version /\ version >= 1
    BY <1>1
  <1>3. migration' = [migration EXCEPT !.state = state, !.migrated = migrated,
                                       !.version = version]
    OBVIOUS
  <1> HIDE DEF version
  <1>4. /\ migration' \in [state : States, migrated : 0..TotalItems, version : Nat]
        /\ migration'.state = state /\ migration'.migrated = migrated
        /\ migration'.version = version
    BY <1>1, <1>2, <1>3
  <1> QED
    BY <1>1, <1>2, <1>4 DEF version

(* A change of state alone is one of the progress with the same number of  *)
(* migrated items.                                                         *)
LEMMA BecomeIsStep ==
  ASSUME Inv, NEW state \in States, Become(state)
  PROVE  /\ migration.migrated \in 0..TotalItems
         /\ migration' = [migration EXCEPT !.state = state, !.migrated = migration.migrated,
                                           !.version = migration.version + 1]
  <1>1. migration \in [state : States, migrated : 0..TotalItems, version : Nat]
    BY DEF Inv, TypeOK
  <1>2. [migration EXCEPT !.state = state, !.migrated = migration.migrated,
                          !.version = migration.version + 1]
          = [migration EXCEPT !.state = state, !.version = migration.version + 1]
    BY <1>1
  <1> QED
    BY <1>1, <1>2 DEF Become

(* The objects stay while the state changes.                               *)
LEMMA RestsProgress ==
  ASSUME Inv, UNCHANGED <<object, snapshot, ingesting>>,
         migration.state \notin Terminal, migration'.state \notin Terminal,
         migration'.migrated = migration.migrated, migration'.version >= 1
  PROVE  ProgressInv'
  BY DEF Inv, ProgressInv, OpenIsRestorable, MovedPrefix, InventoryValid, SnapshotIsKept,
         EndsWhole, Terminal

(* Everything a step does to an open migration that is not an end.         *)
LEMMA OpenStep ==
  ASSUME Inv, ProgressInv', UNCHANGED <<evidence, outbound, receipts, told, calls>>,
         migration.state \notin Terminal, migration'.state \notin Terminal,
         migration' \in [state : States, migrated : 0..TotalItems, version : Nat],
         migration.version <= migration'.version,
         object' \in [Objects -> ObjectType],
         snapshot' \in [Objects -> ObjectType] \cup {<<>>},
         ingesting' \subseteq Ingesting,
         audits' \in {audits, Append(audits, "recovery_required")},
         handler' = handler \/ \E h \in Handlers : handler' = [handler EXCEPT ![h] = IdleHandler]
  PROVE  Inv'
  <1>1. migration'.version \in Nat
    OBVIOUS
  <1>2. EvidenceInv' /\ OutcomeInv' /\ audits' \in Seq(Terminal \cup {"recovery_required"})
    BY <1>1, StaysOpen
  <1>3. \A g \in Handlers : CallFits(g)'
    <2>1. CASE handler' = handler
      BY <1>1, <2>1, AllCallsStay
    <2>2. ASSUME NEW h \in Handlers, handler' = [handler EXCEPT ![h] = IdleHandler]
          PROVE  \A g \in Handlers : CallFits(g)'
      BY <1>1, <2>2, IdleTyped, CallsStay
    <2> QED
      BY <2>1, <2>2
  <1>4. handler' \in [Handlers -> HandlerType]
    BY IdleTyped DEF Inv, TypeOK
  <1>5. TypeOK'
    BY <1>2, <1>4 DEF Inv, TypeOK
  <1> QED
    BY <1>2, <1>3, <1>5 DEF Inv

(* The state and the version change, and nothing else but an audit.        *)
LEMMA BecomeKeeps ==
  ASSUME Inv, NEW state \in States, state \notin Terminal, CanBecome(state), Become(state),
         UNCHANGED <<object, snapshot, evidence, ingesting, outbound, receipts, told, calls>>,
         audits' \in {audits, Append(audits, "recovery_required")},
         handler' = handler \/ \E h \in Handlers : handler' = [handler EXCEPT ![h] = IdleHandler]
  PROVE  Inv'
  <1>1. migration.state \notin Terminal
    BY Becoming
  <1>2. /\ migration' \in [state : States, migrated : 0..TotalItems, version : Nat]
        /\ migration'.state = state /\ migration'.migrated = migration.migrated
        /\ migration.version <= migration'.version /\ migration'.version >= 1
    BY BecomeIsStep, NextVersion
  <1>3. ProgressInv'
    BY <1>1, <1>2, RestsProgress
  <1>4. /\ object' \in [Objects -> ObjectType] /\ ingesting' \subseteq Ingesting
        /\ snapshot' \in [Objects -> ObjectType] \cup {<<>>}
    BY DEF Inv, TypeOK
  <1> QED
    BY <1>1, <1>2, <1>3, <1>4, OpenStep

LEMMA SaveProgressKeeps ==
  ASSUME Inv, NEW state \in States, SaveProgress(state)
  PROVE  Inv'
  BY BecomeKeeps DEF SaveProgress

LEMMA DemoteKeeps ==
  ASSUME Inv, NEW h \in Handlers, DemoteChecked(h) \/ Demote(h)
  PROVE  Inv'
  <1>1. "recovery_required" \in States /\ "recovery_required" \notin Terminal
    BY DEF States, Terminal
  <1>2. /\ UNCHANGED <<object, snapshot, evidence, ingesting, outbound, receipts, calls>>
        /\ handler' = [handler EXCEPT ![h] = IdleHandler] /\ told' = told
        /\ Fail(h)
    BY DEF DemoteChecked, Demote, Fail
  <1>3. CASE CanBecome("recovery_required") /\ DemoteNow
    BY <1>1, <1>2, <1>3, BecomeKeeps DEF DemoteNow
  <1>4. CASE UNCHANGED <<migration, audits>>
    BY <1>2, <1>4, FailKeeps DEF rows
  <1> QED
    BY <1>3, <1>4 DEF DemoteChecked, Demote

(* The prefix grows by the objects of the batch.                           *)
LEMMA ExecuteBatchKeeps ==
  ASSUME Inv, NEW size \in 1..MaxBatch, ExecuteBatch(size)
  PROVE  Inv'
  <1> DEFINE migrated == migration.migrated
             last == IF migrated + size <= TotalItems THEN migrated + size ELSE TotalItems
  <1>1. /\ migration \in [state : States, migrated : 0..TotalItems, version : Nat]
        /\ migrated \in 0..TotalItems /\ TotalItems \in Nat /\ size \in Nat /\ size >= 1
        /\ object \in [Objects -> ObjectType] /\ migrated < TotalItems
        /\ migration.state = "active" /\ migration.state \in States
        /\ migration.state \notin Terminal
    BY MigrationAssumption DEF Inv, TypeOK, ExecuteBatch, Terminal
  <1>2. last \in 0..TotalItems /\ migrated < last
    BY <1>1
  <1>3. migration' = [migration EXCEPT !.state = migration.state, !.migrated = last,
                                       !.version = migration.version + 1]
    <2>1. [migration EXCEPT !.state = migration.state, !.migrated = last,
                            !.version = migration.version + 1]
            = [migration EXCEPT !.migrated = last, !.version = migration.version + 1]
      BY <1>1
    <2> QED
      BY <2>1 DEF ExecuteBatch
  <1>4. /\ migration' \in [state : States, migrated : 0..TotalItems, version : Nat]
        /\ migration'.state = "active" /\ migration'.migrated = last
        /\ migration.version <= migration'.version /\ migration'.version >= 1
    BY <1>1, <1>2, <1>3, NextVersion
  <1>5. object' = [i \in Objects |->
                     IF i \in (migrated + 1)..last
                     THEN [domain |-> "target", version |-> object[i].version + 1]
                     ELSE object[i]]
    BY DEF ExecuteBatch
  <1>6. object' \in [Objects -> ObjectType]
    BY <1>1, <1>5 DEF ObjectType
  <1>7. ProgressInv'
    <2>1. ASSUME NEW i \in Objects
          PROVE  object'[i].domain = IF i <= last THEN "target" ELSE "source"
      <3>1. object[i].domain = IF i <= migrated THEN "target" ELSE "source"
        BY DEF ExecuteBatch, InventoryValid
      <3>2. i \in Nat /\ i >= 1
        BY <1>1 DEF Objects
      <3>3. CASE i <= migrated
        BY <1>1, <1>2, <1>5, <3>1, <3>2, <3>3
      <3>4. CASE migrated < i /\ i <= last
        BY <1>1, <1>2, <1>5, <3>2, <3>4
      <3>5. CASE last < i
        BY <1>1, <1>2, <1>5, <3>1, <3>2, <3>5
      <3> QED
        BY <1>1, <1>2, <3>2, <3>3, <3>4, <3>5
    <2>2. snapshot = <<>> /\ snapshot' = snapshot
      BY <1>1 DEF Inv, ProgressInv, ExecuteBatch
    <2> HIDE DEF last, migrated
    <2> QED
      BY <1>4, <2>1, <2>2
      DEF ProgressInv, OpenIsRestorable, MovedPrefix, InventoryValid, SnapshotIsKept, EndsWhole
  <1>8. /\ UNCHANGED <<snapshot, evidence, ingesting, outbound, handler, receipts, audits, told,
                       calls>>
        /\ migration'.state \notin Terminal
        /\ snapshot' \in [Objects -> ObjectType] \cup {<<>>} /\ ingesting' \subseteq Ingesting
    BY <1>4 DEF ExecuteBatch, Terminal, Inv, TypeOK
  <1> HIDE DEF last, migrated
  <1> QED
    BY <1>1, <1>4, <1>6, <1>7, <1>8, OpenStep

LEMMA BeginVerificationKeeps ==
  ASSUME Inv, BeginVerification
  PROVE  Inv'
  <1>1. /\ "verifying" \in States /\ "verifying" \notin Terminal
        /\ migration.state \notin Terminal /\ migration.migrated = TotalItems
        /\ object \in [Objects -> ObjectType] /\ snapshot' = object
        /\ UNCHANGED <<object, evidence, ingesting, outbound, handler, receipts, audits, told,
                       calls>>
        /\ ingesting' \subseteq Ingesting
    BY DEF BeginVerification, States, Terminal, Inv, TypeOK
  <1>2. /\ migration' \in [state : States, migrated : 0..TotalItems, version : Nat]
        /\ migration'.state = "verifying" /\ migration'.migrated = TotalItems
        /\ migration.version <= migration'.version /\ migration'.version >= 1
    BY <1>1, BecomeIsStep, NextVersion DEF BeginVerification
  <1>3. ProgressInv'
    BY <1>1, <1>2
    DEF Inv, ProgressInv, OpenIsRestorable, MovedPrefix, InventoryValid, SnapshotIsKept, EndsWhole
  <1> QED
    BY <1>1, <1>2, <1>3, OpenStep

(* The asset that changes was being stored when the migration was planned. *)
LEMMA RecordIngestFailureKeeps ==
  ASSUME Inv, NEW i \in Objects, RecordIngestFailure(i)
  PROVE  Inv'
  <1>1. /\ object \in [Objects -> ObjectType] /\ object[i].version \in Nat
        /\ i \in ingesting /\ i \in Ingesting
        /\ migration.state \notin Terminal /\ migration.version \in Nat
        /\ UNCHANGED <<migration, snapshot, evidence, outbound, handler, receipts, audits, told,
                       calls>>
        /\ ingesting' = ingesting \ {i}
    BY DEF Inv, TypeOK, ObjectType, RecordIngestFailure
  <1> DEFINE version == object[i].version + 2
             new == [object[i] EXCEPT !.version = version]
  <1>2. version \in Nat
    BY <1>1
  <1>3. object' = [object EXCEPT ![i] = new]
    BY <1>1 DEF RecordIngestFailure
  <1> HIDE DEF version
  <1>4. new \in ObjectType /\ new.domain = object[i].domain
    BY <1>1, <1>2 DEF ObjectType
  <1> HIDE DEF new
  <1>5. /\ object' \in [Objects -> ObjectType]
        /\ \A j \in Objects : object'[j].domain = object[j].domain
        /\ \A j \in Objects \ {i} : object'[j] = object[j]
    BY <1>1, <1>3, <1>4
  <1>6. ProgressInv'
    <2>1. MovedPrefix' /\ EndsWhole'
      BY <1>1, <1>5
      DEF Inv, ProgressInv, OpenIsRestorable, MovedPrefix, InventoryValid, EndsWhole, Terminal
    <2>2. SnapshotIsKept'
      BY <1>1, <1>5 DEF Inv, ProgressInv, OpenIsRestorable, SnapshotIsKept
    <2> QED
      BY <1>1, <2>1, <2>2 DEF Inv, ProgressInv, OpenIsRestorable
  <1>7. /\ migration' \in [state : States, migrated : 0..TotalItems, version : Nat]
        /\ migration.version <= migration'.version /\ ingesting' \subseteq Ingesting
        /\ snapshot' \in [Objects -> ObjectType] \cup {<<>>}
    BY <1>1 DEF Inv, TypeOK
  <1> QED
    BY <1>1, <1>5, <1>6, <1>7, OpenStep

LEMMA ProjectKeeps ==
  ASSUME Inv, Project
  PROVE  Inv'
  <1>1. /\ UNCHANGED <<migration, object, snapshot, evidence, ingesting, handler, receipts,
                       audits, told, calls>>
        /\ outbound' \in BOOLEAN
    BY DEF Project, Inv, TypeOK
  <1>2. \A g \in Handlers : CallFits(g)'
    BY <1>1 DEF Inv, CallFits
  <1>3. EvidenceInv'
    BY <1>1 DEF Inv, EvidenceInv, EndsCertified, Spent
  <1>4. TypeOK'
    BY <1>1 DEF Inv, TypeOK
  <1> QED
    BY <1>1, <1>2, <1>3, <1>4, QuietProgress, QuietOutcome DEF Inv

-----------------------------------------------------------------------------
(* The ends.                                                               *)

(* Evidence that certifies a write of the version the call looked at was   *)
(* asked for at that version, and is the only one spent by it.             *)
LEMMA SpentByEnd ==
  ASSUME Inv, NEW h \in Handlers, migration.state \notin Terminal, Current(h), Certified(h),
         evidence' = [evidence EXCEPT ![handler[h].evidence].status = "consumed"]
  PROVE  /\ evidence' \in Seq(EvidenceType) /\ DOMAIN evidence' = DOMAIN evidence
         /\ \A e \in DOMAIN evidence : evidence'[e].round = evidence[e].round
         /\ Spent' = {handler[h].evidence}
         /\ evidence'[handler[h].evidence].purpose = handler[h].kind
         /\ evidence'[handler[h].evidence].converged
         /\ evidence'[handler[h].evidence].round = migration.version
  <1> DEFINE id == handler[h].evidence
             x == [evidence[id] EXCEPT !.status = "consumed"]
  <1>1. /\ evidence \in Seq(EvidenceType) /\ migration.version \in Nat
        /\ id \in DOMAIN evidence /\ evidence[id] \in EvidenceType
        /\ migration.version <= evidence[id].round /\ evidence[id].round <= migration.version
        /\ evidence[id].purpose = handler[h].kind
    BY DEF Inv, TypeOK, EvidenceInv, CallFits, Current, Certified
  <1>2. evidence[id].converged
    BY DEF Certified
  <1>3. evidence[id].round = migration.version
    BY <1>1 DEF EvidenceType
  <1>4. /\ x \in EvidenceType /\ x.round = evidence[id].round /\ x.purpose = evidence[id].purpose
        /\ x.status = "consumed" /\ x.converged = evidence[id].converged
    BY <1>1 DEF EvidenceType
  <1>5. evidence' = [evidence EXCEPT ![id] = x]
    BY <1>1
  <1> HIDE DEF id, x
  <1>6. /\ evidence' \in Seq(EvidenceType) /\ DOMAIN evidence' = DOMAIN evidence
        /\ evidence'[id] = x /\ \A i \in DOMAIN evidence : i # id => evidence'[i] = evidence[i]
    <2>1. evidence \in Seq(EvidenceType) /\ id \in DOMAIN evidence /\ x \in EvidenceType
      BY <1>1, <1>4
    <2>2. /\ [evidence EXCEPT ![id] = x] \in Seq(EvidenceType)
          /\ DOMAIN [evidence EXCEPT ![id] = x] = DOMAIN evidence
          /\ [evidence EXCEPT ![id] = x][id] = x
          /\ \A i \in DOMAIN evidence : i # id => [evidence EXCEPT ![id] = x][i] = evidence[i]
      BY <2>1, Replaced
    <2> QED
      BY <1>5, <2>2
  <1>7. Spent' = {id}
    <2>1. \A i \in DOMAIN evidence : evidence[i].status # "consumed"
      BY OpenSaysNothing DEF Spent
    <2> QED
      BY <1>1, <1>4, <1>6, <2>1 DEF Spent
  <1>8. evidence'[id].converged
    BY <1>2, <1>4, <1>6
  <1>9. /\ \A i \in DOMAIN evidence : evidence'[i].round = evidence[i].round
        /\ evidence'[id].purpose = handler[h].kind
        /\ evidence'[id].round = migration.version
    BY <1>1, <1>3, <1>4, <1>6
  <1>10. id = handler[h].evidence
    BY DEF id
  <1>11. evidence'[handler[h].evidence].converged
    BY <1>8, <1>10
  <1>12. /\ Spent' = {handler[h].evidence}
         /\ evidence'[handler[h].evidence].purpose = handler[h].kind
         /\ evidence'[handler[h].evidence].round = migration.version
    BY <1>7, <1>9, <1>10
  <1>13. evidence' \in Seq(EvidenceType) /\ DOMAIN evidence' = DOMAIN evidence
    BY <1>6
  <1>14. \A i \in DOMAIN evidence : evidence'[i].round = evidence[i].round
    BY <1>9
  <1> QED
    BY <1>11, <1>12, <1>13, <1>14, Zenon

LEMMA EndKeeps ==
  ASSUME Inv, NEW h \in Handlers, migration.state \notin Terminal, Current(h),
         Become(Outcome(handler[h].kind)),
         audits' = Append(audits, Outcome(handler[h].kind)),
         receipts' = receipts \cup {[kind |-> handler[h].kind, key |-> handler[h].key,
                                     expected |-> handler[h].expected]},
         Answer(h),
         \/ /\ Certified(h)
            /\ evidence' = [evidence EXCEPT ![handler[h].evidence].status = "consumed"]
         \/ /\ handler[h].kind = "rollback" /\ migration.migrated = 0
            /\ evidence' = evidence,
         UNCHANGED <<snapshot, ingesting, outbound, calls>>,
         object' \in [Objects -> ObjectType],
         \A i \in Objects :
            object'[i].domain = IF handler[h].kind = "commit" THEN "target" ELSE "source"
  PROVE  Inv'
  <1> DEFINE kind == handler[h].kind
             outcome == Outcome(kind)
  <1>1. /\ handler \in [Handlers -> HandlerType] /\ kind \in {"commit", "rollback"}
        /\ handler[h].key \in Keys /\ handler[h].expected \in Nat
        /\ evidence \in Seq(EvidenceType)
    BY DEF Inv, TypeOK, HandlerType
  <1>2. /\ outcome \in States /\ outcome \in Terminal
        /\ outcome = "committed" <=> kind = "commit"
        /\ outcome = "rolled_back" <=> kind = "rollback"
    BY <1>1 DEF Outcome, States, Terminal
  <1>3. /\ migration' \in [state : States, migrated : 0..TotalItems, version : Nat]
        /\ migration'.state = outcome /\ migration'.migrated = migration.migrated
        /\ migration'.version = migration.version + 1
        /\ migration.version \in Nat /\ migration'.version \in Nat
        /\ migration.version <= migration'.version /\ migration'.version >= 1
    <2>1. Become(outcome)
      OBVIOUS
    <2> HIDE DEF outcome, kind
    <2> QED
      BY <1>2, <2>1, BecomeIsStep, NextVersion
  <1>4. /\ handler' = [handler EXCEPT ![h] = IdleHandler]
        /\ told' = told \cup {outcome}
        /\ receipts' = receipts \cup {[kind |-> kind, key |-> handler[h].key,
                                       expected |-> handler[h].expected]}
        /\ audits' = Append(audits, outcome)
    BY DEF Answer
  <1>6. /\ evidence' \in Seq(EvidenceType) /\ DOMAIN evidence' = DOMAIN evidence
        /\ \A e \in DOMAIN evidence : evidence'[e].round = evidence[e].round
        /\ kind = "commit" \/ migration.migrated > 0 =>
              \E e \in Spent' : /\ Spent' = {e}
                                /\ evidence'[e].purpose = kind
                                /\ evidence'[e].converged
                                /\ evidence'[e].round = migration.version
    <2>1. CASE handler[h].kind = "rollback" /\ migration.migrated = 0 /\ evidence' = evidence
      BY <1>1, <2>1
    <2>2. CASE /\ Certified(h)
               /\ evidence' = [evidence EXCEPT ![handler[h].evidence].status = "consumed"]
      BY <2>2, SpentByEnd
    <2> QED
      BY <2>1, <2>2
  <1> HIDE DEF outcome, kind
  <1>7. EvidenceInv'
    <2>1. \A e \in DOMAIN evidence' : evidence'[e].round <= migration'.version
      <3>1. ASSUME NEW e \in DOMAIN evidence PROVE evidence[e].round <= migration'.version
        <4>1. evidence[e] \in EvidenceType /\ evidence[e].round <= migration.version
          BY <1>1 DEF Inv, EvidenceInv
        <4>2. evidence[e].round \in Nat
          BY <4>1 DEF EvidenceType
        <4> QED
          BY <1>3, <4>1, <4>2
      <3> QED
        BY <1>6, <3>1
    <2>2. EndsCertified'
      <3>1. migration'.state \in Terminal
        BY <1>2, <1>3
      <3>2. ASSUME migration'.state = "committed"
                   \/ (migration'.state = "rolled_back" /\ migration'.migrated > 0)
            PROVE  \E e \in Spent' :
                     /\ Spent' = {e}
                     /\ evidence'[e].purpose = IF migration'.state = "committed" THEN "commit"
                                                                             ELSE "rollback"
                     /\ evidence'[e].converged
                     /\ evidence'[e].round + 1 = migration'.version
        <4>1. kind = "commit" \/ migration.migrated > 0
          BY <1>2, <1>3, <3>2
        <4>2. PICK e \in Spent' : /\ Spent' = {e}
                                  /\ evidence'[e].purpose = kind
                                  /\ evidence'[e].converged
                                  /\ evidence'[e].round = migration.version
          BY <1>6, <4>1
        <4>3. kind = IF migration'.state = "committed" THEN "commit" ELSE "rollback"
          BY <1>1, <1>2, <1>3
        <4>4. evidence'[e].round + 1 = migration'.version
          BY <1>3, <4>2
        <4>5. evidence'[e].converged
          BY <4>2
        <4>6. Spent' = {e} /\ evidence'[e].purpose = kind
          BY <4>2
        <4> QED
          BY <4>3, <4>4, <4>5, <4>6
      <3> QED
        BY <3>1, <3>2 DEF EndsCertified
    <2> QED
      BY <2>1, <2>2 DEF EvidenceInv
  <1>8. \A g \in Handlers : CallFits(g)'
    BY <1>3, <1>4, <1>6, IdleTyped, CallsStay
  <1>9. OutcomeInv'
    <2>1. told = {} /\ receipts = {} /\ \A n \in DOMAIN audits : audits[n] \notin Terminal
      BY OpenSaysNothing
    <2>2. audits \in Seq(Terminal \cup {"recovery_required"})
      BY DEF Inv, TypeOK
    <2>3. /\ DOMAIN audits' = DOMAIN audits \cup {Len(audits) + 1}
          /\ audits'[Len(audits) + 1] = outcome
          /\ \A n \in DOMAIN audits : audits'[n] = audits[n]
      BY <1>2, <1>4, <2>2, AppendProperties
    <2>4. AuditedOnce'
      BY <1>2, <1>3, <2>1, <2>3 DEF AuditedOnce
    <2>5. AnswersAreTrue'
      BY <1>3, <1>4, <2>1 DEF AnswersAreTrue
    <2>6. ASSUME NEW r \in receipts' PROVE Outcome(r.kind) = migration'.state
      <3>1. r.kind = kind
        BY <1>4, <2>1
      <3>2. Outcome(kind) = outcome
        BY DEF outcome
      <3> QED
        BY <1>3, <3>1, <3>2
    <2> QED
      BY <2>4, <2>5, <2>6 DEF OutcomeInv
  <1>10. ProgressInv'
    <2>1. migration'.state \in Terminal
      BY <1>2, <1>3
    <2>2. MovedPrefix' /\ SnapshotIsKept'
      BY <2>1 DEF MovedPrefix, SnapshotIsKept
    <2>3. EndsWhole'
      <3>1. CASE kind = "commit"
        BY <1>2, <1>3, <3>1 DEF EndsWhole, kind
      <3>2. CASE kind = "rollback"
        BY <1>2, <1>3, <3>2 DEF EndsWhole, kind
      <3> QED
        BY <1>1, <3>1, <3>2
    <2> QED
      BY <1>3, <2>1, <2>2, <2>3 DEF ProgressInv, OpenIsRestorable
  <1>11. TypeOK'
    <2>1. handler' \in [Handlers -> HandlerType]
      BY <1>1, <1>4, IdleTyped
    <2>2. audits' \in Seq(Terminal \cup {"recovery_required"}) /\ told' \subseteq Terminal
      <3>1. /\ audits \in Seq(Terminal \cup {"recovery_required"})
            /\ told \subseteq Terminal
            /\ outcome \in Terminal \cup {"recovery_required"}
        BY <1>2 DEF Inv, TypeOK
      <3> QED
        BY <1>2, <1>4, <3>1, AppendProperties
    <2>3. receipts' \subseteq [kind : {"commit", "rollback"}, key : Keys, expected : Nat]
      BY <1>1, <1>4 DEF Inv, TypeOK
    <2> QED
      BY <1>3, <1>6, <2>1, <2>2, <2>3 DEF Inv, TypeOK
  <1> QED
    BY <1>7, <1>8, <1>9, <1>10, <1>11 DEF Inv

LEMMA WriteCommitKeeps ==
  ASSUME Inv, NEW h \in Handlers, WriteCommit(h)
  PROVE  Inv'
  <1>1. UNCHANGED <<object, snapshot, ingesting, outbound, calls>> /\ handler[h].kind = "commit"
    BY DEF WriteCommit
  <1>2. CASE Current(h) /\ CommitPossible(h) /\ End(h, TRUE)
    <2>1. migration.state \notin Terminal
      BY <1>2 DEF CommitPossible, Terminal
    <2>2. object' \in [Objects -> ObjectType]
      BY <1>1 DEF Inv, TypeOK
    <2>3. Certified(h) /\ \A i \in Objects : object'[i].domain = "target"
      BY <1>1, <1>2 DEF CommitPossible
    <2>4. /\ Become(Outcome(handler[h].kind)) /\ Answer(h)
          /\ evidence' = [evidence EXCEPT ![handler[h].evidence].status = "consumed"]
          /\ audits' = Append(audits, Outcome(handler[h].kind))
          /\ receipts' = receipts \cup {[kind |-> handler[h].kind, key |-> handler[h].key,
                                         expected |-> handler[h].expected]}
      BY <1>2 DEF End
    <2>5. Current(h)
      BY <1>2
    <2> QED
      BY <1>1, <2>1, <2>2, <2>3, <2>4, <2>5, EndKeeps
  <1>3. CASE Fail(h) /\ UNCHANGED <<migration, evidence, receipts, audits>>
    BY <1>1, <1>3, FailKeeps DEF rows
  <1> QED
    BY <1>2, <1>3 DEF WriteCommit

LEMMA RestoredTyped ==
  ASSUME Inv
  PROVE  Restored \in [Objects -> ObjectType]
  <1>1. object \in [Objects -> ObjectType]
    BY DEF Inv, TypeOK
  <1>2. \A i \in Objects : object[i].version + 1 \in Nat
    BY <1>1 DEF ObjectType
  <1> QED
    BY <1>1, <1>2 DEF Restored, ObjectType

LEMMA WriteRollbackKeeps ==
  ASSUME Inv, NEW h \in Handlers, WriteRollback(h)
  PROVE  Inv'
  <1>1. /\ UNCHANGED <<snapshot, ingesting, outbound, calls>> /\ handler[h].kind = "rollback"
        /\ handler[h].pc = "write"
    BY DEF WriteRollback, At
  <1>2. CASE /\ Current(h) /\ RollbackPossible(h) /\ object' = Restored
             /\ End(h, migration.migrated > 0)
    <2>1. /\ migration.state \notin Terminal /\ Current(h)
          /\ object' \in [Objects -> ObjectType]
          /\ \A i \in Objects : object'[i].domain = "source"
      BY <1>2, RestoredTyped DEF RollbackPossible
    <2>2. \A i \in Objects :
             object'[i].domain = IF handler[h].kind = "commit" THEN "target" ELSE "source"
      BY <1>1, <2>1
    <2>3. /\ Become(Outcome(handler[h].kind)) /\ Answer(h)
          /\ audits' = Append(audits, Outcome(handler[h].kind))
          /\ receipts' = receipts \cup {[kind |-> handler[h].kind, key |-> handler[h].key,
                                         expected |-> handler[h].expected]}
      BY <1>2 DEF End
    <2>4. migration.migrated \in 0..TotalItems
      BY DEF Inv, TypeOK
    <2>5. CASE migration.migrated > 0
      <3>1. /\ Certified(h)
            /\ evidence' = [evidence EXCEPT ![handler[h].evidence].status = "consumed"]
        BY <1>2, <2>5 DEF RollbackPossible, End
      <3> QED
        BY <1>1, <2>1, <2>2, <2>3, <3>1, EndKeeps
    <2>6. CASE migration.migrated = 0
      <3>1. evidence' = evidence
        BY <1>2, <2>6 DEF End
      <3> QED
        BY <1>1, <2>1, <2>2, <2>3, <2>6, <3>1, EndKeeps
    <2> QED
      BY <2>4, <2>5, <2>6, MigrationAssumption
  <1>3. CASE Fail(h) /\ UNCHANGED <<migration, object, evidence, receipts, audits>>
    BY <1>1, <1>3, FailKeeps DEF rows
  <1>4. CASE /\ Goto(h, "demote")
             /\ UNCHANGED <<migration, object, evidence, receipts, audits, told>>
    <2>1. handler[h].expected <= migration.version
      BY <1>1 DEF Inv, CallFits
    <2>2. UNCHANGED rows /\ UNCHANGED <<calls, told>>
      BY <1>1, <1>4 DEF rows
    <2> QED
      BY <1>4, <2>1, <2>2, GotoIsStep, GotoKeeps
  <1> QED
    BY <1>2, <1>3, <1>4 DEF WriteRollback

-----------------------------------------------------------------------------
(* The invariant and what follows from it.                                 *)

LEMMA InvKept == Inv /\ [Next]_vars => Inv'
  <1> SUFFICES ASSUME Inv, [Next]_vars PROVE Inv'
    OBVIOUS
  <1>1. ASSUME NEW state \in States, SaveProgress(state) PROVE Inv'
    BY <1>1, SaveProgressKeeps
  <1>2. ASSUME NEW size \in 1..MaxBatch, ExecuteBatch(size) PROVE Inv'
    BY <1>2, ExecuteBatchKeeps
  <1>3. CASE BeginVerification
    BY <1>3, BeginVerificationKeeps
  <1>4. ASSUME NEW h \in Handlers, Call(h) PROVE Inv'
    <2>1. ASSUME NEW kind \in {"commit", "rollback"}, NEW key \in Keys, Start(h, kind, key)
          PROVE  Inv'
      BY <2>1, StartKeeps
    <2>2. CASE ReadReceipt(h) \/ Check(h) \/ IssueChallenge(h)
      BY <2>2, ReadReceiptKeeps, CheckKeeps, IssueChallengeKeeps
    <2>3. CASE AskProvider(h) \/ RecordEvidence(h)
      BY <2>3, AskProviderKeeps, RecordEvidenceKeeps
    <2>4. CASE WriteCommit(h) \/ WriteRollback(h) \/ WriteRefused(h)
      BY <2>4, WriteCommitKeeps, WriteRollbackKeeps, WriteRefusedKeeps
    <2>5. CASE DemoteChecked(h) \/ Demote(h)
      BY <2>5, DemoteKeeps
    <2>6. CASE Crash(h)
      <3>1. Fail(h) /\ UNCHANGED rows /\ UNCHANGED calls
        BY <2>6 DEF Crash, rows
      <3> QED
        BY <3>1, FailKeeps
    <2> QED
      BY <1>4, <2>1, <2>2, <2>3, <2>4, <2>5, <2>6 DEF Call
  <1>5. ASSUME NEW e \in DOMAIN evidence, Expire(e) PROVE Inv'
    BY <1>5, ExpireKeeps
  <1>6. ASSUME NEW i \in Objects, RecordIngestFailure(i) PROVE Inv'
    BY <1>6, RecordIngestFailureKeeps
  <1>7. CASE Project
    BY <1>7, ProjectKeeps
  <1>8. CASE UNCHANGED vars
    <2>1. UNCHANGED <<migration, object, snapshot, evidence, ingesting, outbound, handler,
                      receipts, audits, told, calls>>
      BY <1>8 DEF vars
    <2>2. \A g \in Handlers : CallFits(g)'
      BY <2>1 DEF Inv, CallFits
    <2>3. EvidenceInv' /\ TypeOK'
      BY <2>1 DEF Inv, TypeOK, EvidenceInv, EndsCertified, Spent
    <2> QED
      BY <2>1, <2>2, <2>3, QuietProgress, QuietOutcome DEF Inv
  <1> QED
    BY <1>1, <1>2, <1>3, <1>4, <1>5, <1>6, <1>7, <1>8 DEF Next

LEMMA InvHolds == Spec => []Inv
  <1>1. Init => Inv
    BY InitInv
  <1>2. Inv /\ [Next]_vars => Inv'
    BY InvKept
  <1> QED
    BY <1>1, <1>2, PTL DEF Spec

(* Rows, objects, evidence and calls keep their types: no batch, whatever  *)
(* its size, counts past the inventory (executeBatch).                     *)
THEOREM MigrationIsTyped == Spec => []TypeOK
  <1>1. Inv => TypeOK
    BY DEF Inv
  <1> QED
    BY <1>1, InvHolds, PTL

(* An open migration can be taken up or taken back: the objects that moved *)
(* are a prefix, and the snapshot is as old as the ingests that failed.    *)
THEOREM OpenMigrationsAreRestorable == Spec => []OpenIsRestorable
  <1>1. Inv => OpenIsRestorable
    BY DEF Inv, ProgressInv
  <1> QED
    BY <1>1, InvHolds, PTL

(* A commit leaves every object in the new domain, a rollback every object *)
(* in the old one (commitWithReadinessEvidence, rollbackWithAudit).        *)
THEOREM MigrationsEndWhole == Spec => []EndsWhole
  <1>1. Inv => EndsWhole
    BY DEF Inv, ProgressInv
  <1> QED
    BY <1>1, InvHolds, PTL

(* An end that moved objects was certified by the provider for what it     *)
(* does, at the version it ended, by one piece of evidence spent on it.    *)
THEOREM EndsAreCertified == Spec => []EndsCertified
  <1>1. Inv => EndsCertified
    BY DEF Inv, EvidenceInv
  <1> QED
    BY <1>1, InvHolds, PTL

(* However many calls race to commit and to roll back, one end is audited, *)
(* the one that was reached.                                               *)
THEOREM EndsAreAuditedOnce == Spec => []AuditedOnce
  <1>1. Inv => AuditedOnce
    BY DEF Inv, OutcomeInv
  <1> QED
    BY <1>1, InvHolds, PTL

(* No caller is told of an end that did not come about, be it by a receipt *)
(* of an earlier call.                                                     *)
THEOREM CallersAreToldTheEnd == Spec => []AnswersAreTrue
  <1>1. Inv => AnswersAreTrue
    BY DEF Inv, OutcomeInv
  <1> QED
    BY <1>1, InvHolds, PTL

=============================================================================
