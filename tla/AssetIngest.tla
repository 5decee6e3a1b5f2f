---------------------------- MODULE AssetIngest ----------------------------
(***************************************************************************)
(* Attaching an asset to a task, and downloading it                        *)
(* (packages/application/src/assets over the SQLite adapter and the file   *)
(* store).                                                                 *)
(*                                                                         *)
(* An ingest is a saga of three transactions with the file store between   *)
(* them: the asset and its operation are recorded, the operation is set    *)
(* running, two files are written, and the asset is completed together     *)
(* with its replica, binding, projection job and receipt.  Callers repeat  *)
(* a call under its key; calls die, and so may any file they were writing. *)
(*                                                                         *)
(* Abstractions.  One asset id and one principal are followed, with        *)
(* several idempotency keys; a key stands for the operation id and the     *)
(* file name derived from it, a content for the fingerprint, the bytes and *)
(* their hash.  Whether the caller may contribute and no migration is open *)
(* (authorizedTask), and whether a reader may view, change at any time.    *)
(* The adapter's scan result is any of the port's.  Steps and events of    *)
(* the operation accompany its writes and are left out.                    *)
(***************************************************************************)
EXTENDS Naturals, FiniteSets

CONSTANTS
    Keys,      \* idempotency keys
    Contents,  \* contents callers send
    Calls,     \* attach calls in progress at once
    None,      \* no asset, operation, receipt or file
    Partial,   \* a file that was not written to its end
    MaxCalls,  \* bound on the number of calls
    MaxMoves   \* bound on the migrations' moves of the asset

ASSUME IngestAssumption ==
    /\ None \notin Contents \cup Keys /\ Partial \notin Contents /\ None # Partial
    /\ Keys # {} /\ Contents # {}
    /\ MaxCalls \in Nat /\ MaxMoves \in Nat

VARIABLES
    asset,     \* its row
    op,        \* op[k]: the integration operation of key k
    file,      \* file[k]: the blob and the metadata file of key k
    replica,   \* the blob_replica binding: the key whose files it refers to
    bound,     \* the asset is bound to the task
    jobs,      \* projection jobs scheduled for it
    receipt,   \* receipt[k]: content and asset state of the recorded result
    call,      \* call[p]: an attach call in progress
    download,  \* a download in progress
    writable,  \* the caller may contribute and no migration is open
    viewable,  \* the reader may view
    told,      \* history: results callers were told, with their key and content
    read,      \* history: contents that were handed out
    calls,     \* number of calls so far
    moves      \* number of moves so far

IO == INSTANCE IntegrationOperations

saga == <<asset, op, file, replica, bound, jobs, receipt>>
vars == <<saga, call, download, writable, viewable, told, read, calls, moves>>

AssetStates == {"initiated", "uploading", "scanning", "available", "quarantined", "failed"}

ScanStates == {"scanning", "available", "quarantined", "failed"}

AssetType == [state : AssetStates, content : Contents, domain : {"source", "target"},
              version : Nat]

OperationType == [state : IO!OperationStates, content : Contents]

ResultType == [content : Contents, state : AssetStates]

ASSUME RecordAssumption == None \notin AssetType \cup OperationType \cup ResultType

CallType == [pc : {"idle", "begin", "run", "blob", "meta", "failed", "finish"},
             key : Keys, content : Contents]

DownloadType == [pc : {"idle", "read", "check"}, asset : AssetType \cup {None},
                 from : Keys \cup {None}, moves : Nat]

IdleCall == [pc |-> "idle", key |-> CHOOSE k \in Keys : TRUE,
             content |-> CHOOSE c \in Contents : TRUE]

NoDownload == [pc |-> "idle", asset |-> None, from |-> None, moves |-> 0]

TypeOK ==
    /\ asset \in AssetType \cup {None}
    /\ op \in [Keys -> OperationType \cup {None}]
    /\ file \in [Keys -> [blob : Contents \cup {None, Partial},
                          meta : Contents \cup {None, Partial}]]
    /\ replica \in Keys \cup {None}
    /\ bound \in BOOLEAN
    /\ jobs \in 0..1
    /\ receipt \in [Keys -> ResultType \cup {None}]
    /\ call \in [Calls -> CallType]
    /\ download \in DownloadType
    /\ writable \in BOOLEAN /\ viewable \in BOOLEAN
    /\ told \subseteq [key : Keys, content : Contents, result : ResultType]
    /\ read \subseteq [content : Contents, moves : Nat, now : Nat]
    /\ calls \in Nat /\ moves \in Nat

Init ==
    /\ asset = None
    /\ op = [k \in Keys |-> None]
    /\ file = [k \in Keys |-> [blob |-> None, meta |-> None]]
    /\ replica = None
    /\ bound = FALSE
    /\ jobs = 0
    /\ receipt = [k \in Keys |-> None]
    /\ call = [p \in Calls |-> IdleCall]
    /\ download = NoDownload
    /\ writable = TRUE /\ viewable = TRUE
    /\ told = {} /\ read = {}
    /\ calls = 0 /\ moves = 0

-----------------------------------------------------------------------------
(* The attach call.                                                        *)

At(p, pc) == call[p].pc = pc

Goto(p, pc) == call' = [call EXCEPT ![p].pc = pc]

outside == <<download, writable, viewable, read, calls, moves>>

Fail(p) == call' = [call EXCEPT ![p] = IdleCall] /\ told' = told

Answer(p, result) ==
    /\ call' = [call EXCEPT ![p] = IdleCall]
    /\ told' = told \cup {[key |-> call[p].key, content |-> call[p].content, result |-> result]}

Start(p, key, content) ==
    /\ At(p, "idle")
    /\ calls < MaxCalls
    /\ calls' = calls + 1
    /\ call' = [call EXCEPT ![p] = [pc |-> "begin", key |-> key, content |-> content]]
    /\ UNCHANGED <<saga, download, writable, viewable, told, read, moves>>

(* Mutant: the payload is not compared.                                    *)
ReplayAny(p) ==
    /\ writable
    /\ receipt[call[p].key] # None
    /\ Answer(p, receipt[call[p].key])

(* readReplay: a receipt answers the same payload and refuses another.     *)
Replay(p) ==
    LET r == receipt[call[p].key] IN
    /\ writable
    /\ r # None
    /\ IF r.content = call[p].content THEN Answer(p, r) ELSE Fail(p)

(* The first transaction: a replay, a repetition, or the asset and its     *)
(* operation are recorded.                                                 *)
Begin(p) ==
    LET k == call[p].key  content == call[p].content IN
    /\ At(p, "begin")
    /\ \/ ~writable /\ Fail(p) /\ UNCHANGED saga
       \/ Replay(p) /\ UNCHANGED saga
       \/ /\ writable /\ receipt[k] = None /\ op[k] # None
          /\ IF op[k].content = content THEN Goto(p, "run") /\ told' = told ELSE Fail(p)
          /\ UNCHANGED saga
       \/ /\ writable /\ receipt[k] = None /\ op[k] = None /\ asset # None
          /\ Fail(p)
          /\ UNCHANGED saga
       \/ /\ writable /\ receipt[k] = None /\ op[k] = None /\ asset = None
          /\ asset' = [state |-> "initiated", content |-> content, domain |-> "source",
                       version |-> 1]
          /\ op' = [op EXCEPT ![k] = [state |-> "planned", content |-> content]]
          /\ Goto(p, "run") /\ told' = told
          /\ UNCHANGED <<file, replica, bound, jobs, receipt>>
    /\ UNCHANGED outside

(* Mutant: a running operation is taken over.                              *)
RunAny(p) ==
    LET k == call[p].key IN
    /\ At(p, "run")
    /\ Goto(p, "blob") /\ told' = told
    /\ op' = IF op[k].state = "completed" THEN op ELSE [op EXCEPT ![k].state = "running"]
    /\ UNCHANGED <<asset, file, replica, bound, jobs, receipt, outside>>

(* The second: only one call at a time has the operation running.  One     *)
(* that finds it completed goes on, to be answered by the receipt.         *)
Run(p) ==
    LET k == call[p].key IN
    /\ At(p, "run")
    /\ \/ op[k].state = "completed" /\ Goto(p, "blob") /\ told' = told /\ op' = op
       \/ /\ op[k].state \in {"planned", "retryable"}
          /\ op' = [op EXCEPT ![k].state = "running"]
          /\ Goto(p, "blob") /\ told' = told
       \/ op[k].state \notin {"completed", "planned", "retryable"} /\ Fail(p) /\ op' = op
    /\ UNCHANGED <<asset, file, replica, bound, jobs, receipt, outside>>

-----------------------------------------------------------------------------
(* The file store.                                                         *)

Stored(k) == file[k].blob \in Contents /\ file[k].meta = file[k].blob

(* writeFile with "wx" when there is no file: all of it, or an error that  *)
(* leaves nothing, or a beginning.                                         *)
Write(p, which, next) ==
    LET k == call[p].key IN
    /\ file[k][which] = None
    /\ \/ file' = [file EXCEPT ![k][which] = call[p].content] /\ Goto(p, next)
       \/ /\ \E left \in {None, Partial} : file' = [file EXCEPT ![k][which] = left]
          /\ Goto(p, "failed")

(* Mutant: a file that is there is taken as it is.                         *)
ReuseAny(p, which, next) ==
    LET k == call[p].key IN
    /\ file[k][which] # None
    /\ Goto(p, next)
    /\ file' = file

(* A file that is there must be the same.                                  *)
Reuse(p, which, next) ==
    LET k == call[p].key IN
    /\ file[k][which] # None
    /\ Goto(p, IF file[k][which] = call[p].content THEN next ELSE "failed")
    /\ file' = file

(* put: what is stored is returned if it is the same; metadata that cannot *)
(* be read belongs to someone else.  The store may fail at any of it.      *)
PutBlob(p) ==
    LET k == call[p].key IN
    /\ At(p, "blob")
    /\ \/ Goto(p, "failed") /\ file' = file
       \/ /\ Stored(k)
          /\ Goto(p, IF file[k].blob = call[p].content THEN "finish" ELSE "failed")
          /\ file' = file
       \/ /\ ~Stored(k) /\ (file[k].meta = Partial \/ None \notin {file[k].meta, file[k].blob})
          /\ Goto(p, "failed")
          /\ file' = file
       \/ /\ file[k].meta # Partial /\ (file[k].meta = None \/ file[k].blob = None)
          /\ Write(p, "blob", "meta") \/ Reuse(p, "blob", "meta")
    /\ UNCHANGED <<asset, op, replica, bound, jobs, receipt, told, outside>>

PutMetadata(p) ==
    /\ At(p, "meta")
    /\ \/ Goto(p, "failed") /\ file' = file
       \/ Write(p, "meta", "finish")
       \/ Reuse(p, "meta", "finish")
    /\ UNCHANGED <<asset, op, replica, bound, jobs, receipt, told, outside>>

(* Mutant: the operation is not looked at.                                 *)
RecordFailureBlind(p) ==
    LET k == call[p].key IN
    /\ At(p, "failed")
    /\ Fail(p)
    /\ op' = [op EXCEPT ![k].state = "retryable"]
    /\ asset' = [asset EXCEPT !.state = "failed", !.version = @ + 2]
    /\ UNCHANGED <<file, replica, bound, jobs, receipt, outside>>

(* recordFailure, which looks neither at authority nor at migrations.      *)
RecordFailure(p) ==
    LET k == call[p].key IN
    /\ At(p, "failed")
    /\ Fail(p)
    /\ IF op[k].state = "completed" \/ ~IO!CanAdvance(op[k].state, "retryable")
       THEN UNCHANGED <<asset, op>>
       ELSE /\ op' = [op EXCEPT ![k].state = "retryable"]
            /\ asset' = CASE asset.state \in {"initiated", "failed"} ->
                               [asset EXCEPT !.state = "failed", !.version = @ + 2]
                          [] asset.state = "uploading" ->
                               [asset EXCEPT !.state = "failed", !.version = @ + 1]
                          [] OTHER -> asset
    /\ UNCHANGED <<file, replica, bound, jobs, receipt, outside>>

(* The asset goes through uploading and scanning to what the scan found.   *)
Scanned(scan) ==
    LET uploads == IF asset.state \in {"failed", "initiated"} THEN 1 ELSE 0
        scans   == IF asset.state \in {"failed", "initiated", "uploading"} THEN 1 ELSE 0
        ends    == IF scan # "scanning" THEN 1 ELSE 0
    IN  IF asset.state \in {"failed", "initiated", "uploading", "scanning"}
        THEN [asset EXCEPT !.state = scan, !.version = @ + uploads + scans + ends]
        ELSE asset

(* Mutant: the receipt is not looked at a second time.                     *)
FinishUnread(p) ==
    LET k == call[p].key IN
    /\ At(p, "finish")
    /\ \/ ~writable /\ Fail(p) /\ UNCHANGED saga
       \/ /\ writable
          /\ \E scan \in ScanStates :
                /\ asset' = Scanned(scan)
                /\ jobs' = jobs + IF asset'.state = "available" THEN 1 ELSE 0
                /\ receipt' = [receipt EXCEPT ![k] = [content |-> call[p].content,
                                                      state |-> asset'.state]]
                /\ Answer(p, receipt'[k])
          /\ replica' = k
          /\ bound' = TRUE
          /\ op' = [op EXCEPT ![k].state = "completed"]
          /\ file' = file
    /\ UNCHANGED outside

(* The last transaction.                                                   *)
Finish(p) ==
    LET k == call[p].key
        possible == /\ replica \in {None, k}
                    /\ IO!CanAdvance(op[k].state, "completed")
    IN
    /\ At(p, "finish")
    /\ \/ ~writable /\ Fail(p) /\ UNCHANGED saga
       \/ Replay(p) /\ UNCHANGED saga
       \/ writable /\ receipt[k] = None /\ ~possible /\ Fail(p) /\ UNCHANGED saga
       \/ /\ writable /\ receipt[k] = None /\ possible
          /\ \E scan \in ScanStates :
                /\ asset' = Scanned(scan)
                /\ jobs' = jobs + IF asset'.state = "available" THEN 1 ELSE 0
                /\ receipt' = [receipt EXCEPT ![k] = [content |-> call[p].content,
                                                      state |-> asset'.state]]
                /\ Answer(p, receipt'[k])
          /\ replica' = k
          /\ bound' = TRUE
          /\ op' = [op EXCEPT ![k].state = "completed"]
          /\ file' = file
    /\ UNCHANGED outside

(* The process dies; the file it was writing may be left unfinished.       *)
Crash(p) ==
    LET k == call[p].key
        writing == {w \in {"blob", "meta"} : At(p, w) /\ file[k][w] = None}
    IN
    /\ ~At(p, "idle")
    /\ Fail(p)
    /\ \/ file' = file
       \/ \E w \in writing : file' = [file EXCEPT ![k][w] = Partial]
    /\ UNCHANGED <<asset, op, replica, bound, jobs, receipt, outside>>

-----------------------------------------------------------------------------
(* The download and the surroundings.                                      *)

(* authorizedSnapshot                                                      *)
Downloadable == viewable /\ asset # None /\ asset.state = "available" /\ replica # None

OpenDownload ==
    /\ download.pc = "idle"
    /\ Downloadable
    /\ download' = [pc |-> "read", asset |-> asset, from |-> replica, moves |-> moves]
    /\ UNCHANGED <<saga, call, writable, viewable, told, read, calls, moves>>

(* Metadata, bytes and metadata again.                                     *)
ReadContent ==
    /\ download.pc = "read"
    /\ download' = IF Stored(download.from) /\ file[download.from].blob = download.asset.content
                   THEN [download EXCEPT !.pc = "check"] ELSE NoDownload
    /\ UNCHANGED <<saga, call, writable, viewable, told, read, calls, moves>>

(* Mutant: only the authority is checked again.                            *)
SameViewer == Downloadable

SameSnapshot == Downloadable /\ asset = download.asset /\ replica = download.from

CloseDownload ==
    /\ download.pc = "check"
    /\ download' = NoDownload
    /\ read' = IF SameSnapshot
               THEN read \cup {[content |-> file[download.from].blob, moves |-> download.moves,
                                now |-> moves]}
               ELSE read
    /\ UNCHANGED <<saga, call, writable, viewable, told, calls, moves>>

(* A migration moves the asset to the other domain, or back.               *)
Move ==
    /\ ~writable /\ asset # None
    /\ moves < MaxMoves
    /\ moves' = moves + 1
    /\ asset' = [asset EXCEPT !.domain = IF @ = "source" THEN "target" ELSE "source",
                              !.version = @ + 1]
    /\ UNCHANGED <<op, file, replica, bound, jobs, receipt, call, download, writable, viewable,
                   told, read, calls>>

ChangeAccess ==
    /\ \/ writable' = ~writable /\ viewable' = viewable
       \/ viewable' = ~viewable /\ writable' = writable
    /\ UNCHANGED <<saga, call, download, told, read, calls, moves>>

Next ==
    \/ \E p \in Calls :
         \/ \E key \in Keys, content \in Contents : Start(p, key, content)
         \/ Begin(p) \/ Run(p) \/ PutBlob(p) \/ PutMetadata(p)
         \/ RecordFailure(p) \/ Finish(p) \/ Crash(p)
    \/ OpenDownload \/ ReadContent \/ CloseDownload
    \/ Move \/ ChangeAccess

Spec == Init /\ [][Next]_vars

-----------------------------------------------------------------------------
(* Properties.                                                             *)

Live == {p \in Calls : call[p].pc \in {"blob", "meta", "failed", "finish"}}

(* However calls fail, die and are repeated, one of them at most works on  *)
(* the content at a time: the files have a single writer.                  *)
OneWriter ==
    \A p, q \in Live : p # q =>
        \/ call[p].key # call[q].key
        \/ op[call[p].key].state = "completed"

(* An asset has left the hands of its ingest exactly when one operation    *)
(* completed, with its receipt, its replica and its binding, and its       *)
(* projection is scheduled once, and only if it may be seen.               *)
CompletedAtOnce ==
    LET done == {k \in Keys : op[k] # None /\ op[k].state = "completed"} IN
    /\ done = {k \in Keys : receipt[k] # None}
    /\ done = IF replica = None THEN {} ELSE {replica}
    /\ bound <=> replica # None
    /\ jobs = IF asset # None /\ asset.state = "available" THEN 1 ELSE 0
    /\ replica # None => receipt[replica].state = asset.state

(* What an asset that may be seen refers to has been written to the end,   *)
(* and is what its caller sent.                                            *)
AvailableIsStored ==
    replica # None => /\ Stored(replica)
                      /\ file[replica].blob = asset.content

(* Callers under one key are told one result, about the content they sent, *)
(* and it is the one of the asset.                                         *)
AnswersAgree ==
    \A t \in told : /\ t.result = receipt[t.key]
                    /\ t.content = asset.content

(* A download hands out the content of an asset that no migration moved    *)
(* while it was read, there and back included.                             *)
DownloadsSpanNoMove ==
    \A r \in read : r.content = asset.content /\ r.moves = r.now

(* "Partial success: continue from the last confirmed step"                *)
(* (ADR-004-durable-uow-outbox-jobs.md:26): an operation that is not       *)
(* finished is worked on, or can be taken up again.                        *)
PartialSuccessContinues ==
    \A k \in Keys : op[k] # None /\ op[k].state = "running" =>
        \E p \in Live : call[p].key = k

=============================================================================
