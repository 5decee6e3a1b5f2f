------------------------- MODULE AssetIngestProofs --------------------------
(* What an ingest owes to its callers and readers, for all keys, contents  *)
(* and calls: one writer, one completion, one answer, and only contents    *)
(* that are stored.                                                        *)
EXTENDS AssetIngest, TLAPS

(* One operation, of the asset's content, which is the completed one when  *)
(* there is a receipt.                                                     *)
SagaInv ==
    /\ asset = None => \A k \in Keys : op[k] = None
    /\ \A k \in Keys : op[k] # None =>
           /\ op[k].content = asset.content
           /\ op[k].state \in {"planned", "running", "retryable", "completed"}
    /\ \A j, k \in Keys : op[j] # None /\ op[k] # None => j = k
    /\ \A k \in Keys : receipt[k] # None <=> op[k] # None /\ op[k].state = "completed"
    /\ \A k \in Keys : receipt[k] # None =>
           receipt[k].content = asset.content /\ receipt[k].state = asset.state /\ replica = k
    /\ replica # None => receipt[replica] # None
    /\ bound <=> replica # None
    /\ jobs = IF asset # None /\ asset.state = "available" THEN 1 ELSE 0
    /\ asset # None /\ replica = None => asset.state \in {"initiated", "failed"}

(* Calls past the first transaction carry the content of their operation;  *)
(* one at most works on an operation that is running, none on one that is  *)
(* not.                                                                    *)
CallInv ==
    /\ \A p \in Calls : call[p].pc \notin {"idle", "begin"} =>
           op[call[p].key] # None /\ op[call[p].key].content = call[p].content
    /\ \A p \in Live : op[call[p].key].state \in {"running", "completed"}
    /\ OneWriter

(* What the call at work has written so far, and what was completed.       *)
FileInv ==
    /\ AvailableIsStored
    /\ \A p \in Live : op[call[p].key].state = "running" =>
           /\ At(p, "meta") => file[call[p].key].blob = call[p].content
           /\ At(p, "finish") => /\ Stored(call[p].key)
                                 /\ file[call[p].key].blob = call[p].content

ToldInv == AnswersAgree /\ \A t \in told : receipt[t.key] # None

(* A download holds an earlier version than now when the asset was moved.  *)
DownloadInv ==
    /\ DownloadsSpanNoMove
    /\ asset = None => read = {}
    /\ download.pc # "idle" =>
           /\ asset # None /\ download.asset \in AssetType
           /\ download.moves <= moves /\ download.asset.version <= asset.version
           /\ download.moves < moves => download.asset.version < asset.version
           /\ download.from # None /\ download.from = replica

Inv == TypeOK /\ SagaInv /\ CallInv /\ FileInv /\ ToldInv /\ DownloadInv

LEMMA InitInv == Init => Inv
  <1> SUFFICES ASSUME Init PROVE Inv
    OBVIOUS
  <1>1. IdleCall \in CallType /\ IdleCall.pc = "idle"
    BY IngestAssumption DEF IdleCall, CallType
  <1>2. TypeOK
    <2>1. download \in DownloadType /\ call \in [Calls -> CallType]
      BY <1>1 DEF Init, NoDownload, DownloadType
    <2>2. /\ told \subseteq [key : Keys, content : Contents, result : ResultType]
          /\ read \subseteq [content : Contents, moves : Nat, now : Nat]
      BY DEF Init
    <2>3. /\ asset \in AssetType \cup {None} /\ op \in [Keys -> OperationType \cup {None}]
          /\ receipt \in [Keys -> ResultType \cup {None}]
      BY DEF Init
    <2>4. file \in [Keys -> [blob : Contents \cup {None, Partial},
                             meta : Contents \cup {None, Partial}]]
      BY DEF Init
    <2>5. /\ bound \in BOOLEAN /\ writable \in BOOLEAN /\ viewable \in BOOLEAN
      BY DEF Init
    <2>6. replica \in Keys \cup {None} /\ jobs \in 0..1 /\ calls \in Nat /\ moves \in Nat
      BY DEF Init
    <2> QED
      BY <2>1, <2>2, <2>3, <2>4, <2>5, <2>6 DEF TypeOK
  <1>3. Live = {} /\ \A p \in Calls : call[p].pc = "idle"
    BY <1>1 DEF Init, Live
  <1> QED
    BY <1>2, <1>3 DEF Init, Inv, SagaInv, CallInv, OneWriter, FileInv, AvailableIsStored, ToldInv,
       AnswersAgree, DownloadInv, DownloadsSpanNoMove, NoDownload

-----------------------------------------------------------------------------
(* Steps that leave the saga's rows alone.                                 *)

rows == <<asset, op, replica, bound, jobs, receipt>>

LEMMA QuietRows ==
  ASSUME Inv, UNCHANGED rows
  PROVE  SagaInv'
  BY DEF Inv, SagaInv, rows

LEMMA QuietTold ==
  ASSUME Inv, UNCHANGED rows, UNCHANGED told
  PROVE  ToldInv'
  BY DEF Inv, ToldInv, AnswersAgree, rows

LEMMA QuietDownload ==
  ASSUME Inv, UNCHANGED rows, UNCHANGED <<download, read, moves>>
  PROVE  DownloadInv'
  BY DEF Inv, DownloadInv, DownloadsSpanNoMove, rows

(* A call that ends, begins, or goes on where it may.                      *)
LEMMA CallMoves ==
  ASSUME Inv, UNCHANGED rows, NEW p \in Calls, NEW c \in CallType,
         call' = [call EXCEPT ![p] = c],
         \/ c.pc \in {"idle", "begin"}
         \/ /\ c.key = call[p].key /\ c.content = call[p].content
            /\ op[c.key] # None /\ op[c.key].content = c.content
            /\ c.pc = "run" \/ p \in Live \/ op[c.key].state = "completed"
  PROVE  CallInv'
  <1>1. call \in [Calls -> CallType]
    BY DEF Inv, TypeOK
  <1>2. call'[p] = c /\ \A q \in Calls : q # p => call'[q] = call[q]
    BY <1>1
  <1>3. \A q \in Calls : q # p => (q \in Live' <=> q \in Live)
    BY <1>2 DEF Live
  <1>4. p \in Live' => /\ c.key = call[p].key
                       /\ p \in Live \/ op[c.key].state = "completed"
    BY <1>2 DEF Live, CallType
  <1>5. \A q \in Calls : call'[q].pc \notin {"idle", "begin"} =>
            op[call'[q].key] # None /\ op[call'[q].key].content = call'[q].content
    BY <1>2 DEF Inv, CallInv
  <1>6. \A q \in Live' : op[call'[q].key].state \in {"running", "completed"}
    BY <1>2, <1>3, <1>4 DEF Inv, CallInv, Live
  <1>7. OneWriter'
    BY <1>2, <1>3, <1>4 DEF Inv, CallInv, OneWriter, Live, rows
  <1> QED
    BY <1>5, <1>6, <1>7 DEF CallInv, rows

(* Files stay what they are for the others: a call at work on a running    *)
(* operation is alone, and what is completed is only read.                 *)
LEMMA FilesMove ==
  ASSUME Inv, UNCHANGED rows, NEW p \in Calls, NEW c \in CallType,
         call' = [call EXCEPT ![p] = c],
         \/ file' = file
         \/ /\ p \in Live
            /\ \E which \in {"blob", "meta"}, new \in Contents \cup {None, Partial} :
                   /\ file[call[p].key][which] = None
                   /\ file' = [file EXCEPT ![call[p].key][which] = new],
         \/ c.pc \in {"idle", "begin", "run", "blob", "failed"}
         \/ /\ p \in Live /\ c.key = call[p].key
            /\ c.pc = "meta" => file'[c.key].blob = c.content
            /\ c.pc = "finish" => /\ file'[c.key].blob = c.content
                                  /\ file'[c.key].meta = c.content
         \/ op[c.key].state = "completed"
  PROVE  FileInv'
  <1>1. call \in [Calls -> CallType] /\ replica \in Keys \cup {None} /\ None \notin Contents
    BY IngestAssumption DEF Inv, TypeOK
  <1>2. call'[p] = c /\ \A q \in Calls : q # p => call'[q] = call[q]
    BY <1>1
  <1>3. /\ p \in Live' => c.pc \in {"blob", "meta", "failed", "finish"}
        /\ \A q \in Calls : q # p => (q \in Live' <=> q \in Live)
    BY <1>2 DEF Live
  <1>4. file \in [Keys -> [blob : Contents \cup {None, Partial},
                           meta : Contents \cup {None, Partial}]]
    BY DEF Inv, TypeOK
  <1>5. ASSUME NEW k \in Keys, Stored(k)
        PROVE  file'[k] = file[k]
    <2>1. CASE file' = file
      BY <2>1
    <2>2. ASSUME NEW which \in {"blob", "meta"}, NEW new,
                 file[call[p].key][which] = None,
                 file' = [file EXCEPT ![call[p].key][which] = new]
          PROVE  file'[k] = file[k]
      <3>1. call[p].key # k
        BY <1>1, <1>5, <2>2 DEF Stored
      <3> QED
        BY <1>4, <2>2, <3>1
    <2> QED
      BY <2>1, <2>2
  <1>6. ASSUME NEW k \in Keys, p \notin Live \/ call[p].key # k
        PROVE  file'[k] = file[k]
    BY <1>4, <1>6
  <1>7. AvailableIsStored'
    BY <1>1, <1>5 DEF Inv, FileInv, AvailableIsStored, Stored, rows
  <1>8. ASSUME NEW q \in Live', (op[call[q].key].state = "running")'
        PROVE  /\ At(q, "meta")' => (file[call[q].key].blob = call[q].content)'
               /\ At(q, "finish")' => /\ Stored(call[q].key)'
                                      /\ (file[call[q].key].blob = call[q].content)'
    <2>1. CASE q = p
      BY <1>2, <1>3, <1>8, <2>1 DEF At, Stored, CallType, rows
    <2>2. CASE q # p
      <3>1. q \in Live /\ call'[q] = call[q] /\ op[call[q].key].state = "running"
        BY <1>2, <1>3, <1>8, <2>2 DEF Live, rows
      <3>2. call[q].key \in Keys
        BY <1>1, <3>1 DEF Live, CallType
      <3>3. p \notin Live \/ call[p].key # call[q].key
        BY <2>2, <3>1 DEF Inv, CallInv, OneWriter
      <3>4. file'[call[q].key] = file[call[q].key]
        BY <1>6, <3>2, <3>3
      <3> QED
        BY <3>1, <3>4 DEF Inv, FileInv, At, Stored
    <2> QED
      BY <2>1, <2>2
  <1> QED
    BY <1>7, <1>8 DEF FileInv

-----------------------------------------------------------------------------
(* The steps of a call.                                                    *)

LEMMA IdleTyped == IdleCall \in CallType /\ IdleCall.pc = "idle"
  BY IngestAssumption DEF IdleCall, CallType

(* Whatever a call learns, it is answered by the receipt or not at all.    *)
LEMMA AnswerKeeps ==
  ASSUME Inv, NEW p \in Calls, UNCHANGED rows, UNCHANGED outside,
         \/ Fail(p) /\ file' = file
         \/ Replay(p) /\ file' = file
         \/ /\ Fail(p) /\ p \in Live
            /\ \E which \in {"blob", "meta"} :
                  /\ file[call[p].key][which] = None
                  /\ file' = [file EXCEPT ![call[p].key][which] = Partial]
  PROVE  Inv'
  <1>1. call' = [call EXCEPT ![p] = IdleCall]
    BY DEF Fail, Replay, Answer
  <1>2. call \in [Calls -> CallType] /\ call[p].key \in Keys /\ call[p].content \in Contents
    BY DEF Inv, TypeOK, CallType
  <1>3. CallInv'
    BY <1>1, IdleTyped, CallMoves
  <1>4. FileInv'
    BY <1>1, IdleTyped, FilesMove DEF Fail, Replay
  <1>5. SagaInv' /\ DownloadInv'
    BY QuietRows, QuietDownload DEF outside
  <1>6. TypeOK' /\ ToldInv'
    <2>1. /\ file' \in [Keys -> [blob : Contents \cup {None, Partial},
                                 meta : Contents \cup {None, Partial}]]
          /\ call' \in [Calls -> CallType]
      BY <1>1, <1>2, IdleTyped DEF Inv, TypeOK, Fail, Replay
    <2>2. CASE told' = told
      BY <2>1, <2>2, QuietTold DEF Inv, TypeOK, rows, outside
    <2>3. CASE /\ Replay(p) /\ receipt[call[p].key].content = call[p].content
               /\ Answer(p, receipt[call[p].key])
      <3> DEFINE r == receipt[call[p].key]
      <3>1. r # None /\ r \in ResultType /\ r.content = asset.content
        BY <1>2, <2>3 DEF Inv, TypeOK, SagaInv, Replay
      <3>2. told' = told \cup {[key |-> call[p].key, content |-> call[p].content, result |-> r]}
        BY <2>3 DEF Answer
      <3>3. TypeOK'
        <4>1. told' \subseteq [key : Keys, content : Contents, result : ResultType]
          BY <1>2, <3>1, <3>2 DEF Inv, TypeOK
        <4>2. /\ bound' \in BOOLEAN /\ writable' \in BOOLEAN /\ viewable' \in BOOLEAN
          BY DEF Inv, TypeOK, rows, outside
        <4>3. /\ asset' \in AssetType \cup {None} /\ op' \in [Keys -> OperationType \cup {None}]
              /\ receipt' \in [Keys -> ResultType \cup {None}] /\ replica' \in Keys \cup {None}
              /\ jobs' \in 0..1 /\ calls' \in Nat /\ moves' \in Nat
          BY DEF Inv, TypeOK, rows, outside
        <4>4. /\ download' \in DownloadType
              /\ read' \subseteq [content : Contents, moves : Nat, now : Nat]
          BY DEF Inv, TypeOK, outside
        <4> QED
          BY <2>1, <4>1, <4>2, <4>3, <4>4 DEF TypeOK
      <3>4. ToldInv'
        <4>1. ASSUME NEW t \in told'
              PROVE  /\ t.result = receipt[t.key] /\ t.content = asset.content
                     /\ receipt[t.key] # None
          <5>1. CASE t \in told
            BY <5>1 DEF Inv, ToldInv, AnswersAgree
          <5>2. CASE t = [key |-> call[p].key, content |-> call[p].content, result |-> r]
            <6>1. t.key = call[p].key /\ t.content = call[p].content /\ t.result = r
              BY <5>2
            <6> QED
              BY <2>3, <3>1, <6>1
          <5> QED
            BY <3>2, <4>1, <5>1, <5>2
        <4> QED
          BY <4>1 DEF ToldInv, AnswersAgree, rows
      <3> QED
        BY <3>3, <3>4
    <2>4. told' = told \/ /\ Replay(p) /\ receipt[call[p].key].content = call[p].content
                          /\ Answer(p, receipt[call[p].key])
      BY DEF Fail, Replay
    <2> QED
      BY <2>2, <2>3, <2>4
  <1> QED
    BY <1>3, <1>4, <1>5, <1>6 DEF Inv

(* A call goes on, having perhaps written a file.                          *)
LEMMA GotoKeeps ==
  ASSUME Inv, NEW p \in Calls, UNCHANGED rows, UNCHANGED <<told, outside>>,
         NEW pc \in {"run", "blob", "meta", "failed", "finish"}, Goto(p, pc),
         op[call[p].key] # None, op[call[p].key].content = call[p].content,
         pc = "run" \/ p \in Live \/ op[call[p].key].state = "completed",
         \/ file' = file
         \/ /\ p \in Live
            /\ \E which \in {"blob", "meta"}, new \in Contents \cup {None, Partial} :
                   /\ file[call[p].key][which] = None
                   /\ file' = [file EXCEPT ![call[p].key][which] = new],
         p \in Live =>
            /\ pc = "meta" => file'[call[p].key].blob = call[p].content
            /\ pc = "finish" => /\ file'[call[p].key].blob = call[p].content
                                /\ file'[call[p].key].meta = call[p].content
  PROVE  Inv'
  <1> DEFINE c == [call[p] EXCEPT !.pc = pc]
  <1>1. /\ call \in [Calls -> CallType] /\ call[p].key \in Keys /\ call[p] \in CallType
    BY DEF Inv, TypeOK, CallType
  <1>2. /\ c \in CallType /\ c.pc = pc /\ c.key = call[p].key /\ c.content = call[p].content
        /\ call' = [call EXCEPT ![p] = c]
    BY <1>1 DEF CallType, Goto
  <1> HIDE DEF c
  <1>3. CallInv'
    BY <1>2, CallMoves
  <1>4. FileInv'
    BY <1>2, FilesMove
  <1>5. SagaInv' /\ DownloadInv' /\ ToldInv'
    BY QuietRows, QuietDownload, QuietTold DEF outside
  <1>6. /\ file' \in [Keys -> [blob : Contents \cup {None, Partial},
                               meta : Contents \cup {None, Partial}]]
        /\ call' \in [Calls -> CallType]
    <2>1. call' \in [Calls -> CallType]
      BY <1>1, <1>2
    <2>2. CASE file' = file
      BY <2>1, <2>2 DEF Inv, TypeOK
    <2>3. ASSUME NEW which \in {"blob", "meta"}, NEW new \in Contents \cup {None, Partial},
                 file' = [file EXCEPT ![call[p].key][which] = new]
          PROVE  file' \in [Keys -> [blob : Contents \cup {None, Partial},
                                     meta : Contents \cup {None, Partial}]]
      BY <1>1, <2>3 DEF Inv, TypeOK
    <2> QED
      BY <2>1, <2>2, <2>3
  <1>7. TypeOK'
    BY <1>6 DEF Inv, TypeOK, rows, outside
  <1> QED
    BY <1>3, <1>4, <1>5, <1>7 DEF Inv

LEMMA StartKeeps ==
  ASSUME Inv, NEW p \in Calls, NEW key \in Keys, NEW content \in Contents,
         Start(p, key, content)
  PROVE  Inv'
  <1> DEFINE c == [pc |-> "begin", key |-> key, content |-> content]
  <1>1. c \in CallType /\ c.pc = "begin"
    BY DEF CallType
  <1>2. /\ call' = [call EXCEPT ![p] = c] /\ UNCHANGED rows /\ file' = file
        /\ UNCHANGED <<told, download, read, moves, writable, viewable>> /\ calls' = calls + 1
    BY DEF Start, saga, rows
  <1> HIDE DEF c
  <1>3. CallInv' /\ FileInv'
    BY <1>1, <1>2, CallMoves, FilesMove
  <1>4. SagaInv' /\ DownloadInv' /\ ToldInv'
    BY <1>2, QuietRows, QuietDownload, QuietTold
  <1>5. TypeOK'
    BY <1>1, <1>2 DEF Inv, TypeOK, rows
  <1> QED
    BY <1>3, <1>4, <1>5 DEF Inv

LEMMA PutBlobKeeps ==
  ASSUME Inv, NEW p \in Calls, PutBlob(p)
  PROVE  Inv'
  <1>1. /\ p \in Live /\ call[p].key \in Keys /\ call[p].content \in Contents
        /\ op[call[p].key] # None /\ op[call[p].key].content = call[p].content
    BY DEF Inv, TypeOK, CallType, CallInv, PutBlob, At, Live
  <1>2. UNCHANGED rows /\ UNCHANGED <<told, outside>>
    BY DEF PutBlob, rows
  <1>3. file \in [Keys -> [blob : Contents \cup {None, Partial},
                           meta : Contents \cup {None, Partial}]]
    BY DEF Inv, TypeOK
  <1>4. CASE Goto(p, "failed") /\ file' = file
    BY <1>1, <1>2, <1>4, GotoKeeps
  <1>5. CASE Stored(call[p].key) /\ file[call[p].key].blob = call[p].content
             /\ Goto(p, "finish") /\ file' = file
    <2>1. /\ file'[call[p].key].blob = call[p].content
          /\ file'[call[p].key].meta = call[p].content
      BY <1>5 DEF Stored
    <2> QED
      BY <1>1, <1>2, <1>5, <2>1, GotoKeeps
  <1>6. CASE Write(p, "blob", "meta")
    <2>1. ASSUME NEW new \in Contents \cup {None, Partial},
                 file' = [file EXCEPT ![call[p].key]["blob"] = new],
                 \/ new = call[p].content /\ Goto(p, "meta")
                 \/ Goto(p, "failed")
          PROVE  Inv'
      <3>1. file'[call[p].key].blob = new
        BY <1>1, <1>3, <2>1
      <3>2. file[call[p].key]["blob"] = None
        BY <1>6 DEF Write
      <3> QED
        BY <1>1, <1>2, <2>1, <3>1, <3>2, GotoKeeps
    <2> QED
      BY <1>1, <1>6, <2>1 DEF Write
  <1>7. CASE Reuse(p, "blob", "meta")
    BY <1>1, <1>2, <1>4, <1>7, GotoKeeps DEF Reuse
  <1> QED
    BY <1>4, <1>5, <1>6, <1>7 DEF PutBlob

LEMMA PutMetadataKeeps ==
  ASSUME Inv, NEW p \in Calls, PutMetadata(p)
  PROVE  Inv'
  <1>1. /\ p \in Live /\ call[p].key \in Keys /\ call[p].content \in Contents
        /\ op[call[p].key] # None /\ op[call[p].key].content = call[p].content
    BY DEF Inv, TypeOK, CallType, CallInv, PutMetadata, At, Live
  <1>2. UNCHANGED rows /\ UNCHANGED <<told, outside>>
    BY DEF PutMetadata, rows
  <1>3. file \in [Keys -> [blob : Contents \cup {None, Partial},
                           meta : Contents \cup {None, Partial}]]
    BY DEF Inv, TypeOK
  <1>4. CASE Goto(p, "failed") /\ file' = file
    BY <1>1, <1>2, <1>4, GotoKeeps
  <1>5. op[call[p].key].state \in {"running", "completed"} /\ At(p, "meta")
    BY <1>1 DEF Inv, CallInv, PutMetadata
  <1>6. file[call[p].key].blob = call[p].content
    <2>1. CASE op[call[p].key].state = "running"
      BY <1>1, <1>5, <2>1 DEF Inv, FileInv
    <2>2. CASE op[call[p].key].state = "completed"
      <3>1. replica = call[p].key /\ op[call[p].key].content = asset.content
        BY <1>1, <2>2 DEF Inv, SagaInv
      <3>2. file[replica].blob = asset.content
        BY <1>1, <3>1, IngestAssumption DEF Inv, TypeOK, FileInv, AvailableIsStored
      <3> QED
        BY <1>1, <3>1, <3>2
    <2> QED
      BY <1>5, <2>1, <2>2
  <1>7. CASE Write(p, "meta", "finish")
    <2>1. ASSUME NEW new \in Contents \cup {None, Partial},
                 file' = [file EXCEPT ![call[p].key]["meta"] = new],
                 \/ new = call[p].content /\ Goto(p, "finish")
                 \/ Goto(p, "failed")
          PROVE  Inv'
      <3>1. file'[call[p].key].meta = new /\ file'[call[p].key].blob = call[p].content
        BY <1>1, <1>3, <1>6, <2>1
      <3>2. file[call[p].key]["meta"] = None
        BY <1>7 DEF Write
      <3> QED
        BY <1>1, <1>2, <2>1, <3>1, <3>2, GotoKeeps
    <2> QED
      BY <1>1, <1>7, <2>1 DEF Write
  <1>8. CASE Reuse(p, "meta", "finish")
    <2>1. Goto(p, "finish") => file'[call[p].key].meta = call[p].content
                              /\ file'[call[p].key].blob = call[p].content
      BY <1>1, <1>6, <1>8 DEF Reuse, Goto, Inv, TypeOK, CallType
    <2>2. file' = file /\ (Goto(p, "finish") \/ Goto(p, "failed"))
      BY <1>8 DEF Reuse
    <2> QED
      BY <1>1, <1>2, <1>4, <2>1, <2>2, GotoKeeps
  <1> QED
    BY <1>4, <1>7, <1>8 DEF PutMetadata

LEMMA CrashKeeps ==
  ASSUME Inv, NEW p \in Calls, Crash(p)
  PROVE  Inv'
  <1>1. UNCHANGED rows /\ UNCHANGED outside /\ Fail(p)
    BY DEF Crash, rows
  <1>2. CASE file' = file
    BY <1>1, <1>2, AnswerKeeps
  <1>3. ASSUME NEW w \in {"blob", "meta"}, At(p, w), file[call[p].key][w] = None,
               file' = [file EXCEPT ![call[p].key][w] = Partial]
        PROVE  Inv'
    <2>1. p \in Live
      BY <1>3 DEF At, Live
    <2> QED
      BY <1>1, <1>3, <2>1, AnswerKeeps
  <1> QED
    BY <1>2, <1>3 DEF Crash

-----------------------------------------------------------------------------
(* The transactions.                                                       *)

(* The asset and its operation come into being.                            *)
LEMMA CreationKeeps ==
  ASSUME Inv, NEW p \in Calls, At(p, "begin"), asset = None,
         asset' = [state |-> "initiated", content |-> call[p].content, domain |-> "source",
                   version |-> 1],
         op' = [op EXCEPT ![call[p].key] = [state |-> "planned", content |-> call[p].content]],
         Goto(p, "run"), told' = told,
         UNCHANGED <<file, replica, bound, jobs, receipt, outside>>
  PROVE  Inv'
  <1> DEFINE k == call[p].key
             c == [call[p] EXCEPT !.pc = "run"]
  <1>1. /\ call \in [Calls -> CallType] /\ call[p] \in CallType
        /\ k \in Keys /\ call[p].content \in Contents
    BY DEF Inv, TypeOK, CallType
  <1>2. /\ c \in CallType /\ c.pc = "run" /\ c.key = k /\ c.content = call[p].content
        /\ call' = [call EXCEPT ![p] = c]
    BY <1>1 DEF CallType, Goto
  <1> HIDE DEF c
  <1>3. call'[p] = c /\ \A q \in Calls : q # p => call'[q] = call[q]
    BY <1>1, <1>2
  <1>4. /\ asset' \in AssetType /\ asset'.state = "initiated" /\ asset'.content = call[p].content
    BY <1>1 DEF AssetType, AssetStates
  <1>5. /\ op'[k] \in OperationType /\ op'[k].state = "planned"
        /\ op'[k].content = call[p].content
        /\ \A j \in Keys \ {k} : op'[j] = None
    <2>1. op \in [Keys -> OperationType \cup {None}] /\ \A j \in Keys : op[j] = None
      BY DEF Inv, TypeOK, SagaInv
    <2> QED
      BY <1>1, <2>1 DEF OperationType, IO!OperationStates
  <1>6. asset' # None /\ op'[k] # None
    BY <1>4, <1>5, RecordAssumption
  <1>7. /\ \A j \in Keys : op[j] = None /\ receipt[j] = None
        /\ replica = None /\ Live = {}
    <2>1. \A j \in Keys : op[j] = None /\ receipt[j] = None
      BY DEF Inv, SagaInv
    <2>2. replica = None
      BY <2>1 DEF Inv, TypeOK, SagaInv
    <2>3. \A q \in Calls : call[q].key \in Keys
      BY <1>1 DEF CallType
    <2> QED
      BY <2>1, <2>2, <2>3 DEF Inv, CallInv, Live
  <1>8. Live' = {}
    BY <1>2, <1>3, <1>7 DEF Live
  <1>9. SagaInv'
    BY <1>1, <1>4, <1>5, <1>6, <1>7 DEF Inv, SagaInv
  <1>10. CallInv'
    <2>1. \A q \in Calls : q # p => call'[q].pc \in {"idle", "begin"}
      <3>1. \A q \in Calls : call[q].key \in Keys
        BY <1>1 DEF CallType
      <3> QED
        BY <1>3, <1>7, <3>1 DEF Inv, CallInv
    <2> QED
      BY <1>2, <1>3, <1>5, <1>6, <1>8, <2>1 DEF CallInv, OneWriter
  <1>11. FileInv' /\ ToldInv' /\ DownloadInv'
    <2>1. told = {} /\ read = {} /\ download.pc = "idle"
      BY <1>7 DEF Inv, TypeOK, ToldInv, DownloadInv, DownloadsSpanNoMove
    <2> QED
      BY <1>7, <1>8, <2>1 DEF FileInv, AvailableIsStored, ToldInv, AnswersAgree, DownloadInv,
         DownloadsSpanNoMove, outside
  <1>12. TypeOK'
    <2>1. call' \in [Calls -> CallType] /\ op' \in [Keys -> OperationType \cup {None}]
      BY <1>1, <1>2, <1>5 DEF Inv, TypeOK
    <2> QED
      BY <1>4, <2>1 DEF Inv, TypeOK, outside
  <1> QED
    BY <1>9, <1>10, <1>11, <1>12 DEF Inv

LEMMA BeginKeeps ==
  ASSUME Inv, NEW p \in Calls, Begin(p)
  PROVE  Inv'
  <1>1. UNCHANGED outside /\ At(p, "begin") /\ call[p].key \in Keys
    BY DEF Begin, Inv, TypeOK, CallType
  <1>2. CASE UNCHANGED saga /\ (Fail(p) \/ Replay(p))
    BY <1>1, <1>2, AnswerKeeps DEF saga, rows
  <1>3. CASE /\ UNCHANGED saga /\ op[call[p].key] # None
             /\ op[call[p].key].content = call[p].content /\ Goto(p, "run") /\ told' = told
    <2>1. p \notin Live
      BY <1>1 DEF At, Live
    <2> QED
      BY <1>1, <1>3, <2>1, GotoKeeps DEF saga, rows
  <1>4. CASE /\ asset = None
             /\ asset' = [state |-> "initiated", content |-> call[p].content,
                          domain |-> "source", version |-> 1]
             /\ op' = [op EXCEPT ![call[p].key] = [state |-> "planned",
                                                   content |-> call[p].content]]
             /\ Goto(p, "run") /\ told' = told
             /\ UNCHANGED <<file, replica, bound, jobs, receipt>>
    BY <1>1, <1>4, CreationKeeps
  <1> QED
    BY <1>2, <1>3, <1>4 DEF Begin

(* The state of the operation changes, in the hands of p, and the asset    *)
(* with it at most in its state and version.                               *)
LEMMA AdvanceKeeps ==
  ASSUME Inv, NEW p \in Calls, NEW state \in {"running", "retryable"},
         op[call[p].key] # None, op[call[p].key].content = call[p].content,
         op[call[p].key].state \in {"planned", "running", "retryable"},
         op' = [op EXCEPT ![call[p].key].state = state],
         asset' \in AssetType, asset'.content = asset.content,
         asset'.state \in {"initiated", "failed"},
         asset'.version >= asset.version,
         UNCHANGED <<file, replica, bound, jobs, receipt, outside, told>>,
         NEW c \in CallType, call' = [call EXCEPT ![p] = c],
         \/ /\ state = "retryable" /\ c.pc = "idle" /\ p \in Live
         \/ /\ state = "running" /\ c.pc = "blob" /\ c.key = call[p].key
            /\ c.content = call[p].content /\ op[call[p].key].state # "running"
  PROVE  Inv'
  <1> DEFINE k == call[p].key
  <1>1. /\ call \in [Calls -> CallType] /\ k \in Keys
        /\ op \in [Keys -> OperationType \cup {None}] /\ op[k] \in OperationType
    BY DEF Inv, TypeOK, CallType
  <1>2. call'[p] = c /\ \A q \in Calls : q # p => call'[q] = call[q]
    BY <1>1
  <1>3. /\ op'[k] \in OperationType /\ op'[k].state = state /\ op'[k].content = op[k].content
        /\ op'[k] # None /\ \A j \in Keys : j # k => op'[j] = op[j] /\ op[j] = None
    BY <1>1, RecordAssumption DEF Inv, SagaInv, OperationType, IO!OperationStates
  <1>4. /\ receipt[k] = None /\ \A j \in Keys : receipt[j] = None
        /\ replica = None /\ asset # None /\ jobs = 0 /\ asset' # None
    BY <1>1, <1>3, RecordAssumption DEF Inv, TypeOK, SagaInv
  <1>5. SagaInv'
    BY <1>1, <1>3, <1>4 DEF Inv, SagaInv
  <1>6. ASSUME NEW q \in Live', q # p
        PROVE  q \in Live /\ call'[q] = call[q] /\ call[q].key = k /\ op[k].state = "running"
    <2>1. q \in Live /\ call'[q] = call[q] /\ call[q].key \in Keys
      BY <1>1, <1>2, <1>6 DEF Live, CallType
    <2>2. call[q].key = k
      BY <1>3, <2>1 DEF Inv, CallInv, Live
    <2> QED
      BY <2>1, <2>2 DEF Inv, CallInv
  <1>7. Live' \subseteq {p} /\ (p \in Live' => state = "running" /\ c.pc = "blob")
    <2>1. ASSUME NEW q \in Live' PROVE q = p
      <3>1. CASE state = "retryable"
        BY <1>6, <3>1 DEF Inv, CallInv, OneWriter
      <3>2. CASE state = "running"
        BY <1>6, <3>2
      <3> QED
        BY <3>1, <3>2
    <2> QED
      BY <1>2, <2>1 DEF Live
  <1>8. CallInv'
    <2>1. \A q \in Calls : call'[q].pc \notin {"idle", "begin"} =>
              op'[call'[q].key] # None /\ op'[call'[q].key].content = call'[q].content
      <3>1. \A q \in Calls : call[q].key \in Keys
        BY <1>1 DEF CallType
      <3> QED
        BY <1>1, <1>2, <1>3, <3>1 DEF Inv, CallInv
    <2> QED
      BY <1>2, <1>3, <1>7, <2>1 DEF CallInv, OneWriter
  <1>9. FileInv'
    BY <1>2, <1>4, <1>7 DEF FileInv, AvailableIsStored, At
  <1>10. ToldInv' /\ DownloadInv'
    <2>1. told = {}
      BY <1>4 DEF Inv, TypeOK, ToldInv
    <2>2. download.pc = "idle"
      BY <1>4 DEF Inv, DownloadInv
    <2> QED
      BY <1>4, <2>1, <2>2 DEF Inv, ToldInv, AnswersAgree, DownloadInv, DownloadsSpanNoMove,
         outside
  <1>11. TypeOK'
    <2>1. call' \in [Calls -> CallType] /\ op' \in [Keys -> OperationType \cup {None}]
      BY <1>1, <1>3 DEF Inv, TypeOK
    <2> QED
      BY <2>1 DEF Inv, TypeOK, outside
  <1> QED
    BY <1>5, <1>8, <1>9, <1>10, <1>11 DEF Inv

LEMMA RunKeeps ==
  ASSUME Inv, NEW p \in Calls, Run(p)
  PROVE  Inv'
  <1>1. /\ call[p] \in CallType /\ call[p].key \in Keys /\ At(p, "run") /\ p \notin Live
        /\ op[call[p].key] # None /\ op[call[p].key].content = call[p].content
        /\ UNCHANGED <<asset, file, replica, bound, jobs, receipt, outside>>
    BY DEF Run, Inv, TypeOK, CallType, CallInv, At, Live
  <1>2. CASE op[call[p].key].state = "completed" /\ Goto(p, "blob") /\ told' = told /\ op' = op
    BY <1>1, <1>2, GotoKeeps DEF rows
  <1>3. CASE /\ op[call[p].key].state \in {"planned", "retryable"}
             /\ op' = [op EXCEPT ![call[p].key].state = "running"]
             /\ Goto(p, "blob") /\ told' = told
    <2> DEFINE c == [call[p] EXCEPT !.pc = "blob"]
    <2>1. /\ c \in CallType /\ c.pc = "blob" /\ c.key = call[p].key
          /\ c.content = call[p].content /\ call' = [call EXCEPT ![p] = c]
      BY <1>1, <1>3 DEF CallType, Goto
    <2> HIDE DEF c
    <2>2. asset \in AssetType /\ asset.state \in {"initiated", "failed"}
      <3>1. asset # None /\ receipt[call[p].key] = None
        BY <1>1, <1>3 DEF Inv, SagaInv
      <3>2. replica = None
        BY <1>1, <1>3 DEF Inv, TypeOK, SagaInv
      <3> QED
        BY <3>1, <3>2 DEF Inv, TypeOK, SagaInv
    <2>3. /\ asset' \in AssetType /\ asset'.content = asset.content
          /\ asset'.state \in {"initiated", "failed"} /\ asset'.version >= asset.version
      BY <1>1, <2>2 DEF AssetType
    <2>4. op[call[p].key].state \in {"planned", "running", "retryable"}
          /\ op[call[p].key].state # "running"
      BY <1>3
    <2>5. op' = [op EXCEPT ![call[p].key].state = "running"] /\ told' = told
      BY <1>3
    <2> QED
      BY <1>1, <2>1, <2>3, <2>4, <2>5, AdvanceKeeps
  <1>4. CASE Fail(p) /\ op' = op
    BY <1>1, <1>4, AnswerKeeps DEF rows
  <1> QED
    BY <1>2, <1>3, <1>4 DEF Run

LEMMA RecordFailureKeeps ==
  ASSUME Inv, NEW p \in Calls, RecordFailure(p)
  PROVE  Inv'
  <1>1. /\ call[p] \in CallType /\ call[p].key \in Keys /\ p \in Live
        /\ op[call[p].key] # None /\ op[call[p].key].content = call[p].content
        /\ UNCHANGED <<file, replica, bound, jobs, receipt, outside>> /\ Fail(p)
    BY DEF RecordFailure, Inv, TypeOK, CallType, CallInv, At, Live
  <1>2. CASE UNCHANGED <<asset, op>>
    BY <1>1, <1>2, AnswerKeeps DEF rows
  <1>3. CASE /\ op[call[p].key].state # "completed"
             /\ op' = [op EXCEPT ![call[p].key].state = "retryable"]
             /\ asset' = CASE asset.state \in {"initiated", "failed"} ->
                                [asset EXCEPT !.state = "failed", !.version = @ + 2]
                           [] asset.state = "uploading" ->
                                [asset EXCEPT !.state = "failed", !.version = @ + 1]
                           [] OTHER -> asset
    <2>1. asset \in AssetType /\ asset.state \in {"initiated", "failed"}
      <3>1. asset # None /\ receipt[call[p].key] = None
        BY <1>1, <1>3 DEF Inv, SagaInv
      <3>2. replica = None
        BY <1>1, <1>3 DEF Inv, TypeOK, SagaInv
      <3> QED
        BY <3>1, <3>2 DEF Inv, TypeOK, SagaInv
    <2>2. asset' = [asset EXCEPT !.state = "failed", !.version = asset.version + 2]
      BY <1>3, <2>1
    <2>3. /\ asset' \in AssetType /\ asset'.state = "failed" /\ asset'.content = asset.content
          /\ asset'.version >= asset.version
      <3> DEFINE version == asset.version + 2
      <3>1. asset.version \in Nat /\ version \in Nat /\ version >= asset.version
        BY <2>1 DEF AssetType
      <3>2. asset' = [asset EXCEPT !.state = "failed", !.version = version]
        BY <2>2
      <3> HIDE DEF version
      <3> QED
        BY <2>1, <3>1, <3>2 DEF AssetType, AssetStates
    <2>4. op[call[p].key].state = "running"
      BY <1>1, <1>3 DEF Inv, CallInv
    <2>5. call' = [call EXCEPT ![p] = IdleCall] /\ told' = told
      BY <1>1 DEF Fail
    <2> QED
      BY <1>1, <1>3, <2>3, <2>4, <2>5, IdleTyped, AdvanceKeeps
  <1> QED
    BY <1>2, <1>3 DEF RecordFailure

(* The last transaction: the asset becomes what was scanned, and whatever  *)
(* refers to it is written with it.                                        *)
LEMMA CompletionKeeps ==
  ASSUME Inv, NEW p \in Calls, At(p, "finish"), receipt[call[p].key] = None,
         IO!CanAdvance(op[call[p].key].state, "completed"),
         NEW scan \in ScanStates, asset' = Scanned(scan),
         jobs' = jobs + IF asset'.state = "available" THEN 1 ELSE 0,
         receipt' = [receipt EXCEPT ![call[p].key] = [content |-> call[p].content,
                                                      state |-> asset'.state]],
         Answer(p, receipt'[call[p].key]),
         replica' = call[p].key, bound' = TRUE,
         op' = [op EXCEPT ![call[p].key].state = "completed"],
         file' = file, UNCHANGED outside
  PROVE  Inv'
  <1> DEFINE k == call[p].key
  <1>1. /\ call \in [Calls -> CallType] /\ call[p] \in CallType /\ k \in Keys
        /\ call[p].content \in Contents /\ p \in Live
        /\ op \in [Keys -> OperationType \cup {None}] /\ op[k] \in OperationType
        /\ op[k] # None /\ op[k].content = call[p].content
        /\ receipt \in [Keys -> ResultType \cup {None}]
    BY DEF Inv, TypeOK, CallType, CallInv, At, Live
  <1>2. call' = [call EXCEPT ![p] = IdleCall] /\ call'[p] = IdleCall
        /\ \A q \in Calls : q # p => call'[q] = call[q]
    BY <1>1 DEF Answer
  <1>3. op[k].state = "running" /\ asset # None /\ op[k].content = asset.content
        /\ \A j \in Keys : j # k => op[j] = None
    BY <1>1 DEF Inv, SagaInv, CallInv
  <1>4. /\ replica = None /\ \A j \in Keys : receipt[j] = None
    BY <1>1, <1>3 DEF Inv, TypeOK, SagaInv
  <1>5. asset \in AssetType /\ asset.state \in {"initiated", "failed"} /\ jobs = 0
    BY <1>3, <1>4 DEF Inv, TypeOK, SagaInv
  <1>6. /\ asset' \in AssetType /\ asset'.state = scan /\ asset'.content = asset.content
        /\ asset' # None
    <2> DEFINE version == asset.version + 1 + 1 + IF scan # "scanning" THEN 1 ELSE 0
    <2>1. asset.version \in Nat
      BY <1>5 DEF AssetType
    <2>2. version \in Nat
      BY <2>1
    <2>3. asset' = [asset EXCEPT !.state = scan, !.version = version]
      BY <1>5 DEF Scanned
    <2> HIDE DEF version
    <2> QED
      BY <1>5, <2>2, <2>3, RecordAssumption DEF AssetType, AssetStates, ScanStates
  <1>7. /\ op'[k] \in OperationType /\ op'[k].state = "completed"
        /\ op'[k].content = asset.content /\ op'[k] # None
        /\ \A j \in Keys : j # k => op'[j] = None
    BY <1>1, <1>3, RecordAssumption DEF OperationType, IO!OperationStates
  <1>8. /\ receipt'[k] \in ResultType /\ receipt'[k] # None
        /\ receipt'[k].content = asset.content /\ receipt'[k].state = scan
        /\ \A j \in Keys : j # k => receipt'[j] = None
    <2> DEFINE r == [content |-> call[p].content, state |-> asset'.state]
    <2>1. r \in ResultType /\ r.content = asset.content /\ r.state = scan
      BY <1>1, <1>3, <1>6 DEF ResultType, ScanStates, AssetStates
    <2>2. receipt' = [receipt EXCEPT ![k] = r]
      OBVIOUS
    <2> HIDE DEF r
    <2> QED
      BY <1>1, <1>4, <2>1, <2>2, RecordAssumption
  <1>9. replica' = k /\ replica' # None /\ bound' = TRUE
        /\ jobs' = IF scan = "available" THEN 1 ELSE 0
    BY <1>1, <1>5, <1>6, IngestAssumption
  <1>10. SagaInv'
    BY <1>1, <1>6, <1>7, <1>8, <1>9 DEF SagaInv
  <1>11. Live' = {}
    <2>1. ASSUME NEW q \in Live' PROVE FALSE
      <3>1. q # p /\ q \in Live /\ call[q].key \in Keys
        BY <1>1, <1>2, <2>1, IdleTyped DEF Live, CallType
      <3>2. call[q].key = k
        BY <1>3, <3>1 DEF Inv, CallInv, Live
      <3> QED
        BY <1>1, <1>3, <3>1, <3>2 DEF Inv, CallInv, OneWriter
    <2> QED
      BY <2>1
  <1>12. CallInv'
    <2>1. ASSUME NEW q \in Calls, call'[q].pc \notin {"idle", "begin"}
          PROVE  op'[call'[q].key] # None /\ op'[call'[q].key].content = call'[q].content
      <3>1. q # p /\ call'[q] = call[q] /\ call[q].key \in Keys
        BY <1>1, <1>2, <2>1, IdleTyped DEF CallType
      <3>2. op[call[q].key] # None /\ op[call[q].key].content = call[q].content
        BY <2>1, <3>1 DEF Inv, CallInv
      <3>3. call[q].key = k
        BY <1>3, <3>1, <3>2
      <3> QED
        BY <1>3, <1>7, <3>1, <3>2, <3>3
    <2> QED
      BY <1>11, <2>1 DEF CallInv, OneWriter
  <1>13. FileInv'
    <2>1. Stored(k) /\ file[k].blob = call[p].content
      BY <1>1, <1>3 DEF Inv, FileInv
    <2>2. AvailableIsStored'
      BY <1>1, <1>3, <1>6, <1>9, <2>1 DEF AvailableIsStored, Stored
    <2> QED
      BY <1>11, <2>2 DEF FileInv
  <1>14. ToldInv'
    <2>1. told = {}
      BY <1>4 DEF Inv, TypeOK, ToldInv
    <2>2. told' = {[key |-> k, content |-> call[p].content, result |-> receipt'[k]]}
      BY <2>1 DEF Answer
    <2>3. \A t \in told' : t.key = k /\ t.content = call[p].content /\ t.result = receipt'[k]
      BY <2>2
    <2> QED
      BY <1>1, <1>3, <1>6, <1>8, <2>3 DEF ToldInv, AnswersAgree
  <1>15. DownloadInv'
    <2>1. download.pc = "idle"
      BY <1>4 DEF Inv, DownloadInv
    <2> QED
      BY <1>6, <2>1 DEF Inv, DownloadInv, DownloadsSpanNoMove, outside
  <1>16. TypeOK'
    <2>1. /\ call' \in [Calls -> CallType] /\ op' \in [Keys -> OperationType \cup {None}]
          /\ receipt' \in [Keys -> ResultType \cup {None}]
      BY <1>1, <1>2, <1>7, <1>8, IdleTyped
    <2>2. told' \subseteq [key : Keys, content : Contents, result : ResultType]
      BY <1>1, <1>8 DEF Inv, TypeOK, Answer
    <2>3. asset' \in AssetType \cup {None} /\ replica' \in Keys \cup {None}
          /\ bound' \in BOOLEAN /\ jobs' \in 0..1
      BY <1>1, <1>6, <1>9
    <2>4. /\ writable' \in BOOLEAN /\ viewable' \in BOOLEAN
      BY DEF Inv, TypeOK, outside
    <2>5. /\ file' = file /\ UNCHANGED <<download, read, calls, moves>>
      BY DEF outside
    <2> QED
      BY <2>1, <2>2, <2>3, <2>4, <2>5 DEF Inv, TypeOK
  <1> QED
    BY <1>10, <1>12, <1>13, <1>14, <1>15, <1>16 DEF Inv

LEMMA FinishKeeps ==
  ASSUME Inv, NEW p \in Calls, Finish(p)
  PROVE  Inv'
  <1>1. UNCHANGED outside /\ At(p, "finish")
    BY DEF Finish
  <1>2. CASE UNCHANGED saga /\ (Fail(p) \/ Replay(p))
    BY <1>1, <1>2, AnswerKeeps DEF saga, rows
  <1>3. ASSUME receipt[call[p].key] = None,
               IO!CanAdvance(op[call[p].key].state, "completed"),
               NEW scan \in ScanStates, asset' = Scanned(scan),
               jobs' = jobs + IF asset'.state = "available" THEN 1 ELSE 0,
               receipt' = [receipt EXCEPT ![call[p].key] = [content |-> call[p].content,
                                                            state |-> asset'.state]],
               Answer(p, receipt'[call[p].key]),
               replica' = call[p].key, bound' = TRUE,
               op' = [op EXCEPT ![call[p].key].state = "completed"], file' = file
        PROVE  Inv'
    BY <1>1, <1>3, CompletionKeeps
  <1> QED
    BY <1>2, <1>3 DEF Finish

-----------------------------------------------------------------------------
(* The download and the surroundings.                                      *)

LEMMA SurroundingsKeep ==
  ASSUME Inv, UNCHANGED saga, UNCHANGED <<call, told, calls, moves>>,
         writable' \in BOOLEAN, viewable' \in BOOLEAN,
         download' \in DownloadType, read' \subseteq [content : Contents, moves : Nat, now : Nat],
         DownloadInv'
  PROVE  Inv'
  <1>1. SagaInv' /\ ToldInv'
    BY QuietRows, QuietTold DEF saga, rows
  <1>2. CallInv' /\ FileInv'
    BY DEF Inv, CallInv, OneWriter, Live, FileInv, AvailableIsStored, Stored, At, saga
  <1>3. TypeOK'
    BY DEF Inv, TypeOK, saga
  <1> QED
    BY <1>1, <1>2, <1>3 DEF Inv

LEMMA OpenKeeps ==
  ASSUME Inv, OpenDownload
  PROVE  Inv'
  <1>1. /\ asset \in AssetType /\ asset # None /\ replica \in Keys /\ replica # None
        /\ moves \in Nat /\ asset.version \in Nat
    BY DEF Inv, TypeOK, OpenDownload, Downloadable, AssetType
  <1>2. /\ UNCHANGED saga /\ UNCHANGED <<call, told, calls, moves, read, writable, viewable>>
        /\ download' = [pc |-> "read", asset |-> asset, from |-> replica, moves |-> moves]
    BY DEF OpenDownload
  <1>3. /\ download'.asset = asset /\ download'.moves = moves /\ download'.from = replica
        /\ download' \in DownloadType
    BY <1>1, <1>2 DEF DownloadType
  <1>4. DownloadInv'
    BY <1>1, <1>2, <1>3 DEF Inv, DownloadInv, DownloadsSpanNoMove, saga
  <1> QED
    BY <1>2, <1>3, <1>4, SurroundingsKeep DEF Inv, TypeOK

LEMMA ReadKeeps ==
  ASSUME Inv, ReadContent
  PROVE  Inv'
  <1>1. /\ UNCHANGED saga /\ UNCHANGED <<call, told, calls, moves, read, writable, viewable>>
        /\ download \in DownloadType /\ download.pc = "read"
    BY DEF Inv, TypeOK, ReadContent
  <1>2. /\ download' \in DownloadType
        /\ download'.pc # "idle" => /\ download'.asset = download.asset
                                    /\ download'.from = download.from
                                    /\ download'.moves = download.moves
    <2>1. CASE download' = [download EXCEPT !.pc = "check"]
      BY <1>1, <2>1 DEF DownloadType
    <2>2. CASE download' = NoDownload
      BY <2>2 DEF NoDownload, DownloadType
    <2> QED
      BY <2>1, <2>2 DEF ReadContent
  <1>3. DownloadInv'
    BY <1>1, <1>2 DEF Inv, DownloadInv, DownloadsSpanNoMove, saga
  <1> QED
    BY <1>1, <1>2, <1>3, SurroundingsKeep DEF Inv, TypeOK

(* What is handed out is what the replica holds; had the asset been moved  *)
(* meanwhile, its version would tell.                                      *)
LEMMA CloseKeeps ==
  ASSUME Inv, CloseDownload
  PROVE  Inv'
  <1>1. /\ UNCHANGED saga /\ UNCHANGED <<call, told, calls, moves, writable, viewable>>
        /\ download \in DownloadType /\ download.pc = "check" /\ download' = NoDownload
    BY DEF Inv, TypeOK, CloseDownload
  <1>2. download' \in DownloadType /\ download'.pc = "idle"
    BY <1>1 DEF NoDownload, DownloadType
  <1>3. CASE read' = read
    <2>1. DownloadInv'
      BY <1>1, <1>2, <1>3 DEF Inv, DownloadInv, DownloadsSpanNoMove, saga
    <2> QED
      BY <1>1, <1>2, <1>3, <2>1, SurroundingsKeep DEF Inv, TypeOK
  <1>4. ASSUME SameSnapshot,
               read' = read \cup {[content |-> file[download.from].blob,
                                   moves |-> download.moves, now |-> moves]}
        PROVE  Inv'
    <2> DEFINE r == [content |-> file[download.from].blob, moves |-> download.moves,
                     now |-> moves]
    <2>1. /\ asset # None /\ asset \in AssetType /\ asset = download.asset
          /\ replica # None /\ replica = download.from
          /\ moves \in Nat /\ download.moves \in Nat /\ asset.version \in Nat
      BY <1>1, <1>4 DEF SameSnapshot, Downloadable, Inv, TypeOK, DownloadType, AssetType
    <2>2. download.moves = moves
      BY <1>1, <2>1 DEF Inv, DownloadInv
    <2>3. file[download.from].blob = asset.content /\ asset.content \in Contents
      BY <2>1 DEF Inv, FileInv, AvailableIsStored, AssetType
    <2>4. /\ r \in [content : Contents, moves : Nat, now : Nat]
          /\ r.content = asset.content /\ r.moves = r.now
      BY <2>1, <2>2, <2>3
    <2>5. read' = read \cup {r}
      BY <1>4
    <2> HIDE DEF r
    <2>6. read' \subseteq [content : Contents, moves : Nat, now : Nat]
      BY <2>4, <2>5 DEF Inv, TypeOK
    <2>7. DownloadInv'
      BY <1>1, <1>2, <2>1, <2>4, <2>5 DEF Inv, DownloadInv, DownloadsSpanNoMove, saga
    <2> QED
      BY <1>1, <1>2, <2>6, <2>7, SurroundingsKeep DEF Inv, TypeOK
  <1> QED
    BY <1>3, <1>4 DEF CloseDownload

LEMMA MoveKeeps ==
  ASSUME Inv, Move
  PROVE  Inv'
  <1>1. /\ asset \in AssetType /\ asset # None /\ moves \in Nat /\ asset.version \in Nat
        /\ moves' = moves + 1
        /\ UNCHANGED <<op, file, replica, bound, jobs, receipt, call, download, writable,
                       viewable, told, read, calls>>
    BY DEF Move, Inv, TypeOK, AssetType
  <1>2. /\ asset' \in AssetType /\ asset'.content = asset.content /\ asset'.state = asset.state
        /\ asset'.version = asset.version + 1 /\ asset' # None
    <2> DEFINE version == asset.version + 1
               domain == IF asset.domain = "source" THEN "target" ELSE "source"
    <2>1. version \in Nat /\ domain \in {"source", "target"}
      BY <1>1
    <2>2. asset' = [asset EXCEPT !.domain = domain, !.version = version]
      BY DEF Move
    <2>3. asset'.version = version
      BY <1>1, <2>2 DEF AssetType
    <2> HIDE DEF domain, version
    <2>4. asset' \in AssetType /\ asset'.content = asset.content /\ asset'.state = asset.state
      BY <1>1, <2>1, <2>2 DEF AssetType
    <2> QED
      BY <2>3, <2>4, RecordAssumption DEF version
  <1>3. SagaInv'
    BY <1>1, <1>2 DEF Inv, SagaInv
  <1>4. CallInv' /\ FileInv'
    BY <1>1, <1>2 DEF Inv, CallInv, OneWriter, Live, FileInv, AvailableIsStored, Stored, At
  <1>5. ToldInv'
    BY <1>1, <1>2 DEF Inv, ToldInv, AnswersAgree
  <1>6. DownloadInv'
    <2>1. DownloadsSpanNoMove'
      BY <1>1, <1>2 DEF Inv, DownloadInv, DownloadsSpanNoMove
    <2>2. ASSUME download.pc # "idle"
          PROVE  /\ download.moves <= moves' /\ download.asset.version <= asset'.version
                 /\ download.moves < moves' => download.asset.version < asset'.version
      <3>1. /\ download.moves \in Nat /\ download.asset.version \in Nat
            /\ download.asset.version <= asset.version /\ download.moves <= moves
        BY <2>2 DEF Inv, TypeOK, DownloadInv, DownloadType, AssetType
      <3> QED
        BY <1>1, <1>2, <3>1
    <2> QED
      BY <1>1, <1>2, <2>1, <2>2 DEF Inv, DownloadInv
  <1>7. TypeOK'
    BY <1>1, <1>2 DEF Inv, TypeOK
  <1> QED
    BY <1>3, <1>4, <1>5, <1>6, <1>7 DEF Inv

LEMMA ChangeAccessKeeps ==
  ASSUME Inv, ChangeAccess
  PROVE  Inv'
  <1>1. /\ UNCHANGED saga /\ UNCHANGED <<call, told, calls, moves, download, read>>
    BY DEF ChangeAccess
  <1>2. writable' \in BOOLEAN /\ viewable' \in BOOLEAN
    BY DEF ChangeAccess, Inv, TypeOK
  <1>3. DownloadInv'
    BY <1>1, QuietDownload DEF saga, rows
  <1> QED
    BY <1>1, <1>2, <1>3, SurroundingsKeep DEF Inv, TypeOK

-----------------------------------------------------------------------------
(* The invariant and what follows from it.                                 *)

LEMMA InvKept == Inv /\ [Next]_vars => Inv'
  <1> SUFFICES ASSUME Inv, [Next]_vars PROVE Inv'
    OBVIOUS
  <1>1. ASSUME NEW p \in Calls, NEW key \in Keys, NEW content \in Contents,
               Start(p, key, content)
        PROVE  Inv'
    BY <1>1, StartKeeps
  <1>2. ASSUME NEW p \in Calls, Begin(p) \/ Run(p) \/ PutBlob(p) \/ PutMetadata(p)
        PROVE  Inv'
    BY <1>2, BeginKeeps, RunKeeps, PutBlobKeeps, PutMetadataKeeps
  <1>3. ASSUME NEW p \in Calls, RecordFailure(p) \/ Finish(p) \/ Crash(p)
        PROVE  Inv'
    BY <1>3, RecordFailureKeeps, FinishKeeps, CrashKeeps
  <1>4. CASE OpenDownload \/ ReadContent \/ CloseDownload
    BY <1>4, OpenKeeps, ReadKeeps, CloseKeeps
  <1>5. CASE Move \/ ChangeAccess
    BY <1>5, MoveKeeps, ChangeAccessKeeps
  <1>6. CASE UNCHANGED vars
    <2>1. /\ UNCHANGED saga
          /\ UNCHANGED <<call, told, calls, moves, download, read, writable, viewable>>
      BY <1>6 DEF vars
    <2>2. DownloadInv'
      BY <2>1, QuietDownload DEF saga, rows
    <2> QED
      BY <2>1, <2>2, SurroundingsKeep DEF Inv, TypeOK
  <1> QED
    BY <1>1, <1>2, <1>3, <1>4, <1>5, <1>6 DEF Next

LEMMA InvHolds == Spec => []Inv
  <1>1. Init => Inv
    BY InitInv
  <1>2. Inv /\ [Next]_vars => Inv'
    BY InvKept
  <1> QED
    BY <1>1, <1>2, PTL DEF Spec

(* The rows, the files, the calls in progress and the download keep their  *)
(* types, and the asset's projection is never scheduled twice.             *)
THEOREM IngestIsTyped == Spec => []TypeOK
  <1>1. Inv => TypeOK
    BY DEF Inv
  <1> QED
    BY <1>1, InvHolds, PTL

(* However calls fail, die and are repeated, the files of an operation     *)
(* that is not completed have one writer at most (attach-asset-to-task,    *)
(* the transaction that sets the operation running).                       *)
THEOREM FilesHaveOneWriter == Spec => []OneWriter
  <1>1. Inv => OneWriter
    BY DEF Inv, CallInv
  <1> QED
    BY <1>1, InvHolds, PTL

(* The operation, the receipt, the replica, the binding and the projection *)
(* job of a completed ingest are there together or not at all, for one key *)
(* only.                                                                   *)
THEOREM IngestCompletesAtOnce == Spec => []CompletedAtOnce
  <1>1. Inv => CompletedAtOnce
    <2> SUFFICES ASSUME Inv PROVE CompletedAtOnce
      OBVIOUS
    <2> DEFINE done == {k \in Keys : op[k] # None /\ op[k].state = "completed"}
    <2>1. done = {k \in Keys : receipt[k] # None}
      BY DEF Inv, SagaInv
    <2>2. CASE replica = None
      <3>1. done = {}
        BY <2>2, IngestAssumption DEF Inv, SagaInv
      <3>2. ~bound
        BY <2>2 DEF Inv, SagaInv
      <3> QED
        BY <2>1, <2>2, <3>1, <3>2 DEF Inv, SagaInv, CompletedAtOnce
    <2>3. CASE replica # None
      <3>1. replica \in Keys /\ receipt[replica] # None
        BY <2>3 DEF Inv, TypeOK, SagaInv
      <3>2. done = {replica}
        BY <2>1, <3>1 DEF Inv, SagaInv
      <3> QED
        BY <2>1, <2>3, <3>1, <3>2 DEF Inv, SagaInv, CompletedAtOnce
    <2> QED
      BY <2>2, <2>3
  <1> QED
    BY <1>1, InvHolds, PTL

(* The files a completed asset refers to were written to their end and     *)
(* hold what its caller sent.                                              *)
THEOREM CompletedIsStored == Spec => []AvailableIsStored
  <1>1. Inv => AvailableIsStored
    BY DEF Inv, FileInv
  <1> QED
    BY <1>1, InvHolds, PTL

(* All calls that are answered are answered by the receipt of their key,   *)
(* and about the content they sent.                                        *)
THEOREM CallersAreToldTheSame == Spec => []AnswersAgree
  <1>1. Inv => AnswersAgree
    BY DEF Inv, ToldInv
  <1> QED
    BY <1>1, InvHolds, PTL

(* A download hands out what is stored of an asset that stayed where it    *)
(* was from the first authorization to the last: a move there and back     *)
(* shows in the version.                                                   *)
THEOREM DownloadsAreOfOnePlace == Spec => []DownloadsSpanNoMove
  <1>1. Inv => DownloadsSpanNoMove
    BY DEF Inv, DownloadInv
  <1> QED
    BY <1>1, InvHolds, PTL

=============================================================================
