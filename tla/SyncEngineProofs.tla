-------------------------- MODULE SyncEngineProofs --------------------------
(***************************************************************************)
(* What SyncEngine.tla keeps for every value of its constants.             *)
(***************************************************************************)
EXTENDS SyncEngine, SequenceTheorems, TLAPS

-----------------------------------------------------------------------------
(***************************************************************************)
(* Types.                                                                  *)
(***************************************************************************)
Delta == [for : {"delta"}, pos : 0..Len(log), page : Seq(1..Len(log)),
          batches : Nat, short : BOOLEAN]
Bootstrap == [for : {"bootstrap"}, mark : Nat, unread : SUBSET Types,
              snap : SUBSET (Keys \X Nat)]

\* The page a delta reads is made of entries of the log.
LEMMA PageType ==
  ASSUME NEW len \in Nat, NEW first \in 0..len, NEW n \in Nat, n <= len - first
  PROVE  [i \in 1..n |-> first + i] \in Seq(1..len)
BY IsASeq

\* A page stays one when the log grows.
LEMMA WiderPage ==
  ASSUME NEW len \in Nat, NEW p \in Seq(1..len)
  PROVE  p \in Seq(1..(len + 1))
<1>1. Len(p) \in Nat /\ p \in [1..Len(p) -> 1..len]
  OBVIOUS
<1>2. p \in [1..Len(p) -> 1..(len + 1)]
  BY <1>1
<1>3. QED
  BY <1>1, <1>2

LEMMA ServingType ==
  ASSUME serving \in Serving
  PROVE  /\ serving.for = "delta" => serving \in Delta
         /\ serving.for = "bootstrap" => serving \in Bootstrap
BY DEF Serving, NotServing, Delta, Bootstrap

LEMMA DeltaUpdate ==
  ASSUME NEW d \in Delta, NEW q \in 0..Len(log), NEW p \in Seq(1..Len(log)),
         NEW b \in Nat, NEW s \in BOOLEAN
  PROVE  /\ [d EXCEPT !.page = p, !.batches = b, !.short = s] \in Delta
         /\ [d EXCEPT !.page = p, !.pos = q] \in Delta
<1> DEFINE Pos == 0..Len(log)
           Page == Seq(1..Len(log))
<1>1. Delta = [for : {"delta"}, pos : Pos, page : Page, batches : Nat, short : BOOLEAN]
  BY DEF Delta
<1>2. q \in Pos /\ p \in Page
  OBVIOUS
<1> HIDE DEF Pos, Page
<1>3. QED
  BY <1>1, <1>2

LEMMA ServingTypes ==
  /\ {NotServing, [for |-> "reset"], [for |-> "watermark"]} \subseteq Serving
  /\ Delta \subseteq Serving /\ Bootstrap \subseteq Serving
BY DEF Serving, Delta, Bootstrap

LEMMA OpType ==
  ASSUME NEW o \in Op
  PROVE  /\ o.do = "write" => o.key \in Keys /\ o.val \in Nat
         /\ o.do = "wipe" => o.left \in SUBSET Types
         /\ o.do = "cursor" => o.id \in Nat
         /\ o.do = "flush" => o.task \in TaskIds
BY DEF Op

LEMMA FrameType ==
  ASSUME NEW f \in Frame
  PROVE  /\ f.is = "action" => f.key \in Keys /\ f.val \in Nat
         /\ f.is = "complete" => f.id \in Nat
BY DEF Frame, Reset

LEMMA ValueTypes ==
  /\ \A k \in Keys, v \in Nat : WriteOp(k, v) \in Op /\ Action(k, v) \in Frame
  /\ \A left \in SUBSET Types : WipeOp(left) \in Op
  /\ \A c \in Nat : CursorOp(c) \in Op /\ Complete(c) \in Frame /\ DeltaReq(c) \in Request
  /\ \A t \in TaskIds : FlushOp(t) \in Op
  /\ Reset \in Frame /\ BootReq \in Request
BY DEF WriteOp, WipeOp, CursorOp, FlushOp, Op, Action, Complete, Reset, Frame,
       DeltaReq, BootReq, Request

LEMMA TypeInit == ASSUME Init PROVE TypeOK
<1> USE DEF Init
<1>1. log \in Seq(Entry) /\ requests \in Seq(Request) /\ chan \in Seq(Frame) /\ ops \in Seq(Op)
  OBVIOUS
<1>2. floor \in 0..Len(log) /\ undelivered \subseteq 1..Len(log) /\ Len(chan) <= ChanCap
  BY SyncEngineAssumption
<1>3. EmptyStore \in [Keys -> Nat]
  BY DEF EmptyStore, Absent
<1>4. serving \in Serving
  BY DEF Serving
<1>5. tasks \in [TaskIds -> Task]
  BY DEF Task, Idle
<1>6. QED
  BY <1>1, <1>2, <1>3, <1>4, <1>5 DEF TypeOK

LEMMA TypeServer ==
  ASSUME TypeOK,
         \/ \E k \in Keys, o \in {"set", "del"} : Commit(k, o)
         \/ Prune
         \/ \E n \in undelivered : DeliverLive(n)
  PROVE  TypeOK'
<1>1. ASSUME NEW k \in Keys, NEW o \in {"set", "del"}, Commit(k, o)
      PROVE  TypeOK'
  <2>1. [key |-> k, op |-> o] \in Entry
    BY DEF Entry
  <2>2. log' \in Seq(Entry) /\ Len(log') = Len(log) + 1
    BY <1>1, <2>1 DEF Commit, TypeOK
  <2>3. floor' \in 0..Len(log') /\ undelivered' \subseteq 1..Len(log')
    <3>1. floor' = floor /\ floor \in 0..Len(log)
      BY <1>1 DEF Commit, TypeOK
    <3>2. undelivered' = undelivered \cup {Len(log) + 1} /\ undelivered \subseteq 1..Len(log)
      BY <1>1 DEF Commit, TypeOK
    <3>3. Len(log) \in Nat /\ Len(log') = Len(log) + 1
      BY <2>2 DEF TypeOK
    <3>4. floor' \in 0..Len(log')
      BY <3>1, <3>3
    <3>5. ASSUME NEW m \in undelivered' PROVE m \in 1..Len(log')
      <4>1. m \in 1..Len(log) \/ m = Len(log) + 1
        BY <3>2
      <4>2. QED
        BY <4>1, <3>3
    <3>6. QED
      BY <3>4, <3>5
  <2>4. db' \in [Keys -> Nat]
    BY <1>1 DEF Commit, TypeOK, Absent
  <2>5. serving' \in Serving'
    <3>1. serving' = serving /\ Len(log) \in Nat /\ serving \in Serving
      BY <1>1 DEF Commit, linkVars, TypeOK
    <3>2. CASE serving \in {NotServing, [for |-> "reset"], [for |-> "watermark"]} \cup Bootstrap
      BY <3>1, <3>2 DEF Serving, Bootstrap
    <3>3. CASE serving \in Delta
      <4>1. serving.pos \in 0..Len(log') /\ serving.page \in Seq(1..Len(log'))
        BY <2>2, <3>1, <3>3, WiderPage DEF Delta
      <4>2. serving \in [for : {"delta"}, pos : 0..Len(log'), page : Seq(1..Len(log')),
                         batches : Nat, short : BOOLEAN]
        BY <3>3, <4>1 DEF Delta
      <4>3. QED
        BY <3>1, <4>2 DEF Serving
    <3>4. QED
      BY <3>1, <3>2, <3>3 DEF Serving, Delta, Bootstrap
  <2>6. QED
    BY <1>1, <2>2, <2>3, <2>4, <2>5 DEF Commit, TypeOK, linkVars, idbVars, storeVars
<1>2. ASSUME Prune PROVE TypeOK'
  BY <1>2 DEF Prune, TypeOK, Serving, linkVars, idbVars, storeVars
<1>3. ASSUME NEW n \in undelivered, DeliverLive(n)
      PROVE  TypeOK'
  <2>1. Action(log[n].key, Content(n)) \in Frame
    <3>1. n \in 1..Len(log) /\ log[n] \in Entry
      BY DEF TypeOK
    <3>2. log[n].key \in Keys /\ Content(n) \in Nat
      BY <3>1 DEF Entry, Content, Absent
    <3>3. QED
      BY <3>2, ValueTypes
  <2>2. conn' \in BOOLEAN
    BY <1>3 DEF DeliverLive, TypeOK, CloseLink, linkVars
  <2>3. requests' \in Seq(Request) /\ serving' \in Serving
    <3>1. requests \in Seq(Request) /\ <<>> \in Seq(Request)
      BY DEF TypeOK
    <3>2. serving \in Serving /\ NotServing \in Serving
      BY DEF TypeOK, Serving
    <3>3. QED
      BY <1>3, <3>1, <3>2 DEF DeliverLive, CloseLink, linkVars
  <2>4. chan' \in Seq(Frame) /\ Len(chan') <= ChanCap
    <3>1. CASE chan' = chan
      BY <3>1 DEF TypeOK
    <3>2. CASE Len(chan) < ChanCap /\ chan' = Append(chan, Action(log[n].key, Content(n)))
      BY <3>2, <2>1, SyncEngineAssumption DEF TypeOK
    <3>3. CASE chan' = <<>>
      BY <3>3, SyncEngineAssumption
    <3>4. QED
      BY <1>3, <3>1, <3>2, <3>3 DEF DeliverLive, CloseLink, linkVars
  <2>5. undelivered' \subseteq 1..Len(log')
    BY <1>3 DEF DeliverLive, TypeOK
  <2>6. QED
    BY <1>3, <2>2, <2>3, <2>4, <2>5 DEF DeliverLive, TypeOK, Serving, idbVars, storeVars
<1>4. QED
  BY <1>1, <1>2, <1>3

LEMMA SendType ==
  ASSUME TypeOK, NEW f \in Frame, Send(f)
  PROVE  chan' \in Seq(Frame) /\ Len(chan') <= ChanCap
BY SyncEngineAssumption DEF TypeOK, Send

LEMMA ServerTypeSuffices ==
  ASSUME TypeOK, ServerStep,
         requests' \in Seq(Request), serving' \in Serving,
         chan' \in Seq(Frame), Len(chan') <= ChanCap
  PROVE  TypeOK'
BY DEF TypeOK, Serving, ServerStep, serverVars, idbVars, storeVars

LEMMA TypeStream ==
  ASSUME TypeOK, ServerNext
  PROVE  TypeOK'
<1>1. /\ requests \in Seq(Request) /\ serving \in Serving
      /\ chan \in Seq(Frame) /\ Len(chan) <= ChanCap /\ Len(log) \in Nat
  BY DEF TypeOK
<1>2. requests # <<>> => Head(requests) \in Request /\ Tail(requests) \in Seq(Request)
  BY <1>1
<1>3. CASE StartDelta
  <2>1. Head(requests).from \in Nat
    BY <1>2, <1>3 DEF StartDelta, Request, BootReq
  <2>2. Available(Head(requests).from) =>
          [for |-> "delta", pos |-> Head(requests).from, page |-> <<>>,
           batches |-> 0, short |-> FALSE] \in Delta
    BY <1>1, <2>1 DEF Delta, Available
  <2>3. serving' \in Serving
    BY <1>3, <2>2, ServingTypes DEF StartDelta
  <2>4. QED
    BY <1>1, <1>2, <1>3, <2>3, ServerTypeSuffices DEF StartDelta
<1>4. CASE SendReset
  BY <1>1, <1>4, SendType, ValueTypes, ServingTypes, ServerTypeSuffices DEF SendReset
<1>5. CASE ReadPage
  <2> DEFINE first == IF serving.pos < floor THEN floor ELSE serving.pos
             left == Len(log) - first
             n == IF left < BatchSize THEN left ELSE BatchSize
             page == [i \in 1..n |-> first + i]
  <2>1. serving \in Delta
    BY <1>1, <1>5, ServingType DEF ReadPage
  <2>2. first \in 0..Len(log)
    BY <2>1 DEF TypeOK, Delta
  <2>3. n \in Nat /\ n <= Len(log) - first
    BY <1>1, <2>2, SyncEngineAssumption
  <2>4. page \in Seq(1..Len(log))
    <3> HIDE DEF first, n
    <3>1. QED
      BY <1>1, <2>2, <2>3, PageType
  <2>5. serving' = [serving EXCEPT !.page = page, !.batches = @ + 1, !.short = n < BatchSize]
    BY <1>5 DEF ReadPage
  <2>6. serving' \in Delta
    <3> HIDE DEF page, n
    <3>1. QED
      <4>1. serving.batches + 1 \in Nat /\ (n < BatchSize) \in BOOLEAN
        BY <2>1 DEF Delta
      <4>2. serving.pos \in 0..Len(log)
        BY <2>1 DEF Delta
      <4>3. QED
        BY <2>1, <2>4, <2>5, <4>1, <4>2, DeltaUpdate
  <2>7. QED
    BY <1>1, <1>5, <2>6, ServingTypes, ServerTypeSuffices DEF ReadPage
<1>6. CASE SendEntry
  <2> DEFINE n == Head(serving.page)
  <2>1. serving \in Delta
    BY <1>1, <1>6, ServingType DEF SendEntry
  <2>2. n \in 1..Len(log) /\ Tail(serving.page) \in Seq(1..Len(log))
    BY <1>6, <2>1 DEF SendEntry, Delta
  <2>3. Action(log[n].key, Content(n)) \in Frame
    <3>1. log[n] \in Entry
      BY <2>2 DEF TypeOK
    <3>2. log[n].key \in Keys /\ Content(n) \in Nat
      BY <2>2, <3>1 DEF Entry, Content, Absent
    <3>3. QED
      BY <3>2, ValueTypes
  <2>4. serving' \in Delta
    <3>1. serving' = [serving EXCEPT !.page = Tail(serving.page), !.pos = n]
      BY <1>6 DEF SendEntry
    <3>2. n \in 0..Len(log) /\ serving.batches \in Nat /\ serving.short \in BOOLEAN
      BY <1>1, <2>1, <2>2 DEF Delta
    <3>3. QED
      BY <2>1, <2>2, <3>1, <3>2, DeltaUpdate
  <2>5. QED
    BY <1>1, <1>6, <2>3, <2>4, SendType, ServingTypes, ServerTypeSuffices DEF SendEntry
<1>7. CASE FinishDelta
  <2>1. serving.pos \in Nat
    BY <1>1, <1>7, ServingType DEF FinishDelta, Delta
  <2>2. QED
    BY <1>1, <1>7, <2>1, SendType, ValueTypes, ServingTypes, ServerTypeSuffices DEF FinishDelta
<1>8. CASE AbandonStream
  BY <1>1, <1>8, ServingTypes, ServerTypeSuffices DEF AbandonStream
<1>9. CASE StartBootstrap
  BY <1>1, <1>2, <1>9, ServingTypes, ServerTypeSuffices DEF StartBootstrap
<1>10. CASE ReadWatermark
  <2>1. serving' \in Bootstrap
    BY <1>1, <1>10 DEF ReadWatermark, Bootstrap, Latest
  <2>2. QED
    BY <1>1, <1>10, <2>1, ServingTypes, ServerTypeSuffices DEF ReadWatermark, Latest
<1>11. ASSUME NEW ty \in Types, ReadType(ty)
       PROVE  TypeOK'
  <2>1. serving \in Bootstrap
    BY <1>1, <1>11, ServingType DEF ReadType
  <2>2. {<<k, db[k]>> : k \in {x \in Keys : TypeOf[x] = ty /\ db[x] # Absent}} \subseteq Keys \X Nat
    BY DEF TypeOK
  <2>3. serving' \in Bootstrap
    BY <1>11, <2>1, <2>2 DEF ReadType, Bootstrap
  <2>4. QED
    BY <1>1, <1>11, <2>3, ServingTypes, ServerTypeSuffices DEF ReadType
<1>12. CASE SendRow
  <2>1. serving \in Bootstrap
    BY <1>1, <1>12, ServingType DEF SendRow
  <2>2. PICK r \in serving.snap :
          Send(Action(r[1], r[2])) /\ serving' = [serving EXCEPT !.snap = @ \ {r}]
    BY <1>12 DEF SendRow
  <2>3. Action(r[1], r[2]) \in Frame
    BY <2>1, ValueTypes DEF Bootstrap
  <2>4. serving' \in Bootstrap
    BY <2>1, <2>2 DEF Bootstrap
  <2>5. QED
    BY <1>1, <1>12, <2>2, <2>3, <2>4, SendType, ServingTypes, ServerTypeSuffices DEF SendRow
<1>13. CASE FinishBootstrap
  <2>1. serving.mark \in Nat
    BY <1>1, <1>13, ServingType DEF FinishBootstrap, Bootstrap
  <2>2. QED
    BY <1>1, <1>13, <2>1, SendType, ValueTypes, ServingTypes, ServerTypeSuffices DEF FinishBootstrap
<1>14. QED
  BY <1>3, <1>4, <1>5, <1>6, <1>7, <1>8, <1>9, <1>10, <1>11, <1>12, <1>13 DEF ServerNext

LEMMA EnqueueType ==
  ASSUME TypeOK, NEW s \in Seq(Op), Enqueue(s)
  PROVE  ops' \in Seq(Op)
BY DEF TypeOK, Enqueue

LEMMA ReceiveType ==
  ASSUME TypeOK, Receive
  PROVE  /\ Head(chan) \in Frame
         /\ chan' \in Seq(Frame) /\ Len(chan') <= ChanCap
         /\ UNCHANGED <<conn, requests, serving>>
<1>1. chan \in Seq(Frame) /\ chan # <<>> /\ chan' = Tail(chan)
  BY DEF TypeOK, Receive
<1>2. Len(chan') = Len(chan) - 1 /\ Len(chan) \in Nat
  BY <1>1
<1>3. Head(chan) \in Frame /\ chan' \in Seq(Frame)
  BY <1>1
<1>4. QED
  BY <1>2, <1>3, SyncEngineAssumption DEF TypeOK, Receive

LEMMA TaskType ==
  ASSUME TypeOK, NEW t \in TaskIds, NEW x \in Task
  PROVE  [tasks EXCEPT ![t] = x] \in [TaskIds -> Task]
BY DEF TypeOK

LEMMA TaskTypes ==
  /\ Idle \in Task
  /\ \A a \in {"reading", "flushing", "acked"} : [at |-> a] \in Task
  /\ \A c \in Nat : [at |-> "decide", cur |-> c] \in Task
BY DEF Task, Idle

LEMMA ResetType ==
  ASSUME ResetStore
  PROVE  memory' \in [Keys -> Nat] /\ initialized' \in BOOLEAN /\ claimed' \in Nat
BY DEF ResetStore, EmptyStore, Absent

LEMMA RequestType ==
  ASSUME TypeOK, NEW r \in Request, SendRequest(r)
  PROVE  requests' \in Seq(Request)
BY DEF TypeOK, SendRequest

LEMMA TypeTab ==
  ASSUME TypeOK, TabNext
  PROVE  TypeOK'
<1>1. CASE OnAction
  <2>1. Head(chan).key \in Keys /\ Head(chan).val \in Nat /\ Receive
    BY <1>1, ReceiveType, FrameType DEF OnAction
  <2>2. <<WriteOp(Head(chan).key, Head(chan).val)>> \in Seq(Op)
    BY <2>1, ValueTypes
  <2>3. ops' \in Seq(Op)
    BY <1>1, <2>2, EnqueueType DEF OnAction
  <2>4. memory' \in [Keys -> Nat]
    BY <1>1, <2>1 DEF OnAction, TypeOK
  <2>5. QED
    BY <1>1, <2>1, <2>3, <2>4, ReceiveType DEF OnAction, TypeOK, Serving, serverVars, idbVars
<1>2. CASE OnComplete
  <2>1. Head(chan).id \in Nat /\ Receive
    BY <1>2, ReceiveType, FrameType DEF OnComplete
  <2>2. <<CursorOp(Head(chan).id)>> \in Seq(Op)
    BY <2>1, ValueTypes
  <2>3. ops' \in Seq(Op)
    BY <1>2, <2>2, EnqueueType DEF OnComplete
  <2>4. QED
    BY <1>2, <2>1, <2>3, ReceiveType DEF OnComplete, TypeOK, Serving, serverVars, idbVars
<1>3. ASSUME NEW t \in TaskIds, OnReset(t)
      PROVE  TypeOK'
  <2>1. <<WipeOp(Types), CursorOp(0), FlushOp(t)>> \in Seq(Op)
    BY ValueTypes
  <2>2. ops' \in Seq(Op)
    BY <1>3, <2>1, EnqueueType DEF OnReset
  <2>3. tasks' \in [TaskIds -> Task]
    BY <1>3, TaskType, TaskTypes DEF OnReset
  <2>4. QED
    BY <1>3, <2>2, <2>3, ReceiveType, ResetType DEF OnReset, TypeOK, Serving, serverVars, idbVars
<1>4. ASSUME NEW t \in TaskIds, ReadCursor(t)
      PROVE  TypeOK'
  <2>1. PICK c \in {cursor} \cup (IF "read" \in Faults THEN {0} ELSE {}) :
          tasks' = [tasks EXCEPT ![t] = [at |-> "decide", cur |-> c]]
    BY <1>4 DEF ReadCursor
  <2>2. c \in Nat
    BY DEF TypeOK
  <2>3. tasks' \in [TaskIds -> Task]
    BY <2>1, <2>2, TaskType, TaskTypes
  <2>4. QED
    BY <1>4, <2>3 DEF ReadCursor, TypeOK, Serving, serverVars, linkVars, idbVars, storeVars
<1>5. ASSUME NEW t \in TaskIds, AskDelta(t)
      PROVE  TypeOK'
  <2>1. tasks[t].cur \in Nat
    BY <1>5 DEF AskDelta, TypeOK, Task
  <2>2. requests' \in Seq(Request)
    BY <1>5, <2>1, ValueTypes, RequestType DEF AskDelta
  <2>3. tasks' \in [TaskIds -> Task]
    BY <1>5, TaskType, TaskTypes DEF AskDelta
  <2>4. QED
    BY <1>5, <2>2, <2>3 DEF AskDelta, TypeOK, Serving, serverVars, idbVars, storeVars
<1>6. ASSUME NEW t \in TaskIds, StartOver(t)
      PROVE  TypeOK'
  <2>1. <<WipeOp(Types), FlushOp(t)>> \in Seq(Op)
    BY ValueTypes
  <2>2. ops' \in Seq(Op)
    BY <1>6, <2>1, EnqueueType DEF StartOver
  <2>3. tasks' \in [TaskIds -> Task]
    BY <1>6, TaskType, TaskTypes DEF StartOver
  <2>4. QED
    BY <1>6, <2>2, <2>3, ResetType DEF StartOver, TypeOK, Serving, serverVars, linkVars, idbVars
<1>7. ASSUME NEW t \in TaskIds, AskBootstrap(t)
      PROVE  TypeOK'
  <2>1. requests' \in Seq(Request)
    BY <1>7, ValueTypes, RequestType DEF AskBootstrap
  <2>2. tasks' \in [TaskIds -> Task]
    BY <1>7, TaskType, TaskTypes DEF AskBootstrap
  <2>3. QED
    BY <1>7, <2>1, <2>2 DEF AskBootstrap, TypeOK, Serving, serverVars, idbVars, storeVars
<1>8. QED
  BY <1>1, <1>2, <1>3, <1>4, <1>5, <1>6, <1>7 DEF TabNext

LEMMA PopType ==
  ASSUME TypeOK, NEW kind, Pop(kind)
  PROVE  Head(ops) \in Op /\ ops' \in Seq(Op)
BY DEF TypeOK, Pop

LEMMA TypeWriter ==
  ASSUME TypeOK, WriterNext
  PROVE  TypeOK'
<1>1. CASE WriteRow
  <2>1. Pop("write") /\ Head(ops).do = "write"
    BY <1>1 DEF WriteRow, Pop
  <2>2. Head(ops).key \in Keys /\ Head(ops).val \in Nat /\ ops' \in Seq(Op)
    BY <2>1, PopType, OpType
  <2>3. rows' \in [Keys -> Nat] /\ failedWrites' \in BOOLEAN
    BY <1>1, <2>2 DEF WriteRow, TypeOK
  <2>4. QED
    BY <1>1, <2>1, <2>2, <2>3 DEF WriteRow, Pop, TypeOK, Serving, serverVars, linkVars, storeVars
<1>2. CASE WipeType
  <2>1. PICK ty \in Head(ops).left :
          /\ ops' = IF Head(ops).left = {ty}
                    THEN Tail(ops)
                    ELSE [ops EXCEPT ![1] = WipeOp(@.left \ {ty})]
          /\ \/ /\ rows' = [k \in Keys |-> IF TypeOf[k] = ty THEN Absent ELSE rows[k]]
                /\ failedWrites' = FALSE
             \/ UNCHANGED <<rows, failedWrites>>
    BY <1>2 DEF WipeType
  <2>2. ops \in Seq(Op) /\ ops # <<>> /\ Head(ops).do = "wipe"
    BY <1>2 DEF WipeType, TypeOK
  <2>3. Head(ops) \in Op /\ Head(ops) = ops[1] /\ 1 \in 1..Len(ops)
    BY <2>2
  <2>4. WipeOp(ops[1].left \ {ty}) \in Op
    BY <2>2, <2>3, OpType, ValueTypes
  <2>5. ops' \in Seq(Op)
    <3>1. Tail(ops) \in Seq(Op)
      BY <2>2
    <3>2. [ops EXCEPT ![1] = WipeOp(@.left \ {ty})] \in Seq(Op)
      BY <2>2, <2>3, <2>4
    <3>3. QED
      BY <2>1, <3>1, <3>2
  <2>6. rows' \in [Keys -> Nat] /\ failedWrites' \in BOOLEAN
    <3>1. CASE UNCHANGED <<rows, failedWrites>>
      BY <3>1 DEF TypeOK
    <3>2. CASE rows' = [k \in Keys |-> IF TypeOf[k] = ty THEN Absent ELSE rows[k]] /\ failedWrites' = FALSE
      BY <3>2 DEF TypeOK, Absent
    <3>3. QED
      BY <2>1, <3>1, <3>2
  <2>7. QED
    BY <1>2, <2>5, <2>6 DEF WipeType, TypeOK, Serving, serverVars, linkVars, storeVars
<1>3. CASE SetCursor
  <2>1. Pop("cursor") /\ Head(ops).do = "cursor"
    BY <1>3 DEF SetCursor, Pop
  <2>2. Head(ops).id \in Nat /\ ops' \in Seq(Op)
    BY <2>1, PopType, OpType
  <2>3. cursor' \in Nat
    BY <1>3, <2>2 DEF SetCursor, TypeOK
  <2>4. QED
    BY <1>3, <2>1, <2>2, <2>3 DEF SetCursor, Pop, TypeOK, Serving, serverVars, linkVars, storeVars
<1>4. CASE Flush
  <2>1. Pop("flush") /\ Head(ops).do = "flush"
    BY <1>4 DEF Flush, Pop
  <2>2. Head(ops).task \in TaskIds /\ ops' \in Seq(Op)
    BY <2>1, PopType, OpType
  <2>3. tasks' \in [TaskIds -> Task]
    BY <1>4, <2>2, TaskType, TaskTypes DEF Flush
  <2>4. QED
    BY <1>4, <2>1, <2>2, <2>3 DEF Flush, Pop, TypeOK, Serving, serverVars, linkVars, idbVars, storeVars
<1>5. QED
  BY <1>1, <1>2, <1>3, <1>4 DEF WriterNext

LEMMA TypeLink ==
  ASSUME TypeOK,
         (\E t \in TaskIds : Connect(t)) \/ Disconnect \/ Reload
  PROVE  TypeOK'
<1>1. ASSUME NEW t \in TaskIds, Connect(t)
      PROVE  TypeOK'
  <2>1. tasks' \in [TaskIds -> Task]
    BY <1>1, TaskType, TaskTypes DEF Connect
  <2>2. QED
    BY <1>1, <2>1 DEF Connect, TypeOK, Serving, serverVars, idbVars
<1>2. ASSUME CloseLink
      PROVE  /\ conn' \in BOOLEAN /\ requests' \in Seq(Request) /\ serving' \in Serving
             /\ chan' \in Seq(Frame) /\ Len(chan') <= ChanCap
  <2>1. Len(<<>>) <= ChanCap
    BY SyncEngineAssumption
  <2>2. requests' = <<>> /\ chan' = <<>> /\ serving' = NotServing /\ conn' = FALSE
    BY <1>2 DEF CloseLink
  <2>3. requests' \in Seq(Request) /\ chan' \in Seq(Frame)
    BY <2>2
  <2>4. serving' \in Serving
    BY <2>2, ServingTypes
  <2>5. QED
    BY <2>1, <2>2, <2>3, <2>4
<1>3. CASE Disconnect
  BY <1>2, <1>3 DEF Disconnect, TypeOK, Serving, serverVars, idbVars, storeVars
<1>4. CASE Reload
  <2>1. tasks' \in [TaskIds -> Task] /\ ops' \in Seq(Op)
    BY <1>4, TaskTypes DEF Reload
  <2>2. QED
    BY <1>2, <1>4, <2>1 DEF Reload, TypeOK, Serving, serverVars, idbVars
<1>5. QED
  BY <1>1, <1>3, <1>4

LEMMA TypeStep == ASSUME TypeOK, [Next]_vars PROVE TypeOK'
<1>1. CASE UNCHANGED vars
  BY <1>1 DEF vars, TypeOK, Serving, serverVars, linkVars, idbVars, storeVars
<1>2. CASE Next
  BY <1>2, TypeServer, TypeStream, TypeTab, TypeWriter, TypeLink DEF Next
<1>3. QED
  BY <1>1, <1>2

\* Every variable stays of its type, the ids and pages a delta streams stay
\* within the log, and no send overfills the connection's channel.
THEOREM Typing == Spec => []TypeOK
BY TypeInit, TypeStep, PTL DEF Spec

-----------------------------------------------------------------------------
(***************************************************************************)
(* The handshake.  While the socket does not reopen over unfinished work,  *)
(* one token goes round: a continuation of the engine, then its request,   *)
(* then the stream that serves it, then, if that was a reset, the Reset    *)
(* frame and again a continuation.  A wipe in the write queue is always    *)
(* ahead of the flush a continuation is waiting for.                       *)
(***************************************************************************)
Calm == "reconnect" \notin Races

Busy(t) == tasks[t] # Idle

NoReset == \A i \in 1..Len(chan) : chan[i].is # "reset"

OneBusy == \A t, u \in TaskIds : Busy(t) /\ Busy(u) => t = u

BusyAlone == \A t \in TaskIds : Busy(t) => requests = <<>> /\ serving = NotServing /\ NoReset

RequestAlone == requests # <<>> => Len(requests) = 1 /\ serving = NotServing /\ NoReset

ServingAlone == serving # NotServing => NoReset

OneReset == \A i, j \in 1..Len(chan) : chan[i].is = "reset" /\ chan[j].is = "reset" => i = j

DownIsEmpty == ~conn => requests = <<>> /\ serving = NotServing /\ chan = <<>>

WipeThenFlush == \A i \in 1..Len(ops) : ops[i].do = "wipe" =>
                   \E j \in 1..Len(ops) : j > i /\ ops[j].do = "flush"

OneFlush == \A i, j \in 1..Len(ops) : ops[i].do = "flush" /\ ops[j].do = "flush" => i = j

FlushAwaited == \A i \in 1..Len(ops) : ops[i].do = "flush" =>
                  tasks[ops[i].task] = [at |-> "flushing"]

Link  == /\ BusyAlone /\ RequestAlone /\ ServingAlone /\ OneReset /\ DownIsEmpty
Queue == /\ OneBusy /\ WipeThenFlush /\ OneFlush /\ FlushAwaited
Phases == Link /\ Queue

LEMMA PhasesInit == ASSUME Init PROVE Phases
<1>1. /\ requests = <<>> /\ serving = NotServing /\ Len(chan) = 0 /\ chan = <<>> /\ Len(ops) = 0
      /\ \A t \in TaskIds : tasks[t] = Idle
  BY DEF Init
<1>2. Link
  BY <1>1 DEF Link, Busy, NoReset, BusyAlone, RequestAlone, ServingAlone, OneReset, DownIsEmpty
<1>3. Queue
  BY <1>1 DEF Queue, Busy, OneBusy, WipeThenFlush, OneFlush, FlushAwaited
<1>4. QED
  BY <1>2, <1>3 DEF Phases

\* Phases is about these variables only.
LEMMA PhasesFrame ==
  ASSUME Phases, UNCHANGED <<conn, requests, serving, chan, tasks, ops>>
  PROVE  Phases'
BY DEF Phases, Link, Queue, Busy, NoReset, OneBusy, BusyAlone, RequestAlone, ServingAlone,
       OneReset, DownIsEmpty, WipeThenFlush, OneFlush, FlushAwaited

LEMMA LinkFrame ==
  ASSUME Link, UNCHANGED <<conn, requests, serving, chan, tasks>>
  PROVE  Link'
BY DEF Link, Busy, NoReset, BusyAlone, RequestAlone, ServingAlone, OneReset, DownIsEmpty

LEMMA QueueFrame == ASSUME Queue, UNCHANGED <<tasks, ops>> PROVE Queue'
BY DEF Queue, Busy, OneBusy, WipeThenFlush, OneFlush, FlushAwaited

LEMMA Closed ==
  ASSUME requests' = <<>>, serving' = NotServing, chan' = <<>>
  PROVE  Link'
BY DEF Link, NoReset, BusyAlone, RequestAlone, ServingAlone, OneReset, DownIsEmpty

\* A frame that is not a Reset goes onto the channel.
LEMMA PlainFrame ==
  ASSUME TypeOK, NEW f \in Frame, f.is # "reset", chan' = Append(chan, f)
  PROVE  /\ NoReset => NoReset'
         /\ OneReset => OneReset'
<1>1. chan \in Seq(Frame) /\ Len(chan) \in Nat
  BY DEF TypeOK
<1>2. Len(chan') = Len(chan) + 1
      /\ \A i \in 1..Len(chan') : chan'[i] = IF i = Len(chan) + 1 THEN f ELSE chan[i]
  BY <1>1
<1>3. \A i \in 1..Len(chan') : chan'[i].is = "reset" => i \in 1..Len(chan) /\ chan[i].is = "reset"
  BY <1>1, <1>2
<1>4. QED
  BY <1>3 DEF NoReset, OneReset

LEMMA TailOf ==
  ASSUME NEW S, NEW s \in Seq(S), s # <<>>
  PROVE  /\ Len(s) \in Nat /\ Len(Tail(s)) \in Nat /\ Len(s) = Len(Tail(s)) + 1 /\ Head(s) = s[1]
         /\ \A i \in 1..Len(Tail(s)) : i + 1 \in 1..Len(s) /\ Tail(s)[i] = s[i + 1]
OBVIOUS

LEMMA BusyMeans ==
  ASSUME TypeOK, NEW t \in TaskIds
  PROVE  Busy(t) <=> tasks[t].at # "idle"
BY DEF TypeOK, Task, Idle, Busy

\* A step of a stream may change the stream and add a plain frame.
LEMMA ServeStep ==
  ASSUME TypeOK, Link, serving # NotServing, UNCHANGED <<conn, requests, tasks>>,
         chan' = chan \/ \E f \in Frame : f.is # "reset" /\ chan' = Append(chan, f)
  PROVE  Link'
<1>1. /\ \A t \in TaskIds : ~Busy(t)
      /\ requests = <<>> /\ NoReset /\ OneReset /\ conn \in BOOLEAN /\ conn
  BY DEF Link, BusyAlone, RequestAlone, ServingAlone, DownIsEmpty, TypeOK
<1>2. NoReset' /\ OneReset'
  BY <1>1, PlainFrame DEF NoReset, OneReset
<1>3. \A t \in TaskIds : ~Busy(t)'
  BY <1>1 DEF Busy
<1>4. QED
  BY <1>1, <1>2, <1>3 DEF Link, BusyAlone, RequestAlone, ServingAlone, DownIsEmpty

LEMMA PhasesServer ==
  ASSUME TypeOK, Phases,
         \/ \E k \in Keys, o \in {"set", "del"} : Commit(k, o)
         \/ Prune
         \/ \E n \in undelivered : DeliverLive(n)
  PROVE  Phases'
<1>1. CASE (\E k \in Keys, o \in {"set", "del"} : Commit(k, o)) \/ Prune
  BY <1>1, PhasesFrame DEF Commit, Prune, linkVars
<1>2. ASSUME NEW n \in undelivered, DeliverLive(n)
      PROVE  Phases'
  <2>1. UNCHANGED <<tasks, ops>> /\ Queue'
    BY <1>2, QueueFrame DEF DeliverLive, Phases
  <2>2. CASE chan' = Append(chan, Action(log[n].key, Content(n))) /\ conn
             /\ UNCHANGED <<conn, requests, serving>>
    <3>1. n \in 1..Len(log) /\ log[n] \in Entry
      BY DEF TypeOK
    <3>2. log[n].key \in Keys /\ Content(n) \in Nat
      BY <3>1 DEF Entry, Content, Absent
    <3>3. Action(log[n].key, Content(n)) \in Frame /\ Action(log[n].key, Content(n)).is # "reset"
      BY <3>2, ValueTypes DEF Action
    <3>4. (NoReset => NoReset') /\ OneReset'
      BY <2>2, <3>3, PlainFrame DEF Phases, Link
    <3>5. QED
      BY <2>1, <2>2, <3>4
         DEF Phases, Link, Busy, BusyAlone, RequestAlone, ServingAlone, DownIsEmpty
  <2>3. CASE UNCHANGED linkVars
    BY <2>1, <2>3, LinkFrame DEF linkVars, Phases
  <2>4. CASE CloseLink
    BY <2>1, <2>4, Closed DEF CloseLink, Phases
  <2>5. QED
    BY <1>2, <2>2, <2>3, <2>4 DEF DeliverLive
<1>3. QED
  BY <1>1, <1>2

LEMMA PhasesStream ==
  ASSUME TypeOK, Phases, ServerNext
  PROVE  Phases'
<1> USE DEF Phases
<1>1. ServerStep /\ UNCHANGED <<conn, tasks, ops>> /\ Queue'
  BY QueueFrame DEF ServerNext, ServerStep, StartDelta, SendReset, ReadPage, SendEntry, FinishDelta,
       AbandonStream, StartBootstrap, ReadWatermark, ReadType, SendRow, FinishBootstrap
<1>2. CASE StartDelta \/ StartBootstrap
  <2>1. requests # <<>> /\ requests' = Tail(requests) /\ chan' = chan
    BY <1>2 DEF StartDelta, StartBootstrap
  <2>2. NoReset /\ Len(requests) = 1 /\ OneReset /\ conn \in BOOLEAN /\ conn
        /\ \A t \in TaskIds : ~Busy(t)
    BY <2>1 DEF Link, RequestAlone, BusyAlone, DownIsEmpty, TypeOK
  <2>3. requests' = <<>>
    <3>1. Tail(requests) \in Seq(Request) /\ Len(Tail(requests)) = 0
      BY <2>1, <2>2 DEF TypeOK
    <3>2. QED
      BY <2>1, <3>1, EmptySeq
  <2>4. NoReset' /\ OneReset' /\ \A t \in TaskIds : ~Busy(t)'
    BY <1>1, <2>1, <2>2 DEF NoReset, OneReset, Busy
  <2>5. QED
    BY <1>1, <2>2, <2>3, <2>4 DEF Link, RequestAlone, BusyAlone, ServingAlone, DownIsEmpty
<1>3. CASE SendReset
  <2>1. serving # NotServing /\ serving' = NotServing /\ requests' = requests /\ chan' = Append(chan, Reset)
    BY <1>3 DEF SendReset, Send, NotServing
  <2>2. NoReset /\ requests = <<>> /\ conn \in BOOLEAN /\ conn /\ \A t \in TaskIds : ~Busy(t)
    BY <2>1 DEF Link, ServingAlone, RequestAlone, BusyAlone, DownIsEmpty, TypeOK
  <2>3. \A t \in TaskIds : ~Busy(t)'
    BY <1>1, <2>2 DEF Busy
  <2>4. chan \in Seq(Frame) /\ Len(chan) \in Nat
    BY DEF TypeOK
  <2>5. \A i \in 1..Len(chan') : chan'[i].is = "reset" => i = Len(chan) + 1
    BY <2>1, <2>2, <2>4 DEF NoReset
  <2>6. OneReset'
    BY <2>5 DEF OneReset
  <2>7. QED
    BY <1>1, <2>1, <2>2, <2>3, <2>6 DEF Link, RequestAlone, BusyAlone, ServingAlone, DownIsEmpty
<1>4. CASE ReadPage \/ AbandonStream \/ ReadWatermark \/ \E ty \in Types : ReadType(ty)
  <2>1. serving # NotServing /\ UNCHANGED <<requests, chan>>
    <3>1. CASE ReadPage \/ AbandonStream
      BY <3>1 DEF ReadPage, AbandonStream, NotServing
    <3>2. CASE ReadWatermark
      BY <3>2 DEF ReadWatermark, NotServing
    <3>3. ASSUME NEW ty \in Types, ReadType(ty)
          PROVE  serving # NotServing /\ UNCHANGED <<requests, chan>>
      BY <3>3 DEF ReadType, NotServing
    <3>4. QED
      BY <1>4, <3>1, <3>2, <3>3
  <2>2. QED
    BY <1>1, <2>1, ServeStep
<1>5. CASE SendEntry
  <2>1. serving # NotServing /\ requests' = requests
    BY <1>5 DEF SendEntry, NotServing
  <2>2. PICK k, v : chan' = Append(chan, Action(k, v)) /\ Action(k, v) \in Frame
    <3> DEFINE n == Head(serving.page)
    <3>1. serving \in Delta /\ serving.page # <<>>
      BY <1>5, ServingType DEF TypeOK, SendEntry
    <3>2. n \in 1..Len(log)
      BY <3>1 DEF Delta
    <3>3. log[n] \in Entry
      BY <3>2 DEF TypeOK
    <3>4. log[n].key \in Keys /\ Content(n) \in Nat
      BY <3>2, <3>3 DEF Entry, Content, Absent
    <3>5. QED
      BY <1>5, <3>4, ValueTypes DEF SendEntry, Send
  <2>3. Action(k, v).is # "reset"
    BY DEF Action
  <2>4. QED
    BY <1>1, <2>1, <2>2, <2>3, ServeStep
<1>6. CASE SendRow
  <2>1. serving # NotServing /\ requests' = requests /\ serving \in Bootstrap
    BY <1>6, ServingType DEF SendRow, NotServing, TypeOK
  <2>2. PICK r \in serving.snap : chan' = Append(chan, Action(r[1], r[2]))
    BY <1>6 DEF SendRow, Send
  <2>3. Action(r[1], r[2]) \in Frame /\ Action(r[1], r[2]).is # "reset"
    BY <2>1, ValueTypes DEF Bootstrap, Action
  <2>4. QED
    BY <1>1, <2>1, <2>2, <2>3, ServeStep
<1>7. CASE FinishDelta \/ FinishBootstrap
  <2>1. serving # NotServing /\ requests' = requests
    BY <1>7 DEF FinishDelta, FinishBootstrap, NotServing
  <2>2. PICK c \in Nat : chan' = Append(chan, Complete(c))
    <3>1. CASE FinishDelta
      BY <3>1, ServingType DEF FinishDelta, Send, TypeOK, Delta
    <3>2. CASE FinishBootstrap
      BY <3>2, ServingType DEF FinishBootstrap, Send, TypeOK, Bootstrap
    <3>3. QED
      BY <1>7, <3>1, <3>2
  <2>3. Complete(c) \in Frame /\ Complete(c).is # "reset"
    BY ValueTypes DEF Complete
  <2>4. QED
    BY <1>1, <2>1, <2>2, <2>3, ServeStep
<1>8. QED
  BY <1>2, <1>3, <1>4, <1>5, <1>6, <1>7 DEF ServerNext

\* Taking a frame off the channel.
LEMMA ReceiveLink ==
  ASSUME TypeOK, Link, Receive
  PROVE  /\ UNCHANGED <<conn, requests, serving>>
         /\ conn
         /\ NoReset => NoReset'
         /\ OneReset'
         /\ Head(chan).is = "reset" =>
              /\ NoReset' /\ ~NoReset
              /\ requests = <<>> /\ serving = NotServing
              /\ \A t \in TaskIds : ~Busy(t)
<1>1. chan \in Seq(Frame) /\ chan # <<>> /\ chan' = Tail(chan) /\ UNCHANGED <<conn, requests, serving>>
  BY DEF TypeOK, Receive
<1>2. /\ Len(chan) \in Nat /\ Len(chan) = Len(chan') + 1 /\ Len(chan') \in Nat /\ Head(chan) = chan[1]
      /\ \A i \in 1..Len(chan') : i + 1 \in 1..Len(chan) /\ chan'[i] = chan[i + 1]
  BY <1>1, TailOf
<1>3. NoReset => NoReset'
  BY <1>2 DEF NoReset
<1>4. OneReset'
  <2>1. SUFFICES ASSUME NEW i \in 1..Len(chan'), NEW j \in 1..Len(chan'),
                        chan'[i].is = "reset", chan'[j].is = "reset"
                 PROVE  i = j
    BY DEF OneReset
  <2>2. i + 1 \in 1..Len(chan) /\ j + 1 \in 1..Len(chan) /\ chan[i + 1].is = "reset" /\ chan[j + 1].is = "reset"
    BY <1>2, <2>1
  <2>3. i + 1 = j + 1
    BY <2>2 DEF Link, OneReset
  <2>4. QED
    BY <2>3
<1>5. ASSUME Head(chan).is = "reset" PROVE ~NoReset /\ NoReset'
  <2>1. 1 \in 1..Len(chan) /\ chan[1].is = "reset"
    BY <1>2, <1>5
  <2>2. ASSUME NEW i \in 1..Len(chan'), chan'[i].is = "reset" PROVE FALSE
    <3>1. i + 1 \in 1..Len(chan) /\ chan[i + 1].is = "reset"
      BY <1>2, <2>2
    <3>2. i + 1 = 1
      BY <2>1, <3>1 DEF Link, OneReset
    <3>3. QED
      BY <3>2
  <2>3. QED
    BY <2>1, <2>2 DEF NoReset
<1>6. conn
  BY <1>1 DEF Link, DownIsEmpty, TypeOK
<1>7. QED
  BY <1>1, <1>3, <1>4, <1>5, <1>6 DEF Link, BusyAlone, RequestAlone, ServingAlone

\* Appending ops to the write queue.
LEMMA Appended ==
  ASSUME TypeOK, NEW s \in Seq(Op), Enqueue(s)
  PROVE  /\ Len(ops) \in Nat /\ Len(s) \in Nat /\ Len(ops') = Len(ops) + Len(s)
         /\ \A i \in 1..Len(ops) : i \in 1..Len(ops') /\ ops'[i] = ops[i]
         /\ \A i \in 1..Len(s) : Len(ops) + i \in 1..Len(ops') /\ ops'[Len(ops) + i] = s[i]
         /\ \A i \in 1..Len(ops') : i \notin 1..Len(ops) => i - Len(ops) \in 1..Len(s) /\ ops'[i] = s[i - Len(ops)]
BY DEF TypeOK, Enqueue

\* Ops that are neither wipes nor flushes do not disturb the queue's shape.
LEMMA QuietOp ==
  ASSUME TypeOK, Queue, UNCHANGED tasks, NEW o \in Op, Enqueue(<<o>>), o.do \notin {"wipe", "flush"}
  PROVE  Queue'
<1>1. /\ Len(ops) \in Nat /\ Len(ops') = Len(ops) + 1
      /\ \A i \in 1..Len(ops) : i \in 1..Len(ops') /\ ops'[i] = ops[i]
      /\ \A i \in 1..Len(ops') : i \notin 1..Len(ops) => ops'[i] = o
  <2>1. <<o>> \in Seq(Op) /\ Len(<<o>>) = 1 /\ \A i \in 1..1 : <<o>>[i] = o
    OBVIOUS
  <2>2. QED
    BY <2>1, Appended
<1>2. \A i \in 1..Len(ops') : ops'[i].do \in {"wipe", "flush"} => i \in 1..Len(ops) /\ ops'[i] = ops[i]
  BY <1>1
<1>3. OneBusy' /\ OneFlush' /\ FlushAwaited'
  BY <1>2 DEF Queue, OneBusy, Busy, OneFlush, FlushAwaited
<1>4. WipeThenFlush'
  BY <1>1, <1>2 DEF Queue, WipeThenFlush
<1>5. QED
  BY <1>3, <1>4 DEF Queue

\* Nothing in the queue is a wipe or a flush while no continuation waits for one.
LEMMA NoWaiter ==
  ASSUME TypeOK, Queue, \A t \in TaskIds : tasks[t] # [at |-> "flushing"]
  PROVE  \A i \in 1..Len(ops) : ops[i].do \notin {"wipe", "flush"}
<1>1. ASSUME NEW i \in 1..Len(ops), ops[i].do = "flush" PROVE FALSE
  <2>1. ops[i] \in Op
    BY DEF TypeOK
  <2>2. ops[i].task \in TaskIds
    BY <1>1, <2>1, OpType
  <2>3. QED
    BY <1>1, <2>2 DEF Queue, FlushAwaited
<1>2. QED
  BY <1>1 DEF Queue, WipeThenFlush

\* A continuation starts to wait: the only wipe and the only flush in the
\* queue are the ones it has just enqueued.
LEMMA Waiting ==
  ASSUME TypeOK, Queue, NEW t \in TaskIds, NEW s \in Seq(Op), Enqueue(s),
         \A u \in TaskIds : tasks[u] # [at |-> "flushing"],
         \A u \in TaskIds : u # t => ~Busy(u),
         tasks' = [tasks EXCEPT ![t] = [at |-> "flushing"]],
         Len(s) > 0, s[Len(s)] = FlushOp(t),
         \A i \in 1..Len(s) : s[i].do = "flush" => i = Len(s)
  PROVE  Queue'
<1>1. /\ Len(ops) \in Nat /\ Len(s) \in Nat /\ Len(ops') = Len(ops) + Len(s)
      /\ \A i \in 1..Len(ops') : i \in 1..Len(ops) => ops'[i] = ops[i]
      /\ \A i \in 1..Len(ops') : i \notin 1..Len(ops) => i - Len(ops) \in 1..Len(s) /\ ops'[i] = s[i - Len(ops)]
  BY Appended
<1>2. \A i \in 1..Len(ops) : ops[i].do \notin {"wipe", "flush"}
  BY NoWaiter
<1>3. Len(ops') \in 1..Len(ops') /\ ops'[Len(ops')] = FlushOp(t)
  <2>1. Len(ops') \in 1..Len(ops') /\ Len(ops') \notin 1..Len(ops)
    BY <1>1
  <2>2. Len(ops') - Len(ops) = Len(s)
    BY <1>1
  <2>3. QED
    BY <1>1, <2>1, <2>2
<1>4. ASSUME NEW i \in 1..Len(ops'), ops'[i].do = "flush"
      PROVE  i = Len(ops')
  <2>1. i \notin 1..Len(ops)
    BY <1>1, <1>2, <1>4
  <2>2. i - Len(ops) \in 1..Len(s) /\ s[i - Len(ops)].do = "flush"
    BY <1>1, <1>4, <2>1
  <2>3. i - Len(ops) = Len(s)
    BY <2>2
  <2>4. QED
    BY <1>1, <2>3
<1>5. FlushOp(t).do = "flush" /\ FlushOp(t).task = t
  BY DEF FlushOp
<1>6. \A i \in 1..Len(ops') : ops'[i].do = "wipe" => i # Len(ops')
  BY <1>3, <1>5
<1>7. WipeThenFlush'
  BY <1>1, <1>3, <1>5, <1>6 DEF WipeThenFlush
<1>8. OneFlush'
  BY <1>4 DEF OneFlush
<1>9. FlushAwaited'
  BY <1>3, <1>4, <1>5 DEF FlushAwaited, TypeOK
<1>10. OneBusy'
  BY DEF OneBusy, Busy, TypeOK
<1>11. QED
  BY <1>7, <1>8, <1>9, <1>10 DEF Queue

\* A continuation that waits for nothing moves on.
LEMMA MovingOn ==
  ASSUME TypeOK, Queue, NEW t \in TaskIds, tasks[t] # Idle, tasks[t] # [at |-> "flushing"],
         NEW x, tasks' = [tasks EXCEPT ![t] = x], UNCHANGED ops
  PROVE  Queue'
<1>1. OneBusy'
  BY DEF Queue, OneBusy, Busy, TypeOK
<1>2. FlushAwaited'
  <2>1. SUFFICES ASSUME NEW i \in 1..Len(ops), ops[i].do = "flush"
                 PROVE  tasks'[ops[i].task] = [at |-> "flushing"]
    BY DEF FlushAwaited
  <2>2. ops[i].task \in TaskIds
    BY <2>1, OpType DEF TypeOK
  <2>3. tasks[ops[i].task] = [at |-> "flushing"]
    BY <2>1 DEF Queue, FlushAwaited
  <2>4. QED
    BY <2>2, <2>3 DEF TypeOK
<1>3. QED
  BY <1>1, <1>2 DEF Queue, WipeThenFlush, OneFlush

LEMMA PhasesTab ==
  ASSUME TypeOK, Phases, TabNext
  PROVE  Phases'
<1> USE DEF Phases
<1>1. CASE OnAction \/ OnComplete
  <2>1. Receive /\ UNCHANGED tasks
    BY <1>1 DEF OnAction, OnComplete
  <2>2. PICK o \in Op : Enqueue(<<o>>) /\ o.do \notin {"wipe", "flush"}
    <3>1. Head(chan) \in Frame
      BY <2>1, ReceiveType
    <3>2. CASE OnAction
      <4>1. Head(chan).key \in Keys /\ Head(chan).val \in Nat
        BY <3>1, <3>2, FrameType DEF OnAction
      <4>2. QED
        BY <3>2, <4>1, ValueTypes DEF OnAction, WriteOp
    <3>3. CASE OnComplete
      <4>1. Head(chan).id \in Nat
        BY <3>1, <3>3, FrameType DEF OnComplete
      <4>2. QED
        BY <3>3, <4>1, ValueTypes DEF OnComplete, CursorOp
    <3>4. QED
      BY <1>1, <3>2, <3>3
  <2>3. Queue'
    BY <2>1, <2>2, QuietOp
  <2>4. Link'
    BY <2>1, ReceiveLink
       DEF Link, Busy, BusyAlone, RequestAlone, ServingAlone, DownIsEmpty
  <2>5. QED
    BY <2>3, <2>4
<1>2. ASSUME NEW t \in TaskIds, OnReset(t)
      PROVE  Phases'
  <2>1. /\ NoReset' /\ OneReset' /\ requests' = <<>> /\ serving' = NotServing /\ conn'
        /\ \A u \in TaskIds : ~Busy(u)
    BY <1>2, ReceiveLink DEF OnReset
  <2>2. Link'
    BY <2>1 DEF Link, BusyAlone, RequestAlone, ServingAlone, DownIsEmpty
  <2> DEFINE s == <<WipeOp(Types), CursorOp(0), FlushOp(t)>>
  <2>3. s \in Seq(Op) /\ Len(s) = 3 /\ s[3] = FlushOp(t) /\ s[1].do # "flush" /\ s[2].do # "flush"
    BY ValueTypes DEF WipeOp, CursorOp
  <2>4. Queue'
    <3>1. Enqueue(s) /\ tasks' = [tasks EXCEPT ![t] = [at |-> "flushing"]]
      BY <1>2 DEF OnReset
    <3>2. \A u \in TaskIds : tasks[u] # [at |-> "flushing"]
      BY <2>1 DEF Busy, Idle
    <3>3. \A i \in 1..Len(s) : s[i].do = "flush" => i = Len(s)
      BY <2>3
    <3>4. \A u \in TaskIds : u # t => ~Busy(u)
      BY <2>1
    <3>5. Len(s) > 0 /\ s[Len(s)] = FlushOp(t)
      BY <2>3
    <3>6. s \in Seq(Op) /\ Queue
      BY <2>3
    <3> HIDE DEF s
    <3>7. QED
      BY <3>1, <3>2, <3>3, <3>4, <3>5, <3>6, Waiting
  <2>5. QED
    BY <2>2, <2>4
<1>3. ASSUME NEW t \in TaskIds, ReadCursor(t)
      PROVE  Phases'
  <2>1. PICK c : tasks' = [tasks EXCEPT ![t] = [at |-> "decide", cur |-> c]]
    BY <1>3 DEF ReadCursor
  <2>2. tasks[t] # Idle /\ tasks[t] # [at |-> "flushing"]
    BY <1>3 DEF ReadCursor, Idle
  <2>3. Queue'
    BY <1>3, <2>1, <2>2, MovingOn DEF ReadCursor
  <2>4. Link'
    BY <1>3, <2>1, <2>2
       DEF Link, Busy, NoReset, BusyAlone, RequestAlone, ServingAlone, OneReset, DownIsEmpty,
           ReadCursor, linkVars, TypeOK
  <2>5. QED
    BY <2>3, <2>4
<1>4. ASSUME NEW t \in TaskIds, AskDelta(t) \/ AskBootstrap(t)
      PROVE  Phases'
  <2>1. tasks[t] # Idle /\ tasks[t] # [at |-> "flushing"] /\ tasks' = [tasks EXCEPT ![t] = Idle]
        /\ UNCHANGED <<ops, conn, serving, chan>>
    BY <1>4 DEF AskDelta, AskBootstrap, Idle
  <2>2. Queue'
    BY <2>1, MovingOn
  <2>3. requests = <<>> /\ serving = NotServing /\ NoReset
    BY <2>1 DEF Link, BusyAlone, Busy
  <2>4. requests' = <<>> \/ (conn /\ Len(requests') = 1)
    BY <1>4, <2>3 DEF AskDelta, AskBootstrap, SendRequest
  <2>5. \A u \in TaskIds : ~Busy(u)'
    BY <2>1 DEF Queue, OneBusy, Busy, TypeOK
  <2>6. Link'
    BY <2>1, <2>3, <2>4, <2>5
       DEF Link, NoReset, BusyAlone, RequestAlone, ServingAlone, OneReset, DownIsEmpty
  <2>7. QED
    BY <2>2, <2>6
<1>5. ASSUME NEW t \in TaskIds, StartOver(t)
      PROVE  Phases'
  <2>1. tasks[t] # Idle /\ \A u \in TaskIds : tasks[u] # [at |-> "flushing"]
    BY <1>5 DEF StartOver, Queue, OneBusy, Busy, Idle
  <2>2. \A u \in TaskIds : u # t => ~Busy(u)
    BY <2>1 DEF Queue, OneBusy, Busy
  <2> DEFINE s == <<WipeOp(Types), FlushOp(t)>>
  <2>3. s \in Seq(Op) /\ Len(s) = 2 /\ s[2] = FlushOp(t) /\ s[1].do # "flush"
    BY ValueTypes DEF WipeOp
  <2>4. Queue'
    <3>1. Enqueue(s) /\ tasks' = [tasks EXCEPT ![t] = [at |-> "flushing"]]
      BY <1>5 DEF StartOver
    <3>2. \A i \in 1..Len(s) : s[i].do = "flush" => i = Len(s)
      BY <2>3
    <3>3. Len(s) > 0 /\ s[Len(s)] = FlushOp(t)
      BY <2>3
    <3>4. s \in Seq(Op) /\ Queue
      BY <2>3
    <3> HIDE DEF s
    <3>5. QED
      BY <2>1, <2>2, <3>1, <3>2, <3>3, <3>4, Waiting
  <2>5. Link'
    BY <1>5, <2>1, <2>2
       DEF Link, Busy, NoReset, BusyAlone, RequestAlone, ServingAlone, OneReset, DownIsEmpty,
           StartOver, linkVars, TypeOK
  <2>6. QED
    BY <2>4, <2>5
<1>6. QED
  BY <1>1, <1>2, <1>3, <1>4, <1>5 DEF TabNext

LEMMA PhasesWriter ==
  ASSUME TypeOK, Phases, WriterNext
  PROVE  Phases'
<1> USE DEF Phases
<1>1. ops # <<>> /\ ops \in Seq(Op) /\ UNCHANGED linkVars
  BY DEF WriterNext, WriteRow, WipeType, SetCursor, Flush, Pop, TypeOK
<1>2. /\ Len(ops) \in Nat /\ Len(Tail(ops)) \in Nat /\ Len(ops) = Len(Tail(ops)) + 1 /\ Head(ops) = ops[1]
      /\ \A i \in 1..Len(Tail(ops)) : i + 1 \in 1..Len(ops) /\ Tail(ops)[i] = ops[i + 1]
  BY <1>1, TailOf
<1>3. ASSUME ops' = Tail(ops), Head(ops).do # "flush"
      PROVE  WipeThenFlush' /\ OneFlush' /\ \A i \in 1..Len(ops') : i + 1 \in 1..Len(ops) /\ ops'[i] = ops[i + 1]
  <2>1. ASSUME NEW i \in 1..Len(ops'), ops'[i].do = "wipe"
        PROVE  \E j \in 1..Len(ops') : j > i /\ ops'[j].do = "flush"
    <3>1. i + 1 \in 1..Len(ops) /\ ops[i + 1].do = "wipe"
      BY <1>2, <1>3, <2>1
    <3>2. PICK j \in 1..Len(ops) : j > i + 1 /\ ops[j].do = "flush"
      BY <3>1 DEF Queue, WipeThenFlush
    <3>3. j - 1 \in 1..Len(ops') /\ j - 1 > i /\ ops'[j - 1] = ops[j]
      BY <1>2, <1>3, <3>2
    <3>4. QED
      BY <3>2, <3>3
  <2>2. ASSUME NEW i \in 1..Len(ops'), NEW j \in 1..Len(ops'), ops'[i].do = "flush", ops'[j].do = "flush"
        PROVE  i = j
    <3>1. i + 1 \in 1..Len(ops) /\ ops[i + 1].do = "flush" /\ j + 1 \in 1..Len(ops) /\ ops[j + 1].do = "flush"
      BY <1>2, <1>3, <2>2
    <3>2. i + 1 = j + 1
      BY <3>1 DEF Queue, OneFlush
    <3>3. QED
      BY <3>2
  <2>3. QED
    BY <1>2, <1>3, <2>1, <2>2 DEF WipeThenFlush, OneFlush
<1>4. CASE WriteRow \/ SetCursor
  <2>1. ops' = Tail(ops) /\ Head(ops).do # "flush" /\ UNCHANGED tasks
    BY <1>4 DEF WriteRow, SetCursor, Pop
  <2>2. OneBusy' /\ FlushAwaited'
    BY <1>3, <2>1 DEF Queue, OneBusy, Busy, FlushAwaited
  <2>3. QED
    BY <1>1, <1>3, <2>1, <2>2, LinkFrame DEF Queue, linkVars
<1>5. CASE WipeType
  <2>1. UNCHANGED tasks /\ Head(ops).do = "wipe"
    BY <1>5 DEF WipeType
  <2>2. CASE ops' = Tail(ops)
    <3>1. OneBusy' /\ FlushAwaited'
      BY <1>3, <2>1, <2>2 DEF Queue, OneBusy, Busy, FlushAwaited
    <3>2. QED
      BY <1>1, <1>3, <2>1, <2>2, <3>1, LinkFrame DEF Queue, linkVars
  <2>3. ASSUME NEW ty, ops' = [ops EXCEPT ![1] = WipeOp(@.left \ {ty})]
        PROVE  Phases'
    <3>1. Len(ops') = Len(ops) /\ \A i \in 1..Len(ops) : ops'[i].do = ops[i].do /\ (i # 1 => ops'[i] = ops[i])
      BY <1>1, <1>2, <2>1, <2>3 DEF WipeOp
    <3>2. OneBusy' /\ WipeThenFlush' /\ OneFlush'
      BY <2>1, <3>1 DEF Queue, OneBusy, Busy, WipeThenFlush, OneFlush
    <3>3. FlushAwaited'
      BY <1>2, <2>1, <3>1 DEF Queue, FlushAwaited
    <3>4. QED
      BY <1>1, <2>1, <3>2, <3>3, LinkFrame DEF Queue, linkVars
  <2>4. QED
    BY <1>5, <2>2, <2>3 DEF WipeType
<1>6. CASE Flush
  <2> DEFINE t == Head(ops).task
  <2>1. ops' = Tail(ops) /\ ops[1].do = "flush" /\ 1 \in 1..Len(ops) /\ tasks' = [tasks EXCEPT ![t] = [at |-> "acked"]]
    BY <1>2, <1>6 DEF Flush, Pop
  <2>2. t \in TaskIds /\ tasks[t] = [at |-> "flushing"] /\ Busy(t)
    BY <1>1, <1>2, <2>1, OpType DEF Queue, FlushAwaited, Busy, Idle
  <2>3. \A i \in 1..Len(ops) : i # 1 => ops[i].do # "flush"
    BY <2>1 DEF Queue, OneFlush
  <2>4. \A i \in 1..Len(ops) : i # 1 => ops[i].do # "wipe"
    BY <2>1, <2>3 DEF Queue, WipeThenFlush
  <2>5. \A i \in 1..Len(ops') : ops'[i].do \notin {"flush", "wipe"}
    BY <1>2, <2>1, <2>3, <2>4
  <2>6. OneBusy'
    BY <2>1, <2>2 DEF Queue, OneBusy, Busy, TypeOK
  <2>7. Queue'
    BY <2>5, <2>6 DEF Queue, WipeThenFlush, OneFlush, FlushAwaited
  <2>8. Link'
    BY <1>1, <2>1, <2>2
       DEF Link, Busy, NoReset, BusyAlone, RequestAlone, ServingAlone, OneReset, DownIsEmpty, linkVars, TypeOK
  <2>9. QED
    BY <2>7, <2>8
<1>7. QED
  BY <1>4, <1>5, <1>6 DEF WriterNext

LEMMA PhasesLink ==
  ASSUME Calm, TypeOK, Phases,
         (\E t \in TaskIds : Connect(t)) \/ Disconnect \/ Reload
  PROVE  Phases'
<1> USE DEF Phases
<1>1. ASSUME NEW t \in TaskIds, Connect(t)
      PROVE  Phases'
  <2>1. /\ ops = <<>> /\ ops' = ops /\ \A u \in TaskIds : tasks[u] = Idle
        /\ tasks' = [tasks EXCEPT ![t] = [at |-> "reading"]]
    BY <1>1 DEF Connect, Calm
  <2>2. requests' = <<>> /\ serving' = NotServing /\ chan' = <<>>
    BY <1>1 DEF Connect, Link, DownIsEmpty
  <2>3. OneBusy'
    BY <2>1 DEF OneBusy, Busy, TypeOK
  <2>4. Queue'
    BY <2>1, <2>3 DEF Queue, WipeThenFlush, OneFlush, FlushAwaited
  <2>5. QED
    BY <2>2, <2>4, Closed
<1>2. CASE Disconnect
  BY <1>2, Closed, QueueFrame DEF Disconnect, CloseLink
<1>3. CASE Reload
  <2>1. ops' = <<>> /\ \A u \in TaskIds : ~Busy(u)'
    BY <1>3 DEF Reload, Busy
  <2>2. Queue'
    BY <2>1 DEF Queue, OneBusy, WipeThenFlush, OneFlush, FlushAwaited
  <2>3. QED
    BY <1>3, <2>2, Closed DEF Reload, CloseLink
<1>4. QED
  BY <1>1, <1>2, <1>3

LEMMA PhasesStep == ASSUME Calm, TypeOK, Phases, [Next]_vars PROVE Phases'
<1>1. CASE UNCHANGED vars
  BY <1>1, PhasesFrame DEF vars, linkVars
<1>2. CASE Next
  BY <1>2, PhasesServer, PhasesStream, PhasesTab, PhasesWriter, PhasesLink DEF Next
<1>3. QED
  BY <1>1, <1>2

LEMMA PhasesHold == ASSUME Calm PROVE Spec => []Phases
<1>1. Init => Phases
  BY PhasesInit
<1>2. TypeOK /\ Phases /\ [Next]_vars => Phases'
  BY PhasesStep
<1>3. QED
  BY <1>1, <1>2, Typing, PTL DEF Spec

\* As long as the socket does not reopen over unfinished work, no wipe is left
\* in the write queue when a bootstrap is streamed, whatever else fails.
THEOREM ClearsBeforeStream == ASSUME Calm PROVE Spec => []NoWipeUnderBootstrap
<1>1. TypeOK /\ Phases => NoWipeUnderBootstrap
  <2>1. SUFFICES ASSUME TypeOK, Phases, serving.for = "bootstrap",
                        NEW i \in 1..Len(ops), ops[i].do = "wipe"
                 PROVE  FALSE
    BY DEF NoWipeUnderBootstrap
  <2>2. PICK j \in 1..Len(ops) : ops[j].do = "flush"
    BY <2>1 DEF Phases, Queue, WipeThenFlush
  <2>3. ops[j].task \in TaskIds /\ tasks[ops[j].task] = [at |-> "flushing"]
    BY <2>1, <2>2, OpType DEF Phases, Queue, FlushAwaited, TypeOK
  <2>4. serving = NotServing
    BY <2>1, <2>3 DEF Phases, Link, BusyAlone, Busy, Idle
  <2>5. QED
    BY <2>1, <2>4 DEF NotServing
<1>2. QED
  BY <1>1, Typing, PhasesHold, PTL

-----------------------------------------------------------------------------
(***************************************************************************)
(* The queue and the two caches.  What the writer will leave in a row is   *)
(* decided by the last op about it: appending at one end and taking off    *)
(* the other keep that, op by op.                                          *)
(***************************************************************************)
LEMMA NothingWritten ==
  ASSUME NEW k, UNCHANGED <<ops, rows, memory>>
  PROVE  NoGap(k) => NoGap(k)'
BY DEF NoGap, SettlesAt

\* Ops that are not about a row are queued.
LEMMA Bypassed ==
  ASSUME TypeOK, NEW k, NEW o, ~Touches(o, k), ops' = ops \o <<o>>,
         rows' = rows, memory'[k] = memory[k]
  PROVE  NoGap(k) => NoGap(k)'
<1> DEFINE n == Len(ops)
<1>1. ops \in Seq(Op) /\ n \in Nat
  BY DEF TypeOK
<1>2. Len(ops') = n + 1 /\ ops'[n + 1] = o /\ \A i \in 1..n : ops'[i] = ops[i]
  BY <1>1
<1> HIDE DEF n
<1>3. ASSUME \A i \in 1..n : ~Touches(ops[i], k)
      PROVE  \A i \in 1..(n + 1) : ~Touches(ops'[i], k)
  BY <1>1, <1>2, <1>3
<1>4. ASSUME NEW i \in 1..n, Touches(ops[i], k), \A j \in (i + 1)..n : ~Touches(ops[j], k)
      PROVE  /\ i \in 1..(n + 1) /\ Touches(ops'[i], k) /\ Outcome(ops'[i]) = Outcome(ops[i])
             /\ \A j \in (i + 1)..(n + 1) : ~Touches(ops'[j], k)
  <2>1. ASSUME NEW j \in (i + 1)..(n + 1) PROVE ~Touches(ops'[j], k)
    <3>1. CASE j = n + 1
      BY <1>2, <3>1
    <3>2. CASE j \in (i + 1)..n
      BY <1>1, <1>2, <1>4, <3>2
    <3>3. j = n + 1 \/ j \in (i + 1)..n
      BY <1>1, <2>1
    <3>4. QED
      BY <3>1, <3>2, <3>3
  <2>2. QED
    BY <1>1, <1>2, <1>4, <2>1
<1>5. SettlesAt(k, memory[k]) => SettlesAt(k, memory[k])'
  BY <1>2, <1>3, <1>4 DEF SettlesAt, n, Touches, Outcome
<1>6. QED
  BY <1>5 DEF NoGap

\* An op about a row is queued, and only ops that are not about it after it.
LEMMA Overtaken ==
  ASSUME TypeOK, NEW k, NEW s \in Seq(Op), s # <<>>, ops' = ops \o s,
         Touches(s[1], k), \A i \in 2..Len(s) : ~Touches(s[i], k),
         memory'[k] = Outcome(s[1])
  PROVE  NoGap(k)'
<1> DEFINE n == Len(ops)
           m == Len(s)
<1>1. ops \in Seq(Op) /\ n \in Nat /\ m \in Nat /\ m >= 1
  BY DEF TypeOK
<1>2. Len(ops') = n + m /\ ops'[n + 1] = s[1] /\ \A i \in 1..m : ops'[n + i] = s[i]
  BY <1>1
<1> HIDE DEF n, m
<1>3. ASSUME NEW j \in (n + 2)..(n + m) PROVE ~Touches(ops'[j], k)
  <2>1. j - n \in 2..m /\ j = n + (j - n)
    BY <1>1, <1>3
  <2>2. ops'[j] = s[j - n]
    BY <1>1, <1>2, <2>1
  <2>3. QED
    BY <2>1, <2>2 DEF m
<1>4. n + 1 \in 1..(n + m) /\ Touches(ops'[n + 1], k) /\ memory'[k] = Outcome(ops'[n + 1])
  BY <1>1, <1>2
<1>5. ASSUME NEW j \in ((n + 1) + 1)..(n + m) PROVE ~Touches(ops'[j], k)
  <2>1. j \in (n + 2)..(n + m)
    BY <1>1, <1>5
  <2>2. QED
    BY <1>3, <2>1
<1>6. QED
  BY <1>2, <1>4, <1>5 DEF NoGap, SettlesAt, Touches, Outcome

\* The writer takes an op off the queue and does what it says.
LEMMA Applied ==
  ASSUME TypeOK, NEW k, ops # <<>>, ops' = Tail(ops), UNCHANGED memory,
         rows'[k] = IF Touches(Head(ops), k) THEN Outcome(Head(ops)) ELSE rows[k]
  PROVE  NoGap(k) => NoGap(k)'
<1> DEFINE n == Len(ops')
<1>1. /\ n \in Nat /\ Len(ops) = n + 1 /\ Head(ops) = ops[1]
      /\ \A i \in 1..n : ops'[i] = ops[i + 1]
  BY TailOf DEF TypeOK
<1> HIDE DEF n
<1>2. CASE \A i \in 1..Len(ops) : ~Touches(ops[i], k) /\ memory[k] = rows[k]
  <2>1. \A i \in 1..n : ~Touches(ops'[i], k)
    BY <1>1, <1>2
  <2>2. 1 \in 1..Len(ops)
    BY <1>1
  <2>3. memory'[k] = rows'[k]
    BY <1>1, <1>2, <2>2
  <2>4. QED
    BY <2>1, <2>3 DEF NoGap, SettlesAt, n, Touches
<1>3. ASSUME NEW i \in 1..Len(ops), Touches(ops[i], k), memory[k] = Outcome(ops[i]),
             \A j \in (i + 1)..Len(ops) : ~Touches(ops[j], k)
      PROVE  NoGap(k)'
  <2>1. CASE i = 1
    <3>1. \A j \in 1..n : ~Touches(ops'[j], k)
      BY <1>1, <1>3, <2>1
    <3>2. memory'[k] = rows'[k]
      BY <1>1, <1>3, <2>1
    <3>3. QED
      BY <3>1, <3>2 DEF NoGap, SettlesAt, n, Touches
  <2>2. CASE i > 1
    <3>1. i - 1 \in 1..n /\ ops'[i - 1] = ops[i]
      BY <1>1, <2>2
    <3>2. \A j \in ((i - 1) + 1)..n : ~Touches(ops'[j], k)
      BY <1>1, <1>3, <2>2
    <3>3. QED
      BY <1>3, <3>1, <3>2 DEF NoGap, SettlesAt, n, Touches, Outcome
  <2>3. QED
    BY <1>1, <1>3, <2>1, <2>2
<1>4. QED
  BY <1>2, <1>3 DEF NoGap, SettlesAt

\* The head of the queue shrinks to a wipe of the types that are left.
LEMMA HalfWiped ==
  ASSUME TypeOK, NEW k \in Keys, ops # <<>>, Head(ops).do = "wipe", NEW ty \in Head(ops).left,
         ops' = [ops EXCEPT ![1] = WipeOp(@.left \ {ty})], UNCHANGED memory,
         rows'[k] = IF TypeOf[k] = ty THEN Absent ELSE rows[k]
  PROVE  NoGap(k) => NoGap(k)'
<1> DEFINE n == Len(ops)
<1>1. /\ ops \in Seq(Op) /\ n \in Nat /\ n >= 1 /\ Head(ops) = ops[1] /\ Len(ops') = n
      /\ ops'[1] = WipeOp(ops[1].left \ {ty})
      /\ \A i \in 2..n : ops'[i] = ops[i]
  <2>1. ops \in Seq(Op) /\ n \in Nat /\ n >= 1 /\ Head(ops) = ops[1]
    BY DEF TypeOK
  <2> DEFINE o == WipeOp(ops[1].left \ {ty})
  <2>2. ops' = [ops EXCEPT ![1] = o]
    OBVIOUS
  <2> HIDE DEF o
  <2>3. o \in Op
    BY <2>1, OpType, ValueTypes DEF o
  <2>4. ops' \in Seq(Op) /\ Len(ops') = n
    BY <2>1, <2>2, <2>3
  <2>5. ops'[1] = o /\ \A i \in 2..n : ops'[i] = ops[i]
    <3>1. ops \in [1..n -> Op]
      BY <2>1
    <3> HIDE DEF n
    <3>2. QED
      BY <2>1, <2>2, <3>1
  <2>6. QED
    BY <2>1, <2>4, <2>5 DEF o
<1>2. /\ Touches(ops[1], k) <=> TypeOf[k] \in ops[1].left
      /\ Touches(ops'[1], k) <=> TypeOf[k] \in ops[1].left /\ TypeOf[k] # ty
      /\ Outcome(ops[1]) = Absent /\ Outcome(ops'[1]) = Absent
  BY <1>1 DEF Touches, Outcome, WipeOp
<1>3. \A i \in 2..n : (Touches(ops'[i], k) <=> Touches(ops[i], k)) /\ Outcome(ops'[i]) = Outcome(ops[i])
  BY <1>1
<1> HIDE DEF n
<1>4. CASE (\A i \in 1..n : ~Touches(ops[i], k)) /\ memory[k] = rows[k]
  <2>1. ~Touches(ops[1], k)
    BY <1>1, <1>4
  <2>2. TypeOf[k] # ty
    BY <1>1, <1>2, <2>1
  <2>3. \A i \in 1..n : ~Touches(ops'[i], k)
    BY <1>1, <1>2, <1>3, <1>4, <2>1
  <2>4. QED
    BY <1>1, <1>4, <2>2, <2>3 DEF NoGap, SettlesAt, Touches
<1>5. ASSUME NEW i \in 1..n, Touches(ops[i], k), memory[k] = Outcome(ops[i]),
             \A j \in (i + 1)..n : ~Touches(ops[j], k)
      PROVE  NoGap(k)'
  <2>1. \A j \in (i + 1)..n : ~Touches(ops'[j], k)
    BY <1>1, <1>3, <1>5
  <2>2. CASE i > 1 \/ TypeOf[k] # ty
    <3>1. Touches(ops'[i], k) /\ Outcome(ops'[i]) = memory'[k]
      <4>1. CASE i = 1
        BY <1>2, <1>5, <2>2, <4>1
      <4>2. CASE i \in 2..n
        BY <1>3, <1>5, <4>2
      <4>3. QED
        BY <1>1, <4>1, <4>2
    <3>2. QED
      BY <1>1, <2>1, <3>1 DEF NoGap, SettlesAt, Touches, Outcome
  <2>3. CASE i = 1 /\ TypeOf[k] = ty
    <3>1. \A j \in 1..n : ~Touches(ops'[j], k)
      BY <1>1, <1>2, <2>1, <2>3
    <3>2. memory'[k] = rows'[k]
      BY <1>2, <1>5, <2>3
    <3>3. QED
      BY <1>1, <3>1, <3>2 DEF NoGap, SettlesAt, Touches
  <2>4. QED
    BY <1>1, <2>2, <2>3
<1>6. QED
  BY <1>4, <1>5 DEF NoGap, SettlesAt, n

LEMMA GapTab ==
  ASSUME TypeOK, TabNext, NEW k \in Keys
  PROVE  NoGap(k) => NoGap(k)'
<1>0. TypeOf[k] \in Types
  BY SyncEngineAssumption
<1>1. CASE OnAction
  <2> DEFINE f == Head(chan)
             o == WriteOp(f.key, f.val)
  <2>1. /\ f.key \in Keys /\ f.val \in Nat /\ ops' = ops \o <<o>> /\ rows' = rows
        /\ memory' = [memory EXCEPT ![f.key] = f.val]
    BY <1>1, ReceiveType, FrameType DEF OnAction, Enqueue, idbVars
  <2>2. Touches(o, k) <=> f.key = k
    BY DEF Touches, WriteOp
  <2>3. CASE f.key # k
    <3>1. memory'[k] = memory[k] /\ ~Touches(o, k)
      BY <2>1, <2>2, <2>3 DEF TypeOK
    <3> HIDE DEF o, f
    <3>2. QED
      BY <2>1, <3>1, Bypassed
  <2>4. CASE f.key = k
    <3>1. memory'[k] = Outcome(o) /\ <<o>> \in Seq(Op) /\ Len(<<o>>) = 1 /\ <<o>>[1] = o
      BY <2>1, <2>4, ValueTypes DEF TypeOK, Outcome, WriteOp
    <3>2. Touches(<<o>>[1], k) /\ \A i \in 2..Len(<<o>>) : ~Touches(<<o>>[i], k)
      BY <2>2, <2>4, <3>1
    <3> HIDE DEF o, f
    <3>3. QED
      BY <2>1, <3>1, <3>2, Overtaken
  <2>5. QED
    BY <2>3, <2>4
<1>2. CASE OnComplete
  <2>1. /\ ops' = ops \o <<CursorOp(Head(chan).id)>> /\ UNCHANGED <<rows, memory>>
        /\ ~Touches(CursorOp(Head(chan).id), k)
    BY <1>2 DEF OnComplete, Enqueue, idbVars, Touches, CursorOp
  <2>2. QED
    BY <2>1, Bypassed
<1>3. ASSUME NEW t \in TaskIds, OnReset(t) \/ StartOver(t)
      PROVE  NoGap(k)'
  <2>1. memory'[k] = Absent
    BY <1>3 DEF OnReset, StartOver, ResetStore, EmptyStore
  <2>2. Touches(WipeOp(Types), k) /\ Outcome(WipeOp(Types)) = Absent
    BY <1>0 DEF Touches, WipeOp, Outcome
  <2>3. ~Touches(CursorOp(0), k) /\ ~Touches(FlushOp(t), k)
    BY DEF Touches, CursorOp, FlushOp
  <2>4. CASE OnReset(t)
    <3> DEFINE s == <<WipeOp(Types), CursorOp(0), FlushOp(t)>>
    <3>1. ops' = ops \o s /\ s \in Seq(Op)
      BY <2>4, ValueTypes DEF OnReset, Enqueue
    <3>2. Len(s) = 3 /\ s[1] = WipeOp(Types) /\ s[2] = CursorOp(0) /\ s[3] = FlushOp(t) /\ s # <<>>
      OBVIOUS
    <3> HIDE DEF s
    <3>3. \A i \in 2..Len(s) : ~Touches(s[i], k)
      BY <2>3, <3>2
    <3>4. QED
      BY <2>1, <2>2, <3>1, <3>2, <3>3, Overtaken
  <2>5. CASE StartOver(t)
    <3> DEFINE s == <<WipeOp(Types), FlushOp(t)>>
    <3>1. ops' = ops \o s /\ s \in Seq(Op)
      BY <2>5, ValueTypes DEF StartOver, Enqueue
    <3>2. Len(s) = 2 /\ s[1] = WipeOp(Types) /\ s[2] = FlushOp(t) /\ s # <<>>
      OBVIOUS
    <3> HIDE DEF s
    <3>3. \A i \in 2..Len(s) : ~Touches(s[i], k)
      BY <2>3, <3>2
    <3>4. QED
      BY <2>1, <2>2, <3>1, <3>2, <3>3, Overtaken
  <2>6. QED
    BY <1>3, <2>4, <2>5
<1>4. ASSUME NEW t \in TaskIds, ReadCursor(t) \/ AskDelta(t) \/ AskBootstrap(t)
      PROVE  NoGap(k) => NoGap(k)'
  BY <1>4, NothingWritten DEF ReadCursor, AskDelta, AskBootstrap, idbVars, storeVars
<1>5. QED
  BY <1>1, <1>2, <1>3, <1>4 DEF TabNext

\* In this step no write of a row and no wipe fails.
Sound == ~WriteFails \/ ("write" \notin Faults /\ "wipe" \notin Faults)

LEMMA GapWriter ==
  ASSUME TypeOK, WriterNext, NEW k \in Keys, NoGap(k), Sound
  PROVE  NoGap(k)'
<1>1. CASE WriteRow
  <2>1. /\ ops # <<>> /\ Head(ops).do = "write" /\ ops' = Tail(ops) /\ memory' = memory
        /\ rows' = [rows EXCEPT ![Head(ops).key] = Head(ops).val]
    BY <1>1 DEF WriteRow, Pop, Sound, WriteFails, storeVars
  <2>2. rows'[k] = IF Touches(Head(ops), k) THEN Outcome(Head(ops)) ELSE rows[k]
    BY <2>1 DEF Touches, Outcome, TypeOK
  <2>3. QED
    BY <2>1, <2>2, Applied
<1>2. CASE WipeType
  <2>1. PICK ty \in Head(ops).left :
          /\ ops' = IF Head(ops).left = {ty} THEN Tail(ops)
                    ELSE [ops EXCEPT ![1] = WipeOp(@.left \ {ty})]
          /\ rows' = [x \in Keys |-> IF TypeOf[x] = ty THEN Absent ELSE rows[x]]
    BY <1>2 DEF WipeType, Sound, WriteFails
  <2>2. ops # <<>> /\ Head(ops).do = "wipe" /\ memory' = memory
    BY <1>2 DEF WipeType, storeVars
  <2>3. rows'[k] = IF TypeOf[k] = ty THEN Absent ELSE rows[k]
    BY <2>1
  <2>4. CASE Head(ops).left = {ty}
    <3>1. rows'[k] = IF Touches(Head(ops), k) THEN Outcome(Head(ops)) ELSE rows[k]
      BY <2>2, <2>3, <2>4 DEF Touches, Outcome
    <3>2. QED
      BY <2>1, <2>2, <2>4, <3>1, Applied
  <2>5. CASE Head(ops).left # {ty}
    BY <2>1, <2>2, <2>3, <2>5, HalfWiped
  <2>6. QED
    BY <2>4, <2>5
<1>3. CASE SetCursor \/ Flush
  <2>1. /\ ops # <<>> /\ ops' = Tail(ops) /\ UNCHANGED <<rows, memory>>
        /\ Head(ops).do \in {"cursor", "flush"}
    BY <1>3 DEF SetCursor, Flush, Pop, storeVars, idbVars
  <2>2. ~Touches(Head(ops), k)
    BY <2>1 DEF Touches
  <2>3. QED
    BY <2>1, <2>2, Applied
<1>4. QED
  BY <1>1, <1>2, <1>3 DEF WriterNext

LEMMA GapStep ==
  ASSUME TypeOK, [Next]_vars, NEW k \in Keys, NoGap(k), Sound
  PROVE  NoGap(k)'
<1>1. CASE UNCHANGED vars
  BY <1>1, NothingWritten DEF vars, idbVars, storeVars
<1>2. CASE \/ \E x \in Keys, o \in {"set", "del"} : Commit(x, o)
           \/ Prune
           \/ \E n \in undelivered : DeliverLive(n)
  BY <1>2, NothingWritten DEF Commit, Prune, DeliverLive, idbVars, storeVars
<1>3. CASE ServerNext
  <2>1. ServerStep
    BY <1>3 DEF ServerNext, StartDelta, SendReset, ReadPage, SendEntry, FinishDelta,
         AbandonStream, StartBootstrap, ReadWatermark, ReadType, SendRow, FinishBootstrap
  <2>2. QED
    BY <2>1, NothingWritten DEF ServerStep, idbVars, storeVars
<1>4. CASE TabNext
  BY <1>4, GapTab
<1>5. CASE WriterNext
  BY <1>5, GapWriter
<1>6. CASE (\E t \in TaskIds : Connect(t)) \/ Disconnect
  BY <1>6, NothingWritten DEF Connect, Disconnect, idbVars, storeVars
<1>7. CASE Reload
  <2>1. ops' = <<>> /\ memory' = rows /\ rows' = rows
    BY <1>7 DEF Reload, idbVars
  <2>2. Len(ops') = 0 /\ memory'[k] = rows'[k]
    BY <2>1
  <2>3. QED
    BY <2>2 DEF NoGap, SettlesAt
<1>8. QED
  BY <1>1, <1>2, <1>3, <1>4, <1>5, <1>6, <1>7 DEF Next

\* Under every interleaving of streams, live frames, resets, reconnects and
\* reloads, and whatever fails, only a failed write opens a gap between what
\* the screen shows and what the drained queue leaves on disk.
THEOREM GapClosed == Spec => QueueClosesTheGap
<1>1. TypeOK /\ [Next]_vars => [\A k \in Keys : NoGap(k) => NoGap(k)' \/ WriteFails]_vars
  BY GapStep DEF Sound
<1>2. QED
  BY <1>1, Typing, PTL DEF Spec, QueueClosesTheGap

\* While no write of a row and no wipe fails there is none in any state.
THEOREM NeverAGap ==
  ASSUME "write" \notin Faults, "wipe" \notin Faults
  PROVE  Spec => [](\A k \in Keys : NoGap(k))
<1> DEFINE Even == \A k \in Keys : NoGap(k)
<1>1. Init => Even
  <2>1. ASSUME Init, NEW k \in Keys PROVE NoGap(k)
    <3>1. Len(ops) = 0 /\ memory[k] = rows[k]
      BY <2>1 DEF Init
    <3>2. QED
      BY <3>1 DEF NoGap, SettlesAt
  <2>2. QED
    BY <2>1
<1>2. TypeOK /\ Even /\ [Next]_vars => Even'
  BY GapStep DEF Sound
<1>3. QED
  BY <1>1, <1>2, Typing, PTL DEF Spec

-----------------------------------------------------------------------------
(***************************************************************************)
(* The cursor: why it never claims more than the cache on disk holds.      *)
(***************************************************************************)
\* No race, and no failure of a wipe, of the read of the cursor or of the
\* availability check.  Each of them breaks CursorHonest.
Gentle == Races = {} /\ Faults \cap {"wipe", "read", "probe"} = {}

-----------------------------------------------------------------------------
(***************************************************************************)
(* The pipeline in front of the cache: the write queue, and behind it the  *)
(* frames on the channel, as the ops they will become.                     *)
(***************************************************************************)
OpOf(f) == IF f.is = "action" THEN WriteOp(f.key, f.val)
           ELSE IF f.is = "complete" THEN CursorOp(f.id) ELSE WipeOp(Types)

N == Len(ops) + Len(chan)
Item(i) == IF i <= Len(ops) THEN ops[i] ELSE OpOf(chan[i - Len(ops)])

\* Of the row on disk (0) and the first i items, the last about row k is j.
Decides(j, k, i) ==
  /\ j \in 0..i
  /\ j # 0 => Touches(Item(j), k)
  /\ \A l \in (j + 1)..i : ~Touches(Item(l), k)

Value(j, k) == IF j = 0 THEN rows[k] ELSE Outcome(Item(j))

\* Row k held v at some position, and what happened to it since is undelivered.
Lags(k, v) ==
  \E p \in 0..Len(log) :
    /\ AsOf(k, v, p)
    /\ \A n \in (p + 1)..Len(log) : log[n].key = k => n \in undelivered

\* Position c is of the log, and every frame up to there was delivered or dropped.
Covered(c) == c <= Len(log) /\ \A n \in undelivered : c < n

-----------------------------------------------------------------------------
\* The server's side: frames are delivered in order, tables are as the log says.
InOrder == \A n \in undelivered : \A m \in n..Len(log) : m \in undelivered
Tables  == \A k \in Keys : AsOf(k, db[k], Len(log))

Positions ==
  /\ Covered(cursor)
  /\ \A i \in 1..N : Item(i).do = "cursor" => Covered(Item(i).id)
  /\ serving.for = "delta" =>
       /\ floor < serving.pos /\ cursor <= serving.pos
       /\ \A i \in 1..Len(serving.page) : serving.page[i] = serving.pos + i
       /\ Covered(serving.pos + Len(serving.page))
  /\ serving.for = "bootstrap" => Covered(serving.mark)

\* A delta is asked for from the cursor on disk.
Asked ==
  /\ \A t \in TaskIds : tasks[t].at = "decide" => tasks[t].cur = cursor
  /\ \A i \in 1..Len(requests) : requests[i].ask = "delta" => requests[i].from = cursor

\* From a reset until the bootstrap's claim, the cursor on disk is of no use.
Refilling == \/ ~NoReset
             \/ \E t \in TaskIds : tasks[t].at \in {"flushing", "acked"}
             \/ \E i \in 1..Len(requests) : requests[i].ask = "bootstrap"
             \/ serving.for = "watermark"

Unusable == Refilling \/ serving.for \in {"reset", "bootstrap"} => ~Available(cursor)

\* A claim is alone, but for the rewind of a reset: who made it is done.
ClaimAlone ==
  \A i \in 1..N : Item(i).do = "cursor" =>
    /\ requests = <<>> /\ serving = NotServing /\ NoReset
    /\ \A t \in TaskIds : tasks[t].at \in {"idle", "flushing"}
    /\ Item(i).id # 0 => \A t \in TaskIds : tasks[t] = Idle
    /\ \A j \in 1..N : Item(j).do = "cursor" => j = i

\* A wipe, its rewind and its flush are next to each other.
Wiping == \E t \in TaskIds : tasks[t].at = "flushing"
Shape ==
  \A i \in 2..N :
    /\ Item(i).do = "wipe" => Item(i).left = Types
    /\ Item(i).do = "flush" => Item(i - 1).do \in {"wipe", "cursor"}
    /\ Item(i).do = "cursor" /\ Wiping => Item(i - 1).do = "wipe"

Honest == Available(cursor) =>
  /\ \A k \in Keys : Fresh(k, rows[k], cursor)
  /\ \A i \in 1..N : Item(i).do = "write" => Fresh(Item(i).key, Item(i).val, cursor)

\* A claim is honest once the queue has come to it, or will be suppressed.
ClaimsHonest ==
  \A i \in 1..N : Item(i).do = "cursor" /\ Item(i).id # 0 =>
    /\ failedWrites \/ \A k \in Keys, j \in 0..N : Decides(j, k, i - 1) => Fresh(k, Value(j, k), Item(i).id)
    /\ \A l \in (i + 1)..N : Item(l).do = "write" => Fresh(Item(l).key, Item(l).val, Item(i).id)

\* A delta leaves every row as of the entry it has come to, or later.
DeltaHonest == serving.for = "delta" =>
  failedWrites \/ \A k \in Keys, j \in 0..N : Decides(j, k, N) => Fresh(k, Value(j, k), serving.pos)

\* A connection that was just opened has missed no live frame.
Opens == \E t \in TaskIds : tasks[t].at \in {"reading", "decide"}
Opening == conn /\ Opens =>
  \A k \in Keys, j \in 1..N : Decides(j, k, N) => Lags(k, Value(j, k))

\* Nor has one whose cache is emptied: a row is empty, or what live frames made it.
Plain == \A i \in 1..N : Item(i).do = "write"
Emptied == conn /\ Refilling =>
  \/ failedWrites /\ Plain
  \/ \A k \in Keys, j \in 0..N : Decides(j, k, N) => Value(j, k) = Absent \/ Lags(k, Value(j, k))

\* A bootstrap leaves every row as of its watermark, or later, but for those to come.
Pending(k) == TypeOf[k] \in serving.unread \/ \E r \in serving.snap : r[1] = k

BootHonest == serving.for = "bootstrap" /\ serving.mark # 0 =>
  /\ \A r \in serving.snap : Fresh(r[1], r[2], serving.mark)
  /\ \/ failedWrites
     \/ \A k \in Keys, j \in 0..N : Decides(j, k, N) =>
          \/ Fresh(k, Value(j, k), serving.mark)
          \/ Value(j, k) = Absent /\ Pending(k)

Rest == /\ Positions /\ Asked /\ Unusable /\ ClaimAlone /\ Shape
        /\ Honest /\ ClaimsHonest /\ DeltaHonest /\ Opening /\ Emptied /\ BootHonest
Flow == InOrder /\ Tables /\ Rest

-----------------------------------------------------------------------------
(***************************************************************************)
(* Rows and positions of the log.                                          *)
(***************************************************************************)
LogGrows == \E e \in Entry : log' = Append(log, e)

LEMMA Grown ==
  ASSUME TypeOK, LogGrows
  PROVE  /\ Len(log) \in Nat /\ Len(log') = Len(log) + 1
         /\ \A n \in 1..Len(log) : log'[n] = log[n]
BY DEF TypeOK, LogGrows

\* What a row held once, it held then.
LEMMA AsOfGrows ==
  ASSUME TypeOK, LogGrows, NEW k, NEW v \in Nat, NEW p \in 0..Len(log), AsOf(k, v, p)
  PROVE  AsOf(k, v, p)'
<1>1. \A n \in 1..p : n \in 1..Len(log) /\ log'[n] = log[n]
  BY Grown
<1>2. CASE v = Absent
  <2>1. ASSUME NEW n \in 1..p, log'[n] = [key |-> k, op |-> "set"]
        PROVE  \E m \in (n + 1)..p : log'[m] = [key |-> k, op |-> "del"]
    <3>1. PICK m \in (n + 1)..p : log[m] = [key |-> k, op |-> "del"]
      BY <1>1, <1>2, <2>1 DEF AsOf
    <3>2. m \in 1..p
      OBVIOUS
    <3>3. QED
      BY <1>1, <3>1, <3>2
  <2>2. QED
    BY <1>2, <2>1 DEF AsOf
<1>3. CASE v # Absent
  <2>1. v \in 1..p /\ log[v] = [key |-> k, op |-> "set"] /\ \A m \in (v + 1)..p : log[m].key # k
    BY <1>3 DEF AsOf
  <2>2. \A m \in (v + 1)..p : m \in 1..p
    BY <2>1
  <2>3. QED
    BY <1>1, <1>3, <2>1, <2>2 DEF AsOf
<1>4. QED
  BY <1>2, <1>3

LEMMA FreshGrows ==
  ASSUME TypeOK, LogGrows, NEW k, NEW v \in Nat, NEW c \in Nat, Fresh(k, v, c)
  PROVE  Fresh(k, v, c)'
<1>1. PICK p \in c..Len(log) : AsOf(k, v, p)
  BY DEF Fresh
<1>2. p \in 0..Len(log) /\ p \in c..Len(log')
  BY Grown
<1>3. QED
  BY <1>1, <1>2, AsOfGrows DEF Fresh

\* A row stays as it is while no entry is about it.
LEMMA AsOfLater ==
  ASSUME TypeOK, NEW k, NEW v \in Nat, NEW p \in 0..Len(log), NEW q \in p..Len(log), AsOf(k, v, p),
         \A n \in (p + 1)..q : log[n].key # k
  PROVE  AsOf(k, v, q)
<1>1. p \in Nat /\ q \in Nat /\ p <= q
  BY DEF TypeOK
<1>2. CASE v = Absent
  <2>1. ASSUME NEW n \in 1..q, log[n] = [key |-> k, op |-> "set"]
        PROVE  \E m \in (n + 1)..q : log[m] = [key |-> k, op |-> "del"]
    <3>1. log[n].key = k
      BY <2>1
    <3>2. n \in 1..p
      BY <1>1, <3>1
    <3>3. PICK m \in (n + 1)..p : log[m] = [key |-> k, op |-> "del"]
      BY <1>2, <2>1, <3>2 DEF AsOf
    <3>4. QED
      BY <1>1, <3>3
  <2>2. QED
    BY <1>2, <2>1 DEF AsOf
<1>3. CASE v # Absent
  <2>1. v \in 1..p /\ log[v] = [key |-> k, op |-> "set"] /\ \A m \in (v + 1)..p : log[m].key # k
    BY <1>3 DEF AsOf
  <2>2. \A m \in (v + 1)..q : m \in (v + 1)..p \/ m \in (p + 1)..q
    BY <1>1, <2>1
  <2>3. v \in 1..q
    BY <1>1, <2>1
  <2>4. QED
    BY <1>3, <2>1, <2>2, <2>3 DEF AsOf
<1>4. QED
  BY <1>2, <1>3

\* An entry says what its row is.
LEMMA EntryAsOf ==
  ASSUME TypeOK, NEW n \in 1..Len(log)
  PROVE  /\ log[n].key \in Keys /\ Content(n) \in Nat /\ n \in Nat
         /\ AsOf(log[n].key, Content(n), n)
<1>1. n \in Nat /\ n >= 1 /\ log[n] \in Entry /\ log[n] = [key |-> log[n].key, op |-> log[n].op]
  <2>1. n \in Nat /\ n >= 1 /\ log[n] \in Entry
    BY DEF TypeOK
  <2>2. QED
    BY <2>1 DEF Entry
<1>2. log[n].key \in Keys /\ log[n].op \in {"set", "del"}
  BY <1>1 DEF Entry
<1>3. CASE log[n].op = "set"
  BY <1>1, <1>2, <1>3 DEF Content, AsOf, Absent
<1>4. CASE log[n].op = "del"
  <2>1. Content(n) = Absent
    BY <1>4 DEF Content
  <2>2. ASSUME NEW i \in 1..n, log[i] = [key |-> log[n].key, op |-> "set"]
        PROVE  \E m \in (i + 1)..n : log[m] = [key |-> log[n].key, op |-> "del"]
    <3>1. i # n
      BY <1>4, <2>2
    <3>2. n \in (i + 1)..n
      BY <1>1, <3>1
    <3>3. log[n] = [key |-> log[n].key, op |-> "del"]
      BY <1>1, <1>4
    <3>4. QED
      BY <3>2, <3>3
  <2>3. QED
    BY <1>1, <1>2, <2>1, <2>2 DEF AsOf, Absent
<1>5. QED
  BY <1>2, <1>3, <1>4

LEMMA EntryFresh ==
  ASSUME TypeOK, NEW n \in 1..Len(log), NEW c \in Nat, c <= n
  PROVE  Fresh(log[n].key, Content(n), c)
BY EntryAsOf DEF Fresh, TypeOK

\* A row that an entry is not about is as fresh behind it as in front of it.
LEMMA FreshStep ==
  ASSUME TypeOK, NEW k, NEW v \in Nat, NEW c \in Nat, Fresh(k, v, c), c + 1 <= Len(log),
         log[c + 1].key # k
  PROVE  Fresh(k, v, c + 1)
<1>1. PICK p \in c..Len(log) : AsOf(k, v, p)
  BY DEF Fresh
<1>2. CASE p = c
  <2>1. p \in 0..Len(log) /\ c + 1 \in p..Len(log) /\ Len(log) \in Nat
    BY <1>2 DEF TypeOK
  <2>2. \A n \in (p + 1)..(c + 1) : n = c + 1
    BY <1>2
  <2>3. AsOf(k, v, c + 1)
    BY <1>1, <2>1, <2>2, AsOfLater
  <2>4. QED
    BY <2>1, <2>3 DEF Fresh
<1>3. CASE p # c
  <2>1. p \in (c + 1)..Len(log)
    BY <1>3
  <2>2. QED
    BY <1>1, <2>1 DEF Fresh
<1>4. QED
  BY <1>2, <1>3

LEMMA FreshEarlier ==
  ASSUME TypeOK, NEW k, NEW v, NEW c \in Nat, NEW b \in Nat, b <= c, Fresh(k, v, c)
  PROVE  Fresh(k, v, b)
<1>1. PICK p \in c..Len(log) : AsOf(k, v, p)
  BY DEF Fresh
<1>2. p \in b..Len(log)
  BY DEF TypeOK
<1>3. QED
  BY <1>1, <1>2 DEF Fresh

\* A row whose entries were all delivered is what the log says.
LEMMA LagsNot ==
  ASSUME TypeOK, NEW k, NEW v \in Nat, Lags(k, v), undelivered = {}
  PROVE  AsOf(k, v, Len(log)) /\ \A c \in 0..Len(log) : Fresh(k, v, c)
<1>1. PICK p \in 0..Len(log) : AsOf(k, v, p) /\ \A n \in (p + 1)..Len(log) : log[n].key # k
  BY DEF Lags
<1>2. Len(log) \in Nat /\ Len(log) \in p..Len(log)
  BY DEF TypeOK
<1>3. AsOf(k, v, Len(log))
  BY <1>1, <1>2, AsOfLater
<1>4. QED
  BY <1>2, <1>3 DEF Fresh

\* What a row lagged behind, it still lags behind, or is as the log says.
LEMMA LagsGrows ==
  ASSUME TypeOK, LogGrows, undelivered' = undelivered \cup {Len(log) + 1},
         NEW k, NEW v \in Nat, Lags(k, v)
  PROVE  Lags(k, v)'
<1>1. PICK p \in 0..Len(log) : /\ AsOf(k, v, p)
                               /\ \A n \in (p + 1)..Len(log) : log[n].key = k => n \in undelivered
  BY DEF Lags
<1>2. AsOf(k, v, p)' /\ p \in 0..Len(log')
  BY <1>1, AsOfGrows, Grown
<1>3. ASSUME NEW n \in (p + 1)..Len(log'), log'[n].key = k PROVE n \in undelivered'
  <2>1. CASE n = Len(log) + 1
    BY <2>1
  <2>2. CASE n # Len(log) + 1
    <3>1. n \in (p + 1)..Len(log) /\ n \in 1..Len(log)
      BY <1>1, <1>3, <2>2, Grown
    <3>2. QED
      BY <1>1, <1>3, <3>1, Grown
  <2>3. QED
    BY <2>1, <2>2
<1>4. QED
  BY <1>2, <1>3 DEF Lags

\* A frame is delivered in order: its row lags behind no more than before.
LEMMA LagsLess ==
  ASSUME TypeOK, InOrder, NEW n \in undelivered, undelivered' = undelivered \ {n}, log' = log
  PROVE  /\ \A k, v : k = log[n].key /\ v = Content(n) => Lags(k, v)'
         /\ \A k, v : k # log[n].key /\ Lags(k, v) => Lags(k, v)'
<1>1. n \in 1..Len(log) /\ n \in Nat /\ Len(log) \in Nat
  BY DEF TypeOK
<1>2. \A m \in (n + 1)..Len(log) : m \in undelivered'
  BY <1>1 DEF InOrder
<1>3. ASSUME NEW k, NEW v, k = log[n].key, v = Content(n) PROVE Lags(k, v)'
  <2>1. AsOf(k, v, n)
    BY <1>1, <1>3, EntryAsOf
  <2>2. \E p \in 0..Len(log) : AsOf(k, v, p) /\ \A m \in (p + 1)..Len(log) : log[m].key = k => m \in undelivered'
    BY <1>1, <1>2, <2>1
  <2>3. QED
    BY <2>2 DEF Lags, AsOf
<1>4. ASSUME NEW k, NEW v, k # log[n].key, Lags(k, v) PROVE Lags(k, v)'
  BY <1>4 DEF Lags, AsOf
<1>5. QED
  BY <1>3, <1>4

-----------------------------------------------------------------------------
(***************************************************************************)
(* How the pipeline moves.                                                 *)
(***************************************************************************)
LEMMA ItemTypes ==
  ASSUME TypeOK
  PROVE  /\ N \in Nat /\ Len(ops) \in Nat /\ Len(chan) \in Nat /\ N = Len(ops) + Len(chan)
         /\ \A i \in 1..N : Item(i) \in Op /\ Outcome(Item(i)) \in Nat
<1>1. N \in Nat /\ Len(ops) \in Nat /\ Len(chan) \in Nat /\ N = Len(ops) + Len(chan)
  BY DEF TypeOK, N
<1>2. ASSUME NEW i \in 1..N PROVE Item(i) \in Op
  <2>1. CASE i <= Len(ops)
    BY <1>1, <2>1 DEF TypeOK, Item
  <2>2. CASE ~(i <= Len(ops))
    <3>1. i - Len(ops) \in 1..Len(chan)
      BY <1>1, <2>2
    <3>2. chan[i - Len(ops)] \in Frame
      BY <3>1 DEF TypeOK
    <3>3. OpOf(chan[i - Len(ops)]) \in Op
      BY <3>2, FrameType, ValueTypes DEF OpOf
    <3>4. QED
      BY <2>2, <3>3 DEF Item
  <2>3. QED
    BY <2>1, <2>2
<1>3. ASSUME NEW i \in 1..N PROVE Outcome(Item(i)) \in Nat
  BY <1>2, OpType DEF Outcome, Absent
<1>4. QED
  BY <1>1, <1>2, <1>3

LEMMA Standing ==
  ASSUME UNCHANGED <<ops, chan>>
  PROVE  N' = N /\ \A i : Item(i)' = Item(i)
BY DEF N, Item

\* The server sends a frame.
LEMMA Sent ==
  ASSUME TypeOK, NEW f, chan' = Append(chan, f), ops' = ops
  PROVE  /\ N' = N + 1 /\ \A i \in {N + 1} : Item(i)' = OpOf(f)
         /\ \A i \in 1..N : Item(i)' = Item(i)
<1>1. /\ N \in Nat /\ Len(ops) \in Nat /\ Len(chan) \in Nat /\ N = Len(ops) + Len(chan)
      /\ Len(chan') = Len(chan) + 1
      /\ \A i \in 1..(Len(chan) + 1) : chan'[i] = IF i = Len(chan) + 1 THEN f ELSE chan[i]
  BY ItemTypes DEF TypeOK
<1>2. N' = N + 1
  BY <1>1 DEF N
<1>3. ASSUME NEW i \in {N + 1} PROVE Item(i)' = OpOf(f)
  <2>1. ~(i <= Len(ops')) /\ i - Len(ops') = Len(chan) + 1
    BY <1>1
  <2>2. chan'[i - Len(ops')] = f
    BY <1>1, <2>1
  <2>3. QED
    BY <2>1, <2>2 DEF Item, OpOf
<1>4. ASSUME NEW i \in 1..N PROVE Item(i)' = Item(i)
  <2>1. CASE i <= Len(ops)
    BY <2>1 DEF Item
  <2>2. CASE ~(i <= Len(ops))
    <3>1. i - Len(ops) \in 1..Len(chan)
      BY <1>1, <2>2
    <3>2. chan'[i - Len(ops)] = chan[i - Len(ops)]
      BY <1>1, <3>1
    <3>3. QED
      BY <2>2, <3>2 DEF Item, OpOf
  <2>3. QED
    BY <2>1, <2>2
<1>5. QED
  BY <1>2, <1>3, <1>4


\* The tab takes a frame and queues what it means.
LEMMA Taken ==
  ASSUME TypeOK, chan # <<>>, chan' = Tail(chan), ops' = ops \o <<OpOf(Head(chan))>>
  PROVE  N' = N /\ \A i \in 1..N : Item(i)' = Item(i)
<1>1. /\ Len(ops) \in Nat /\ Len(chan') \in Nat /\ Len(chan) = Len(chan') + 1 /\ Head(chan) = chan[1]
      /\ \A i \in 1..Len(chan') : chan'[i] = chan[i + 1]
      /\ Len(ops') = Len(ops) + 1
      /\ \A i \in 1..Len(ops) : ops'[i] = ops[i]
      /\ ops'[Len(ops) + 1] = OpOf(chan[1])
  BY TailOf DEF TypeOK
<1>2. N' = N /\ N = Len(ops) + 1 + Len(chan')
  BY <1>1 DEF N
<1>3. ASSUME NEW i \in 1..N PROVE Item(i)' = Item(i)
  <2>1. CASE i <= Len(ops)
    <3>1. i \in 1..Len(ops) /\ i <= Len(ops')
      BY <1>1, <2>1
    <3>2. QED
      BY <1>1, <2>1, <3>1 DEF Item
  <2>2. CASE i = Len(ops) + 1
    <3>1. ~(i <= Len(ops)) /\ i - Len(ops) = 1 /\ i <= Len(ops')
      BY <1>1, <2>2
    <3>2. ops'[i] = OpOf(chan[i - Len(ops)])
      BY <1>1, <2>2, <3>1
    <3>3. QED
      BY <3>1, <3>2 DEF Item
  <2>3. CASE i > Len(ops) + 1
    <3>1. ~(i <= Len(ops)) /\ ~(i <= Len(ops')) /\ i - Len(ops') \in 1..Len(chan')
          /\ (i - Len(ops')) + 1 = i - Len(ops)
      BY <1>1, <1>2, <2>3
    <3>2. chan'[i - Len(ops')] = chan[i - Len(ops)]
      BY <1>1, <3>1
    <3>3. QED
      BY <3>1, <3>2 DEF Item, OpOf
  <2>4. QED
    BY <1>1, <2>1, <2>2, <2>3
<1>4. QED
  BY <1>2, <1>3

\* The writer takes an op.
LEMMA Gone ==
  ASSUME TypeOK, ops # <<>>, ops' = Tail(ops), chan' = chan
  PROVE  /\ N' \in Nat /\ N = N' + 1 /\ Item(1) = Head(ops)
         /\ \A i \in 1..N' : Item(i)' = Item(i + 1)
<1>1. /\ Len(ops') \in Nat /\ Len(ops) = Len(ops') + 1 /\ Head(ops) = ops[1] /\ Len(chan) \in Nat
      /\ \A i \in 1..Len(ops') : ops'[i] = ops[i + 1]
  BY TailOf DEF TypeOK
<1>2. N' \in Nat /\ N = N' + 1
  BY <1>1 DEF N
<1>3. Item(1) = Head(ops)
  BY <1>1 DEF Item
<1>4. ASSUME NEW i \in 1..N' PROVE Item(i)' = Item(i + 1)
  <2>1. CASE i <= Len(ops')
    <3>1. i \in 1..Len(ops') /\ i + 1 <= Len(ops)
      BY <1>1, <2>1
    <3>2. QED
      BY <1>1, <2>1, <3>1 DEF Item
  <2>2. CASE ~(i <= Len(ops'))
    <3>1. ~(i + 1 <= Len(ops)) /\ (i + 1) - Len(ops) = i - Len(ops')
      BY <1>1, <1>2, <2>2
    <3>2. QED
      BY <2>2, <3>1 DEF Item, OpOf
  <2>3. QED
    BY <2>1, <2>2
<1>5. QED
  BY <1>2, <1>3, <1>4

\* The connection ends.
LEMMA Cut ==
  ASSUME TypeOK, chan' = <<>>, ops' = ops
  PROVE  /\ N' \in Nat /\ N' <= N
         /\ \A i \in 1..N' : Item(i)' = Item(i)
<1>1. N' = Len(ops) /\ Len(ops) \in Nat /\ Len(chan) \in Nat /\ N = Len(ops) + Len(chan)
  BY ItemTypes DEF N
<1>2. ASSUME NEW i \in 1..N' PROVE Item(i)' = Item(i)
  BY <1>1 DEF Item
<1>3. QED
  BY <1>1, <1>2


\* Who decides what a row will hold, when the pipeline moves.
LEMMA DecidesSame ==
  ASSUME NEW M \in Nat, \A i \in 1..M : Item(i)' = Item(i), rows' = rows
  PROVE  \A k, i, j : i \in 0..M => /\ Decides(j, k, i)' <=> Decides(j, k, i)
                                    /\ j \in 0..i => Value(j, k)' = Value(j, k)
<1>1. SUFFICES ASSUME NEW k, NEW i \in 0..M, NEW j
               PROVE  /\ Decides(j, k, i)' <=> Decides(j, k, i)
                      /\ j \in 0..i => Value(j, k)' = Value(j, k)
  OBVIOUS
<1>2. \A l \in 1..i : (Touches(Item(l), k)' <=> Touches(Item(l), k)) /\ Outcome(Item(l))' = Outcome(Item(l))
  BY DEF Touches, Outcome
<1>3. ASSUME NEW l, j \in 0..i, l \in (j + 1)..i PROVE l \in 1..i
  BY <1>3
<1>4. j \in 0..i /\ j # 0 => j \in 1..i
  OBVIOUS
<1>5. QED
  BY <1>2, <1>3, <1>4 DEF Decides, Value

LEMMA DecidesSent ==
  ASSUME N \in Nat, NEW x, N' = N + 1, \A i \in {N + 1} : Item(i)' = x,
         \A i \in 1..N : Item(i)' = Item(i), rows' = rows,
         NEW k, NEW j, NEW n, n = N + 1, Decides(j, k, n)'
  PROVE  \/ j = n /\ Touches(x, k) /\ Value(j, k)' = Outcome(x)
         \/ j \in 0..N /\ ~Touches(x, k) /\ Decides(j, k, N) /\ Value(j, k)' = Value(j, k)
<1>1. j \in 0..n /\ (j # 0 => Touches(Item(j), k)') /\ \A l \in (j + 1)..n : ~(Touches(Item(l), k)')
  BY DEF Decides
<1>2. (Touches(Item(n), k)' <=> Touches(x, k)) /\ Outcome(Item(n))' = Outcome(x)
  BY DEF Touches, Outcome
<1>3. CASE j = n
  BY <1>1, <1>2, <1>3 DEF Value
<1>4. CASE j # n
  <2>1. j \in 0..N /\ n \in (j + 1)..n
    BY <1>1, <1>4
  <2>2. ~Touches(x, k)
    BY <1>1, <1>2, <2>1
  <2>3. \A l \in (j + 1)..N : l \in (j + 1)..n
    BY <2>1
  <2>4. Decides(j, k, N) <=> /\ j \in 0..N /\ (j # 0 => Touches(Item(j), k))
                             /\ \A l \in (j + 1)..N : ~Touches(Item(l), k)
    BY DEF Decides
  <2>5. \A l \in 1..N : (Touches(Item(l), k)' <=> Touches(Item(l), k)) /\ Outcome(Item(l))' = Outcome(Item(l))
    BY DEF Touches, Outcome
  <2>6. \A l \in (j + 1)..N : l \in 1..N
    BY <2>1
  <2>7. Decides(j, k, N) /\ Value(j, k)' = Value(j, k)
    BY <1>1, <2>1, <2>3, <2>4, <2>5, <2>6 DEF Value
  <2>8. QED
    BY <2>1, <2>2, <2>7
<1>5. QED
  BY <1>3, <1>4

LEMMA DecidesGone ==
  ASSUME NEW M \in Nat, NEW x, Item(1) = x, \A i \in 1..M : Item(i)' = Item(i + 1), NEW k,
         rows'[k] = IF Touches(x, k) THEN Outcome(x) ELSE rows[k],
         NEW i \in 0..M, NEW j, Decides(j, k, i)'
  PROVE  \E l \in 0..(i + 1) : Decides(l, k, i + 1) /\ Value(j, k)' = Value(l, k)
<1>1. j \in 0..i /\ (j # 0 => Touches(Item(j), k)') /\ \A l \in (j + 1)..i : ~(Touches(Item(l), k)')
  BY DEF Decides
<1>2. \A l \in 1..M : (Touches(Item(l), k)' <=> Touches(Item(l + 1), k)) /\ Outcome(Item(l))' = Outcome(Item(l + 1))
  BY DEF Touches, Outcome
<1>3. ASSUME NEW l \in (j + 2)..(i + 1) PROVE ~Touches(Item(l), k)
  <2>1. l - 1 \in (j + 1)..i /\ l - 1 \in 1..M /\ (l - 1) + 1 = l
    BY <1>1
  <2>2. QED
    BY <1>1, <1>2, <2>1
<1>4. CASE j # 0
  <2>1. j \in 1..M /\ j + 1 \in 0..(i + 1) /\ j + 1 # 0 /\ (j + 1) + 1 = j + 2
    BY <1>1, <1>4
  <2>2. Decides(j + 1, k, i + 1)
    BY <1>1, <1>2, <1>3, <1>4, <2>1 DEF Decides
  <2>3. Value(j, k)' = Value(j + 1, k)
    BY <1>2, <1>4, <2>1 DEF Value
  <2>4. QED
    BY <2>1, <2>2, <2>3
<1>5. CASE j = 0 /\ Touches(x, k)
  <2>1. Decides(1, k, i + 1) /\ 1 \in 0..(i + 1)
    BY <1>3, <1>5 DEF Decides
  <2>2. Value(j, k)' = Value(1, k)
    BY <1>5 DEF Value
  <2>3. QED
    BY <2>1, <2>2
<1>6. CASE j = 0 /\ ~Touches(x, k)
  <2>1. \A l \in 1..(i + 1) : l = 1 \/ l \in (j + 2)..(i + 1)
    BY <1>6
  <2>2. Decides(0, k, i + 1) /\ 0 \in 0..(i + 1)
    BY <1>3, <1>6, <2>1 DEF Decides
  <2>3. Value(j, k)' = Value(0, k)
    BY <1>6 DEF Value
  <2>4. QED
    BY <2>2, <2>3
<1>7. QED
  BY <1>4, <1>5, <1>6


-----------------------------------------------------------------------------
(***************************************************************************)
(* What is in the pipeline, and who is at work.                            *)
(***************************************************************************)
LEMMA ItemKinds ==
  ASSUME TypeOK, Phases, NEW i \in 1..N
  PROVE  /\ Item(i).do \in {"write", "wipe", "cursor", "flush"}
         /\ Item(i).do \in {"wipe", "flush"} =>
              ~NoReset \/ \E t \in TaskIds : tasks[t] = [at |-> "flushing"]
         /\ Item(i).do = "flush" => i <= Len(ops)
<1>1. Len(ops) \in Nat /\ Len(chan) \in Nat /\ N = Len(ops) + Len(chan) /\ Item(i) \in Op
  BY ItemTypes
<1>2. Item(i).do \in {"write", "wipe", "cursor", "flush"}
  BY <1>1 DEF Op
<1>3. CASE i <= Len(ops)
  <2>1. i \in 1..Len(ops) /\ Item(i) = ops[i]
    BY <1>1, <1>3 DEF Item
  <2>2. QED
    BY <1>2, <1>3, <2>1, NoWaiter DEF Phases
<1>4. CASE ~(i <= Len(ops))
  <2>1. i - Len(ops) \in 1..Len(chan) /\ Item(i) = OpOf(chan[i - Len(ops)])
    BY <1>1, <1>4 DEF Item
  <2>2. chan[i - Len(ops)] \in Frame
    BY <2>1 DEF TypeOK
  <2>3. chan[i - Len(ops)].is \in {"action", "complete", "reset"}
    BY <2>2 DEF Frame, Reset
  <2>4. /\ Item(i).do # "flush"
        /\ Item(i).do = "wipe" => chan[i - Len(ops)].is = "reset"
    BY <2>1, <2>3 DEF OpOf, WriteOp, CursorOp, WipeOp
  <2>5. QED
    BY <1>2, <2>1, <2>4 DEF NoReset
<1>5. QED
  BY <1>3, <1>4

\* Behind nobody who waits for a wipe there are only writes, and the claim.
LEMMA AllPlain ==
  ASSUME TypeOK, Phases, ClaimAlone, NoReset, \A t \in TaskIds : tasks[t] # [at |-> "flushing"],
         \/ requests # <<>> \/ serving # NotServing
         \/ \E t \in TaskIds : tasks[t].at \in {"reading", "decide", "acked"}
  PROVE  Plain
<1>1. ASSUME NEW i \in 1..N PROVE Item(i).do = "write"
  <2>1. Item(i).do # "cursor"
    BY DEF ClaimAlone
  <2>2. QED
    BY <2>1, ItemKinds
<1>2. QED
  BY <1>1 DEF Plain

LEMMA ClaimPlain ==
  ASSUME TypeOK, Phases, ClaimAlone, NEW i \in 1..N, Item(i).do = "cursor", Item(i).id # 0
  PROVE  \A j \in 1..N : j # i => Item(j).do = "write"
<1>1. NoReset /\ \A t \in TaskIds : tasks[t] # [at |-> "flushing"]
  BY DEF ClaimAlone, Idle
<1>2. QED
  BY <1>1, ItemKinds DEF ClaimAlone

\* Who is at work, in terms of where the handshake of the connection is.
LEMMA Token ==
  ASSUME TypeOK, Phases
  PROVE  /\ \A t \in TaskIds : tasks[t].at # "idle" =>
              /\ requests = <<>> /\ serving = NotServing /\ NoReset
              /\ \A u \in TaskIds : u # t => tasks[u] = Idle
         /\ requests # <<>> \/ serving # NotServing \/ ~NoReset => \A t \in TaskIds : tasks[t] = Idle
         /\ requests # <<>> => serving = NotServing /\ NoReset /\ Len(requests) = 1 /\ conn
         /\ serving # NotServing => requests = <<>> /\ NoReset /\ conn
         /\ ~conn => chan = <<>>
<1>1. \A t \in TaskIds : tasks[t].at # "idle" <=> Busy(t)
  BY BusyMeans
<1>2. QED
  BY <1>1 DEF Phases, Link, Queue, BusyAlone, OneBusy, RequestAlone, ServingAlone, DownIsEmpty, Busy, TypeOK

\* Who changes the server's tables.
LEMMA ServerKept ==
  ASSUME \/ ServerNext \/ TabNext \/ WriterNext
         \/ \E t \in TaskIds : Connect(t)
         \/ Disconnect \/ Reload \/ UNCHANGED vars
  PROVE  UNCHANGED <<log, floor, db, undelivered>>
<1>1. CASE ServerNext
  BY <1>1 DEF ServerNext, ServerStep, StartDelta, SendReset, ReadPage, SendEntry, FinishDelta,
       AbandonStream, StartBootstrap, ReadWatermark, ReadType, SendRow, FinishBootstrap, serverVars
<1>2. CASE TabNext
  BY <1>2 DEF TabNext, OnAction, OnComplete, OnReset, ReadCursor, AskDelta, StartOver, AskBootstrap,
       serverVars
<1>3. CASE WriterNext
  BY <1>3 DEF WriterNext, WriteRow, WipeType, SetCursor, Flush, Pop, serverVars
<1>4. CASE (\E t \in TaskIds : Connect(t)) \/ Disconnect \/ Reload \/ UNCHANGED vars
  BY <1>4 DEF Connect, Disconnect, Reload, vars, serverVars
<1>5. QED
  BY <1>1, <1>2, <1>3, <1>4

LEMMA OrderStep ==
  ASSUME Gentle, TypeOK, InOrder, Tables, [Next]_vars
  PROVE  InOrder' /\ Tables'
<1>1. ASSUME NEW k \in Keys, NEW o \in {"set", "del"}, Commit(k, o) PROVE InOrder' /\ Tables'
  <2> DEFINE n == Len(log) + 1
             e == [key |-> k, op |-> o]
  <2>1. /\ log' = Append(log, e) /\ e \in Entry /\ undelivered' = undelivered \cup {n}
        /\ db' = [db EXCEPT ![k] = IF o = "set" THEN n ELSE Absent]
        /\ Len(log) \in Nat /\ undelivered \subseteq 1..Len(log)
    BY <1>1 DEF Commit, Entry, TypeOK
  <2>2. LogGrows /\ Len(log') = n /\ log'[n] = e /\ \A i \in 1..Len(log) : log'[i] = log[i]
    BY <2>1, Grown DEF LogGrows, TypeOK
  <2>3. InOrder'
    <3>1. ASSUME NEW i \in undelivered', NEW m \in i..n PROVE m \in undelivered'
      <4>1. CASE m = n
        BY <2>1, <4>1
      <4>2. CASE m # n
        <5>1. i \in undelivered /\ m \in i..Len(log)
          BY <2>1, <4>2
        <5>2. QED
          BY <2>1, <5>1 DEF InOrder
      <4>3. QED
        BY <4>1, <4>2
    <3>2. QED
      BY <2>2, <3>1 DEF InOrder
  <2>4. ASSUME NEW x \in Keys PROVE AsOf(x, db[x], Len(log))'
    <3>1. CASE x = k /\ o = "set"
      <4>1. db'[x] = n /\ n # Absent /\ n \in 1..n /\ ~\E m \in (n + 1)..n : TRUE
        BY <2>1, <3>1 DEF TypeOK, Absent
      <4>2. QED
        BY <2>2, <3>1, <4>1 DEF AsOf
    <3>2. CASE x = k /\ o = "del"
      <4>1. db'[x] = Absent
        BY <2>1, <3>2 DEF TypeOK
      <4>2. ASSUME NEW i \in 1..n, log'[i] = [key |-> x, op |-> "set"]
            PROVE  \E m \in (i + 1)..n : log'[m] = [key |-> x, op |-> "del"]
        <5>1. i # n
          BY <2>2, <3>2, <4>2
        <5>2. n \in (i + 1)..n
          BY <2>1, <5>1
        <5>3. QED
          BY <2>2, <3>2, <5>2
      <4>3. QED
        BY <2>2, <4>1, <4>2 DEF AsOf
    <3>3. CASE x # k
      <4> DEFINE v == db[x]
      <4>1. db'[x] = v /\ v \in Nat /\ AsOf(x, v, Len(log)) /\ log'[n].key # x
        BY <2>1, <2>2, <3>3 DEF TypeOK, Tables
      <4> HIDE DEF v
      <4>2. CASE v = Absent
        <5>1. ASSUME NEW i \in 1..n, log'[i] = [key |-> x, op |-> "set"]
              PROVE  \E m \in (i + 1)..n : log'[m] = [key |-> x, op |-> "del"]
          <6>1. i \in 1..Len(log) /\ log[i] = [key |-> x, op |-> "set"]
            BY <2>1, <2>2, <4>1, <5>1
          <6>2. PICK m \in (i + 1)..Len(log) : log[m] = [key |-> x, op |-> "del"]
            BY <4>1, <4>2, <6>1 DEF AsOf
          <6>3. QED
            BY <2>1, <2>2, <6>2
        <5>2. QED
          BY <2>2, <4>1, <4>2, <5>1 DEF AsOf
      <4>3. CASE v # Absent
        <5>1. v \in 1..Len(log) /\ log[v] = [key |-> x, op |-> "set"]
              /\ \A m \in (v + 1)..Len(log) : log[m].key # x
          BY <4>1, <4>3 DEF AsOf
        <5>2. \A m \in (v + 1)..n : m = n \/ (m \in (v + 1)..Len(log) /\ m \in 1..Len(log))
          BY <2>1, <5>1, SMTT(30)
        <5>3. v \in 1..n /\ \A m \in (v + 1)..n : log'[m].key # x
          BY <2>1, <2>2, <4>1, <5>1, <5>2
        <5>4. QED
          BY <2>2, <4>1, <4>3, <5>1, <5>3 DEF AsOf
      <4>4. QED
        BY <4>2, <4>3
    <3>4. QED
      BY <3>1, <3>2, <3>3
  <2>5. QED
    BY <2>3, <2>4 DEF Tables
<1>2. CASE Prune
  BY <1>2 DEF Prune, InOrder, Tables, AsOf
<1>3. ASSUME NEW n \in undelivered, DeliverLive(n) PROVE InOrder' /\ Tables'
  <2>1. /\ log' = log /\ db' = db /\ undelivered' = undelivered \ {n}
        /\ \A m \in undelivered : n <= m
    BY <1>3 DEF DeliverLive, Gentle
  <2>2. n \in Nat /\ undelivered \subseteq 1..Len(log)
    BY DEF TypeOK
  <2>3. ASSUME NEW i \in undelivered', NEW m \in i..Len(log') PROVE m \in undelivered'
    <3>1. i \in undelivered /\ m \in undelivered /\ n <= i /\ i # n /\ i \in Nat
      BY <2>1, <2>2, <2>3 DEF InOrder
    <3>2. QED
      BY <2>1, <2>2, <2>3, <3>1
  <2>4. QED
    BY <2>1, <2>3 DEF InOrder, Tables, AsOf
<1>4. CASE \/ ServerNext \/ TabNext \/ WriterNext
           \/ \E t \in TaskIds : Connect(t)
           \/ Disconnect \/ Reload \/ UNCHANGED vars
  BY <1>4, ServerKept DEF InOrder, Tables, AsOf
<1>5. QED
  BY <1>1, <1>2, <1>3, <1>4 DEF Next


-----------------------------------------------------------------------------
(***************************************************************************)
(* Steps that leave the pipeline as it is.                                 *)
(***************************************************************************)
LEMMA Decided ==
  ASSUME TypeOK, NEW k \in Keys, NEW i \in 0..N, NEW j, Decides(j, k, i)
  PROVE  j \in 0..i /\ Value(j, k) \in Nat
<1>1. j \in 0..i /\ rows[k] \in Nat
  BY DEF Decides, TypeOK
<1>2. j # 0 => j \in 1..N
  BY <1>1, ItemTypes
<1>3. QED
  BY <1>1, <1>2, ItemTypes DEF Value

LEMMA Keeps ==
  ASSUME TypeOK, Shape, Honest, ClaimsHonest, Opening, Emptied, Positions,
         N' = N, \A i \in 1..N : Item(i)' = Item(i), UNCHANGED <<rows, cursor, failedWrites>>,
         \A k \in Keys, v \in Nat, c \in Nat : Fresh(k, v, c) => Fresh(k, v, c)',
         Available(cursor)' => Available(cursor),
         Wiping' => Wiping, Refilling' => Refilling, Opens' => Opens, conn' => conn,
         conn' /\ (Refilling' \/ Opens') => \A k \in Keys, v \in Nat : Lags(k, v) => Lags(k, v)'
  PROVE  Shape' /\ Honest' /\ ClaimsHonest' /\ Opening' /\ Emptied'
<1>1. N \in Nat /\ \A i \in 1..N : Item(i) \in Op /\ Item(i)' = Item(i)
  BY ItemTypes
<1>2. \A i \in 1..N : /\ Item(i).do = "write" => Item(i).key \in Keys /\ Item(i).val \in Nat
                      /\ Item(i).do = "cursor" => Item(i).id \in Nat
  BY <1>1, OpType
<1>3. \A k, i, j : i \in 0..N => /\ Decides(j, k, i)' <=> Decides(j, k, i)
                                 /\ j \in 0..i => Value(j, k)' = Value(j, k)
  BY <1>1, DecidesSame
<1>4. \A k \in Keys, i \in 0..N : \A j : Decides(j, k, i) => j \in 0..i /\ Value(j, k) \in Nat
  BY Decided
<1>5. Shape'
  <2>1. \A i \in 2..N : i \in 1..N /\ i - 1 \in 1..N
    BY <1>1
  <2>2. QED
    BY <1>1, <2>1 DEF Shape
<1>6. Honest'
  BY <1>1, <1>2 DEF Honest, TypeOK
<1>7. ClaimsHonest'
  <2>1. SUFFICES ASSUME NEW i \in 1..N, Item(i).do = "cursor", Item(i).id # 0
        PROVE  /\ failedWrites \/ \A k \in Keys, j \in 0..N : Decides(j, k, i - 1)' => Fresh(k, Value(j, k), Item(i).id)'
               /\ \A l \in (i + 1)..N : Item(l).do = "write" => Fresh(Item(l).key, Item(l).val, Item(i).id)'
    BY <1>1 DEF ClaimsHonest
  <2>2. i - 1 \in 0..N /\ Item(i).id \in Nat /\ \A l \in (i + 1)..N : l \in 1..N
    BY <1>1, <1>2, <2>1
  <2>3. \A l \in (i + 1)..N : Item(l).do = "write" => Fresh(Item(l).key, Item(l).val, Item(i).id)'
    BY <1>1, <1>2, <2>1, <2>2 DEF ClaimsHonest
  <2>4. ASSUME ~failedWrites, NEW k \in Keys, NEW j \in 0..N, Decides(j, k, i - 1)'
        PROVE  Fresh(k, Value(j, k), Item(i).id)'
    <3>1. Decides(j, k, i - 1) /\ Value(j, k)' = Value(j, k) /\ Value(j, k) \in Nat
      BY <1>3, <1>4, <2>2, <2>4
    <3>2. Fresh(k, Value(j, k), Item(i).id)
      BY <2>1, <2>4, <3>1 DEF ClaimsHonest
    <3>3. QED
      BY <1>1, <2>2, <3>1, <3>2
  <2>5. QED
    BY <2>3, <2>4
<1>8. Opening'
  <2>1. SUFFICES ASSUME conn', Opens', NEW k \in Keys, NEW j \in 1..N, Decides(j, k, N)'
        PROVE  Lags(k, Value(j, k))'
    BY DEF Opening
  <2>2. Decides(j, k, N) /\ Value(j, k)' = Value(j, k) /\ Value(j, k) \in Nat
    BY <1>1, <1>3, <1>4, <2>1
  <2>3. QED
    BY <2>1, <2>2 DEF Opening
<1>9. Emptied'
  <2>1. SUFFICES ASSUME conn', Refilling', ~(failedWrites /\ Plain), NEW k \in Keys, NEW j \in 0..N, Decides(j, k, N)'
        PROVE  Value(j, k)' = Absent \/ Lags(k, Value(j, k))'
    BY <1>1 DEF Emptied, Plain
  <2>2. Decides(j, k, N) /\ Value(j, k)' = Value(j, k) /\ Value(j, k) \in Nat
    BY <1>1, <1>3, <1>4, <2>1
  <2>3. QED
    BY <2>1, <2>2 DEF Emptied
<1>10. QED
  BY <1>5, <1>6, <1>7, <1>8, <1>9


\* What was not served a delta any more, will not be.
LEMMA AvailableLess ==
  ASSUME TypeOK, TypeOK', NEW c \in Nat, c <= Len(log), floor <= floor', Available(c)'
  PROVE  Available(c)
<1>1. floor \in Nat /\ Len(log) \in Nat /\ floor' \in Nat /\ Len(log') \in Nat
  BY DEF TypeOK
<1>2. PICK f \in Nat, l \in Nat : f = floor' /\ l = Len(log')
  BY <1>1
<1>3. c \in (f + 1)..l /\ floor <= f
  BY <1>2 DEF Available
<1>4. c \in (floor + 1)..Len(log)
  BY <1>1, <1>3
<1>5. QED
  BY <1>4 DEF Available

LEMMA Untouched ==
  ASSUME TypeOK, TypeOK', Flow,
         UNCHANGED <<conn, requests, serving, chan, tasks, ops, failedWrites, rows, cursor>>,
         floor <= floor', serving.for = "delta" => floor' = floor,
         \A c \in Nat : Covered(c) => Covered(c)',
         \A k \in Keys, v \in Nat, c \in Nat : Fresh(k, v, c) => Fresh(k, v, c)',
         conn /\ (Refilling \/ Opens) => \A k \in Keys, v \in Nat : Lags(k, v) => Lags(k, v)'
  PROVE  Rest'
<1>1. N' = N /\ N \in Nat /\ \A i : Item(i)' = Item(i)
  BY Standing, ItemTypes
<1>2. cursor \in Nat /\ Len(log) \in Nat /\ (\A i \in 1..N : Item(i).do = "cursor" => Item(i).id \in Nat)
  <2>1. ASSUME NEW i \in 1..N, Item(i).do = "cursor" PROVE Item(i).id \in Nat
    BY <2>1, ItemTypes, OpType
  <2>2. QED
    BY <2>1 DEF TypeOK
<1>3. Available(cursor)' => Available(cursor)
  <2>1. ASSUME NEW c \in Nat, c = cursor, Available(c)' PROVE Available(c)
    BY <2>1, AvailableLess DEF Flow, Rest, Positions, Covered
  <2>2. QED
    BY <1>2, <2>1 DEF Available
<1>4. /\ serving.for = "delta" => serving.pos \in Nat /\ serving.pos + Len(serving.page) \in Nat
      /\ serving.for = "bootstrap" => serving.mark \in Nat /\ serving.snap \subseteq Keys \X Nat
  <2>1. serving \in Serving
    BY DEF TypeOK
  <2>2. serving.for = "delta" => serving.pos \in Nat /\ Len(serving.page) \in Nat
    BY <1>2, <2>1, ServingType DEF Delta
  <2>3. QED
    BY <2>1, <2>2, ServingType DEF Bootstrap
<1>5. Positions'
  <2>1. Covered(cursor)'
    BY <1>2 DEF Flow, Rest, Positions, Covered
  <2>2. ASSUME NEW i \in 1..N, Item(i).do = "cursor" PROVE Covered(Item(i).id)'
    BY <2>2, <1>1, <1>2 DEF Flow, Rest, Positions, Covered
  <2>3. serving.for = "delta" => Covered(serving.pos + Len(serving.page))'
    BY <1>4 DEF Flow, Rest, Positions, Covered
  <2>4. serving.for = "bootstrap" => Covered(serving.mark)'
    BY <1>4 DEF Flow, Rest, Positions, Covered
  <2>5. QED
    BY <1>1, <2>1, <2>2, <2>3, <2>4 DEF Flow, Rest, Positions, Covered
<1>6. Asked' /\ ClaimAlone' /\ (Refilling' <=> Refilling)
  BY <1>1 DEF Flow, Rest, Asked, ClaimAlone, NoReset, Refilling
<1>7. Unusable'
  BY <1>3, <1>6 DEF Flow, Rest, Unusable
<1>8. Shape' /\ Honest' /\ ClaimsHonest' /\ Opening' /\ Emptied'
  <2>1. (Wiping' <=> Wiping) /\ (Opens' <=> Opens)
    BY DEF Wiping, Opens
  <2>2. QED
    BY <1>1, <1>3, <1>6, <2>1, Keeps DEF Flow, Rest
<1>9. \A k \in Keys, j \in 0..N : Decides(j, k, N)' =>
        Decides(j, k, N) /\ Value(j, k)' = Value(j, k) /\ Value(j, k) \in Nat
  BY <1>1, DecidesSame, Decided
<1>10. DeltaHonest'
  BY <1>1, <1>4, <1>9 DEF Flow, Rest, DeltaHonest
<1>11. BootHonest'
  <2>1. SUFFICES ASSUME serving.for = "bootstrap", serving.mark # 0
        PROVE  /\ \A r \in serving.snap : Fresh(r[1], r[2], serving.mark)'
               /\ failedWrites \/ \A k \in Keys, j \in 0..N : Decides(j, k, N)' =>
                    \/ Fresh(k, Value(j, k), serving.mark)'
                    \/ Value(j, k)' = Absent /\ Pending(k)'
    BY <1>1 DEF BootHonest
  <2>2. \A k : Pending(k)' <=> Pending(k)
    BY DEF Pending
  <2>3. QED
    BY <1>1, <1>4, <1>9, <2>1, <2>2 DEF Flow, Rest, BootHonest
<1>12. QED
  BY <1>5, <1>6, <1>7, <1>8, <1>10, <1>11 DEF Rest

LEMMA CommitFlow ==
  ASSUME TypeOK, TypeOK', Flow, NEW k \in Keys, NEW o \in {"set", "del"}, Commit(k, o)
  PROVE  Rest'
<1>1. /\ log' = Append(log, [key |-> k, op |-> o]) /\ [key |-> k, op |-> o] \in Entry
      /\ undelivered' = undelivered \cup {Len(log) + 1}
      /\ UNCHANGED <<floor, conn, requests, serving, chan, tasks, ops, failedWrites, rows, cursor>>
  BY DEF Commit, Entry, linkVars, idbVars
<1>2. LogGrows /\ Len(log) \in Nat /\ Len(log') = Len(log) + 1 /\ floor <= floor'
  <2>1. LogGrows
    BY <1>1 DEF LogGrows
  <2>2. floor \in Nat
    BY DEF TypeOK
  <2>3. QED
    BY <1>1, <2>1, <2>2, Grown
<1>3. \A c \in Nat : Covered(c) => Covered(c)'
  BY <1>1, <1>2 DEF Covered
<1>4. QED
  BY <1>1, <1>2, <1>3, FreshGrows, LagsGrows, Untouched

LEMMA PruneFlow ==
  ASSUME Gentle, TypeOK, TypeOK', Flow, Prune \/ UNCHANGED vars
  PROVE  Rest'
<1>1. /\ UNCHANGED <<log, undelivered, conn, requests, serving, chan, tasks, ops, failedWrites, rows, cursor>>
      /\ floor <= floor' /\ (serving.for = "delta" => floor' = floor)
  <2>1. CASE Prune
    <3>1. UNCHANGED <<log, undelivered, conn, requests, serving, chan, tasks, ops, failedWrites, rows, cursor>>
      BY <2>1 DEF Prune, linkVars, idbVars
    <3>2. floor <= floor'
      BY <2>1 DEF Prune, TypeOK
    <3>3. ~(serving.for = "delta")
      BY <2>1 DEF Prune, Gentle
    <3>4. QED
      BY <3>1, <3>2, <3>3
  <2>2. CASE UNCHANGED vars
    <3>1. floor \in Nat /\ floor' = floor
      BY <2>2 DEF TypeOK, vars, serverVars
    <3>2. QED
      BY <2>2, <3>1 DEF vars, serverVars, linkVars, idbVars
  <2>3. QED
    BY <2>1, <2>2
<1>2. QED
  BY <1>1, Untouched DEF Covered, Fresh, AsOf, Lags


\* The connection ends, and with it whatever was on its way.
LEMMA ClosingFlow ==
  ASSUME TypeOK, TypeOK', Flow, CloseLink, UNCHANGED <<log, floor, tasks, ops, failedWrites, rows, cursor>>,
         undelivered' \subseteq undelivered
  PROVE  Rest'
<1>1. /\ conn' = FALSE /\ requests' = <<>> /\ serving' = NotServing /\ chan' = <<>>
      /\ NotServing.for \notin {"delta", "bootstrap", "reset", "watermark"}
  BY DEF CloseLink, NotServing
<1>2. N' \in Nat /\ N \in Nat /\ N' <= N /\ \A i \in 1..N' : i \in 1..N /\ Item(i)' = Item(i)
  BY <1>1, Cut, ItemTypes
<1>3. NoReset' /\ Len(requests') = 0
  BY <1>1 DEF NoReset
<1>4. Positions'
  BY <1>1, <1>2 DEF Flow, Rest, Positions, Covered
<1>5. Asked' /\ (Refilling' => Refilling) /\ (Wiping' <=> Wiping)
  BY <1>1, <1>3 DEF Flow, Rest, Asked, Refilling, Wiping
<1>6. Unusable'
  BY <1>1, <1>5 DEF Flow, Rest, Unusable, Available
<1>7. ClaimAlone'
  BY <1>1, <1>2, <1>3 DEF Flow, Rest, ClaimAlone
<1>8. Shape'
  <2>1. \A i \in 2..N' : i \in 2..N /\ i \in 1..N' /\ i - 1 \in 1..N'
    BY <1>2
  <2>2. QED
    BY <1>2, <1>5, <2>1 DEF Flow, Rest, Shape
<1>9. Honest'
  <2>1. \A k, v, c : Fresh(k, v, c) => Fresh(k, v, c)'
    BY DEF Fresh, AsOf
  <2>2. Available(cursor)' <=> Available(cursor)
    BY DEF Available
  <2>3. QED
    BY <1>2, <2>1, <2>2 DEF Flow, Rest, Honest
<1>10. ClaimsHonest'
  <2>1. SUFFICES ASSUME NEW i \in 1..N', Item(i).do = "cursor", Item(i).id # 0
        PROVE  /\ failedWrites \/ \A k \in Keys, j \in 0..N' : Decides(j, k, i - 1)' => Fresh(k, Value(j, k), Item(i).id)'
               /\ \A l \in (i + 1)..N' : Item(l).do = "write" => Fresh(Item(l).key, Item(l).val, Item(i).id)'
    BY <1>2 DEF ClaimsHonest
  <2>2. i \in 1..N /\ i - 1 \in 0..N' /\ i - 1 \in 0..N /\ Item(i)' = Item(i)
        /\ \A l \in (i + 1)..N' : l \in (i + 1)..N /\ l \in 1..N' /\ Item(l)' = Item(l)
    BY <1>2
  <2>3. \A k \in Keys, j \in 0..N' : Decides(j, k, i - 1)' =>
          j \in 0..N /\ Decides(j, k, i - 1) /\ Value(j, k)' = Value(j, k)
    BY <1>2, <2>2, DecidesSame DEF Decides
  <2>4. \A k, v, c : Fresh(k, v, c) => Fresh(k, v, c)'
    BY DEF Fresh, AsOf
  <2>5. QED
    BY <2>1, <2>2, <2>3, <2>4 DEF Flow, Rest, ClaimsHonest
<1>11. DeltaHonest' /\ BootHonest' /\ Opening' /\ Emptied'
  BY <1>1 DEF DeltaHonest, BootHonest, Opening, Emptied
<1>12. QED
  BY <1>4, <1>5, <1>6, <1>7, <1>8, <1>9, <1>10, <1>11 DEF Rest

\* The tab dies: IndexedDB is what it is, and nothing is under way.
LEMMA ReloadFlow ==
  ASSUME TypeOK, TypeOK', Flow, Reload
  PROVE  Rest'
<1>1. /\ conn' = FALSE /\ requests' = <<>> /\ serving' = NotServing /\ chan' = <<>> /\ ops' = <<>>
      /\ tasks' = [t \in TaskIds |-> Idle]
      /\ UNCHANGED <<log, floor, undelivered, rows, cursor>>
      /\ NotServing.for \notin {"delta", "bootstrap", "reset", "watermark"}
  BY DEF Reload, CloseLink, NotServing, serverVars, idbVars
<1>2. N' = 0 /\ Len(requests') = 0 /\ NoReset'
  BY <1>1 DEF N, NoReset
<1>3. \A t \in TaskIds : tasks'[t].at = "idle"
  BY <1>1 DEF Idle
<1>4. Positions' /\ Asked' /\ ~Refilling' /\ ClaimAlone' /\ Shape' /\ ClaimsHonest'
  BY <1>1, <1>2, <1>3 DEF Flow, Rest, Positions, Covered, Asked, Refilling, ClaimAlone, Shape, ClaimsHonest
<1>5. Unusable' /\ DeltaHonest' /\ BootHonest' /\ Opening' /\ Emptied'
  BY <1>1, <1>4 DEF Unusable, DeltaHonest, BootHonest, Opening, Emptied
<1>6. Honest'
  BY <1>1, <1>2 DEF Flow, Rest, Honest, Available, Fresh, AsOf
<1>7. QED
  BY <1>4, <1>5, <1>6 DEF Rest


\* A live frame that finds no room or no connection: nobody relies on it.
LEMMA DroppedFlow ==
  ASSUME Gentle, TypeOK, TypeOK', Phases, Flow, NEW n \in undelivered,
         undelivered' = undelivered \ {n}, ~conn \/ (CatchingUp /\ serving.for # "watermark"),
         UNCHANGED <<log, floor, conn, requests, serving, chan, tasks, ops, failedWrites, rows, cursor>>
  PROVE  Rest'
<1>1. conn => ~Refilling /\ ~Opens
  <2>1. SUFFICES ASSUME conn, serving # NotServing, serving.for # "watermark"
                 PROVE  ~Refilling /\ ~Opens
    BY DEF CatchingUp
  <2>2. requests = <<>> /\ NoReset /\ \A t \in TaskIds : tasks[t] = Idle
    BY <2>1, Token
  <2>3. Len(requests) = 0 /\ \A t \in TaskIds : tasks[t].at = "idle"
    BY <2>2 DEF Idle
  <2>4. QED
    BY <2>1, <2>2, <2>3 DEF Refilling, Opens
<1>2. floor <= floor'
  BY DEF TypeOK
<1>3. (\A c : Covered(c) => Covered(c)') /\ \A k, v, c : Fresh(k, v, c) => Fresh(k, v, c)'
  BY DEF Covered, Fresh, AsOf
<1>4. QED
  BY <1>1, <1>2, <1>3, Untouched

\* Appending a frame, whoever sends it.
LEMMA Grows ==
  ASSUME TypeOK, Flow, NEW f \in Frame, chan' = Append(chan, f),
         UNCHANGED <<log, floor, tasks, ops, failedWrites, rows, cursor>>,
         undelivered' \subseteq undelivered
  PROVE  /\ N \in Nat /\ N' = N + 1 /\ \A i \in {N + 1} : Item(i)' = OpOf(f)
         /\ \A i \in 1..N : i \in 1..N' /\ Item(i)' = Item(i)
         /\ \A i \in 1..N' : i = N + 1 \/ i \in 1..N
         /\ \A k \in Keys : \A j, n : n = N + 1 /\ Decides(j, k, n)' =>
              \/ j = n /\ Touches(OpOf(f), k) /\ Value(j, k)' = Outcome(OpOf(f))
              \/ /\ j \in 0..N /\ ~Touches(OpOf(f), k) /\ Decides(j, k, N)
                 /\ Value(j, k)' = Value(j, k) /\ Value(j, k) \in Nat
         /\ \A k, v, c : Fresh(k, v, c) => Fresh(k, v, c)'
         /\ \A c : Covered(c) => Covered(c)'
         /\ Available(cursor)' <=> Available(cursor)
         /\ (Wiping' <=> Wiping) /\ (Opens' <=> Opens)
<1>1. N \in Nat /\ N' = N + 1 /\ (\A i \in {N + 1} : Item(i)' = OpOf(f)) /\ \A i \in 1..N : Item(i)' = Item(i)
  BY Sent, ItemTypes
<1>2. (\A i \in 1..N : i \in 1..N') /\ \A i \in 1..N' : i = N + 1 \/ i \in 1..N
  BY <1>1
<1>3. ASSUME NEW k \in Keys, NEW j, NEW n, n = N + 1, Decides(j, k, n)'
      PROVE  \/ j = n /\ Touches(OpOf(f), k) /\ Value(j, k)' = Outcome(OpOf(f))
             \/ /\ j \in 0..N /\ ~Touches(OpOf(f), k) /\ Decides(j, k, N)
                /\ Value(j, k)' = Value(j, k) /\ Value(j, k) \in Nat
  <2>1. \/ j = n /\ Touches(OpOf(f), k) /\ Value(j, k)' = Outcome(OpOf(f))
        \/ /\ j \in 0..N /\ ~Touches(OpOf(f), k) /\ Decides(j, k, N) /\ Value(j, k)' = Value(j, k)
    BY <1>1, <1>3, DecidesSent
  <2>2. N \in 0..N
    BY <1>1
  <2>3. QED
    BY <2>1, <2>2, Decided
<1>4. (\A k, v, c : Fresh(k, v, c) => Fresh(k, v, c)') /\ \A c : Covered(c) => Covered(c)'
  BY DEF Fresh, AsOf, Covered
<1>5. /\ Available(cursor)' <=> Available(cursor)
      /\ (Wiping' <=> Wiping) /\ (Opens' <=> Opens)
  BY DEF Available, Wiping, Opens
<1>6. QED
  BY <1>1, <1>2, <1>3, <1>4, <1>5


\* A frame that writes a row is appended.
LEMMA WriteFrame ==
  ASSUME TypeOK, TypeOK', Flow, NEW x \in Keys, NEW v \in Nat, chan' = Append(chan, Action(x, v)),
         UNCHANGED <<log, floor, tasks, requests, ops, failedWrites, rows, cursor>>,
         undelivered' \subseteq undelivered,
         Available(cursor) => Fresh(x, v, cursor),
         \A i \in 1..N : Item(i).do = "cursor" => serving' = NotServing /\ Fresh(x, v, Item(i).id)
  PROVE  /\ Covered(cursor)' /\ \A i \in 1..N' : Item(i)'.do = "cursor" => Covered(Item(i).id)'
         /\ Asked' /\ ClaimAlone' /\ Shape' /\ Honest' /\ ClaimsHonest'
         /\ (NoReset' <=> NoReset)
<1> DEFINE f == Action(x, v)
<1>1. /\ f \in Frame /\ f.is = "action"
      /\ OpOf(f).do = "write" /\ OpOf(f).key = x /\ OpOf(f).val = v
  BY ValueTypes DEF Action, OpOf, WriteOp
<1>2. /\ N \in Nat /\ N' = N + 1
      /\ \A i \in {N + 1} : Item(i)'.do = "write" /\ Item(i)'.key = x /\ Item(i)'.val = v
      /\ \A i \in 1..N : i \in 1..N' /\ Item(i)' = Item(i)
      /\ \A i \in 1..N' : i = N + 1 \/ i \in 1..N
  BY <1>1, Grows
<1>3. /\ \A k, w, c : Fresh(k, w, c) => Fresh(k, w, c)'
      /\ \A c : Covered(c) => Covered(c)'
      /\ Available(cursor)' <=> Available(cursor)
      /\ (Wiping' <=> Wiping)
  BY <1>1, Grows
<1> HIDE DEF f
<1>4. NoReset' <=> NoReset
  <2>1. /\ Len(chan) \in Nat /\ Len(chan') = Len(chan) + 1
        /\ \A i \in 1..Len(chan') : chan'[i] = IF i = Len(chan) + 1 THEN f ELSE chan[i]
    BY DEF TypeOK, f
  <2>2. /\ \A i \in 1..Len(chan') : i = Len(chan) + 1 \/ i \in 1..Len(chan)
        /\ \A i \in 1..Len(chan) : i \in 1..Len(chan') /\ i # Len(chan) + 1
    BY <2>1
  <2>3. QED
    BY <1>1, <2>1, <2>2 DEF NoReset
<1>5. Covered(cursor)' /\ \A i \in 1..N' : Item(i)'.do = "cursor" => Covered(Item(i).id)'
  <2>1. ASSUME NEW i \in 1..N', Item(i)'.do = "cursor" PROVE Covered(Item(i).id)'
    <3>1. i \in 1..N /\ Item(i)' = Item(i)
      BY <1>2, <2>1
    <3>2. QED
      BY <1>3, <2>1, <3>1 DEF Flow, Rest, Positions
  <2>2. QED
    BY <1>3, <2>1 DEF Flow, Rest, Positions
<1>6. Asked'
  BY DEF Flow, Rest, Asked
<1>7. ClaimAlone'
  <2>1. SUFFICES ASSUME NEW i \in 1..N', Item(i)'.do = "cursor"
                 PROVE  (/\ requests = <<>> /\ serving = NotServing /\ NoReset
                         /\ \A t \in TaskIds : tasks[t].at \in {"idle", "flushing"}
                         /\ Item(i).id # 0 => \A t \in TaskIds : tasks[t] = Idle
                         /\ \A j \in 1..N : Item(j).do = "cursor" => j = i)'
    BY DEF ClaimAlone
  <2>2. i \in 1..N /\ Item(i)' = Item(i) /\ Item(i).do = "cursor"
    BY <1>2, <2>1
  <2>3. /\ requests = <<>> /\ serving' = NotServing /\ NoReset
        /\ \A t \in TaskIds : tasks[t].at \in {"idle", "flushing"}
        /\ Item(i).id # 0 => \A t \in TaskIds : tasks[t] = Idle
        /\ \A j \in 1..N : Item(j).do = "cursor" => j = i
    BY <2>2 DEF Flow, Rest, ClaimAlone
  <2>4. \A j \in 1..N' : Item(j)'.do = "cursor" => j \in 1..N /\ Item(j).do = "cursor"
    BY <1>2
  <2>5. QED
    BY <1>4, <2>2, <2>3, <2>4
<1>8. Shape'
  <2>1. SUFFICES ASSUME NEW i \in 2..N'
                 PROVE  (/\ Item(i).do = "wipe" => Item(i).left = Types
                         /\ Item(i).do = "flush" => Item(i - 1).do \in {"wipe", "cursor"}
                         /\ Item(i).do = "cursor" /\ Wiping => Item(i - 1).do = "wipe")'
    BY DEF Shape
  <2>2. CASE i = N + 1
    BY <1>2, <2>2
  <2>3. CASE i # N + 1
    <3>1. i \in 2..N /\ i \in 1..N /\ i - 1 \in 1..N
      BY <1>2, <2>3
    <3>2. Item(i)' = Item(i) /\ Item(i - 1)' = Item(i - 1)
      BY <1>2, <3>1
    <3>3. QED
      BY <1>3, <3>1, <3>2 DEF Flow, Rest, Shape
  <2>4. QED
    BY <2>2, <2>3
<1>9. Honest'
  <2>1. SUFFICES ASSUME Available(cursor)
                 PROVE  /\ \A k \in Keys : Fresh(k, rows[k], cursor)'
                        /\ \A i \in 1..N' : Item(i)'.do = "write" => Fresh(Item(i).key, Item(i).val, cursor)'
    BY <1>3 DEF Honest
  <2>2. \A k \in Keys : Fresh(k, rows[k], cursor)'
    BY <1>3, <2>1 DEF Flow, Rest, Honest
  <2>3. ASSUME NEW i \in 1..N', Item(i)'.do = "write"
        PROVE  Fresh(Item(i).key, Item(i).val, cursor)'
    <3>1. CASE i = N + 1
      BY <1>2, <1>3, <2>1, <3>1
    <3>2. CASE i \in 1..N
      BY <1>2, <1>3, <2>1, <2>3, <3>2 DEF Flow, Rest, Honest
    <3>3. QED
      BY <1>2, <3>1, <3>2
  <2>4. QED
    BY <2>2, <2>3
<1>10. ClaimsHonest'
  <2>1. SUFFICES ASSUME NEW i \in 1..N', Item(i)'.do = "cursor", Item(i)'.id # 0
        PROVE  /\ failedWrites \/ \A k \in Keys, j \in 0..N' : Decides(j, k, i - 1)' => Fresh(k, Value(j, k), Item(i).id)'
               /\ \A l \in (i + 1)..N' : Item(l)'.do = "write" => Fresh(Item(l).key, Item(l).val, Item(i).id)'
    BY DEF ClaimsHonest
  <2>2. /\ i \in 1..N /\ i - 1 \in 0..N /\ Item(i)' = Item(i) /\ Item(i).do = "cursor" /\ Item(i).id # 0
        /\ \A l \in (i + 1)..N' : l = N + 1 \/ (l \in (i + 1)..N /\ l \in 1..N)
    BY <1>2, <2>1
  <2>3. ASSUME NEW k \in Keys, NEW j \in 0..N', Decides(j, k, i - 1)'
        PROVE  j \in 0..N /\ Decides(j, k, i - 1) /\ Value(j, k)' = Value(j, k)
    <3>1. \A m \in 1..N : Item(m)' = Item(m)
      BY <1>2
    <3>2. j \in 0..(i - 1) /\ j \in 0..N
      BY <1>2, <2>2, <2>3 DEF Decides
    <3>3. QED
      BY <1>2, <2>2, <2>3, <3>1, <3>2, DecidesSame
  <2>4. ASSUME NEW l \in (i + 1)..N', Item(l)'.do = "write"
        PROVE  Fresh(Item(l).key, Item(l).val, Item(i).id)'
    <3>1. CASE l = N + 1
      BY <1>2, <1>3, <2>2, <3>1
    <3>2. CASE l \in (i + 1)..N /\ l \in 1..N
      BY <1>2, <1>3, <2>2, <2>4, <3>2 DEF Flow, Rest, ClaimsHonest
    <3>3. QED
      BY <2>2, <3>1, <3>2
  <2>5. ASSUME ~failedWrites, NEW k \in Keys, NEW j \in 0..N', Decides(j, k, i - 1)'
        PROVE  Fresh(k, Value(j, k), Item(i).id)'
    BY <1>3, <2>2, <2>3, <2>5 DEF Flow, Rest, ClaimsHonest
  <2>6. QED
    BY <2>4, <2>5
<1>11. QED
  BY <1>4, <1>5, <1>6, <1>7, <1>8, <1>9, <1>10


\* A live frame of a connection goes out.
LEMMA SentFlow ==
  ASSUME Gentle, TypeOK, TypeOK', Flow, NEW n \in undelivered,
         undelivered' = undelivered \ {n}, chan' = Append(chan, Action(log[n].key, Content(n))),
         UNCHANGED <<log, floor, conn, requests, serving, tasks, ops, failedWrites, rows, cursor>>
  PROVE  Rest'
<1>1. n \in 1..Len(log) /\ n \in Nat /\ Len(log) \in Nat
  BY DEF TypeOK
<1> PICK x \in Keys, v \in Nat : x = log[n].key /\ v = Content(n)
  BY <1>1, EntryAsOf
<1> DEFINE f == Action(x, v)
<1>2. \A c \in Nat : Covered(c) => Fresh(x, v, c)
  BY <1>1, EntryFresh DEF Covered
<1>3. /\ f \in Frame /\ OpOf(f).do = "write"
      /\ Outcome(OpOf(f)) = v /\ \A k : Touches(OpOf(f), k) <=> k = x
  BY <1>1, ValueTypes DEF Action, OpOf, WriteOp, Outcome, Touches
<1>4. chan' = Append(chan, f) /\ undelivered' \subseteq undelivered
  OBVIOUS
<1>5. /\ Lags(x, v)'
      /\ \A k, w : k # x /\ Lags(k, w) => Lags(k, w)'
  BY LagsLess DEF Flow
<1> HIDE DEF f
<1>6. /\ N \in Nat /\ N' = N + 1
      /\ \A i \in {N + 1} : Item(i)' = OpOf(f)
      /\ \A i \in 1..N : i \in 1..N' /\ Item(i)' = Item(i)
      /\ \A i \in 1..N' : i = N + 1 \/ i \in 1..N
  BY <1>3, <1>4, Grows
<1>7. \A k \in Keys : \A j, m : m = N + 1 /\ Decides(j, k, m)' =>
        \/ j = m /\ k = x /\ Value(j, k)' = v
        \/ /\ j \in 0..N /\ k # x /\ Decides(j, k, N)
           /\ Value(j, k)' = Value(j, k) /\ Value(j, k) \in Nat
  BY <1>3, <1>4, Grows
<1>8. /\ \A k, w, c : Fresh(k, w, c) => Fresh(k, w, c)'
      /\ \A c : Covered(c) => Covered(c)'
      /\ Available(cursor)' <=> Available(cursor)
      /\ (Wiping' <=> Wiping) /\ (Opens' <=> Opens)
  BY <1>3, <1>4, Grows
<1>9. /\ cursor \in Nat /\ \A i \in 1..N : Item(i).do = "cursor" => Item(i).id \in Nat
      /\ serving.for = "delta" => /\ serving.pos \in Nat /\ Len(serving.page) \in Nat
      /\ serving.for = "bootstrap" => serving.mark \in Nat
  <2>1. ASSUME NEW i \in 1..N, Item(i).do = "cursor" PROVE Item(i).id \in Nat
    BY <2>1, ItemTypes, OpType
  <2>2. serving \in Serving
    BY DEF TypeOK
  <2>3. QED
    BY <1>1, <2>1, <2>2, ServingType, SMTT(30) DEF TypeOK, Delta, Bootstrap
<1>10. /\ Available(cursor) => Fresh(x, v, cursor)
       /\ \A i \in 1..N : Item(i).do = "cursor" => serving' = NotServing /\ Fresh(x, v, Item(i).id)
  BY <1>2, <1>9 DEF Flow, Rest, Positions, ClaimAlone
<1>11. /\ Covered(cursor)' /\ \A i \in 1..N' : Item(i)'.do = "cursor" => Covered(Item(i).id)'
       /\ Asked' /\ ClaimAlone' /\ Shape' /\ Honest' /\ ClaimsHonest'
       /\ (NoReset' <=> NoReset)
  <2>1. x \in Keys /\ v \in Nat /\ chan' = Append(chan, Action(x, v))
    BY <1>1, <1>4 DEF f
  <2>2. QED
    BY <1>4, <1>10, <2>1, WriteFrame
<1>12. Positions'
  BY <1>8, <1>11 DEF Flow, Rest, Positions
<1>13. (Refilling' <=> Refilling) /\ Unusable'
  BY <1>8, <1>11 DEF Flow, Rest, Refilling, Unusable
<1>14. DeltaHonest'
  <2>1. SUFFICES ASSUME serving.for = "delta", ~failedWrites, NEW k \in Keys, NEW j \in 0..N', NEW m, m = N + 1,
                        Decides(j, k, m)'
                 PROVE  Fresh(k, Value(j, k), serving.pos)'
    BY <1>6 DEF DeltaHonest
  <2>2. Fresh(x, v, serving.pos)
    <3>1. Covered(serving.pos + Len(serving.page))
      BY <2>1 DEF Flow, Rest, Positions
    <3>2. /\ serving.pos \in Nat /\ Len(serving.page) \in Nat
          /\ \A z \in undelivered : z \in Nat
      BY <1>9, <2>1 DEF TypeOK
    <3>3. Covered(serving.pos)
      BY <1>1, <3>1, <3>2 DEF Covered
    <3>4. QED
      BY <1>2, <3>2, <3>3
  <2>3. QED
    BY <1>7, <1>8, <2>1, <2>2 DEF Flow, Rest, DeltaHonest
<1>15. BootHonest'
  <2>1. SUFFICES ASSUME serving.for = "bootstrap", serving.mark # 0
        PROVE  (/\ \A r \in serving.snap : Fresh(r[1], r[2], serving.mark)
                /\ \/ failedWrites
                   \/ \A k \in Keys, j \in 0..N : Decides(j, k, N) =>
                        \/ Fresh(k, Value(j, k), serving.mark)
                        \/ Value(j, k) = Absent /\ Pending(k))'
    BY DEF BootHonest
  <2>2. \A r \in serving.snap : Fresh(r[1], r[2], serving.mark)'
    BY <1>8, <2>1 DEF Flow, Rest, BootHonest
  <2>3. ASSUME ~failedWrites, NEW k \in Keys, NEW j \in 0..N', NEW m, m = N + 1, Decides(j, k, m)'
        PROVE  Fresh(k, Value(j, k), serving.mark)' \/ (Value(j, k)' = Absent /\ Pending(k)')
    <3>1. Fresh(x, v, serving.mark)
      BY <1>2, <1>9, <2>1 DEF Flow, Rest, Positions
    <3>2. Pending(k)' <=> Pending(k)
      BY DEF Pending
    <3>3. QED
      BY <1>7, <1>8, <2>1, <2>3, <3>1, <3>2 DEF Flow, Rest, BootHonest
  <2>4. QED
    BY <1>6, <2>2, <2>3
<1>16. Opening'
  <2>1. SUFFICES ASSUME conn, Opens, NEW k \in Keys, NEW j \in 1..N', NEW m, m = N + 1, Decides(j, k, m)'
                 PROVE  Lags(k, Value(j, k))'
    BY <1>6, <1>8 DEF Opening
  <2>2. CASE j = m /\ k = x /\ Value(j, k)' = v
    BY <1>5, <2>2
  <2>3. CASE /\ j \in 0..N /\ k # x /\ Decides(j, k, N)
             /\ Value(j, k)' = Value(j, k) /\ Value(j, k) \in Nat
    <3>1. j \in 1..N
      BY <1>6, <2>1, <2>3
    <3>2. QED
      BY <1>5, <2>1, <2>3, <3>1 DEF Flow, Rest, Opening
  <2>4. QED
    BY <1>7, <2>1, <2>2, <2>3
<1>17. Emptied'
  <2>1. Plain => Plain'
    BY <1>3, <1>6 DEF Plain
  <2>2. SUFFICES ASSUME conn, Refilling, ~(failedWrites /\ Plain), NEW k \in Keys, NEW j \in 0..N',
                        NEW m, m = N + 1, Decides(j, k, m)'
                 PROVE  Value(j, k)' = Absent \/ Lags(k, Value(j, k))'
    BY <1>6, <1>13, <2>1 DEF Emptied
  <2>3. QED
    BY <1>5, <1>7, <2>2 DEF Flow, Rest, Emptied
<1>18. QED
  BY <1>11, <1>12, <1>13, <1>14, <1>15, <1>16, <1>17 DEF Rest

LEMMA LiveFlow ==
  ASSUME Gentle, TypeOK, TypeOK', Phases, Flow, NEW n \in undelivered, DeliverLive(n)
  PROVE  Rest'
<1>1. undelivered' = undelivered \ {n} /\ UNCHANGED <<log, floor, tasks, ops, failedWrites, rows, cursor>>
  BY DEF DeliverLive, idbVars
<1>2. CASE chan' = Append(chan, Action(log[n].key, Content(n))) /\ UNCHANGED <<conn, requests, serving>>
  BY <1>1, <1>2, SentFlow
<1>3. CASE /\ ~conn \/ (Len(chan) >= ChanCap /\ CatchingUp)
           /\ "drop" \in Races \/ serving.for # "watermark"
           /\ UNCHANGED linkVars
  <2>1. ~conn \/ (CatchingUp /\ serving.for # "watermark")
    BY <1>3 DEF Gentle
  <2>2. QED
    BY <1>1, <1>3, <2>1, DroppedFlow DEF linkVars
<1>4. CASE CloseLink
  BY <1>1, <1>4, ClosingFlow
<1>5. QED
  BY <1>2, <1>3, <1>4 DEF DeliverLive


-----------------------------------------------------------------------------
(***************************************************************************)
(* The streams of the server.                                              *)
(***************************************************************************)
LEMMA Streaming ==
  ASSUME TypeOK, Phases, Flow, serving # NotServing
  PROVE  /\ conn /\ requests = <<>> /\ NoReset /\ \A t \in TaskIds : tasks[t] = Idle
         /\ \A i \in 1..N : Item(i).do = "write"
         /\ ~Wiping /\ ~Opens
         /\ UNCHANGED <<tasks, requests>> /\ NoReset' /\ serving'.for # "watermark" => ~Refilling' /\ ~Opens'
<1>1. conn /\ requests = <<>> /\ NoReset /\ \A t \in TaskIds : tasks[t] = Idle
  BY Token
<1>2. Idle.at \notin {"reading", "decide", "flushing", "acked"} /\ Idle # [at |-> "flushing"] /\ Len(requests) = 0
  BY <1>1 DEF Idle
<1>3. Plain
  BY <1>1, <1>2, AllPlain DEF Flow, Rest
<1>4. ~Wiping /\ ~Opens
  BY <1>1, <1>2 DEF Wiping, Opens
<1>5. ASSUME UNCHANGED <<tasks, requests>>, NoReset', serving'.for # "watermark"
      PROVE  ~Refilling' /\ ~Opens'
  BY <1>1, <1>2, <1>5 DEF Refilling, Opens
<1>6. QED
  BY <1>1, <1>3, <1>4, <1>5 DEF Plain

LEMMA EntryFlow ==
  ASSUME TypeOK, TypeOK', Phases, Flow, SendEntry
  PROVE  Rest'
<1>1. /\ serving.for = "delta" /\ serving.page # <<>>
      /\ chan' = Append(chan, Action(log[Head(serving.page)].key, Content(Head(serving.page))))
      /\ serving' = [serving EXCEPT !.page = Tail(serving.page), !.pos = Head(serving.page)]
      /\ UNCHANGED <<log, floor, undelivered, conn, requests, tasks, ops, failedWrites, rows, cursor>>
  BY DEF SendEntry, Send, ServerStep, serverVars, idbVars
<1>2. serving \in Delta /\ serving.pos \in Nat /\ serving.page \in Seq(1..Len(log)) /\ Len(log) \in Nat
  <2>1. serving \in Serving /\ Len(log) \in Nat
    BY DEF TypeOK
  <2>2. serving \in Delta
    BY <1>1, <2>1, ServingType
  <2>3. QED
    BY <2>1, <2>2 DEF Delta
<1> PICK n \in 1..Len(log), c \in Nat : n = Head(serving.page) /\ c = serving.pos
  BY <1>1, <1>2
<1> PICK x \in Keys, v \in Nat : x = log[n].key /\ v = Content(n)
  BY EntryAsOf
<1>3. /\ n = c + 1 /\ n \in Nat
      /\ Len(Tail(serving.page)) \in Nat /\ Len(serving.page) = Len(Tail(serving.page)) + 1
      /\ \A i \in 1..Len(Tail(serving.page)) : Tail(serving.page)[i] = n + i
  <2>1. /\ Len(serving.page) \in Nat /\ Len(Tail(serving.page)) \in Nat
        /\ Len(serving.page) = Len(Tail(serving.page)) + 1 /\ Head(serving.page) = serving.page[1]
        /\ \A i \in 1..Len(Tail(serving.page)) : i + 1 \in 1..Len(serving.page) /\ Tail(serving.page)[i] = serving.page[i + 1]
    BY <1>1, <1>2, TailOf
  <2>2. \A i \in 1..Len(serving.page) : serving.page[i] = c + i
    BY <1>1 DEF Flow, Rest, Positions
  <2>3. 1 \in 1..Len(serving.page)
    BY <2>1
  <2>4. n = c + 1
    BY <2>1, <2>2, <2>3
  <2>5. ASSUME NEW i \in 1..Len(Tail(serving.page)) PROVE Tail(serving.page)[i] = n + i
    <3>1. Tail(serving.page)[i] = serving.page[i + 1] /\ i + 1 \in 1..Len(serving.page) /\ i \in Nat
      BY <2>1
    <3>2. serving.page[i + 1] = c + (i + 1)
      BY <2>2, <3>1
    <3>3. c \in Nat /\ c + (i + 1) = (c + 1) + i
      BY <3>1
    <3>4. QED
      BY <2>4, <3>1, <3>2, <3>3
  <2>6. QED
    BY <2>1, <2>4, <2>5
<1>4. /\ serving'.for = "delta" /\ serving'.pos = n /\ serving'.page = Tail(serving.page)
      /\ serving # NotServing
  BY <1>1, <1>2 DEF Delta, NotServing
<1>5. /\ conn /\ NoReset /\ (\A i \in 1..N : Item(i).do = "write")
      /\ (NoReset' => ~Refilling' /\ ~Opens')
  BY <1>1, <1>4, Streaming
<1> DEFINE f == Action(x, v)
<1>6. /\ f \in Frame /\ OpOf(f).do = "write"
      /\ Outcome(OpOf(f)) = v /\ \A k : Touches(OpOf(f), k) <=> k = x
  BY ValueTypes DEF Action, OpOf, WriteOp, Outcome, Touches
<1>7. chan' = Append(chan, f) /\ undelivered' \subseteq undelivered
  BY <1>1
<1> HIDE DEF f
<1>8. /\ N \in Nat /\ N' = N + 1
      /\ \A k \in Keys : \A j, m : m = N + 1 /\ Decides(j, k, m)' =>
        \/ j = m /\ k = x /\ Value(j, k)' = v
        \/ /\ j \in 0..N /\ k # x /\ Decides(j, k, N)
           /\ Value(j, k)' = Value(j, k) /\ Value(j, k) \in Nat
  BY <1>1, <1>6, <1>7, Grows
<1>9. /\ \A k, w, d : Fresh(k, w, d) => Fresh(k, w, d)'
      /\ \A d : Covered(d) => Covered(d)'
  BY <1>1, <1>6, <1>7, Grows
<1>10. cursor \in Nat /\ cursor <= n /\ Fresh(x, v, cursor) /\ Fresh(x, v, n)
  <2>1. cursor \in Nat /\ cursor <= c
    BY <1>1 DEF Flow, Rest, Positions, TypeOK
  <2>2. QED
    BY <1>3, <2>1, EntryFresh
<1>11. /\ Covered(cursor)' /\ \A i \in 1..N' : Item(i)'.do = "cursor" => Covered(Item(i).id)'
       /\ Asked' /\ ClaimAlone' /\ Shape' /\ Honest' /\ ClaimsHonest'
       /\ (NoReset' <=> NoReset)
  <2>1. chan' = Append(chan, Action(x, v))
    BY <1>7 DEF f
  <2>2. QED
    BY <1>1, <1>5, <1>7, <1>10, <2>1, WriteFrame, SMTT(30)
<1>12. Positions'
  <2>1. floor < c /\ floor \in Nat /\ Covered(c + Len(serving.page))
    BY <1>1 DEF Flow, Rest, Positions, TypeOK
  <2>2. n + Len(Tail(serving.page)) = c + Len(serving.page)
    BY <1>3
  <2>3. PICK d \in Nat : d = c + Len(serving.page)
    BY <1>3
  <2>4. Covered(d)' /\ d = n + Len(serving'.page)
    BY <1>3, <1>4, <1>9, <2>1, <2>2, <2>3
  <2>5. floor' < n /\ cursor' <= n
    BY <1>1, <1>3, <1>10, <2>1
  <2>6. Covered(serving.pos + Len(serving.page))'
    BY <1>4, <2>4
  <2>7. \A i \in 1..Len(serving'.page) : serving'.page[i] = serving'.pos + i
    BY <1>3, <1>4
  <2>8. QED
    BY <1>4, <1>11, <2>5, <2>6, <2>7 DEF Positions
<1>13. ~Refilling' /\ ~Opens'
  BY <1>5, <1>11
<1>14. Unusable' /\ BootHonest' /\ Opening' /\ Emptied'
  BY <1>4, <1>13 DEF Unusable, BootHonest, Opening, Emptied
<1>15. DeltaHonest'
  <2>1. SUFFICES ASSUME ~failedWrites, NEW k \in Keys, NEW j \in 0..N', NEW m, m = N + 1, Decides(j, k, m)'
                 PROVE  Fresh(k, Value(j, k), n)'
    BY <1>1, <1>4, <1>8 DEF DeltaHonest
  <2>2. CASE j = m /\ k = x /\ Value(j, k)' = v
    BY <1>9, <1>10, <2>2
  <2>3. CASE /\ j \in 0..N /\ k # x /\ Decides(j, k, N)
             /\ Value(j, k)' = Value(j, k) /\ Value(j, k) \in Nat
    <3>1. Fresh(k, Value(j, k), c)
      BY <1>1, <2>1, <2>3 DEF Flow, Rest, DeltaHonest
    <3>2. Fresh(k, Value(j, k), n)
      BY <1>3, <2>3, <3>1, FreshStep
    <3>3. QED
      BY <1>9, <2>3, <3>2
  <2>4. QED
    BY <1>8, <2>1, <2>2, <2>3
<1>16. QED
  BY <1>11, <1>12, <1>14, <1>15 DEF Rest


\* A row of the bootstrap goes out.
LEMMA RowFlow ==
  ASSUME TypeOK, TypeOK', Phases, Flow, SendRow
  PROVE  Rest'
<1> PICK r \in serving.snap : /\ chan' = Append(chan, Action(r[1], r[2]))
                              /\ serving' = [serving EXCEPT !.snap = @ \ {r}]
  BY DEF SendRow, Send
<1>1. /\ serving.for = "bootstrap" /\ serving.unread = {}
      /\ UNCHANGED <<log, floor, undelivered, conn, requests, tasks, ops, failedWrites, rows, cursor>>
  BY DEF SendRow, ServerStep, serverVars, idbVars
<1>2. serving \in Bootstrap
  <2>1. serving \in Serving
    BY DEF TypeOK
  <2>2. QED
    BY <1>1, <2>1, ServingType
<1>3. /\ serving'.for = "bootstrap" /\ serving'.mark = serving.mark /\ serving'.mark \in Nat
      /\ serving'.snap = serving.snap \ {r} /\ serving'.unread = {}
      /\ serving # NotServing /\ r \in Keys \X Nat
  BY <1>1, <1>2 DEF Bootstrap, NotServing
<1> PICK x \in Keys, v \in Nat : x = r[1] /\ v = r[2]
  BY <1>3
<1>4. conn /\ NoReset /\ (\A i \in 1..N : Item(i).do = "write") /\ (NoReset' => ~Refilling' /\ ~Opens')
  BY <1>1, <1>3, Streaming
<1>5. ~Available(cursor)
  BY <1>1 DEF Flow, Rest, Unusable
<1> DEFINE f == Action(x, v)
<1>6. /\ f \in Frame /\ OpOf(f).do = "write"
      /\ Outcome(OpOf(f)) = v /\ \A k : Touches(OpOf(f), k) <=> k = x
  BY ValueTypes DEF Action, OpOf, WriteOp, Outcome, Touches
<1>7. chan' = Append(chan, f) /\ undelivered' \subseteq undelivered
  BY <1>1
<1> HIDE DEF f
<1>8. /\ N \in Nat /\ N' = N + 1
      /\ \A k \in Keys : \A j, m : m = N + 1 /\ Decides(j, k, m)' =>
        \/ j = m /\ k = x /\ Value(j, k)' = v
        \/ /\ j \in 0..N /\ k # x /\ Decides(j, k, N)
           /\ Value(j, k)' = Value(j, k) /\ Value(j, k) \in Nat
  BY <1>1, <1>6, <1>7, Grows
<1>9. /\ \A k, w, d : Fresh(k, w, d) => Fresh(k, w, d)'
      /\ \A d : Covered(d) => Covered(d)'
      /\ Available(cursor)' <=> Available(cursor)
  BY <1>1, <1>6, <1>7, Grows
<1>10. /\ Covered(cursor)' /\ \A i \in 1..N' : Item(i)'.do = "cursor" => Covered(Item(i).id)'
       /\ Asked' /\ ClaimAlone' /\ Shape' /\ Honest' /\ ClaimsHonest'
       /\ (NoReset' <=> NoReset)
  <2>1. chan' = Append(chan, Action(x, v))
    BY <1>7 DEF f
  <2>2. QED
    BY <1>1, <1>4, <1>5, <1>7, <2>1, WriteFrame
<1>11. Positions'
  BY <1>1, <1>3, <1>9, <1>10 DEF Flow, Rest, Positions
<1>12. ~Refilling' /\ ~Opens'
  BY <1>4, <1>10
<1>13. Unusable' /\ DeltaHonest' /\ Opening' /\ Emptied'
  BY <1>3, <1>5, <1>9, <1>12 DEF Unusable, DeltaHonest, Opening, Emptied
<1>14. BootHonest'
  <2>1. SUFFICES ASSUME serving.mark # 0
                 PROVE  /\ \A q \in serving'.snap : Fresh(q[1], q[2], serving.mark)'
                        /\ \/ failedWrites
                           \/ \A k \in Keys, j \in 0..N' : \A m : m = N + 1 /\ Decides(j, k, m)' =>
                                \/ Fresh(k, Value(j, k), serving.mark)'
                                \/ Value(j, k)' = Absent /\ Pending(k)'
    BY <1>1, <1>3, <1>8 DEF BootHonest
  <2>2. \A q \in serving.snap : Fresh(q[1], q[2], serving.mark)
    BY <1>1, <2>1 DEF Flow, Rest, BootHonest
  <2>3. Fresh(x, v, serving.mark)' /\ \A q \in serving'.snap : Fresh(q[1], q[2], serving.mark)'
    BY <1>3, <1>9, <2>2
  <2>4. ASSUME ~failedWrites, NEW k \in Keys, NEW j \in 0..N', NEW m, m = N + 1, Decides(j, k, m)'
        PROVE  Fresh(k, Value(j, k), serving.mark)' \/ (Value(j, k)' = Absent /\ Pending(k)')
    <3>1. CASE j = m /\ k = x /\ Value(j, k)' = v
      BY <1>3, <2>3, <3>1
    <3>2. CASE /\ j \in 0..N /\ k # x /\ Decides(j, k, N)
               /\ Value(j, k)' = Value(j, k) /\ Value(j, k) \in Nat
      <4>1. Pending(k) => Pending(k)'
        BY <1>1, <1>3, <3>2 DEF Pending
      <4>2. Fresh(k, Value(j, k), serving.mark) \/ (Value(j, k) = Absent /\ Pending(k))
        BY <1>1, <2>1, <2>4, <3>2 DEF Flow, Rest, BootHonest
      <4>3. QED
        BY <1>3, <1>9, <3>2, <4>1, <4>2
    <3>3. QED
      BY <1>8, <2>4, <3>1, <3>2
  <2>5. QED
    BY <1>3, <2>3, <2>4
<1>15. QED
  BY <1>10, <1>11, <1>13, <1>14 DEF Rest

\* A stream ends, and with it goes its claim.
LEMMA ClaimFrame ==
  ASSUME TypeOK, TypeOK', Phases, Flow, serving # NotServing, serving' = NotServing,
         NEW c \in Nat, Covered(c), chan' = Append(chan, Complete(c)),
         UNCHANGED <<log, floor, undelivered, conn, requests, tasks, ops, failedWrites, rows, cursor>>,
         c # 0 => failedWrites \/ \A k \in Keys, j \in 0..N : Decides(j, k, N) => Fresh(k, Value(j, k), c)
  PROVE  Rest'
<1> DEFINE f == Complete(c)
<1>1. /\ f \in Frame /\ f.is = "complete" /\ OpOf(f).do = "cursor" /\ OpOf(f).id = c
  BY ValueTypes DEF Complete, OpOf, CursorOp
<1>2. /\ NotServing.for \notin {"delta", "bootstrap", "reset", "watermark"} /\ chan' = Append(chan, f)
      /\ undelivered' \subseteq undelivered
  BY DEF NotServing
<1> HIDE DEF f
<1>3. /\ NoReset /\ requests = <<>> /\ (\A t \in TaskIds : tasks[t] = Idle)
      /\ \A i \in 1..N : Item(i).do = "write"
      /\ ~Wiping /\ ~Opens /\ (NoReset' => ~Refilling' /\ ~Opens')
  BY <1>2, Streaming
<1>4. /\ N \in Nat /\ N' = N + 1
      /\ \A i \in {N + 1} : Item(i)'.do = "cursor" /\ Item(i)'.id = c
      /\ \A i \in 1..N : i \in 1..N' /\ Item(i)' = Item(i)
      /\ \A i \in 1..N' : i = N + 1 \/ i \in 1..N
  BY <1>1, <1>2, Grows
<1>5. /\ \A k, w, d : Fresh(k, w, d) => Fresh(k, w, d)'
      /\ \A d : Covered(d) => Covered(d)'
      /\ Available(cursor)' <=> Available(cursor)
      /\ (Wiping' <=> Wiping)
  BY <1>1, <1>2, Grows
<1>6. NoReset'
  <2>1. /\ Len(chan) \in Nat /\ Len(chan') = Len(chan) + 1
        /\ \A i \in 1..Len(chan') : chan'[i] = IF i = Len(chan) + 1 THEN f ELSE chan[i]
    BY <1>2 DEF TypeOK
  <2>2. \A i \in 1..Len(chan') : i = Len(chan) + 1 \/ i \in 1..Len(chan)
    BY <2>1
  <2>3. QED
    BY <1>1, <1>3, <2>1, <2>2 DEF NoReset
<1>7. Positions'
  <2>1. \A i \in 1..N' : Item(i)'.do = "cursor" => Covered(Item(i).id)'
    BY <1>3, <1>4, <1>5
  <2>2. Covered(cursor)'
    BY <1>5 DEF Flow, Rest, Positions
  <2>3. QED
    BY <1>2, <2>1, <2>2 DEF Positions
<1>8. Asked' /\ ~Refilling' /\ ~Opens'
  BY <1>3, <1>6 DEF Flow, Rest, Asked
<1>9. Unusable' /\ DeltaHonest' /\ BootHonest' /\ Opening' /\ Emptied'
  BY <1>2, <1>8 DEF Unusable, DeltaHonest, BootHonest, Opening, Emptied
<1>10. ClaimAlone'
  <2>1. \A i \in 1..N' : Item(i)'.do = "cursor" => i = N + 1
    BY <1>3, <1>4
  <2>2. Idle.at = "idle"
    BY DEF Idle
  <2>3. QED
    BY <1>3, <1>6, <2>1, <2>2 DEF ClaimAlone
<1>11. Shape'
  <2>1. \A i \in 2..N' : i \in 1..N' /\ (Item(i)'.do = "write" \/ Item(i)'.do = "cursor")
    BY <1>3, <1>4
  <2>2. QED
    BY <1>3, <1>5, <2>1 DEF Shape
<1>12. Honest'
  <2>1. \A i \in 1..N' : Item(i)'.do = "write" => i \in 1..N /\ Item(i)' = Item(i)
    BY <1>4
  <2>2. QED
    BY <1>5, <2>1 DEF Flow, Rest, Honest
<1>13. ClaimsHonest'
  <2>1. SUFFICES ASSUME NEW i \in 1..N', Item(i)'.do = "cursor", Item(i)'.id # 0
        PROVE  /\ failedWrites \/ \A k \in Keys, j \in 0..N' : Decides(j, k, i - 1)' => Fresh(k, Value(j, k), Item(i).id)'
               /\ \A l \in (i + 1)..N' : Item(l)'.do = "write" => Fresh(Item(l).key, Item(l).val, Item(i).id)'
    BY DEF ClaimsHonest
  <2>2. i = N + 1 /\ i - 1 = N /\ Item(i)'.id = c /\ c # 0 /\ \A l \in (i + 1)..N' : FALSE
    BY <1>3, <1>4, <2>1
  <2>3. ASSUME NEW k, NEW j, Decides(j, k, i - 1)'
        PROVE  j \in 0..N /\ Decides(j, k, N) /\ Value(j, k)' = Value(j, k)
    <3>1. \A l \in 1..N : Item(l)' = Item(l)
      BY <1>4
    <3>2. N \in 0..N /\ j \in 0..(i - 1)
      BY <1>4, <2>3 DEF Decides
    <3>3. j \in 0..N /\ i - 1 \in 0..N
      BY <2>2, <3>2
    <3>4. Decides(j, k, i - 1) /\ Value(j, k)' = Value(j, k)
      BY <1>4, <2>3, <3>1, <3>2, <3>3, DecidesSame
    <3>5. QED
      BY <2>2, <3>3, <3>4
  <2>4. QED
    BY <1>5, <2>2, <2>3
<1>14. QED
  BY <1>7, <1>8, <1>9, <1>10, <1>11, <1>12, <1>13 DEF Rest

LEMMA FinishFlow ==
  ASSUME TypeOK, TypeOK', Phases, Flow, FinishDelta \/ FinishBootstrap
  PROVE  Rest'
<1>1. /\ serving' = NotServing
      /\ UNCHANGED <<log, floor, undelivered, conn, requests, tasks, ops, failedWrites, rows, cursor>>
  BY DEF FinishDelta, FinishBootstrap, ServerStep, serverVars, idbVars
<1>2. serving \in Serving /\ Len(log) \in Nat
  BY DEF TypeOK
<1>3. CASE FinishDelta
  <2>1. serving.for = "delta" /\ serving.page = <<>> /\ chan' = Append(chan, Complete(serving.pos))
    BY <1>3 DEF FinishDelta, Send
  <2>2. serving.pos \in Nat /\ serving # NotServing /\ serving.pos + Len(serving.page) = serving.pos
    BY <1>2, <2>1, ServingType DEF Delta, NotServing
  <2>3. Covered(serving.pos)
    BY <2>1, <2>2 DEF Flow, Rest, Positions
  <2>4. failedWrites \/ \A k \in Keys, j \in 0..N : Decides(j, k, N) => Fresh(k, Value(j, k), serving.pos)
    BY <2>1 DEF Flow, Rest, DeltaHonest
  <2>5. QED
    BY <1>1, <2>1, <2>2, <2>3, <2>4, ClaimFrame
<1>4. CASE FinishBootstrap
  <2>1. serving.for = "bootstrap" /\ serving.unread = {} /\ serving.snap = {}
        /\ chan' = Append(chan, Complete(serving.mark))
    BY <1>4 DEF FinishBootstrap, Send
  <2>2. serving.mark \in Nat /\ serving # NotServing
    BY <1>2, <2>1, ServingType DEF Bootstrap, NotServing
  <2>3. Covered(serving.mark) /\ \A k : ~Pending(k)
    BY <2>1 DEF Flow, Rest, Positions, Pending
  <2>4. serving.mark # 0 => failedWrites \/ \A k \in Keys, j \in 0..N :
          Decides(j, k, N) => Fresh(k, Value(j, k), serving.mark)
    BY <2>1, <2>3 DEF Flow, Rest, BootHonest
  <2>5. QED
    BY <1>1, <2>1, <2>2, <2>3, <2>4, ClaimFrame
<1>5. QED
  BY <1>3, <1>4

\* A cursor that is not in the log any more is answered with a reset.
LEMMA ResetFlow ==
  ASSUME TypeOK, TypeOK', Phases, Flow, SendReset
  PROVE  Rest'
<1> DEFINE f == Reset
<1>1. /\ serving.for = "reset" /\ serving' = NotServing /\ chan' = Append(chan, f)
      /\ UNCHANGED <<log, floor, undelivered, conn, requests, tasks, ops, failedWrites, rows, cursor>>
  BY DEF SendReset, Send, ServerStep, serverVars, idbVars
<1>2. /\ NotServing.for \notin {"delta", "bootstrap", "reset", "watermark"} /\ serving # NotServing
      /\ undelivered' \subseteq undelivered
  BY <1>1 DEF NotServing
<1>3. /\ f \in Frame /\ OpOf(f).do = "wipe" /\ OpOf(f).left = Types
      /\ Outcome(OpOf(f)) = Absent /\ \A k \in Keys : Touches(OpOf(f), k)
  BY ValueTypes, SyncEngineAssumption DEF Reset, OpOf, WipeOp, Outcome, Touches
<1> HIDE DEF f
<1>4. ~Available(cursor)
  BY <1>1 DEF Flow, Rest, Unusable
<1>5. ~Opens /\ \A i \in 1..N : Item(i).do = "write"
  BY <1>2, Streaming
<1>6. /\ N \in Nat /\ N' = N + 1
      /\ \A i \in {N + 1} : Item(i)'.do = "wipe" /\ Item(i)'.left = Types
      /\ \A i \in 1..N : i \in 1..N' /\ Item(i)' = Item(i)
      /\ \A i \in 1..N' : i = N + 1 \/ i \in 1..N
  BY <1>1, <1>2, <1>3, Grows
<1>7. /\ \A k \in Keys : \A j, m : m = N + 1 /\ Decides(j, k, m)' => Value(j, k)' = Absent
      /\ \A d : Covered(d) => Covered(d)'
      /\ Available(cursor)' <=> Available(cursor)
      /\ (Opens' <=> Opens)
  BY <1>1, <1>2, <1>3, Grows
<1>8. \A i \in 1..N' : Item(i)'.do = "write" \/ (Item(i)'.do = "wipe" /\ Item(i)'.left = Types)
  BY <1>5, <1>6
<1>9. Positions'
  BY <1>1, <1>2, <1>7, <1>8 DEF Flow, Rest, Positions
<1>10. Asked' /\ ClaimAlone' /\ ClaimsHonest'
  BY <1>1, <1>8 DEF Flow, Rest, Asked, ClaimAlone, ClaimsHonest
<1>11. Shape'
  <2>1. \A i \in 2..N' : i \in 1..N'
    OBVIOUS
  <2>2. QED
    BY <1>8, <2>1 DEF Shape
<1>12. Unusable' /\ Honest' /\ Opening' /\ DeltaHonest' /\ BootHonest'
  BY <1>1, <1>2, <1>4, <1>5, <1>7 DEF Unusable, Honest, Opening, DeltaHonest, BootHonest
<1>13. Emptied'
  BY <1>6, <1>7 DEF Emptied
<1>14. QED
  BY <1>9, <1>10, <1>11, <1>12, <1>13 DEF Rest


-----------------------------------------------------------------------------
(***************************************************************************)
(* What the server does between two frames.                                *)
(***************************************************************************)
LEMMA Serves ==
  ASSUME TypeOK, Phases, Flow, serving # NotServing \/ requests # <<>>, requests' = <<>>,
         UNCHANGED <<log, floor, undelivered, conn, chan, tasks, ops, failedWrites, rows, cursor>>,
         serving'.for = "watermark" => Refilling
  PROVE  /\ conn /\ NoReset /\ Plain
         /\ Covered(cursor)' /\ \A i \in 1..N' : Item(i)'.do = "cursor" => Covered(Item(i).id)'
         /\ Asked' /\ ClaimAlone' /\ Shape' /\ Honest' /\ ClaimsHonest' /\ Opening' /\ Emptied'
         /\ Refilling' => Refilling /\ serving'.for = "watermark"
         /\ N \in Nat /\ N' = N
         /\ \A k \in Keys, j \in 0..N : Decides(j, k, N)' =>
              Decides(j, k, N) /\ Value(j, k)' = Value(j, k) /\ Value(j, k) \in Nat
         /\ \A k, v, c : Fresh(k, v, c)' <=> Fresh(k, v, c)
         /\ \A c : Covered(c)' <=> Covered(c)
         /\ Available(cursor)' <=> Available(cursor)
<1>1. conn /\ NoReset /\ NoReset' /\ (\A t \in TaskIds : tasks[t] = Idle) /\ Len(requests') = 0
  BY Token DEF NoReset
<1>2. /\ Idle.at = "idle" /\ Idle # [at |-> "flushing"]
      /\ \A t \in TaskIds : tasks[t].at = "idle" /\ tasks[t] # [at |-> "flushing"]
  BY <1>1 DEF Idle
<1>3. Plain
  BY <1>1, <1>2, AllPlain DEF Flow, Rest
<1>4. N \in Nat /\ N' = N /\ \A i : Item(i)' = Item(i)
  BY Standing, ItemTypes
<1>5. /\ \A k, v, c : Fresh(k, v, c)' <=> Fresh(k, v, c)
      /\ \A k, v : Lags(k, v)' <=> Lags(k, v)
      /\ \A c : Covered(c)' <=> Covered(c)
      /\ Available(cursor)' <=> Available(cursor)
  BY DEF Fresh, Lags, AsOf, Covered, Available
<1>6. Refilling' => Refilling /\ serving'.for = "watermark"
  BY <1>1, <1>2 DEF Refilling
<1>7. Shape' /\ Honest' /\ ClaimsHonest' /\ Opening' /\ Emptied'
  <2>1. (Wiping' <=> Wiping) /\ (Opens' <=> Opens)
    BY DEF Wiping, Opens
  <2>2. QED
    BY <1>4, <1>5, <1>6, <2>1, Keeps DEF Flow, Rest
<1>8. Asked'
  BY <1>1, <1>2 DEF Asked
<1>9. ClaimAlone' /\ Covered(cursor)' /\ \A i \in 1..N' : Item(i)'.do = "cursor" => Covered(Item(i).id)'
  BY <1>3, <1>4, <1>5 DEF Plain, ClaimAlone, Flow, Rest, Positions
<1>10. \A k \in Keys, j \in 0..N : Decides(j, k, N)' =>
         Decides(j, k, N) /\ Value(j, k)' = Value(j, k) /\ Value(j, k) \in Nat
  BY <1>4, DecidesSame, Decided
<1>11. QED
  BY <1>1, <1>3, <1>4, <1>5, <1>6, <1>7, <1>8, <1>9, <1>10

\* A request is taken up: a delta starts at the cursor the tab has on disk.
LEMMA StartFlow ==
  ASSUME Gentle, TypeOK, TypeOK', Phases, Flow, StartDelta \/ StartBootstrap
  PROVE  Rest'
<1>1. /\ requests # <<>> /\ requests' = Tail(requests)
      /\ UNCHANGED <<log, floor, undelivered, conn, chan, tasks, ops, failedWrites, rows, cursor>>
  BY DEF StartDelta, StartBootstrap, ServerStep, serverVars, idbVars
<1>2. requests' = <<>> /\ Len(requests) = 1 /\ Head(requests) = requests[1]
  <2>1. Len(requests) = 1
    BY <1>1, Token
  <2>2. Len(Tail(requests)) = 0 /\ Tail(requests) \in Seq(Request) /\ Head(requests) = requests[1]
    BY <1>1, <2>1 DEF TypeOK
  <2>3. QED
    BY <1>1, <2>1, <2>2
<1>3. CASE StartDelta
  <2>1. /\ Head(requests).ask = "delta"
        /\ serving'.for \in {"delta", "reset"}
        /\ serving'.for = "delta" => /\ Available(requests[1].from) /\ serving'.pos = requests[1].from
                                     /\ serving'.page = <<>>
        /\ serving'.for = "reset" => ~Available(requests[1].from)
    BY <1>2, <1>3 DEF StartDelta, Gentle
  <2>2. requests[1].from = cursor /\ cursor \in Nat
    BY <1>2, <2>1 DEF Flow, Rest, Asked, TypeOK
  <2>3. /\ Plain
        /\ Covered(cursor)' /\ \A i \in 1..N' : Item(i)'.do = "cursor" => Covered(Item(i).id)'
        /\ Asked' /\ ClaimAlone' /\ Shape' /\ Honest' /\ ClaimsHonest' /\ Opening' /\ Emptied'
        /\ ~Refilling'
    BY <1>1, <1>2, <2>1, Serves
  <2>4. /\ N \in Nat /\ N' = N
        /\ \A k \in Keys, j \in 0..N : Decides(j, k, N)' =>
             Decides(j, k, N) /\ Value(j, k)' = Value(j, k) /\ Value(j, k) \in Nat
        /\ \A k, v, c : Fresh(k, v, c)' <=> Fresh(k, v, c)
        /\ \A c : Covered(c)' <=> Covered(c)
        /\ Available(cursor)' <=> Available(cursor)
    BY <1>1, <1>2, <2>1, Serves
  <2>5. Positions'
    <3>1. serving'.for = "delta" => floor < cursor /\ cursor + Len(serving'.page) = cursor
      <4>1. floor \in Nat /\ Len(log) \in Nat
        BY DEF TypeOK
      <4>2. QED
        BY <2>1, <2>2, <4>1 DEF Available
    <3>2. serving'.for = "delta" => (serving.pos + Len(serving.page))' = cursor
      BY <2>1, <2>2, <3>1
    <3>3. serving'.for = "delta" => Covered(serving.pos + Len(serving.page))'
      BY <2>3, <3>2, <1>1 DEF Covered
    <3>4. serving'.for = "delta" => Len(serving'.page) = 0 /\ cursor' <= serving'.pos /\ floor' < serving'.pos
      BY <1>1, <2>1, <2>2, <3>1
    <3>5. QED
      BY <2>1, <2>3, <3>3, <3>4 DEF Positions
  <2>6. Unusable' /\ BootHonest'
    BY <2>1, <2>2, <2>3, <2>4 DEF Unusable, BootHonest
  <2>7. DeltaHonest'
    <3>1. SUFFICES ASSUME serving'.for = "delta", NEW k \in Keys, NEW j \in 0..N, Decides(j, k, N)'
                   PROVE  Fresh(k, Value(j, k), serving.pos)'
      BY <2>4 DEF DeltaHonest
    <3>2. Decides(j, k, N) /\ Value(j, k)' = Value(j, k) /\ serving'.pos = cursor /\ Available(cursor)
      BY <2>1, <2>2, <2>4, <3>1
    <3>3. CASE j = 0
      BY <3>2, <3>3, <2>4 DEF Flow, Rest, Honest, Value
    <3>4. CASE j # 0
      <4>1. j \in 1..N /\ Item(j).do = "write" /\ Touches(Item(j), k)
        BY <2>3, <2>4, <3>2, <3>4 DEF Plain, Decides
      <4>2. Item(j).key = k /\ Value(j, k) = Item(j).val
        BY <3>4, <4>1 DEF Touches, Value, Outcome
      <4>3. QED
        BY <2>4, <3>2, <4>1, <4>2 DEF Flow, Rest, Honest
    <3>5. QED
      BY <3>3, <3>4
  <2>8. QED
    BY <2>3, <2>5, <2>6, <2>7 DEF Rest
<1>4. CASE StartBootstrap
  <2>1. Head(requests).ask = "bootstrap" /\ serving'.for = "watermark"
    BY <1>4 DEF StartBootstrap
  <2>2. Refilling
    BY <1>2, <2>1 DEF Refilling
  <2>3. /\ Covered(cursor)' /\ \A i \in 1..N' : Item(i)'.do = "cursor" => Covered(Item(i).id)'
        /\ Asked' /\ ClaimAlone' /\ Shape' /\ Honest' /\ ClaimsHonest' /\ Opening' /\ Emptied'
        /\ Available(cursor)' <=> Available(cursor)
    BY <1>1, <1>2, <2>1, <2>2, Serves
  <2>4. Positions' /\ Unusable' /\ DeltaHonest' /\ BootHonest'
    BY <2>1, <2>2, <2>3 DEF Flow, Rest, Positions, Unusable, DeltaHonest, BootHonest
  <2>5. QED
    BY <2>3, <2>4 DEF Rest
<1>5. QED
  BY <1>3, <1>4

\* A page of the delta is read, or a stream is given up.
LEMMA PageFlow ==
  ASSUME Gentle, TypeOK, TypeOK', Phases, Flow, ReadPage \/ AbandonStream
  PROVE  Rest'
<1>1. /\ requests' = requests
      /\ UNCHANGED <<log, floor, undelivered, conn, chan, tasks, ops, failedWrites, rows, cursor>>
      /\ serving.for \in {"delta", "bootstrap"}
  BY DEF ReadPage, AbandonStream, ServerStep, serverVars, idbVars
<1>2. serving # NotServing /\ serving \in Serving /\ Len(log) \in Nat /\ floor \in Nat /\ cursor \in Nat
  BY <1>1 DEF NotServing, TypeOK
<1>3. requests' = <<>>
  BY <1>1, <1>2, Token
<1>4. serving'.for \in {"delta", "nobody"}
  <2>1. CASE ReadPage
    BY <2>1, <1>2, ServingType DEF ReadPage, Delta
  <2>2. CASE AbandonStream
    BY <2>2 DEF AbandonStream, NotServing
  <2>3. QED
    BY <2>1, <2>2
<1>5. /\ Covered(cursor)' /\ \A i \in 1..N' : Item(i)'.do = "cursor" => Covered(Item(i).id)'
      /\ Asked' /\ ClaimAlone' /\ Shape' /\ Honest' /\ ClaimsHonest' /\ Opening' /\ Emptied'
      /\ ~Refilling'
  BY <1>1, <1>2, <1>3, <1>4, Serves
<1>6. /\ N \in Nat /\ N' = N
      /\ \A k \in Keys, j \in 0..N : Decides(j, k, N)' =>
           Decides(j, k, N) /\ Value(j, k)' = Value(j, k) /\ Value(j, k) \in Nat
      /\ \A k, v, c : Fresh(k, v, c)' <=> Fresh(k, v, c)
  BY <1>1, <1>2, <1>3, <1>4, Serves
<1>7. Unusable' /\ BootHonest'
  BY <1>4, <1>5 DEF Unusable, BootHonest
<1>8. CASE ReadPage
  <2>1. PICK n \in Nat :
          /\ n <= Len(log) - (IF serving.pos < floor THEN floor ELSE serving.pos)
          /\ serving'.page = [i \in 1..n |-> (IF serving.pos < floor THEN floor ELSE serving.pos) + i]
          /\ serving'.for = "delta" /\ serving'.pos = serving.pos
          /\ serving.for = "delta" /\ serving.page = <<>> /\ undelivered = {}
    <3> DEFINE first == IF serving.pos < floor THEN floor ELSE serving.pos
               left  == Len(log) - first
               n     == IF left < BatchSize THEN left ELSE BatchSize
    <3>1. serving \in Delta /\ serving.pos \in 0..Len(log) /\ serving.for = "delta"
      BY <1>2, <1>8, ServingType DEF ReadPage, Delta
    <3>2. n \in Nat /\ n <= left
      BY <1>2, <3>1, SMTT(30), SyncEngineAssumption DEF TypeOK
    <3>3. serving' = [serving EXCEPT !.page = [i \in 1..n |-> first + i],
                                     !.batches = @ + 1, !.short = n < BatchSize]
          /\ serving.page = <<>> /\ undelivered = {}
      BY <1>8 DEF ReadPage, LivePrompt, Gentle
    <3> HIDE DEF n
    <3>4. serving'.page = [i \in 1..n |-> first + i] /\ serving'.for = "delta" /\ serving'.pos = serving.pos
      BY <3>1, <3>3 DEF Delta
    <3>5. QED
      BY <3>1, <3>2, <3>3, <3>4
  <2>2. PICK c \in Nat : c = serving.pos /\ floor < c /\ cursor <= c
    <3>1. serving.pos \in Nat
      BY <1>2, <2>1, ServingType DEF Delta
    <3>2. QED
      BY <2>1, <3>1 DEF Flow, Rest, Positions
  <2>3. n <= Len(log) - c /\ serving'.page = [i \in 1..n |-> c + i]
    BY <1>2, <2>1, <2>2
  <2>4. Len(serving'.page) = n /\ c + n <= Len(log)
    BY <1>2, <2>3
  <2>5. Positions'
    <3>1. \A i \in 1..Len(serving'.page) : serving'.page[i] = serving'.pos + i
      BY <2>1, <2>2, <2>3, <2>4
    <3>2. (serving.pos + Len(serving.page))' = c + n /\ (c + n) \in Nat
      BY <2>1, <2>2, <2>4
    <3>3. Covered(serving.pos + Len(serving.page))'
      BY <1>1, <2>1, <2>4, <3>2 DEF Covered
    <3>4. QED
      BY <1>1, <1>5, <2>1, <2>2, <3>1, <3>3 DEF Positions
  <2>6. DeltaHonest'
    BY <1>1, <1>6, <2>1 DEF Flow, Rest, DeltaHonest
  <2>7. QED
    BY <1>5, <1>7, <2>5, <2>6 DEF Rest
<1>9. CASE AbandonStream
  <2>1. serving'.for = "nobody"
    BY <1>9 DEF AbandonStream, NotServing
  <2>2. Positions' /\ DeltaHonest'
    BY <1>5, <2>1 DEF Positions, DeltaHonest
  <2>3. QED
    BY <1>5, <1>7, <2>2 DEF Rest
<1>10. QED
  BY <1>8, <1>9

\* The watermark is read: an emptied cache is as of it, but for what is to come.
LEMMA WatermarkFlow ==
  ASSUME Gentle, TypeOK, TypeOK', Phases, Flow, ReadWatermark
  PROVE  Rest'
<1>1. /\ requests' = requests /\ serving.for = "watermark" /\ undelivered = {}
      /\ UNCHANGED <<log, floor, undelivered, conn, chan, tasks, ops, failedWrites, rows, cursor>>
  BY DEF ReadWatermark, LivePrompt, Gentle, ServerStep, serverVars, idbVars
<1>2. serving # NotServing /\ Len(log) \in Nat /\ Refilling
  BY <1>1 DEF NotServing, TypeOK, Refilling
<1> PICK w \in {0, Latest} : serving' = [for |-> "bootstrap", mark |-> w, unread |-> Types, snap |-> {}]
  BY DEF ReadWatermark
<1>3. /\ serving'.for = "bootstrap" /\ serving'.mark = w /\ serving'.unread = Types /\ serving'.snap = {}
      /\ w \in 0..Len(log)
  BY <1>2 DEF Latest
<1>4. requests' = <<>>
  BY <1>1, <1>2, Token
<1>5. /\ Covered(cursor)' /\ \A i \in 1..N' : Item(i)'.do = "cursor" => Covered(Item(i).id)'
      /\ Asked' /\ ClaimAlone' /\ Shape' /\ Honest' /\ ClaimsHonest' /\ Opening' /\ Emptied'
      /\ ~Refilling' /\ conn /\ (Available(cursor)' <=> Available(cursor))
  BY <1>1, <1>2, <1>3, <1>4, Serves
<1>6. /\ N \in Nat /\ N' = N
      /\ \A k \in Keys, j \in 0..N : Decides(j, k, N)' =>
           Decides(j, k, N) /\ Value(j, k)' = Value(j, k) /\ Value(j, k) \in Nat
      /\ \A k, v, c : Fresh(k, v, c)' <=> Fresh(k, v, c)
  BY <1>1, <1>2, <1>3, <1>4, Serves
<1>7. Positions'
  <2>1. Covered(w)'
    BY <1>1, <1>2, <1>3 DEF Covered
  <2>2. QED
    BY <1>3, <1>5, <2>1 DEF Positions, Covered
<1>8. Unusable' /\ DeltaHonest'
  BY <1>2, <1>3, <1>5 DEF Flow, Rest, Unusable, DeltaHonest
<1>9. BootHonest'
  <2>1. SUFFICES ASSUME ~failedWrites, NEW k \in Keys, NEW j \in 0..N, Decides(j, k, N)'
                 PROVE  Fresh(k, Value(j, k), w)' \/ (Value(j, k)' = Absent /\ Pending(k)')
    BY <1>1, <1>3, <1>6 DEF BootHonest
  <2>2. Decides(j, k, N) /\ Value(j, k)' = Value(j, k) /\ Value(j, k) \in Nat
    BY <1>6, <2>1
  <2>3. Pending(k)'
    BY <1>3, SyncEngineAssumption DEF Pending
  <2>4. Value(j, k) = Absent \/ Lags(k, Value(j, k))
    BY <1>2, <1>5, <2>1, <2>2 DEF Flow, Rest, Emptied
  <2>5. Lags(k, Value(j, k)) => Fresh(k, Value(j, k), w)
    BY <1>1, <1>3, <2>2, LagsNot
  <2>6. QED
    BY <1>6, <2>2, <2>3, <2>4, <2>5
<1>10. QED
  BY <1>5, <1>7, <1>8, <1>9 DEF Rest

\* A list of the bootstrap is read, after the watermark.
LEMMA ListFlow ==
  ASSUME TypeOK, TypeOK', Phases, Flow, NEW ty \in Types, ReadType(ty)
  PROVE  Rest'
<1> DEFINE found == {<<k, db[k]>> : k \in {x \in Keys : TypeOf[x] = ty /\ db[x] # Absent}}
<1>1. /\ requests' = requests /\ serving.for = "bootstrap"
      /\ serving' = [serving EXCEPT !.unread = @ \ {ty}, !.snap = @ \cup found]
      /\ UNCHANGED <<log, floor, undelivered, conn, chan, tasks, ops, failedWrites, rows, cursor>>
  BY DEF ReadType, ServerStep, serverVars, idbVars
<1>2. serving \in Bootstrap /\ serving # NotServing /\ Len(log) \in Nat
  <2>1. serving \in Serving /\ Len(log) \in Nat
    BY DEF TypeOK
  <2>2. QED
    BY <1>1, <2>1, ServingType DEF NotServing
<1>3. \A k \in Keys : TypeOf[k] = ty /\ db[k] # Absent => <<k, db[k]>> \in found
  OBVIOUS
<1>4. \A r \in found : \E k \in Keys : r = <<k, db[k]>>
  OBVIOUS
<1> HIDE DEF found
<1>5. /\ serving'.for = "bootstrap" /\ serving'.mark = serving.mark /\ serving.mark \in Nat
      /\ serving'.snap = serving.snap \cup found /\ serving'.unread = serving.unread \ {ty}
  BY <1>1, <1>2 DEF Bootstrap
<1>6. requests' = <<>>
  BY <1>1, <1>2, Token
<1>7. /\ Covered(cursor)' /\ \A i \in 1..N' : Item(i)'.do = "cursor" => Covered(Item(i).id)'
      /\ Asked' /\ ClaimAlone' /\ Shape' /\ Honest' /\ ClaimsHonest' /\ Opening' /\ Emptied'
      /\ ~Refilling' /\ conn /\ (Available(cursor)' <=> Available(cursor))
  BY <1>1, <1>2, <1>5, <1>6, Serves
<1>8. /\ N \in Nat /\ N' = N
      /\ \A k \in Keys, j \in 0..N : Decides(j, k, N)' =>
           Decides(j, k, N) /\ Value(j, k)' = Value(j, k) /\ Value(j, k) \in Nat
      /\ \A k, v, c : Fresh(k, v, c)' <=> Fresh(k, v, c)
      /\ \A c : Covered(c)' <=> Covered(c)
  BY <1>1, <1>2, <1>5, <1>6, Serves
<1>9. Positions'
  BY <1>1, <1>5, <1>7, <1>8 DEF Flow, Rest, Positions
<1>10. Unusable' /\ DeltaHonest'
  BY <1>1, <1>5, <1>7 DEF Flow, Rest, Unusable, DeltaHonest
<1>11. \A k \in Keys : db[k] \in Nat /\ Fresh(k, db[k], serving.mark)
  <2>1. serving.mark \in 0..Len(log)
    BY <1>1, <1>2, <1>5 DEF Flow, Rest, Positions, Covered
  <2>2. QED
    BY <1>2, <2>1, SMTT(30) DEF Flow, Tables, Fresh, TypeOK
<1>12. BootHonest'
  <2>1. SUFFICES ASSUME serving.mark # 0
                 PROVE  /\ \A q \in serving'.snap : Fresh(q[1], q[2], serving.mark)
                        /\ \/ failedWrites
                           \/ \A k \in Keys, j \in 0..N : Decides(j, k, N)' =>
                                \/ Fresh(k, Value(j, k)', serving.mark)
                                \/ Value(j, k)' = Absent /\ Pending(k)'
    BY <1>1, <1>5, <1>8 DEF BootHonest
  <2>2. \A q \in serving'.snap : Fresh(q[1], q[2], serving.mark)
    BY <1>1, <1>4, <1>5, <1>11, <2>1 DEF Flow, Rest, BootHonest
  <2>3. ASSUME ~failedWrites, NEW k \in Keys, NEW j \in 0..N, Decides(j, k, N)'
        PROVE  Fresh(k, Value(j, k), serving.mark) \/ (Value(j, k) = Absent /\ Pending(k)')
    <3>1. Fresh(k, Value(j, k), serving.mark) \/ (Value(j, k) = Absent /\ Pending(k))
      BY <1>1, <1>8, <2>1, <2>3 DEF Flow, Rest, BootHonest
    <3>2. ASSUME Value(j, k) = Absent, TypeOf[k] = ty, db[k] = Absent
          PROVE  Fresh(k, Value(j, k), serving.mark)
      BY <1>11, <3>2
    <3>3. ASSUME Pending(k), ~(TypeOf[k] = ty /\ db[k] = Absent) PROVE Pending(k)'
      <4>1. CASE TypeOf[k] = ty
        <5>1. <<k, db[k]>> \in serving'.snap /\ <<k, db[k]>>[1] = k
          BY <1>3, <1>5, <3>3, <4>1
        <5>2. QED
          BY <5>1 DEF Pending
      <4>2. CASE TypeOf[k] # ty
        BY <1>5, <3>3, <4>2 DEF Pending
      <4>3. QED
        BY <4>1, <4>2
    <3>4. QED
      BY <3>1, <3>2, <3>3
  <2>4. QED
    BY <1>8, <2>2, <2>3
<1>13. QED
  BY <1>7, <1>9, <1>10, <1>12 DEF Rest


-----------------------------------------------------------------------------
(***************************************************************************)
(* The tab.                                                                *)
(***************************************************************************)
\* A frame is taken off the channel, and what it means is queued.
LEMMA TakenFlow ==
  ASSUME TypeOK, TypeOK', Flow, OnAction \/ OnComplete
  PROVE  Rest'
<1>1. /\ chan # <<>> /\ chan' = Tail(chan)
      /\ UNCHANGED <<log, floor, undelivered, conn, requests, serving, tasks, failedWrites, rows, cursor>>
  BY DEF OnAction, OnComplete, Receive, serverVars, idbVars
<1>2. ops' = ops \o <<OpOf(Head(chan))>>
  BY DEF OnAction, OnComplete, Enqueue, OpOf
<1>3. N \in Nat /\ N' = N /\ \A i \in 1..N : Item(i)' = Item(i)
  BY <1>1, <1>2, Taken, ItemTypes
<1>4. /\ \A k, v, c : Fresh(k, v, c)' <=> Fresh(k, v, c)
      /\ \A k, v : Lags(k, v)' <=> Lags(k, v)
      /\ \A c : Covered(c)' <=> Covered(c)
      /\ Available(cursor)' <=> Available(cursor)
  BY <1>1 DEF Fresh, Lags, AsOf, Covered, Available
<1>5. NoReset => NoReset'
  BY <1>1, TailOf DEF TypeOK, NoReset
<1>6. NoReset' => NoReset
  <2>1. /\ Head(chan).is # "reset" /\ Head(chan) = chan[1] /\ Len(chan) \in Nat
        /\ \A i \in 1..Len(chan) : i = 1 \/ (i - 1 \in 1..Len(chan') /\ chan'[i - 1] = chan[i])
    <3>1. Head(chan).is # "reset"
      BY DEF OnAction, OnComplete
    <3>2. /\ Head(chan) = chan[1] /\ Len(chan') \in Nat /\ Len(chan) = Len(chan') + 1
          /\ \A i \in 1..Len(chan') : chan'[i] = chan[i + 1]
      BY <1>1, TailOf DEF TypeOK
    <3>3. ASSUME NEW i \in 1..Len(chan), i # 1 PROVE i - 1 \in 1..Len(chan') /\ chan'[i - 1] = chan[i]
      <4>1. i - 1 \in 1..Len(chan') /\ (i - 1) + 1 = i
        BY <3>2, <3>3
      <4>2. QED
        BY <3>2, <4>1
    <3>4. QED
      BY <3>1, <3>2, <3>3
  <2>2. QED
    BY <2>1 DEF NoReset
<1>7. (Refilling' <=> Refilling) /\ (Wiping' <=> Wiping) /\ (Opens' <=> Opens)
  BY <1>1, <1>5, <1>6 DEF Refilling, Wiping, Opens
<1>8. Shape' /\ Honest' /\ ClaimsHonest' /\ Opening' /\ Emptied'
  BY <1>1, <1>3, <1>4, <1>7, Keeps DEF Flow, Rest
<1>9. Positions' /\ Asked' /\ Unusable'
  BY <1>1, <1>3, <1>4, <1>7 DEF Flow, Rest, Positions, Asked, Unusable
<1>10. ClaimAlone'
  BY <1>1, <1>3, <1>5 DEF Flow, Rest, ClaimAlone
<1>11. \A k \in Keys, j \in 0..N : Decides(j, k, N)' => Decides(j, k, N) /\ Value(j, k)' = Value(j, k)
  BY <1>1, <1>3, DecidesSame
<1>12. DeltaHonest' /\ BootHonest'
  <2>1. \A k : Pending(k)' <=> Pending(k)
    BY <1>1 DEF Pending
  <2>2. QED
    BY <1>1, <1>3, <1>4, <1>11, <2>1 DEF Flow, Rest, DeltaHonest, BootHonest
<1>13. QED
  BY <1>8, <1>9, <1>10, <1>12 DEF Rest

\* The connect handler reads the cursor, and asks for a stream.
LEMMA AskingFlow ==
  ASSUME Gentle, TypeOK, TypeOK', Phases, Flow, NEW t \in TaskIds,
         ReadCursor(t) \/ AskDelta(t) \/ AskBootstrap(t)
  PROVE  Rest'
<1>1. /\ UNCHANGED <<log, floor, undelivered, conn, serving, chan, ops, failedWrites, rows, cursor>>
      /\ tasks[t].at \in {"reading", "decide", "acked"} /\ tasks[t].at # "idle"
  BY DEF ReadCursor, AskDelta, AskBootstrap, serverVars, linkVars, idbVars
<1>2. /\ requests = <<>> /\ serving = NotServing /\ NoReset /\ Len(requests) = 0
      /\ \A u \in TaskIds : u # t => tasks[u] = Idle
  BY <1>1, Token
<1>3. /\ NotServing.for \notin {"delta", "bootstrap", "reset", "watermark"} /\ Idle.at = "idle"
      /\ tasks \in [TaskIds -> Task] /\ cursor \in Nat
  BY DEF NotServing, Idle, TypeOK
<1>4. N \in Nat /\ N' = N /\ \A i : Item(i)' = Item(i)
  BY <1>1, Standing, ItemTypes
<1>5. \A i \in 1..N : Item(i).do # "cursor"
  BY <1>1 DEF Flow, Rest, ClaimAlone
<1>6. /\ \A k, v, c : Fresh(k, v, c)' <=> Fresh(k, v, c)
      /\ \A k, v : Lags(k, v)' <=> Lags(k, v)
      /\ \A c : Covered(c)' <=> Covered(c)
      /\ Available(cursor)' <=> Available(cursor)
      /\ NoReset' <=> NoReset
  BY <1>1 DEF Fresh, Lags, AsOf, Covered, Available, NoReset
<1>7. tasks[t].at = "decide" => tasks[t].cur = cursor
  BY DEF Flow, Rest, Asked
<1>8. \/ /\ tasks[t].at = "reading" /\ tasks' = [tasks EXCEPT ![t] = [at |-> "decide", cur |-> cursor]]
         /\ requests' = <<>>
      \/ /\ tasks[t].at = "decide" /\ tasks' = [tasks EXCEPT ![t] = Idle]
         /\ requests' \in {<<>>, <<DeltaReq(cursor)>>}
      \/ /\ tasks[t].at = "acked" /\ tasks' = [tasks EXCEPT ![t] = Idle]
         /\ requests' \in {<<>>, <<BootReq>>}
  BY <1>2, <1>7 DEF ReadCursor, AskDelta, AskBootstrap, SendRequest, Gentle, linkVars
<1>9. Asked' /\ (Refilling' => Refilling) /\ (Opens' => Opens) /\ ~Wiping'
  <2>1. CASE /\ tasks[t].at = "reading" /\ tasks' = [tasks EXCEPT ![t] = [at |-> "decide", cur |-> cursor]]
             /\ requests' = <<>>
    <3>1. Len(requests') = 0 /\ tasks'[t].at = "decide" /\ tasks'[t].cur = cursor
          /\ \A u \in TaskIds : u # t => tasks'[u] = Idle
      BY <1>2, <1>3, <2>1
    <3>2. \A u \in TaskIds : \/ tasks'[u].at = "idle"
                             \/ tasks'[u].at = "decide" /\ tasks'[u].cur = cursor
      BY <1>3, <3>1
    <3>3. Asked' /\ ~Wiping'
      BY <1>1, <3>1, <3>2 DEF Asked, Wiping
    <3>4. ~Refilling'
      <4>1. NoReset' /\ serving'.for # "watermark" /\ \A i \in 1..Len(requests') : FALSE
        BY <1>1, <1>2, <1>3, <1>6, <3>1
      <4>2. \A u \in TaskIds : tasks'[u].at \notin {"flushing", "acked"}
        BY <3>2
      <4>3. QED
        BY <4>1, <4>2 DEF Refilling
    <3>5. Opens
      BY <2>1 DEF Opens
    <3>6. QED
      BY <3>3, <3>4, <3>5
  <2>2. CASE /\ tasks[t].at = "decide" /\ tasks' = [tasks EXCEPT ![t] = Idle]
             /\ requests' \in {<<>>, <<DeltaReq(cursor)>>}
    <3>1. /\ \A i \in 1..Len(requests') : requests'[i].ask = "delta" /\ requests'[i].from = cursor
          /\ \A u \in TaskIds : tasks'[u].at = "idle"
      BY <1>2, <1>3, <2>2 DEF DeltaReq
    <3>2. Asked' /\ ~Wiping' /\ ~Opens'
      BY <1>1, <3>1 DEF Asked, Wiping, Opens
    <3>3. ~Refilling'
      <4>1. /\ NoReset' /\ serving'.for # "watermark"
            /\ \A i \in 1..Len(requests') : requests'[i].ask # "bootstrap"
        BY <1>1, <1>2, <1>3, <1>6, <3>1
      <4>2. \A u \in TaskIds : tasks'[u].at \notin {"flushing", "acked"}
        BY <3>1
      <4>3. QED
        BY <4>1, <4>2 DEF Refilling
    <3>4. QED
      BY <3>2, <3>3
  <2>3. CASE /\ tasks[t].at = "acked" /\ tasks' = [tasks EXCEPT ![t] = Idle]
             /\ requests' \in {<<>>, <<BootReq>>}
    <3>1. /\ \A i \in 1..Len(requests') : requests'[i].ask = "bootstrap"
          /\ \A u \in TaskIds : tasks'[u].at = "idle"
      BY <1>2, <1>3, <2>3 DEF BootReq
    <3>2. Asked' /\ ~Wiping' /\ ~Opens'
      BY <1>1, <3>1 DEF Asked, Wiping, Opens
    <3>3. Refilling
      BY <2>3 DEF Refilling
    <3>4. QED
      BY <3>2, <3>3
  <2>4. QED
    BY <1>8, <2>1, <2>2, <2>3
<1>10. Shape' /\ Honest' /\ ClaimsHonest' /\ Opening' /\ Emptied'
  BY <1>1, <1>4, <1>6, <1>9, Keeps DEF Flow, Rest
<1>11. Positions' /\ Unusable' /\ ClaimAlone'
  BY <1>1, <1>2, <1>3, <1>4, <1>5, <1>6, <1>9 DEF Flow, Rest, Positions, Unusable, ClaimAlone
<1>12. DeltaHonest' /\ BootHonest'
  BY <1>1, <1>2, <1>3 DEF DeltaHonest, BootHonest
<1>13. QED
  BY <1>9, <1>10, <1>11, <1>12 DEF Rest

\* A wipe in the middle of the pipeline empties every row; what is behind it counts.
LEMMA Inserted ==
  ASSUME N \in Nat, N' = N + 2, NEW P \in Nat \ {0}, NEW Q \in Nat, P <= Q, Q <= N + 2,
         Item(P)'.do = "wipe", Item(P)'.left = Types,
         \A i \in (P + 1)..Q : Item(i)'.do \in {"cursor", "flush"},
         \A i \in (Q + 1)..(N + 2) : i - 2 \in 1..N /\ Item(i)' = Item(i - 2),
         NEW k \in Keys, NEW j, NEW m, m = N + 2, Decides(j, k, m)'
  PROVE  \/ Value(j, k)' = Absent
         \/ j - 2 \in 1..N /\ Decides(j - 2, k, N) /\ Value(j, k)' = Value(j - 2, k)
<1>1. j \in 0..m /\ (j # 0 => Touches(Item(j), k)') /\ \A l \in (j + 1)..m : ~(Touches(Item(l), k)')
  BY DEF Decides
<1>2. Touches(Item(P), k)' /\ Outcome(Item(P))' = Absent
  BY SyncEngineAssumption DEF Touches, Outcome
<1>3. \A i \in (P + 1)..Q : ~(Touches(Item(i), k)')
  BY DEF Touches
<1>4. j = P \/ j \in (Q + 1)..(N + 2)
  <2>1. P \in 1..m /\ ~(P \in (j + 1)..m)
    BY <1>1, <1>2
  <2>2. j >= P
    BY <1>1, <2>1
  <2>3. j \notin (P + 1)..Q
    BY <1>1, <1>3, <2>2
  <2>4. QED
    BY <1>1, <2>2, <2>3
<1>5. CASE j = P
  BY <1>2, <1>5 DEF Value
<1>6. CASE j \in (Q + 1)..(N + 2)
  <2>1. \A i \in (Q + 1)..(N + 2) : (Touches(Item(i), k)' <=> Touches(Item(i - 2), k))
                                    /\ Outcome(Item(i))' = Outcome(Item(i - 2))
    BY DEF Touches, Outcome
  <2>2. ASSUME NEW l \in ((j - 2) + 1)..N PROVE ~Touches(Item(l), k)
    <3>1. l + 2 \in (j + 1)..m /\ l + 2 \in (Q + 1)..(N + 2) /\ (l + 2) - 2 = l
      BY <1>6, <2>2
    <3>2. QED
      BY <1>1, <2>1, <3>1
  <2>3. j # 0 /\ j - 2 \in 1..N /\ j - 2 # 0 /\ j - 2 \in 0..N
    BY <1>6
  <2>4. Decides(j - 2, k, N)
    BY <1>1, <1>6, <2>1, <2>2, <2>3 DEF Decides
  <2>5. Value(j, k)' = Value(j - 2, k)
    BY <1>6, <2>1, <2>3 DEF Value
  <2>6. QED
    BY <2>3, <2>4, <2>5
<1>7. QED
  BY <1>4, <1>5, <1>6

\* No cursor on disk: the cache is emptied, and what comes after is kept.
LEMMA StartOverFlow ==
  ASSUME TypeOK, TypeOK', Phases, Flow, NEW t \in TaskIds, StartOver(t)
  PROVE  Rest'
<1>1. /\ UNCHANGED <<log, floor, undelivered, conn, requests, serving, chan, failedWrites, rows, cursor>>
      /\ tasks[t].at = "decide" /\ tasks[t].cur = 0 /\ tasks[t].at # "idle"
      /\ ops' = ops \o <<WipeOp(Types), FlushOp(t)>>
      /\ tasks' = [tasks EXCEPT ![t] = [at |-> "flushing"]]
  BY DEF StartOver, Enqueue, serverVars, linkVars, idbVars
<1>2. /\ requests = <<>> /\ serving = NotServing /\ NoReset /\ NoReset'
      /\ \A u \in TaskIds : u # t => tasks[u] = Idle
  BY <1>1, Token DEF NoReset
<1>3. /\ NotServing.for \notin {"delta", "bootstrap", "reset", "watermark"} /\ Len(requests) = 0
      /\ tasks' = [u \in TaskIds |-> IF u = t THEN [at |-> "flushing"] ELSE Idle]
      /\ Idle.at = "idle" /\ \A u \in TaskIds : tasks[u] # [at |-> "flushing"]
  <2>1. /\ NotServing.for \notin {"delta", "bootstrap", "reset", "watermark"} /\ Len(requests) = 0
        /\ Idle.at = "idle" /\ Idle # [at |-> "flushing"]
    BY <1>2 DEF NotServing, Idle
  <2>2. tasks' = [u \in TaskIds |-> IF u = t THEN [at |-> "flushing"] ELSE Idle]
    BY <1>1, <1>2 DEF TypeOK
  <2>3. tasks[t] # [at |-> "flushing"]
    BY <1>1
  <2>4. QED
    BY <1>2, <2>1, <2>2, <2>3
<1>4. \A u \in TaskIds : tasks'[u].at \in {"idle", "flushing"}
  BY <1>3
<1>5. cursor = 0 /\ ~Available(cursor) /\ ~(Available(cursor)') /\ Opens
  <2>1. cursor = 0 /\ floor \in Nat
    BY <1>1 DEF Flow, Rest, Asked, TypeOK
  <2>2. ~Available(cursor) /\ ~(Available(cursor)')
    BY <1>1, <2>1 DEF Available
  <2>3. QED
    BY <1>1, <2>1, <2>2 DEF Opens
<1>6. Plain
  BY <1>1, <1>2, <1>3, AllPlain DEF Flow, Rest
<1> PICK P \in Nat \ {0} : P = Len(ops) + 1
  BY ItemTypes
<1>7. /\ N \in Nat /\ N' = N + 2 /\ P + 1 <= N + 2
      /\ \A i \in 1..(P - 1) : i \in 1..N /\ Item(i)' = Item(i)
      /\ Item(P)' = WipeOp(Types) /\ \A i \in {P + 1} : Item(i)' = FlushOp(t)
      /\ \A i \in (P + 2)..(N + 2) : i - 2 \in 1..N /\ Item(i)' = Item(i - 2)
  <2>1. /\ Len(ops) \in Nat /\ Len(chan) \in Nat /\ N = Len(ops) + Len(chan) /\ Len(ops') = P + 1
        /\ \A i \in 1..Len(ops) : ops'[i] = ops[i]
        /\ ops'[P] = WipeOp(Types) /\ ops'[P + 1] = FlushOp(t)
    BY <1>1, ItemTypes DEF TypeOK
  <2>2. N \in Nat /\ N' = N + 2 /\ P + 1 <= N + 2
    BY <1>1, <2>1 DEF N
  <2>3. ASSUME NEW i \in 1..(P - 1) PROVE i \in 1..N /\ Item(i)' = Item(i)
    <3>1. i \in 1..Len(ops) /\ i <= Len(ops') /\ i \in 1..N
      BY <2>1
    <3>2. QED
      BY <2>1, <3>1 DEF Item
  <2>4. Item(P)' = WipeOp(Types) /\ \A i \in {P + 1} : Item(i)' = FlushOp(t)
    BY <2>1 DEF Item
  <2>5. ASSUME NEW i \in (P + 2)..(N + 2) PROVE i - 2 \in 1..N /\ Item(i)' = Item(i - 2)
    <3>1. /\ i - 2 \in 1..N /\ ~(i <= Len(ops')) /\ ~(i - 2 <= Len(ops))
          /\ i - Len(ops') = (i - 2) - Len(ops)
      BY <2>1, <2>2
    <3>2. QED
      BY <1>1, <3>1 DEF Item, OpOf
  <2>6. QED
    BY <2>2, <2>3, <2>4, <2>5
<1>8. /\ WipeOp(Types).do = "wipe" /\ WipeOp(Types).left = Types /\ FlushOp(t).do = "flush"
  BY DEF WipeOp, FlushOp
<1>9. \A i \in 1..N' : i \in 1..(P - 1) \/ i = P \/ i = P + 1 \/ i \in (P + 2)..(N + 2)
  BY <1>7
<1>10. \A i \in 1..N' : Item(i)'.do # "cursor"
  BY <1>6, <1>7, <1>8, <1>9 DEF Plain
<1>11. Shape'
  <2>1. SUFFICES ASSUME NEW i \in 2..N'
                 PROVE  /\ Item(i)'.do = "wipe" => Item(i)'.left = Types
                        /\ Item(i)'.do = "flush" => Item(i - 1)'.do \in {"wipe", "cursor"}
                        /\ Item(i)'.do # "cursor"
    BY DEF Shape
  <2>2. i \in 1..N'
    OBVIOUS
  <2>3. CASE i = P + 1
    <3>1. i - 1 = P
      BY <2>3
    <3>2. QED
      BY <1>7, <1>8, <2>3, <3>1
  <2>4. CASE i # P + 1
    BY <1>6, <1>7, <1>8, <1>9, <2>2, <2>4 DEF Plain
  <2>5. QED
    BY <2>3, <2>4
<1>12. Positions'
  BY <1>1, <1>2, <1>3, <1>10 DEF Flow, Rest, Positions, Covered
<1>13. Asked' /\ ClaimAlone' /\ ClaimsHonest'
  BY <1>1, <1>3, <1>4, <1>10 DEF Asked, ClaimAlone, ClaimsHonest
<1>14. Unusable' /\ Honest' /\ DeltaHonest' /\ BootHonest'
  BY <1>1, <1>2, <1>3, <1>5 DEF Unusable, Honest, DeltaHonest, BootHonest
<1>15. Opening'
  BY <1>4 DEF Opening, Opens
<1>16. Emptied'
  <2>1. SUFFICES ASSUME conn, NEW k \in Keys, NEW j, NEW m, m = N + 2, Decides(j, k, m)'
                 PROVE  Value(j, k)' = Absent \/ Lags(k, Value(j, k))'
    BY <1>1, <1>7 DEF Emptied
  <2>2. \/ Value(j, k)' = Absent
        \/ j - 2 \in 1..N /\ Decides(j - 2, k, N) /\ Value(j, k)' = Value(j - 2, k)
    <3> DEFINE Q == P + 1
    <3>1. P <= Q /\ Q <= N + 2 /\ Q \in Nat /\ \A i \in (P + 1)..Q : Item(i)'.do \in {"cursor", "flush"}
      BY <1>7, <1>8
    <3>2. \A i \in (Q + 1)..(N + 2) : i - 2 \in 1..N /\ Item(i)' = Item(i - 2)
      BY <1>7
    <3> HIDE DEF Q
    <3>3. QED
      BY <1>7, <1>8, <2>1, <3>1, <3>2, Inserted
  <2>3. ASSUME NEW i, i = j - 2, i \in 1..N, Decides(i, k, N) PROVE Lags(k, Value(i, k))
    BY <1>5, <2>1, <2>3 DEF Flow, Rest, Opening
  <2>4. \A v : Lags(k, v)' <=> Lags(k, v)
    BY <1>1 DEF Lags, AsOf
  <2>5. QED
    BY <2>2, <2>3, <2>4
<1>17. QED
  BY <1>11, <1>12, <1>13, <1>14, <1>15, <1>16 DEF Rest


\* The cursor is not in the log any more: the same, and the cursor goes back to 0.
LEMMA OnResetFlow ==
  ASSUME TypeOK, TypeOK', Phases, Flow, NEW t \in TaskIds, OnReset(t)
  PROVE  Rest'
<1>1. /\ UNCHANGED <<log, floor, undelivered, conn, requests, serving, failedWrites, rows, cursor>>
      /\ chan # <<>> /\ chan' = Tail(chan) /\ Head(chan).is = "reset"
      /\ ops' = ops \o <<WipeOp(Types), CursorOp(0), FlushOp(t)>>
      /\ tasks' = [tasks EXCEPT ![t] = [at |-> "flushing"]]
  BY DEF OnReset, Receive, Enqueue, serverVars, idbVars
<1>2. /\ Head(chan) = chan[1] /\ Len(chan') \in Nat /\ Len(chan) = Len(chan') + 1
      /\ \A i \in 1..Len(chan') : chan'[i] = chan[i + 1]
  BY <1>1, TailOf DEF TypeOK
<1>3. 1 \in 1..Len(chan) /\ chan[1].is = "reset" /\ ~NoReset
  BY <1>1, <1>2 DEF NoReset
<1>4. /\ requests = <<>> /\ serving = NotServing /\ \A u \in TaskIds : tasks[u] = Idle
  BY <1>3, Token
<1>5. \A i \in 2..Len(chan) : chan[i].is # "reset"
  <2>1. \A i \in 2..Len(chan) : i \in 1..Len(chan) /\ i # 1
    BY <1>2
  <2>2. QED
    BY <1>3, <2>1 DEF Phases, Link, OneReset
<1>6. NoReset'
  <2>1. \A i \in 1..Len(chan') : i + 1 \in 2..Len(chan)
    BY <1>2
  <2>2. QED
    BY <1>2, <1>5, <2>1 DEF NoReset
<1>7. /\ NotServing.for \notin {"delta", "bootstrap", "reset", "watermark"} /\ Len(requests) = 0
      /\ \A u \in TaskIds : tasks'[u].at \in {"idle", "flushing"} /\ tasks[u] # [at |-> "flushing"]
  <2>1. /\ NotServing.for \notin {"delta", "bootstrap", "reset", "watermark"} /\ Len(requests) = 0
        /\ Idle.at = "idle" /\ Idle # [at |-> "flushing"]
    BY <1>4 DEF NotServing, Idle
  <2>2. tasks' = [u \in TaskIds |-> IF u = t THEN [at |-> "flushing"] ELSE tasks[u]]
    BY <1>1 DEF TypeOK
  <2>3. QED
    BY <1>4, <2>1, <2>2
<1>8. ~Available(cursor) /\ ~(Available(cursor)')
  <2>1. ~Available(cursor)
    BY <1>3 DEF Flow, Rest, Unusable, Refilling
  <2>2. QED
    BY <1>1, <2>1 DEF Available
<1> PICK P \in Nat \ {0} : P = Len(ops) + 1
  BY ItemTypes
<1>9. /\ Len(ops) \in Nat /\ Len(chan) \in Nat /\ N \in Nat /\ N = Len(ops) + Len(chan)
      /\ Len(ops') = P + 2
      /\ \A i \in 1..Len(ops) : ops'[i] = ops[i]
      /\ ops'[P] = WipeOp(Types) /\ ops'[P + 1] = CursorOp(0) /\ ops'[P + 2] = FlushOp(t)
  BY <1>1, ItemTypes, SMTT(30) DEF TypeOK
<1>10. N' = N + 2 /\ P + 2 <= N + 2 /\ P \in 1..N
  BY <1>1, <1>2, <1>9 DEF N
<1>11. ASSUME NEW i \in 1..N, i # P PROVE Item(i).do = "write"
  <2>1. Item(i).do # "cursor"
    BY <1>3 DEF Flow, Rest, ClaimAlone
  <2>2. CASE i <= Len(ops)
    <3>1. i \in 1..Len(ops) /\ Item(i) = ops[i]
      BY <1>9, <2>2 DEF Item
    <3>2. Item(i).do \notin {"wipe", "flush"}
      BY <1>7, <3>1, NoWaiter DEF Phases
    <3>3. QED
      BY <2>1, <3>2, ItemKinds
  <2>3. CASE ~(i <= Len(ops))
    <3>1. i - Len(ops) \in 2..Len(chan) /\ i - Len(ops) \in 1..Len(chan) /\ Item(i) = OpOf(chan[i - Len(ops)])
      BY <1>9, <1>11, <2>3 DEF Item
    <3>2. chan[i - Len(ops)] \in Frame /\ chan[i - Len(ops)].is # "reset"
      BY <1>5, <3>1, SMTT(30) DEF TypeOK
    <3>3. Item(i).do \in {"write", "cursor"}
      BY <3>1, <3>2, SMTT(30) DEF OpOf, Frame, Reset, WriteOp, CursorOp
    <3>4. QED
      BY <2>1, <3>3
  <2>4. QED
    BY <2>2, <2>3
<1>12. /\ \A i \in 1..(P - 1) : i \in 1..N /\ i # P /\ Item(i)' = Item(i)
       /\ Item(P)' = WipeOp(Types)
       /\ \A i \in {P + 1} : Item(i)' = CursorOp(0)
       /\ \A i \in {P + 2} : Item(i)' = FlushOp(t)
       /\ \A i \in (P + 3)..(N + 2) : i - 2 \in 1..N /\ i - 2 # P /\ Item(i)' = Item(i - 2)
  <2>1. ASSUME NEW i \in 1..(P - 1) PROVE i \in 1..N /\ i # P /\ Item(i)' = Item(i)
    <3>1. i \in 1..Len(ops) /\ i <= Len(ops') /\ i \in 1..N /\ i # P
      BY <1>9
    <3>2. QED
      BY <1>9, <3>1 DEF Item
  <2>2. /\ Item(P)' = WipeOp(Types)
        /\ \A i \in {P + 1} : Item(i)' = CursorOp(0)
        /\ \A i \in {P + 2} : Item(i)' = FlushOp(t)
    BY <1>9 DEF Item
  <2>3. ASSUME NEW i \in (P + 3)..(N + 2) PROVE i - 2 \in 1..N /\ i - 2 # P /\ Item(i)' = Item(i - 2)
    <3>1. /\ i - 2 \in 1..N /\ i - 2 # P /\ ~(i <= Len(ops')) /\ ~(i - 2 <= Len(ops))
          /\ i - Len(ops') \in 1..Len(chan')
          /\ (i - Len(ops')) + 1 = (i - 2) - Len(ops)
      BY <1>2, <1>9, <1>10
    <3>2. chan'[i - Len(ops')] = chan[(i - 2) - Len(ops)]
      BY <1>2, <3>1
    <3>3. QED
      BY <3>1, <3>2 DEF Item, OpOf
  <2>4. QED
    BY <2>1, <2>2, <2>3
<1>13. /\ WipeOp(Types).do = "wipe" /\ WipeOp(Types).left = Types /\ FlushOp(t).do = "flush"
       /\ CursorOp(0).do = "cursor" /\ CursorOp(0).id = 0
  BY DEF WipeOp, FlushOp, CursorOp
<1>14. \A i \in 1..N' : i \in 1..(P - 1) \/ i = P \/ i = P + 1 \/ i = P + 2 \/ i \in (P + 3)..(N + 2)
  BY <1>10
<1>15. \A i \in 1..N' : Item(i)'.do = "cursor" => i = P + 1 /\ Item(i)'.id = 0
  BY <1>11, <1>12, <1>13, <1>14
<1>16. Shape'
  <2>1. SUFFICES ASSUME NEW i \in 2..N'
                 PROVE  /\ Item(i)'.do = "wipe" => Item(i)'.left = Types
                        /\ Item(i)'.do = "flush" => Item(i - 1)'.do \in {"wipe", "cursor"}
                        /\ Item(i)'.do = "cursor" => Item(i - 1)'.do = "wipe"
    BY DEF Shape
  <2>2. i \in 1..N'
    OBVIOUS
  <2>3. CASE i = P + 2
    <3>1. i - 1 = P + 1
      BY <2>3
    <3>2. QED
      BY <1>12, <1>13, <2>3, <3>1
  <2>4. CASE i = P + 1
    <3>1. i - 1 = P
      BY <2>4
    <3>2. QED
      BY <1>12, <1>13, <2>4, <3>1
  <2>5. CASE i # P + 1 /\ i # P + 2
    BY <1>11, <1>12, <1>13, <1>14, <2>2, <2>5
  <2>6. QED
    BY <2>3, <2>4, <2>5
<1>17. Positions'
  <2>1. \A n \in undelivered : 0 < n
    BY DEF TypeOK
  <2>2. Len(log) \in Nat
    BY DEF TypeOK
  <2>3. Covered(0)'
    BY <1>1, <2>1, <2>2 DEF Covered
  <2>4. Covered(cursor)'
    BY <1>1 DEF Flow, Rest, Positions, Covered
  <2>5. \A i \in 1..N' : Item(i)'.do = "cursor" => Covered(Item(i).id)'
    BY <1>15, <2>3 DEF Covered
  <2>6. QED
    BY <1>1, <1>4, <1>7, <2>4, <2>5 DEF Positions
<1>18. Asked' /\ ClaimAlone' /\ ClaimsHonest'
  BY <1>1, <1>4, <1>6, <1>7, <1>15 DEF Asked, ClaimAlone, ClaimsHonest
<1>19. Unusable' /\ Honest' /\ DeltaHonest' /\ BootHonest'
  BY <1>1, <1>4, <1>7, <1>8 DEF Unusable, Honest, DeltaHonest, BootHonest
<1>20. Opening'
  BY <1>7 DEF Opening, Opens
<1>21. Emptied'
  <2>1. SUFFICES ASSUME conn, NEW k \in Keys, NEW j, NEW m, m = N + 2, Decides(j, k, m)'
                 PROVE  Value(j, k)' = Absent \/ Lags(k, Value(j, k))'
    BY <1>1, <1>10 DEF Emptied
  <2>2. \/ Value(j, k)' = Absent
        \/ j - 2 \in 1..N /\ Decides(j - 2, k, N) /\ Value(j, k)' = Value(j - 2, k)
    <3> DEFINE Q == P + 2
    <3>1. P <= Q /\ Q <= N + 2 /\ Q \in Nat /\ \A i \in (P + 1)..Q : i = P + 1 \/ i = P + 2
      BY <1>10
    <3>2. \A i \in (P + 1)..Q : Item(i)'.do \in {"cursor", "flush"}
      BY <1>12, <1>13, <3>1
    <3>3. \A i \in (Q + 1)..(N + 2) : i - 2 \in 1..N /\ Item(i)' = Item(i - 2)
      BY <1>12
    <3> HIDE DEF Q
    <3>4. QED
      BY <1>9, <1>10, <1>12, <1>13, <2>1, <3>1, <3>2, <3>3, Inserted
  <2>3. Refilling /\ ~Plain
    <3>1. P - Len(ops) = 1 /\ ~(P <= Len(ops))
      BY <1>9
    <3>2. Item(P).do = "wipe"
      BY <1>3, <3>1 DEF Item, OpOf, WipeOp
    <3>3. QED
      BY <1>3, <1>10, <3>2 DEF Plain, Refilling
  <2>4. ASSUME NEW i, i = j - 2, i \in 1..N, Decides(i, k, N) PROVE Value(i, k) = Absent \/ Lags(k, Value(i, k))
    <3>1. i \in 0..N
      BY <2>4
    <3>2. QED
      BY <2>1, <2>3, <2>4, <3>1 DEF Flow, Rest, Emptied
  <2>5. \A v : Lags(k, v)' <=> Lags(k, v)
    BY <1>1 DEF Lags, AsOf
  <2>6. QED
    BY <2>2, <2>4, <2>5
<1>22. QED
  BY <1>16, <1>17, <1>18, <1>19, <1>20, <1>21 DEF Rest

\* The socket opens: nothing of an earlier connection is under way.
LEMMA ConnectFlow ==
  ASSUME Gentle, TypeOK, TypeOK', Phases, Flow, NEW t \in TaskIds, Connect(t)
  PROVE  Rest'
<1>1. /\ ~conn /\ ops = <<>> /\ \A u \in TaskIds : tasks[u] = Idle
      /\ tasks' = [tasks EXCEPT ![t] = [at |-> "reading"]]
      /\ UNCHANGED <<log, floor, undelivered, requests, serving, chan, ops, failedWrites, rows, cursor>>
  BY DEF Connect, Gentle, serverVars, idbVars
<1>2. requests = <<>> /\ serving = NotServing /\ chan = <<>>
  BY <1>1 DEF Phases, Link, DownIsEmpty
<1>3. /\ NotServing.for \notin {"delta", "bootstrap", "reset", "watermark"} /\ Len(requests) = 0
      /\ \A u \in TaskIds : tasks'[u].at \in {"idle", "reading"}
  BY <1>1, <1>2 DEF NotServing, Idle, TypeOK
<1>4. N' = 0 /\ NoReset' /\ Len(requests') = 0 /\ serving'.for = "nobody"
  BY <1>1, <1>2 DEF N, NoReset, NotServing
<1>5. ~Refilling' /\ ~Wiping' /\ Covered(cursor)'
  BY <1>1, <1>3, <1>4 DEF Refilling, Wiping, Flow, Rest, Positions, Covered
<1>6. Positions' /\ Asked' /\ ClaimAlone' /\ Shape' /\ ClaimsHonest'
  BY <1>3, <1>4, <1>5 DEF Positions, Asked, ClaimAlone, Shape, ClaimsHonest
<1>7. Unusable' /\ DeltaHonest' /\ BootHonest' /\ Opening' /\ Emptied'
  BY <1>4, <1>5 DEF Unusable, DeltaHonest, BootHonest, Opening, Emptied
<1>8. Honest'
  BY <1>1, <1>4, SMTT(30) DEF Flow, Rest, Honest, Available, Fresh, AsOf
<1>9. QED
  BY <1>6, <1>7, <1>8 DEF Rest


-----------------------------------------------------------------------------
(***************************************************************************)
(* The writer.                                                             *)
(***************************************************************************)
\* What the items behind the first one decide, they still decide.
LEMMA DecidesShift ==
  ASSUME NEW M \in Nat, \A i \in 1..M : Item(i)' = Item(i + 1), NEW k,
         NEW i \in 0..M, NEW j, j # 0, Decides(j, k, i)'
  PROVE  j + 1 \in 1..(i + 1) /\ Decides(j + 1, k, i + 1) /\ Value(j, k)' = Value(j + 1, k)
<1>1. j \in 1..i /\ j \in 1..M /\ Touches(Item(j), k)' /\ \A l \in (j + 1)..i : ~(Touches(Item(l), k)')
  BY DEF Decides
<1>2. \A l \in 1..M : (Touches(Item(l), k)' <=> Touches(Item(l + 1), k)) /\ Outcome(Item(l))' = Outcome(Item(l + 1))
  BY DEF Touches, Outcome
<1>3. ASSUME NEW l \in ((j + 1) + 1)..(i + 1) PROVE ~Touches(Item(l), k)
  <2>1. l - 1 \in (j + 1)..i /\ l - 1 \in 1..M /\ (l - 1) + 1 = l
    BY <1>1
  <2>2. QED
    BY <1>1, <1>2, <2>1
<1>4. j + 1 \in 1..(i + 1) /\ j + 1 \in 0..(i + 1) /\ j + 1 # 0
  BY <1>1
<1>5. Decides(j + 1, k, i + 1)
  BY <1>1, <1>2, <1>3, <1>4 DEF Decides
<1>6. Value(j, k)' = Value(j + 1, k)
  BY <1>1, <1>2, <1>4 DEF Value
<1>7. QED
  BY <1>4, <1>5, <1>6

\* The first item is done: what is behind it moves up.
LEMMA Advances ==
  ASSUME TypeOK, Flow, ops # <<>>, ops' = Tail(ops),
         UNCHANGED <<log, floor, undelivered, conn, requests, serving, chan>>
  PROVE  /\ N' \in Nat /\ N = N' + 1 /\ Item(1) = Head(ops) /\ 1 \in 1..N
         /\ \A i \in 1..N' : Item(i)' = Item(i + 1) /\ i + 1 \in 1..N
         /\ \A i \in 1..N' : Item(i)'.do = "cursor" => Covered(Item(i).id)'
         /\ (Wiping' => Wiping) => Shape'
         /\ \A k, v, c : Fresh(k, v, c)' <=> Fresh(k, v, c)
         /\ \A k, v : Lags(k, v)' <=> Lags(k, v)
         /\ \A c : Covered(c)' <=> Covered(c)
         /\ NoReset' <=> NoReset
<1>1. /\ N' \in Nat /\ N = N' + 1 /\ Item(1) = Head(ops)
      /\ \A i \in 1..N' : Item(i)' = Item(i + 1)
  BY Gone
<1>m. PICK M \in Nat : M = N'
  BY <1>1
<1>2. /\ 1 \in 1..N /\ N = M + 1 /\ M \in Nat /\ \A i \in 1..M : i + 1 \in 1..N /\ Item(i)' = Item(i + 1)
      /\ \A i \in 1..N' : i + 1 \in 1..N
  <2>1. M \in Nat /\ N = M + 1 /\ \A i \in 1..M : Item(i)' = Item(i + 1)
    BY <1>1, <1>m
  <2>2. 1 \in 1..N /\ \A i \in 1..M : i + 1 \in 1..N
    BY <2>1
  <2>3. QED
    BY <1>m, <2>1, <2>2
<1>3. /\ \A k, v, c : Fresh(k, v, c)' <=> Fresh(k, v, c)
      /\ \A k, v : Lags(k, v)' <=> Lags(k, v)
      /\ \A c : Covered(c)' <=> Covered(c)
      /\ NoReset' <=> NoReset
  BY DEF Fresh, Lags, AsOf, Covered, NoReset
<1>4. ASSUME NEW i \in 1..N', Item(i)'.do = "cursor" PROVE Covered(Item(i).id)'
  <2>1. Covered(Item(i + 1).id)
    BY <1>1, <1>2, <1>4 DEF Flow, Rest, Positions
  <2>2. QED
    BY <1>1, <2>1 DEF Covered
<1>5. ASSUME Wiping' => Wiping PROVE Shape'
  <2>1. SUFFICES ASSUME NEW i \in 2..M
                 PROVE  (/\ Item(i).do = "wipe" => Item(i).left = Types
                         /\ Item(i).do = "flush" => Item(i - 1).do \in {"wipe", "cursor"}
                         /\ Item(i).do = "cursor" /\ Wiping => Item(i - 1).do = "wipe")'
    BY <1>m DEF Shape
  <2>2. i \in 1..M /\ i - 1 \in 1..M /\ i + 1 \in 2..N /\ (i - 1) + 1 = (i + 1) - 1
    BY <1>2
  <2>3. Item(i)' = Item(i + 1) /\ Item(i - 1)' = Item((i + 1) - 1)
    BY <1>2, <2>2
  <2>4. QED
    BY <1>5, <2>2, <2>3 DEF Flow, Rest, Shape
<1>6. QED
  BY <1>1, <1>2, <1>3, <1>4, <1>5

\* While the writer is not at the wipe yet, every row is still to be wiped.
LEMMA WipeAhead ==
  ASSUME TypeOK, Phases, Flow, ~Plain, Refilling, 1 \in 1..N, Item(1).do = "write"
  PROVE  \E i \in 2..N : Item(i).do = "wipe" /\ Item(i).left = Types
<1> PICK i \in 1..N : Item(i).do # "write"
  BY DEF Plain
<1>1. i \in 2..N /\ Item(i).do \in {"wipe", "cursor", "flush"} /\ N \in Nat
  BY ItemTypes, ItemKinds
<1>2. ASSUME NEW m \in 2..N, Item(m).do = "wipe"
      PROVE  \E l \in 2..N : Item(l).do = "wipe" /\ Item(l).left = Types
  BY <1>2 DEF Flow, Rest, Shape
<1>3. ASSUME NEW m \in 2..N, Item(m).do = "cursor"
      PROVE  \E l \in 2..N : Item(l).do = "wipe" /\ Item(l).left = Types
  <2>1. m \in 1..N /\ m - 1 \in 1..N
    BY <1>1
  <2>2. requests = <<>> /\ serving = NotServing /\ NoReset /\ \A t \in TaskIds : tasks[t].at \in {"idle", "flushing"}
    BY <1>3, <2>1 DEF Flow, Rest, ClaimAlone
  <2>3. Wiping
    BY <2>2 DEF Refilling, Wiping, NotServing
  <2>4. Item(m - 1).do = "wipe"
    BY <1>3, <2>3 DEF Flow, Rest, Shape
  <2>5. m - 1 \in 2..N
    BY <1>1, <2>1, <2>4
  <2>6. QED
    BY <1>2, <2>4, <2>5
<1>4. CASE Item(i).do = "flush"
  <2>1. Item(i - 1).do \in {"wipe", "cursor"} /\ i - 1 \in 1..N
    BY <1>1, <1>4 DEF Flow, Rest, Shape
  <2>2. i - 1 \in 2..N
    BY <1>1, <2>1
  <2>3. QED
    BY <1>2, <1>3, <2>1, <2>2
<1>5. QED
  BY <1>1, <1>2, <1>3, <1>4

\* A row is written, or its write fails and holds the next claim back.
LEMMA WrittenFlow ==
  ASSUME TypeOK, TypeOK', Phases, Flow, WriteRow
  PROVE  Rest'
<1>1. /\ ops # <<>> /\ ops' = Tail(ops) /\ Head(ops).do = "write"
      /\ UNCHANGED <<log, floor, undelivered, conn, requests, serving, chan, tasks, cursor>>
  BY DEF WriteRow, Pop, serverVars, linkVars
<1>2. /\ N' \in Nat /\ N = N' + 1 /\ Item(1) = Head(ops) /\ 1 \in 1..N
      /\ \A i \in 1..N' : Item(i)' = Item(i + 1) /\ i + 1 \in 1..N
      /\ \A i \in 1..N' : Item(i)'.do = "cursor" => Covered(Item(i).id)'
      /\ (Wiping' => Wiping) => Shape'
      /\ \A k, v, c : Fresh(k, v, c)' <=> Fresh(k, v, c)
      /\ \A k, v : Lags(k, v)' <=> Lags(k, v)
      /\ \A c : Covered(c)' <=> Covered(c)
      /\ NoReset' <=> NoReset
  BY <1>1, Advances
<1>m. PICK M \in Nat : M = N'
  BY <1>2
<1>3. /\ N = M + 1 /\ M \in Nat /\ M \in 0..M
      /\ \A i \in 1..M : Item(i)' = Item(i + 1) /\ i + 1 \in 1..N
  <2>1. N = M + 1 /\ M \in Nat /\ \A i \in 1..M : Item(i)' = Item(i + 1)
    BY <1>2, <1>m
  <2>2. M \in 0..M /\ \A i \in 1..M : i + 1 \in 1..N
    BY <2>1
  <2>3. QED
    BY <2>1, <2>2
<1> PICK x : x = Item(1)
  OBVIOUS
<1>4. x.do = "write" /\ x.key \in Keys /\ x.val \in Nat /\ x = Head(ops)
  <2>1. x \in Op /\ x.do = "write"
    BY <1>1, <1>2, ItemTypes
  <2>2. QED
    BY <1>2, <2>1, OpType
<1>5. /\ Refilling' <=> Refilling
      /\ Wiping' <=> Wiping
      /\ Opens' <=> Opens
      /\ Available(cursor)' <=> Available(cursor)
  BY <1>1, <1>2 DEF Refilling, Wiping, Opens, Available
<1>6. \/ /\ failedWrites' = failedWrites
         /\ \A k \in Keys : rows'[k] = IF Touches(x, k) THEN Outcome(x) ELSE rows[k]
      \/ failedWrites' = TRUE /\ rows' = rows
  BY <1>4 DEF WriteRow, Touches, Outcome, TypeOK
<1>7. ASSUME ~(failedWrites'), NEW k \in Keys, NEW i \in 0..M, NEW j, Decides(j, k, i)'
      PROVE  ~failedWrites /\ \E l \in 0..(i + 1) : Decides(l, k, i + 1) /\ Value(j, k)' = Value(l, k)
  <2>1. /\ ~failedWrites
        /\ \A y \in Keys : rows'[y] = IF Touches(x, y) THEN Outcome(x) ELSE rows[y]
    BY <1>6, <1>7
  <2>2. rows'[k] = IF Touches(x, k) THEN Outcome(x) ELSE rows[k]
    BY <2>1
  <2>3. QED
    BY <1>3, <1>7, <2>1, <2>2, DecidesGone
<1>8. Positions' /\ Asked' /\ Unusable'
  BY <1>1, <1>2, <1>5 DEF Flow, Rest, Positions, Asked, Unusable
<1>9. ClaimAlone'
  <2>1. SUFFICES ASSUME NEW i \in 1..M, Item(i)'.do = "cursor"
                 PROVE  (/\ requests = <<>> /\ serving = NotServing /\ NoReset
                         /\ \A t \in TaskIds : tasks[t].at \in {"idle", "flushing"}
                         /\ Item(i).id # 0 => \A t \in TaskIds : tasks[t] = Idle
                         /\ \A j \in 1..N : Item(j).do = "cursor" => j = i)'
    BY <1>m DEF ClaimAlone
  <2>2. i + 1 \in 1..N /\ Item(i + 1).do = "cursor" /\ Item(i)' = Item(i + 1)
    BY <1>3, <2>1
  <2>3. ASSUME NEW j \in 1..M, Item(j)'.do = "cursor" PROVE j = i
    <3>1. j + 1 = i + 1
      BY <1>3, <2>2, <2>3 DEF Flow, Rest, ClaimAlone
    <3>2. QED
      BY <3>1
  <2>4. QED
    BY <1>m, <1>1, <1>2, <2>2, <2>3 DEF Flow, Rest, ClaimAlone
<1>10. Shape'
  BY <1>2, <1>5
<1>11. Honest'
  <2>1. SUFFICES ASSUME Available(cursor)
                 PROVE  /\ \A k \in Keys : Fresh(k, rows'[k], cursor)
                        /\ \A i \in 1..M : Item(i)'.do = "write" => Fresh(Item(i)'.key, Item(i)'.val, cursor)
    BY <1>m, <1>1, <1>2, <1>5 DEF Honest
  <2>2. /\ \A k \in Keys : Fresh(k, rows[k], cursor)
        /\ \A i \in 1..N : Item(i).do = "write" => Fresh(Item(i).key, Item(i).val, cursor)
    BY <2>1 DEF Flow, Rest, Honest
  <2>3. Fresh(x.key, x.val, cursor)
    BY <1>2, <1>4, <2>2
  <2>4. \A k \in Keys : rows'[k] = rows[k] \/ (k = x.key /\ rows'[k] = x.val)
    BY <1>4, <1>6 DEF Touches, Outcome
  <2>5. QED
    BY <1>3, <2>2, <2>3, <2>4
<1>12. ClaimsHonest'
  <2>1. SUFFICES ASSUME NEW i \in 1..M, Item(i)'.do = "cursor", Item(i)'.id # 0
        PROVE  /\ failedWrites' \/ \A k \in Keys, j \in 0..M : Decides(j, k, i - 1)' => Fresh(k, Value(j, k)', Item(i)'.id)
               /\ \A l \in (i + 1)..M : Item(l)'.do = "write" => Fresh(Item(l)'.key, Item(l)'.val, Item(i)'.id)
    BY <1>m, <1>2 DEF ClaimsHonest
  <2>2. /\ i + 1 \in 1..N /\ Item(i)' = Item(i + 1) /\ Item(i + 1).do = "cursor" /\ Item(i + 1).id # 0
        /\ i - 1 \in 0..M /\ (i - 1) + 1 = (i + 1) - 1
    BY <1>3, <2>1
  <2>3. /\ failedWrites \/ \A k \in Keys, j \in 0..N : Decides(j, k, (i + 1) - 1) => Fresh(k, Value(j, k), Item(i + 1).id)
        /\ \A l \in ((i + 1) + 1)..N : Item(l).do = "write" => Fresh(Item(l).key, Item(l).val, Item(i + 1).id)
    BY <2>2 DEF Flow, Rest, ClaimsHonest
  <2>4. ASSUME NEW l \in (i + 1)..M, Item(l)'.do = "write" PROVE Fresh(Item(l)'.key, Item(l)'.val, Item(i)'.id)
    <3>1. l \in 1..M /\ l + 1 \in ((i + 1) + 1)..N /\ Item(l)' = Item(l + 1)
      BY <1>3
    <3>2. QED
      BY <2>2, <2>3, <2>4, <3>1
  <2>5. ASSUME ~(failedWrites'), NEW k \in Keys, NEW j \in 0..M, Decides(j, k, i - 1)'
        PROVE  Fresh(k, Value(j, k)', Item(i)'.id)
    <3>1. PICK l \in 0..((i - 1) + 1) : Decides(l, k, (i - 1) + 1) /\ Value(j, k)' = Value(l, k)
      BY <1>7, <2>2, <2>5
    <3>2. ~failedWrites /\ l \in 0..N
      BY <1>3, <1>6, <2>2, <2>5
    <3>3. QED
      BY <2>2, <2>3, <3>1, <3>2
  <2>6. QED
    BY <2>4, <2>5
<1>13. DeltaHonest'
  <2>1. SUFFICES ASSUME serving.for = "delta", ~(failedWrites'), NEW k \in Keys, NEW j \in 0..M, Decides(j, k, M)'
                 PROVE  Fresh(k, Value(j, k)', serving.pos)
    BY <1>m, <1>1, <1>2 DEF DeltaHonest
  <2>2. PICK l \in 0..N : Decides(l, k, N) /\ Value(j, k)' = Value(l, k) /\ ~failedWrites
    BY <1>3, <1>7, <2>1
  <2>3. QED
    BY <2>1, <2>2 DEF Flow, Rest, DeltaHonest
<1>14. BootHonest'
  <2>1. SUFFICES ASSUME serving.for = "bootstrap", serving.mark # 0
                 PROVE  /\ \A r \in serving.snap : Fresh(r[1], r[2], serving.mark)
                        /\ \/ failedWrites'
                           \/ \A k \in Keys, j \in 0..M : Decides(j, k, M)' =>
                                \/ Fresh(k, Value(j, k)', serving.mark)
                                \/ Value(j, k)' = Absent /\ Pending(k)
    <3>1. \A k : Pending(k)' <=> Pending(k)
      BY <1>1 DEF Pending
    <3>2. QED
      BY <1>m, <1>1, <1>2, <3>1 DEF BootHonest
  <2>2. ASSUME ~(failedWrites'), NEW k \in Keys, NEW j \in 0..M, Decides(j, k, M)'
        PROVE  Fresh(k, Value(j, k)', serving.mark) \/ (Value(j, k)' = Absent /\ Pending(k))
    <3>1. PICK l \in 0..N : Decides(l, k, N) /\ Value(j, k)' = Value(l, k) /\ ~failedWrites
      BY <1>3, <1>7, <2>2
    <3>2. QED
      BY <2>1, <3>1 DEF Flow, Rest, BootHonest
  <2>3. QED
    BY <2>1, <2>2 DEF Flow, Rest, BootHonest
<1>15. Opening'
  <2>1. SUFFICES ASSUME conn, Opens, NEW k \in Keys, NEW j \in 1..M, Decides(j, k, M)'
                 PROVE  Lags(k, Value(j, k)')
    BY <1>m, <1>1, <1>2, <1>5 DEF Opening
  <2>2. j + 1 \in 1..N /\ Decides(j + 1, k, N) /\ Value(j, k)' = Value(j + 1, k)
    BY <1>3, <2>1, DecidesShift
  <2>3. QED
    BY <2>1, <2>2 DEF Flow, Rest, Opening
<1>16. Emptied'
  <2>1. SUFFICES ASSUME conn, Refilling, ~(failedWrites' /\ Plain'), NEW k \in Keys, NEW j \in 0..M, Decides(j, k, M)'
                 PROVE  Value(j, k)' = Absent \/ Lags(k, Value(j, k)')
    BY <1>m, <1>1, <1>2, <1>5 DEF Emptied
  <2>2. Plain => Plain'
    BY <1>m, <1>3 DEF Plain
  <2>3. ~(failedWrites /\ Plain)
    BY <1>6, <2>1, <2>2
  <2>4. \A l \in 0..N : Decides(l, k, N) => Value(l, k) = Absent \/ Lags(k, Value(l, k))
    BY <2>1, <2>3 DEF Flow, Rest, Emptied
  <2>5. CASE \A y \in Keys : rows'[y] = IF Touches(x, y) THEN Outcome(x) ELSE rows[y]
    <3>1. rows'[k] = IF Touches(x, k) THEN Outcome(x) ELSE rows[k]
      BY <2>5
    <3>2. PICK l \in 0..N : Decides(l, k, N) /\ Value(j, k)' = Value(l, k)
      BY <1>3, <2>1, <3>1, DecidesGone
    <3>3. QED
      BY <2>4, <3>2
  <2>6. CASE failedWrites' = TRUE
    <3>1. PICK i \in 2..N : Item(i).do = "wipe" /\ Item(i).left = Types
      BY <1>1, <1>2, <2>1, <2>2, <2>6, WipeAhead
    <3>2. i - 1 \in 1..M /\ (i - 1) + 1 = i
      BY <1>3
    <3>3. Touches(Item(i - 1), k)'
      BY <1>3, <3>1, <3>2, SyncEngineAssumption DEF Touches
    <3>4. j # 0
      BY <2>1, <3>2, <3>3 DEF Decides
    <3>5. j + 1 \in 0..N /\ Decides(j + 1, k, N) /\ Value(j, k)' = Value(j + 1, k)
      BY <1>3, <2>1, <3>4, DecidesShift
    <3>6. QED
      BY <2>4, <3>5
  <2>7. QED
    BY <1>6, <2>5, <2>6
<1>17. QED
  BY <1>8, <1>9, <1>10, <1>11, <1>12, <1>13, <1>14, <1>15, <1>16 DEF Rest


\* The writer moves on while a continuation waits for its flush.
LEMMA Waits ==
  ASSUME TypeOK, TypeOK', Phases, Flow, NEW t \in TaskIds, tasks[t] = [at |-> "flushing"],
         tasks' = tasks \/ tasks' = [tasks EXCEPT ![t] = [at |-> "acked"]],
         UNCHANGED <<log, floor, undelivered, conn, requests, serving, chan, cursor>>
  PROVE  /\ requests = <<>> /\ serving = NotServing /\ NoReset /\ NoReset' /\ Refilling /\ Wiping
         /\ \A u \in TaskIds : tasks[u].at \in {"idle", "flushing"}
         /\ \A i \in 1..N : Item(i).do = "cursor" => Item(i).id = 0
         /\ Asked' /\ Unusable' /\ Honest' /\ DeltaHonest' /\ BootHonest' /\ Opening'
         /\ Covered(cursor)' /\ serving'.for = "nobody"
         /\ \A k, v : Lags(k, v)' <=> Lags(k, v)
         /\ \A c : Covered(c)' <=> Covered(c)
<1>1. /\ tasks[t].at = "flushing" /\ tasks[t].at # "idle" /\ tasks[t] # Idle
      /\ NotServing.for = "nobody" /\ Idle.at = "idle"
  BY DEF NotServing, Idle
<1>2. /\ requests = <<>> /\ serving = NotServing /\ NoReset /\ \A u \in TaskIds : u # t => tasks[u] = Idle
  BY <1>1, Token
<1>3. Len(requests) = 0 /\ NoReset' /\ Refilling /\ Wiping
  BY <1>1, <1>2 DEF NoReset, Refilling, Wiping
<1>4. \A u \in TaskIds : /\ tasks[u].at \in {"idle", "flushing"}
                         /\ tasks'[u].at \in {"idle", "flushing", "acked"}
  <2>1. \A u \in TaskIds : tasks[u].at \in {"idle", "flushing"}
    BY <1>1, <1>2
  <2>2. \A u \in TaskIds : tasks'[u] = tasks[u] \/ tasks'[u] = [at |-> "acked"]
    BY DEF TypeOK
  <2>3. QED
    BY <2>1, <2>2
<1>5. ~Available(cursor) /\ ~(Available(cursor)')
  <2>1. ~Available(cursor)
    BY <1>3 DEF Flow, Rest, Unusable
  <2>2. QED
    BY <2>1 DEF Available
<1>6. \A i \in 1..N : Item(i).do = "cursor" => Item(i).id = 0
  BY <1>1 DEF Flow, Rest, ClaimAlone
<1>7. Asked' /\ Unusable' /\ Honest' /\ DeltaHonest' /\ BootHonest' /\ Opening'
  BY <1>1, <1>2, <1>3, <1>4, <1>5 DEF Asked, Unusable, Honest, DeltaHonest, BootHonest, Opening, Opens
<1>8. Covered(cursor)' /\ serving'.for = "nobody"
  BY <1>1, <1>2 DEF Flow, Rest, Positions, Covered
<1>9. /\ \A k, v : Lags(k, v)' <=> Lags(k, v)
      /\ \A c : Covered(c)' <=> Covered(c)
  BY DEF Lags, AsOf, Covered
<1>10. QED
  BY <1>2, <1>3, <1>4, <1>6, <1>7, <1>8, <1>9

LEMMA FirstReplaced ==
  ASSUME TypeOK, ops # <<>>, NEW w \in Op, ops' = [ops EXCEPT ![1] = w], chan' = chan
  PROVE  N' = N /\ Item(1)' = w /\ \A i \in 2..N : Item(i)' = Item(i)
<1> DEFINE n == Len(ops)
<1>1. ops \in Seq(Op) /\ ops \in [1..n -> Op] /\ n \in Nat /\ 1 \in 1..n
  BY DEF TypeOK
<1>2. ops' \in Seq(Op) /\ Len(ops') = n
  BY <1>1
<1>3. ops'[1] = w /\ \A i \in 2..n : ops'[i] = ops[i]
  <2> HIDE DEF n
  <2>1. QED
    BY <1>1
<1>4. N' = N /\ N \in Nat
  BY <1>2, ItemTypes DEF N
<1>5. Item(1)' = w
  BY <1>1, <1>2, <1>3 DEF Item
<1>6. ASSUME NEW i \in 2..N PROVE Item(i)' = Item(i)
  <2>1. CASE i <= n
    <3>1. i \in 2..n
      BY <1>1, <2>1
    <3>2. QED
      BY <1>2, <1>3, <2>1, <3>1 DEF Item
  <2>2. CASE ~(i <= n)
    BY <1>2, <2>2 DEF Item, OpOf
  <2>3. QED
    BY <2>1, <2>2
<1>7. QED
  BY <1>4, <1>5, <1>6

\* A list is wiped; the wipe goes on with the next one, or is done.
LEMMA WipedFlow ==
  ASSUME Gentle, TypeOK, TypeOK', Phases, Flow, WipeType
  PROVE  Rest'
<1>1. /\ ops # <<>> /\ Head(ops).do = "wipe" /\ Head(ops) = ops[1] /\ 1 \in 1..Len(ops)
      /\ UNCHANGED <<log, floor, undelivered, conn, requests, serving, chan, tasks, cursor>>
  BY DEF WipeType, TypeOK, serverVars, linkVars
<1> PICK ty \in Head(ops).left :
      /\ ops' = IF Head(ops).left = {ty} THEN Tail(ops) ELSE [ops EXCEPT ![1] = WipeOp(@.left \ {ty})]
      /\ rows' = [k \in Keys |-> IF TypeOf[k] = ty THEN Absent ELSE rows[k]]
  BY DEF WipeType, Gentle
<1>2. PICK t \in TaskIds : tasks[t] = [at |-> "flushing"]
  <2>1. PICK j \in 1..Len(ops) : ops[j].do = "flush"
    BY <1>1 DEF Phases, Queue, WipeThenFlush
  <2>2. ops[j] \in Op
    BY DEF TypeOK
  <2>3. QED
    BY <2>1, <2>2, OpType DEF Phases, Queue, FlushAwaited
<1>3. /\ requests = <<>> /\ serving = NotServing /\ NoReset /\ NoReset' /\ Refilling /\ Wiping
      /\ \A u \in TaskIds : tasks[u].at \in {"idle", "flushing"}
      /\ \A i \in 1..N : Item(i).do = "cursor" => Item(i).id = 0
      /\ Asked' /\ Unusable' /\ Honest' /\ DeltaHonest' /\ BootHonest' /\ Opening'
      /\ Covered(cursor)' /\ serving'.for = "nobody"
      /\ \A k, v : Lags(k, v)' <=> Lags(k, v)
      /\ \A c : Covered(c)' <=> Covered(c)
  BY <1>1, <1>2, Waits
<1>4. /\ N \in Nat /\ 1 \in 1..N /\ Item(1) = Head(ops) /\ ~Plain
      /\ Len(ops) \in Nat /\ Len(ops) <= N /\ N = Len(ops) + Len(chan) /\ Len(chan) \in Nat
  <2>1. N \in Nat /\ N = Len(ops) + Len(chan) /\ Len(chan) \in Nat /\ Len(ops) \in Nat
    BY ItemTypes
  <2>2. 1 \in 1..N /\ Len(ops) <= N /\ Item(1) = Head(ops)
    BY <1>1, <2>1 DEF Item
  <2>3. QED
    BY <1>1, <2>1, <2>2 DEF Plain
<1>5. conn => \A k \in Keys, j \in 0..N : Decides(j, k, N) => Value(j, k) = Absent \/ Lags(k, Value(j, k))
  BY <1>3, <1>4 DEF Flow, Rest, Emptied
<1>6. (Wiping' <=> Wiping) /\ \A k \in Keys : rows'[k] = IF TypeOf[k] = ty THEN Absent ELSE rows[k]
  BY <1>1 DEF Wiping
<1>7. CASE Head(ops).left = {ty}
  <2>1. ops' = Tail(ops)
    BY <1>7
  <2>2. /\ N' \in Nat /\ N = N' + 1
        /\ \A i \in 1..N' : Item(i)' = Item(i + 1) /\ i + 1 \in 1..N
        /\ \A i \in 1..N' : Item(i)'.do = "cursor" => Covered(Item(i).id)'
        /\ (Wiping' => Wiping) => Shape'
    BY <1>1, <2>1, Advances
  <2>m. PICK M \in Nat : M = N'
    BY <2>2
  <2>3. N = M + 1 /\ M \in Nat /\ \A i \in 1..M : Item(i)' = Item(i + 1)
    BY <2>2, <2>m
  <2>4. M \in 0..M /\ \A i \in 1..M : i + 1 \in 1..N /\ Item(i)' = Item(i + 1)
    BY <2>3
  <2>5. Positions' /\ Shape'
    BY <1>3, <1>6, <2>2 DEF Positions
  <2>6. ClaimAlone' /\ ClaimsHonest'
    <3>1. \A i, j \in 1..M : Item(i)'.do = "cursor" /\ Item(j)'.do = "cursor" => j = i
      <4>1. SUFFICES ASSUME NEW i \in 1..M, NEW j \in 1..M, Item(i)'.do = "cursor", Item(j)'.do = "cursor"
                     PROVE  j = i
        OBVIOUS
      <4>2. j + 1 = i + 1
        BY <2>4, <4>1 DEF Flow, Rest, ClaimAlone
      <4>3. QED
        BY <4>2
    <3>2. \A i \in 1..M : Item(i)'.do = "cursor" => Item(i)'.id = 0
      BY <1>3, <2>4
    <3>3. QED
      BY <1>1, <1>3, <2>m, <3>1, <3>2 DEF ClaimAlone, ClaimsHonest
  <2>7. Emptied'
    <3>1. SUFFICES ASSUME conn, NEW k \in Keys, NEW j, Decides(j, k, M)'
                   PROVE  Value(j, k)' = Absent \/ Lags(k, Value(j, k)')
      BY <1>1, <1>3, <2>m DEF Emptied
    <3>2. PICK x : x = Item(1) /\ x.do = "wipe" /\ x.left = {ty}
      BY <1>1, <1>4, <1>7
    <3>3. rows'[k] = IF Touches(x, k) THEN Outcome(x) ELSE rows[k]
      BY <1>6, <3>2 DEF Touches, Outcome
    <3>4. PICK l \in 0..N : Decides(l, k, N) /\ Value(j, k)' = Value(l, k)
      BY <2>3, <2>4, <3>1, <3>2, <3>3, DecidesGone
    <3>5. QED
      BY <1>5, <3>1, <3>4
  <2>8. QED
    BY <1>3, <2>5, <2>6, <2>7 DEF Rest
<1>8. CASE Head(ops).left # {ty}
  <2>1. PICK w \in Op : w.do = "wipe" /\ w.left = Head(ops).left \ {ty} /\ ops' = [ops EXCEPT ![1] = w]
    <3>1. ops[1] \in Op
      BY <1>1 DEF TypeOK
    <3>2. ops' = [ops EXCEPT ![1] = WipeOp(ops[1].left \ {ty})]
      BY <1>8
    <3>3. WipeOp(ops[1].left \ {ty}) \in Op
      BY <1>1, <3>1, ValueTypes, OpType
    <3>4. QED
      BY <1>1, <3>2, <3>3 DEF WipeOp
  <2>2. N' = N /\ Item(1)' = w /\ \A i \in 2..N : Item(i)' = Item(i)
    BY <1>1, <2>1, FirstReplaced
  <2>3. \A i \in 1..N : Item(i)'.do = Item(i).do /\ (Item(i).do # "wipe" => Item(i)' = Item(i))
    <3>1. \A i \in 1..N : i = 1 \/ i \in 2..N
      BY <1>4
    <3>2. QED
      BY <1>1, <1>4, <2>1, <2>2, <3>1
  <2>4. Positions' /\ ClaimAlone' /\ ClaimsHonest'
    <3>1. \A i \in 1..N : Item(i)'.do = "cursor" => Item(i).do = "cursor" /\ Item(i)' = Item(i)
      BY <2>3
    <3>2. QED
      BY <1>1, <1>3, <2>2, <3>1 DEF Flow, Rest, Positions, ClaimAlone, ClaimsHonest
  <2>5. Shape'
    <3>1. SUFFICES ASSUME NEW i \in 2..N
                   PROVE  (/\ Item(i).do = "wipe" => Item(i).left = Types
                           /\ Item(i).do = "flush" => Item(i - 1).do \in {"wipe", "cursor"}
                           /\ Item(i).do = "cursor" /\ Wiping => Item(i - 1).do = "wipe")'
      BY <2>2 DEF Shape
    <3>2. i \in 1..N /\ i - 1 \in 1..N
      BY <1>4
    <3>3. QED
      BY <1>6, <2>2, <2>3, <3>2 DEF Flow, Rest, Shape
  <2>6. Emptied'
    <3>1. SUFFICES ASSUME conn, NEW k \in Keys, NEW j, Decides(j, k, N)'
                   PROVE  Value(j, k)' = Absent \/ Lags(k, Value(j, k)')
      BY <1>1, <1>3, <2>2 DEF Emptied
    <3>2. /\ j \in 0..N /\ (j # 0 => Touches(Item(j), k)') /\ \A l \in (j + 1)..N : ~(Touches(Item(l), k)')
      BY <2>2, <3>1 DEF Decides
    <3>3. \A l \in 2..N : (Touches(Item(l), k)' <=> Touches(Item(l), k)) /\ Outcome(Item(l))' = Outcome(Item(l))
      BY <2>2 DEF Touches, Outcome
    <3>4. CASE j \in 2..N
      <4>1. \A l \in (j + 1)..N : l \in 2..N
        BY <3>4
      <4>2. Decides(j, k, N) /\ Value(j, k)' = Value(j, k)
        BY <3>2, <3>3, <3>4, <4>1 DEF Decides, Value
      <4>3. QED
        BY <1>5, <3>1, <3>2, <4>2
    <3>5. CASE j = 1
      <4>1. Value(j, k)' = Absent
        BY <2>1, <2>2, <3>5 DEF Value, Outcome
      <4>2. QED
        BY <4>1
    <3>6. CASE j = 0
      <4>1. Value(j, k)' = rows'[k]
        BY <3>6 DEF Value
      <4>2. CASE TypeOf[k] = ty
        BY <1>6, <4>1, <4>2
      <4>3. CASE TypeOf[k] # ty
        <5>1. ~(Touches(Item(1), k)') /\ \A l \in 2..N : ~(Touches(Item(l), k)')
          BY <1>4, <3>2, <3>6
        <5>2. ~Touches(Item(1), k)
          BY <1>1, <1>4, <2>1, <2>2, <4>3, <5>1 DEF Touches
        <5>3. \A l \in 1..N : l = 1 \/ l \in 2..N
          BY <1>4
        <5>4. \A l \in 1..N : ~Touches(Item(l), k)
          BY <3>3, <5>1, <5>2, <5>3
        <5>5. 0 \in 0..N /\ 0 + 1 = 1
          BY <1>4
        <5>6. Decides(0, k, N) /\ Value(0, k) = rows[k]
          BY <5>4, <5>5 DEF Decides, Value
        <5>7. QED
          BY <1>5, <1>6, <3>1, <4>1, <4>3, <5>5, <5>6
      <4>4. QED
        BY <4>2, <4>3
    <3>7. QED
      BY <1>4, <3>2, <3>4, <3>5, <3>6
  <2>7. QED
    BY <1>3, <2>4, <2>5, <2>6 DEF Rest
<1>9. QED
  BY <1>7, <1>8

\* Everything in front of the flush is on disk, and the continuation goes on.
LEMMA FlushedFlow ==
  ASSUME TypeOK, TypeOK', Phases, Flow, Flush
  PROVE  Rest'
<1>1. /\ ops # <<>> /\ Head(ops).do = "flush" /\ ops' = Tail(ops) /\ Head(ops) = ops[1] /\ 1 \in 1..Len(ops)
      /\ tasks' = [tasks EXCEPT ![Head(ops).task] = [at |-> "acked"]]
      /\ UNCHANGED <<log, floor, undelivered, conn, requests, serving, chan, rows, cursor>>
  BY DEF Flush, Pop, TypeOK, serverVars, linkVars, idbVars
<1>2. PICK t \in TaskIds : t = Head(ops).task /\ tasks[t] = [at |-> "flushing"]
  <2>1. ops[1] \in Op
    BY <1>1 DEF TypeOK
  <2>2. QED
    BY <1>1, <2>1, OpType DEF Phases, Queue, FlushAwaited
<1>3. /\ requests = <<>> /\ serving = NotServing /\ NoReset /\ NoReset' /\ Refilling /\ Wiping
      /\ \A u \in TaskIds : tasks[u].at \in {"idle", "flushing"}
      /\ Asked' /\ Unusable' /\ Honest' /\ DeltaHonest' /\ BootHonest' /\ Opening'
      /\ Covered(cursor)' /\ serving'.for = "nobody"
      /\ \A k, v : Lags(k, v)' <=> Lags(k, v)
  BY <1>1, <1>2, Waits
<1>4. /\ N' \in Nat /\ N = N' + 1 /\ Item(1) = Head(ops) /\ 1 \in 1..N
      /\ \A i \in 1..N' : Item(i)' = Item(i + 1) /\ i + 1 \in 1..N
      /\ (Wiping' => Wiping) => Shape'
  BY <1>1, Advances
<1>m. PICK M \in Nat : M = N'
  BY <1>4
<1>5. N = M + 1 /\ M \in Nat /\ \A i \in 1..M : Item(i)' = Item(i + 1)
  BY <1>4, <1>m
<1>6. M \in 0..M /\ \A i \in 1..M : i + 1 \in 2..N /\ i + 1 \in 1..N
  BY <1>5
<1>7. ASSUME NEW i \in 2..N, Item(i).do = "cursor" PROVE FALSE
  <2>1. Item(i - 1).do = "wipe" /\ i - 1 \in 1..N
    BY <1>3, <1>5, <1>7 DEF Flow, Rest, Shape
  <2>2. i - 1 \in 1..Len(ops) /\ Item(i - 1) = ops[i - 1]
    <3>1. Len(ops) \in Nat /\ Len(chan) \in Nat /\ N = Len(ops) + Len(chan)
      BY ItemTypes
    <3>2. CASE ~(i - 1 <= Len(ops))
      <4>1. (i - 1) - Len(ops) \in 1..Len(chan) /\ Item(i - 1) = OpOf(chan[(i - 1) - Len(ops)])
        BY <2>1, <3>1, <3>2 DEF Item
      <4>2. chan[(i - 1) - Len(ops)] \in Frame /\ chan[(i - 1) - Len(ops)].is # "reset"
        BY <1>3, <4>1 DEF TypeOK, NoReset
      <4>3. Item(i - 1).do \in {"write", "cursor"}
        BY <4>1, <4>2 DEF OpOf, Frame, Reset, WriteOp, CursorOp
      <4>4. QED
        BY <2>1, <4>3
    <3>3. CASE i - 1 <= Len(ops)
      BY <2>1, <3>1, <3>3 DEF Item
    <3>4. QED
      BY <3>2, <3>3
  <2>3. PICK j \in 1..Len(ops) : j > i - 1 /\ ops[j].do = "flush"
    BY <2>1, <2>2 DEF Phases, Queue, WipeThenFlush
  <2>4. j = 1
    BY <1>1, <2>3 DEF Phases, Queue, OneFlush
  <2>5. QED
    BY <2>3, <2>4
<1>8. \A i \in 1..M : Item(i)'.do # "cursor"
  BY <1>5, <1>6, <1>7
<1>9. Positions' /\ ClaimAlone' /\ ClaimsHonest'
  BY <1>m, <1>3, <1>8 DEF Positions, ClaimAlone, ClaimsHonest
<1>10. Shape'
  BY <1>3, <1>4
<1>11. Emptied'
  <2>1. SUFFICES ASSUME conn, NEW k \in Keys, NEW j, Decides(j, k, M)'
                 PROVE  Value(j, k)' = Absent \/ Lags(k, Value(j, k)')
    BY <1>m, <1>1, <1>3 DEF Emptied
  <2>2. PICK x : x = Item(1) /\ x.do = "flush"
    BY <1>1, <1>4
  <2>3. rows'[k] = IF Touches(x, k) THEN Outcome(x) ELSE rows[k]
    BY <1>1, <2>2 DEF Touches
  <2>4. PICK l \in 0..N : Decides(l, k, N) /\ Value(j, k)' = Value(l, k)
    BY <1>5, <1>6, <2>1, <2>2, <2>3, DecidesGone
  <2>5. ~Plain
    BY <1>4, <2>2 DEF Plain
  <2>6. QED
    BY <1>3, <2>1, <2>4, <2>5 DEF Flow, Rest, Emptied
<1>12. QED
  BY <1>3, <1>9, <1>10, <1>11 DEF Rest


\* The queue has come to a claim, or to the rewind of a reset.
LEMMA SetFlow ==
  ASSUME TypeOK, TypeOK', Phases, Flow, SetCursor
  PROVE  Rest'
<1>1. /\ ops # <<>> /\ Head(ops).do = "cursor" /\ ops' = Tail(ops)
      /\ UNCHANGED <<log, floor, undelivered, conn, requests, serving, chan, tasks, rows>>
  BY DEF SetCursor, Pop, serverVars, linkVars
<1>2. /\ N' \in Nat /\ N = N' + 1 /\ Item(1) = Head(ops) /\ 1 \in 1..N
      /\ \A i \in 1..N' : Item(i)' = Item(i + 1) /\ i + 1 \in 1..N
      /\ (Wiping' => Wiping) => Shape'
      /\ \A k, v, c : Fresh(k, v, c)' <=> Fresh(k, v, c)
      /\ \A k, v : Lags(k, v)' <=> Lags(k, v)
      /\ \A c : Covered(c)' <=> Covered(c)
      /\ NoReset' <=> NoReset
  BY <1>1, Advances
<1>m. PICK M \in Nat : M = N'
  BY <1>2
<1>3. N = M + 1 /\ M \in Nat /\ \A i \in 1..M : Item(i)' = Item(i + 1)
  BY <1>2, <1>m
<1>4. M \in 0..M /\ \A i \in 1..M : i + 1 \in 1..N /\ i + 1 # 1 /\ i + 1 \in (1 + 1)..N
  BY <1>3
<1>5. PICK x \in Op : x = Item(1) /\ x = Head(ops) /\ x.do = "cursor" /\ x.id \in Nat
  BY <1>1, <1>2, ItemTypes, OpType
<1>6. /\ requests = <<>> /\ serving = NotServing /\ NoReset
      /\ \A t \in TaskIds : tasks[t].at \in {"idle", "flushing"}
      /\ x.id # 0 => \A t \in TaskIds : tasks[t] = Idle
      /\ \A j \in 1..N : Item(j).do = "cursor" => j = 1
  BY <1>2, <1>5 DEF Flow, Rest, ClaimAlone
<1>7. /\ NotServing.for = "nobody" /\ Idle.at = "idle" /\ Len(requests) = 0
      /\ ~Plain /\ floor \in Nat /\ cursor' \in Nat
  <2>1. NotServing.for = "nobody" /\ Idle.at = "idle" /\ Len(requests) = 0 /\ ~Plain
    BY <1>2, <1>5, <1>6 DEF NotServing, Idle, Plain
  <2>2. floor \in Nat /\ cursor' \in Nat
    BY DEF TypeOK
  <2>3. QED
    BY <2>1, <2>2
<1>8. \A i \in 1..M : Item(i)'.do # "cursor"
  BY <1>3, <1>4, <1>6
<1>9. /\ Refilling' <=> Refilling
      /\ x.id # 0 => ~Refilling
      /\ Wiping' <=> Wiping
      /\ ~Opens'
  BY <1>1, <1>2, <1>6, <1>7 DEF Refilling, Wiping, Opens
<1>10. cursor' = cursor \/ (cursor' = x.id /\ ~failedWrites)
  BY <1>5 DEF SetCursor
<1>11. x.id = 0 => ~Available(x.id)
  BY <1>7 DEF Available
<1>12. Positions'
  <2>1. Covered(cursor) /\ Covered(x.id)
    BY <1>2, <1>5 DEF Flow, Rest, Positions
  <2>2. Covered(cursor)'
    BY <1>1, <1>10, <2>1 DEF Covered
  <2>3. QED
    BY <1>m, <1>1, <1>6, <1>7, <1>8, <2>2 DEF Positions
<1>13. Asked' /\ ClaimAlone' /\ ClaimsHonest'
  BY <1>m, <1>1, <1>6, <1>7, <1>8 DEF Asked, ClaimAlone, ClaimsHonest
<1>14. Shape'
  BY <1>2, <1>9
<1>15. DeltaHonest' /\ BootHonest' /\ Opening'
  BY <1>1, <1>6, <1>7, <1>9 DEF DeltaHonest, BootHonest, Opening
<1>16. Unusable'
  <2>1. CASE cursor' = cursor
    BY <1>1, <1>6, <1>7, <1>9, <2>1 DEF Flow, Rest, Unusable, Available
  <2>2. CASE cursor' = x.id
    BY <1>1, <1>6, <1>7, <1>9, <1>11, <2>2 DEF Unusable, Available
  <2>3. QED
    BY <1>10, <2>1, <2>2
<1>17. Honest'
  <2>1. CASE cursor' = cursor
    <3>1. Available(cursor)' <=> Available(cursor)
      BY <1>1, <2>1 DEF Available
    <3>2. QED
      BY <1>m, <1>1, <1>2, <1>3, <1>4, <2>1, <3>1 DEF Flow, Rest, Honest
  <2>2. CASE cursor' = x.id /\ x.id = 0
    BY <1>1, <1>11, <2>2 DEF Honest, Available
  <2>3. CASE cursor' = x.id /\ x.id # 0 /\ ~failedWrites
    <3>1. /\ \A k \in Keys, j \in 0..N : Decides(j, k, 1 - 1) => Fresh(k, Value(j, k), x.id)
          /\ \A l \in (1 + 1)..N : Item(l).do = "write" => Fresh(Item(l).key, Item(l).val, x.id)
      BY <1>2, <1>5, <2>3 DEF Flow, Rest, ClaimsHonest
    <3>2. ASSUME NEW k \in Keys PROVE Fresh(k, rows[k], x.id)
      <4>1. 0 \in 0..N /\ 0 \in 0..(1 - 1) /\ \A l \in (0 + 1)..(1 - 1) : FALSE
        BY <1>3
      <4>2. Decides(0, k, 1 - 1)
        BY <4>1 DEF Decides
      <4>3. QED
        BY <3>1, <4>1, <4>2 DEF Value
    <3>3. \A i \in 1..M : Item(i)'.do = "write" => Fresh(Item(i)'.key, Item(i)'.val, x.id)
      BY <1>3, <1>4, <3>1
    <3>4. QED
      BY <1>m, <1>1, <1>2, <2>3, <3>2, <3>3 DEF Honest
  <2>4. QED
    BY <1>10, <2>1, <2>2, <2>3
<1>18. Emptied'
  <2>1. SUFFICES ASSUME conn, Refilling, NEW k \in Keys, NEW j, Decides(j, k, M)'
                 PROVE  Value(j, k)' = Absent \/ Lags(k, Value(j, k)')
    BY <1>m, <1>1, <1>2, <1>9 DEF Emptied
  <2>2. rows'[k] = IF Touches(x, k) THEN Outcome(x) ELSE rows[k]
    BY <1>1, <1>5 DEF Touches
  <2>3. PICK l \in 0..N : Decides(l, k, N) /\ Value(j, k)' = Value(l, k)
    BY <1>3, <1>4, <1>5, <2>1, <2>2, DecidesGone
  <2>4. QED
    BY <1>7, <2>1, <2>3 DEF Flow, Rest, Emptied
<1>19. QED
  BY <1>12, <1>13, <1>14, <1>15, <1>16, <1>17, <1>18 DEF Rest

-----------------------------------------------------------------------------
(***************************************************************************)
(* The theorem.                                                            *)
(***************************************************************************)
LEMMA FlowInit ==
  ASSUME Init
  PROVE  Flow
<1>1. /\ log = <<>> /\ floor = 0 /\ db = EmptyStore /\ undelivered = {} /\ conn = FALSE
      /\ requests = <<>> /\ serving = NotServing /\ chan = <<>> /\ tasks = [t \in TaskIds |-> Idle]
      /\ ops = <<>> /\ cursor = 0 /\ rows = EmptyStore
      /\ NotServing.for = "nobody" /\ Len(log) = 0
  BY DEF Init, NotServing
<1>2. N = 0 /\ NoReset /\ Len(requests) = 0 /\ \A t \in TaskIds : tasks[t].at = "idle"
  BY <1>1 DEF N, NoReset, Idle
<1>3. InOrder /\ Tables
  <2>1. \A k \in Keys : db[k] = Absent
    BY <1>1 DEF EmptyStore
  <2>2. \A k \in Keys : AsOf(k, db[k], Len(log))
    BY <1>1, <2>1 DEF AsOf
  <2>3. QED
    BY <1>1, <2>2 DEF InOrder, Tables
<1>4. ~Refilling /\ ~Wiping /\ ~Available(cursor) /\ Covered(cursor)
  BY <1>1, <1>2 DEF Refilling, Wiping, Available, Covered
<1>5. Positions /\ Asked /\ Unusable /\ ClaimAlone /\ Shape /\ ClaimsHonest
  BY <1>1, <1>2, <1>4 DEF Positions, Asked, Unusable, ClaimAlone, Shape, ClaimsHonest
<1>6. Honest /\ DeltaHonest /\ Opening /\ Emptied /\ BootHonest
  BY <1>1, <1>4 DEF Honest, DeltaHonest, Opening, Emptied, BootHonest
<1>7. QED
  BY <1>3, <1>5, <1>6 DEF Flow, Rest

LEMMA FlowStep ==
  ASSUME Gentle, TypeOK, TypeOK', Phases, Flow, [Next]_vars
  PROVE  Flow'
<1>1. InOrder' /\ Tables'
  BY OrderStep DEF Flow
<1>2. ASSUME \/ \E k \in Keys, o \in {"set", "del"} : Commit(k, o)
             \/ Prune \/ UNCHANGED vars
             \/ \E n \in undelivered : DeliverLive(n)
      PROVE  Rest'
  <2>1. ASSUME NEW k \in Keys, NEW o \in {"set", "del"}, Commit(k, o) PROVE Rest'
    BY <2>1, CommitFlow
  <2>2. ASSUME Prune \/ UNCHANGED vars PROVE Rest'
    BY <2>2, PruneFlow
  <2>3. ASSUME NEW n \in undelivered, DeliverLive(n) PROVE Rest'
    BY <2>3, LiveFlow
  <2>4. QED
    BY <1>2, <2>1, <2>2, <2>3
<1>3. ASSUME ServerNext PROVE Rest'
  <2>1. ASSUME StartDelta \/ StartBootstrap PROVE Rest'
    BY <2>1, StartFlow
  <2>2. ASSUME SendReset PROVE Rest'
    BY <2>2, ResetFlow
  <2>3. ASSUME ReadPage \/ AbandonStream PROVE Rest'
    BY <2>3, PageFlow
  <2>4. ASSUME SendEntry PROVE Rest'
    BY <2>4, EntryFlow
  <2>5. ASSUME FinishDelta \/ FinishBootstrap PROVE Rest'
    BY <2>5, FinishFlow
  <2>6. ASSUME ReadWatermark PROVE Rest'
    BY <2>6, WatermarkFlow
  <2>7. ASSUME NEW ty \in Types, ReadType(ty) PROVE Rest'
    BY <2>7, ListFlow
  <2>8. ASSUME SendRow PROVE Rest'
    BY <2>8, RowFlow
  <2>9. QED
    BY <1>3, <2>1, <2>2, <2>3, <2>4, <2>5, <2>6, <2>7, <2>8 DEF ServerNext
<1>4. ASSUME TabNext PROVE Rest'
  <2>1. ASSUME OnAction \/ OnComplete PROVE Rest'
    BY <2>1, TakenFlow
  <2>2. ASSUME NEW t \in TaskIds, OnReset(t) PROVE Rest'
    BY <2>2, OnResetFlow
  <2>3. ASSUME NEW t \in TaskIds, ReadCursor(t) \/ AskDelta(t) \/ AskBootstrap(t) PROVE Rest'
    BY <2>3, AskingFlow
  <2>4. ASSUME NEW t \in TaskIds, StartOver(t) PROVE Rest'
    BY <2>4, StartOverFlow
  <2>5. QED
    BY <1>4, <2>1, <2>2, <2>3, <2>4 DEF TabNext
<1>5. ASSUME WriterNext PROVE Rest'
  <2>1. ASSUME WriteRow PROVE Rest'
    BY <2>1, WrittenFlow
  <2>2. ASSUME WipeType PROVE Rest'
    BY <2>2, WipedFlow
  <2>3. ASSUME SetCursor PROVE Rest'
    BY <2>3, SetFlow
  <2>4. ASSUME Flush PROVE Rest'
    BY <2>4, FlushedFlow
  <2>5. QED
    BY <1>5, <2>1, <2>2, <2>3, <2>4 DEF WriterNext
<1>6. ASSUME (\E t \in TaskIds : Connect(t)) \/ Disconnect \/ Reload PROVE Rest'
  <2>1. ASSUME NEW t \in TaskIds, Connect(t) PROVE Rest'
    BY <2>1, ConnectFlow
  <2>2. ASSUME Disconnect PROVE Rest'
    BY <2>2, ClosingFlow DEF Disconnect, serverVars, idbVars
  <2>3. ASSUME Reload PROVE Rest'
    BY <2>3, ReloadFlow
  <2>4. QED
    BY <1>6, <2>1, <2>2, <2>3
<1>7. Rest'
  <2>1. CASE UNCHANGED vars
    BY <1>2, <2>1
  <2>2. CASE Next
    BY <1>2, <1>3, <1>4, <1>5, <1>6, <2>2 DEF Next
  <2>3. QED
    BY <2>1, <2>2
<1>8. QED
  BY <1>1, <1>7 DEF Flow

LEMMA FlowHolds == ASSUME Gentle PROVE Spec => []Flow
<1>1. Calm
  BY DEF Gentle, Calm
<1>2. Spec => []Phases
  BY <1>1, PhasesHold
<1>3. Init => Flow
  BY FlowInit
<1>4. TypeOK /\ TypeOK' /\ Phases /\ Flow /\ [Next]_vars => Flow'
  BY FlowStep
<1>5. QED
  BY <1>2, <1>3, <1>4, Typing, PTL DEF Spec

\* The cursor on disk never claims more than the cache on disk holds, in every
\* state and so wherever the tab dies, as long as frames come in the order of
\* the log, nothing is pruned under a delta, the socket does not reopen over
\* unfinished work, and no wipe and no reading of the cursor fails.  Writes may
\* fail, and reads of the log, and the connection at any moment.
THEOREM CursorNeverLies == ASSUME Gentle PROVE Spec => []CursorHonest
<1>1. Flow => CursorHonest
  BY DEF Flow, Rest, Honest, CursorHonest
<1>2. QED
  BY <1>1, FlowHolds, PTL
=============================================================================
