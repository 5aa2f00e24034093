----------------------------- MODULE SyncEngine -----------------------------
(***************************************************************************)
(* The leader tab's sync engine against one server: the write queue in     *)
(* front of IndexedDB (cache/idb_writer.rs), the message handler and the   *)
(* connect handler (cache/sync_engine.rs), and the server's bootstrap,     *)
(* delta and live streams for this tab's connection (routes/websocket.rs,  *)
(* websocket/manager.rs), up to and including crashes of the tab.          *)
(*                                                                         *)
(* Data is abstracted to positions in the server's sync log.  The content  *)
(* of a cache row is the number of the log entry that wrote it, or Absent. *)
(* A row is a (entity_type, entity_id) pair of the cache.  Broadcasts to   *)
(* other tabs ride the same queue and touch none of this state; module     *)
(* TabSync has them.                                                       *)
(***************************************************************************)
EXTENDS Naturals, Sequences, FiniteSets

CONSTANTS
  Keys,        \* cache rows
  Types,       \* all_cached_entity_types()
  TypeOf,      \* the entity type of a row
  TaskIds,     \* async continuations of the engine that can be pending at once
  BatchSize,   \* DELTA_BATCH_SIZE
  MaxBatches,  \* MAX_DELTA_BATCHES
  ChanCap,     \* WS_CHANNEL_CAPACITY
  MaxLog,      \* bound: entries ever committed
  MaxOps,      \* bound: length of the write queue
  Faults,      \* which operations may fail, see FaultKinds
  Races        \* which timing assumptions are dropped, see RaceKinds

(***************************************************************************)
(* "write": an upsert or a delete of one row; "wipe": delete_all_of_type;  *)
(* "cursor": a set_cursor that advances; "rewind": set_cursor("0");        *)
(* "read": reading the cursor on connect; "probe": is_sync_id_available;   *)
(* "watermark": get_latest_sync_id; "fetch": a data read of a stream.      *)
(***************************************************************************)
FaultKinds == {"write", "wipe", "cursor", "rewind", "read", "probe", "watermark", "fetch"}

(***************************************************************************)
(* "reconnect": the socket may reopen while work of the previous           *)
(* connection is still queued; "live": a catch-up read may overtake the    *)
(* live delivery of an entry it sees, and live deliveries each other;      *)
(* "drop": a live frame may be dropped for want of room after a bootstrap  *)
(* request was taken up and before its watermark is read; "prune": the log *)
(* may be pruned under a delta that is being streamed.                     *)
(***************************************************************************)
RaceKinds == {"reconnect", "live", "drop", "prune"}

ASSUME SyncEngineAssumption ==
  /\ Types # {}
  /\ TypeOf \in [Keys -> Types]
  /\ {BatchSize, MaxBatches, ChanCap} \subseteq Nat \ {0}
  /\ {MaxLog, MaxOps} \subseteq Nat
  /\ Faults \subseteq FaultKinds
  /\ Races \subseteq RaceKinds

VARIABLES
  log,          \* sync_log: Seq of [key, op]; an entry's index is its sync_id
  floor,        \* entries 1..floor have been pruned
  db,           \* the entity tables
  undelivered,  \* committed entries whose live frame is not on the channel yet
  conn,         \* the socket is open, and registered with the manager
  requests,     \* requests of this connection the server has not started on
  serving,      \* the catch-up stream being served on this connection
  chan,         \* frames on their way to the tab
  tasks,        \* the engine's async continuations
  ops,          \* the write queue
  failedWrites, \* run_writer's failed_writes > 0
  rows,         \* IndexedDB: entity_cache
  cursor,       \* IndexedDB: sync_cursors
  memory,       \* SyncStore: the in-memory lists
  initialized,  \* SyncStore: initialized
  claimed       \* the last SyncComplete this page applied, 0 when none holds

serverVars == <<log, floor, db, undelivered>>
linkVars   == <<conn, requests, serving, chan>>
idbVars    == <<rows, cursor>>
storeVars  == <<memory, initialized, claimed>>
vars == <<serverVars, linkVars, tasks, ops, failedWrites, idbVars, storeVars>>

-----------------------------------------------------------------------------
(***************************************************************************)
(* Values.                                                                 *)
(***************************************************************************)
Absent == 0
EmptyStore == [k \in Keys |-> Absent]

Entry == [key : Keys, op : {"set", "del"}]

\* What entry n leaves in the row it is about.
Content(n) == IF log[n].op = "set" THEN n ELSE Absent

\* v is what row k held after the first p entries of the log.
AsOf(k, v, p) ==
  IF v = Absent
  THEN \A n \in 1..p : log[n] = [key |-> k, op |-> "set"] =>
         \E m \in (n + 1)..p : log[m] = [key |-> k, op |-> "del"]
  ELSE /\ v \in 1..p
       /\ log[v] = [key |-> k, op |-> "set"]
       /\ \A m \in (v + 1)..p : log[m].key # k

\* v is what row k held at position c of the log, or at some later position.
Fresh(k, v, c) == \E p \in c..Len(log) : AsOf(k, v, p)

\* The server still serves a delta from c: is_sync_id_available.
Available(c) == c \in (floor + 1)..Len(log)

\* get_latest_sync_id: the highest id left in the log, 0 when none is.
Latest == IF floor = Len(log) THEN 0 ELSE Len(log)

\* WipeOp stands for the run of DeleteAllOfType ops one loop over the types
\* enqueues; left is what of it the writer has still to do.
WriteOp(k, v)  == [do |-> "write", key |-> k, val |-> v]
WipeOp(left)   == [do |-> "wipe", left |-> left]
CursorOp(c)    == [do |-> "cursor", id |-> c]
FlushOp(t)     == [do |-> "flush", task |-> t]
Op == [do : {"write"}, key : Keys, val : Nat] \cup [do : {"wipe"}, left : SUBSET Types]
        \cup [do : {"cursor"}, id : Nat] \cup [do : {"flush"}, task : TaskIds]

Action(k, v) == [is |-> "action", key |-> k, val |-> v]
Complete(c)  == [is |-> "complete", id |-> c]
Reset        == [is |-> "reset"]
Frame == [is : {"action"}, key : Keys, val : Nat] \cup [is : {"complete"}, id : Nat]
           \cup {Reset}

DeltaReq(c) == [ask |-> "delta", from |-> c]
BootReq     == [ask |-> "bootstrap"]
Request == [ask : {"delta"}, from : Nat] \cup {BootReq}

Idle == [at |-> "idle"]
Task == [at : {"idle", "reading", "flushing", "acked"}] \cup [at : {"decide"}, cur : Nat]

NotServing == [for |-> "nobody"]
Serving == {NotServing, [for |-> "reset"], [for |-> "watermark"]}
  \cup [for : {"delta"}, pos : 0..Len(log), page : Seq(1..Len(log)), batches : Nat, short : BOOLEAN]
  \cup [for : {"bootstrap"}, mark : Nat, unread : SUBSET Types, snap : SUBSET (Keys \X Nat)]

-----------------------------------------------------------------------------
Init ==
  /\ log = <<>>
  /\ floor = 0
  /\ db = EmptyStore
  /\ undelivered = {}
  /\ conn = FALSE
  /\ requests = <<>>
  /\ serving = NotServing
  /\ chan = <<>>
  /\ tasks = [t \in TaskIds |-> Idle]
  /\ ops = <<>>
  /\ failedWrites = FALSE
  /\ rows = EmptyStore
  /\ cursor = 0
  /\ memory = EmptyStore
  /\ initialized = TRUE
  /\ claimed = 0

-----------------------------------------------------------------------------
(***************************************************************************)
(* The server outside this connection.                                     *)
(***************************************************************************)

\* A mutation: the entity row and its sync_log entry commit together.
Commit(k, o) ==
  /\ Len(log) < MaxLog
  /\ o = "del" => db[k] # Absent
  /\ log' = Append(log, [key |-> k, op |-> o])
  /\ db' = [db EXCEPT ![k] = IF o = "set" THEN Len(log) + 1 ELSE Absent]
  /\ undelivered' = undelivered \cup {Len(log) + 1}
  /\ UNCHANGED <<floor, linkVars, tasks, ops, failedWrites, idbVars, storeVars>>

\* prune_old_entries: the entries past their retention are a prefix of the log.
Prune ==
  /\ "prune" \in Races \/ serving.for # "delta"
  /\ floor' \in (floor + 1)..Len(log)
  /\ UNCHANGED <<log, db, undelivered, linkVars, tasks, ops, failedWrites, idbVars, storeVars>>

\* The connection ends, on either side: what was in flight on it is gone.
CloseLink ==
  /\ conn' = FALSE
  /\ requests' = <<>>
  /\ serving' = NotServing
  /\ chan' = <<>>

CatchingUp == serving # NotServing

\* deliver_to_local_user: the live frame of a committed entry, delivered after
\* the commit, by a task of its own.
DeliverLive(n) ==
  /\ n \in undelivered
  /\ "live" \in Races \/ \A m \in undelivered : n <= m
  /\ undelivered' = undelivered \ {n}
  /\ \/ /\ conn
        /\ Len(chan) < ChanCap
        /\ chan' = Append(chan, Action(log[n].key, Content(n)))
        /\ UNCHANGED <<conn, requests, serving>>
     \/ /\ ~conn \/ (Len(chan) >= ChanCap /\ CatchingUp)
        /\ "drop" \in Races \/ serving.for # "watermark"
        /\ UNCHANGED linkVars
     \/ /\ conn
        /\ Len(chan) >= ChanCap
        /\ ~CatchingUp
        /\ CloseLink
  /\ UNCHANGED <<log, floor, db, tasks, ops, failedWrites, idbVars, storeVars>>

-----------------------------------------------------------------------------
(***************************************************************************)
(* The server's handlers, one request of a connection at a time.           *)
(***************************************************************************)
LivePrompt == "live" \in Races \/ undelivered = {}

ServerStep == UNCHANGED <<serverVars, conn, tasks, ops, failedWrites, idbVars, storeVars>>

\* Mutant: a send that does not wait for room.
SendAtOnce(frame) == chan' = Append(chan, frame)

\* send_sync_response: waits for room on the connection's channel.
Send(frame) ==
  /\ Len(chan) < ChanCap
  /\ chan' = Append(chan, frame)

\* handle_sync_delta raises the catch-up flag and looks the cursor up.
StartDelta ==
  /\ ~CatchingUp
  /\ requests # <<>>
  /\ Head(requests).ask = "delta"
  /\ LET from == Head(requests).from IN
       \/ /\ Available(from)
          /\ serving' = [for |-> "delta", pos |-> from, page |-> <<>>,
                         batches |-> 0, short |-> FALSE]
       \/ /\ ~Available(from) \/ "probe" \in Faults
          /\ serving' = [for |-> "reset"]
  /\ requests' = Tail(requests)
  /\ UNCHANGED chan
  /\ ServerStep

\* The cursor is not in the log: SyncReset, and nothing else.
SendReset ==
  /\ serving.for = "reset"
  /\ Send(Reset)
  /\ serving' = NotServing
  /\ UNCHANGED requests
  /\ ServerStep

\* drain_delta: fetch the next page.
ReadPage ==
  /\ serving.for = "delta"
  /\ serving.page = <<>>
  /\ ~serving.short
  /\ serving.batches < MaxBatches
  /\ LivePrompt
  /\ LET first == IF serving.pos < floor THEN floor ELSE serving.pos
         left  == Len(log) - first
         n     == IF left < BatchSize THEN left ELSE BatchSize
     IN serving' = [serving EXCEPT !.page = [i \in 1..n |-> first + i],
                                   !.batches = @ + 1,
                                   !.short = n < BatchSize]
  /\ UNCHANGED <<requests, chan>>
  /\ ServerStep

\* drain_delta: one entry of the page goes out.
SendEntry ==
  /\ serving.for = "delta"
  /\ serving.page # <<>>
  /\ LET n == Head(serving.page) IN
       /\ Send(Action(log[n].key, Content(n)))
       /\ serving' = [serving EXCEPT !.page = Tail(@), !.pos = n]
  /\ UNCHANGED requests
  /\ ServerStep

\* handle_sync_delta: Drained or CapExhausted.
FinishDelta ==
  /\ serving.for = "delta"
  /\ serving.page = <<>>
  /\ serving.short \/ serving.batches = MaxBatches
  /\ Send(Complete(serving.pos))
  /\ serving' = NotServing
  /\ UNCHANGED requests
  /\ ServerStep

\* handle_sync_bootstrap raises the catch-up flag.
StartBootstrap ==
  /\ ~CatchingUp
  /\ requests # <<>>
  /\ Head(requests).ask = "bootstrap"
  /\ serving' = [for |-> "watermark"]
  /\ requests' = Tail(requests)
  /\ UNCHANGED chan
  /\ ServerStep

\* handle_sync_bootstrap: the watermark is read before any data; a read that
\* fails counts as 0.
ReadWatermark ==
  /\ serving.for = "watermark"
  /\ LivePrompt
  /\ \E mark \in {Latest} \cup (IF "watermark" \in Faults THEN {0} ELSE {}) :
       serving' = [for |-> "bootstrap", mark |-> mark, unread |-> Types, snap |-> {}]
  /\ UNCHANGED <<requests, chan>>
  /\ ServerStep

\* fetch_bootstrap_data: one read per list.
ReadType(ty) ==
  /\ serving.for = "bootstrap"
  /\ ty \in serving.unread
  /\ serving' = [serving EXCEPT !.unread = @ \ {ty},
                   !.snap = @ \cup {<<k, db[k]>> : k \in {x \in Keys :
                                       TypeOf[x] = ty /\ db[x] # Absent}}]
  /\ UNCHANGED <<requests, chan>>
  /\ ServerStep

\* stream_bootstrap: nothing goes out until every list has been read.
SendRow ==
  /\ serving.for = "bootstrap"
  /\ serving.unread = {}
  /\ \E r \in serving.snap :
       /\ Send(Action(r[1], r[2]))
       /\ serving' = [serving EXCEPT !.snap = @ \ {r}]
  /\ UNCHANGED requests
  /\ ServerStep

FinishBootstrap ==
  /\ serving.for = "bootstrap"
  /\ serving.unread = {}
  /\ serving.snap = {}
  /\ Send(Complete(serving.mark))
  /\ serving' = NotServing
  /\ UNCHANGED requests
  /\ ServerStep

\* FetchFailed, UnusableEntity, or a list that cannot be read or encoded: the
\* handler returns without a SyncComplete.
AbandonStream ==
  /\ "fetch" \in Faults
  /\ \/ serving.for = "delta" /\ serving.page = <<>>
        /\ ~serving.short /\ serving.batches < MaxBatches
     \/ serving.for = "bootstrap" /\ (serving.unread # {} \/ serving.snap # {})
  /\ serving' = NotServing
  /\ UNCHANGED <<requests, chan>>
  /\ ServerStep

-----------------------------------------------------------------------------
(***************************************************************************)
(* The tab: the socket's message handler.                                  *)
(***************************************************************************)
Enqueue(s) ==
  /\ Len(ops) + Len(s) <= MaxOps
  /\ ops' = ops \o s

\* store.reset()
ResetStore ==
  /\ memory' = EmptyStore
  /\ initialized' = FALSE
  /\ claimed' = 0

Receive ==
  /\ chan # <<>>
  /\ chan' = Tail(chan)
  /\ UNCHANGED <<conn, requests, serving>>

\* Mutant: a delete is applied to memory only.
OnActionLeaking ==
  /\ Receive
  /\ Head(chan).is = "action"
  /\ IF Head(chan).val = Absent
     THEN UNCHANGED ops
     ELSE Enqueue(<<WriteOp(Head(chan).key, Head(chan).val)>>)
  /\ memory' = [memory EXCEPT ![Head(chan).key] = Head(chan).val]
  /\ UNCHANGED <<serverVars, tasks, failedWrites, idbVars, initialized, claimed>>

\* apply_sync_action: the cache write is queued, memory changes at once.
OnAction ==
  /\ Receive
  /\ Head(chan).is = "action"
  /\ Enqueue(<<WriteOp(Head(chan).key, Head(chan).val)>>)
  /\ memory' = [memory EXCEPT ![Head(chan).key] = Head(chan).val]
  /\ UNCHANGED <<serverVars, tasks, failedWrites, idbVars, initialized, claimed>>

OnComplete ==
  /\ Receive
  /\ Head(chan).is = "complete"
  /\ Enqueue(<<CursorOp(Head(chan).id)>>)
  /\ initialized' = TRUE
  /\ claimed' = Head(chan).id
  /\ UNCHANGED <<serverVars, tasks, failedWrites, idbVars, memory>>

\* Mutant: the cache is wiped and the bootstrap forgotten.
OnResetAndStop(t) ==
  /\ Receive
  /\ Head(chan).is = "reset"
  /\ tasks[t] = Idle
  /\ ResetStore
  /\ Enqueue(<<WipeOp(Types), CursorOp(0)>>)
  /\ UNCHANGED <<serverVars, tasks, failedWrites, idbVars>>

\* SyncReset: wipe, rewind, and ask for a bootstrap once both are on disk.
OnReset(t) ==
  /\ Receive
  /\ Head(chan).is = "reset"
  /\ tasks[t] = Idle
  /\ ResetStore
  /\ Enqueue(<<WipeOp(Types), CursorOp(0), FlushOp(t)>>)
  /\ tasks' = [tasks EXCEPT ![t] = [at |-> "flushing"]]
  /\ UNCHANGED <<serverVars, failedWrites, idbVars>>

-----------------------------------------------------------------------------
(***************************************************************************)
(* The tab: the connect handler and its continuations.  None of them looks *)
(* at the connection it was started for: ws.send() uses whichever socket   *)
(* is open by then, and drops the request when none is.                    *)
(***************************************************************************)
SendRequest(r) == requests' = IF conn THEN Append(requests, r) ELSE requests

\* The socket opens and the Connected effect spawns its task.
Connect(t) ==
  /\ ~conn
  /\ tasks[t] = Idle
  /\ "reconnect" \notin Races => (ops = <<>> /\ \A u \in TaskIds : tasks[u] = Idle)
  /\ conn' = TRUE
  /\ tasks' = [tasks EXCEPT ![t] = [at |-> "reading"]]
  /\ claimed' = 0
  /\ UNCHANGED <<serverVars, requests, serving, chan, ops, failedWrites, idbVars,
                 memory, initialized>>

\* get_last_sync_id; every failure reads as "no cursor".
ReadCursor(t) ==
  /\ tasks[t].at = "reading"
  /\ \E c \in {cursor} \cup (IF "read" \in Faults THEN {0} ELSE {}) :
       tasks' = [tasks EXCEPT ![t] = [at |-> "decide", cur |-> c]]
  /\ UNCHANGED <<serverVars, linkVars, ops, failedWrites, idbVars, storeVars>>

AskDelta(t) ==
  /\ tasks[t].at = "decide"
  /\ tasks[t].cur > 0
  /\ SendRequest(DeltaReq(tasks[t].cur))
  /\ tasks' = [tasks EXCEPT ![t] = Idle]
  /\ UNCHANGED <<serverVars, conn, serving, chan, ops, failedWrites, idbVars, storeVars>>

\* Mutant: the bootstrap is asked for without waiting for the wipe.
StartOverEagerly(t) ==
  /\ tasks[t].at = "decide"
  /\ tasks[t].cur = 0
  /\ ResetStore
  /\ Enqueue(<<WipeOp(Types)>>)
  /\ tasks' = [tasks EXCEPT ![t] = [at |-> "acked"]]
  /\ UNCHANGED <<serverVars, linkVars, failedWrites, idbVars>>

\* No cursor: start over from an empty store and an empty cache.
StartOver(t) ==
  /\ tasks[t].at = "decide"
  /\ tasks[t].cur = 0
  /\ ResetStore
  /\ Enqueue(<<WipeOp(Types), FlushOp(t)>>)
  /\ tasks' = [tasks EXCEPT ![t] = [at |-> "flushing"]]
  /\ UNCHANGED <<serverVars, linkVars, failedWrites, idbVars>>

AskBootstrap(t) ==
  /\ tasks[t].at = "acked"
  /\ SendRequest(BootReq)
  /\ tasks' = [tasks EXCEPT ![t] = Idle]
  /\ UNCHANGED <<serverVars, conn, serving, chan, ops, failedWrites, idbVars, storeVars>>

-----------------------------------------------------------------------------
(***************************************************************************)
(* run_writer: one op at a time, in order.                                 *)
(***************************************************************************)
Pop(kind) ==
  /\ ops # <<>>
  /\ Head(ops).do = kind
  /\ ops' = Tail(ops)
  /\ UNCHANGED <<serverVars, linkVars, storeVars>>

WriteRow ==
  /\ Pop("write")
  /\ \/ /\ rows' = [rows EXCEPT ![Head(ops).key] = Head(ops).val]
        /\ UNCHANGED failedWrites
     \/ /\ "write" \in Faults
        /\ failedWrites' = TRUE
        /\ UNCHANGED rows
  /\ UNCHANGED <<cursor, tasks>>

WipeType ==
  /\ ops # <<>>
  /\ Head(ops).do = "wipe"
  /\ \E ty \in Head(ops).left :
       /\ ops' = IF Head(ops).left = {ty}
                 THEN Tail(ops)
                 ELSE [ops EXCEPT ![1] = WipeOp(@.left \ {ty})]
       /\ \/ /\ rows' = [k \in Keys |-> IF TypeOf[k] = ty THEN Absent ELSE rows[k]]
             /\ failedWrites' = FALSE
          \/ /\ "wipe" \in Faults
             /\ UNCHANGED <<rows, failedWrites>>
  /\ UNCHANGED <<cursor, tasks, serverVars, linkVars, storeVars>>

\* Mutant: the cursor advances whatever became of the writes before it.
SetCursorAnyway ==
  /\ Pop("cursor")
  /\ cursor' = Head(ops).id
  /\ failedWrites' = FALSE
  /\ UNCHANGED <<rows, tasks>>

\* A failed entity write since the last cursor decision suppresses this one.
SetCursor ==
  /\ Pop("cursor")
  /\ \/ /\ ~failedWrites
        /\ cursor' = Head(ops).id
     \/ /\ failedWrites \/ (IF Head(ops).id = 0 THEN "rewind" ELSE "cursor") \in Faults
        /\ UNCHANGED cursor
  /\ failedWrites' = FALSE
  /\ UNCHANGED <<rows, tasks>>

\* Mutant: the acknowledgement is lost.
FlushSilently ==
  /\ Pop("flush")
  /\ UNCHANGED <<tasks, failedWrites, idbVars>>

Flush ==
  /\ Pop("flush")
  /\ tasks' = [tasks EXCEPT ![Head(ops).task] = [at |-> "acked"]]
  /\ UNCHANGED <<failedWrites, idbVars>>

-----------------------------------------------------------------------------
Disconnect ==
  /\ conn
  /\ CloseLink
  /\ UNCHANGED <<serverVars, tasks, ops, failedWrites, idbVars, storeVars>>

\* The tab dies and a page is loaded again: only IndexedDB survives, and the
\* store is hydrated from it before the socket is dialed.
Reload ==
  /\ CloseLink
  /\ tasks' = [t \in TaskIds |-> Idle]
  /\ ops' = <<>>
  /\ failedWrites' = FALSE
  /\ memory' = rows
  /\ initialized' = TRUE
  /\ claimed' = 0
  /\ UNCHANGED <<serverVars, idbVars>>

ServerNext ==
  \/ StartDelta \/ SendReset \/ ReadPage \/ SendEntry \/ FinishDelta \/ AbandonStream
  \/ StartBootstrap \/ ReadWatermark \/ (\E ty \in Types : ReadType(ty)) \/ SendRow \/ FinishBootstrap

TabNext ==
  \/ OnAction \/ OnComplete
  \/ \E t \in TaskIds : OnReset(t) \/ ReadCursor(t) \/ AskDelta(t) \/ StartOver(t) \/ AskBootstrap(t)

WriterNext == WriteRow \/ WipeType \/ SetCursor \/ Flush

Next ==
  \/ \E k \in Keys, o \in {"set", "del"} : Commit(k, o)
  \/ Prune
  \/ \E n \in undelivered : DeliverLive(n)
  \/ ServerNext \/ TabNext \/ WriterNext
  \/ \E t \in TaskIds : Connect(t)
  \/ Disconnect \/ Reload

Spec == Init /\ [][Next]_vars

-----------------------------------------------------------------------------
(***************************************************************************)
(* The scheduling: the server's task for the connection, its delivery of   *)
(* live frames, the browser's event loop and its writer task keep running  *)
(* while they have something to do.  Nothing makes a client commit, a      *)
(* connection fail or a tab die.                                           *)
(***************************************************************************)
FairSpec ==
  /\ Spec
  /\ WF_vars(\E n \in undelivered : DeliverLive(n))
  /\ WF_vars(ServerNext)
  /\ WF_vars(TabNext)
  /\ WF_vars(WriterNext)

-----------------------------------------------------------------------------
\* The state of every variable is of its type, and the connection's channel
\* never holds more than its capacity (manager.rs: WS_CHANNEL_CAPACITY).
TypeOK ==
  /\ log \in Seq(Entry)
  /\ floor \in 0..Len(log)
  /\ db \in [Keys -> Nat]
  /\ undelivered \subseteq 1..Len(log)
  /\ conn \in BOOLEAN
  /\ requests \in Seq(Request)
  /\ serving \in Serving
  /\ chan \in Seq(Frame)
  /\ Len(chan) <= ChanCap
  /\ tasks \in [TaskIds -> Task]
  /\ ops \in Seq(Op)
  /\ failedWrites \in BOOLEAN
  /\ rows \in [Keys -> Nat]
  /\ cursor \in Nat
  /\ memory \in [Keys -> Nat]
  /\ initialized \in BOOLEAN
  /\ claimed \in Nat

\* The cursor on disk never claims more than the cache on disk holds: as long
\* as the server would still serve a delta from it, every row holds what it held
\* at that point of the log, or at a later one.  Otherwise an entity is missing
\* or stale and no delta will ever bring it (idb_writer.rs: failed_writes;
\* sync_engine.rs: "the cursor can never overtake the entity writes it claims to
\* cover").  It must hold in every state, because a tab may die in every state.
CursorHonest == Available(cursor) => \A k \in Keys : Fresh(k, rows[k], cursor)

\* No wipe is left in the write queue when the server streams a bootstrap, or it
\* would land on top of freshly streamed rows (sync_engine.rs: "The clears must
\* complete before the server starts streaming").
NoWipeUnderBootstrap ==
  serving.for = "bootstrap" => \A i \in 1..Len(ops) : ops[i].do # "wipe"

\* What the writer leaves in a row an op is about.
Touches(o, k) == \/ o.do = "write" /\ o.key = k
                 \/ o.do = "wipe" /\ TypeOf[k] \in o.left
Outcome(o) == IF o.do = "write" THEN o.val ELSE Absent

\* Row k holds v once the writer has drained the queue, if nothing fails.
SettlesAt(k, v) ==
  \/ /\ \A i \in 1..Len(ops) : ~Touches(ops[i], k)
     /\ v = rows[k]
  \/ \E i \in 1..Len(ops) :
       /\ Touches(ops[i], k)
       /\ \A j \in (i + 1)..Len(ops) : ~Touches(ops[j], k)
       /\ v = Outcome(ops[i])

NoGap(k) == SettlesAt(k, memory[k])

WriteFails == (WriteRow \/ WipeType) /\ UNCHANGED rows

\* The cache lags the screen by exactly what is in the queue: whatever order
\* streams, live frames, resets and reconnects come in, draining the queue
\* leaves on disk what the user saw, and only a write that failed in the
\* database makes the two differ (sync_engine.rs, apply_sync_action:
\* "persistence is ordered behind every earlier queued op").
QueueClosesTheGap == [][\A k \in Keys : NoGap(k) => NoGap(k)' \/ WriteFails]_vars

\* A connection that stays up is answered: the tab that opened it is brought up
\* to some point of the log, through a delta, a bootstrap, or a reset and a
\* bootstrap, unless the whole log is pruned meanwhile and there is nothing to
\* claim; and this whatever writes fail (idb_writer.rs, CacheDbSink: "flushes still
\* resolve so the sync handshake proceeds").
Answered ==
  \A t \in TaskIds :
    (conn /\ tasks[t].at = "reading" /\ log # <<>>)
      ~> (claimed > 0 \/ ~conn \/ floor = Len(log))

\* A store that was reset is filled again: while the connection stays up, pages
\* that wait on initialized do not sit in their skeleton state forever.
Refilled == (conn /\ ~initialized) ~> (initialized \/ ~conn)

=============================================================================
