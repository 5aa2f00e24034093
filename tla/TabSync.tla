------------------------------- MODULE TabSync -------------------------------
(***************************************************************************)
(* The tabs of one browser on one workspace: the election of the one that  *)
(* syncs (cache/tab_leader.rs), the hydration of each tab from the cache   *)
(* they share and the gate it opens (cache/hydration_gate.rs), the queue   *)
(* of broadcast messages held until then (cache/broadcast_queue.rs), the   *)
(* write queue that publishes what it has written (cache/idb_writer.rs),   *)
(* and the route a delete takes to the cache (cache/delete_route.rs), as   *)
(* the Layout wires them (components/layout.rs).                           *)
(*                                                                         *)
(* Module SyncEngine has the connection of the leader in detail.  Here it  *)
(* is the log of the server read in order, and a key is one row of a list  *)
(* of its own.                                                             *)
(***************************************************************************)
EXTENDS Naturals, Sequences, FiniteSets

CONSTANTS
  Tabs,      \* the tabs that can be open on the workspace
  Keys,      \* cache rows, each in a list of its own
  NoTab,     \* nobody
  Scenarios  \* the environments to consider, see Scenario

(***************************************************************************)
(* What is done to a row besides editing it.  "delete": delete a project   *)
(* or a team; "leave": leave a team, after which it is gone for this user; *)
(* "rejoin": become a member again; "prune": old entries of the log go.    *)
(***************************************************************************)
GestureKinds == {"delete", "leave", "rejoin", "prune"}

\* "write": an upsert or a delete of one row; "hydrate": reading a list.
FaultKinds == {"write", "hydrate"}

\* "slow": a new leader may hear from the server before it has received what
\* the leader before it broadcast.
RaceKinds == {"slow"}

\* The rest are bounds: entries ever committed, pages ever loaded, and connections
\* lost by a tab that lives on.
Scenario ==
  [gestures : SUBSET GestureKinds, faults : SUBSET FaultKinds, races : SUBSET RaceKinds,
   log : Nat, opens : Nat, drops : Nat]

ASSUME TabSyncAssumption ==
  /\ NoTab \notin Tabs
  /\ Scenarios \subseteq Scenario

VARIABLES
  scenario,     \* the environment this behaviour has, the same throughout
  log,          \* sync_log as this user sees it: Seq of [key, op, live]
  floor,        \* entries 1..floor have been pruned
  rows,         \* IndexedDB: entity_cache
  cursor,       \* IndexedDB: sync_cursors
  life,         \* per tab: "closed", "hydrating", or "open" once its gate is
  unread,       \* per tab: the lists hydration has not replaced yet
  fetched,      \* per tab: the list it has read and not replaced yet
  memory,       \* per tab: SyncStore, the in-memory lists
  initialized,  \* per tab: SyncStore, initialized
  inbox,        \* per tab: messages on the BroadcastChannel, in order
  held,         \* per tab: BroadcastQueue, pending
  awaiting,     \* <<t, k>>: tab t awaits the server's answer to its delete of k
  lock,         \* the tab that holds the Web Lock
  engine,       \* the tab whose sync engine and cache writer run
  ops,          \* its write queue
  failedWrites, \* run_writer's failed_writes > 0
  stream,       \* its connection
  opens,        \* pages loaded so far
  drops         \* connections lost so far

serverVars == <<scenario, log, floor>>
idbVars    == <<rows, cursor>>
pageVars   == <<life, unread, fetched>>
storeVars  == <<memory, initialized>>
roleVars   == <<lock, engine>>
queueVars  == <<ops, failedWrites>>
boundVars  == <<opens, drops>>
vars == <<serverVars, idbVars, pageVars, storeVars, inbox, held, awaiting,
          roleVars, queueVars, stream, boundVars>>

-----------------------------------------------------------------------------
Absent == 0
EmptyStore == [k \in Keys |-> Absent]

Entry == [key : Keys, op : {"set", "del"}, live : BOOLEAN]

Last(S) == CHOOSE i \in S : \A j \in S : j <= i

\* What row k holds after the first p entries of the log.
Val(k, p) ==
  LET about == {n \in 1..p : log[n].key = k}
  IN IF about # {} /\ log[Last(about)].op = "set" THEN Last(about) ELSE Absent

Current(k) == Val(k, Len(log))

\* v is what row k held at position c of the log, or at some later position.
Fresh(k, v, c) == \E p \in c..Len(log) : Val(k, p) = v

\* The server still serves a delta from c.
Available(c) == c \in (floor + 1)..Len(log)

\* SyncBroadcastMessage.
Action(k, v)   == [is |-> "action", key |-> k, val |-> v]
Complete       == [is |-> "complete"]
Reset          == [is |-> "reset"]
CacheDelete(k) == [is |-> "cache_delete", key |-> k]
Message == [is : {"action"}, key : Keys, val : Nat] \cup [is : {"cache_delete"}, key : Keys]
             \cup {Complete, Reset}

\* IdbOp; WipeOp is the loop of DeleteAllOfType over the types.
WriteOp(k, v) == [do |-> "write", key |-> k, val |-> v]
WipeOp        == [do |-> "wipe"]
CursorOp(c)   == [do |-> "cursor", id |-> c]
NotifyOp(m)   == [do |-> "notify", msg |-> m]
FlushOp       == [do |-> "flush"]
Op == [do : {"write"}, key : Keys, val : Nat] \cup [do : {"cursor"}, id : Nat]
        \cup [do : {"notify"}, msg : Message] \cup {WipeOp, FlushOp}

(***************************************************************************)
(* The leader's connection.  Catching: entries up to mark, or the rows of  *)
(* left as they were at mark, are owed, and a SyncComplete(claim) after.   *)
(* Later entries come as live frames.                                      *)
(***************************************************************************)
Down     == [at |-> "down"]
Flushing == [at |-> "flushing"]
Catching(p, l) ==
  [at |-> "up", pos |-> p, mark |-> Len(log), left |-> l, done |-> FALSE,
   claim |-> IF floor = Len(log) THEN 0 ELSE Len(log)]
Stream == {Down, Flushing}
  \cup [at : {"up"}, pos : Nat, mark : Nat, left : SUBSET Keys, done : BOOLEAN,
      claim : Nat]

Nothing == <<>>

-----------------------------------------------------------------------------
Init ==
  /\ scenario \in Scenarios
  /\ log = <<>>
  /\ floor = 0
  /\ rows = EmptyStore
  /\ cursor = 0
  /\ life = [t \in Tabs |-> "closed"]
  /\ unread = [t \in Tabs |-> {}]
  /\ fetched = [t \in Tabs |-> Nothing]
  /\ memory = [t \in Tabs |-> EmptyStore]
  /\ initialized = [t \in Tabs |-> FALSE]
  /\ inbox = [t \in Tabs |-> <<>>]
  /\ held = [t \in Tabs |-> <<>>]
  /\ awaiting = {}
  /\ lock = NoTab
  /\ engine = NoTab
  /\ ops = <<>>
  /\ failedWrites = FALSE
  /\ stream = Down
  /\ opens = 0
  /\ drops = 0

-----------------------------------------------------------------------------
(***************************************************************************)
(* The server.  An id that was deleted is never used again; a membership   *)
(* can come back.                                                          *)
(***************************************************************************)
Gone(k) == \E n \in DOMAIN log : log[n] = [key |-> k, op |-> "del", live |-> TRUE]
Left(k) == \E n \in DOMAIN log : log[n] = [key |-> k, op |-> "del", live |-> FALSE]

Record(k, o, l) ==
  /\ Len(log) < scenario.log
  /\ log' = Append(log, [key |-> k, op |-> o, live |-> l])
  /\ UNCHANGED <<scenario, floor, idbVars, pageVars, storeVars, inbox, held, roleVars, queueVars,
                 stream, boundVars>>

\* Somebody creates, edits or deletes what row k is about; of a team this user has
\* left, no change is theirs to see.
Commit(k) ==
  /\ ~Gone(k)
  /\ Left(k) => Current(k) # Absent
  /\ \/ Record(k, "set", TRUE)
     \/ Current(k) # Absent /\ Record(k, "del", TRUE)
  /\ UNCHANGED awaiting

\* write_membership_sync_entry: logged, and no live frame.
Rejoin(k) ==
  /\ "rejoin" \in scenario.gestures
  /\ Left(k)
  /\ ~Gone(k)
  /\ Current(k) = Absent
  /\ Record(k, "set", FALSE)
  /\ UNCHANGED awaiting

\* The server function behind a "Delete" or a "Leave" button of tab t.
Click(t, k) ==
  /\ life[t] # "closed"
  /\ memory[t][k] # Absent
  /\ Current(k) # Absent
  /\ \/ "delete" \in scenario.gestures /\ Record(k, "del", TRUE)
     \/ "leave" \in scenario.gestures /\ Record(k, "del", FALSE)
  /\ awaiting' = awaiting \cup {<<t, k>>}

Prune ==
  /\ "prune" \in scenario.gestures
  /\ floor' \in (floor + 1)..Len(log)
  /\ UNCHANGED <<scenario, log, idbVars, pageVars, storeVars, inbox, held, awaiting, roleVars,
                 queueVars, stream, boundVars>>

-----------------------------------------------------------------------------
(***************************************************************************)
(* Messages between tabs.                                                  *)
(***************************************************************************)

\* A BroadcastChannel delivers to every tab but the one that posted.
Posted(t, m) ==
  [u \in Tabs |-> IF u # t /\ life[u] # "closed" THEN Append(inbox[u], m) ELSE inbox[u]]

\* apply_broadcast_to_memory, over a sequence of messages.
Replay(mem, s) ==
  [k \in Keys |->
     LET touching == {i \in DOMAIN s : s[i].is = "reset" \/ (s[i].is = "action" /\ s[i].key = k)}
     IN IF touching = {} THEN mem[k]
        ELSE IF s[Last(touching)].is = "action" THEN s[Last(touching)].val
        ELSE Absent]

ReplayInitialized(i, s) ==
  LET touching == {j \in DOMAIN s : s[j].is \in {"reset", "complete"}}
  IN IF touching = {} THEN i ELSE s[Last(touching)].is = "complete"

\* The numbers in S, in increasing order.
InOrder(S) ==
  CHOOSE f \in [1..Cardinality(S) -> S] : \A i, j \in DOMAIN f : i < j => f[i] < f[j]

\* enqueue_broadcast_cache_writes, over a sequence of messages.
CacheWrites(s) ==
  LET asked == InOrder({i \in DOMAIN s : s[i].is = "cache_delete"})
  IN [n \in DOMAIN asked |-> WriteOp(s[asked[n]].key, Absent)]

\* apply_broadcast of the messages s in tab t, whose memory is mem: only the tab
\* that owns the writer performs the deletes it is asked for.
Apply(t, mem, init, s) ==
  /\ memory' = [memory EXCEPT ![t] = Replay(mem, s)]
  /\ initialized' = [initialized EXCEPT ![t] = ReplayInitialized(init, s)]
  /\ ops' = IF engine = t THEN ops \o CacheWrites(s) ELSE ops

\* Mutant: a message is applied while hydration is still replacing lists.
DeliverAtOnce(t) ==
  /\ inbox[t] # <<>>
  /\ inbox' = [inbox EXCEPT ![t] = Tail(@)]
  /\ Apply(t, memory[t], initialized[t], <<Head(inbox[t])>>)
  /\ UNCHANGED <<serverVars, idbVars, pageVars, held, awaiting, roleVars, failedWrites,
                 stream, boundVars>>

\* Mutant: nobody performs the deletes other tabs ask for.
DeliverToMemory(t) ==
  /\ inbox[t] # <<>>
  /\ inbox' = [inbox EXCEPT ![t] = Tail(@)]
  /\ IF life[t] = "hydrating"
     THEN /\ held' = [held EXCEPT ![t] = Append(@, Head(inbox[t]))]
          /\ UNCHANGED storeVars
     ELSE /\ memory' = [memory EXCEPT ![t] = Replay(@, <<Head(inbox[t])>>)]
          /\ initialized' = [initialized EXCEPT ![t] = ReplayInitialized(@, <<Head(inbox[t])>>)]
          /\ UNCHANGED held
  /\ UNCHANGED <<serverVars, idbVars, pageVars, awaiting, roleVars, queueVars, stream, boundVars>>

\* BroadcastQueue: deliver.
Deliver(t) ==
  /\ inbox[t] # <<>>
  /\ inbox' = [inbox EXCEPT ![t] = Tail(@)]
  /\ \/ /\ life[t] = "hydrating"
        /\ held' = [held EXCEPT ![t] = Append(@, Head(inbox[t]))]
        /\ UNCHANGED <<storeVars, ops>>
     \/ /\ life[t] = "open"
        /\ Apply(t, memory[t], initialized[t], <<Head(inbox[t])>>)
        /\ UNCHANGED held
  /\ UNCHANGED <<serverVars, idbVars, pageVars, awaiting, roleVars, failedWrites, stream,
                 boundVars>>

-----------------------------------------------------------------------------
(***************************************************************************)
(* The life of a tab.                                                      *)
(***************************************************************************)

\* The page is loaded: hydration starts, the subscription goes up and the lock
\* is asked for, in one synchronous block.
Open(t) ==
  /\ life[t] = "closed"
  /\ opens < scenario.opens
  /\ opens' = opens + 1
  /\ life' = [life EXCEPT ![t] = "hydrating"]
  /\ unread' = [unread EXCEPT ![t] = Keys]
  /\ UNCHANGED <<serverVars, idbVars, fetched, storeVars, inbox, held, awaiting, roleVars,
                 queueVars, stream, drops>>

HydrationStep ==
  UNCHANGED <<serverVars, idbVars, inbox, held, awaiting, roleVars, queueVars, stream,
              initialized, boundVars, life>>

\* hydrate_store_from_db: read_all of one list...
FetchList(t, k) ==
  /\ k \in unread[t]
  /\ fetched[t] = Nothing
  /\ fetched' = [fetched EXCEPT ![t] = <<k, rows[k]>>]
  /\ UNCHANGED <<unread, memory>>
  /\ HydrationStep

\* ... and set_* of it, a turn of the event loop later.
SetList(t) ==
  /\ fetched[t] # Nothing
  /\ memory' = [memory EXCEPT ![t][fetched[t][1]] = fetched[t][2]]
  /\ unread' = [unread EXCEPT ![t] = @ \ {fetched[t][1]}]
  /\ fetched' = [fetched EXCEPT ![t] = Nothing]
  /\ HydrationStep

\* A list that cannot be read is left as it is; all of them when the database
\* cannot be opened.
SkipList(t, k) ==
  /\ "hydrate" \in scenario.faults
  /\ k \in unread[t]
  /\ fetched[t] = Nothing
  /\ unread' = [unread EXCEPT ![t] = @ \ {k}]
  /\ UNCHANGED <<fetched, memory>>
  /\ HydrationStep

Hydrated(t) == life[t] = "hydrating" /\ unread[t] = {}

\* Mutant: the gate opens and the backlog stays where it is.
FinishHydrationHolding(t) ==
  /\ Hydrated(t)
  /\ life' = [life EXCEPT ![t] = "open"]
  /\ initialized' = [initialized EXCEPT ![t] = TRUE]
  /\ UNCHANGED <<serverVars, idbVars, unread, fetched, memory, inbox, held, awaiting,
                 roleVars, queueVars, stream, boundVars>>

\* hydrate_then_open_gate returns, and release_when_hydrated drains the backlog.
FinishHydration(t) ==
  /\ Hydrated(t)
  /\ life' = [life EXCEPT ![t] = "open"]
  /\ Apply(t, memory[t], TRUE, held[t])
  /\ held' = [held EXCEPT ![t] = <<>>]
  /\ UNCHANGED <<serverVars, idbVars, unread, fetched, inbox, awaiting, roleVars,
                 failedWrites, stream, boundVars>>

\* The browser grants the lock to a tab that waits for it.
Grant(t) ==
  /\ lock = NoTab
  /\ life[t] # "closed"
  /\ lock' = t
  /\ UNCHANGED <<serverVars, idbVars, pageVars, storeVars, inbox, held, awaiting, engine,
                 queueVars, stream, boundVars>>

\* The Layout's effect re-runs: start_sync_engine, the owned route, the writer.
StartEngine(t) ==
  /\ lock = t
  /\ engine = NoTab
  /\ engine' = t
  /\ UNCHANGED <<serverVars, idbVars, pageVars, storeVars, inbox, held, awaiting, lock,
                 queueVars, stream, boundVars>>

\* Mutant: the tab's lock is not released.
CloseLocked(t) ==
  /\ life[t] # "closed"
  /\ life' = [life EXCEPT ![t] = "closed"]
  /\ unread' = [unread EXCEPT ![t] = {}]
  /\ fetched' = [fetched EXCEPT ![t] = Nothing]
  /\ memory' = [memory EXCEPT ![t] = EmptyStore]
  /\ initialized' = [initialized EXCEPT ![t] = FALSE]
  /\ inbox' = [inbox EXCEPT ![t] = <<>>]
  /\ held' = [held EXCEPT ![t] = <<>>]
  /\ awaiting' = {a \in awaiting : a[1] # t}
  /\ UNCHANGED <<serverVars, idbVars, roleVars, queueVars, stream, boundVars>>

\* The tab is closed, or dies: with it its lock, its queue and its connection.
Close(t) ==
  /\ life[t] # "closed"
  /\ life' = [life EXCEPT ![t] = "closed"]
  /\ unread' = [unread EXCEPT ![t] = {}]
  /\ fetched' = [fetched EXCEPT ![t] = Nothing]
  /\ memory' = [memory EXCEPT ![t] = EmptyStore]
  /\ initialized' = [initialized EXCEPT ![t] = FALSE]
  /\ inbox' = [inbox EXCEPT ![t] = <<>>]
  /\ held' = [held EXCEPT ![t] = <<>>]
  /\ awaiting' = {a \in awaiting : a[1] # t}
  /\ lock' = IF lock = t THEN NoTab ELSE lock
  /\ IF engine = t
     THEN /\ engine' = NoTab
          /\ ops' = <<>>
          /\ failedWrites' = FALSE
          /\ stream' = Down
     ELSE UNCHANGED <<engine, queueVars, stream>>
  /\ UNCHANGED <<serverVars, idbVars, boundVars>>

\* remove_team, remove_project: the server has answered; memory at once, the
\* cache through the route.
UiRemove(t, k) ==
  /\ <<t, k>> \in awaiting
  /\ awaiting' = awaiting \ {<<t, k>>}
  /\ memory' = [memory EXCEPT ![t][k] = Absent]
  /\ \/ /\ engine = t
        /\ ops' = Append(ops, WriteOp(k, Absent))
        /\ UNCHANGED inbox
     \/ /\ engine # t
        /\ inbox' = Posted(t, CacheDelete(k))
        /\ UNCHANGED ops
  /\ UNCHANGED <<serverVars, idbVars, pageVars, initialized, held, roleVars, failedWrites,
                 stream, boundVars>>

-----------------------------------------------------------------------------
(***************************************************************************)
(* The leader's engine and its connection.                                 *)
(***************************************************************************)
EngineStep ==
  UNCHANGED <<serverVars, idbVars, pageVars, inbox, held, awaiting, roleVars, failedWrites>>

\* dial_when_hydrated, and the reconnects after it.
MayDial(t) ==
  /\ engine = t
  /\ life[t] = "open"
  /\ stream = Down
  /\ ops = <<>>
  /\ "slow" \in scenario.races \/ \A i \in DOMAIN inbox[t] : inbox[t][i].is = "cache_delete"

\* The cursor is on record and the server can serve a delta from it.
Resume(t) ==
  /\ MayDial(t)
  /\ Available(cursor)
  /\ stream' = Catching(cursor, {})
  /\ UNCHANGED <<storeVars, ops, boundVars>>
  /\ EngineStep

\* Mutant: the others are not told.
StartOverSilently(t) ==
  /\ MayDial(t)
  /\ ~Available(cursor)
  /\ memory' = [memory EXCEPT ![t] = EmptyStore]
  /\ initialized' = [initialized EXCEPT ![t] = FALSE]
  /\ ops' = IF cursor = 0 THEN <<WipeOp, FlushOp>> ELSE <<WipeOp, CursorOp(0), FlushOp>>
  /\ stream' = Flushing
  /\ UNCHANGED boundVars
  /\ EngineStep

\* No cursor, or a SyncReset in answer to it: wipe, tell the others, and wait
\* for both to be done before asking for a bootstrap.
StartOver(t) ==
  /\ MayDial(t)
  /\ ~Available(cursor)
  /\ memory' = [memory EXCEPT ![t] = EmptyStore]
  /\ initialized' = [initialized EXCEPT ![t] = FALSE]
  /\ ops' = IF cursor = 0 THEN <<WipeOp, NotifyOp(Reset), FlushOp>>
            ELSE <<WipeOp, CursorOp(0), NotifyOp(Reset), FlushOp>>
  /\ stream' = Flushing
  /\ UNCHANGED boundVars
  /\ EngineStep

\* Mutant: the others are told before the write is queued.
ReceiveActionTelling(t, k, v) ==
  /\ memory' = [memory EXCEPT ![t][k] = v]
  /\ ops' = ops \o <<NotifyOp(Action(k, v)), WriteOp(k, v)>>
  /\ UNCHANGED <<initialized, boundVars>>
  /\ EngineStep

\* apply_sync_action: cache writes first, so the broadcast is ordered behind them.
ReceiveAction(t, k, v) ==
  /\ memory' = [memory EXCEPT ![t][k] = v]
  /\ ops' = ops \o <<WriteOp(k, v), NotifyOp(Action(k, v))>>
  /\ UNCHANGED <<initialized, boundVars>>
  /\ EngineStep

Streaming(t) == engine = t /\ stream.at = "up"

\* The next entry of the delta, or a live frame, if the next entry has one.
NextEntry(t) ==
  /\ Streaming(t)
  /\ stream.left = {}
  /\ stream.pos < Len(log)
  /\ stream' = [stream EXCEPT !.pos = @ + 1]
  /\ LET n == stream.pos + 1 IN
       \/ /\ n <= stream.mark \/ log[n].live
          /\ ReceiveAction(t, log[n].key, Val(log[n].key, n))
       \/ /\ n > stream.mark /\ ~log[n].live
          /\ UNCHANGED <<storeVars, ops, boundVars>>
          /\ EngineStep

\* The next row of the bootstrap.
NextRow(t) ==
  /\ Streaming(t)
  /\ \E k \in stream.left :
       /\ stream' = [stream EXCEPT !.left = @ \ {k}]
       /\ ReceiveAction(t, k, Val(k, stream.mark))

\* SyncComplete: the cursor, and then the others are told.
CompleteStream(t) ==
  /\ Streaming(t)
  /\ stream.left = {}
  /\ stream.pos >= stream.mark
  /\ ~stream.done
  /\ stream' = [stream EXCEPT !.done = TRUE]
  /\ initialized' = [initialized EXCEPT ![t] = TRUE]
  /\ ops' = ops \o <<CursorOp(stream.claim), NotifyOp(Complete)>>
  /\ UNCHANGED <<memory, boundVars>>
  /\ EngineStep

Disconnect(t) ==
  /\ engine = t
  /\ stream # Down
  /\ drops < scenario.drops
  /\ drops' = drops + 1
  /\ stream' = Down
  /\ UNCHANGED <<storeVars, ops, opens>>
  /\ EngineStep

-----------------------------------------------------------------------------
(***************************************************************************)
(* run_writer.                                                             *)
(***************************************************************************)
Pop(kind) ==
  /\ ops # <<>>
  /\ Head(ops).do = kind
  /\ ops' = Tail(ops)
  /\ UNCHANGED <<serverVars, pageVars, storeVars, held, awaiting, roleVars, boundVars>>

WriteRow ==
  /\ Pop("write")
  /\ \/ /\ rows' = [rows EXCEPT ![Head(ops).key] = Head(ops).val]
        /\ UNCHANGED failedWrites
     \/ /\ "write" \in scenario.faults
        /\ failedWrites' = TRUE
        /\ UNCHANGED rows
  /\ UNCHANGED <<cursor, inbox, stream>>

Wipe ==
  /\ Pop("wipe")
  /\ rows' = EmptyStore
  /\ failedWrites' = FALSE
  /\ UNCHANGED <<cursor, inbox, stream>>

\* Mutant: the cursor advances whatever became of the writes before it.
SetCursorAnyway ==
  /\ Pop("cursor")
  /\ cursor' = Head(ops).id
  /\ failedWrites' = FALSE
  /\ UNCHANGED <<rows, inbox, stream>>

\* A failed entity write since the last cursor decision suppresses this one.
SetCursor ==
  /\ Pop("cursor")
  /\ cursor' = IF failedWrites THEN cursor ELSE Head(ops).id
  /\ failedWrites' = FALSE
  /\ UNCHANGED <<rows, inbox, stream>>

\* Every op before it has been processed, whatever became of it.
Notify ==
  /\ Pop("notify")
  /\ inbox' = Posted(engine, Head(ops).msg)
  /\ UNCHANGED <<idbVars, failedWrites, stream>>

\* The wipe is done: if the connection is still up, the bootstrap is asked for.
Flush ==
  /\ Pop("flush")
  /\ stream' = IF stream = Flushing
               THEN Catching(Len(log), {k \in Keys : Current(k) # Absent})
               ELSE stream
  /\ UNCHANGED <<idbVars, failedWrites, inbox>>

-----------------------------------------------------------------------------
ServerNext ==
  \/ \E k \in Keys : Commit(k) \/ Rejoin(k)
  \/ \E t \in Tabs, k \in Keys : Click(t, k)
  \/ Prune

Hydrate(t) == (\E k \in Keys : FetchList(t, k) \/ SkipList(t, k)) \/ SetList(t) \/ FinishHydration(t)

Lead(t) == Grant(t) \/ StartEngine(t)

Dial(t) == Resume(t) \/ StartOver(t)

Follow(t) == NextEntry(t) \/ NextRow(t) \/ CompleteStream(t)

WriterNext == WriteRow \/ Wipe \/ SetCursor \/ Notify \/ Flush

Next ==
  \/ ServerNext
  \/ WriterNext
  \/ \E t \in Tabs :
       \/ Open(t) \/ Close(t) \/ Hydrate(t) \/ Deliver(t) \/ Lead(t) \/ Dial(t) \/ Follow(t)
       \/ Disconnect(t)
       \/ \E k \in Keys : UiRemove(t, k)

Spec == Init /\ [][Next]_vars

(***************************************************************************)
(* The scheduling: every tab's event loop runs, the browser grants a free  *)
(* lock, delivers what was posted and lets the writer write, a request is  *)
(* answered, the server serves a connection and the backoff redials one    *)
(* that was lost.  Nothing makes a user act or a tab open or close.        *)
(***************************************************************************)
FairSpec ==
  /\ Spec
  /\ WF_vars(WriterNext)
  /\ \A t \in Tabs :
       /\ WF_vars(Hydrate(t))
       /\ WF_vars(Deliver(t))
       /\ WF_vars(Lead(t))
       /\ WF_vars(Dial(t))
       /\ WF_vars(Follow(t))
       /\ WF_vars(\E k \in Keys : UiRemove(t, k))

-----------------------------------------------------------------------------
\* Every variable is of its type; only an open page's queue is drained, so only
\* a page that hydrates holds messages (broadcast_queue.rs: "Why the buffer is
\* bounded"); and a queue of cache writes, unlike the lock, outlives no tab.
TypeOK ==
  /\ scenario \in Scenarios
  /\ log \in Seq(Entry)
  /\ floor \in 0..Len(log)
  /\ rows \in [Keys -> Nat]
  /\ cursor \in Nat
  /\ life \in [Tabs -> {"closed", "hydrating", "open"}]
  /\ unread \in [Tabs -> SUBSET Keys]
  /\ fetched \in [Tabs -> {Nothing} \cup (Keys \X Nat)]
  /\ memory \in [Tabs -> [Keys -> Nat]]
  /\ initialized \in [Tabs -> BOOLEAN]
  /\ inbox \in [Tabs -> Seq(Message)]
  /\ held \in [Tabs -> Seq(Message)]
  /\ awaiting \subseteq Tabs \X Keys
  /\ lock \in Tabs \cup {NoTab}
  /\ engine \in {lock, NoTab}
  /\ ops \in Seq(Op)
  /\ failedWrites \in BOOLEAN
  /\ stream \in Stream
  /\ opens \in 0..scenario.opens
  /\ drops \in 0..scenario.drops
  /\ \A t \in Tabs :
       /\ held[t] # <<>> => life[t] = "hydrating"
       /\ life[t] = "closed" => inbox[t] = <<>> /\ lock # t
  /\ engine = NoTab => ops = <<>> /\ ~failedWrites /\ stream = Down

\* The cursor on disk never claims more than the cache on disk holds, whichever
\* tabs wrote them and wherever in its queue each of them died (tab_leader.rs:
\* "stale entities sitting under a newer cursor, which sync_delta never
\* re-sends").  A routed delete names a row and not a version of it, so nobody
\* rejoins a team here.
DiskHonest ==
  ("rejoin" \notin scenario.gestures /\ Available(cursor))
    => \A k \in Keys : Fresh(k, rows[k], cursor)

\* What tab t will show once it has applied everything that was posted to it.
Shown(t) == Replay(memory[t], held[t] \o inbox[t])

\* Nor does it claim more than any hydrated tab shows or is about to: a tab the
\* cursor has overtaken stays stale, also when it is promoted, for no delta will
\* bring what it missed (hydration_gate.rs, broadcast_queue.rs: "Why this
\* exists").  A tab that could not read the cache is such a tab, so every list is
\* read here.
ScreensCurrent ==
  ("rejoin" \notin scenario.gestures /\ "hydrate" \notin scenario.faults /\ Available(cursor))
    => \A t \in Tabs : life[t] = "open" => \A k \in Keys : Fresh(k, Shown(t)[k], cursor)

\* As long as no write fails, no tab is told of a write the shared cache does not
\* hold (idb_writer.rs, Notify: "a follower can never be told about data the
\* shared cache does not hold yet").
ToldOnlyOfCached ==
  ("write" \notin scenario.faults /\ ops # <<>> /\ Head(ops).do = "notify"
     /\ Head(ops).msg.is = "action")
    => rows[Head(ops).msg.key] = Head(ops).msg.val

Quiet ==
  /\ stream.at = "up" /\ stream.done /\ stream.pos = Len(log)
  /\ ops = <<>>
  /\ awaiting = {}
  /\ \A t \in Tabs : life[t] # "hydrating" /\ inbox[t] = <<>>

\* Every change of row k had a live frame: nobody left or joined.
Broadcast(k) == \A n \in DOMAIN log : log[n].key = k => log[n].live

\* When nothing is on its way any more, the cache and every open tab hold what
\* the server holds, whatever was opened, closed, promoted, lost or pruned on the
\* way there, as long as nothing fails (apply.rs, apply_broadcast_to_memory:
\* "replaying them here converges on the same store contents").
ScreensAgree ==
  (scenario.faults = {} /\ Quiet) => \A k \in Keys : Broadcast(k) =>
             /\ rows[k] = Current(k)
             /\ \A t \in Tabs : life[t] = "open" => memory[t][k] = Current(k)

\* And that point is reached: once users and connections come to rest, every
\* open tab shows what the server holds, and shows it as complete.
Converges ==
  <>[](\A t \in Tabs : life[t] # "closed" =>
         initialized[t] /\ \A k \in Keys : Broadcast(k) => memory[t][k] = Current(k))

\* A delete the user made in any tab reaches the cache the tabs share, unless
\* the tab, or the one that writes the cache, goes away first (delete_route.rs:
\* "so it has to be durable").
Evicted ==
  \A t, e \in Tabs, k \in Keys :
    (<<t, k>> \in awaiting /\ engine = e)
      ~> (rows[k] = Absent \/ engine # e \/ life[t] = "closed")

=============================================================================
