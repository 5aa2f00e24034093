# trakkt: a TLA+ model of sync, workspace services, the terminal relay and the GitHub integration

trakkt is an issue tracker written in Rust: an axum server over PostgreSQL or SQLite, and a
Leptos client compiled to WebAssembly. The client keeps the whole workspace in IndexedDB and in
memory, paints from the cache, and is kept up to date over a WebSocket. That replication is the
program's own hard core, and most of these modules are about it: from the transaction that writes
an entry of the sync log, over the connection that carries it, to the cache and the tabs that show
it. Two are about the services that write the log along with their tables, one about the relay
between a terminal page and the agent on a user's machine, and one about the connection to GitHub.

Paths below are relative to the repository. Line numbers are those of the modelled commit;
`PROJECT.json` maps every definition to its lines.

## 1. Inventory

### The parts of the sync system

| Part | State | Operations | Talks to |
|---|---|---|---|
| Write queue, `crates/trakkt-ui/src/cache/idb_writer.rs` | an unbounded FIFO of `IdbOp`; `failed_writes` | `enqueue`, `flush`, `run_writer`: upsert, delete, delete all of a type, set cursor, set schema hash, flush, notify | fed by the engine and by UI deletes; writes IndexedDB; acknowledges flushes; runs broadcasts |
| Sync engine, `cache/sync_engine.rs` | continuations parked on IndexedDB reads and on flushes | on a frame (action, complete, reset); on connect (read cursor, ask for a delta or wipe and ask for a bootstrap); hydrate | the socket, the write queue, the store, the broadcast channel |
| Store and apply, `cache/store.rs`, `apply.rs`, `cached_types.rs` | the reactive lists, `initialized`, version counters | apply an action, reset, apply a broadcast | read by every page |
| IndexedDB, `cache/db.rs` | `entity_cache`, `sync_cursors`, `meta` (schema hash) | open, upgrade, clear on schema change, read all, read and write the cursor | shared by all tabs of a browser |
| WebSocket client, `cache/websocket.rs` | socket, `connecting`, `reconnect_attempts`, timer, `intentional_close` | dial, send, onopen, onmessage, onclose, reconnect with backoff | the server; the engine's connect effect |
| Tabs, `cache/tab_leader.rs`, `broadcast_queue.rs`, `hydration_gate.rs`, `delete_route.rs`, wired in `components/layout.rs` | a Web Lock, a BroadcastChannel, a held queue, a latch, a delete route per tab | elect, promote, post, deliver, release, open, route a delete | all tabs of a browser |
| Sync protocol, `apps/server/src/routes/websocket.rs` | one receive task and one send task per connection | `handle_sync_bootstrap`, `handle_sync_delta`, `drain_delta`, `stream_entities` | the sync log, the entity tables, the manager's channel |
| Sync log, `crates/trakkt-auth/src/sync_log_service.rs` | table `sync_log` | write in the mutation's transaction, commit and deliver, entries since, latest id, is available, prune | every mutating service; the protocol; the manager |
| Manager, `crates/trakkt-auth/src/websocket/manager.rs` | connections per user with bounded channel, kill signal, catch-up flag; Redis subscribers | connect (limit 10), disconnect, deliver (send, drop, or kill) | the protocol; other replicas through Redis |

| Team and view services, `crates/trakkt-auth/src/team_service.rs`, `view_service.rs` | teams, members, views | create, update, delete, add, remove, change a role; share and unshare | each writes the log in its transaction and has the live frame sent after it |
| Issue, relation and comment services, `issue_service.rs`, `relation_service.rs`, `comment_service.rs` | issues, relations, comments | create, update, delete; relate (cycle check), unrelate; comment | likewise; an issue's payload carries `is_blocked`, which depends on other issues |
| Project, favorite, label and release services, `project_service.rs`, `favorite_service.rs`, `label_service.rs`, `release_service.rs`; the sweep, `archive_service.rs` | projects with members, milestones and updates; favorites; labels and tags; releases; `archived_at` of issues | create, update, delete of each; relabel, assign, release; archive hourly what has been done for long | likewise; a delete also reports the rows that the database takes with it, and the issues it detaches |

### The terminal relay

| Part | State | Operations | Talks to |
|---|---|---|---|
| Registry, `connect_manager.rs`, and its routes, `apps/server/src/routes/connect.rs` | agents and pages of a user, which agent owns a session, which page gets whose output, session infos | register, unregister, route a command, forward output to subscribers, broadcast lists and events | one bounded channel to each peer |
| Agent, `apps/trakkt-connect/src/ws_client.rs`, `pty_manager.rs` | the connection, one outgoing queue, PTY sessions with a reader each and a scrollback buffer | connect and reconnect, list, spawn, kill, resize, dump scrollback, report output and exits | the server |
| Terminal page, `crates/trakkt-ui/src/components/terminal/client.rs`, `sessions.rs` | the link, entries with their grids, tabs being closed | connect and reconnect, spawn, kill, resize, ask for scrollback | the server |

### The GitHub integration

| Part | State | Operations | Talks to |
|---|---|---|---|
| Webhook handlers, `apps/server/src/routes/github.rs`, `crates/trakkt-github/src/events.rs` | table `github_events`; what each handler has read | look up, record, dispatch; lifecycle; links, activities | GitHub's deliveries; the row of the connection |
| Connection, `crates/trakkt-github/src/schema.rs` | `github_installations`: flags, scope, generation, cached token | change, delta, begin and finish a reconciliation, disconnect, remove, admit | locked by every writer, and by requests to GitHub |
| Reconciliation, `routes/github.rs`; tokens, transitions and comments, `transitions.rs`, `lib.rs` | a list, a token, a status on its way | fetch details and repositories; get, ask, cache a token; set a status, comment | GitHub's API |
| Authorization, `authorization.rs` | `github_connection_states` | start, advance, verify, bind | the administrator's browser; GitHub |

### The other parts of the repository

Services without a hard protocol of their own (notifications, watchers, activity, attachments,
accounts, billing); sessions, JWTs and refresh-token families; MCP sessions; the core library (pools,
key-value stores, retry); REST and MCP routes; the pages and components; vendored editor,
end-to-end tests, scripts and docs. `PROJECT.json` lists each with the reason it is not modelled.

### What is hard here

* Nothing on the client is transactional across steps. Memory changes at once, the cache later,
  the cursor after that, and the tab may die, or the socket reopen, between any two of them.
* The cursor is a claim about other data. If it is ever ahead of the rows it covers, no delta
  brings the difference: the corruption is silent and permanent.
* A connection carries two kinds of frames without a common order: catch-up streams read from
  the database, and live frames pushed by other requests' tasks after their commit.
* The continuations of the engine (`spawn_local`) are not tied to the connection they were
  started for.
* A channel of bounded size makes the server choose between losing a frame and losing the
  connection.
* A handler validates on the pool and writes in a transaction of its own, later: what it read may
  be gone. The payload of one issue is made of others. The audience of an entry is decided in
  part when it is written, in part when its live frame is sent, and in part when a delta reads it.
* The log, its live frames and the tables are three accounts of the same history, and a client
  uses all of them at once.
* Output of a terminal has no sequence numbers: a page that resubscribes must get a dump and then
  the live chunks, without a gap and without an overlap, over three queues.
* Whoever acts for a GitHub connection has read it a while ago: before a list, a token, another
  read. In between it may be disconnected, suspended, granted less, or authorized again.

`PROJECT.json` "hazards" lists these at their lines, with the property that would catch each,
or why none does yet.

### What makes each part correct

* Write queue: a cursor is committed only if every row write since the last decision was.
* Engine: the cache on disk is never behind its cursor; a wipe never lands on a stream; the cache
  ends where the screen is; every connection is answered and every reset store refilled.
* Server protocol: the id of a `SyncComplete` never exceeds the data streamed before it.
* Services: replaying the log gives the tables, whatever a cascade took or an issue was detached from; every payload that a change made stale is written
  again; relations stay acyclic.
* Audiences: who catches up from any position ends with what a bootstrap would show; nobody is
  sent what they never could see.
* Manager: a frame is dropped only where something will carry it again; a connection that no frame
  reaches is going down; the limit holds.
* Relay: what a page shows of a session is its output, in order; a session the agent still runs is
  not forgotten; a page that stays connected catches up.
* GitHub: nothing is written or asked for a repository the connection does not allow now; a cached
  token is never older than the connection's last change; the scope ends as GitHub grants it; what
  was ended comes back only by a later authorization.
* Tabs: one writer per cache; followers see committed writes in order; nothing a follower
  received during hydration is lost; a delete asked for is done.

## 2. Plan

Written, in this order:

1. `SyncEngine`: the leader tab's engine, queue and persistent cache against the server's handlers
   for its connection, with proofs in `SyncEngineProofs`.
2. `TabSync`: the tabs of a browser; here the leader's connection is abstracted to the log in order.
   Proofs in `TabSyncProofs`.
3. `ConnectRelay`: pages, agent and the registry between them, with proofs in `ConnectRelayProofs`.
4. `IssueTracker`, the abstract specification of the issue services, and `IssueGraph`, which
   implements it, with proofs in `IssueGraphProofs`.
5. `WebSocketManager`: several connections of a user, the limit, kill and catch-up, Redis, with
   proofs in `WebSocketManagerProofs`.
6. `SyncLog`: transactions, sync ids, audiences; bootstrap, delta and live frames for one user, with
   proofs in `SyncLogProofs`.
7. `GitHubConnection`: one connection and all who act on it, with proofs in
   `GitHubConnectionProofs`.
8. `WorkspaceRecords`: projects, their parts, favorites, labels, releases, and the sweep, with proofs
   in `WorkspaceRecordsProofs`.

The server modules share the log and cut it differently. `IssueGraph` and `WorkspaceRecords` have
what the entries say, `SyncLog` whom they are for and when they become visible, `WebSocketManager` how they travel;
`SyncEngine` takes over where they arrive. Composing any two multiplies state spaces of around a
million each, so each states in its header what it assumes of the others.

Next:

1. `CacheContract`: what a client may rely on, as a small specification (a cache, a cursor, and
   steps that bring rows forward or start over), and `SyncEngine` shown to implement it.
2. `RefreshTokens` (`token_service.rs`, `token_refresh.rs`), `WebSocketClient` (dial guard, backoff,
   token fetches), `McpSessions`: separate small modules.

## 3. SyncEngine

### State and code

| Variable | Code |
|---|---|
| `log`, `floor` | rows of `sync_log` in `sync_id` order, and how far they are pruned |
| `db` | the entity tables, as a bootstrap reads them |
| `undelivered` | committed entries whose `broadcast_sync_action` has not reached the channel |
| `conn`, `requests`, `serving`, `chan` | the socket; client messages the receive task has not taken; the handler it runs (and, while it runs, the catch-up flag); the connection's mpsc channel and the wire |
| `tasks` | the `spawn_local` continuations of `start_sync_engine`: reading the cursor, deciding, waiting for a flush, acknowledged |
| `ops`, `failedWrites` | the queue of `IdbOp` and `run_writer`'s counter (only its being zero matters) |
| `rows`, `cursor` | IndexedDB: what survives a tab |
| `memory`, `initialized` | the `SyncStore` |
| `claimed` | history: the last `SyncComplete` this connection applied, 0 when there is none. No action reads it |

A row's content is the number of the log entry that wrote it, or `Absent`. Content is never
compared by anything in this code, so positions tell apart all that the properties need.

Each action is one run of code without an await: `StartDelta` to `FinishDelta` are
`handle_sync_delta` cut at its awaits, `StartBootstrap` to `FinishBootstrap` are
`handle_sync_bootstrap` cut at its awaits (one per list that is read, one per frame that is sent),
`OnAction`, `OnComplete`, `OnReset` are the message callback, `Connect` to `AskBootstrap` the
connect effect and its continuation, `WriteRow` to `Flush` one turn of `run_writer`. `Commit`,
`Prune` and `DeliverLive` are the rest of the server. `Disconnect` is a socket that closes on
either side, `Reload` a tab that dies in any state followed by a page load up to the end of
hydration (the dial waits for hydration: `dial_when_hydrated`).

### Abstractions

* One tab, one connection, one workspace, and entries all visible to the user.
* The loop that enqueues one `DeleteAllOfType` per type is one op that remembers which types are
  left; the writer still works on them one at a time. The types of one loop are taken in any
  order, where the code uses a fixed one.
* An issue's two cache rows (the record and `issue_content`) are taken as one: their ops are
  adjacent in the queue, and a failure of either poisons the next cursor the same way. A type that
  is not cached has no key.
* `SetSchemaHash` is left out: it touches nothing modelled here. `Notify` is modelled in `TabSync`,
  which has the tabs it notifies.
* A live frame lost because its recipients could not be queried is not modelled; it does not
  change what a cursor claims.
* `sync_id`s are consecutive and become visible in order. PostgreSQL takes an id before the
  commit; that is `SyncLog`'s subject.

### Faults and races

`Faults` is the set of operations that may fail (a row write, a wipe, a cursor write, a rewind,
the read of the cursor, the availability check, the watermark, a data read). `Races` is the set of
timing assumptions that are dropped. With a race absent, the model assumes:

* `"reconnect"`: the socket does not reopen while continuations or queued ops of the previous
  connection are pending (the backoff is at least a second);
* `"live"`: live frames keep commit order, and are on the channel before a catch-up page or a
  watermark that covers them is read. Otherwise an older live frame may be applied over newer
  streamed data, by code that has no version check;
* `"drop"`: no frame is dropped between the raising of the catch-up flag and the read of the
  watermark;
* `"prune"`: the log is not pruned under a running delta (nothing in the repository calls
  `prune_old_entries`).

None of these is guaranteed by the code, so a result under them is a result about a client whose
timing is kind. `CursorHonest` needs them and is proved under them; `QueueClosesTheGap` is checked and
proved without any; `TypeOK` is proved without any; `NoWipeUnderBootstrap` needs only the first.

### Properties

* `TypeOK`: types, and the bound on the channel.
* `CursorHonest`: as long as the server would serve a delta from the cursor on disk, every row on
  disk is what it was at that position or later. It is required of every state, because a tab may
  die in every state.
* `NoWipeUnderBootstrap`: no wipe is queued when a bootstrap is streamed.
* `QueueClosesTheGap`: only a write that fails in the database opens a gap between the screen and
  what the drained queue leaves on disk; no order of streams, live frames, resets and reconnects does.
* `Answered`, `Refilled`: a connection that stays up is answered; a reset store is filled again.

### Runs

| Run | Instance | Result |
|---|---|---|
| `engine_safety` | 2 rows of 2 types, log of 3, queue of 4, channel of 2, pages of 1 and at most 2 of them; row writes, cursor writes, rewinds, data reads and the watermark may fail | the three invariants hold (1.4 million states) |
| `engine_live` | 1 row, log of 2, 1 continuation, channel of 1; all faults but the two that end a stream without a claim; all races; `FairSpec` | `QueueClosesTheGap`, `Answered` and `Refilled` hold (305 thousand states) |

Bounds, and why they are enough. Two rows of two types are the least in which a wipe can be half
done and one row can be honest while the other is not; no property relates three. A log of three
lets a row be set, deleted or changed while another entry sits between. Pages of one entry with at
most two pages reach the short page, the exact page and the cap. A channel of two lets a live
frame and a stream frame be in flight together, and be full; of one, every drop and kill happens
at once. `MaxOps` limits a queue the code leaves unbounded: a frame waits in the channel instead,
which the code's event loop also allows; a reset needs three places, so four lets one write be
pending in front of it. With one continuation (`TaskIds`) a second reset waits for the first one's
bootstrap request; the proofs have any number. A channel of 1024, pages of 10000 and 50 pages
are the code's values.

`engine_safety` leaves out the faults `read`, `wipe` and `probe`, each of which breaks
`CursorHonest` (see the limits below). Deadlock is checked in every run; `Reload` is always
possible, so it shows little.

### Fairness

`FairSpec` has weak fairness of the live delivery, of the server's receive task, of the tab's
event loop, and of the writer task: each is a loop that runs as long as it has work. Nothing makes
a client commit, a socket fail or open, a log be pruned or a tab die. Faults are free choices
inside fair actions: the results hold when every operation fails every time, because the
handshake does not depend on success (`CacheDbSink`: flushes resolve even when the cache is
unavailable). Faults `fetch` and `watermark` are left out of this run: an abandoned stream is not
answered on that connection, by design.

### Known limits

Three comments of the code promise more than it keeps; adding the fault or the race to the
`engine_safety` instance makes `CursorHonest` fail in each case. They are not runs of their own.

* *The cursor-less start does not rewind* (fault `"read"`). `idb_writer.rs:235-241` says both wipe
  paths rewind the cursor immediately afterwards. The cursor-less path (`sync_engine.rs:264-283`)
  does not. It is entered with a cursor on disk whenever the read or the parse of it fails: a tab
  that dies before the bootstrap completes leaves that cursor over a wiped cache.
* *A reconnect can overtake the queue* (race `"reconnect"`). The connect task reads the cursor
  straight from IndexedDB, not behind the queue (`sync_engine.rs:237`), so it may see no cursor
  while a `SetCursor` is queued, and queue its wipe behind it. `sync_engine.rs:126-128` says the
  cursor can never overtake the writes it covers.
* *The catch-up exemption starts before the watermark* (race `"drop"`). `manager.rs:526-528` says a
  frame dropped under the flag landed after the watermark was read. The flag is raised first
  (`websocket.rs:406`, the watermark at 417). A delete dropped between the two is below the
  watermark and in no list of the bootstrap.

## 4. TabSync

The tabs of one browser on one workspace. What a connection does is `SyncEngine`'s subject; here
the leader's connection is the log read in order, so that the model can afford the tabs.

### State and code

| Variable | Code |
|---|---|
| `log`, `floor` | `sync_log` as this user sees it, and how far it is pruned; `live` says whether an entry is also broadcast (membership entries are not: `write_membership_sync_entry`) |
| `rows`, `cursor` | IndexedDB, shared by the tabs, survives them |
| `life`, `unread`, `fetched` | per tab: closed, hydrating or open (`HydrationGate`); the lists `hydrate_store_from_db` has still to replace; the list it has read and is about to set |
| `memory`, `initialized` | per tab: the `SyncStore` |
| `inbox`, `held` | per tab: messages on the `BroadcastChannel`; `BroadcastQueue.pending` |
| `awaiting` | deletes a tab has asked the server for and not heard of |
| `lock`, `engine` | the tab with the Web Lock; the tab whose engine and writer run (`is_leader` is set on the grant, the Layout's effect starts the engine on a later turn) |
| `ops`, `failedWrites` | the leader's write queue, and whether `run_writer` owes a cursor suppression |
| `stream` | the leader's connection: down, waiting for the flush of a wipe, or up with what it still owes |
| `opens`, `drops` | bounded counters of page loads and lost connections |

| Action | Code |
|---|---|
| `Open` | the synchronous block of the Layout's effect: hydration spawned, subscription up, lock asked for (`layout.rs:199-275`) |
| `FetchList`, `SetList`, `SkipList` | `read_all` of one list, `set_*` of it a turn later, or a list that cannot be read |
| `FinishHydration` | the gate opens and `release_when_hydrated` drains the held messages |
| `Deliver` | `BroadcastQueue::deliver` and, when open, `apply_broadcast` |
| `Grant`, `StartEngine` | the lock callback; the leader half of the effect |
| `Resume`, `StartOver` | the dial that ends in a delta, or in a wipe told to the others and a bootstrap |
| `NextEntry`, `NextRow`, `CompleteStream` | frames reaching the message callback: apply, queue the write, queue the broadcast behind it |
| `WriteRow`, `Wipe`, `SetCursor`, `Notify`, `Flush` | one turn of `run_writer` each |
| `Click`, `UiRemove` | the server function behind a "Delete" or "Leave" button; its answer, `remove_team` or `remove_project`, and the delete route |
| `Close` | a tab goes away in any state: its lock, queue and connection with it |
| `Commit`, `Rejoin`, `Prune` | the server |

### Abstractions

* One row per list: hydration replaces lists whole, and a second row would move with the first.
* The delta and the bootstrap are read at one moment, and entries committed later are live frames
  in commit order. What happens when they are not is `SyncEngine`'s subject. A live frame is not
  sent for an entry that has none.
* A dial waits for the queue to be empty: `SyncEngine` without `"reconnect"` (see its limits for
  what happens otherwise).
* A wipe is one op and does not fail; nor does a cursor write. The types it walks and those
  failures are in `SyncEngine`.
* Web Locks and `BroadcastChannel` exist. Without locks every tab leads, without a channel no tab
  follows: the documented fallbacks, in which none of these properties is claimed by the code.
* An id that was deleted is not used again. Messages to a tab arrive in the order they were posted.
* A behaviour follows one of `Scenarios`, a record of what may happen in it and its bounds.
  `gestures` says what users do besides editing: delete (a project or a team), leave a team, rejoin
  it, and whether the log is pruned. `faults`: a row write fails, a list cannot be read. `races`:
  `"slow"`, a new leader hears from the server before it has received what its predecessor posted.

`"slow"` breaks `ScreensCurrent` (an older broadcast is applied over a newer frame; neither carries
a version). It takes a lock grant, a token fetch and a server round trip that overtake a local
message, and no run includes it; the hazard list has it. The theorems about screens exclude it, the
others do not (section 11).

### Properties

* `TypeOK`: types, and who may hold what: only a hydrating page holds messages, and a queue does
  not outlive the tab that owns it.
* `DiskHonest`: the cursor on disk claims no more than the cache on disk holds, over a succession
  of leaders that die anywhere in their queues.
* `ScreensCurrent`: nor does it claim more than any hydrated tab shows once it has applied what was
  posted to it. This is what makes promotion sound: a follower that becomes leader resumes from a
  cursor that others wrote.
* `ToldOnlyOfCached`: when a broadcast goes out, the cache holds what it says.
* `ScreensAgree`: when nothing is on its way, the cache, every open tab and the server agree on
  every row whose every change was broadcast (`Broadcast`; a membership change is not).
* `Converges`: and that point is reached.
* `Evicted`: a delete made in any tab leaves the cache, unless that tab or the leader goes first.

### Runs

Both have two tabs and one row; the tabs are symmetric where no liveness is checked.

| Run | Scenarios | Result |
|---|---|---|
| `tabs_safety` | deletes, leaving and pruning with failing row writes, 2 page loads and a lost connection, log of 2; deletes and leaving with 3 page loads, log of 2; leaving and rejoining with lists that cannot be read, 2 page loads, log of 3 | `TypeOK`, `DiskHonest`, `ScreensCurrent`, `ScreensAgree`, `ToldOnlyOfCached` hold (2.3 million states) |
| `tabs_live` | deletes, or leaving; 2 page loads, log of 2; `FairSpec` | `Converges` and `Evicted` hold (91 thousand) |

Bounds, and why they are enough. Two tabs are a leader and a follower; two page loads let either
close and the other be promoted, and three let a third page hydrate from what two leaders in turn
left behind. One row is set and changed, or set and deleted, in a log of two; three let it be set,
left and rejoined. One lost connection gives a leader that continues, and with promotion two
catch-ups in one behaviour. Larger instances showed nothing new: three tabs with a log of one, two rows with a
log of two, and three page loads with a lost connection (8 million states). `CHECK_DEADLOCK FALSE`: with the bounds spent and every tab closed, nothing happens.

### Fairness

`FairSpec` has weak fairness of the writer, and for each tab of hydration, of message delivery, of
lock grant and engine start, of dialing, of the frames of its connection and of the answer to its
delete: loops that run while they have work, and a browser that grants a free lock. Users, tabs
opening and closing, lost connections and pruning are not fair.

### Known limits

* *An empty store is a valid start only without a cursor.* `sync_engine.rs:355-356` says it always
  is. When hydration fails and the cursor can be read later, the delta starts from that cursor, and
  the screen lacks everything older until the page is loaded again. `ScreensCurrent` therefore
  exempts behaviours in which lists cannot be read.
* *A routed delete names a row, not a version.* `tab_leader.rs:103-105` says a UI delete is ordered
  against the stream's writes. If leaving is answered late, and the user is a member again by
  then, the delete lands behind the newer row and under its cursor: the cache lacks the team and no
  delta brings it. `DiskHonest` therefore exempts behaviours in which users rejoin.

Two more bound what is claimed. `run_writer` runs a `Notify` whatever became of the
ops before it (`idb_writer.rs:272`), so `ToldOnlyOfCached` is about writes that do not fail; with
failing ones followers show what the cache lacks, and the next delta repairs it, as the cursor
stays behind (`tabs_safety` has that fault). And a membership entry is logged without a live frame,
so tabs other than the one that was clicked keep showing a team that was left until the leader's
next delta, although `apply.rs:450-451` says every other tab converges through the server's action.

Two comments are merely stale: `delete_route.rs:37-42` (and the doc of `remove_team`) says that no
delete is ever sent for a team that was left, while `team_service.rs:1211-1225` logs one for the
user; `hydration_gate.rs:64-66` speaks of a single waiter where the Layout registers two.

## 5. ConnectRelay

One user's terminal sessions: the agent that runs them, the pages that show them, and the server's
registry between them. The n-th chunk a session prints is n; a scrollback dump is the number of
chunks it covers.

### State and code

| Variable | Code |
|---|---|
| `agents`, `sessions`, `infos`, `subscribed` | the `Registry` of `connect_manager.rs`: connections of the agent, owner of each session, acknowledged sessions, what each page gets output of |
| `toAgent`, `fromAgent`, `toPage`, `fromPage` | the bounded server channels with the wires behind them, and messages on their way to the server |
| `conn`, `conns`, `outgoing` | `WsClient`: the connection it runs, how many there were, `agent_rx` |
| `spawning`, `ptys` | the dispatch that is starting a process; `PtyManager.sessions` with reader and printed chunks |
| `link`, `links`, `agentUp`, `entries`, `closing` | per page: its socket, `agent_connected`, the `Sessions` entries (running, restoring, subscribed, what the grid shows), tabs waiting for the end of what they killed |
| `drawn`, `scenario` | session ids drawn; what may happen in this behaviour |

`OnSessionList`, `OnSessionMessage`, `OnReady`, `OnSpawnSession`, `OnSessionCommand`, `OnListSessions`
are the arms of the server's two message loops, each with the registry call and the sends it ends
in; `Reap`, `ServerHangup`, `SendPing` are the ways a connection of the agent leaves the registry.
`AgentConnect`, `AgentSend`, `AgentDrop` are `WsClient`'s loop; `Spawn` to `Relist` the dispatch of a
command, `FinishSpawn` its continuation; `Produce`, `Exit`, `ReportEnd`, `Forget` a session's reader
task. `Connect`, `Disconnect`, `Receive*`, `NewSession`, `CloseTab` are the page.

### Abstractions

* The scrollback holds everything printed so far; a resize stands for input, which takes the same
  way; commands on their way are lost with a page's connection; pings are sent when nothing else is.
* A behaviour follows one of `Scenarios`: either the agent's connections break, or pages lose
  theirs, users close tabs and processes fail to start. All at once is out of TLC's reach.
* The first three `Races` are left out of the run. `"abort"` (the agent's connection breaks while a spawn waits
  for room in the queue: its reader is orphaned) breaks `EventuallyCaughtUp`; `"exitgap"` (the agent
  lists its sessions between reporting an end and forgetting it) breaks `Retained`; `"busy"` lets
  the channel to an agent that reads be full, so that a command to it is refused.
* `"stale"`, which the run has, lets the server read what an older connection of the agent left behind
  after it has read from a newer one; each connection has a task of its own, and nothing orders them.
  With two connections nothing comes of it. With three, `GridsWhole` fails (a run with
  `MaxConns = WireCap = 3` finds it, if it is told the order of events): a connection breaks and leaves
  a list and output of a session unread; the session ends on the next one, and the registry forgets
  it; then the list is read, and puts it back, because its check is that no *other* connection has it
  (`connect_manager.rs:248`); a scrollback request of the page that was still on its way subscribes,
  and the old output is appended once more. With two chunks, the first then replaces the second, and
  `Retained` fails as well. Without `"stale"` TLC finds no violation of `GridsWhole` with three
  connections, the other three races included.

### Properties and run

* `TypeOK`: types, and the registry agrees with itself.
* `GridsWhole`: no grid has a gap or a repetition, over reconnects, dumps and live output that race.
* `Retained` (action property): output on a screen is never taken back while its tab is open.
* `EventuallyCaughtUp`: once connections hold, every page shows every live session up to its last
  output and no other as running, and the agent lists no session that has ended.

| Run | Instance | Result |
|---|---|---|
| `relay` | 1 page, 1 session, 2 connections on each side, 2 chunks; `FairSpec` | all four hold (1 million states) |

Two connections are one to lose and one that finds what the first left behind. Two chunks are one
for the dump and one that may come before or after it. The agent's queue and wire hold one message,
so every send may block; the server's channel to a page holds four, room for the answer to a
connect and a frame or two more, so a page that does not read is hung up on. Sessions share nothing
but channels. `CHECK_DEADLOCK FALSE`: users need not do anything, and sessions may be idle
for ever.

Fairness: weak for each loop of server, agent and page, for reconnecting (both sides retry for
ever), for the detection of a dead connection; strong for `FinishSpawn` and a reader that waits for
room in the agent's queue, since tokio's mpsc serves those who wait in order. Nothing makes a
session print or end, a user act or a connection break.

## 6. IssueGraph

The services behind an issue, several requests at once, with the log kept as the picture it
paints.

### State and code

| Variable | Code |
|---|---|
| `life` | table `issues`, by status category |
| `rows`, `drawn` | tables `issue_relations` and `comments`; ids drawn |
| `replica` | the issues and rows a client holds that has replayed the log |
| `flags` | `is_blocked` in each issue's last payload |
| `reqs` | per handler: the step it is at, what it read, what its transaction will do |
| `touched` | history: issues whose flag changed as a relation came or went. No action reads it |
| `backend` | the database |

`CreateIssue`, `FindIssue` and `UpdateIssue`, `CollectCascade` and `DeleteIssue` are
`issue_service.rs`; `AskRelation`, `FindParent`, `CheckEnds`, `WalkBlocked`, `WalkParents`,
`CheckSingle`, `AddRow`, `DeleteRelation` are `create_relation`, `set_parent` and `delete_relation`
with the breadth-first walks a query at a time; `AskComment` is `create_comment`. `Commit` ends each
transaction; `Abandon` is a request dropped or a statement failing, anywhere.

`IssueTracker` is the abstract specification: issues, rows that never outlive them, one call one
step, and every row that is added legal when it is added: its ends exist, it is not there already,
no cycle of `blocks` or of parents, one parent, one original. Its reachability is defined by closed
sets, not by a walk.

### Abstractions

* Team numbers, labels, notifications, favorites and watchers are left out: `edit` stands for any
  update without a status, for the labels and the sort order. A comment is a row whose source and
  target are its issue.
* The entries of one issue count in commit order; whether readers see them so is `SyncLog`'s
  subject. The first read of a handler happens as its request arrives; the reads of source and
  target are one step; the walk takes the frontier in any order. The statements of a transaction
  take effect at one moment, the commit is another.
* SQLite is one connection, kept by a transaction. PostgreSQL is read committed with row locks.
* The parent walk gives up after 10 in the code, 3 here, which with 3 issues is never reached.

### Properties and run

* `TypeOK`: types, and the keys of the database.
* `LogTellsAll`: who replays the log has exactly the rows of the database, cascades included.
* `FlagsTold`: the blocked flag clients were last told is right, unless a relation has come or gone
  since, which tells nothing.
* `Implements`: the log's picture refines `IssueTracker`, `issues <- replica.issues`,
  `rows <- replica.rows`.

| Run | Instance | Result |
|---|---|---|
| `graph_safety` | SQLite, 3 issues, 2 requests, 2 rows of 3 types; issues and requests symmetric | all four hold (1.4 million states) |

Three issues are the least with a cycle that no single relation shows; two rows close or almost
close it. Two requests overlap everywhere; handlers are not aware of each other, so a third adds no
kind of interleaving.

### Known limits

* Two calls that add relations at once (race `"overlap"`) both validate, then both insert: a cycle,
  or two parents. `Implements` fails.
* A status update reads which issues it unblocks (`issue_service.rs:835-843`) before its
  transaction. Related in between (race `"lookup"`), an issue keeps a stale flag: `FlagsTold` fails,
  on both databases.
* On PostgreSQL, with `Backends = {"postgres"}` and no race: two blockers of one issue closed at
  once each see the other open, so `FlagsTold` fails; and a comment committed between the read of
  `delete_issue`'s cascade (`issue_service.rs:1311`) and its `DELETE` (1434) is removed without a
  Delete entry, so `LogTellsAll` fails.

What survives on both databases with every race is `TypeOK`, and with it the keys of the tables: it is
proved without assumptions (section 11), the other three for SQLite.

## 7. WebSocketManager

The connections of one user on one server, with or without Redis. Users share nothing here. A
frame is the number of the log entry it carries.

### State and code

| Variable | Code |
|---|---|
| `registered`, `present` | `Inner.connections` of the user, and whether the map has the user |
| `subscriber`, `tasks` | `Inner.subscribers`: the task that `disconnect` can abort; the subscriber tasks there are, with what Redis has for them |
| `sock` | per connection: the step of its handler, its channel, kill permit, catch-up flag and stream; and what its client got |
| `log`, `due` | the sync log; frames committed and not delivered or published yet |
| `mode`, `limit` | the mode and the limit of this behaviour |

`Admit` to `Greet` are `connect` and the start of the handler, `Retain`, `RemoveIfEmpty`,
`Unsubscribe` are `disconnect`, cut at its locks; `Deliver` and `TaskReceives` end in
`DeliverToLocalUser`. `AskCatchUp` to `Stream` are the receive task's catch-up, `SendNext` the send
task, `Break` and `Stop` the end of either.

### Abstractions

* Pruning the closed and checking the limit are one step, as are sending and unregistering those
  that could not take a frame (they are going down already). Redis does not fail.
* A connection catches up once, and rows are only added: a delete that is dropped between flag and
  watermark is `SyncEngine`'s race `"drop"`.
* `"churn"` (connects and disconnects of the user overlap) is in no run: it breaks the limit, and
  `Subscribed`, whose part that no user is left without a subscriber is what `manager.rs:264-266`
  says is prevented. `NoDeafSocket` and `WatermarkHonest` hold with it too: they are proved for every
  race, `Subscribed` without churn (section 11).

### Properties and run

* `TypeOK`: types, the bound of every channel, the limit.
* `NoDeafSocket`: a socket that is driven is registered, or on its way down.
* `WatermarkHonest`: a `SyncComplete` covers nothing its client lacks.
* `Subscribed`: with Redis there is one subscriber task while the user has a connection, and none
  after.
* `Heard`: when changes end, every connection that stays has them, but those dropped during its
  catch-up, which by `WatermarkHonest` are above its cursor.

| Run | Instance | Result |
|---|---|---|
| `sockets` | 2 connections, limits 1 and 2, channel of 1, 1 frame, both modes | all five hold (602 thousand states) |

A channel of one makes every second message a drop or a kill, the greeting included. Two
connections against limits of one and two give a refusal, a limit reached, and a disconnect that
leaves another. Fairness: weak for delivery, for a handler that has begun, for a catch-up and for
the send task: loops that run while they have work. Clients need not come, and nothing is asked of
Redis. `Heard` is stated with `<>[]` because changes are bounded.

## 8. SyncLog

Who is told what: teams and views, the transactions that write the log, the live frames sent after
the commit, and the bootstrap and the delta that read it all for one user.

### State and code

| Variable | Code |
|---|---|
| `content`, `members`, `shared` | tables `teams` and `views` (the entry that wrote each row), `team_members`, `views.is_shared` |
| `log` | table `sync_log` by `sync_id`, with the entries of open and of failed transactions |
| `reqs` | per handler: idle, has read on the pool, in its transaction, sending frames |
| `watched`, `client` | one user's client: what it holds, its cursor, and the stream it is being sent |
| `calls` | the calls of this behaviour |
| `entitled`, `strays`, `behind` | histories: what the user was ever allowed to see; views once shared; what no frame carried. No action reads them |

`CreateTeam` to `DeleteView` are the functions of `team_service.rs` and `view_service.rs`, in two
steps where they read on the pool before their transaction; `Commit`, `Rollback`, `Deliver`,
`Silence` are `SyncBatch::commit_and_deliver` and the manager's three audiences; `StartBootstrap`,
`ReadList`, `ReadPage`, `SendNext`, `Complete` are the handlers of `routes/websocket.rs`. `Concerns`
is the `WHERE` of the query behind a delta.

### Abstractions

* The client applies every frame in order, and what is sent counts as received; what real ones fall
  short of is `SyncEngine`'s subject, as are pruning and the cap on pages. Cursor 0 is none.
* "update" stands for every change of a row that leaves its audience alone. Teams without a creator,
  default teams, favorites, the issues of a deleted team and a view that changes its team are left
  out.
* Locks are a little stronger than PostgreSQL's for an insert that meets a row already there.
  Reading the recipients of a frame and sending it is one step.

### Properties and runs

* `TypeOK`: types; an open entry belongs to an open transaction, of which SQLite has one at most.
* `CatchUpIsEnough`: replaying the log from the client's cursor gives what a bootstrap would give,
  in every state, whatever became of memberships since. Views that were unshared are exempt: they
  stay with those who have them, says `view_audience`. Proved for SQLite without the races and
  without teams that are deleted with views in them: each of these breaks it.
* `ScreenSettles`: who caught up and stays connected shows the latest of all it may see and nothing
  else, but for what no frame carries in order: the user's own memberships, frames lost, and frames
  that crossed a catch-up. Proved under the same assumptions.
* `OnlyEntitled`: no path brings a client what its user was never allowed to see. Proved, with every
  race and on both databases.

| Run | Instance | Result |
|---|---|---|
| `log_safety` | SQLite, 2 users, 1 team and 1 other, 1 view, 2 requests, log of 5, pages of 1 | all four hold (750 thousand states) |
| `log_gap` | the same on PostgreSQL | `CatchUpIsEnough` violated: finding 1 |
| `log_cascade` | SQLite, the view made in the team | `CatchUpIsEnough` violated: finding 2 |

A log of five lets a team be created (two entries), joined, left or deleted with a client between
any two of them. Two users are one who acts and one who watches, either way round. Teams and views
do not interact but through a cascade, so `log_safety` has one at a time and `log_cascade` both.
`CHECK_DEADLOCK FALSE`: the log is bounded.

`Races` are left out of the runs: `"overlap"` (a commit that is no deletion between what a handler
reads on the pool and its transaction) gives a membership entry a stale payload, or a view's Delete
a stale audience, `"late"` sends an older frame after a newer one, `"early"` (a live frame between
the wipe and the watermark of a bootstrap) leaves a row on the screen that is deleted before the
watermark is read and whose Delete frame is lost. Each of the three alone breaks both
`CatchUpIsEnough` and `ScreenSettles`, and none is prevented by the code.

### Findings

1. **A `sync_id` is taken before its commit.** On PostgreSQL a later id may become visible before
   an earlier one (`sync_log_service.rs:471`). A bootstrap or a delta in between claims the later,
   and no delta ever brings the earlier. `drain_delta`'s comment says the delta gives the user what
   a bootstrap would.
2. **The views of a deleted team have no Delete entry.** `delete_team` (`team_service.rs:981`) logs
   the team and leaves its views to `ON DELETE CASCADE`. A client that has such a view keeps it,
   live and through every delta, until it bootstraps.

## 9. GitHubConnection

One GitHub connection of a workspace: the row of one installation, the handlers of the deliveries
about it, and an administrator who ends it and authorizes it again.

### State and code

| Variable | Code |
|---|---|
| `row` | the row of `github_installations`: its flags, its scope, `token_generation`, the cached token |
| `event`, `recorded` | what each delivery says; `github_events` |
| `job` | per delivery: the step of its handler, the generation it read, its token, its list |
| `flow` | per authorization: its row in `github_connection_states` and the callback that is verifying |
| `effects` | links, activities and statuses that exist, by repository |
| `git` | GitHub: what it grants, whether the App is suspended or gone |
| `left` | how often each thing from outside may still happen |
| `ran`, `changes`, `stops`, `stray` | histories. No action's guard reads them |

`Receive` and `Record` are the route, `Lifecycle` is `change_installation`; `ReadScope` to `Finish`
are the handling of the two repository events, with a transaction or a request per step;
`ReadForLinks`, `Link`, `Activity` are `process_pull_request` and `process_push`; `ReadForRules`,
`SetStatus` are the transition rules, `GetToken` to `CacheToken` the refresh of a token,
`AskComment` the comment. `StartFlow` to `Bind` are an authorization.

Every writer takes the row's lock. `admit_outbound` keeps it until the request is answered, so a
change of the row waits (`Free`); a link, an activity or a status is written in a transaction that
holds it (`Admits`). Every change but `Finish` and `CacheToken` starts a generation, and what was
read with an older one is refused.

### Abstractions

* A token's value is the number of changes there had been when it was asked for. Its expiry is a
  cached token that is not used. The token that a list of repositories is fetched with is made for
  the purpose and kept nowhere: it is part of the fetch.
* Links, activities and statuses are kinds, one of each per repository: whether there is one is what
  the code asks. Which issues a pull request names, and the rules, are left out; a pull request
  names one, and a transition takes place unless the status is there.
* A suspended or uninstalled App has its requests refused; what it was granted does not change then.
* A row is inserted once: a second installation of the account has its own row.

### Faults

Deliveries are handled in any order and in parallel, and may be delivered twice. A request to GitHub
fails at any time. `Abandon` drops a handler anywhere: with its connection, or with the process.
What it had committed stays, and the event counts as handled.

### Properties and run

* `TypeOK`: types; a row that is not there is blank.
* `Once`: an event is dispatched once, although the look-up and the record are two steps.
* `OutboundAllowed`: while a request is under way, the row allows it.
* `EffectsAllowed` (action property): nothing is written for a repository that the row does not
  allow at that moment.
* `TokenCurrent`: the cached token is of an active row, and was asked for after its last change.
* `ScopeSettles`: once scope events have been handled, in order, each decided on the row it then
  meets, an effective row has the scope GitHub grants, whatever lists and authorizations were under
  way.
* `NoResurrection` (action property): what ended a connection is undone only by an authorization
  that was started after it.

| Run | Instance | Result |
|---|---|---|
| `github` | 2 repositories, 2 authorizations, 3 events, nine scenarios from three kinds of row; repositories and authorizations symmetric | all seven hold (1.5 million states) |

A scenario says how often each thing from outside may happen; together they meet in every pair that
touches the same field of the row: scope events with each other, with an authorization and with a
disconnect; a pull request with every change of the row, its redelivery, a completed issue and a
crash; two authorizations with two ways to end the row. All at once is out of reach. Two
repositories are one that is granted and one that is withdrawn. `"legacy"` is a row from before
authorizations were verified. `CHECK_DEADLOCK FALSE`: nothing from outside has to happen.

### Known limits

`ScopeSettles` is stated for events that meet the row in order (`stray` is false otherwise), because
the code does not keep it beyond:

* An event is decided on the row as it is read (`routes/github.rs:442-449`), before the transaction
  that applies it. Of two handlers that overlap, the later event's may commit first; and a delta
  that was decided on a row with a list may be applied to one that has become "all", and then drops
  every repository the account kept. `schema.rs:638` asks for deltas to be serialized against the
  current row: the delta is, the decision is not.
* `Finish` starts no generation. A reconnection that was started after `Begin` may bind its list,
  older than the reconciliation's, after it.
* A first connection lists the repositories and then inserts its row. A scope event in between
  finds no row, is recorded, and is lost.

A handler that fails or is dropped after `Record` leaves an event that no redelivery takes up again
(`routes/github.rs:95`).

## 10. WorkspaceRecords

What hangs together in a workspace and goes together: a project with its members, milestones and
updates, the favorites of it, the issues in it; a label and its tags; an issue and its favorites and
tags; a release and its issues; the archive.

### State and code

| Variable | Code |
|---|---|
| `rows`, `used` | tables `projects`, `project_members`, `project_milestones`, `project_updates`, `favorites`, `labels`, `releases`; ids drawn |
| `issues`, `tags` | table `issues` (project, milestone, done, `archived_at`, `released_at`) and `issue_labels` |
| `picture` | the rows and the issues, with their last payload, that a client holds who has replayed the log |
| `reqs` | per handler: the step it is at, what it read, what its transaction will do |
| `backend`, `calls` | the database, and which calls are made in this behaviour |

There is an action per service function. Those that read first and delete later are two:
`CollectProject` and `DestroyProject` are `delete_project`, `CollectIssue` and `DestroyIssue`
`delete_issue`, `FindFavorite` and `RemoveFavorite` `remove_favorite`, `SelectOld` and `ArchiveIssue`
the sweep. `Commit` ends each transaction; `Abandon` is a handler dropped, a statement failing or the
process dying, anywhere.

`Row` gives all tables but issues one form: what kind, about what, which id. Foreign keys are in the
guards: `InProject`, `Keyed` and `Unnamed` say who waits for whom on PostgreSQL. On SQLite `At` lets
nobody run a statement while a transaction is open, because the pool has one connection.

### Abstractions

* What a column says is left out: an update of a project, a milestone or a label tells the row again.
* One user adds and removes members and favorites. Two users' rows never meet.
* How old a done issue is, is left open: the sweep selects any set of them.
* A call that is refused, and a look-up on the pool whose answer the statement checks again, are no
  steps. A statement that waits for a lock starts when it gets it. The reads of one collection are
  one step, as are a `DELETE` and the payloads read behind it.
* The entries count in commit order. On PostgreSQL that is `SyncLog`'s finding 1.
* Comments and relations that go with an issue are in `IssueGraph`, teams in `SyncLog`.

### Properties and run

* `TypeOK`: types, and the foreign keys of the database.
* `NothingLost`: no client misses a row or an unarchived issue that is there, on either database.
* `NothingStale`: on SQLite a client has no row and no issue that is gone, and has every issue it has
  with the project, milestone, status, release and labels it has (but labels that were deleted,
  whose issues are not told).

| Run | Instance | Result |
|---|---|---|
| `records` | 1 project, 2 issues, 2 requests, 2 other rows, both databases, seven sets of calls; requests and issues symmetric | all three hold (1.1 million states) |

A set of calls holds those that touch each other's rows: the parts of a project; milestones and the
issues that name them; favorites of what goes; issues that move between projects or are released;
labels; the archive, twice. Two rows are a milestone of a project and another that survives it; two
issues are one a call is about and one it is not. `CHECK_DEADLOCK FALSE`: rows and ids run out.

### Known limits

* On PostgreSQL `NothingStale` fails. `delete_project` reads what its cascade will take
  (`project_service.rs:575-640`) and then deletes (`:676`): a member, a milestone or an update that
  commits in between is taken without an entry, although `:518-519` says that no client is left
  without the row that replays a removal; an issue that joins the project in between is detached
  and not told. `remove_favorite` and `add_favorite` of one row leave a favorite on clients.
  `set_issue_labels` and `create_release` tell the state of an issue they have not locked.
* On both, `delete_milestone` and `delete_label` do not tell the issues that named what goes: on
  PostgreSQL their milestone is cleared, on either their labels are fewer.
* The sweep's `UPDATE` (`archive_service.rs:75`) does not look at the issue again: one that was
  reopened since it was selected is archived all the same. `set_issue_labels`, `create_release` and
  `delete_project` tell the state of an archived issue and leave it archived, so that clients show
  it again, although `pages/issues/archived.rs:7` says the store has none.
* `create_release` says that an issue that vanished is skipped (`release_service.rs:224-228`); the
  foreign key of `release_issues` refuses the whole release before that.

## 11. Proofs

Each theorem holds for every value of the constants that satisfies the module's one assumption
(`SyncEngineAssumption`, `TabSyncAssumption`, `SyncLogAssumption`, `GitHubConnectionAssumption`, `RecordsAssumption`,
`WebSocketManagerAssumption`, `IssueGraphAssumption`, `ConnectRelayAssumption`), and of what the theorem itself assumes, if it
does: no theorem assumes anything but the absence of races or faults, or the database, and TLC finds
the property violated when such an assumption is dropped.

`SyncEngineProofs`: any rows, types and tasks (finite or not), any bounds, any faults.

* `Typing`: `Spec => []TypeOK`. `TypeOK` is inductive. One lemma per group of actions
  (`TypeServer`, `TypeStream`, `TypeTab`, `TypeWriter`, `TypeLink`), because the union of record
  types that `serving` ranges over needs its own lemmas on pages and on updates of a stream.
* `ClearsBeforeStream`: `Calm` implies `Spec => []NoWipeUnderBootstrap`, where `Calm` says that
  `"reconnect"` is not among the races. The property is not inductive: that no wipe is queued
  under a bootstrap follows from how the bootstrap was asked for. The invariant `Phases` says that
  a connection's handshake is a token that is in exactly one place: a continuation that is
  reading, deciding, flushing or acknowledged; a request on its way; a stream being served; or a
  `SyncReset` on the channel. `Link` is that token on the connection, `Queue` ties it to the
  queue: at most one continuation is busy, every wipe has a flush behind it, there is at most one
  flush, and a continuation waits for it. So under a bootstrap no continuation waits, hence no
  flush is queued, hence no wipe. Without `Calm` the token is not unique (a reconnect starts a
  second one), and the overtaken queue
  is what comes of it.

* `GapClosed`: `Spec => QueueClosesTheGap`, for any faults, races and bounds. What a row will hold
  when the queue is drained is decided by the last op about it. So what is appended either is not
  about the row (`Bypassed`) or decides it, and then the screen changes with it (`Overtaken`); what
  the writer takes off was overruled, or leaves on disk what it said (`Applied`); a wipe that is half
  done still stands in front with the types that are left (`HalfWiped`); a new tab starts from the
  disk with an empty queue. `Sound` says of a step that no write fails in it.
* `NeverAGap`: from that, if no write and no wipe can fail, draining the queue always leaves what the
  screen shows.

* `CursorNeverLies`: `Gentle` implies `Spec => []CursorHonest`: no race, and no failure of a wipe, of the
  read of the cursor or of the availability check. Each of these alone breaks the property (section 3,
  known limits). Row writes, cursor writes, rewinds, data reads and the watermark may fail,
  connections end and tabs die at any point. The property speaks of the disk, and what makes it true
  is in flight: in the write queue, and behind it on the channel. `Item` is that pipeline, the
  frames as the ops they will become; `Decides` says which item of a prefix is the last about a row,
  so `Value` is what the row will be when the writer has come that far. The invariant `Flow` says of
  the pipeline that a claim in it is honest when the writer gets to it, or a failed write will
  suppress it (`ClaimsHonest`); that what stands behind a claim or a usable cursor is no older than it
  (`Honest`); that a claim is alone in the pipeline but for the rewind of a reset (`ClaimAlone`), and
  a reset's wipe, rewind and flush are next to each other (`Shape`). Of a stream it says what the
  drained pipeline holds: every row as of the entry the delta has come to (`DeltaHonest`), or as of
  the watermark unless it is still to be streamed (`BootHonest`). `Opening` and `Emptied` carry this
  over the gap before a stream begins: what a connection has not been sent is undelivered, in order
  (`InOrder`). `Unusable` is why a reset may leave the cursor behind its rows for a while: no server
  serves a delta from it. The lemmas it needs on positions of the log are `AsOfGrows`, `FreshStep`
  (fresh at c is fresh at c + 1, unless entry c + 1 is about the row) and `LagsLess`.

`TabSyncProofs`: any tabs, rows and scenarios, so any number of page loads and lost connections and a
log of any length.

* `Typing`, `ToldOfCached`, `Honest`: `Spec => []TypeOK`, `[]ToldOnlyOfCached`, `[]DiskHonest`, with every
  fault and race. What the cache will hold, and what a tab will show, is decided by messages that are
  still on their way, and a cursor write among them says when it is claimed. So the proof does not
  speak of rows but of a `View`: what somebody who holds f and hears the queue q has now (`now`), has
  when the next cursor write comes (`ahead`), and has when the queue is drained (`all`). `UpToDate`
  says that the first is as fresh as the cursor on disk; the second, unless a write failed, as the cursor
  that is queued; the third, if nothing can fail, as the entry the connection has come to. A step then does one of few things to a view
  (a section of lemmas each: it is appended to, overtaken, renamed, it receives a row or a reset).
  The queue has an invariant of its own, `QueueInv`: claims are not ahead of the connection (`Moved`),
  every broadcast stands behind its write and says what that wrote, and there is one cursor write at
  most (`Items`), a queued delete is of a row that is gone (`Ended`), and a wipe stands in front of
  its flush, with the cursor already unusable (`Shape`).
* `ScreensFollow`, `ScreensSettle`: `Spec => []("slow" \notin scenario.races => ScreensCurrent)`, and the
  same for `ScreensAgree`. The view is now that of a tab: f is what it shows with all it holds applied
  (`Screen`), q is the leader's queue, unless the tab is the leader, who applies before it queues
  (`Heeds`). The invariant `ScreenInv` says that a page that hydrates and is made the leader has nothing to
  tell yet (`Novice`), that the tab that syncs has received what its predecessor posted
  (`Attentive`, what `"slow"` breaks), that while the cache is being cleared every tab shows nothing or
  will be told to (`Cleared`), and that every tab is up to date (`ScreensUp`). A tab that opens starts from
  the disk's view and holds what is posted to it until it has hydrated: reading a list late is safe
  because the held messages are applied over it.

`SyncLogProofs`: any users, teams, views, requests and scenarios, a log of any length; the first two
theorems on both databases and with every race.

* `Entitlement`: `Spec => []OnlyEntitled`. What a client holds says nothing of why it was sent, so
  the invariant `Inv` follows a payload back to the transaction that wrote it. `Addressed`: the
  entry of a team with a payload goes by membership, the entry of a view to all or to its owner.
  `Describes`: while a transaction is open, an entry with a view in it describes a row the
  transaction sets, whose lock it holds, which it shares if the entry is for all, and whose team is
  there. `HoldsCascade`: who removes a team has the locks of its views; so the team is still there
  at the commit, and the row the entry tells of becomes visible with it, to those it is for
  (`Reach`). `Cascaded`: a member is a member of a team that exists, so whom the membership filter
  of a delta, or of a live frame, lets pass may see the team at that moment. `Transactions` and
  `OneWriter` say that open transactions share neither entries nor locks, and that what SQLite
  rolls back is the end of the log.
* `LogTyping`: `Spec => []TypeOK`, from the same invariant: an entry is open exactly while a
  transaction owns it, SQLite has one such transaction at most, and a client's cursor is 0 or the id
  of a visible entry.

* `CatchesUp` and `ScreensSettled`: `Calm` gives `Spec => []CatchUpIsEnough` and
  `Spec => []ScreenSettles`. `Calm` is SQLite, none of the races, and no scenario that deletes a team
  if views are made in teams; without any one of the three TLC finds a violation, so nothing weaker of this form would do. The
  invariant `CatchInv` has two halves.

  `Records` is about the log. The last entry about something that concerns the user says what a
  bootstrap shows it (`LogTold`), and what exists has an entry (`Recorded`). This is a statement
  about audiences: an entry that stops concerning the user when it loses a membership must be
  followed by one that tells it that the team is gone, and one that it could not read before it
  joined must say what the team is now. It survives a commit because what a transaction has
  written tells what its effects will change, for the memberships as they will be then (`Tells`, of each
  open transaction), and what a handler has read on the pool still holds when its transaction opens
  (`UpToDate`).

  `Told` is about the client. What it holds, and what is in the page it is being sent, is either
  what a bootstrap shows or is followed by an entry above the cursor that tells it (`Fresh`,
  `Claimed`); the same of what it will hold once the page is sent (`Due`), above the
  watermark that will become its cursor (`Covered`): the watermark is read before the lists, so an entry that a list already
  shows is only told twice. For the screen, something it holds that is not the latest has a live frame on its way that reaches
  the user (`Settled`, `Awaits`), and a frame that has not been sent is still true (`Sending`, what
  `"late"` breaks).

There is a step lemma per action. Calls meet in `StageInv` and `LookInv`, the client's handler in
`ClientInv`, so that a call's lemma has only to say what its entries and effects are. Least and
greatest ids are `Min` and `Max` of a set; `MinOf` and `MaxOf` derive from the well-foundedness of
`<` on the naturals that they exist.

`GitHubConnectionProofs`: any repositories, authorizations and scenarios, any number of events, so
any number of handlers at once.

* `Typing`, `Dispatched`, `Admitted`, `TokensFresh`: `Spec => []TypeOK`, `[]Once`,
  `[]OutboundAllowed`, `[]TokenCurrent`. None but the first is inductive. The invariant `Inv` says of
  every handler (`JobOK`), every authorization (`FlowOK`) and the row (`RowOK`) that a generation that
  was read is no newer than the row's, and that, if it is the row's, what was read with it still
  holds: the token under way is of the last change, no reconciliation has begun, nothing has ended
  the row since the authorization was started. `NewGeneration` then does for all actions that change
  the row at once: their new generation is nobody's, so whatever they change, nobody relies on it.
  Two actions change the row and keep its generation. `Finish` is safe because a row that is pending
  has no token, and no handler of its generation is about to cache one (the last part of `JobOK`);
  `InsertInv` because nobody has read a row that is not there.
* `EffectsSafe`: `Spec => EffectsAllowed`. The three actions that write do so under `Admits`.
* `Ended`: `Spec => NoResurrection`. Only `Restored` clears what ends a row; whoever may restore it
  has its generation, so by `FlowOK` was started after the last end.
* `ScopeFollows`: `Spec => []ScopeSettles`. A scope is on its way to the row in three places: in the row,
  in a handler that reconciles, in an authorization. Each was read at another time, so none of them
  need be what GitHub grants until the events since are handled. `Fits` says what it is until then:
  right about every repository of which no waiting event speaks (`Waits`: the scope events that have
  yet to reach the row). `Told` says that the events, read in their order, tell what GitHub grants,
  and `InOrder` that the row meets them so: when an event is applied, the events still waiting are
  later ones, so what it says of a repository of which they do not speak is what GitHub grants. What
  GitHub lists is right at once, whatever waits (`GrantFits`). A handler or an
  authorization has to be right only if it may still write (`JobFits`, `FlowFits`: its generation is
  the row's). The invariant, `ScopeInv`, was first checked by TLC on the run's instance.

`WorkspaceRecordsProofs`: any projects, issues, requests and sets of calls, any number of rows.

* `NothingLostAlways`: `Spec => []NothingLost`, on both databases. What a transaction will do is
  decided when its statements run, on tables that others change before it commits, so the invariant
  `Inv` says what stays true until then. Of one transaction: it tells what it adds and evicts no row
  that stays (`RowsTold`); it shows each issue that it leaves to be seen, hides none of those, and
  wakes none that is gone (`IssuesTold`); its new rows are not there yet, and their project is
  (`Added`). Of two: neither takes or evicts what the other adds, nor the project it is added to
  (`Spares`). Of a handler that has read what it will delete: others add no favorite it has read, nor
  its project (`Overlooks`), because ids are new when they are drawn (`Drawn`). `delete_project`
  evicts by what it read: a part that joins the project later is not evicted, and one it read is not
  added again, because whoever adds it holds the project.
* `KeysAlways`: `Spec => []TypeOK`, on both databases. `KeysInv` says what lets a transaction commit
  after others have: ids are drawn once, those of rows that are there or that an open transaction adds
  or cuts (`Distinct` over `Known`); who takes a row takes along what names it, or changes the issues
  that do (`Whole`); and no other open transaction takes what one is about to name (`Stands`), because
  the locks `InProject`, `Keyed`, `Unnamed`, `IssueKept` and `Unshared` keep them apart. An action has
  to satisfy `Agrees` (`KeysStage`); a commit needs no cases (`KeysCommit`).
* `NothingStaleAlways`: `Spec => []NothingStale`, which is about SQLite. One transaction is open at a
  time there, so what it will do is exact when it commits (`Exact`): it evicts all that it cuts and
  shows each issue it changes as it will be, unless it hides it. What a delete has read is what is
  there (`Collected`), and a new label is on no issue a client has (`Unseen`). It rests on `KeysInv`: a
  tag's label exists, so a label is new to the clients as well.
* `StageOK` reduces an action to `Fits`, what its effects have to satisfy when its statements run, and
  `CommitOK` needs no cases by call. So each action has a lemma about its effects only.

`WebSocketManagerProofs`: any connections, limits, channel capacity and log, both modes.

* `Typing`, `NoneDeaf`, `CursorCovered`: `Spec => []TypeOK`, `[]NoDeafSocket`, `[]WatermarkHonest`,
  with every race. `Fits` and `Promised` are about one socket: in front of a `SyncComplete` in its
  queue, or with its client, is all that the watermark covers; while the stream runs that is on the
  way or still to be sent, which is why frames may be dropped meanwhile. `Carried` is what a prefix
  of the queue brings. `RegistryOK` and `NoDeafSocket` tie the sockets to the registry: a socket
  that is not in it has its signal, or has ended.
* `OneSubscriber`: without `"churn"`, `Spec => []Subscribed`. `InTurn` follows the one handler that may
  be connecting or disconnecting: between the map's entry and the task there is a handler that has
  yet to start or abort it (`Entered`, `Tasked`), and a place below the limit stays free between
  the check and the insert (`Within`). That last part also gives `TypeOK` its limit.

`IssueGraphProofs`: any issues, requests, relation types and bounds; both databases unless SQLite is
named.

* `Typing`: `Spec => []TypeOK`, every race. What a transaction has staged must stay possible until it
  commits, while others commit: `Staged` says what each kind of effect relies on (an issue to create
  is unborn, the ends of a new row live, its id is new), `Apart` that no other open transaction takes
  that away, because the locks of the handlers, `Unlocked` and `RowUnlocked`, keep them from it.
* `LogComplete`, `FlagsRight`: on SQLite, `Spec => []LogTellsAll`, `[]FlagsTold`. There is one
  transaction at a time (`OneWriter`), so what it has read is still exact when it commits (`Exact`).
  `FlagsRight` needs that what a status update looked up before its transaction does not grow
  (`Looked`), which is what `"lookup"` breaks.
* `Refines`: on SQLite without `"overlap"`, `Spec => Implements`. `IssueTracker` says of a relation that
  its target does not lead to its source, which is a statement about all sets closed under the
  rows. The proof names one: what the walk down from the target has seen (`WalkedDown`), or all but
  what the walk up from the source has seen (`WalkedUp`). `Validated` carries that set from the walk to
  the commit; it stays closed while relations only go (`ValidatedKept`), and nobody else adds one.

`ConnectRelayProofs`: any pages and connections, any number of sessions and every scenario.

* `Typing`: `Spec => []TypeOK`, with every race. `Typed` is `TypeOK` in parts (the registry, the wires, the agent, the
  pages) with what makes it inductive: the server knows no connection the agent has not made, and a
  session that is being started is in `ptys`, its reader held, until the dispatch that starts it ends.
  A list a page receives is answered by a sequence of requests, so `SessionIds` is assumed finite (the
  server takes ids of at most 128 bytes, `connect_manager.rs:245`).

* `GridsStayWhole`: `Spec => []GridsWhole`, without `"stale"` and with every other race. The invariant
  `GridInv` speaks of one session `s` and one page at a time, in four layers.
  `Wired`: who is not connected has nothing on its way and follows nothing.
  `Birth(s)`: before the spawn of `s` reaches the agent, it is under way once and nobody has said a word of `s`
  (ids are random and never drawn twice; this is where that is used).
  `Order(s)`: the agent's part of the pipeline, cut into streams: of each connection, what is on its way
  and, of the one in use, what waits behind it. Within a stream every chunk follows on the last chunk or dump
  before it, the stream in use ends with the last chunk printed, and after the end of `s` neither its
  stream nor a later one has output of it.
  `PageSound(p, s)`: the page's part. For any queue on its way to `p`, there are sets of what `p` may show
  after each message (`Reads`), so that no message of the queue leaves a gap on any of them, and those
  at the end of the queue fit what the registry and the agent go on with (`Settled`): a page that follows
  `s` shows the chunk before the stream's next one, or awaits a dump; one that does not follow it either
  knows that, or nothing of `s` is to come.
  A step at the server lengthens the queue by one message, a step of the page takes its first one off; everything
  else must keep the ends fitting. Only the end of `s` needs the order of connections (`EndIsLast`:
  once it is read nothing is to come), which is where `"stale"` breaks it.

* `OutputRetained`: `Spec => Retained`, without `"exitgap"` and `"stale"`, each of which breaks it, and with the
  other races. `RetainInv` keeps `Typed`, `Wired` and `Birth` and asks how low what is still to come of `s`
  can be. Not every old message matters, only those the registry will pass on: a message *counts* in a
  stream if the agent has `s`, or if it comes bare (`Bares`): its connection has `s`, or a list before it
  names `s`, and no end of `s` comes between.
  `Rise(s)`: what counts shows no less than what is before it, in its stream or an earlier one, and no more
  than has been printed; and the stream in use does not end bare of a session that the agent has done with
  (`Open` and `Speaking`). The last part is what `"exitgap"` breaks: a list with a session that has told its
  end makes the empty dump after it count.
  `Low(s, n)`: nothing that counts shows less than `n`. Each step keeps what was low low (`Lasts`), whichever
  connection breaks: what was queued becomes the stream of the next one, behind a list of what the
  agent has, so its sessions count anyway.
  `Rising(p, s)`: what page `p` shows of `s` and what is on its way to it is low, and in order. When the
  server passes a message on, that message is the first of its stream, and nothing is left in
  earlier ones (`NothingBefore`, where `"stale"` breaks it), so it is above all that was low, and low itself.

The proofs found one mistake in a model that TLC could not: `Offer` of `WebSocketManager` had a `CASE`
with overlapping arms, which TLC takes in order and TLA+ does not; and looking for the invariant behind
`GridsWhole` led to the violation section 5 describes under `"stale"`.

Every invariant and every action property a passing run checks is a theorem, under the hypotheses
given here. Only model-checked is liveness (`Answered`, `Refilled`, `Converges`, `Evicted`,
`EventuallyCaughtUp`, `Heard`), which is outside what the proof system handles. No
module declares a RECURSIVE operator, so none is closed to later proofs.

## 12. Not modelled

Everything marked `not_modelled` or `partly` in `PROJECT.json`, with the reason there. Of the modelled
systems these are: the browser socket's dial guard and backoff, the schema hash, browsers without
Web Locks or BroadcastChannel, failures of Redis, notifications and watchers of an issue, the limit of a scrollback buffer, and the authentication of either side of the relay.
Notifications and activity are written after the call they are about has committed, and nothing
depends on them; statuses of a team, attachments and comment edits are single-row transactions in the
form of `WorkspaceRecords`. Token refresh and MCP sessions are the next
candidates. The pages and components and the REST routes are request and response code whose state
is the tables above.

Of the GitHub integration: the signature of a delivery, the patterns that find issues in a text, the
choice of a rule, the claims by which workspaces share or lose an installation, several
installations at once, an App that is installed again under a new id, the backfill of rows without
an identity, two callbacks on one authorization (its row is consumed once), and what GitHub does
with a request whose handler was dropped.

## Files

| File | Content |
|---|---|
| `SyncEngine.tla`, `MCSyncEngine.tla`, `SyncEngine_*.cfg` | the leader tab and its server; instances for TLC |
| `SyncEngineProofs.tla` | theorems about `SyncEngine`, and proofs |
| `TabSync.tla`, `MCTabSync.tla`, `TabSync_*.cfg` | the tabs of a browser |
| `TabSyncProofs.tla` | theorems about `TabSync`, and proofs |
| `ConnectRelay.tla`, `ConnectRelay.cfg` | terminal page, server, agent |
| `ConnectRelayProofs.tla` | theorems about `ConnectRelay`, and proofs |
| `IssueTracker.tla`, `IssueGraph.tla`, `MCIssueGraph.tla`, `IssueGraph_safety.cfg` | the issue services and what they implement |
| `IssueGraphProofs.tla` | theorems about `IssueGraph`, the refinement among them, and proofs |
| `WebSocketManager.tla`, `WebSocketManager_sockets.cfg` | connections of a user |
| `WebSocketManagerProofs.tla` | theorems about `WebSocketManager`, and proofs |
| `SyncLog.tla`, `MCSyncLog.tla`, `SyncLog_*.cfg` | transactions, audiences and catch-up |
| `SyncLogProofs.tla` | theorems about `SyncLog`, and proofs |
| `WorkspaceRecords.tla`, `MCWorkspaceRecords.tla`, `WorkspaceRecords_safety.cfg` | projects and what hangs on them, labels, releases, archive |
| `WorkspaceRecordsProofs.tla` | theorems about `WorkspaceRecords`, and their proofs |
| `GitHubConnection.tla`, `MCGitHubConnection.tla`, `GitHubConnection_safety.cfg` | the connection to GitHub |
| `GitHubConnectionProofs.tla` | theorems about `GitHubConnection`, and proofs |
| `PROJECT.json` | components, runs, mutants, source map, findings, hazards, theorems |

Each module ends with its properties; a definition marked "Mutant" is the form of its neighbour that
a property is tested against, and no specification uses it.
