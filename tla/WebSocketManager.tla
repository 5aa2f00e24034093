-------------------------- MODULE WebSocketManager --------------------------
(***************************************************************************)
(* The registry of a user's WebSocket connections (websocket/manager.rs)   *)
(* and the handler that drives each (routes/websocket.rs): connects,       *)
(* disconnects, live frames and catch-up streams that run at once, on one  *)
(* server alone or on several behind Redis.                                *)
(*                                                                         *)
(* Users share nothing here, so there is one.  A frame is the number of    *)
(* the sync log entry it carries; the log is 1..log.                       *)
(***************************************************************************)
EXTENDS Naturals, Sequences, FiniteSets

CONSTANTS
  Conns,      \* connections, each opened once
  NoTask,     \* no Redis subscriber
  Limits,     \* values of MAX_CONNECTIONS_PER_USER to look at
  Capacity,   \* WS_CHANNEL_CAPACITY
  Modes,      \* "local": one server; "redis": frames go through Redis
  Races,      \* {"churn"}: connects and disconnects of the user run at once
  MaxFrames   \* bound: entries ever written to the log

ASSUME WebSocketManagerAssumption ==
  /\ NoTask \notin Conns
  /\ Modes \subseteq {"local", "redis"} /\ Races \subseteq {"churn"}
  /\ Limits \cup {Capacity, MaxFrames} \subseteq Nat \ {0}

VARIABLES
  mode,        \* the mode of this behaviour ...
  limit,       \* ... and its limit
  log,         \* entries of the sync log
  due,         \* frames committed, not delivered or published yet
  registered,  \* Inner.connections of the user ...
  present,     \* ... and whether the map has an entry for the user
  subscriber,  \* Inner.subscribers of the user: a task, named by who started it
  tasks,       \* subscriber tasks: state and what Redis has for them
  sock         \* per connection: its handler, its channel, its client

setting == <<mode, limit>>
vars == <<setting, log, due, registered, present, subscriber, tasks, sock>>

-----------------------------------------------------------------------------
Frames == 1..MaxFrames

Live(f) == [kind |-> "live", n |-> f]
Row(f)  == [kind |-> "row", n |-> f]
Beat    == [kind |-> "beat", n |-> 0]
Done(w) == [kind |-> "complete", n |-> w]

\* at: the step the handler is at.  kill: a permit waits.  ended: a task of the
\* socket that has finished.  job: the step of the receive task, with the
\* watermark and the rows left to stream; flag is catching_up.  For the client:
\* got, what it holds; cursor, its watermark; missed, frames dropped for it
\* while it was catching up.
NewSock == [at |-> "new", queue |-> <<>>, kill |-> FALSE, ended |-> "none",
            job |-> "none", flag |-> FALSE, watermark |-> 0, rows |-> {},
            got |-> {}, cursor |-> 0, missed |-> {}]

Init ==
  /\ mode \in Modes /\ limit \in Limits
  /\ log = 0 /\ due = {}
  /\ registered = {} /\ present = FALSE
  /\ subscriber = NoTask
  /\ tasks = [c \in Conns |-> [state |-> "none", inbox |-> <<>>]]
  /\ sock = [c \in Conns |-> NewSock]

\* The receiver of the channel is dropped: by the send task as it ends, or as
\* the tasks are aborted.
Closed(c) == sock[c].ended = "send" \/ sock[c].at \in {"retain", "remove", "unsubscribe", "closed"}

Connecting(c)    == sock[c].at \in {"insert", "look", "start", "greet"}
Disconnecting(c) == sock[c].at \in {"retain", "remove", "unsubscribe"}

\* connect and disconnect run to their end, unless the race is in play.
Calm(c) == "churn" \in Races \/ \A d \in Conns \ {c} : ~Connecting(d) /\ ~Disconnecting(d)

Goto(c, place) == sock' = [sock EXCEPT ![c].at = place]

Registry == <<registered, present, subscriber, tasks>>

-----------------------------------------------------------------------------
(***************************************************************************)
(* deliver_to_local_user: whoever is full is killed, unless it is catching *)
(* up; the closed and the killed are unregistered.  Sending and            *)
(* unregistering are one step here: in between, those connections are      *)
(* going down already.                                                     *)
(***************************************************************************)
\* Mutant: one frame more than there is room for.
RoomForOneMore(c) == Len(sock[c].queue) <= Capacity

Room(c) == Len(sock[c].queue) < Capacity

CatchingUp(s) == s.job \in {"watermark", "data", "stream"}

Drop(s, item) ==
  IF CatchingUp(s) /\ item.kind = "live" THEN [s EXCEPT !.missed = @ \cup {item.n}] ELSE s

Offer(c, item) ==
  LET s == sock[c]
  IN IF c \notin registered \/ Closed(c) THEN s
     ELSE IF Room(c) THEN [s EXCEPT !.queue = Append(@, item)]
     ELSE IF s.flag THEN Drop(s, item)
     ELSE [s EXCEPT !.kill = TRUE]

Stale(c) == Closed(c) \/ (~Room(c) /\ ~sock[c].flag)

\* Mutant: no signal for the connection that is unregistered.
DeliverToLocalUserUnsignalled(item) ==
  /\ sock' = [c \in Conns |-> [Offer(c, item) EXCEPT !.kill = FALSE]]
  /\ registered' = {c \in registered : ~Stale(c)}
  /\ UNCHANGED present

DeliverToLocalUser(item) ==
  /\ sock' = [c \in Conns |-> Offer(c, item)]
  /\ registered' = {c \in registered : ~Stale(c)}
  /\ UNCHANGED present

\* commit_and_deliver, and deliver: writers do not wait for each other.
CommitChange ==
  /\ log < MaxFrames
  /\ log' = log + 1
  /\ due' = due \cup {log + 1}
  /\ UNCHANGED <<setting, Registry, sock>>

Deliver(f) ==
  /\ f \in due
  /\ due' = due \ {f}
  /\ \/ /\ mode = "local"
        /\ DeliverToLocalUser(Live(f))
        /\ UNCHANGED tasks
     \/ /\ mode = "redis"
        /\ tasks' = [t \in Conns |-> IF tasks[t].state = "on"
                                     THEN [tasks[t] EXCEPT !.inbox = Append(@, f)] ELSE tasks[t]]
        /\ UNCHANGED <<registered, present, sock>>
  /\ UNCHANGED <<setting, log, subscriber>>

-----------------------------------------------------------------------------
(***************************************************************************)
(* The Redis subscriber of the user.                                       *)
(***************************************************************************)
TaskSubscribes(t) ==
  /\ tasks[t].state = "starting"
  /\ tasks' = [tasks EXCEPT ![t].state = "on"]
  /\ UNCHANGED <<setting, log, due, registered, present, subscriber, sock>>

TaskReceives(t) ==
  /\ tasks[t].state = "on" /\ tasks[t].inbox # <<>>
  /\ DeliverToLocalUser(Live(Head(tasks[t].inbox)))
  /\ tasks' = [tasks EXCEPT ![t].inbox = Tail(@)]
  /\ UNCHANGED <<setting, log, due, subscriber>>

-----------------------------------------------------------------------------
(***************************************************************************)
(* connect.                                                                *)
(***************************************************************************)

\* A client that holds the first k entries opens a socket; closed connections
\* are pruned, then the limit holds.
Admit(c, k) ==
  LET open == {d \in registered : ~Closed(d)}
  IN /\ sock[c].at = "new" /\ Calm(c)
     /\ k \in 0..log
     /\ registered' = open
     /\ sock' = [sock EXCEPT ![c] = [@ EXCEPT !.got = 1..k, !.cursor = k,
                     !.at = IF Cardinality(open) < limit THEN "insert" ELSE "closed"]]
     /\ UNCHANGED <<setting, log, due, present, subscriber, tasks>>

Insert(c) ==
  /\ sock[c].at = "insert"
  /\ registered' = registered \cup {c}
  /\ present' = TRUE
  /\ Goto(c, IF mode = "redis" THEN "look" ELSE "greet")
  /\ UNCHANGED <<setting, log, due, subscriber, tasks>>

LookForSubscriber(c) ==
  /\ sock[c].at = "look"
  /\ Goto(c, IF subscriber = NoTask THEN "start" ELSE "greet")
  /\ UNCHANGED <<setting, log, due, Registry>>

\* start_redis_subscriber: a handle that is replaced is dropped, its task goes on.
StartRedisSubscriber(c) ==
  /\ sock[c].at = "start"
  /\ tasks' = [tasks EXCEPT ![c].state = "starting"]
  /\ subscriber' = c
  /\ Goto(c, "greet")
  /\ UNCHANGED <<setting, log, due, registered, present>>

\* The heartbeat goes to all connections of the user; then the handler spawns
\* the tasks of the socket.
Greet(c) ==
  /\ sock[c].at = "greet"
  /\ registered' = {d \in registered : ~Stale(d)}
  /\ sock' = [d \in Conns |-> IF d = c THEN [Offer(c, Beat) EXCEPT !.at = "run"]
                              ELSE Offer(d, Beat)]
  /\ UNCHANGED <<setting, log, due, present, subscriber, tasks>>

-----------------------------------------------------------------------------
(***************************************************************************)
(* The tasks of a socket.                                                  *)
(***************************************************************************)
Running(c) == sock[c].at = "run"

\* What the client does with an item: rows and live frames fill it, a
\* SyncComplete moves its cursor.
Take(s, item) ==
  CASE item.kind \in {"live", "row"} -> [s EXCEPT !.got = @ \cup {item.n}]
    [] item.kind = "complete" -> [s EXCEPT !.cursor = item.n]
    [] OTHER -> s

SendNext(c) ==
  /\ Running(c) /\ sock[c].ended # "send" /\ sock[c].queue # <<>>
  /\ LET s == sock[c]
     IN sock' = [sock EXCEPT ![c] = [Take(s, Head(s.queue)) EXCEPT !.queue = Tail(@)]]
  /\ UNCHANGED <<setting, log, due, Registry>>

\* The page closes or the network fails: a read or a write ends its task.
Break(c) ==
  /\ Running(c) /\ sock[c].ended = "none"
  /\ \E task \in {"send", "receive"} :
       sock' = [sock EXCEPT ![c] = IF task = "send" THEN [@ EXCEPT !.ended = task, !.queue = <<>>]
                                   ELSE [@ EXCEPT !.ended = task, !.job = "done", !.flag = FALSE]]
  /\ UNCHANGED <<setting, log, due, Registry>>

\* handle_sync_bootstrap and handle_sync_delta take the guard first.  A client
\* asks once per connection here.
AskCatchUp(c) ==
  /\ Running(c) /\ sock[c].ended # "receive" /\ sock[c].job = "none"
  /\ sock' = [sock EXCEPT ![c] = [@ EXCEPT !.flag = TRUE, !.job = "watermark"]]
  /\ UNCHANGED <<setting, log, due, Registry>>

\* A bootstrap reads the watermark before the data, a delta reads entries and
\* takes the last for its watermark.
ReadWatermark(c) ==
  /\ sock[c].job = "watermark"
  /\ \/ sock' = [sock EXCEPT ![c] = [@ EXCEPT !.watermark = log, !.job = "data"]]
     \/ sock' = [sock EXCEPT ![c] = [@ EXCEPT !.watermark = log, !.job = "stream",
                                              !.rows = (sock[c].cursor + 1)..log]]
  /\ UNCHANGED <<setting, log, due, Registry>>

ReadData(c) ==
  /\ sock[c].job = "data"
  /\ sock' = [sock EXCEPT ![c] = [@ EXCEPT !.job = "stream", !.rows = 1..log]]
  /\ UNCHANGED <<setting, log, due, Registry>>

\* Mutant: the watermark is the newest there is when the stream ends.
FinishAtLatest(c) == [sock[c] EXCEPT !.queue = Append(@, Done(log)), !.watermark = 0,
                                     !.job = "done", !.flag = FALSE]

\* The watermark ends the stream, and the guard is let go of.
Finish(c) == [sock[c] EXCEPT !.queue = Append(@, Done(sock[c].watermark)), !.watermark = 0,
                             !.job = "done", !.flag = FALSE]

StreamRow(c) ==
  LET f == CHOOSE g \in sock[c].rows : \A h \in sock[c].rows : g <= h
  IN [sock[c] EXCEPT !.queue = Append(@, Row(f)), !.rows = @ \ {f}]

\* Each send waits for room, and fails when the receiver is gone.
Stream(c) ==
  /\ sock[c].job = "stream"
  /\ Room(c) \/ Closed(c)
  /\ sock' = [sock EXCEPT ![c] = IF Closed(c) THEN [@ EXCEPT !.job = "done", !.flag = FALSE]
                                 ELSE IF @.rows = {} THEN Finish(c) ELSE StreamRow(c)]
  /\ UNCHANGED <<setting, log, due, Registry>>

\* Mutant: nobody waits for the permit.
StopWhenEnded(c) ==
  /\ Running(c) /\ Calm(c)
  /\ sock[c].ended # "none"
  /\ sock' = [sock EXCEPT ![c] = [NewSock EXCEPT !.at = "retain"]]
  /\ UNCHANGED <<setting, log, due, Registry>>

\* A task that ended or a permit: both tasks are aborted, which closes the
\* channel and drops the guard.
Stop(c) ==
  /\ Running(c) /\ Calm(c)
  /\ sock[c].kill \/ sock[c].ended # "none"
  /\ sock' = [sock EXCEPT ![c] = [NewSock EXCEPT !.at = "retain"]]
  /\ UNCHANGED <<setting, log, due, Registry>>

-----------------------------------------------------------------------------
(***************************************************************************)
(* disconnect.                                                             *)
(***************************************************************************)
Retain(c) ==
  /\ sock[c].at = "retain"
  /\ registered' = registered \ {c}
  /\ Goto(c, "remove")
  /\ UNCHANGED <<setting, log, due, present, subscriber, tasks>>

\* Mutant: the entry goes with whoever is in it.
RemoveAnyway(c) ==
  /\ sock[c].at = "remove"
  /\ present' = FALSE
  /\ Goto(c, "unsubscribe")
  /\ UNCHANGED <<setting, log, due, registered, subscriber, tasks>>

RemoveIfEmpty(c) ==
  LET removed == present /\ registered = {}
  IN /\ sock[c].at = "remove"
     /\ present' = (present /\ ~removed)
     /\ Goto(c, IF removed /\ mode = "redis" THEN "unsubscribe" ELSE "closed")
     /\ UNCHANGED <<setting, log, due, registered, subscriber, tasks>>

Unsubscribe(c) ==
  /\ sock[c].at = "unsubscribe"
  /\ tasks' = [t \in Conns |-> IF t = subscriber THEN [state |-> "none", inbox |-> <<>>]
                               ELSE tasks[t]]
  /\ subscriber' = NoTask
  /\ Goto(c, "closed")
  /\ UNCHANGED <<setting, log, due, registered, present>>

-----------------------------------------------------------------------------
Connect(c) ==
  \/ \E k \in 0..MaxFrames : Admit(c, k)
  \/ Insert(c) \/ LookForSubscriber(c) \/ StartRedisSubscriber(c) \/ Greet(c)

CatchUp(c) == AskCatchUp(c) \/ ReadWatermark(c) \/ ReadData(c) \/ Stream(c)

Disconnect(c) == Stop(c) \/ Retain(c) \/ RemoveIfEmpty(c) \/ Unsubscribe(c)

Publish == \E f \in Frames : Deliver(f)

Next ==
  \/ CommitChange \/ Publish
  \/ \E c \in Conns : \/ TaskSubscribes(c) \/ TaskReceives(c)
                      \/ Connect(c) \/ CatchUp(c) \/ SendNext(c) \/ Break(c) \/ Disconnect(c)

\* Tasks that can run are scheduled, a handler goes on once it has begun to
\* connect, and a client reads until its socket breaks.  Nothing is asked of Redis.
Handler(c) == (Connecting(c) /\ Connect(c)) \/ Disconnect(c)

Fairness ==
  /\ WF_vars(Publish)
  /\ \A c \in Conns : WF_vars(Handler(c)) /\ WF_vars(CatchUp(c)) /\ WF_vars(SendNext(c))

Spec == Init /\ [][Next]_vars /\ Fairness

-----------------------------------------------------------------------------
(***************************************************************************)
(* Properties.                                                             *)
(***************************************************************************)
Item == [kind : {"live", "row", "complete", "beat"}, n : 0..MaxFrames]

\* Types; no channel holds more than its capacity, and no user more than the limit.
TypeOK ==
  /\ mode \in Modes /\ limit \in Limits
  /\ log \in 0..MaxFrames /\ due \subseteq 1..log
  /\ registered \subseteq Conns /\ present \in BOOLEAN
  /\ "churn" \in Races \/ Cardinality(registered) <= limit
  /\ subscriber \in Conns \cup {NoTask}
  /\ \A t \in Conns : tasks[t].inbox \in Seq(Frames)
  /\ \A c \in Conns : /\ sock[c].queue \in Seq(Item) /\ Len(sock[c].queue) <= Capacity
                      /\ sock[c].rows \cup sock[c].got \cup sock[c].missed \subseteq 1..log
                      /\ {sock[c].cursor, sock[c].watermark} \subseteq 0..log

\* A socket that is driven is registered, or on its way down: none lives on
\* "unregistered and deaf" (manager.rs, ConnectionHandle).
NoDeafSocket ==
  \A c \in Conns : sock[c].at \in {"look", "start", "greet", "run"} =>
    c \in registered \/ sock[c].kill \/ sock[c].ended # "none"

\* A SyncComplete covers nothing its client lacks, whatever was dropped while the
\* stream ran (manager.rs, deliver_to_local_user: "a later delta re-delivers it").
WatermarkHonest == \A c \in Conns : 1..sock[c].cursor \subseteq sock[c].got

\* With Redis and nobody of the user connecting or disconnecting, a user with a
\* connection has a subscriber task (manager.rs, disconnect: "preventing a TOCTOU
\* race where connect() could add a new connection between the retain and the
\* removal").
Calmed == \A c \in Conns : ~Connecting(c) /\ ~Disconnecting(c)

Subscribing == {t \in Conns : tasks[t].state # "none"}

Fed == mode = "redis" /\ Calmed /\ registered # {} => Subscribing # {}

\* It is one task, the one that disconnect can abort, and gone when the user is:
\* none delivers twice, and none is left behind (manager.rs, connect and disconnect).
Subscribed ==
  mode = "redis" /\ Calmed =>
    /\ Fed
    /\ Subscribing \subseteq {subscriber}
    /\ (\A c \in Conns : ~Running(c)) => Subscribing = {}

\* Without Redis, once changes end, every client that stays connected has all of
\* them, but those dropped during a catch-up.
Heard ==
  mode = "local" => <>[](\A c \in Conns : Running(c) => 1..log \subseteq sock[c].got \cup sock[c].missed)
=============================================================================
