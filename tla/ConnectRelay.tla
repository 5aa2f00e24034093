---------------------------- MODULE ConnectRelay ----------------------------
(***************************************************************************)
(* Terminal sessions of one user: the pages that show them                 *)
(* (components/terminal/client.rs, sessions.rs), the agent on the user's   *)
(* machine that runs them (apps/trakkt-connect: ws_client.rs,              *)
(* pty_manager.rs), and the server between them, which only keeps a        *)
(* registry of who is connected and where a session lives                  *)
(* (connect_manager.rs, routes/connect.rs).                                *)
(*                                                                         *)
(* Output is numbered chunks: the n-th chunk a session prints is n.  The   *)
(* scrollback buffer is taken to hold everything printed so far.           *)
(***************************************************************************)
EXTENDS Naturals, FiniteSets, SequencesExt

CONSTANTS
  Pages,       \* terminal pages open in browsers
  SessionIds,  \* session ids the pages may draw
  NoSession,   \* the agent is not in the middle of a spawn
  MaxConns,    \* bound: connections the agent ever makes
  MaxLinks,    \* bound: connections each page ever makes, if they may break
  MaxChunks,   \* bound: chunks a session ever prints
  ChanCap,     \* CHANNEL_CAPACITY, of the server's channel to a peer
  AgentCap,    \* capacity of the agent's own outgoing queue
  WireCap,     \* bound: messages of the agent on the way before a send blocks
  MaxSessions, \* MAX_SESSIONS_PER_AGENT
  Scenarios,   \* what may happen together, see EventKinds
  Races        \* which timing assumptions are dropped, see RaceKinds

(***************************************************************************)
(* "spawn": a process does not start; "hangup": connections of the agent   *)
(* break, with what they carry; "page": pages lose their connection;       *)
(* "close": a user closes tabs.  The last connection of a peer holds.      *)
(***************************************************************************)
EventKinds == {"spawn", "hangup", "page", "close"}

(***************************************************************************)
(* "abort": the agent's connection may break while a spawn waits for room  *)
(* in the agent's queue; "exitgap": the agent may list its sessions        *)
(* between reporting the end of one and forgetting it; "busy": the         *)
(* server's channel to an agent that reads from it may be full; "stale":   *)
(* the server may hear from a connection of the agent after it has heard   *)
(* from a later one.                                                       *)
(***************************************************************************)
RaceKinds == {"abort", "exitgap", "busy", "stale"}

ASSUME ConnectRelayAssumption ==
  /\ NoSession \notin SessionIds
  /\ IsFiniteSet(SessionIds)
  /\ {MaxConns, MaxChunks} \subseteq Nat
  /\ {MaxLinks, ChanCap, AgentCap, WireCap, MaxSessions} \subseteq Nat \ {0}
  /\ Scenarios \subseteq SUBSET EventKinds
  /\ Races \subseteq RaceKinds

Conns  == 1..MaxConns
NoConn == 0

VARIABLES
  agents,     \* Registry: agents, the connections of the agent it knows
  sessions,   \* Registry: sessions, session id -> connection
  infos,      \* Registry: infos, the ids some list has acknowledged
  subscribed, \* Registry: browsers, page -> session ids it gets output of
  toAgent,    \* per connection: commands on their way to the agent
  fromAgent,  \* per connection: messages on their way to the server
  toPage,     \* per page: messages on their way to it
  fromPage,   \* per page: commands on their way to the server
  conn,       \* WsClient: the connection it runs, or NoConn
  conns,      \* connections the agent has made
  outgoing,   \* WsClient: agent_rx
  spawning,   \* the session a dispatch is starting, or NoSession
  ptys,       \* PtyManager: sessions
  link,       \* per page: "down", "up", or "dropped" by the server
  links,      \* per page: connections it has made
  drawn,      \* session ids drawn so far; they are random, and never drawn twice
  scenario,   \* what may happen in this behaviour
  agentUp,    \* per page: agent_connected
  entries,    \* per page: Sessions, entries
  closing     \* per page: tabs that wait for the end of what they killed

registryVars == <<agents, sessions, infos>>
agentVars    == <<conn, conns, outgoing, spawning, ptys>>
wireVars     == <<toAgent, fromAgent, toPage, fromPage>>
linkVars     == <<link, links, drawn, scenario>>
viewVars     == <<agentUp, entries, closing>>
vars == <<registryVars, subscribed, wireVars, agentVars, linkVars, viewVars>>

-----------------------------------------------------------------------------
Empty == << >>

Put(f, x, v) == [y \in DOMAIN f \cup {x} |-> IF y = x THEN v ELSE f[y]]
Without(f, S) == Restrict(f, DOMAIN f \ S)

\* AgentMessage, without Pong.
Status(c)    == [is |-> "status", connected |-> c]
Ready        == [is |-> "ready"]
List(S)      == [is |-> "list", ids |-> S]
Output(s, n) == [is |-> "output", id |-> s, chunk |-> n]
Dump(s, n)   == [is |-> "dump", id |-> s, upto |-> n]
Event(s, e)  == [is |-> "event", id |-> s, event |-> e]

Events == {"started", "failed", "exited", "killed"}
Ends   == {"failed", "exited", "killed"}

AgentMessage ==
  [is : {"status"}, connected : BOOLEAN] \cup {Ready} \cup [is : {"list"}, ids : SUBSET SessionIds]
    \cup [is : {"output"}, id : SessionIds, chunk : 1..MaxChunks]
    \cup [is : {"dump"}, id : SessionIds, upto : 0..MaxChunks]
    \cup [is : {"event"}, id : SessionIds, event : Events]

\* ServerMessage; "resize" also stands for SessionInput.
Command(d, s) == [do |-> d, id |-> s]
ListSessions  == [do |-> "list"]
Ping          == [do |-> "ping"]
ServerMessage ==
  [do : {"spawn", "kill", "resize", "scrollback"}, id : SessionIds] \cup {ListSessions, Ping}

\* PtySession: its reader is "held" until Started is published, "orphaned" when
\* that never happens, and "reported" once it has told of the end.
Pty == [reader : {"held", "running", "orphaned", "reported"}, alive : BOOLEAN, killed : BOOLEAN,
        printed : 0..MaxChunks]

\* Session of a page: shown is the last chunk on its grid; whole says that all
\* the chunks before it are there, once each.
Entry == [running : BOOLEAN, restoring : BOOLEAN, subscribed : BOOLEAN, shown : 0..MaxChunks,
          whole : BOOLEAN]

Init ==
  /\ agents = {} /\ sessions = Empty /\ infos = {} /\ subscribed = Empty
  /\ toAgent = [c \in Conns |-> <<>>]
  /\ fromAgent = [c \in Conns |-> <<>>]
  /\ toPage = [p \in Pages |-> <<>>]
  /\ fromPage = [p \in Pages |-> <<>>]
  /\ conn = NoConn /\ conns = 0 /\ outgoing = <<>> /\ spawning = NoSession /\ ptys = Empty
  /\ link = [p \in Pages |-> "down"]
  /\ links = [p \in Pages |-> 0]
  /\ drawn = {} /\ scenario \in Scenarios
  /\ agentUp = [p \in Pages |-> FALSE]
  /\ entries = [p \in Pages |-> Empty]
  /\ closing = [p \in Pages |-> {}]

-----------------------------------------------------------------------------
(***************************************************************************)
(* The registry, and what it sends to pages.  A page whose channel is full *)
(* is dropped: it leaves the registry, and its socket closes once what is  *)
(* already queued has been sent.                                           *)
(***************************************************************************)

\* The messages ms go to the pages of receivers; subs is what every page of the
\* registry is subscribed to afterwards.
Notify(receivers, ms, subs) ==
  LET full == {p \in receivers : Len(toPage[p]) + Len(ms) > ChanCap}
  IN /\ toPage' = [p \in Pages |->
                     IF p \in receivers
                     THEN toPage[p] \o SubSeq(ms, 1, IF p \in full THEN ChanCap - Len(toPage[p])
                                                     ELSE Len(ms))
                     ELSE toPage[p]]
     /\ subscribed' = Without(subs, full)
     /\ link' = [p \in Pages |-> IF p \in full THEN "dropped" ELSE link[p]]

\* Every page in the registry gets ms, and forgets the sessions of gone.
NotifyOwner(ms, gone) ==
  Notify(DOMAIN subscribed, ms, [p \in DOMAIN subscribed |-> subscribed[p] \ gone])

\* register_agent, and the bootstrap of the agent's new connection: what it runs
\* goes ahead of everything that waits in its queue.
AgentConnect ==
  /\ conn = NoConn
  /\ conns < MaxConns
  /\ "exitgap" \in Races \/ \A s \in DOMAIN ptys : ptys[s].reader # "reported"
  /\ conns' = conns + 1
  /\ conn' = conns + 1
  /\ agents' = agents \cup {conn'}
  /\ fromAgent' = [fromAgent EXCEPT ![conn'] = <<Ready, List(DOMAIN ptys)>>]
  /\ NotifyOwner(<<Status(TRUE)>>, {})
  /\ UNCHANGED <<sessions, infos, toAgent, fromPage, outgoing, spawning, ptys, links, drawn, scenario,
                 viewVars>>

\* Mutant: subscriptions outlive the sessions of the connection.
UnregisterHalf(c) ==
  LET gone == {s \in DOMAIN sessions : sessions[s] = c}
  IN /\ c \in agents
     /\ agents' = agents \ {c}
     /\ sessions' = Without(sessions, gone)
     /\ infos' = infos \ gone
     /\ NotifyOwner(<<Status(agents' # {}), List(infos')>>, {})
     /\ fromAgent' = [fromAgent EXCEPT ![c] = <<>>]
     /\ toAgent' = [toAgent EXCEPT ![c] = IF c = conn THEN @ ELSE <<>>]
     /\ UNCHANGED <<fromPage, agentVars, links, drawn, scenario, viewVars>>

\* unregister_agent.  What the server has written to the connection stays there.
Unregister(c) ==
  LET gone == {s \in DOMAIN sessions : sessions[s] = c}
  IN /\ c \in agents
     /\ agents' = agents \ {c}
     /\ sessions' = Without(sessions, gone)
     /\ infos' = infos \ gone
     /\ NotifyOwner(<<Status(agents' # {}), List(infos')>>, gone)
     /\ fromAgent' = [fromAgent EXCEPT ![c] = <<>>]
     /\ toAgent' = [toAgent EXCEPT ![c] = IF c = conn THEN @ ELSE <<>>]
     /\ UNCHANGED <<fromPage, agentVars, links, drawn, scenario, viewVars>>

\* The server finds a connection dead that the agent has given up.
Reap(c) == c # conn /\ Unregister(c)

\* The server gives up a connection the agent still uses.
ServerHangup(c) == "hangup" \in scenario /\ conns < MaxConns /\ c = conn /\ Unregister(c)

\* handle_agent_message.
Received(c, kinds) ==
  /\ c \in agents
  /\ "stale" \in Races \/ \A d \in agents : d < c => fromAgent[d] = <<>>
  /\ fromAgent[c] # <<>>
  /\ Head(fromAgent[c]).is \in kinds
  /\ fromAgent' = [fromAgent EXCEPT ![c] = Tail(@)]
  /\ UNCHANGED <<agents, toAgent, fromPage, agentVars, links, drawn, scenario, viewVars>>

\* agent_message, SessionList: names sessions of this connection, or of none; a
\* session of it that an earlier list has named and this one has not is gone.
OnSessionList(c) ==
  LET m == Head(fromAgent[c])
      accepted == {s \in m.ids : s \notin DOMAIN sessions \/ sessions[s] = c}
      known == [s \in DOMAIN sessions \cup accepted |-> IF s \in accepted THEN c ELSE sessions[s]]
      acknowledged == infos \cup accepted
      gone == {s \in DOMAIN known : known[s] = c /\ s \in acknowledged \ accepted}
  IN /\ Received(c, {"list"})
     /\ sessions' = Without(known, gone)
     /\ infos' = acknowledged \ gone
     /\ NotifyOwner(<<List(infos')>>, gone)

\* Mutant: the end of a session leaves it in the registry.
OnSessionMessageKeeping(c) ==
  LET m == Head(fromAgent[c])
      mine == m.id \in DOMAIN sessions /\ sessions[m.id] = c
  IN /\ Received(c, {"output", "dump", "event"})
     /\ UNCHANGED <<sessions, infos>>
     /\ \/ ~mine /\ UNCHANGED <<toPage, subscribed, link>>
        \/ mine /\ Notify({p \in DOMAIN subscribed : m.id \in subscribed[p]}, <<m>>, subscribed)

\* agent_message, SessionOutput, ScrollbackDump and SessionEvent: for the pages
\* that follow the session, if it is this connection's.
OnSessionMessage(c) ==
  LET m == Head(fromAgent[c])
      mine == m.id \in DOMAIN sessions /\ sessions[m.id] = c
      gone == IF m.is = "event" /\ m.event \in Ends THEN {m.id} ELSE {}
  IN /\ Received(c, {"output", "dump", "event"})
     /\ \/ /\ ~mine
           /\ UNCHANGED <<sessions, infos, toPage, subscribed, link>>
        \/ /\ mine
           /\ sessions' = Without(sessions, gone)
           /\ infos' = infos \ gone
           /\ Notify({p \in DOMAIN subscribed : m.id \in subscribed[p]}, <<m>>,
                     [p \in DOMAIN subscribed |-> subscribed[p] \ gone])

\* agent_message, Ready.
OnReady(c) ==
  /\ Received(c, {"ready"})
  /\ NotifyOwner(<<Ready>>, {})
  /\ UNCHANGED <<sessions, infos>>

\* The send task's ping_interval.  Bound: the answer to the last one has reached
\* the pages; one into a dead connection would be lost.
SendPing(c) ==
  /\ c \in agents /\ c = conn
  /\ toAgent[c] = <<>> /\ outgoing = <<>> /\ fromAgent[c] = <<>>
  /\ \A p \in Pages : toPage[p] = <<>> /\ fromPage[p] = <<>>
  /\ toAgent' = [toAgent EXCEPT ![c] = <<Ping>>]
  /\ UNCHANGED <<registryVars, subscribed, fromAgent, toPage, fromPage, agentVars, linkVars,
                 viewVars>>

-----------------------------------------------------------------------------
(***************************************************************************)
(* Commands of pages.                                                      *)
(***************************************************************************)
HasRoom(c) == Len(toAgent[c]) < ChanCap \/ (c = conn /\ "busy" \notin Races)

Forward(c, m) == toAgent' = [toAgent EXCEPT ![c] = Append(@, m)]

Subscribe(p, s) == subscribed' = [subscribed EXCEPT ![p] = @ \cup {s}]

\* A message for one page, which is lost when its channel is full.
Reply(p, m) == toPage' = [toPage EXCEPT ![p] = IF Len(@) < ChanCap THEN Append(@, m) ELSE @]

\* handle_browser_message and browser_error: an error goes back as a spawn that
\* failed.
Refuse(p, s) ==
  /\ Reply(p, Event(s, "failed"))
  /\ UNCHANGED <<sessions, subscribed, toAgent>>

Commanded(p, kinds) ==
  /\ p \in DOMAIN subscribed
  /\ fromPage[p] # <<>>
  /\ Head(fromPage[p]).do \in kinds
  /\ fromPage' = [fromPage EXCEPT ![p] = Tail(@)]
  /\ UNCHANGED <<agents, infos, fromAgent, agentVars, linkVars, viewVars>>

Accepts(c) ==
  HasRoom(c) /\ Cardinality({s \in DOMAIN sessions : sessions[s] = c}) < MaxSessions

\* browser_command, SpawnSession: one connection of the agent is taken, and the
\* id is reserved as the command is queued.
OnSpawnSession(p) ==
  /\ Commanded(p, {"spawn"})
  /\ LET m == Head(fromPage[p]) IN
       \/ \E c \in agents :
            /\ m.id \notin DOMAIN sessions
            /\ Accepts(c)
            /\ Forward(c, m)
            /\ sessions' = Put(sessions, m.id, c)
            /\ Subscribe(p, m.id)
            /\ UNCHANGED toPage
       \/ /\ m.id \in DOMAIN sessions \/ agents = {} \/ \E c \in agents : ~Accepts(c)
          /\ Refuse(p, m.id)

\* browser_command, SessionInput, SessionResize, SessionKill and
\* ScrollbackRequest; the last one subscribes.
OnSessionCommand(p) ==
  /\ Commanded(p, {"kill", "resize", "scrollback"})
  /\ LET m == Head(fromPage[p])
         deliverable == m.id \in DOMAIN sessions /\ HasRoom(sessions[m.id])
     IN \/ /\ deliverable
           /\ Forward(sessions[m.id], m)
           /\ IF m.do = "scrollback" THEN Subscribe(p, m.id) ELSE UNCHANGED subscribed
           /\ UNCHANGED <<toPage, sessions>>
        \/ /\ ~deliverable
           /\ Refuse(p, m.id)

\* browser_command, ListSessions: to every connection in turn, up to the first
\* that has no room.
OnListSessions(p) ==
  /\ Commanded(p, {"list"})
  /\ UNCHANGED <<sessions, subscribed>>
  /\ \/ /\ agents = {}
        /\ Reply(p, List({}))
        /\ UNCHANGED toAgent
     \/ \E S \in SUBSET agents :
          /\ agents # {}
          /\ \A c \in S : HasRoom(c)
          /\ S = agents \/ \E c \in agents : ~HasRoom(c)
          /\ toAgent' = [c \in Conns |-> IF c \in S THEN Append(toAgent[c], ListSessions)
                                         ELSE toAgent[c]]
          /\ UNCHANGED toPage

-----------------------------------------------------------------------------
(***************************************************************************)
(* The agent.  One task sends what waits in outgoing; one dispatches what  *)
(* arrives, in order; each session has a reader.                           *)
(***************************************************************************)
Room == Len(outgoing) < AgentCap

Enqueue(m) == outgoing' = Append(outgoing, m)

AgentOnly ==
  UNCHANGED <<registryVars, subscribed, toPage, fromPage, conns, linkVars, viewVars>>

\* run_session, the send arm: into a connection the server has given up, it is
\* lost.  Bound: WireCap messages are on the way before a send blocks.
AgentSend ==
  /\ conn # NoConn
  /\ outgoing # <<>>
  /\ \/ /\ conn \in agents
        /\ Len(fromAgent[conn]) < WireCap
        /\ fromAgent' = [fromAgent EXCEPT ![conn] = Append(@, Head(outgoing))]
     \/ /\ conn \notin agents
        /\ UNCHANGED fromAgent
  /\ outgoing' = Tail(outgoing)
  /\ UNCHANGED <<toAgent, conn, spawning, ptys>>
  /\ AgentOnly

\* run_session ends, and with it the task that dispatches: a spawn that waits to
\* publish Started is cut off, and its reader never starts.
AgentDrop ==
  /\ conn # NoConn
  /\ conn \notin agents \/ ("hangup" \in scenario /\ conns < MaxConns)
  /\ spawning = NoSession \/ "abort" \in Races
  /\ conn' = NoConn
  /\ toAgent' = [toAgent EXCEPT ![conn] = <<>>]
  /\ spawning' = NoSession
  /\ ptys' = [s \in DOMAIN ptys |-> IF s = spawning THEN [ptys[s] EXCEPT !.reader = "orphaned"]
                                    ELSE ptys[s]]
  /\ UNCHANGED <<fromAgent, outgoing>>
  /\ AgentOnly

\* dispatch: one command at a time.
Dispatched(kinds) ==
  /\ conn # NoConn
  /\ spawning = NoSession
  /\ toAgent[conn] # <<>>
  /\ Head(toAgent[conn]).do \in kinds
  /\ toAgent' = [toAgent EXCEPT ![conn] = Tail(@)]
  /\ UNCHANGED <<fromAgent, conn>>
  /\ AgentOnly

\* PtyManager::spawn, up to Started.
Spawn ==
  /\ Dispatched({"spawn"})
  /\ LET s == Head(toAgent[conn]).id
         refused == s \in DOMAIN ptys \/ Cardinality(DOMAIN ptys) >= MaxSessions
     IN \/ /\ refused \/ "spawn" \in scenario
           /\ Room
           /\ Enqueue(Event(s, "failed"))
           /\ UNCHANGED <<spawning, ptys>>
        \/ /\ ~refused
           /\ ptys' = Put(ptys, s, [reader |-> "held", alive |-> TRUE, killed |-> FALSE,
                                    printed |-> 0])
           /\ spawning' = s
           /\ UNCHANGED outgoing

\* Mutant: the reader is not told to start.
FinishSpawnHeld ==
  /\ spawning # NoSession
  /\ Room
  /\ Enqueue(Event(spawning, "started"))
  /\ spawning' = NoSession
  /\ UNCHANGED <<ptys, toAgent, fromAgent, conn>>
  /\ AgentOnly

\* PtyManager::spawn, from Started on.
FinishSpawn ==
  /\ spawning # NoSession
  /\ Room
  /\ Enqueue(Event(spawning, "started"))
  /\ ptys' = [ptys EXCEPT ![spawning].reader = "running"]
  /\ spawning' = NoSession
  /\ UNCHANGED <<toAgent, fromAgent, conn>>
  /\ AgentOnly

\* PtyManager::kill, with force: the page always asks for it.
Kill ==
  /\ Dispatched({"kill"})
  /\ LET s == Head(toAgent[conn]).id IN
       ptys' = IF s \in DOMAIN ptys
               THEN [ptys EXCEPT ![s].alive = FALSE, ![s].killed = TRUE]
               ELSE ptys
  /\ UNCHANGED <<outgoing, spawning>>

\* write_input and resize.
Resize ==
  /\ Dispatched({"resize"})
  /\ UNCHANGED <<outgoing, spawning, ptys>>

\* dispatch, ScrollbackRequest.
DumpScrollback ==
  /\ Dispatched({"scrollback"})
  /\ Room
  /\ LET s == Head(toAgent[conn]).id IN
       Enqueue(Dump(s, IF s \in DOMAIN ptys THEN ptys[s].printed ELSE 0))
  /\ UNCHANGED <<spawning, ptys>>

\* dispatch, ListSessions and Ping.
Relist ==
  /\ Dispatched({"list", "ping"})
  /\ Room
  /\ "exitgap" \in Races \/ \A s \in DOMAIN ptys : ptys[s].reader # "reported"
  /\ Enqueue(List(DOMAIN ptys))
  /\ UNCHANGED <<spawning, ptys>>

\* The reader of s appends to the scrollback and queues the output, under
\* output_lock.
Produce(s) ==
  /\ ptys[s].reader = "running" /\ ptys[s].alive
  /\ ptys[s].printed < MaxChunks
  /\ Room
  /\ ptys' = [ptys EXCEPT ![s].printed = @ + 1]
  /\ Enqueue(Output(s, ptys[s].printed + 1))
  /\ UNCHANGED <<toAgent, fromAgent, conn, spawning>>
  /\ AgentOnly

\* The process of s ends by itself.
Exit(s) ==
  /\ ptys[s].alive
  /\ ptys' = [ptys EXCEPT ![s].alive = FALSE]
  /\ UNCHANGED <<toAgent, fromAgent, conn, outgoing, spawning>>
  /\ AgentOnly

\* The reader of s tells how it ended ...
ReportEnd(s) ==
  /\ ptys[s].reader = "running" /\ ~ptys[s].alive
  /\ Room
  /\ Enqueue(Event(s, IF ptys[s].killed THEN "killed" ELSE "exited"))
  /\ ptys' = [ptys EXCEPT ![s].reader = "reported"]
  /\ UNCHANGED <<toAgent, fromAgent, conn, spawning>>
  /\ AgentOnly

\* ... and then remove_session.
Forget(s) ==
  /\ ptys[s].reader = "reported"
  /\ ptys' = Without(ptys, {s})
  /\ UNCHANGED <<toAgent, fromAgent, conn, outgoing, spawning>>
  /\ AgentOnly

-----------------------------------------------------------------------------
(***************************************************************************)
(* A page.                                                                 *)
(***************************************************************************)
PageOnly == UNCHANGED <<registryVars, toAgent, fromAgent, agentVars>>

Send(p, ms) == fromPage' = [fromPage EXCEPT ![p] = @ \o ms]

Unsubscribed(f) == [s \in DOMAIN f |-> [f[s] EXCEPT !.subscribed = FALSE]]

NewEntry(r) == [running |-> TRUE, restoring |-> r, subscribed |-> TRUE, shown |-> 0, whole |-> TRUE]

\* connect and register_browser: the server says whether there is an agent, the
\* page asks what it runs.
Connect(p) ==
  /\ link[p] = "down"
  /\ links[p] < IF "page" \in scenario THEN MaxLinks ELSE 1
  /\ links' = [links EXCEPT ![p] = @ + 1]
  /\ link' = [link EXCEPT ![p] = "up"]
  /\ subscribed' = Put(subscribed, p, {})
  /\ toPage' = [toPage EXCEPT ![p] = <<Status(agents # {})>>]
  /\ Send(p, <<ListSessions>>)
  /\ UNCHANGED <<drawn, scenario, viewVars>>
  /\ PageOnly

\* reconnect, and unregister_browser: what is under way is lost.  A connection
\* the server has dropped ends when the page has what was sent before.
Disconnect(p) ==
  /\ \/ link[p] = "up" /\ "page" \in scenario /\ links[p] < MaxLinks
     \/ link[p] = "dropped" /\ toPage[p] = <<>>
  /\ link' = [link EXCEPT ![p] = "down"]
  /\ subscribed' = Without(subscribed, {p})
  /\ toPage' = [toPage EXCEPT ![p] = <<>>]
  /\ fromPage' = [fromPage EXCEPT ![p] = <<>>]
  /\ agentUp' = [agentUp EXCEPT ![p] = FALSE]
  /\ entries' = [entries EXCEPT ![p] = Unsubscribed(@)]
  /\ UNCHANGED <<links, drawn, scenario, closing>>
  /\ PageOnly

\* Client::receive.
Receive(p, kinds) ==
  /\ toPage[p] # <<>>
  /\ Head(toPage[p]).is \in kinds
  /\ toPage' = [toPage EXCEPT ![p] = Tail(@)]
  /\ UNCHANGED <<subscribed, linkVars>>
  /\ PageOnly

ReceiveStatus(p) ==
  /\ Receive(p, {"status"})
  /\ LET up == Head(toPage[p]).connected IN
       /\ agentUp' = [agentUp EXCEPT ![p] = up]
       /\ entries' = [entries EXCEPT ![p] = IF up THEN @ ELSE Unsubscribed(@)]
  /\ UNCHANGED <<fromPage, closing>>

ReceiveReady(p) ==
  /\ Receive(p, {"ready"})
  /\ Send(p, <<ListSessions>>)
  /\ UNCHANGED viewVars

\* restore_list: the sessions whose output the page does not follow are asked
\* for again; lists mean nothing while no agent is connected.
ReceiveList(p) ==
  LET ids == Head(toPage[p]).ids
      mine == entries[p]
      asked == {s \in ids : s \in DOMAIN mine => ~mine[s].subscribed}
      restored(s) ==
        IF s \notin DOMAIN mine THEN NewEntry(TRUE)
        ELSE IF s \in asked THEN [mine[s] EXCEPT !.running = TRUE, !.subscribed = TRUE,
                                                 !.restoring = TRUE]
        ELSE IF s \in ids THEN [mine[s] EXCEPT !.running = TRUE]
        ELSE [mine[s] EXCEPT !.running = FALSE, !.subscribed = FALSE]
  IN /\ Receive(p, {"list"})
     /\ \/ /\ ~agentUp[p]
           /\ UNCHANGED <<entries, fromPage>>
        \/ /\ agentUp[p]
           /\ entries' = [entries EXCEPT ![p] = [s \in DOMAIN mine \cup ids |-> restored(s)]]
           /\ Send(p, SetToSeq({Command("scrollback", s) : s \in asked}))
     /\ UNCHANGED <<agentUp, closing>>

\* Sessions::event; the end a tab has been waiting for closes it.
ReceiveEvent(p) ==
  LET m == Head(toPage[p])
      closed == m.event \in {"exited", "killed"} /\ m.id \in closing[p]
  IN /\ Receive(p, {"event"})
     /\ entries' = [entries EXCEPT ![p] =
                      IF m.id \notin DOMAIN @ THEN @
                      ELSE IF closed THEN Without(@, {m.id})
                      ELSE [@ EXCEPT ![m.id].running = (m.event = "started")]]
     /\ closing' = [closing EXCEPT ![p] = IF closed THEN @ \ {m.id} ELSE @]
     /\ UNCHANGED <<agentUp, fromPage>>

\* Mutant: output is shown while a dump is awaited.
ReceiveOutputEagerly(p) ==
  LET m == Head(toPage[p])
  IN /\ Receive(p, {"output"})
     /\ entries' = [entries EXCEPT ![p] =
                      IF m.id \in DOMAIN @
                      THEN [@ EXCEPT ![m.id].shown = m.chunk,
                                     ![m.id].whole = @ /\ m.chunk = entries[p][m.id].shown + 1]
                      ELSE @]
     /\ UNCHANGED <<agentUp, closing, fromPage>>

\* output: while a dump is awaited, it will include what arrives before it.
ReceiveOutput(p) ==
  LET m == Head(toPage[p])
      e == entries[p][m.id]
      appended == IF e.restoring THEN e
                  ELSE [e EXCEPT !.shown = m.chunk, !.whole = @ /\ m.chunk = e.shown + 1]
  IN /\ Receive(p, {"output"})
     /\ entries' = [entries EXCEPT ![p] =
                      IF m.id \in DOMAIN @ THEN [@ EXCEPT ![m.id] = appended] ELSE @]
     /\ UNCHANGED <<agentUp, closing, fromPage>>

\* output, of a dump: it takes the place of the grid, and the size is sent.
ReceiveDump(p) ==
  LET m == Head(toPage[p])
  IN /\ Receive(p, {"dump"})
     /\ entries' = [entries EXCEPT ![p] =
                      IF m.id \in DOMAIN @
                      THEN [@ EXCEPT ![m.id].restoring = FALSE, ![m.id].shown = m.upto,
                                     ![m.id].whole = TRUE]
                      ELSE @]
     /\ Send(p, <<Command("resize", m.id)>>)
     /\ UNCHANGED <<agentUp, closing>>

\* Bound: a user acts when the server has read what the page has sent.
Idle(p) == fromPage[p] = <<>>

\* new_session.
NewSession(p, s) ==
  /\ Idle(p) /\ agentUp[p]
  /\ s \notin drawn
  /\ drawn' = drawn \cup {s}
  /\ Send(p, <<Command("spawn", s)>>)
  /\ entries' = [entries EXCEPT ![p] = Put(@, s, NewEntry(FALSE))]
  /\ UNCHANGED <<subscribed, toPage, link, links, scenario, agentUp, closing>>
  /\ PageOnly

\* Actions::close; a running session is killed first.  Bound: not again while
\* the last such command is under way.
CloseTab(p, s) ==
  /\ Idle(p)
  /\ s \in DOMAIN entries[p]
  /\ "close" \in scenario
  /\ \/ /\ entries[p][s].running /\ agentUp[p]
        /\ \A c \in Conns : Command("kill", s) \notin Range(toAgent[c])
        /\ Send(p, <<Command("kill", s)>>)
        /\ closing' = [closing EXCEPT ![p] = @ \cup {s}]
        /\ UNCHANGED entries
     \/ /\ ~entries[p][s].running
        /\ entries' = [entries EXCEPT ![p] = Without(@, {s})]
        /\ UNCHANGED <<fromPage, closing>>
  /\ UNCHANGED <<subscribed, toPage, link, links, drawn, scenario, agentUp>>
  /\ PageOnly

-----------------------------------------------------------------------------
ServerStep ==
  \/ \E c \in Conns : OnSessionList(c) \/ OnSessionMessage(c) \/ OnReady(c) \/ Reap(c) \/ SendPing(c)
  \/ \E p \in Pages : OnSpawnSession(p) \/ OnSessionCommand(p) \/ OnListSessions(p)

Dispatch == Spawn \/ Kill \/ Resize \/ DumpScrollback \/ Relist

Reader(s) == ReportEnd(s) \/ Forget(s)

PageReceives(p) ==
  \/ ReceiveStatus(p) \/ ReceiveReady(p) \/ ReceiveList(p) \/ ReceiveEvent(p) \/ ReceiveOutput(p)
  \/ ReceiveDump(p)

Next ==
  \/ ServerStep
  \/ \E c \in Conns : ServerHangup(c)
  \/ AgentConnect \/ AgentSend \/ AgentDrop \/ Dispatch \/ FinishSpawn
  \/ \E s \in DOMAIN ptys : Produce(s) \/ Exit(s) \/ Reader(s)
  \/ \E p \in Pages : Connect(p) \/ Disconnect(p) \/ PageReceives(p)
  \/ \E p \in Pages, s \in SessionIds : NewSession(p, s) \/ CloseTab(p, s)

Spec == Init /\ [][Next]_vars

(***************************************************************************)
(* Tasks run, peers reconnect, the server finds out about dead connections *)
(* and pings live ones.  The agent's queue serves the tasks that wait for  *)
(* room in turn (tokio's mpsc), hence strong fairness for those that share *)
(* it.  Sessions need not print or end, users need not do anything, and    *)
(* nothing needs to break.                                                 *)
(***************************************************************************)
Fairness ==
  /\ \A c \in Conns : /\ WF_vars(OnSessionList(c) \/ OnSessionMessage(c) \/ OnReady(c))
                      /\ WF_vars(Reap(c))
                      /\ WF_vars(SendPing(c))
  /\ \A p \in Pages : /\ WF_vars(OnSpawnSession(p) \/ OnSessionCommand(p) \/ OnListSessions(p))
                      /\ WF_vars(PageReceives(p))
                      /\ WF_vars(Connect(p))
                      /\ WF_vars(link[p] = "dropped" /\ Disconnect(p))
  /\ WF_vars(AgentConnect) /\ WF_vars(AgentSend) /\ WF_vars(Dispatch) /\ SF_vars(FinishSpawn)
  /\ WF_vars(conn \notin agents /\ AgentDrop)
  /\ \A s \in SessionIds : SF_vars(s \in DOMAIN ptys /\ Reader(s))

FairSpec == Spec /\ Fairness

-----------------------------------------------------------------------------
(***************************************************************************)
(* Properties.                                                             *)
(***************************************************************************)

FunctionOf(f, S, T) == DOMAIN f \subseteq S /\ Range(f) \subseteq T

\* Types, and the registry agrees with itself: sessions live on registered
\* connections, and acknowledged or followed ones exist (connect_manager.rs).
TypeOK ==
  /\ agents \subseteq Conns
  /\ FunctionOf(sessions, SessionIds, agents)
  /\ infos \subseteq DOMAIN sessions
  /\ FunctionOf(subscribed, Pages, SUBSET DOMAIN sessions)
  /\ DOMAIN toAgent = Conns /\ \A c \in Conns : Range(toAgent[c]) \subseteq ServerMessage
  /\ DOMAIN fromAgent = Conns /\ \A c \in Conns : Range(fromAgent[c]) \subseteq AgentMessage
  /\ DOMAIN toPage = Pages
  /\ \A p \in Pages : Range(toPage[p]) \subseteq AgentMessage /\ Len(toPage[p]) <= ChanCap
  /\ DOMAIN fromPage = Pages /\ \A p \in Pages : Range(fromPage[p]) \subseteq ServerMessage
  /\ conn \in Conns \cup {NoConn} /\ conns \in 0..MaxConns
  /\ Range(outgoing) \subseteq AgentMessage /\ Len(outgoing) <= AgentCap
  /\ spawning \in DOMAIN ptys \cup {NoSession}
  /\ FunctionOf(ptys, SessionIds, Pty)
  /\ link \in [Pages -> {"down", "up", "dropped"}] /\ links \in [Pages -> 0..MaxLinks]
  /\ drawn \subseteq SessionIds /\ scenario \in Scenarios
  /\ agentUp \in [Pages -> BOOLEAN]
  /\ \A p \in Pages : FunctionOf(entries[p], SessionIds, Entry) /\ closing[p] \subseteq SessionIds

\* What a page shows of a session has no gap and nothing twice, whatever was lost
\* or replayed on the way (sessions.rs, output; pty_manager.rs, output_lock).
GridsWhole == \A p \in Pages : \A s \in DOMAIN entries[p] : entries[p][s].whole

\* Output on a screen is never taken back while its tab is open ("Its output
\* remains available", sessions.rs, event).
Retained ==
  [][\A p \in Pages : \A s \in DOMAIN entries[p] \cap DOMAIN entries'[p] :
       entries'[p][s].shown >= entries[p][s].shown]_vars

CaughtUp(p) ==
  link[p] = "up" =>
    /\ \A s \in DOMAIN ptys : ptys[s].alive =>
         /\ s \in DOMAIN entries[p]
         /\ entries[p][s].running
         /\ entries[p][s].shown = ptys[s].printed
    /\ \A s \in DOMAIN entries[p] : entries[p][s].running => s \in DOMAIN ptys

\* The agent forgets a session whose process has ended.
EndsForgotten == \A s \in DOMAIN ptys : ptys[s].alive

\* Once connections hold and sessions are quiet, every page shows every live
\* session up to its last output and no other as running, and the agent lists no
\* session that has ended ("must remain visible until it exits", pty_manager.rs,
\* kill).
EventuallyCaughtUp == <>[](EndsForgotten /\ \A p \in Pages : CaughtUp(p))
=============================================================================
