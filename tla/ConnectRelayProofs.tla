------------------------- MODULE ConnectRelayProofs -------------------------
(***************************************************************************)
(* What ConnectRelay.tla keeps for every value of its constants: its types *)
(* first, with every race; then, from "What the messages of an agent say"  *)
(* on, that grids are whole, unless the server hears from an old           *)
(* connection of the agent after a later one; and, from "What the registry *)
(* will pass on" on, that output on a screen is never taken back, unless   *)
(* that happens or the agent lists a session whose end it has told.        *)
(***************************************************************************)
EXTENDS ConnectRelay, FiniteSetTheorems, SequenceTheorems, TLAPS

-----------------------------------------------------------------------------
(***************************************************************************)
(* Sequences and functions.                                                *)
(***************************************************************************)
LEMMA SeqFacts ==
  ASSUME NEW S, NEW s \in Seq(S)
  PROVE  Len(s) \in Nat /\ DOMAIN s = 1..Len(s) /\ \A i \in 1..Len(s) : s[i] \in S
BY LenProperties, ElementOfSeq

LEMMA HeadFacts ==
  ASSUME NEW S, NEW s \in Seq(S), s # <<>>
  PROVE  /\ Len(s) \in Nat /\ Len(s) > 0 /\ Head(s) = s[1] /\ Head(s) \in S /\ 1 \in DOMAIN s
         /\ Tail(s) \in Seq(S) /\ Len(Tail(s)) = Len(s) - 1 /\ DOMAIN Tail(s) = 1..(Len(s) - 1)
         /\ \A i \in 1..(Len(s) - 1) : Tail(s)[i] = s[i + 1] /\ i + 1 \in DOMAIN s
BY SeqFacts, EmptySeq, HeadTailProperties

LEMMA AppendFacts ==
  ASSUME NEW S, NEW s \in Seq(S), NEW e \in S
  PROVE  /\ Len(s) \in Nat /\ Append(s, e) \in Seq(S) /\ Len(Append(s, e)) = Len(s) + 1
         /\ DOMAIN s = 1..Len(s) /\ DOMAIN Append(s, e) = 1..(Len(s) + 1)
         /\ \A i \in 1..Len(s) : Append(s, e)[i] = s[i]
         /\ Append(s, e)[Len(s) + 1] = e
BY AppendProperties, LenProperties

LEMMA ConcatFacts ==
  ASSUME NEW S, NEW s \in Seq(S), NEW u \in Seq(S)
  PROVE  /\ Len(s) \in Nat /\ Len(u) \in Nat /\ DOMAIN s = 1..Len(s) /\ DOMAIN u = 1..Len(u)
         /\ s \o u \in Seq(S) /\ DOMAIN (s \o u) = 1..(Len(s) + Len(u)) /\ Len(s \o u) = Len(s) + Len(u)
         /\ \A i \in 1..Len(s) : (s \o u)[i] = s[i]
         /\ \A i \in 1..Len(u) : (s \o u)[Len(s) + i] = u[i]
BY ConcatProperties, SeqFacts

LEMMA OneOf ==
  ASSUME NEW S, NEW x \in S
  PROVE  <<x>> \in Seq(S) /\ Len(<<x>>) = 1 /\ <<x>>[1] = x
OBVIOUS

\* The first k of a sequence.
LEMMA PrefixFacts ==
  ASSUME NEW S, NEW s \in Seq(S), NEW k \in Nat, k <= Len(s)
  PROVE  /\ SubSeq(s, 1, k) \in Seq(S) /\ Len(SubSeq(s, 1, k)) = k
         /\ \A i \in 1..k : SubSeq(s, 1, k)[i] = s[i]
BY SeqFacts, SubSeqProperties

\* A function from part of S to T.
Maps(f, S, T) == DOMAIN f \subseteq S /\ f \in [DOMAIN f -> T]

LEMMA MapsAre ==
  ASSUME NEW S, NEW T, NEW f, Maps(f, S, T)
  PROVE  FunctionOf(f, S, T) /\ \A x \in DOMAIN f : f[x] \in T
BY DEF Maps, FunctionOf, Range

LEMMA MapsPut ==
  ASSUME NEW S, NEW T, NEW f, Maps(f, S, T), NEW x \in S, NEW v \in T
  PROVE  Maps(Put(f, x, v), S, T) /\ DOMAIN Put(f, x, v) = DOMAIN f \cup {x}
         /\ Put(f, x, v)[x] = v /\ \A y \in DOMAIN f : y # x => Put(f, x, v)[y] = f[y]
BY DEF Maps, Put

LEMMA MapsWithout ==
  ASSUME NEW S, NEW T, NEW f, Maps(f, S, T), NEW R
  PROVE  Maps(Without(f, R), S, T) /\ DOMAIN Without(f, R) = DOMAIN f \ R
         /\ \A y \in DOMAIN f \ R : Without(f, R)[y] = f[y]
BY DEF Maps, Without, Restrict

LEMMA MapsExcept ==
  ASSUME NEW S, NEW T, NEW f, Maps(f, S, T), NEW x \in DOMAIN f, NEW v \in T
  PROVE  Maps([f EXCEPT ![x] = v], S, T) /\ DOMAIN [f EXCEPT ![x] = v] = DOMAIN f
BY DEF Maps

LEMMA MapsEmpty ==
  ASSUME NEW S, NEW T
  PROVE  Maps(Empty, S, T) /\ DOMAIN Empty = {}
BY EmptySeq, LenProperties DEF Maps, Empty

LEMMA RangeOf ==
  ASSUME NEW S, NEW s \in Seq(S)
  PROVE  Range(s) \subseteq S
BY SeqFacts DEF Range

\* SetToSeq is a sequence of what is in the set.
LEMMA Sequenced ==
  ASSUME NEW S, IsFiniteSet(S)
  PROVE  SetToSeq(S) \in Seq(S)
BY FS_CardinalityType, SeqDef DEF ExistsBijection, Bijection, Injection, IsInjective, SetToSeq

-----------------------------------------------------------------------------
(***************************************************************************)
(* Messages.                                                               *)
(***************************************************************************)
LEMMA MessageTypes ==
  /\ \A b \in BOOLEAN : Status(b) \in AgentMessage
  /\ Ready \in AgentMessage
  /\ \A S \in SUBSET SessionIds : List(S) \in AgentMessage
  /\ \A s \in SessionIds, n \in 1..MaxChunks : Output(s, n) \in AgentMessage
  /\ \A s \in SessionIds, n \in 0..MaxChunks : Dump(s, n) \in AgentMessage
  /\ \A s \in SessionIds, e \in Events : Event(s, e) \in AgentMessage
BY DEF AgentMessage, Status, Ready, List, Output, Dump, Event

LEMMA MessageParts ==
  ASSUME NEW m \in AgentMessage
  PROVE  /\ m.is \in {"status", "ready", "list", "output", "dump", "event"}
         /\ m.is = "status" => m.connected \in BOOLEAN /\ m = Status(m.connected)
         /\ m.is = "ready" => m = Ready
         /\ m.is = "list" => m.ids \subseteq SessionIds /\ m = List(m.ids)
         /\ m.is = "output" => m.id \in SessionIds /\ m.chunk \in 1..MaxChunks /\ m = Output(m.id, m.chunk)
         /\ m.is = "dump" => m.id \in SessionIds /\ m.upto \in 0..MaxChunks /\ m = Dump(m.id, m.upto)
         /\ m.is = "event" => m.id \in SessionIds /\ m.event \in Events /\ m = Event(m.id, m.event)
BY DEF Status, Ready, List, Output, Dump, Event, AgentMessage

LEMMA CommandTypes ==
  /\ ListSessions \in ServerMessage /\ Ping \in ServerMessage
  /\ \A d \in {"spawn", "kill", "resize", "scrollback"}, s \in SessionIds : Command(d, s) \in ServerMessage
BY DEF ServerMessage, Command, ListSessions, Ping

LEMMA CommandParts ==
  ASSUME NEW m \in ServerMessage
  PROVE  /\ m.do \in {"spawn", "kill", "resize", "scrollback", "list", "ping"}
         /\ m.do \in {"spawn", "kill", "resize", "scrollback"} => m.id \in SessionIds /\ m = Command(m.do, m.id)
         /\ m.do = "list" => m = ListSessions
         /\ m.do = "ping" => m = Ping
BY DEF ServerMessage, Command, ListSessions, Ping

-----------------------------------------------------------------------------
(***************************************************************************)
(* Types.  What the agent is starting has a reader that is held.           *)
(***************************************************************************)
Held == spawning # NoSession => spawning \in DOMAIN ptys /\ ptys[spawning].reader = "held"

RegistryTyped ==
  /\ agents \subseteq 1..conns
  /\ Maps(sessions, SessionIds, agents)
  /\ infos \subseteq DOMAIN sessions
  /\ Maps(subscribed, Pages, SUBSET DOMAIN sessions)

WiresTyped ==
  /\ toAgent \in [Conns -> Seq(ServerMessage)] /\ fromAgent \in [Conns -> Seq(AgentMessage)]
  /\ toPage \in [Pages -> Seq(AgentMessage)] /\ \A p \in Pages : Len(toPage[p]) <= ChanCap
  /\ fromPage \in [Pages -> Seq(ServerMessage)]

AgentTyped ==
  /\ conn \in 0..conns /\ conns \in 0..MaxConns
  /\ outgoing \in Seq(AgentMessage) /\ Len(outgoing) <= AgentCap
  /\ Maps(ptys, SessionIds, Pty) /\ Held

PagesTyped ==
  /\ link \in [Pages -> {"down", "up", "dropped"}] /\ links \in [Pages -> 0..MaxLinks]
  /\ drawn \subseteq SessionIds /\ scenario \in Scenarios
  /\ agentUp \in [Pages -> BOOLEAN]
  /\ DOMAIN entries = Pages /\ \A p \in Pages : Maps(entries[p], SessionIds, Entry)
  /\ closing \in [Pages -> SUBSET SessionIds]

Typed == RegistryTyped /\ WiresTyped /\ AgentTyped /\ PagesTyped

LEMMA Bounds ==
  /\ NoSession \notin SessionIds /\ IsFiniteSet(SessionIds)
  /\ MaxConns \in Nat /\ MaxChunks \in Nat /\ MaxLinks \in Nat \ {0} /\ ChanCap \in Nat \ {0}
  /\ AgentCap \in Nat \ {0} /\ WireCap \in Nat \ {0} /\ MaxSessions \in Nat \ {0}
BY ConnectRelayAssumption

LEMMA TypedIs == Typed => TypeOK
<1>1. ASSUME Typed PROVE TypeOK
  <2>1. agents \subseteq Conns /\ conn \in Conns \cup {NoConn}
    BY <1>1, Bounds DEF Typed, RegistryTyped, AgentTyped, Conns, NoConn
  <2>2. FunctionOf(sessions, SessionIds, agents) /\ FunctionOf(subscribed, Pages, SUBSET DOMAIN sessions)
        /\ FunctionOf(ptys, SessionIds, Pty) /\ \A p \in Pages : FunctionOf(entries[p], SessionIds, Entry)
    BY <1>1, MapsAre DEF Typed, RegistryTyped, AgentTyped, PagesTyped
  <2>3. \A c \in Conns : Range(toAgent[c]) \subseteq ServerMessage /\ Range(fromAgent[c]) \subseteq AgentMessage
    BY <1>1, RangeOf DEF Typed, WiresTyped, AgentTyped
  <2>4. Range(outgoing) \subseteq AgentMessage
        /\ \A p \in Pages : Range(toPage[p]) \subseteq AgentMessage /\ Range(fromPage[p]) \subseteq ServerMessage
    BY <1>1, RangeOf DEF Typed, WiresTyped, AgentTyped
  <2>5. spawning \in DOMAIN ptys \cup {NoSession}
    BY <1>1 DEF Typed, AgentTyped, Held
  <2>6. QED
    BY <1>1, <2>1, <2>2, <2>3, <2>4, <2>5 DEF Typed, RegistryTyped, WiresTyped, AgentTyped, PagesTyped, TypeOK
<1>2. QED
  BY <1>1

LEMMA TypedInit == Init => Typed
BY EmptySeq, MapsEmpty, Bounds DEF Init, Typed, RegistryTyped, WiresTyped, AgentTyped, PagesTyped, Held, NoConn

\* What the registry sends, and whom it drops.
LEMMA NotifyTypes ==
  ASSUME Typed, NEW R \in SUBSET DOMAIN subscribed, NEW ms \in Seq(AgentMessage), NEW T, NEW subs,
         Maps(subs, Pages, T), Notify(R, ms, subs)
  PROVE  /\ toPage' \in [Pages -> Seq(AgentMessage)] /\ \A p \in Pages : Len(toPage'[p]) <= ChanCap
         /\ link' \in [Pages -> {"down", "up", "dropped"}]
         /\ Maps(subscribed', Pages, T)
<1> DEFINE full == {p \in R : Len(toPage[p]) + Len(ms) > ChanCap}
           room(p) == IF p \in full THEN ChanCap - Len(toPage[p]) ELSE Len(ms)
<1>1. \A p \in Pages : toPage[p] \in Seq(AgentMessage) /\ Len(toPage[p]) \in Nat /\ Len(toPage[p]) <= ChanCap
  BY SeqFacts DEF Typed, WiresTyped
<1>2. Len(ms) \in Nat /\ ChanCap \in Nat
  BY SeqFacts, Bounds
<1>3. \A p \in R : p \in Pages
  BY DEF Typed, RegistryTyped, Maps
<1>4. ASSUME NEW p \in R
      PROVE  /\ room(p) \in Nat /\ room(p) <= Len(ms) /\ Len(toPage[p]) + room(p) <= ChanCap
  <2>1. Len(toPage[p]) \in Nat /\ Len(toPage[p]) <= ChanCap
    BY <1>1, <1>3
  <2>2. PICK a, b, k \in Nat : a = Len(toPage[p]) /\ b = Len(ms) /\ k = ChanCap
    BY <1>2, <2>1
  <2>3. CASE p \in full
    <3>1. a + b > k /\ a <= k /\ room(p) = k - a
      BY <2>1, <2>2, <2>3
    <3>2. QED
      <4> HIDE DEF room
      <4>1. room(p) \in Nat /\ room(p) <= b /\ a + room(p) <= k
        BY <3>1
      <4>2. QED
        BY <2>2, <4>1
  <2>4. CASE p \notin full
    <3>1. ~(a + b > k) /\ room(p) = b
      BY <2>2, <2>4
    <3>2. QED
      <4> HIDE DEF room
      <4>1. room(p) \in Nat /\ room(p) <= b /\ a + room(p) <= k
        BY <3>1
      <4>2. QED
        BY <2>2, <4>1
  <2>5. QED
    BY <2>3, <2>4
<1>5. ASSUME NEW p \in R
      PROVE  /\ toPage[p] \o SubSeq(ms, 1, room(p)) \in Seq(AgentMessage)
             /\ Len(toPage[p] \o SubSeq(ms, 1, room(p))) <= ChanCap
  BY <1>1, <1>3, <1>4, PrefixFacts, ConcatFacts
<1>6. toPage' = [p \in Pages |-> IF p \in R THEN toPage[p] \o SubSeq(ms, 1, room(p)) ELSE toPage[p]]
  BY DEF Notify
<1>7. link' = [p \in Pages |-> IF p \in full THEN "dropped" ELSE link[p]] /\ subscribed' = Without(subs, full)
  BY DEF Notify
<1>8. Maps(subscribed', Pages, T)
  BY <1>7, MapsWithout
<1>9. link' \in [Pages -> {"down", "up", "dropped"}]
  BY <1>7 DEF Typed, PagesTyped
<1>10. QED
  <2> HIDE DEF room, full
  <2>1. \A p \in Pages : toPage'[p] \in Seq(AgentMessage) /\ Len(toPage'[p]) <= ChanCap
    BY <1>1, <1>5, <1>6
  <2>2. QED
    BY <1>6, <1>8, <1>9, <2>1

LEMMA NotifyOwnerTypes ==
  ASSUME Typed, NEW ms \in Seq(AgentMessage), NEW gone, NotifyOwner(ms, gone)
  PROVE  /\ toPage' \in [Pages -> Seq(AgentMessage)] /\ \A p \in Pages : Len(toPage'[p]) <= ChanCap
         /\ link' \in [Pages -> {"down", "up", "dropped"}]
         /\ Maps(subscribed', Pages, SUBSET (DOMAIN sessions \ gone))
<1>1. Maps([p \in DOMAIN subscribed |-> subscribed[p] \ gone], Pages, SUBSET (DOMAIN sessions \ gone))
  BY DEF Typed, RegistryTyped, Maps
<1>2. QED
  BY <1>1, NotifyTypes DEF NotifyOwner

\* A wider range.
LEMMA MapsWider ==
  ASSUME NEW S, NEW T, NEW f, Maps(f, S, T), NEW U, T \subseteq U
  PROVE  Maps(f, S, U)
BY DEF Maps

-----------------------------------------------------------------------------
(***************************************************************************)
(* Types: the server.                                                      *)
(***************************************************************************)
LEMMA TypedConnect ==
  ASSUME Typed, AgentConnect
  PROVE  Typed'
<1>1. conn = 0 /\ conns \in Nat /\ conns' = conns + 1 /\ conn' = conns + 1 /\ conns + 1 \in 0..MaxConns
  BY Bounds DEF AgentConnect, Typed, AgentTyped, NoConn
<1>2. conn' \in 0..conns' /\ conn' \in Conns /\ agents \cup {conn'} \subseteq 1..conns'
  BY <1>1 DEF Typed, RegistryTyped, Conns
<1>3. <<Ready, List(DOMAIN ptys)>> \in Seq(AgentMessage)
  BY MessageTypes DEF Typed, AgentTyped, Maps
<1>4. fromAgent' \in [Conns -> Seq(AgentMessage)]
  BY <1>2, <1>3 DEF AgentConnect, Typed, WiresTyped
<1>5. <<Status(TRUE)>> \in Seq(AgentMessage) /\ NotifyOwner(<<Status(TRUE)>>, {})
  BY MessageTypes, OneOf DEF AgentConnect
<1>6. /\ toPage' \in [Pages -> Seq(AgentMessage)] /\ \A p \in Pages : Len(toPage'[p]) <= ChanCap
      /\ link' \in [Pages -> {"down", "up", "dropped"}]
      /\ Maps(subscribed', Pages, SUBSET (DOMAIN sessions \ {}))
  BY <1>5, NotifyOwnerTypes
<1>7. RegistryTyped'
  BY <1>2, <1>6, MapsWider DEF Typed, RegistryTyped, AgentConnect
<1>8. WiresTyped'
  BY <1>4, <1>6 DEF AgentConnect, Typed, WiresTyped
<1>9. AgentTyped'
  BY <1>1, <1>2 DEF AgentConnect, Typed, AgentTyped, Held
<1>10. PagesTyped'
  BY <1>6 DEF AgentConnect, Typed, PagesTyped, viewVars
<1>11. QED
  BY <1>7, <1>8, <1>9, <1>10 DEF Typed

LEMMA TypedUnregister ==
  ASSUME Typed, NEW c, Unregister(c)
  PROVE  Typed'
<1> DEFINE gone == {s \in DOMAIN sessions : sessions[s] = c}
<1>1. /\ agents' = agents \ {c} /\ sessions' = Without(sessions, gone) /\ infos' = infos \ gone
      /\ NotifyOwner(<<Status(agents' # {}), List(infos')>>, gone)
      /\ fromAgent' = [fromAgent EXCEPT ![c] = <<>>]
      /\ toAgent' = [toAgent EXCEPT ![c] = IF c = conn THEN @ ELSE <<>>]
      /\ UNCHANGED <<fromPage, agentVars, links, drawn, scenario, viewVars>>
  BY DEF Unregister
<1>2. <<Status(agents' # {}), List(infos')>> \in Seq(AgentMessage)
  <2>1. infos' \subseteq SessionIds
    BY <1>1 DEF Typed, RegistryTyped, Maps
  <2>2. Status(agents' # {}) \in AgentMessage /\ List(infos') \in AgentMessage
    BY <2>1, MessageTypes
  <2>3. QED
    BY <2>2
<1>3. /\ toPage' \in [Pages -> Seq(AgentMessage)] /\ \A p \in Pages : Len(toPage'[p]) <= ChanCap
      /\ link' \in [Pages -> {"down", "up", "dropped"}]
      /\ Maps(subscribed', Pages, SUBSET (DOMAIN sessions \ gone))
  BY <1>1, <1>2, NotifyOwnerTypes
<1>4. RegistryTyped'
  <2>1. DOMAIN sessions' = DOMAIN sessions \ gone /\ Maps(sessions', SessionIds, agents \ {c})
    BY <1>1 DEF Typed, RegistryTyped, Maps, Without, Restrict
  <2>2. agents' \subseteq 1..conns' /\ infos' \subseteq DOMAIN sessions'
    BY <1>1, <2>1 DEF Typed, RegistryTyped, agentVars
  <2>3. QED
    <3> HIDE DEF gone
    <3>1. QED
      BY <1>1, <1>3, <2>1, <2>2 DEF RegistryTyped
<1>5. WiresTyped'
  BY <1>1, <1>3, EmptySeq DEF Typed, WiresTyped
<1>6. AgentTyped'
  BY <1>1 DEF Typed, AgentTyped, Held, agentVars
<1>7. PagesTyped'
  BY <1>1, <1>3 DEF Typed, PagesTyped, viewVars
<1>8. QED
  BY <1>4, <1>5, <1>6, <1>7 DEF Typed

\* What the server reads of an agent.
LEMMA ReceivedTypes ==
  ASSUME Typed, NEW c, NEW kinds, Received(c, kinds)
  PROVE  /\ c \in Conns /\ c \in agents
         /\ fromAgent[c] \in Seq(AgentMessage) /\ fromAgent[c] # <<>>
         /\ Head(fromAgent[c]) \in AgentMessage /\ Head(fromAgent[c]).is \in kinds
         /\ fromAgent' = [fromAgent EXCEPT ![c] = Tail(@)]
         /\ fromAgent' \in [Conns -> Seq(AgentMessage)]
         /\ AgentTyped'
         /\ UNCHANGED <<agents, toAgent, fromPage, agentVars, links, drawn, scenario, viewVars>>
<1>1. c \in agents /\ fromAgent[c] # <<>> /\ Head(fromAgent[c]).is \in kinds
      /\ fromAgent' = [fromAgent EXCEPT ![c] = Tail(@)]
      /\ UNCHANGED <<agents, toAgent, fromPage, agentVars, links, drawn, scenario, viewVars>>
  BY DEF Received
<1>2. c \in Conns
  <2>1. c \in agents
    BY <1>1
  <2>2. agents \subseteq 1..conns /\ conns \in 0..MaxConns
    BY DEF Typed, RegistryTyped, AgentTyped
  <2>3. QED
    BY <2>1, <2>2, Bounds DEF Conns
<1>3. fromAgent[c] \in Seq(AgentMessage)
  BY <1>2 DEF Typed, WiresTyped
<1>4. Head(fromAgent[c]) \in AgentMessage /\ Tail(fromAgent[c]) \in Seq(AgentMessage)
  BY <1>1, <1>3, HeadFacts
<1>5. fromAgent' \in [Conns -> Seq(AgentMessage)]
  BY <1>1, <1>4 DEF Typed, WiresTyped
<1>6. AgentTyped'
  BY <1>1 DEF Typed, AgentTyped, Held, agentVars
<1>7. QED
  BY <1>1, <1>2, <1>3, <1>4, <1>5, <1>6

LEMMA TypedReceived ==
  ASSUME Typed, NEW c, OnSessionList(c) \/ OnSessionMessage(c) \/ OnReady(c)
  PROVE  Typed'
<1>1. ASSUME NEW kinds, Received(c, kinds), RegistryTyped',
             /\ toPage' \in [Pages -> Seq(AgentMessage)] /\ \A p \in Pages : Len(toPage'[p]) <= ChanCap
             /\ link' \in [Pages -> {"down", "up", "dropped"}]
      PROVE  Typed'
  BY <1>1, ReceivedTypes DEF Typed, WiresTyped, PagesTyped, viewVars
<1>2. ASSUME OnSessionList(c) PROVE Typed'
  <2> DEFINE m == Head(fromAgent[c])
             accepted == {s \in m.ids : s \notin DOMAIN sessions \/ sessions[s] = c}
             known == [s \in DOMAIN sessions \cup accepted |-> IF s \in accepted THEN c ELSE sessions[s]]
             acknowledged == infos \cup accepted
             gone == {s \in DOMAIN known : known[s] = c /\ s \in acknowledged \ accepted}
  <2>1. /\ Received(c, {"list"}) /\ sessions' = Without(known, gone) /\ infos' = acknowledged \ gone
        /\ NotifyOwner(<<List(infos')>>, gone)
    BY <1>2 DEF OnSessionList
  <2>2. m \in AgentMessage /\ m.is = "list" /\ c \in agents /\ agents' = agents
    BY <2>1, ReceivedTypes
  <2>3. m.ids \subseteq SessionIds
    BY <2>2, MessageParts
  <2>4. Maps(known, SessionIds, agents) /\ DOMAIN known = DOMAIN sessions \cup accepted
    BY <2>2, <2>3 DEF Typed, RegistryTyped, Maps
  <2>5. Maps(sessions', SessionIds, agents) /\ DOMAIN sessions' = (DOMAIN sessions \cup accepted) \ gone
    <3> HIDE DEF known, gone, accepted
    <3>1. Maps(Without(known, gone), SessionIds, agents) /\ DOMAIN Without(known, gone) = DOMAIN known \ gone
      <4>1. Maps(known, SessionIds, agents)
        BY <2>4
      <4>2. QED
        BY <4>1, MapsWithout
    <3>2. sessions' = Without(known, gone)
      BY <2>1
    <3>3. QED
      BY <2>4, <3>1, <3>2
  <2>6. infos' \subseteq DOMAIN sessions' /\ DOMAIN sessions \ gone \subseteq DOMAIN sessions'
    BY <2>1, <2>5 DEF Typed, RegistryTyped
  <2>7. <<List(infos')>> \in Seq(AgentMessage)
    <3>1. infos' \subseteq SessionIds
      BY <2>5, <2>6 DEF Maps
    <3>2. List(infos') \in AgentMessage
      BY <3>1, MessageTypes
    <3>3. QED
      BY <3>2
  <2>8. /\ toPage' \in [Pages -> Seq(AgentMessage)] /\ \A p \in Pages : Len(toPage'[p]) <= ChanCap
        /\ link' \in [Pages -> {"down", "up", "dropped"}]
        /\ Maps(subscribed', Pages, SUBSET (DOMAIN sessions \ gone))
    BY <2>1, <2>7, NotifyOwnerTypes
  <2>9. Maps(subscribed', Pages, SUBSET DOMAIN sessions')
    <3> HIDE DEF gone
    <3>1. SUBSET (DOMAIN sessions \ gone) \subseteq SUBSET DOMAIN sessions'
      BY <2>6
    <3>2. QED
      BY <2>8, <3>1, MapsWider
  <2>10. RegistryTyped'
    <3> HIDE DEF gone, accepted
    <3>1. agents' \subseteq 1..conns'
      BY <2>1, <2>2 DEF Received, Typed, RegistryTyped, agentVars
    <3>2. QED
      BY <2>2, <2>5, <2>6, <2>9, <3>1 DEF RegistryTyped
  <2>11. QED
    BY <1>1, <2>1, <2>8, <2>10
<1>3. ASSUME OnSessionMessage(c) PROVE Typed'
  <2> DEFINE m == Head(fromAgent[c])
             mine == m.id \in DOMAIN sessions /\ sessions[m.id] = c
             gone == IF m.is = "event" /\ m.event \in Ends THEN {m.id} ELSE {}
             subs == [p \in DOMAIN subscribed |-> subscribed[p] \ gone]
             R == {p \in DOMAIN subscribed : m.id \in subscribed[p]}
  <2>1. Received(c, {"output", "dump", "event"})
    BY <1>3 DEF OnSessionMessage
  <2>2. agents' = agents /\ m \in AgentMessage /\ agents' \subseteq 1..conns'
    BY <2>1, ReceivedTypes DEF Received, Typed, RegistryTyped, agentVars
  <2>3. CASE ~mine
    BY <1>1, <1>3, <2>1, <2>2, <2>3 DEF OnSessionMessage, Typed, RegistryTyped, WiresTyped, PagesTyped
  <2>4. CASE mine
    <3>1. sessions' = Without(sessions, gone) /\ infos' = infos \ gone /\ Notify(R, <<m>>, subs)
      BY <1>3, <2>4 DEF OnSessionMessage
    <3>2. <<m>> \in Seq(AgentMessage)
      BY <2>2
    <3>3. Maps(subs, Pages, SUBSET (DOMAIN sessions \ gone))
      BY DEF Typed, RegistryTyped, Maps
    <3>4. /\ toPage' \in [Pages -> Seq(AgentMessage)] /\ \A p \in Pages : Len(toPage'[p]) <= ChanCap
          /\ link' \in [Pages -> {"down", "up", "dropped"}]
          /\ Maps(subscribed', Pages, SUBSET (DOMAIN sessions \ gone))
      <4> HIDE DEF subs, gone
      <4>1. R \in SUBSET DOMAIN subscribed
        OBVIOUS
      <4>2. QED
        BY <3>1, <3>2, <3>3, <4>1, NotifyTypes
    <3>5. Maps(sessions', SessionIds, agents) /\ DOMAIN sessions' = DOMAIN sessions \ gone
      <4> HIDE DEF gone
      <4>1. Maps(sessions, SessionIds, agents)
        BY DEF Typed, RegistryTyped
      <4>2. /\ Maps(Without(sessions, gone), SessionIds, agents)
            /\ DOMAIN Without(sessions, gone) = DOMAIN sessions \ gone
        BY <4>1, MapsWithout
      <4>3. sessions' = Without(sessions, gone)
        BY <3>1
      <4>4. QED
        BY <4>2, <4>3
    <3>6. RegistryTyped'
      <4> HIDE DEF gone
      <4>1. QED
        BY <2>2, <3>1, <3>4, <3>5 DEF Typed, RegistryTyped
    <3>7. QED
      BY <1>1, <2>1, <3>4, <3>6
  <2>5. QED
    BY <2>3, <2>4
<1>4. ASSUME OnReady(c) PROVE Typed'
  <2>1. Received(c, {"ready"}) /\ NotifyOwner(<<Ready>>, {}) /\ UNCHANGED <<sessions, infos>>
    BY <1>4 DEF OnReady
  <2>2. <<Ready>> \in Seq(AgentMessage)
    BY MessageTypes
  <2>3. /\ toPage' \in [Pages -> Seq(AgentMessage)] /\ \A p \in Pages : Len(toPage'[p]) <= ChanCap
        /\ link' \in [Pages -> {"down", "up", "dropped"}]
        /\ Maps(subscribed', Pages, SUBSET (DOMAIN sessions \ {}))
    BY <2>1, <2>2, NotifyOwnerTypes
  <2>4. Maps(subscribed', Pages, SUBSET DOMAIN sessions)
    BY <2>3, MapsWider
  <2>5. agents' = agents /\ conns' = conns
    BY <2>1 DEF Received, agentVars
  <2>6. RegistryTyped'
    BY <2>1, <2>4, <2>5 DEF Typed, RegistryTyped
  <2>7. QED
    BY <1>1, <2>1, <2>3, <2>6
<1>5. QED
  BY <1>2, <1>3, <1>4

LEMMA TypedPing ==
  ASSUME Typed, NEW c, SendPing(c)
  PROVE  Typed'
<1>1. <<Ping>> \in Seq(ServerMessage)
  BY CommandTypes, OneOf
<1>2. toAgent' = [toAgent EXCEPT ![c] = <<Ping>>]
      /\ UNCHANGED <<registryVars, subscribed, fromAgent, toPage, fromPage, agentVars, linkVars, viewVars>>
  BY DEF SendPing
<1>3. toAgent' \in [Conns -> Seq(ServerMessage)]
  BY <1>1, <1>2 DEF Typed, WiresTyped
<1>4. QED
  BY <1>2, <1>3 DEF Typed, RegistryTyped, WiresTyped, AgentTyped, PagesTyped, Held, registryVars, agentVars,
                   linkVars, viewVars

\* What the server reads of a page.
LEMMA CommandedTypes ==
  ASSUME Typed, NEW p, NEW kinds, Commanded(p, kinds)
  PROVE  /\ p \in Pages /\ p \in DOMAIN subscribed
         /\ fromPage[p] \in Seq(ServerMessage) /\ fromPage[p] # <<>>
         /\ Head(fromPage[p]) \in ServerMessage /\ Head(fromPage[p]).do \in kinds
         /\ fromPage' = [fromPage EXCEPT ![p] = Tail(@)]
         /\ fromPage' \in [Pages -> Seq(ServerMessage)]
         /\ AgentTyped' /\ PagesTyped'
         /\ UNCHANGED <<agents, infos, fromAgent, agentVars, linkVars, viewVars>>
BY HeadFacts DEF Commanded, Typed, RegistryTyped, Maps, WiresTyped, AgentTyped, PagesTyped, Held, agentVars,
   linkVars, viewVars

LEMMA ReplyTypes ==
  ASSUME Typed, NEW p \in Pages, NEW m \in AgentMessage, Reply(p, m)
  PROVE  toPage' \in [Pages -> Seq(AgentMessage)] /\ \A q \in Pages : Len(toPage'[q]) <= ChanCap
BY Bounds, AppendFacts DEF Typed, WiresTyped, Reply

LEMMA SubscribeTypes ==
  ASSUME Typed, NEW p \in DOMAIN subscribed, NEW s, NEW D, DOMAIN sessions \cup {s} \subseteq D, Subscribe(p, s)
  PROVE  Maps(subscribed', Pages, SUBSET D)
BY DEF Subscribe, Typed, RegistryTyped, Maps

LEMMA ForwardTypes ==
  ASSUME Typed, NEW c \in Conns, NEW m \in ServerMessage, Forward(c, m)
  PROVE  toAgent' \in [Conns -> Seq(ServerMessage)]
BY AppendFacts DEF Typed, WiresTyped, Forward

LEMMA RefuseTypes ==
  ASSUME Typed, NEW p \in Pages, NEW s \in SessionIds, Refuse(p, s)
  PROVE  /\ toPage' \in [Pages -> Seq(AgentMessage)] /\ \A q \in Pages : Len(toPage'[q]) <= ChanCap
         /\ UNCHANGED <<sessions, subscribed, toAgent>>
BY MessageTypes, ReplyTypes DEF Events, Refuse

LEMMA TypedCommanded ==
  ASSUME Typed, NEW p, OnSpawnSession(p) \/ OnSessionCommand(p) \/ OnListSessions(p)
  PROVE  Typed'
<1>1. ASSUME NEW kinds, Commanded(p, kinds),
             Maps(sessions', SessionIds, agents), DOMAIN sessions \subseteq DOMAIN sessions',
             Maps(subscribed', Pages, SUBSET DOMAIN sessions'), toAgent' \in [Conns -> Seq(ServerMessage)],
             toPage' \in [Pages -> Seq(AgentMessage)] /\ \A q \in Pages : Len(toPage'[q]) <= ChanCap
      PROVE  Typed'
  BY <1>1, CommandedTypes DEF Typed, RegistryTyped, agentVars, WiresTyped
<1> DEFINE m == Head(fromPage[p])
<1>2. Maps(sessions, SessionIds, agents) /\ Maps(subscribed, Pages, SUBSET DOMAIN sessions)
      /\ toAgent \in [Conns -> Seq(ServerMessage)]
      /\ toPage \in [Pages -> Seq(AgentMessage)] /\ \A q \in Pages : Len(toPage[q]) <= ChanCap
  BY DEF Typed, RegistryTyped, WiresTyped
<1>3. \A c \in agents : c \in Conns
  BY Bounds DEF Typed, RegistryTyped, AgentTyped, Conns
<1>4. ASSUME OnSpawnSession(p) PROVE Typed'
  <2>1. Commanded(p, {"spawn"})
    BY <1>4 DEF OnSpawnSession
  <2>2. p \in Pages /\ p \in DOMAIN subscribed /\ m \in ServerMessage /\ m.do = "spawn"
    BY <2>1, CommandedTypes
  <2>3. m.id \in SessionIds
    BY <2>2, CommandParts
  <2>4. ASSUME NEW c \in agents, Forward(c, m), sessions' = Put(sessions, m.id, c), Subscribe(p, m.id),
               UNCHANGED toPage
        PROVE  Typed'
    <3>1. Maps(Put(sessions, m.id, c), SessionIds, agents)
          /\ DOMAIN Put(sessions, m.id, c) = DOMAIN sessions \cup {m.id}
      <4>1. Maps(sessions, SessionIds, agents)
        BY <1>2
      <4>2. QED
        BY <2>3, <2>4, <4>1, MapsPut
    <3>2. Maps(sessions', SessionIds, agents) /\ DOMAIN sessions' = DOMAIN sessions \cup {m.id}
      BY <2>4, <3>1
    <3>3. Maps(subscribed', Pages, SUBSET DOMAIN sessions')
      BY <2>2, <2>4, <3>2, SubscribeTypes
    <3>4. toAgent' \in [Conns -> Seq(ServerMessage)]
      BY <1>3, <2>2, <2>4, ForwardTypes
    <3>5. toPage' \in [Pages -> Seq(AgentMessage)] /\ \A q \in Pages : Len(toPage'[q]) <= ChanCap
      BY <1>2, <2>4
    <3>6. QED
      BY <1>1, <2>1, <3>2, <3>3, <3>4, <3>5
  <2>5. ASSUME Refuse(p, m.id) PROVE Typed'
    BY <1>1, <1>2, <2>1, <2>2, <2>3, <2>5, RefuseTypes
  <2>6. QED
    BY <1>4, <2>4, <2>5 DEF OnSpawnSession
<1>5. ASSUME OnSessionCommand(p) PROVE Typed'
  <2>1. Commanded(p, {"kill", "resize", "scrollback"})
    BY <1>5 DEF OnSessionCommand
  <2>2. p \in Pages /\ p \in DOMAIN subscribed /\ m \in ServerMessage /\ m.do \in {"kill", "resize", "scrollback"}
    BY <2>1, CommandedTypes
  <2>3. m.id \in SessionIds
    BY <2>2, CommandParts
  <2>4. ASSUME m.id \in DOMAIN sessions, Forward(sessions[m.id], m), UNCHANGED <<toPage, sessions>>,
               Subscribe(p, m.id) \/ UNCHANGED subscribed
        PROVE  Typed'
    BY <1>1, <1>2, <1>3, <2>1, <2>2, <2>4, MapsAre, ForwardTypes, SubscribeTypes
  <2>5. ASSUME Refuse(p, m.id) PROVE Typed'
    BY <1>1, <1>2, <2>1, <2>2, <2>3, <2>5, RefuseTypes
  <2>6. QED
    BY <1>5, <2>4, <2>5 DEF OnSessionCommand
<1>6. ASSUME OnListSessions(p) PROVE Typed'
  <2>1. Commanded(p, {"list"}) /\ UNCHANGED <<sessions, subscribed>>
    BY <1>6 DEF OnListSessions
  <2>2. p \in Pages
    BY <2>1, CommandedTypes
  <2>3. CASE Reply(p, List({})) /\ UNCHANGED toAgent
    BY <1>1, <1>2, <2>1, <2>2, <2>3, MessageTypes, ReplyTypes
  <2>4. ASSUME NEW S \in SUBSET agents, UNCHANGED toPage,
               toAgent' = [c \in Conns |-> IF c \in S THEN Append(toAgent[c], ListSessions) ELSE toAgent[c]]
        PROVE  Typed'
    BY <1>1, <1>2, <2>1, <2>4, CommandTypes, AppendFacts
  <2>5. QED
    BY <1>6, <2>3, <2>4 DEF OnListSessions
<1>7. QED
  BY <1>4, <1>5, <1>6

-----------------------------------------------------------------------------
(***************************************************************************)
(* Types: the agent.                                                       *)
(***************************************************************************)
LEMMA TypedAgentOnly ==
  ASSUME Typed, AgentOnly, AgentTyped', toAgent' \in [Conns -> Seq(ServerMessage)],
         fromAgent' \in [Conns -> Seq(AgentMessage)]
  PROVE  Typed'
BY DEF AgentOnly, Typed, RegistryTyped, PagesTyped, registryVars, linkVars, viewVars, WiresTyped

LEMMA ConnIn ==
  ASSUME Typed, conn # NoConn
  PROVE  conn \in Conns
BY Bounds DEF Typed, AgentTyped, Conns, NoConn

LEMMA TypedSend ==
  ASSUME Typed, AgentSend
  PROVE  Typed'
<1>1. conn \in Conns /\ outgoing # <<>> /\ outgoing' = Tail(outgoing) /\ UNCHANGED <<toAgent, conn, spawning, ptys>>
      /\ AgentOnly
  BY ConnIn DEF AgentSend
<1>2. outgoing \in Seq(AgentMessage) /\ Len(outgoing) <= AgentCap
  BY DEF Typed, AgentTyped
<1>3. Head(outgoing) \in AgentMessage /\ Tail(outgoing) \in Seq(AgentMessage)
      /\ Len(outgoing) \in Nat /\ Len(Tail(outgoing)) = Len(outgoing) - 1
  BY <1>1, <1>2, HeadFacts
<1>4. Len(Tail(outgoing)) <= AgentCap
  BY <1>2, <1>3, Bounds
<1>5. Append(fromAgent[conn], Head(outgoing)) \in Seq(AgentMessage)
  BY <1>1, <1>3, AppendFacts DEF Typed, WiresTyped
<1>6. fromAgent' \in [Conns -> Seq(AgentMessage)]
  BY <1>5 DEF AgentSend, Typed, WiresTyped
<1>7. toAgent' \in [Conns -> Seq(ServerMessage)]
  BY <1>1 DEF Typed, WiresTyped
<1>8. AgentTyped'
  BY <1>1, <1>3, <1>4 DEF AgentOnly, Typed, AgentTyped, Held
<1>9. QED
  BY <1>1, <1>6, <1>7, <1>8, TypedAgentOnly

LEMMA TypedDrop ==
  ASSUME Typed, AgentDrop
  PROVE  Typed'
<1>1. conn \in Conns /\ conn' = NoConn /\ toAgent' = [toAgent EXCEPT ![conn] = <<>>] /\ spawning' = NoSession
      /\ UNCHANGED <<fromAgent, outgoing>> /\ AgentOnly
  BY ConnIn DEF AgentDrop
<1>2. ptys' = [s \in DOMAIN ptys |-> IF s = spawning THEN [ptys[s] EXCEPT !.reader = "orphaned"] ELSE ptys[s]]
  BY DEF AgentDrop
<1>3. \A s \in DOMAIN ptys : ptys[s] \in Pty /\ [ptys[s] EXCEPT !.reader = "orphaned"] \in Pty
  BY DEF Typed, AgentTyped, Maps, Pty
<1>4. Maps(ptys', SessionIds, Pty)
  BY <1>2, <1>3 DEF Typed, AgentTyped, Maps
<1>5. <<>> \in Seq(ServerMessage)
  BY EmptySeq
<1>6. toAgent' \in [Conns -> Seq(ServerMessage)] /\ fromAgent' \in [Conns -> Seq(AgentMessage)]
  BY <1>1, <1>5 DEF Typed, WiresTyped
<1>7. AgentTyped'
  BY <1>1, <1>4, Bounds DEF AgentOnly, Typed, AgentTyped, NoConn, Held
<1>8. QED
  BY <1>1, <1>6, <1>7, TypedAgentOnly

LEMMA EnqueueTypes ==
  ASSUME Typed, Room, NEW m \in AgentMessage, Enqueue(m)
  PROVE  outgoing' \in Seq(AgentMessage) /\ Len(outgoing') <= AgentCap
BY AppendFacts, Bounds DEF Typed, AgentTyped, Room, Enqueue

\* What the agent reads.
LEMMA DispatchedTypes ==
  ASSUME Typed, NEW kinds, Dispatched(kinds)
  PROVE  /\ conn \in Conns /\ spawning = NoSession
         /\ toAgent[conn] \in Seq(ServerMessage) /\ toAgent[conn] # <<>>
         /\ Head(toAgent[conn]) \in ServerMessage /\ Head(toAgent[conn]).do \in kinds
         /\ toAgent' = [toAgent EXCEPT ![conn] = Tail(@)]
         /\ toAgent' \in [Conns -> Seq(ServerMessage)] /\ fromAgent' \in [Conns -> Seq(AgentMessage)]
         /\ UNCHANGED <<fromAgent, conn, conns>> /\ AgentOnly
BY ConnIn, HeadFacts DEF Dispatched, Typed, WiresTyped, AgentOnly

LEMMA TypedDispatch ==
  ASSUME Typed, Dispatch
  PROVE  Typed'
<1> DEFINE m == Head(toAgent[conn])
<1>1. ASSUME NEW kinds, Dispatched(kinds), Maps(ptys', SessionIds, Pty), Held',
             outgoing' \in Seq(AgentMessage) /\ Len(outgoing') <= AgentCap
      PROVE  Typed'
  BY <1>1, DispatchedTypes, TypedAgentOnly DEF Typed, AgentTyped
<1>2. Maps(ptys, SessionIds, Pty) /\ Held /\ outgoing \in Seq(AgentMessage) /\ Len(outgoing) <= AgentCap
  BY DEF Typed, AgentTyped
<1>3. ASSUME Spawn PROVE Typed'
  <2>1. Dispatched({"spawn"})
    BY <1>3 DEF Spawn
  <2>2. m \in ServerMessage /\ m.do = "spawn" /\ spawning = NoSession
    BY <2>1, DispatchedTypes
  <2>3. m.id \in SessionIds
    BY <2>2, CommandParts
  <2>4. CASE Room /\ Enqueue(Event(m.id, "failed")) /\ UNCHANGED <<spawning, ptys>>
    BY <1>1, <1>2, <2>1, <2>3, <2>4, MessageTypes, EnqueueTypes DEF Events, Held
  <2>5. CASE /\ ptys' = Put(ptys, m.id, [reader |-> "held", alive |-> TRUE, killed |-> FALSE, printed |-> 0])
             /\ spawning' = m.id
             /\ UNCHANGED outgoing
    <3>1. [reader |-> "held", alive |-> TRUE, killed |-> FALSE, printed |-> 0] \in Pty
      BY Bounds DEF Pty
    <3>2. /\ Maps(ptys', SessionIds, Pty) /\ m.id \in DOMAIN ptys'
          /\ ptys'[m.id] = [reader |-> "held", alive |-> TRUE, killed |-> FALSE, printed |-> 0]
      <4> DEFINE v == [reader |-> "held", alive |-> TRUE, killed |-> FALSE, printed |-> 0]
      <4>1. ptys' = Put(ptys, m.id, v)
        BY <2>5
      <4>2. v \in Pty
        BY <3>1
      <4>3. Maps(Put(ptys, m.id, v), SessionIds, Pty) /\ DOMAIN Put(ptys, m.id, v) = DOMAIN ptys \cup {m.id}
            /\ Put(ptys, m.id, v)[m.id] = v
        <5>1. Maps(ptys, SessionIds, Pty)
          BY <1>2
        <5> HIDE DEF v, m
        <5>2. QED
          BY <2>3, <4>2, <5>1, MapsPut
      <4> HIDE DEF v
      <4>4. Maps(ptys', SessionIds, Pty) /\ m.id \in DOMAIN ptys' /\ ptys'[m.id] = v
        BY <4>1, <4>3
      <4>5. QED
        BY <4>4 DEF v
    <3>3. Held'
      BY <2>5, <3>2 DEF Held
    <3>4. QED
      BY <1>1, <1>2, <2>1, <2>5, <3>2, <3>3
  <2>6. QED
    BY <1>3, <2>4, <2>5 DEF Spawn
<1>4. ASSUME Kill PROVE Typed'
  <2>1. Dispatched({"kill"}) /\ UNCHANGED <<outgoing, spawning>>
        /\ ptys' = IF m.id \in DOMAIN ptys
                   THEN [ptys EXCEPT ![m.id].alive = FALSE, ![m.id].killed = TRUE] ELSE ptys
    BY <1>4 DEF Kill
  <2>2. spawning = NoSession
    BY <2>1, DispatchedTypes
  <2>3. Maps(ptys', SessionIds, Pty)
    <3>1. ASSUME NEW x \in DOMAIN ptys PROVE [ptys[x] EXCEPT !.alive = FALSE, !.killed = TRUE] \in Pty
      BY <1>2, <3>1 DEF Maps, Pty
    <3>2. m.id \in DOMAIN ptys =>
            ptys' = [ptys EXCEPT ![m.id] = [ptys[m.id] EXCEPT !.alive = FALSE, !.killed = TRUE]]
      BY <1>2, <2>1 DEF Maps
    <3>3. Maps(ptys, SessionIds, Pty)
      BY <1>2
    <3>4. QED
      BY <2>1, <3>1, <3>2, <3>3 DEF Maps
  <2>4. Held'
    BY <2>1, <2>2 DEF Held
  <2>5. QED
    BY <1>1, <1>2, <2>1, <2>3, <2>4
<1>5. ASSUME Resize PROVE Typed'
  BY <1>1, <1>2, <1>5 DEF Resize, Held
<1>6. ASSUME DumpScrollback PROVE Typed'
  <2>1. Dispatched({"scrollback"}) /\ Room /\ UNCHANGED <<spawning, ptys>>
        /\ Enqueue(Dump(m.id, IF m.id \in DOMAIN ptys THEN ptys[m.id].printed ELSE 0))
    BY <1>6 DEF DumpScrollback
  <2>2. m \in ServerMessage /\ m.do = "scrollback"
    BY <2>1, DispatchedTypes
  <2>3. m.id \in SessionIds
    BY <2>2, CommandParts
  <2>4. (IF m.id \in DOMAIN ptys THEN ptys[m.id].printed ELSE 0) \in 0..MaxChunks
    BY <1>2, Bounds DEF Maps, Pty
  <2>5. Dump(m.id, IF m.id \in DOMAIN ptys THEN ptys[m.id].printed ELSE 0) \in AgentMessage
    BY <2>3, <2>4, MessageTypes
  <2>6. outgoing' \in Seq(AgentMessage) /\ Len(outgoing') <= AgentCap
    BY <2>1, <2>5, EnqueueTypes
  <2>7. Held'
    BY <1>2, <2>1 DEF Held
  <2>8. QED
    BY <1>1, <1>2, <2>1, <2>6, <2>7
<1>7. ASSUME Relist PROVE Typed'
  BY <1>1, <1>2, <1>7, MessageTypes, EnqueueTypes DEF Relist, Maps, Held
<1>8. QED
  BY <1>3, <1>4, <1>5, <1>6, <1>7 DEF Dispatch

LEMMA TypedReader ==
  ASSUME Typed,
         FinishSpawn \/ \E s \in DOMAIN ptys : Produce(s) \/ Exit(s) \/ Reader(s)
  PROVE  Typed'
<1>1. ASSUME UNCHANGED <<toAgent, fromAgent, conn>>, AgentOnly, Maps(ptys', SessionIds, Pty), Held',
             outgoing' \in Seq(AgentMessage) /\ Len(outgoing') <= AgentCap
      PROVE  Typed'
  BY <1>1, TypedAgentOnly DEF Typed, WiresTyped, AgentOnly, AgentTyped
<1>2. Maps(ptys, SessionIds, Pty) /\ Held /\ outgoing \in Seq(AgentMessage) /\ Len(outgoing) <= AgentCap
  BY DEF Typed, AgentTyped
<1>3. \A s \in DOMAIN ptys : s \in SessionIds /\ ptys[s] \in Pty
  BY <1>2 DEF Maps
<1>4. ASSUME FinishSpawn PROVE Typed'
  BY <1>1, <1>2, <1>3, <1>4, MessageTypes, EnqueueTypes DEF FinishSpawn, Held, Events, Maps, Pty
<1>5. ASSUME NEW s \in DOMAIN ptys, Produce(s) PROVE Typed'
  <2>1. /\ ptys[s].reader = "running" /\ ptys[s].printed < MaxChunks /\ Room
        /\ ptys' = [ptys EXCEPT ![s].printed = @ + 1] /\ Enqueue(Output(s, ptys[s].printed + 1))
        /\ UNCHANGED <<toAgent, fromAgent, conn, spawning>> /\ AgentOnly
    BY <1>5 DEF Produce
  <2>2. ptys[s].printed + 1 \in 1..MaxChunks /\ ptys[s].printed + 1 \in 0..MaxChunks
    BY <1>3, <2>1, Bounds DEF Pty
  <2>3. Output(s, ptys[s].printed + 1) \in AgentMessage
    BY <1>3, <2>2, MessageTypes
  <2>4. outgoing' \in Seq(AgentMessage) /\ Len(outgoing') <= AgentCap
    BY <2>1, <2>3, EnqueueTypes
  <2>5. Maps(ptys', SessionIds, Pty)
    BY <1>2, <1>3, <2>1, <2>2, MapsExcept DEF Pty
  <2>6. Held'
    BY <1>2, <2>1 DEF Held, Maps
  <2>7. QED
    BY <1>1, <2>1, <2>4, <2>5, <2>6
<1>6. ASSUME NEW s \in DOMAIN ptys, Exit(s) PROVE Typed'
  BY <1>1, <1>2, <1>6 DEF Exit, Maps, Pty, Held
<1>7. ASSUME NEW s \in DOMAIN ptys, ReportEnd(s) PROVE Typed'
  BY <1>1, <1>2, <1>3, <1>7, MessageTypes, EnqueueTypes DEF ReportEnd, Events, Maps, Pty, Held
<1>8. ASSUME NEW s \in DOMAIN ptys, Forget(s) PROVE Typed'
  <2>1. /\ ptys[s].reader = "reported" /\ ptys' = Without(ptys, {s})
        /\ UNCHANGED <<toAgent, fromAgent, conn, outgoing, spawning>> /\ AgentOnly
    BY <1>8 DEF Forget
  <2>2. Maps(ptys', SessionIds, Pty) /\ DOMAIN ptys' = DOMAIN ptys \ {s}
        /\ \A x \in DOMAIN ptys \ {s} : ptys'[x] = ptys[x]
    <3>1. Maps(ptys, SessionIds, Pty)
      BY <1>2
    <3>2. QED
      BY SMTT(30), <2>1, <3>1, MapsWithout
  <2>3. Held'
    BY <1>2, <2>1, <2>2 DEF Held
  <2>4. QED
    BY <1>1, <1>2, <2>1, <2>2, <2>3
<1>9. QED
  BY <1>4, <1>5, <1>6, <1>7, <1>8 DEF Reader

-----------------------------------------------------------------------------
(***************************************************************************)
(* Types: pages.                                                           *)
(***************************************************************************)
LEMMA TypedPageOnly ==
  ASSUME Typed, PageOnly, PagesTyped', Maps(subscribed', Pages, SUBSET DOMAIN sessions),
         toPage' \in [Pages -> Seq(AgentMessage)] /\ \A p \in Pages : Len(toPage'[p]) <= ChanCap,
         fromPage' \in [Pages -> Seq(ServerMessage)]
  PROVE  Typed'
BY DEF PageOnly, Typed, RegistryTyped, AgentTyped, Held, registryVars, agentVars, WiresTyped

LEMMA SendTypes ==
  ASSUME Typed, NEW p \in Pages, NEW ms \in Seq(ServerMessage), Send(p, ms)
  PROVE  fromPage' \in [Pages -> Seq(ServerMessage)]
BY ConcatFacts DEF Typed, WiresTyped, Send

\* A page's entries, one page at a time.
LEMMA EntriesTypes ==
  ASSUME Typed, NEW p \in Pages, NEW f, Maps(f, SessionIds, Entry),
         entries' = [entries EXCEPT ![p] = f] \/ UNCHANGED entries
  PROVE  DOMAIN entries' = Pages /\ \A q \in Pages : Maps(entries'[q], SessionIds, Entry)
BY DEF Typed, PagesTyped

LEMMA UnsubscribedTypes ==
  ASSUME NEW f, Maps(f, SessionIds, Entry)
  PROVE  Maps(Unsubscribed(f), SessionIds, Entry)
BY DEF Maps, Unsubscribed, Entry

LEMMA NewEntryTypes ==
  ASSUME NEW r \in BOOLEAN
  PROVE  NewEntry(r) \in Entry
BY Bounds DEF NewEntry, Entry

\* One entry of a page.
LEMMA EntryIn ==
  ASSUME NEW f, Maps(f, SessionIds, Entry), NEW s \in DOMAIN f
  PROVE  f[s] \in Entry /\ s \in SessionIds
BY DEF Maps

LEMMA EntrySet ==
  ASSUME NEW f, Maps(f, SessionIds, Entry), NEW s \in DOMAIN f
  PROVE  /\ \A b \in BOOLEAN : Maps([f EXCEPT ![s].running = b], SessionIds, Entry)
         /\ \A n \in 0..MaxChunks :
              Maps([f EXCEPT ![s].restoring = FALSE, ![s].shown = n, ![s].whole = TRUE], SessionIds, Entry)
<1>1. f[s] \in Entry
  BY DEF Maps
<1>2. ASSUME NEW b \in BOOLEAN PROVE Maps([f EXCEPT ![s].running = b], SessionIds, Entry)
  BY <1>1, MapsExcept DEF Entry, Maps
<1>3. ASSUME NEW n \in 0..MaxChunks
      PROVE  Maps([f EXCEPT ![s].restoring = FALSE, ![s].shown = n, ![s].whole = TRUE], SessionIds, Entry)
  <2> DEFINE e == [f[s] EXCEPT !.restoring = FALSE, !.shown = n, !.whole = TRUE]
  <2>1. e \in Entry
    BY <1>1 DEF Entry
  <2>2. [f EXCEPT ![s].restoring = FALSE, ![s].shown = n, ![s].whole = TRUE] = [f EXCEPT ![s] = e]
    BY DEF Maps
  <2>3. Maps([f EXCEPT ![s] = e], SessionIds, Entry)
    <3> HIDE DEF e
    <3>1. QED
      BY <2>1, MapsExcept
  <2>4. QED
    BY <2>2, <2>3
<1>4. QED
  BY <1>2, <1>3

LEMMA TypedConnecting ==
  ASSUME Typed, NEW p \in Pages, Connect(p)
  PROVE  Typed'
<1>1. subscribed' = Put(subscribed, p, {}) /\ toPage' = [toPage EXCEPT ![p] = <<Status(agents # {})>>]
      /\ Send(p, <<ListSessions>>) /\ UNCHANGED <<drawn, scenario, viewVars>> /\ PageOnly
      /\ links' = [links EXCEPT ![p] = @ + 1] /\ link' = [link EXCEPT ![p] = "up"]
  BY DEF Connect
<1>2. Maps(Put(subscribed, p, {}), Pages, SUBSET DOMAIN sessions)
  BY MapsPut DEF Typed, RegistryTyped
<1>3. Maps(subscribed', Pages, SUBSET DOMAIN sessions)
  BY <1>1, <1>2
<1>4. <<Status(agents # {})>> \in Seq(AgentMessage) /\ Len(<<Status(agents # {})>>) = 1
  BY MessageTypes, OneOf
<1>5. toPage' \in [Pages -> Seq(AgentMessage)] /\ \A q \in Pages : Len(toPage'[q]) <= ChanCap
  BY <1>1, <1>4, Bounds DEF Typed, WiresTyped
<1>6. fromPage' \in [Pages -> Seq(ServerMessage)]
  BY <1>1, CommandTypes, OneOf, SendTypes
<1>7. links' \in [Pages -> 0..MaxLinks]
  BY <1>1, Bounds DEF Connect, Typed, PagesTyped
<1>8. PagesTyped'
  BY <1>1, <1>7 DEF Typed, PagesTyped, viewVars
<1>9. QED
  BY <1>1, <1>3, <1>5, <1>6, <1>8, TypedPageOnly

LEMMA TypedDisconnect ==
  ASSUME Typed, NEW p \in Pages, Disconnect(p)
  PROVE  Typed'
<1>1. /\ link' = [link EXCEPT ![p] = "down"] /\ subscribed' = Without(subscribed, {p})
      /\ toPage' = [toPage EXCEPT ![p] = <<>>] /\ fromPage' = [fromPage EXCEPT ![p] = <<>>]
      /\ agentUp' = [agentUp EXCEPT ![p] = FALSE]
      /\ UNCHANGED <<links, drawn, scenario, closing>> /\ PageOnly
  BY DEF Disconnect
<1>2. entries' = [entries EXCEPT ![p] = Unsubscribed(entries[p])]
  BY DEF Disconnect
<1>3. Maps(subscribed', Pages, SUBSET DOMAIN sessions)
  BY <1>1, MapsWithout DEF Typed, RegistryTyped
<1>4. <<>> \in Seq(AgentMessage) /\ <<>> \in Seq(ServerMessage) /\ Len(<<>>) = 0
  BY EmptySeq
<1>5. toPage' \in [Pages -> Seq(AgentMessage)] /\ fromPage' \in [Pages -> Seq(ServerMessage)]
  BY <1>1, <1>4 DEF Typed, WiresTyped
<1>6. \A q \in Pages : Len(toPage'[q]) <= ChanCap
  BY <1>1, <1>4, Bounds DEF Typed, WiresTyped
<1>7. DOMAIN entries' = Pages /\ \A q \in Pages : Maps(entries'[q], SessionIds, Entry)
  BY <1>2, UnsubscribedTypes, EntriesTypes DEF Typed, PagesTyped
<1>8. PagesTyped'
  BY <1>1, <1>7 DEF Typed, PagesTyped
<1>9. QED
  BY <1>1, <1>3, <1>5, <1>6, <1>8, TypedPageOnly

\* What a page reads.
LEMMA ReceiveTypes ==
  ASSUME Typed, NEW p \in Pages, NEW kinds, Receive(p, kinds)
  PROVE  /\ toPage[p] \in Seq(AgentMessage) /\ toPage[p] # <<>>
         /\ Head(toPage[p]) \in AgentMessage /\ Head(toPage[p]).is \in kinds
         /\ toPage' = [toPage EXCEPT ![p] = Tail(@)]
         /\ toPage' \in [Pages -> Seq(AgentMessage)] /\ \A q \in Pages : Len(toPage'[q]) <= ChanCap
         /\ Maps(subscribed', Pages, SUBSET DOMAIN sessions)
         /\ UNCHANGED <<subscribed, linkVars>> /\ PageOnly
BY HeadFacts, Bounds DEF Receive, Typed, WiresTyped, RegistryTyped

\* What is asked for after a list.
LEMMA AskedTypes ==
  ASSUME NEW S \in SUBSET SessionIds
  PROVE  SetToSeq({Command("scrollback", s) : s \in S}) \in Seq(ServerMessage)
<1> DEFINE C == {Command("scrollback", s) : s \in S}
           f == [s \in S |-> Command("scrollback", s)]
<1>1. IsFiniteSet(S)
  BY Bounds, FS_Subset
<1>2. f \in Surjection(S, C)
  BY DEF Surjection
<1>3. IsFiniteSet(C)
  <2> HIDE DEF C, f
  <2>1. QED
    BY <1>1, <1>2, FS_Surjection
<1>4. SetToSeq(C) \in Seq(C)
  <2> HIDE DEF C
  <2>1. QED
    BY <1>3, Sequenced
<1>5. C \subseteq ServerMessage
  BY CommandTypes
<1>6. QED
  <2> HIDE DEF C
  <2>1. SetToSeq(C) \in Seq(ServerMessage)
    BY <1>4, <1>5
  <2>2. QED
    BY <2>1 DEF C

LEMMA TypedReceive ==
  ASSUME Typed, NEW p \in Pages, PageReceives(p)
  PROVE  Typed'
<1> DEFINE m == Head(toPage[p])
           mine == entries[p]
<1>1. ASSUME NEW kinds, Receive(p, kinds), fromPage' \in [Pages -> Seq(ServerMessage)],
             agentUp' \in [Pages -> BOOLEAN], closing' \in [Pages -> SUBSET SessionIds],
             NEW f, Maps(f, SessionIds, Entry), entries' = [entries EXCEPT ![p] = f] \/ UNCHANGED entries
      PROVE  Typed'
  BY <1>1, ReceiveTypes, EntriesTypes, TypedPageOnly DEF Typed, PagesTyped, linkVars
<1>2. /\ fromPage \in [Pages -> Seq(ServerMessage)] /\ agentUp \in [Pages -> BOOLEAN]
      /\ closing \in [Pages -> SUBSET SessionIds] /\ Maps(mine, SessionIds, Entry)
  BY DEF Typed, PagesTyped, WiresTyped
<1>3. ASSUME ReceiveStatus(p) PROVE Typed'
  <2>1. Receive(p, {"status"}) /\ UNCHANGED <<fromPage, closing>>
        /\ agentUp' = [agentUp EXCEPT ![p] = m.connected]
        /\ entries' = [entries EXCEPT ![p] = IF m.connected THEN mine ELSE Unsubscribed(mine)]
    BY <1>3 DEF ReceiveStatus
  <2>2. m.connected \in BOOLEAN
    BY <2>1, ReceiveTypes, MessageParts
  <2>3. Maps(IF m.connected THEN mine ELSE Unsubscribed(mine), SessionIds, Entry)
    BY <1>2, UnsubscribedTypes
  <2>4. agentUp' \in [Pages -> BOOLEAN]
    BY <1>2, <2>1, <2>2
  <2>5. fromPage' \in [Pages -> Seq(ServerMessage)] /\ closing' \in [Pages -> SUBSET SessionIds]
    BY <1>2, <2>1
  <2>6. QED
    <3> HIDE DEF mine, m
    <3>1. QED
      BY <1>1, <2>1, <2>3, <2>4, <2>5
<1>4. ASSUME ReceiveReady(p) PROVE Typed'
  <2>1. Receive(p, {"ready"}) /\ Send(p, <<ListSessions>>) /\ UNCHANGED viewVars
    BY <1>4 DEF ReceiveReady
  <2>2. fromPage' \in [Pages -> Seq(ServerMessage)]
    BY <2>1, CommandTypes, OneOf, SendTypes
  <2>3. agentUp' \in [Pages -> BOOLEAN] /\ closing' \in [Pages -> SUBSET SessionIds]
        /\ UNCHANGED entries
    BY <1>2, <2>1 DEF viewVars
  <2>4. QED
    <3> HIDE DEF mine
    <3>1. QED
      BY <1>1, <1>2, <2>1, <2>2, <2>3
<1>5. ASSUME ReceiveList(p) PROVE Typed'
  <2> DEFINE ids == m.ids
             asked == {s \in ids : s \in DOMAIN mine => ~mine[s].subscribed}
             restored(s) ==
               IF s \notin DOMAIN mine THEN NewEntry(TRUE)
               ELSE IF s \in asked THEN [mine[s] EXCEPT !.running = TRUE, !.subscribed = TRUE,
                                                        !.restoring = TRUE]
               ELSE IF s \in ids THEN [mine[s] EXCEPT !.running = TRUE]
               ELSE [mine[s] EXCEPT !.running = FALSE, !.subscribed = FALSE]
             f == [s \in DOMAIN mine \cup ids |-> restored(s)]
  <2>1. Receive(p, {"list"}) /\ UNCHANGED <<agentUp, closing>>
    BY <1>5 DEF ReceiveList
  <2>2. ids \subseteq SessionIds
    BY <2>1, ReceiveTypes, MessageParts
  <2>3. agentUp' \in [Pages -> BOOLEAN] /\ closing' \in [Pages -> SUBSET SessionIds]
    BY <1>2, <2>1
  <2>4. CASE UNCHANGED <<entries, fromPage>>
    <3>1. fromPage' \in [Pages -> Seq(ServerMessage)] /\ UNCHANGED entries
      BY <1>2, <2>4
    <3>2. QED
      <4> HIDE DEF mine
      <4>1. QED
        BY <1>1, <1>2, <2>1, <2>3, <3>1
  <2>5. CASE entries' = [entries EXCEPT ![p] = f] /\ Send(p, SetToSeq({Command("scrollback", s) : s \in asked}))
    <3>1. fromPage' \in [Pages -> Seq(ServerMessage)]
      <4>1. asked \in SUBSET SessionIds
        BY <2>2
      <4>2. SetToSeq({Command("scrollback", s) : s \in asked}) \in Seq(ServerMessage)
        <5> HIDE DEF asked
        <5>1. QED
          BY <4>1, AskedTypes
      <4>3. QED
        <5> HIDE DEF asked
        <5>1. QED
          BY <2>5, <4>2, SendTypes
    <3>2. \A s \in DOMAIN mine \cup ids : restored(s) \in Entry
      <4>1. NewEntry(TRUE) \in Entry
        BY NewEntryTypes
      <4>2. \A s \in DOMAIN mine : mine[s] \in Entry
        BY <1>2 DEF Maps
      <4>3. \A e \in Entry : /\ [e EXCEPT !.running = TRUE, !.subscribed = TRUE, !.restoring = TRUE] \in Entry
                             /\ [e EXCEPT !.running = TRUE] \in Entry
                             /\ [e EXCEPT !.running = FALSE, !.subscribed = FALSE] \in Entry
        BY DEF Entry
      <4>4. QED
        <5> HIDE DEF mine, ids, asked
        <5>1. QED
          BY <4>1, <4>2, <4>3
    <3>3. Maps(f, SessionIds, Entry)
      <4>1. DOMAIN mine \subseteq SessionIds
        BY <1>2 DEF Maps
      <4>2. DOMAIN f = DOMAIN mine \cup ids /\ \A s \in DOMAIN f : f[s] = restored(s)
        OBVIOUS
      <4>3. f \in [DOMAIN mine \cup ids -> Entry]
        <5> HIDE DEF restored, mine, ids
        <5>1. QED
          BY <3>2
      <4>4. QED
        <5> HIDE DEF f, mine, ids
        <5>1. QED
          BY <2>2, <4>1, <4>2, <4>3 DEF Maps
    <3>4. QED
      <4> HIDE DEF f, mine
      <4>1. QED
        BY <1>1, <2>1, <2>3, <2>5, <3>1, <3>3
  <2>6. QED
    BY <1>5, <2>4, <2>5 DEF ReceiveList
<1>6. ASSUME ReceiveEvent(p) PROVE Typed'
  <2> DEFINE closed == m.event \in {"exited", "killed"} /\ m.id \in closing[p]
             f == IF m.id \notin DOMAIN mine THEN mine
                  ELSE IF closed THEN Without(mine, {m.id})
                  ELSE [mine EXCEPT ![m.id].running = (m.event = "started")]
  <2>1. Receive(p, {"event"}) /\ UNCHANGED <<agentUp, fromPage>>
        /\ closing' = [closing EXCEPT ![p] = IF closed THEN @ \ {m.id} ELSE @]
        /\ entries' = [entries EXCEPT ![p] = f]
    BY <1>6 DEF ReceiveEvent
  <2>2. Maps(f, SessionIds, Entry)
    <3>1. Maps(Without(mine, {m.id}), SessionIds, Entry)
      BY <1>2, MapsWithout
    <3>2. m.id \in DOMAIN mine => Maps([mine EXCEPT ![m.id].running = (m.event = "started")], SessionIds, Entry)
      BY <1>2, EntrySet
    <3>3. QED
      <4> HIDE DEF mine, closed
      <4>1. QED
        BY <1>2, <3>1, <3>2
  <2>3. closing' \in [Pages -> SUBSET SessionIds]
    <3> HIDE DEF closed
    <3>1. QED
      BY <1>2, <2>1
  <2>4. fromPage' \in [Pages -> Seq(ServerMessage)] /\ agentUp' \in [Pages -> BOOLEAN]
    BY <1>2, <2>1
  <2>5. QED
    <3> HIDE DEF f, mine
    <3>1. QED
      BY <1>1, <2>1, <2>2, <2>3, <2>4
<1>7. ASSUME ReceiveOutput(p) PROVE Typed'
  <2> DEFINE e == mine[m.id]
             appended == IF e.restoring THEN e
                         ELSE [e EXCEPT !.shown = m.chunk, !.whole = @ /\ m.chunk = e.shown + 1]
             f == IF m.id \in DOMAIN mine THEN [mine EXCEPT ![m.id] = appended] ELSE mine
  <2>1. Receive(p, {"output"}) /\ UNCHANGED <<agentUp, closing, fromPage>> /\ entries' = [entries EXCEPT ![p] = f]
    BY <1>7 DEF ReceiveOutput
  <2>2. m.chunk \in 0..MaxChunks
    BY <2>1, ReceiveTypes, MessageParts, Bounds
  <2>3. Maps(f, SessionIds, Entry)
    <3>1. ASSUME m.id \in DOMAIN mine PROVE Maps([mine EXCEPT ![m.id] = appended], SessionIds, Entry)
      <4>1. e \in Entry
        BY <1>2, <3>1 DEF Maps
      <4>2. appended \in Entry
        <5> HIDE DEF e
        <5>1. QED
          BY <2>2, <4>1 DEF Entry
      <4>3. QED
        <5> HIDE DEF appended, mine
        <5>1. QED
          BY <1>2, <3>1, <4>2, MapsExcept
    <3>2. QED
      BY <1>2, <3>1
  <2>4. /\ fromPage' \in [Pages -> Seq(ServerMessage)] /\ agentUp' \in [Pages -> BOOLEAN]
        /\ closing' \in [Pages -> SUBSET SessionIds]
    BY <1>2, <2>1
  <2>5. QED
    <3> HIDE DEF f, mine
    <3>1. QED
      BY <1>1, <2>1, <2>3, <2>4
<1>8. ASSUME ReceiveDump(p) PROVE Typed'
  <2> DEFINE f == IF m.id \in DOMAIN mine
                  THEN [mine EXCEPT ![m.id].restoring = FALSE, ![m.id].shown = m.upto, ![m.id].whole = TRUE]
                  ELSE mine
  <2>1. Receive(p, {"dump"}) /\ UNCHANGED <<agentUp, closing>> /\ Send(p, <<Command("resize", m.id)>>)
        /\ entries' = [entries EXCEPT ![p] = f]
    BY <1>8 DEF ReceiveDump
  <2>2. m.upto \in 0..MaxChunks /\ m.id \in SessionIds
    <3>1. m \in AgentMessage /\ m.is = "dump"
      BY <2>1, ReceiveTypes
    <3>2. QED
      BY <3>1, MessageParts
  <2>3. Maps(f, SessionIds, Entry)
    BY <1>2, <2>2, EntrySet
  <2>4. fromPage' \in [Pages -> Seq(ServerMessage)]
    BY <2>1, <2>2, CommandTypes, OneOf, SendTypes
  <2>5. agentUp' \in [Pages -> BOOLEAN] /\ closing' \in [Pages -> SUBSET SessionIds]
    BY <1>2, <2>1
  <2>6. QED
    <3> HIDE DEF f, mine
    <3>1. QED
      BY <1>1, <2>1, <2>3, <2>4, <2>5
<1>9. QED
  BY <1>3, <1>4, <1>5, <1>6, <1>7, <1>8 DEF PageReceives

LEMMA TypedUser ==
  ASSUME Typed, NEW p \in Pages, NEW s \in SessionIds, NewSession(p, s) \/ CloseTab(p, s)
  PROVE  Typed'
<1> DEFINE mine == entries[p]
<1>1. ASSUME PageOnly, UNCHANGED <<subscribed, toPage, link, links, scenario, agentUp>>,
             fromPage' \in [Pages -> Seq(ServerMessage)], drawn' \subseteq SessionIds,
             closing' \in [Pages -> SUBSET SessionIds],
             NEW f, Maps(f, SessionIds, Entry), entries' = [entries EXCEPT ![p] = f] \/ UNCHANGED entries
      PROVE  Typed'
  BY <1>1, EntriesTypes, TypedPageOnly DEF Typed, PagesTyped, RegistryTyped, WiresTyped
<1>2. /\ fromPage \in [Pages -> Seq(ServerMessage)] /\ drawn \subseteq SessionIds
      /\ closing \in [Pages -> SUBSET SessionIds] /\ Maps(mine, SessionIds, Entry)
  BY DEF Typed, PagesTyped, WiresTyped
<1>3. \A d \in {"spawn", "kill"} : <<Command(d, s)>> \in Seq(ServerMessage)
  BY CommandTypes, OneOf
<1>4. ASSUME NewSession(p, s) PROVE Typed'
  <2>1. /\ PageOnly /\ UNCHANGED <<subscribed, toPage, link, links, scenario, agentUp, closing>>
        /\ drawn' = drawn \cup {s} /\ Send(p, <<Command("spawn", s)>>)
        /\ entries' = [entries EXCEPT ![p] = Put(mine, s, NewEntry(FALSE))]
    BY <1>4 DEF NewSession
  <2>2. Maps(Put(mine, s, NewEntry(FALSE)), SessionIds, Entry)
    <3>1. NewEntry(FALSE) \in Entry
      BY NewEntryTypes
    <3>2. QED
      <4> HIDE DEF mine
      <4>1. QED
        BY <1>2, <3>1, MapsPut
  <2>3. fromPage' \in [Pages -> Seq(ServerMessage)]
    BY <1>3, <2>1, SendTypes
  <2>4. drawn' \subseteq SessionIds /\ closing' \in [Pages -> SUBSET SessionIds]
    BY <1>2, <2>1
  <2>5. QED
    <3> HIDE DEF mine
    <3>1. QED
      BY <1>1, <2>1, <2>2, <2>3, <2>4
<1>5. ASSUME CloseTab(p, s) PROVE Typed'
  <2>1. PageOnly /\ UNCHANGED <<subscribed, toPage, link, links, drawn, scenario, agentUp>>
    BY <1>5 DEF CloseTab
  <2>2. CASE /\ Send(p, <<Command("kill", s)>>) /\ UNCHANGED entries
             /\ closing' = [closing EXCEPT ![p] = @ \cup {s}]
    <3>1. fromPage' \in [Pages -> Seq(ServerMessage)]
      BY <1>3, <2>2, SendTypes
    <3>2. closing' \in [Pages -> SUBSET SessionIds] /\ drawn' \subseteq SessionIds
          /\ UNCHANGED entries
      BY <1>2, <2>1, <2>2
    <3>3. QED
      <4> HIDE DEF mine
      <4>1. QED
        BY <1>1, <1>2, <2>1, <3>1, <3>2
  <2>3. CASE entries' = [entries EXCEPT ![p] = Without(mine, {s})] /\ UNCHANGED <<fromPage, closing>>
    <3>1. Maps(Without(mine, {s}), SessionIds, Entry)
      BY <1>2, MapsWithout
    <3>2. fromPage' \in [Pages -> Seq(ServerMessage)] /\ closing' \in [Pages -> SUBSET SessionIds]
          /\ drawn' \subseteq SessionIds
      BY <1>2, <2>1, <2>3
    <3>3. QED
      <4> HIDE DEF mine
      <4>1. QED
        BY <1>1, <2>1, <2>3, <3>1, <3>2
  <2>4. QED
    BY <1>5, <2>2, <2>3 DEF CloseTab
<1>6. QED
  BY <1>4, <1>5

-----------------------------------------------------------------------------
LEMMA TypedNext ==
  ASSUME Typed, [Next]_vars
  PROVE  Typed'
<1>1. CASE UNCHANGED vars
  <2>1. UNCHANGED <<registryVars, subscribed, wireVars, agentVars, linkVars, viewVars>>
    BY <1>1 DEF vars
  <2>2. QED
    BY <2>1 DEF Typed, RegistryTyped, WiresTyped, AgentTyped, PagesTyped, Held, registryVars, wireVars,
                agentVars, linkVars, viewVars
<1>2. CASE ServerStep
  BY <1>2, TypedReceived, TypedUnregister, TypedPing, TypedCommanded DEF ServerStep, Reap
<1>3. CASE \E c \in Conns : ServerHangup(c)
  BY <1>3, TypedUnregister DEF ServerHangup
<1>4. CASE AgentConnect \/ AgentSend \/ AgentDrop \/ Dispatch
  BY <1>4, TypedConnect, TypedSend, TypedDrop, TypedDispatch
<1>5. CASE FinishSpawn \/ \E s \in DOMAIN ptys : Produce(s) \/ Exit(s) \/ Reader(s)
  BY <1>5, TypedReader
<1>6. CASE \E p \in Pages : Connect(p) \/ Disconnect(p) \/ PageReceives(p)
  BY <1>6, TypedConnecting, TypedDisconnect, TypedReceive
<1>7. CASE \E p \in Pages, s \in SessionIds : NewSession(p, s) \/ CloseTab(p, s)
  BY <1>7, TypedUser
<1>8. QED
  BY <1>1, <1>2, <1>3, <1>4, <1>5, <1>6, <1>7 DEF Next

\* The registry agrees with itself, queues stay within their capacity, and every
\* message on the way is one the code sends (connect_manager.rs, pty_manager.rs).
THEOREM Typing == Spec => []TypeOK
<1>1. Init => Typed
  BY TypedInit
<1>2. Typed /\ [Next]_vars => Typed'
  BY TypedNext
<1>3. Typed => TypeOK
  BY TypedIs
<1>4. QED
  BY <1>1, <1>2, <1>3, PTL DEF Spec

-----------------------------------------------------------------------------
(***************************************************************************)
(* What the messages of an agent say of a session s.                       *)
(***************************************************************************)
Prints(m, s) == m.is = "output" /\ m.id = s
Shows(m, s)  == m.is \in {"output", "dump"} /\ m.id = s
Names(m, s)  == m.is = "list" /\ s \in m.ids
Closes(m, s) == m.is = "event" /\ m.event \in Ends /\ m.id = s
Speaks(m, s) == Shows(m, s) \/ Names(m, s) \/ (m.is = "event" /\ m.id = s)

\* The last chunk a grid shows after m.
At(m) == IF m.is = "output" THEN m.chunk ELSE m.upto

\* Of a queue q of messages: it shows nothing of s; its output of s has no gap;
\* it ends with chunk n; it goes on after chunk n.
Silent(s, q) == \A i \in 1..Len(q) : ~Shows(q[i], s)

Consecutive(s, q) ==
  \A i, j \in 1..Len(q) :
    /\ i < j /\ Shows(q[i], s) /\ Prints(q[j], s)
    /\ \A k \in 1..Len(q) : i < k /\ k < j => ~Shows(q[k], s)
    => q[j].chunk = At(q[i]) + 1

UpTo(s, q, n) ==
  \A i \in 1..Len(q) : Shows(q[i], s) /\ (\A k \in 1..Len(q) : i < k => ~Shows(q[k], s)) => At(q[i]) = n

From(s, q, n) ==
  \A j \in 1..Len(q) : Prints(q[j], s) /\ (\A k \in 1..Len(q) : k < j => ~Shows(q[k], s)) => q[j].chunk = n + 1

\* r is what q has after its first a messages, or the beginning of that.
Window(r, q, a) ==
  /\ a \in Nat /\ Len(r) \in Nat /\ Len(q) \in Nat /\ a + Len(r) <= Len(q)
  /\ \A i \in 1..Len(r) : r[i] = q[a + i]

LEMMA WindowFacts ==
  ASSUME NEW s, NEW q, NEW r, NEW a, Window(r, q, a)
  PROVE  /\ Consecutive(s, q) => Consecutive(s, r)
         /\ a + Len(r) = Len(q) => \A n : UpTo(s, q, n) => UpTo(s, r, n)
         /\ a = 0 => \A n : From(s, q, n) => From(s, r, n)
<1> DEFINE l == Len(r)
           k == Len(q)
<1>1. a \in Nat /\ l \in Nat /\ k \in Nat /\ a + l <= k /\ \A i \in 1..l : r[i] = q[a + i] /\ a + i \in 1..k
  BY DEF Window
<1>2. ASSUME Consecutive(s, q) PROVE Consecutive(s, r)
  <2>1. SUFFICES ASSUME NEW i \in 1..l, NEW j \in 1..l, i < j, Shows(r[i], s), Prints(r[j], s),
                        \A h \in 1..l : i < h /\ h < j => ~Shows(r[h], s)
                 PROVE  r[j].chunk = At(r[i]) + 1
    BY DEF Consecutive
  <2>2. a + i \in 1..k /\ a + j \in 1..k /\ a + i < a + j /\ r[i] = q[a + i] /\ r[j] = q[a + j]
    BY <1>1, <2>1
  <2>3. ASSUME NEW h \in 1..k, a + i < h, h < a + j PROVE ~Shows(q[h], s)
    <3>1. h - a \in 1..l /\ i < h - a /\ h - a < j /\ a + (h - a) = h
      BY <1>1, <2>3
    <3>2. r[h - a] = q[h]
      BY <1>1, <3>1
    <3>3. QED
      BY <2>1, <3>1, <3>2
  <2>4. q[a + j].chunk = At(q[a + i]) + 1
    BY <1>2, <2>1, <2>2, <2>3 DEF Consecutive
  <2>5. QED
    BY <2>2, <2>4
<1>3. ASSUME a + l = k, NEW n, UpTo(s, q, n) PROVE UpTo(s, r, n)
  <2>1. SUFFICES ASSUME NEW i \in 1..l, Shows(r[i], s), \A h \in 1..l : i < h => ~Shows(r[h], s)
                 PROVE  At(r[i]) = n
    BY DEF UpTo
  <2>2. a + i \in 1..k /\ r[i] = q[a + i]
    BY <1>1, <2>1
  <2>3. ASSUME NEW h \in 1..k, a + i < h PROVE ~Shows(q[h], s)
    <3>1. h - a \in 1..l /\ i < h - a /\ a + (h - a) = h
      BY <1>1, <1>3, <2>3
    <3>2. r[h - a] = q[h]
      BY <1>1, <3>1
    <3>3. QED
      BY <2>1, <3>1, <3>2
  <2>4. QED
    BY <1>3, <2>1, <2>2, <2>3 DEF UpTo
<1>4. ASSUME a = 0, NEW n, From(s, q, n) PROVE From(s, r, n)
  BY <1>1, <1>4 DEF From
<1>5. QED
  BY <1>2, <1>3, <1>4

\* One message more.
Longer(r, q, m) ==
  /\ Len(q) \in Nat /\ Len(r) = Len(q) + 1 /\ r[Len(q) + 1] = m
  /\ \A i \in 1..Len(q) : r[i] = q[i]

LEMMA LongerFacts ==
  ASSUME NEW s, NEW q, NEW r, NEW m, Longer(r, q, m)
  PROVE  /\ Consecutive(s, q) /\ (Prints(m, s) => UpTo(s, q, m.chunk - 1) /\ m.chunk \in Nat) => Consecutive(s, r)
         /\ \A n : UpTo(s, q, n) /\ ~Shows(m, s) => UpTo(s, r, n)
         /\ Shows(m, s) => UpTo(s, r, At(m))
         /\ \A n : From(s, q, n) /\ (Prints(m, s) /\ Silent(s, q) => m.chunk = n + 1) => From(s, r, n)
         /\ Silent(s, r) <=> Silent(s, q) /\ ~Shows(m, s)
<1> DEFINE k == Len(q)
<1>1. k \in Nat /\ Len(r) = k + 1 /\ r[k + 1] = m /\ \A i \in 1..k : r[i] = q[i] /\ i \in 1..(k + 1) /\ i < k + 1
  BY DEF Longer
<1>2. \A i \in 1..(k + 1) : i \in 1..k \/ i = k + 1
  BY <1>1
<1>3. ASSUME Consecutive(s, q), Prints(m, s) => UpTo(s, q, m.chunk - 1) /\ m.chunk \in Nat
      PROVE  Consecutive(s, r)
  BY <1>1, <1>2, <1>3 DEF Consecutive, UpTo
<1>4. ASSUME NEW n, UpTo(s, q, n), ~Shows(m, s) PROVE UpTo(s, r, n)
  BY <1>1, <1>2, <1>4 DEF UpTo
<1>5. ASSUME Shows(m, s) PROVE UpTo(s, r, At(m))
  BY <1>1, <1>2, <1>5 DEF UpTo
<1>6. ASSUME NEW n, From(s, q, n), Prints(m, s) /\ Silent(s, q) => m.chunk = n + 1 PROVE From(s, r, n)
  BY <1>1, <1>2, <1>6 DEF From, Silent
<1>7. Silent(s, r) <=> Silent(s, q) /\ ~Shows(m, s)
  BY <1>1, <1>2 DEF Silent
<1>8. QED
  BY <1>3, <1>4, <1>5, <1>6, <1>7

\* The first message is read.
LEMMA ReadFacts ==
  ASSUME NEW s, NEW q, NEW r, Window(r, q, 1), Len(q) > 0, Len(r) = Len(q) - 1
  PROVE  /\ \A n : From(s, q, n) /\ ~Shows(q[1], s) => From(s, r, n)
         /\ Consecutive(s, q) /\ Shows(q[1], s) => From(s, r, At(q[1]))
         /\ \A n : From(s, q, n) /\ Prints(q[1], s) => q[1].chunk = n + 1
         /\ Silent(s, r) /\ ~Shows(q[1], s) => Silent(s, q)
<1> DEFINE l == Len(r)
           k == Len(q)
<1>1. l \in Nat /\ k \in Nat /\ k = l + 1 /\ \A i \in 1..l : r[i] = q[1 + i] /\ 1 + i \in 1..k /\ 1 + i # 1
  BY DEF Window
<1>2. \A i \in 1..k : i = 1 \/ (i - 1 \in 1..l /\ 1 + (i - 1) = i /\ r[i - 1] = q[i])
  BY <1>1
<1>3. ASSUME NEW n, From(s, q, n), ~Shows(q[1], s) PROVE From(s, r, n)
  <2>1. SUFFICES ASSUME NEW j \in 1..l, Prints(r[j], s), \A h \in 1..l : h < j => ~Shows(r[h], s)
                 PROVE  r[j].chunk = n + 1
    BY DEF From
  <2>2. ASSUME NEW h \in 1..k, h < 1 + j PROVE ~Shows(q[h], s)
    BY <1>1, <1>2, <1>3, <2>1, <2>2
  <2>3. QED
    BY <1>1, <1>3, <2>1, <2>2 DEF From
<1>4. ASSUME Consecutive(s, q), Shows(q[1], s) PROVE From(s, r, At(q[1]))
  BY <1>1, <1>2, <1>4 DEF From, Consecutive
<1>5. ASSUME NEW n, From(s, q, n), Prints(q[1], s) PROVE q[1].chunk = n + 1
  BY <1>1, <1>5 DEF From
<1>6. ASSUME Silent(s, r), ~Shows(q[1], s) PROVE Silent(s, q)
  BY <1>1, <1>2, <1>6 DEF Silent
<1>7. QED
  BY <1>3, <1>4, <1>5, <1>6

\* Two messages go ahead that show nothing of s.
Ahead2(r, q) == Len(q) \in Nat /\ Len(r) = Len(q) + 2 /\ \A i \in 1..Len(q) : r[2 + i] = q[i]

LEMMA AheadFacts ==
  ASSUME NEW s, NEW q, NEW r, Ahead2(r, q), ~Shows(r[1], s), ~Shows(r[2], s)
  PROVE  /\ Consecutive(s, q) => Consecutive(s, r)
         /\ \A n : UpTo(s, q, n) => UpTo(s, r, n)
<1> DEFINE k == Len(q)
<1>1. k \in Nat /\ Len(r) = k + 2 /\ \A i \in 1..k : r[2 + i] = q[i] /\ 2 + i \in 1..(k + 2)
  BY DEF Ahead2
<1>2. ASSUME NEW i \in 1..(k + 2), Shows(r[i], s)
      PROVE  i - 2 \in 1..k /\ r[i] = q[i - 2] /\ 2 + (i - 2) = i
  BY <1>1, <1>2
<1>3. ASSUME Consecutive(s, q) PROVE Consecutive(s, r)
  <2>1. SUFFICES ASSUME NEW i \in 1..(k + 2), NEW j \in 1..(k + 2), i < j, Shows(r[i], s), Prints(r[j], s),
                        \A h \in 1..(k + 2) : i < h /\ h < j => ~Shows(r[h], s)
                 PROVE  r[j].chunk = At(r[i]) + 1
    BY <1>1 DEF Consecutive
  <2>2. Shows(r[j], s)
    BY <2>1 DEF Shows, Prints
  <2>3. i - 2 \in 1..k /\ r[i] = q[i - 2] /\ j - 2 \in 1..k /\ r[j] = q[j - 2] /\ i - 2 < j - 2
    BY <1>2, <2>1, <2>2
  <2>4. ASSUME NEW h \in 1..k, i - 2 < h, h < j - 2 PROVE ~Shows(q[h], s)
    <3>1. 2 + h \in 1..(k + 2) /\ i < 2 + h /\ 2 + h < j /\ r[2 + h] = q[h]
      BY <1>1, <2>4
    <3>2. QED
      BY <2>1, <3>1
  <2>5. QED
    BY <1>3, <2>1, <2>3, <2>4 DEF Consecutive
<1>4. ASSUME NEW n, UpTo(s, q, n) PROVE UpTo(s, r, n)
  <2>1. SUFFICES ASSUME NEW i \in 1..(k + 2), Shows(r[i], s), \A h \in 1..(k + 2) : i < h => ~Shows(r[h], s)
                 PROVE  At(r[i]) = n
    BY <1>1 DEF UpTo
  <2>2. i - 2 \in 1..k /\ r[i] = q[i - 2]
    BY <1>2, <2>1
  <2>3. ASSUME NEW h \in 1..k, i - 2 < h PROVE ~Shows(q[h], s)
    <3>1. 2 + h \in 1..(k + 2) /\ i < 2 + h /\ r[2 + h] = q[h]
      BY <1>1, <2>3
    <3>2. QED
      BY <2>1, <3>1
  <2>4. QED
    BY <1>4, <2>1, <2>2, <2>3 DEF UpTo
<1>5. QED
  BY <1>3, <1>4

-----------------------------------------------------------------------------
(***************************************************************************)
(* What a page may show of a session s once it has read a queue.           *)
(***************************************************************************)
Views == [up : BOOLEAN, has : BOOLEAN, restoring : BOOLEAN, follows : BOOLEAN, shown : 0..MaxChunks]

\* Nothing that arrives is added to the grid.
Quiet(x) == ~x.has \/ x.restoring

\* m leaves no gap on the grid.
Ahead(s, x, m) == Prints(m, s) => Quiet(x) \/ m.chunk = x.shown + 1

\* The page reads m, or loses the tab on the way.
Moves(s, x, m, y) ==
  /\ y.up = IF m.is = "status" THEN m.connected ELSE x.up
  /\ \/ ~y.has
     \/ Names(m, s) /\ x.up /\ ~(x.has /\ x.follows) /\ y.restoring /\ y.follows
     \/ /\ x.has /\ ~(Names(m, s) /\ x.up /\ ~x.follows)
        /\ y.restoring = (x.restoring /\ ~(m.is = "dump" /\ m.id = s))
        /\ y.follows = (x.follows /\ ~(m.is = "status" /\ ~m.connected)
                                  /\ ~(m.is = "list" /\ x.up /\ s \notin m.ids))
        /\ y.shown = IF Shows(m, s) /\ ~(m.is = "output" /\ x.restoring) THEN At(m) ELSE x.shown

\* A page that shows one of X reads q without a gap, and ends with one of E.
Reads(s, X, q, E, R) ==
  /\ R \in [0..Len(q) -> SUBSET Views]
  /\ X \subseteq R[0]
  /\ \A k \in 0..Len(q) : k < Len(q) =>
       \A x \in R[k] : /\ Ahead(s, x, q[k + 1])
                       /\ \A y \in Views : Moves(s, x, q[k + 1], y) => y \in R[k + 1]
  /\ R[Len(q)] \subseteq E

Sound(s, X, q, E) == \E R : Reads(s, X, q, E, R)

LEMMA SoundEmpty ==
  ASSUME NEW s, NEW X \in SUBSET Views, NEW E, X \subseteq E, NEW q, Len(q) = 0
  PROVE  Sound(s, X, q, E)
<1> DEFINE R == [k \in 0..0 |-> X]
<1>1. R \in [0..0 -> SUBSET Views] /\ R[0] = X /\ \A k \in 0..0 : ~(k < 0)
  OBVIOUS
<1> HIDE DEF R
<1>2. Reads(s, X, q, E, R)
  BY <1>1 DEF Reads
<1>3. QED
  BY <1>2 DEF Sound

LEMMA SoundWeaker ==
  ASSUME NEW s, NEW X, NEW Y, Y \subseteq X, NEW q, NEW E, NEW F, Len(q) \in Nat,
         \A x \in Views : x \in E => x \in F, Sound(s, X, q, E)
  PROVE  Sound(s, Y, q, F)
BY DEF Sound, Reads

\* One message more.
LEMMA SoundLonger ==
  ASSUME NEW s, NEW X, NEW q, NEW r, NEW m, Longer(r, q, m), NEW E, NEW F, Sound(s, X, q, E),
         \A x \in Views : x \in E => /\ Ahead(s, x, m)
                                     /\ \A y \in Views : Moves(s, x, m, y) => y \in F
  PROVE  Sound(s, X, r, F)
<1>1. PICK R : Reads(s, X, q, E, R)
  BY DEF Sound
<1> DEFINE l == Len(q)
           end == {y \in Views : \E x \in R[l] : Moves(s, x, m, y)}
           T == [k \in 0..(l + 1) |-> IF k = l + 1 THEN end ELSE R[k]]
<1>2. l \in Nat /\ Len(r) = l + 1 /\ r[l + 1] = m /\ \A i \in 1..l : r[i] = q[i]
  BY DEF Longer
<1>3. R \in [0..l -> SUBSET Views] /\ X \subseteq R[0] /\ R[l] \subseteq E
  BY <1>1 DEF Reads
<1>4. \A k \in 0..(l + 1) : k = l + 1 \/ (k \in 0..l /\ k # l + 1)
  BY <1>2
<1>5. T \in [0..(l + 1) -> SUBSET Views] /\ \A k \in 0..l : T[k] = R[k]
  BY <1>2, <1>3, <1>4
<1>6. T[l + 1] = end /\ T[0] = R[0]
  BY <1>2
<1> HIDE DEF T
<1>7. end \subseteq F
  BY <1>2, <1>3
<1>8. ASSUME NEW k \in 0..(l + 1), k < l + 1, NEW x \in T[k]
      PROVE  Ahead(s, x, r[k + 1]) /\ \A y \in Views : Moves(s, x, r[k + 1], y) => y \in T[k + 1]
  BY <1>1, <1>2, <1>3, <1>5, <1>6, <1>8 DEF Reads
<1>9. Reads(s, X, r, F, T)
  BY <1>2, <1>3, <1>5, <1>6, <1>7, <1>8 DEF Reads
<1>10. QED
  BY <1>9 DEF Sound

\* The first message is read.
LEMMA SoundRead ==
  ASSUME NEW s, NEW X, NEW Y, NEW q, NEW r, Window(r, q, 1), Len(q) > 0, Len(r) = Len(q) - 1,
         NEW E, Sound(s, X, q, E),
         \A y \in Y : y \in Views /\ \E x \in X : Moves(s, x, q[1], y)
  PROVE  Sound(s, Y, r, E) /\ \A x \in X : Ahead(s, x, q[1])
<1>1. PICK R : Reads(s, X, q, E, R)
  BY DEF Sound
<1> DEFINE l == Len(r)
           T == [k \in 0..l |-> R[k + 1]]
<1>2. l \in Nat /\ Len(q) = l + 1 /\ \A i \in 1..l : r[i] = q[1 + i]
  BY DEF Window
<1>3. R \in [0..(l + 1) -> SUBSET Views] /\ X \subseteq R[0] /\ R[l + 1] \subseteq E
  BY <1>1, <1>2 DEF Reads
<1>4. \A k \in 0..l : k + 1 \in 0..(l + 1) /\ k + 1 < l + 1 + 1
  BY <1>2
<1>5. T \in [0..l -> SUBSET Views]
  BY <1>3, <1>4
<1>6. \A k \in 0..l : T[k] = R[k + 1]
  OBVIOUS
<1> HIDE DEF T
<1>7. 0 \in 0..l /\ l \in 0..l /\ 0 + 1 = 1 /\ 0 \in 0..Len(q) /\ 0 < Len(q)
  BY <1>2
<1>8. \A x \in R[0] : Ahead(s, x, q[1]) /\ \A y \in Views : Moves(s, x, q[1], y) => y \in R[1]
  BY <1>1, <1>7 DEF Reads
<1>9. Y \subseteq T[0]
  BY <1>3, <1>6, <1>7, <1>8
<1>10. ASSUME NEW k \in 0..l, k < l, NEW x \in T[k]
       PROVE  Ahead(s, x, r[k + 1]) /\ \A y \in Views : Moves(s, x, r[k + 1], y) => y \in T[k + 1]
  BY <1>1, <1>2, <1>6, <1>10 DEF Reads
<1>11. Reads(s, Y, r, E, T)
  BY <1>3, <1>5, <1>6, <1>7, <1>9, <1>10 DEF Reads
<1>12. QED
  BY <1>3, <1>8, <1>11 DEF Sound

\* A new tab, of a session no message is about.
Fresh(x) == x.has /\ ~x.restoring /\ x.shown = 0

LEMMA SoundFresh ==
  ASSUME NEW s, NEW X, NEW Y, NEW q, NEW E, NEW F, Sound(s, X, q, E), Len(q) \in Nat,
         \A i \in 1..Len(q) : ~Shows(q[i], s) /\ ~Names(q[i], s),
         \A y \in Y : y \in Views /\ (y \in X \/ (Fresh(y) /\ \E x \in X : ~x.has /\ x.up = y.up)),
         \A y \in Views : y \in E \/ (Fresh(y) /\ \E x \in Views : x \in E /\ ~x.has /\ x.up = y.up) => y \in F
  PROVE  Sound(s, Y, q, F)
<1>1. PICK R : Reads(s, X, q, E, R)
  BY DEF Sound
<1> DEFINE l == Len(q)
           new(k) == {y \in Views : y \in R[k] \/ (Fresh(y) /\ \E x \in R[k] : ~x.has /\ x.up = y.up)}
           T == [k \in 0..l |-> new(k)]
<1>2. R \in [0..l -> SUBSET Views] /\ X \subseteq R[0] /\ R[l] \subseteq E /\ 0 \in 0..l /\ l \in 0..l
  BY <1>1 DEF Reads
<1>3. T \in [0..l -> SUBSET Views] /\ \A k \in 0..l : T[k] = new(k)
  OBVIOUS
<1> HIDE DEF T
<1>4. Y \subseteq T[0]
  BY <1>2, <1>3
<1>5. T[l] \subseteq F
  BY <1>2, <1>3
<1>6. ASSUME NEW k \in 0..l, k < l, NEW y \in T[k]
      PROVE  Ahead(s, y, q[k + 1]) /\ \A z \in Views : Moves(s, y, q[k + 1], z) => z \in T[k + 1]
  <2>1. k + 1 \in 1..l /\ k + 1 \in 0..l
    BY <1>6
  <2>2. ~Shows(q[k + 1], s) /\ ~Names(q[k + 1], s) /\ ~Prints(q[k + 1], s)
    BY <2>1 DEF Shows, Prints
  <2>3. y \in Views /\ (y \in R[k] \/ (Fresh(y) /\ \E x \in R[k] : ~x.has /\ x.up = y.up)) /\ T[k + 1] = new(k + 1)
    BY <1>3, <2>1
  <2>4. \A x \in R[k] : x \in Views /\ \A z \in Views : Moves(s, x, q[k + 1], z) => z \in R[k + 1]
    BY <1>1, <1>2, <1>6 DEF Reads
  <2>5. Ahead(s, y, q[k + 1])
    BY <2>2 DEF Ahead
  <2>6. ASSUME NEW z \in Views, Moves(s, y, q[k + 1], z) PROVE z \in new(k + 1)
    <3>1. CASE y \in R[k]
      BY <2>4, <2>6, <3>1
    <3>2. ASSUME Fresh(y), NEW x \in R[k], ~x.has, x.up = y.up PROVE z \in new(k + 1)
      <4>1. z.up = IF q[k + 1].is = "status" THEN q[k + 1].connected ELSE x.up
        BY <2>6, <3>2 DEF Moves
      <4>2. CASE ~z.has
        BY <2>4, <4>1, <4>2 DEF Moves
      <4>3. CASE z.has
        <5>1. y.has /\ z.restoring = (y.restoring /\ ~(q[k + 1].is = "dump" /\ q[k + 1].id = s))
              /\ z.shown = y.shown
          BY <2>2, <2>6, <4>3 DEF Moves
        <5>2. Fresh(z)
          BY <3>2, <4>3, <5>1 DEF Fresh
        <5> DEFINE w == [up |-> z.up, has |-> FALSE, restoring |-> FALSE, follows |-> FALSE, shown |-> 0]
        <5>3. w \in Views /\ ~w.has /\ w.up = z.up
          BY Bounds DEF Views
        <5>4. Moves(s, x, q[k + 1], w)
          BY <4>1, <5>3 DEF Moves
        <5>5. w \in R[k + 1]
          BY <2>4, <5>3, <5>4
        <5>6. QED
          BY <5>2, <5>3, <5>5
      <4>4. QED
        BY <4>2, <4>3
    <3>3. QED
      BY <2>3, <3>1, <3>2
  <2>7. QED
    BY <2>3, <2>5, <2>6
<1>7. Reads(s, Y, q, F, T)
  BY <1>3, <1>4, <1>5, <1>6 DEF Reads
<1>8. QED
  BY <1>7 DEF Sound

-----------------------------------------------------------------------------
(***************************************************************************)
(* What is in a queue.                                                     *)
(***************************************************************************)
Msgs(q) == {q[i] : i \in 1..Len(q)}

\* No output of s comes after its end.
Final(s, q) == \A i, j \in 1..Len(q) : i < j /\ Closes(q[i], s) => ~Prints(q[j], s)

HasOutput(s, q) == \E m \in Msgs(q) : Prints(m, s)
HasEnd(s, q) == \E m \in Msgs(q) : Closes(m, s)
Mute(s, q) == \A m \in Msgs(q) : ~Speaks(m, s)
Blank(s, q) == \A m \in Msgs(q) : ~Shows(m, s) /\ ~Names(m, s)
Named(s, q) == \E m \in Msgs(q) : Names(m, s)
Asked(s, q) == Command("scrollback", s) \in Msgs(q)
Begun(s, q) == Command("spawn", s) \in Msgs(q)
Once(m, q) == \A i, j \in 1..Len(q) : q[i] = m /\ q[j] = m => i = j

LEMMA MsgsEmpty == Msgs(<<>>) = {} /\ \A m : Once(m, <<>>)
BY DEF Msgs, Once

LEMMA MsgsAppend ==
  ASSUME NEW S, NEW q \in Seq(S), NEW m \in S
  PROVE  /\ Msgs(Append(q, m)) = Msgs(q) \cup {m} /\ Longer(Append(q, m), q, m)
         /\ \A n : Once(n, q) /\ (n = m => n \notin Msgs(q)) => Once(n, Append(q, m))
BY AppendFacts DEF Msgs, Longer, Once

LEMMA MsgsTail ==
  ASSUME NEW S, NEW q \in Seq(S), q # <<>>
  PROVE  /\ Head(q) \in Msgs(q) /\ Head(q) = q[1] /\ Msgs(Tail(q)) \subseteq Msgs(q)
         /\ Window(Tail(q), q, 1) /\ Len(q) \in Nat /\ Len(q) > 0 /\ Len(Tail(q)) = Len(q) - 1
         /\ \A m \in Msgs(q) : m = Head(q) \/ m \in Msgs(Tail(q))
         /\ \A m : Once(m, q) => Once(m, Tail(q)) /\ (Head(q) = m => m \notin Msgs(Tail(q)))
<1>1. /\ Len(q) \in Nat /\ Len(q) > 0 /\ Head(q) = q[1]
      /\ Len(Tail(q)) = Len(q) - 1
      /\ \A i \in 1..(Len(q) - 1) : Tail(q)[i] = q[i + 1]
  BY HeadFacts
<1>2. PICK r : r = Tail(q)
  OBVIOUS
<1>3. PICK k : k = Len(q)
  OBVIOUS
<1>4. /\ k \in Nat /\ k > 0 /\ Len(r) = k - 1 /\ \A i \in 1..(k - 1) : r[i] = q[i + 1]
  BY <1>1, <1>2, <1>3
<1>5. \A i \in 1..(k - 1) : i + 1 \in 1..k /\ 1 + i = i + 1 /\ i + 1 # 1
  BY <1>4
<1>6. \A i \in 1..k : i = 1 \/ (i - 1 \in 1..(k - 1) /\ (i - 1) + 1 = i)
  BY <1>4
<1>7. 1 \in 1..k
  BY <1>4
<1>8. Msgs(r) \subseteq Msgs(q)
  BY <1>3, <1>4, <1>5 DEF Msgs
<1>9. q[1] \in Msgs(q)
  BY <1>3, <1>7 DEF Msgs
<1>10. Window(r, q, 1)
  BY <1>3, <1>4, <1>5 DEF Window
<1>11. ASSUME NEW m \in Msgs(q) PROVE m = q[1] \/ m \in Msgs(r)
  <2>1. PICK i \in 1..k : m = q[i]
    BY <1>3, <1>11 DEF Msgs
  <2>2. CASE i - 1 \in 1..(k - 1) /\ (i - 1) + 1 = i
    BY <1>4, <2>1, <2>2 DEF Msgs
  <2>3. QED
    BY <1>6, <2>1, <2>2
<1>12. ASSUME NEW m, Once(m, q) PROVE Once(m, r) /\ (q[1] = m => m \notin Msgs(r))
  <2>1. \A i, j \in 1..k : q[i] = m /\ q[j] = m => i = j
    BY <1>3, <1>12 DEF Once
  <2>2. \A i, j \in 1..(k - 1) : r[i] = m /\ r[j] = m => i + 1 = j + 1
    <3>1. ASSUME NEW i \in 1..(k - 1), NEW j \in 1..(k - 1), r[i] = m, r[j] = m PROVE i + 1 = j + 1
      <4>1. i + 1 \in 1..k /\ j + 1 \in 1..k /\ q[i + 1] = m /\ q[j + 1] = m
        BY <1>4, <1>5, <3>1
      <4>2. QED
        BY <2>1, <4>1
    <3>2. QED
      BY <3>1
  <2>3. \A i, j \in 1..(k - 1) : i + 1 = j + 1 => i = j
    BY <1>4
  <2>4. Once(m, r)
    BY <1>4, <2>2, <2>3 DEF Once
  <2>5. ASSUME q[1] = m, m \in Msgs(r) PROVE FALSE
    <3>1. PICK i \in 1..(k - 1) : m = r[i]
      BY <1>4, <2>5 DEF Msgs
    <3>2. q[i + 1] = m /\ i + 1 \in 1..k /\ i + 1 # 1
      BY <1>4, <1>5, <3>1
    <3>3. QED
      BY <1>7, <2>1, <2>5, <3>2
  <2>6. QED
    BY <2>4, <2>5
<1>13. QED
  BY <1>1, <1>2, <1>3, <1>4, <1>8, <1>9, <1>10, <1>11, <1>12

LEMMA MsgsConcat ==
  ASSUME NEW S, NEW q \in Seq(S), NEW u \in Seq(S)
  PROVE  /\ Msgs(q \o u) = Msgs(q) \cup Msgs(u)
         /\ Window(q, q \o u, 0) /\ Window(u, q \o u, Len(q)) /\ Len(q \o u) = Len(q) + Len(u)
         /\ \A m : Once(m, q) /\ m \notin Msgs(u) => Once(m, q \o u)
<1>1. /\ Len(q) \in Nat /\ Len(u) \in Nat /\ Len(q \o u) = Len(q) + Len(u)
      /\ \A i \in 1..Len(q) : (q \o u)[i] = q[i]
      /\ \A i \in 1..Len(u) : (q \o u)[Len(q) + i] = u[i]
  BY ConcatFacts
<1>2. PICK r : r = q \o u
  OBVIOUS
<1>3. PICK k, l : k = Len(q) /\ l = Len(u)
  OBVIOUS
<1>4. /\ k \in Nat /\ l \in Nat /\ Len(r) = k + l
      /\ \A i \in 1..k : r[i] = q[i]
      /\ \A i \in 1..l : r[k + i] = u[i]
  BY <1>1, <1>2, <1>3
<1>5. \A i \in 1..(k + l) : i \in 1..k \/ (i - k \in 1..l /\ k + (i - k) = i)
  BY <1>4
<1>6. \A i \in 1..k : i \in 1..(k + l)
  BY <1>4
<1>7. \A i \in 1..l : k + i \in 1..(k + l)
  BY <1>4
<1>8. \A i \in 1..(k + l) : r[i] \in Msgs(q) \cup Msgs(u) /\ (r[i] \notin Msgs(u) => i \in 1..k)
  <2>1. ASSUME NEW i \in 1..(k + l) PROVE r[i] \in Msgs(q) \cup Msgs(u) /\ (r[i] \notin Msgs(u) => i \in 1..k)
    <3>1. CASE i \in 1..k
      BY <1>3, <1>4, <3>1 DEF Msgs
    <3>2. CASE i - k \in 1..l /\ k + (i - k) = i
      BY <1>3, <1>4, <3>2 DEF Msgs
    <3>3. QED
      BY <1>5, <3>1, <3>2
  <2>2. QED
    BY <2>1
<1>9. Msgs(r) = Msgs(q) \cup Msgs(u)
  <2>1. Msgs(r) \subseteq Msgs(q) \cup Msgs(u)
    BY <1>4, <1>8 DEF Msgs
  <2>2. \A m \in Msgs(q) : m \in Msgs(r)
    BY <1>3, <1>4, <1>6 DEF Msgs
  <2>3. \A m \in Msgs(u) : m \in Msgs(r)
    BY <1>3, <1>4, <1>7 DEF Msgs
  <2>4. QED
    BY <2>1, <2>2, <2>3
<1>10. Window(q, r, 0)
  BY <1>3, <1>4 DEF Window
<1>11. Window(u, r, k)
  BY <1>3, <1>4 DEF Window
<1>12. ASSUME NEW m, Once(m, q), m \notin Msgs(u) PROVE Once(m, r)
  BY <1>3, <1>4, <1>8, <1>12 DEF Once
<1>13. QED
  BY <1>1, <1>2, <1>3, <1>9, <1>10, <1>11, <1>12

\* Of a part of a queue, and of a queue one longer.
LEMMA PartFacts ==
  ASSUME NEW s, NEW q, NEW r, NEW a, Window(r, q, a)
  PROVE  /\ Msgs(r) \subseteq Msgs(q)
         /\ Final(s, q) => Final(s, r)
         /\ HasOutput(s, r) => HasOutput(s, q)
         /\ HasEnd(s, r) => HasEnd(s, q)
         /\ Mute(s, q) => Mute(s, r)
<1> DEFINE l == Len(r)
           k == Len(q)
<1>1. a \in Nat /\ l \in Nat /\ k \in Nat /\ a + l <= k /\ \A i \in 1..l : r[i] = q[a + i] /\ a + i \in 1..k
  BY DEF Window
<1>2. Msgs(r) \subseteq Msgs(q)
  BY <1>1 DEF Msgs
<1>3. ASSUME Final(s, q) PROVE Final(s, r)
  <2>1. ASSUME NEW i \in 1..l, NEW j \in 1..l, i < j, Closes(r[i], s) PROVE ~Prints(r[j], s)
    <3>1. a + i \in 1..k /\ a + j \in 1..k /\ a + i < a + j /\ r[i] = q[a + i] /\ r[j] = q[a + j]
      BY <1>1, <2>1
    <3>2. QED
      BY <1>3, <2>1, <3>1 DEF Final
  <2>2. QED
    BY <2>1 DEF Final
<1>4. QED
  BY <1>2, <1>3 DEF HasOutput, HasEnd, Mute

LEMMA GrownFacts ==
  ASSUME NEW s, NEW q, NEW r, NEW m, Longer(r, q, m)
  PROVE  /\ Msgs(r) = Msgs(q) \cup {m}
         /\ Final(s, q) /\ (Prints(m, s) => ~HasEnd(s, q)) => Final(s, r)
         /\ HasOutput(s, r) <=> HasOutput(s, q) \/ Prints(m, s)
         /\ HasEnd(s, r) <=> HasEnd(s, q) \/ Closes(m, s)
         /\ Mute(s, q) /\ ~Speaks(m, s) => Mute(s, r)
<1> DEFINE k == Len(q)
<1>1. k \in Nat /\ Len(r) = k + 1 /\ r[k + 1] = m /\ \A i \in 1..k : r[i] = q[i] /\ i \in 1..(k + 1) /\ i < k + 1
  BY DEF Longer
<1>2. \A i \in 1..(k + 1) : i \in 1..k \/ i = k + 1
  BY <1>1
<1>3. k + 1 \in 1..(k + 1)
  BY <1>1
<1>4. Msgs(r) = Msgs(q) \cup {m}
  BY <1>1, <1>2, <1>3 DEF Msgs
<1>5. ASSUME Final(s, q), Prints(m, s) => ~HasEnd(s, q) PROVE Final(s, r)
  BY <1>1, <1>2, <1>5 DEF Final, HasEnd, Msgs
<1>6. QED
  BY <1>4, <1>5 DEF HasOutput, HasEnd, Mute

LEMMA EmptyStream ==
  ASSUME NEW s
  PROVE  /\ Consecutive(s, <<>>) /\ Final(s, <<>>) /\ Silent(s, <<>>) /\ Mute(s, <<>>) /\ Blank(s, <<>>)
         /\ ~HasOutput(s, <<>>) /\ ~HasEnd(s, <<>>) /\ ~Named(s, <<>>) /\ ~Asked(s, <<>>) /\ ~Begun(s, <<>>)
         /\ \A n : UpTo(s, <<>>, n) /\ From(s, <<>>, n)
<1>1. 1..Len(<<>>) = {} /\ Msgs(<<>>) = {}
  BY MsgsEmpty
<1>2. QED
  BY <1>1 DEF Consecutive, Final, Silent, Mute, Blank, HasOutput, HasEnd, Named, Asked, Begun, UpTo, From

LEMMA MuteIs ==
  ASSUME NEW s, NEW q, Mute(s, q)
  PROVE  /\ Silent(s, q) /\ ~HasOutput(s, q) /\ ~HasEnd(s, q)
         /\ \A n : UpTo(s, q, n) /\ From(s, q, n)
BY DEF Mute, Speaks, Shows, Prints, Closes, Msgs, Silent, HasOutput, HasEnd, UpTo, From

\* Without output there is nothing to be missed.
LEMMA QuietIs ==
  ASSUME NEW s, NEW q, ~HasOutput(s, q)
  PROVE  \A n : From(s, q, n)
BY DEF HasOutput, Msgs, From

-----------------------------------------------------------------------------
(***************************************************************************)
(* What reaches the pages that are told of something.                      *)
(***************************************************************************)
Told(p, R, ms, subs) ==
  /\ p \notin R => /\ toPage'[p] = toPage[p] /\ link'[p] = link[p]
                   /\ p \in DOMAIN subscribed' <=> p \in DOMAIN subs
  /\ p \in R =>
       \/ /\ p \in DOMAIN subscribed' <=> p \in DOMAIN subs
          /\ link'[p] = link[p] /\ toPage'[p] = toPage[p] \o ms
       \/ /\ p \notin DOMAIN subscribed' /\ link'[p] = "dropped"
          /\ \E k \in Nat : k < Len(ms) /\ toPage'[p] = toPage[p] \o SubSeq(ms, 1, k)
  /\ p \in DOMAIN subscribed' => p \in DOMAIN subs /\ subscribed'[p] = subs[p]

LEMMA NotifyFacts ==
  ASSUME Typed, NEW R \in SUBSET DOMAIN subscribed, NEW ms \in Seq(AgentMessage), NEW T, NEW subs,
         Maps(subs, Pages, T), Notify(R, ms, subs), NEW p \in Pages
  PROVE  Told(p, R, ms, subs)
<1> DEFINE full == {q \in R : Len(toPage[q]) + Len(ms) > ChanCap}
           room(q) == IF q \in full THEN ChanCap - Len(toPage[q]) ELSE Len(ms)
<1>1. toPage[p] \in Seq(AgentMessage) /\ Len(toPage[p]) \in Nat /\ Len(toPage[p]) <= ChanCap
  BY SeqFacts DEF Typed, WiresTyped
<1>2. Len(ms) \in Nat /\ ChanCap \in Nat
  BY SeqFacts, Bounds
<1>3. toPage'[p] = IF p \in R THEN toPage[p] \o SubSeq(ms, 1, room(p)) ELSE toPage[p]
  BY DEF Notify
<1>4. link'[p] = (IF p \in full THEN "dropped" ELSE link[p]) /\ subscribed' = Without(subs, full)
  BY DEF Notify
<1>5. DOMAIN subscribed' = DOMAIN subs \ full /\ \A q \in DOMAIN subs \ full : subscribed'[q] = subs[q]
  <2> HIDE DEF full
  <2>1. DOMAIN Without(subs, full) = DOMAIN subs \ full /\ \A q \in DOMAIN subs \ full : Without(subs, full)[q] = subs[q]
    BY DEF Maps, Without, Restrict
  <2>2. QED
    BY <1>4, <2>1
<1>6. full \subseteq R
  OBVIOUS
<1>7. CASE p \notin R
  <2>1. p \notin full
    BY <1>6, <1>7
  <2> HIDE DEF full, room
  <2>2. QED
    BY <1>3, <1>4, <1>5, <1>7, <2>1 DEF Told
<1>8. CASE p \in R /\ p \notin full
  <2>1. room(p) = Len(ms)
    BY <1>8
  <2>2. SubSeq(ms, 1, Len(ms)) = ms
    BY <1>2, PrefixFacts, SeqEqual
  <2> HIDE DEF full, room
  <2>3. toPage'[p] = toPage[p] \o ms
    BY <1>3, <1>8, <2>1, <2>2
  <2>4. QED
    BY <1>4, <1>5, <1>8, <2>3 DEF Told
<1>9. CASE p \in full
  <2>1. p \in R /\ Len(toPage[p]) + Len(ms) > ChanCap /\ room(p) = ChanCap - Len(toPage[p])
    BY <1>9
  <2>2. room(p) \in Nat /\ room(p) < Len(ms)
    BY <1>1, <1>2, <2>1
  <2> HIDE DEF full, room
  <2>3. toPage'[p] = toPage[p] \o SubSeq(ms, 1, room(p))
    BY <1>3, <2>1
  <2>4. QED
    BY <1>4, <1>5, <1>9, <2>1, <2>2, <2>3 DEF Told
<1>10. QED
  BY <1>6, <1>7, <1>8, <1>9

\* Nothing is added to a queue.
LEMMA NothingMore ==
  ASSUME NEW S, NEW q \in Seq(S)
  PROVE  q \o <<>> = q
BY ConcatEmptySeq

\* One message for the pages of R.
LEMMA TellOne ==
  ASSUME Typed, NEW R \in SUBSET DOMAIN subscribed, NEW m \in AgentMessage, NEW T, NEW subs,
         Maps(subs, Pages, T), Notify(R, <<m>>, subs), NEW p \in Pages
  PROVE  \/ toPage'[p] = toPage[p] /\ (p \notin R \/ p \notin DOMAIN subscribed')
         \/ p \in R /\ Longer(toPage'[p], toPage[p], m)
<1>1. <<m>> \in Seq(AgentMessage) /\ Len(<<m>>) = 1 /\ <<m>>[1] = m
  BY OneOf
<1>2. toPage[p] \in Seq(AgentMessage)
  BY DEF Typed, WiresTyped
<1>3. CASE p \notin R
  BY <1>1, <1>3, NotifyFacts DEF Told
<1>4. CASE p \in R /\ toPage'[p] = toPage[p] \o <<m>>
  <2>1. /\ Len(toPage[p]) \in Nat /\ Len(toPage[p] \o <<m>>) = Len(toPage[p]) + 1
        /\ \A i \in 1..Len(toPage[p]) : (toPage[p] \o <<m>>)[i] = toPage[p][i]
        /\ \A i \in 1..1 : (toPage[p] \o <<m>>)[Len(toPage[p]) + i] = <<m>>[i]
    <3> DEFINE u == <<m>>
    <3>1. u \in Seq(AgentMessage) /\ Len(u) = 1
      BY <1>1
    <3> HIDE DEF u
    <3>2. /\ Len(toPage[p]) \in Nat /\ Len(toPage[p] \o u) = Len(toPage[p]) + Len(u)
          /\ \A i \in 1..Len(toPage[p]) : (toPage[p] \o u)[i] = toPage[p][i]
          /\ \A i \in 1..Len(u) : (toPage[p] \o u)[Len(toPage[p]) + i] = u[i]
      BY <1>2, <3>1, ConcatFacts
    <3>3. QED
      BY <3>1, <3>2 DEF u
  <2>2. Longer(toPage[p] \o <<m>>, toPage[p], m)
    BY <1>1, <2>1 DEF Longer
  <2>3. QED
    BY <1>4, <2>2
<1>5. ASSUME p \in R, p \notin DOMAIN subscribed', NEW k \in Nat, k < 1, toPage'[p] = toPage[p] \o SubSeq(<<m>>, 1, k)
      PROVE  toPage'[p] = toPage[p]
  <2>1. k = 0
    BY <1>5
  <2>2. SubSeq(<<m>>, 1, 0) = <<>>
    OBVIOUS
  <2>3. QED
    BY <1>2, <1>5, <2>1, <2>2, NothingMore
<1>6. QED
  <2> DEFINE u == <<m>>
  <2>1. u \in Seq(AgentMessage) /\ Len(u) = 1 /\ Notify(R, u, subs)
    BY <1>1
  <2>2. Told(p, R, u, subs)
    <3> HIDE DEF u
    <3>1. QED
      BY <2>1, NotifyFacts
  <2>3. QED
    BY <1>3, <1>4, <1>5, <2>1, <2>2 DEF Told

\* Two messages.
LEMMA TellTwo ==
  ASSUME Typed, NEW R \in SUBSET DOMAIN subscribed, NEW m \in AgentMessage, NEW n \in AgentMessage, NEW T, NEW subs,
         Maps(subs, Pages, T), Notify(R, <<m, n>>, subs), NEW p \in Pages
  PROVE  \/ toPage'[p] = toPage[p] /\ (p \notin R \/ p \notin DOMAIN subscribed')
         \/ p \in R /\ p \notin DOMAIN subscribed' /\ Longer(toPage'[p], toPage[p], m)
         \/ p \in R /\ \E z : Len(z) \in Nat /\ Longer(z, toPage[p], m) /\ Longer(toPage'[p], z, n)
<1> DEFINE u == <<m, n>>
<1>1. u \in Seq(AgentMessage) /\ Len(u) = 2 /\ u[1] = m /\ u[2] = n /\ Notify(R, u, subs)
  OBVIOUS
<1>2. SubSeq(u, 1, 0) = <<>> /\ SubSeq(u, 1, 1) = <<m>>
  <2>1. SubSeq(u, 1, 0) = <<>>
    OBVIOUS
  <2>2. SubSeq(u, 1, 1) \in Seq(AgentMessage) /\ Len(SubSeq(u, 1, 1)) = 1 /\ SubSeq(u, 1, 1)[1] = m
    <3> HIDE DEF u
    <3>1. 1 \in Nat /\ 1 <= Len(u) /\ 1 \in 1..1
      BY <1>1
    <3>2. QED
      BY <1>1, <3>1, PrefixFacts
  <2>3. <<m>> \in Seq(AgentMessage) /\ Len(<<m>>) = 1 /\ <<m>>[1] = m
    BY OneOf
  <2>4. \A i \in 1..1 : i = 1
    OBVIOUS
  <2>5. SubSeq(u, 1, 1) = <<m>>
    <3> HIDE DEF u
    <3>1. PICK a : a = SubSeq(u, 1, 1)
      OBVIOUS
    <3>2. PICK b : b = <<m>>
      OBVIOUS
    <3>3. a \in Seq(AgentMessage) /\ b \in Seq(AgentMessage) /\ Len(a) = Len(b) /\ \A i \in 1..Len(a) : a[i] = b[i]
      BY <2>2, <2>3, <2>4, <3>1, <3>2
    <3>4. a = b
      BY <3>3, SeqEqual
    <3>5. QED
      BY <3>1, <3>2, <3>4
  <2>6. QED
    BY <2>1, <2>5
<1> HIDE DEF u
<1>4. toPage[p] \in Seq(AgentMessage)
  BY DEF Typed, WiresTyped
<1>5. CASE p \notin R
  BY <1>1, <1>5, NotifyFacts DEF Told
<1>6. CASE p \in R /\ toPage'[p] = toPage[p] \o u
  <2> DEFINE q == toPage[p]
             z == Append(q, m)
  <2>1. z \in Seq(AgentMessage) /\ Longer(z, q, m) /\ Longer(Append(z, n), z, n)
    BY <1>4, MsgsAppend, AppendFacts
  <2>2. toPage'[p] = Append(z, n)
    BY <1>4, <1>6 DEF u
  <2>3. Len(z) \in Nat
    BY <2>1, SeqFacts
  <2>4. QED
    BY <1>6, <2>1, <2>2, <2>3
<1>7. ASSUME p \in R, p \notin DOMAIN subscribed', NEW k \in Nat, k < 2, toPage'[p] = toPage[p] \o SubSeq(u, 1, k)
      PROVE  toPage'[p] = toPage[p] \/ Longer(toPage'[p], toPage[p], m)
  <2>1. k = 0 \/ k = 1
    BY <1>7
  <2>2. CASE k = 0
    BY <1>2, <1>4, <1>7, <2>2, NothingMore
  <2>3. CASE k = 1
    <3>1. toPage'[p] = toPage[p] \o <<m>>
      BY <1>2, <1>7, <2>3
    <3>2. toPage[p] \o <<m>> = Append(toPage[p], m)
      BY <1>4
    <3>3. QED
      <4>1. Longer(Append(toPage[p], m), toPage[p], m)
        BY <1>4, MsgsAppend
      <4>2. QED
        BY <3>1, <3>2, <4>1
  <2>4. QED
    BY <2>1, <2>2, <2>3
<1>8. QED
  <2>1. Told(p, R, u, subs)
    BY <1>1, NotifyFacts
  <2>2. QED
    BY <1>1, <1>5, <1>6, <1>7, <2>1 DEF Told

\* Who stays connected.
LEMMA TellLinks ==
  ASSUME Typed, NEW R \in SUBSET DOMAIN subscribed, NEW ms \in Seq(AgentMessage), NEW T, NEW subs,
         Maps(subs, Pages, T), DOMAIN subs = DOMAIN subscribed, Notify(R, ms, subs), NEW p \in Pages
  PROVE  /\ p \in DOMAIN subscribed' => p \in DOMAIN subscribed /\ subscribed'[p] = subs[p]
         /\ (p \in DOMAIN subscribed <=> link[p] = "up") => (p \in DOMAIN subscribed' <=> link'[p] = "up")
         /\ (p \in DOMAIN subscribed <=> link[p] = "up") /\ link'[p] = "down" => link[p] = "down" /\ toPage'[p] = toPage[p]
<1>1. Told(p, R, ms, subs)
  BY NotifyFacts
<1>2. QED
  BY <1>1 DEF Told

-----------------------------------------------------------------------------
(***************************************************************************)
(* What is not connected carries nothing.                                  *)
(***************************************************************************)
WiredAgent ==
  /\ \A c \in Conns : c \notin agents => fromAgent[c] = <<>>
  /\ conn \in {NoConn, conns}

WiredPage(p) ==
  /\ p \in DOMAIN subscribed <=> link[p] = "up"
  /\ link[p] = "down" =>
       /\ toPage[p] = <<>> /\ fromPage[p] = <<>> /\ ~agentUp[p]
       /\ \A s \in DOMAIN entries[p] : ~entries[p][s].subscribed

Wired == WiredAgent /\ \A p \in Pages : WiredPage(p)

LEMMA WiredInit == Init => Wired
BY MapsEmpty DEF Init, Wired, WiredAgent, WiredPage

\* What the agent does.
LEMMA WiredAgentOnly ==
  ASSUME Typed, Wired, AgentOnly, conn' \in {conn, NoConn},
         \A c \in Conns : fromAgent'[c] = fromAgent[c] \/ c \in agents
  PROVE  Wired'
BY DEF AgentOnly, registryVars, linkVars, viewVars, Wired, WiredAgent, WiredPage

AgentStep ==
  \/ AgentSend \/ AgentDrop \/ Dispatch \/ FinishSpawn
  \/ \E s \in DOMAIN ptys : Produce(s) \/ Exit(s) \/ Reader(s)

LEMMA WiredByAgent ==
  ASSUME Typed, Wired, AgentStep
  PROVE  Wired'
<1>1. AgentOnly
  BY DEF AgentStep, AgentSend, AgentDrop, Dispatch, Spawn, Kill, Resize, DumpScrollback, Relist, Dispatched,
         FinishSpawn, Produce, Exit, Reader, ReportEnd, Forget
<1>2. conn' \in {conn, NoConn}
  BY DEF AgentStep, AgentSend, AgentDrop, Dispatch, Spawn, Kill, Resize, DumpScrollback, Relist, Dispatched,
         FinishSpawn, Produce, Exit, Reader, ReportEnd, Forget
<1>3. ASSUME NEW c \in Conns PROVE fromAgent'[c] = fromAgent[c] \/ c \in agents
  <2>1. CASE AgentSend
    BY <2>1 DEF AgentSend, Typed, WiresTyped
  <2>2. CASE ~AgentSend
    <3>1. fromAgent' = fromAgent
      BY <2>2 DEF AgentStep, AgentDrop, Dispatch, Spawn, Kill, Resize, DumpScrollback, Relist, Dispatched,
                  FinishSpawn, Produce, Exit, Reader, ReportEnd, Forget
    <3>2. QED
      BY <3>1
  <2>3. QED
    BY <2>1, <2>2
<1>4. QED
  BY <1>1, <1>2, <1>3, WiredAgentOnly

\* What the registry tells the pages.
LEMMA WiredTold ==
  ASSUME Typed, Wired, WiredAgent', NEW R \in SUBSET DOMAIN subscribed, NEW ms \in Seq(AgentMessage), NEW T, NEW subs,
         Maps(subs, Pages, T), DOMAIN subs = DOMAIN subscribed, Notify(R, ms, subs),
         UNCHANGED <<fromPage, agentUp, entries>>
  PROVE  Wired'
<1>1. ASSUME NEW p \in Pages PROVE WiredPage(p)'
  <2>1. WiredPage(p)
    BY DEF Wired
  <2>2. Told(p, R, ms, subs)
    BY NotifyFacts
  <2>3. p \in DOMAIN subscribed' <=> link'[p] = "up"
    BY <2>1, <2>2 DEF WiredPage, Told
  <2>4. link'[p] = "down" => link[p] = "down" /\ toPage'[p] = toPage[p]
    BY <2>1, <2>2 DEF WiredPage, Told
  <2>5. QED
    BY <2>1, <2>3, <2>4 DEF WiredPage
<1>2. QED
  BY <1>1 DEF Wired

LEMMA OwnerSubs ==
  ASSUME Typed, NEW gone
  PROVE  /\ Maps([p \in DOMAIN subscribed |-> subscribed[p] \ gone], Pages, SUBSET (DOMAIN sessions \ gone))
         /\ DOMAIN subscribed \in SUBSET DOMAIN subscribed
         /\ DOMAIN [p \in DOMAIN subscribed |-> subscribed[p] \ gone] = DOMAIN subscribed
BY DEF Typed, RegistryTyped, Maps

LEMMA WiredOwner ==
  ASSUME Typed, Wired, WiredAgent', NEW ms \in Seq(AgentMessage), NEW gone, NotifyOwner(ms, gone),
         UNCHANGED <<fromPage, agentUp, entries>>
  PROVE  Wired'
<1> DEFINE subs == [p \in DOMAIN subscribed |-> subscribed[p] \ gone]
<1>1. Maps(subs, Pages, SUBSET (DOMAIN sessions \ gone)) /\ DOMAIN subscribed \in SUBSET DOMAIN subscribed
      /\ DOMAIN subs = DOMAIN subscribed
  BY OwnerSubs
<1>2. Notify(DOMAIN subscribed, ms, subs)
  BY DEF NotifyOwner
<1> HIDE DEF subs
<1>3. QED
  BY <1>1, <1>2, WiredTold

\* What the server does of its own, and on messages of an agent.
LEMMA WiredConnect ==
  ASSUME Typed, Wired, AgentConnect
  PROVE  Wired'
BY MessageTypes, OneOf, WiredOwner DEF AgentConnect, viewVars, Typed, WiresTyped, Wired, WiredAgent

LEMMA UnregisterMessages ==
  ASSUME Typed, NEW c, Unregister(c)
  PROVE  /\ Status(agents' # {}) \in AgentMessage /\ List(infos') \in AgentMessage
         /\ <<Status(agents' # {}), List(infos')>> \in Seq(AgentMessage)
<1>1. infos' \subseteq infos
  BY DEF Unregister
<1>2. infos' \subseteq SessionIds
  BY <1>1 DEF Typed, RegistryTyped, Maps
<1>3. Status(agents' # {}) \in AgentMessage /\ List(infos') \in AgentMessage
  BY <1>2, MessageTypes
<1>4. QED
  BY <1>3

LEMMA WiredUnregister ==
  ASSUME Typed, Wired, NEW c, Unregister(c)
  PROVE  Wired'
<1> DEFINE gone == {s \in DOMAIN sessions : sessions[s] = c}
<1>1. /\ NotifyOwner(<<Status(agents' # {}), List(infos')>>, gone) /\ UNCHANGED <<fromPage, agentUp, entries>>
      /\ fromAgent' = [fromAgent EXCEPT ![c] = <<>>] /\ agents' = agents \ {c} /\ UNCHANGED <<conn, conns>>
  BY DEF Unregister, agentVars, viewVars
<1>2. <<Status(agents' # {}), List(infos')>> \in Seq(AgentMessage)
  BY UnregisterMessages
<1>3. WiredAgent'
  BY <1>1 DEF Wired, WiredAgent, Typed, WiresTyped
<1>4. QED
  <2> HIDE DEF gone
  <2>1. QED
    BY <1>1, <1>2, <1>3, WiredOwner

LEMMA WiredReceived ==
  ASSUME Typed, Wired, NEW c, NEW kinds, Received(c, kinds)
  PROVE  WiredAgent' /\ UNCHANGED <<fromPage, agentUp, entries>>
BY DEF Received, Wired, WiredAgent, Typed, WiresTyped, agentVars, viewVars

\* The list the registry passes on.
LEMMA ListedMessages ==
  ASSUME Typed, NEW c, OnSessionList(c)
  PROVE  List(infos') \in AgentMessage /\ <<List(infos')>> \in Seq(AgentMessage)
<1>1. Received(c, {"list"}) /\ infos' \subseteq infos \cup Head(fromAgent[c]).ids
  BY DEF OnSessionList
<1>2. Head(fromAgent[c]) \in AgentMessage /\ Head(fromAgent[c]).is = "list"
  BY <1>1, ReceivedTypes
<1>3. Head(fromAgent[c]).ids \subseteq SessionIds
  BY <1>2, MessageParts
<1>4. infos' \subseteq SessionIds
  BY <1>1, <1>3 DEF Typed, RegistryTyped, Maps
<1>5. List(infos') \in AgentMessage
  BY <1>4, MessageTypes
<1>6. QED
  BY <1>5

LEMMA WiredByServer ==
  ASSUME Typed, Wired, NEW c, OnSessionList(c) \/ OnSessionMessage(c) \/ OnReady(c)
  PROVE  Wired'
<1>1. ASSUME OnSessionList(c) PROVE Wired'
  <2> DEFINE m == Head(fromAgent[c])
             accepted == {s \in m.ids : s \notin DOMAIN sessions \/ sessions[s] = c}
             known == [s \in DOMAIN sessions \cup accepted |-> IF s \in accepted THEN c ELSE sessions[s]]
             acknowledged == infos \cup accepted
             gone == {s \in DOMAIN known : known[s] = c /\ s \in acknowledged \ accepted}
  <2>1. Received(c, {"list"}) /\ NotifyOwner(<<List(infos')>>, gone)
    BY <1>1 DEF OnSessionList
  <2>2. <<List(infos')>> \in Seq(AgentMessage)
    BY <1>1, ListedMessages
  <2>3. QED
    <3> HIDE DEF gone
    <3>1. QED
      BY <2>1, <2>2, WiredReceived, WiredOwner
<1>2. ASSUME OnSessionMessage(c) PROVE Wired'
  <2> DEFINE m == Head(fromAgent[c])
             gone == IF m.is = "event" /\ m.event \in Ends THEN {m.id} ELSE {}
             subs == [p \in DOMAIN subscribed |-> subscribed[p] \ gone]
             R == {p \in DOMAIN subscribed : m.id \in subscribed[p]}
  <2>1. Received(c, {"output", "dump", "event"}) /\ (UNCHANGED <<toPage, subscribed, link>> \/ Notify(R, <<m>>, subs))
    BY <1>2 DEF OnSessionMessage
  <2>2. m \in AgentMessage /\ WiredAgent' /\ UNCHANGED <<fromPage, agentUp, entries>>
    BY <2>1, ReceivedTypes, WiredReceived
  <2>3. CASE UNCHANGED <<toPage, subscribed, link>>
    BY <2>2, <2>3 DEF Wired, WiredPage
  <2>4. CASE Notify(R, <<m>>, subs)
    <3>1. Maps(subs, Pages, SUBSET (DOMAIN sessions \ gone)) /\ DOMAIN subs = DOMAIN subscribed
      <4> HIDE DEF gone
      <4>1. QED
        BY OwnerSubs
    <3>2. <<m>> \in Seq(AgentMessage) /\ R \in SUBSET DOMAIN subscribed
      BY <2>2
    <3>3. QED
      <4> HIDE DEF gone, subs, R, m
      <4>1. QED
        BY <2>2, <2>4, <3>1, <3>2, WiredTold
  <2>5. QED
    BY <2>1, <2>3, <2>4
<1>3. ASSUME OnReady(c) PROVE Wired'
  BY <1>3, MessageTypes, OneOf, WiredReceived, WiredOwner DEF OnReady
<1>4. QED
  BY <1>1, <1>2, <1>3

\* Pages.
LEMMA WiredCommanded ==
  ASSUME Typed, Wired, NEW p, OnSpawnSession(p) \/ OnSessionCommand(p) \/ OnListSessions(p)
  PROVE  Wired'
<1>1. PICK kinds : Commanded(p, kinds)
  BY DEF OnSpawnSession, OnSessionCommand, OnListSessions
<1>2. p \in Pages /\ p \in DOMAIN subscribed /\ UNCHANGED <<agents, fromAgent, conn, conns, link, agentUp, entries>>
      /\ \A q \in Pages : q # p => fromPage'[q] = fromPage[q]
  BY <1>1, CommandedTypes DEF agentVars, linkVars, viewVars, Typed, WiresTyped
<1>3. \A q \in Pages : q # p => toPage'[q] = toPage[q]
  BY DEF OnSpawnSession, OnSessionCommand, OnListSessions, Refuse, Reply, Typed, WiresTyped
<1>4. DOMAIN subscribed' = DOMAIN subscribed
  BY DEF OnSpawnSession, OnSessionCommand, OnListSessions, Refuse, Subscribe
<1>5. \A q \in Pages : WiredPage(q)'
  BY <1>2, <1>3, <1>4 DEF Wired, WiredPage
<1>6. QED
  BY <1>2, <1>5 DEF Wired, WiredAgent

LEMMA WiredPing ==
  ASSUME Wired, NEW c, SendPing(c)
  PROVE  Wired'
BY DEF SendPing, Wired, WiredAgent, WiredPage, registryVars, agentVars, linkVars, viewVars

LEMMA WiredByPage ==
  ASSUME Typed, Wired, NEW p \in Pages,
         Connect(p) \/ Disconnect(p) \/ PageReceives(p) \/ \E s \in SessionIds : NewSession(p, s) \/ CloseTab(p, s)
  PROVE  Wired'
<1>1. WiredAgent'
  BY DEF Connect, Disconnect, PageReceives, ReceiveStatus, ReceiveReady, ReceiveList, ReceiveEvent, ReceiveOutput,
         ReceiveDump, Receive, NewSession, CloseTab, PageOnly, Wired, WiredAgent, registryVars, agentVars
<1>2. ASSUME NEW q \in Pages, q # p PROVE WiredPage(q)'
  <2>1. toPage'[q] = toPage[q] /\ fromPage'[q] = fromPage[q] /\ agentUp'[q] = agentUp[q] /\ entries'[q] = entries[q]
        /\ link'[q] = link[q]
    BY <1>2 DEF Connect, Disconnect, PageReceives, ReceiveStatus, ReceiveReady, ReceiveList, ReceiveEvent,
       ReceiveOutput, ReceiveDump, Receive, NewSession, CloseTab, Send, linkVars, viewVars, Typed, WiresTyped, PagesTyped
  <2>2. q \in DOMAIN subscribed' <=> q \in DOMAIN subscribed
    BY <1>2 DEF Connect, Disconnect, PageReceives, ReceiveStatus, ReceiveReady, ReceiveList, ReceiveEvent,
       ReceiveOutput, ReceiveDump, Receive, NewSession, CloseTab, Put, Without, Restrict
  <2>3. QED
    BY <2>1, <2>2 DEF Wired, WiredPage
<1>3. ASSUME Connect(p) PROVE WiredPage(p)'
  BY <1>3 DEF Connect, Put, Typed, PagesTyped, WiredPage
<1>4. ASSUME Disconnect(p) PROVE WiredPage(p)'
  BY <1>4 DEF Disconnect, Typed, WiresTyped, PagesTyped, Without, Restrict, Unsubscribed, Maps, Entry, WiredPage
<1>5. ASSUME PageReceives(p) PROVE WiredPage(p)'
  BY <1>5 DEF PageReceives, ReceiveStatus, ReceiveReady, ReceiveList, ReceiveEvent, ReceiveOutput, ReceiveDump,
     Receive, linkVars, Wired, WiredPage
<1>6. ASSUME NEW s \in SessionIds, NewSession(p, s) PROVE WiredPage(p)'
  BY <1>6 DEF NewSession, Wired, WiredPage
<1>7. ASSUME NEW s \in SessionIds, CloseTab(p, s) PROVE WiredPage(p)'
  BY <1>7 DEF CloseTab, Wired, WiredPage, Typed, PagesTyped, Without, Restrict
<1>8. WiredPage(p)'
  BY <1>3, <1>4, <1>5, <1>6, <1>7
<1>9. QED
  BY <1>1, <1>2, <1>8 DEF Wired

LEMMA WiredNext ==
  ASSUME Typed, Wired, [Next]_vars
  PROVE  Wired'
<1>1. CASE AgentConnect
  BY <1>1, WiredConnect
<1>2. CASE AgentStep
  BY <1>2, WiredByAgent
<1>3. ASSUME NEW c \in Conns, OnSessionList(c) \/ OnSessionMessage(c) \/ OnReady(c) PROVE Wired'
  BY <1>3, WiredByServer
<1>4. ASSUME NEW c \in Conns, Reap(c) \/ ServerHangup(c) PROVE Wired'
  BY <1>4, WiredUnregister DEF Reap, ServerHangup
<1>5. ASSUME NEW c \in Conns, SendPing(c) PROVE Wired'
  BY <1>5, WiredPing
<1>6. ASSUME NEW p \in Pages, OnSpawnSession(p) \/ OnSessionCommand(p) \/ OnListSessions(p) PROVE Wired'
  BY <1>6, WiredCommanded
<1>7. ASSUME NEW p \in Pages,
             Connect(p) \/ Disconnect(p) \/ PageReceives(p) \/ \E s \in SessionIds : NewSession(p, s) \/ CloseTab(p, s)
      PROVE  Wired'
  BY <1>7, WiredByPage
<1>8. CASE UNCHANGED vars
  BY <1>8 DEF vars, registryVars, wireVars, agentVars, linkVars, viewVars, Wired, WiredAgent, WiredPage
<1>9. QED
  BY <1>1, <1>2, <1>3, <1>4, <1>5, <1>6, <1>7, <1>8 DEF Next, ServerStep, AgentStep

-----------------------------------------------------------------------------
(***************************************************************************)
(* How the queues change.                                                  *)
(***************************************************************************)

\* r has no more copies of m than q.
Lesser(m, q, r) == (m \in Msgs(r) => m \in Msgs(q)) /\ (Once(m, q) => Once(m, r))

LEMMA LesserSame == \A m, q : Lesser(m, q, q)
BY DEF Lesser

LEMMA LesserEmpty == \A m, q : Lesser(m, q, <<>>)
BY MsgsEmpty DEF Lesser

LEMMA LesserTail ==
  ASSUME NEW S, NEW q \in Seq(S), q # <<>>
  PROVE  Msgs(Tail(q)) \subseteq Msgs(q) /\ Head(q) \in Msgs(q) /\ \A m : Lesser(m, q, Tail(q))
BY MsgsTail DEF Lesser

LEMMA LesserAppend ==
  ASSUME NEW S, NEW q \in Seq(S), NEW n \in S
  PROVE  Msgs(Append(q, n)) = Msgs(q) \cup {n} /\ \A m : m # n => Lesser(m, q, Append(q, n))
BY MsgsAppend DEF Lesser

LEMMA LesserConcat ==
  ASSUME NEW S, NEW q \in Seq(S), NEW u \in Seq(S)
  PROVE  Msgs(q \o u) = Msgs(q) \cup Msgs(u) /\ \A m : m \notin Msgs(u) => Lesser(m, q, q \o u)
BY MsgsConcat DEF Lesser

LEMMA MsgsOne == \A m : Msgs(<<m>>) = {m} /\ Once(m, <<m>>)
BY DEF Msgs, Once

LEMMA MsgsTwo == \A m, n : Msgs(<<m, n>>) = {m, n}
BY DEF Msgs

\* The server reads of an agent, of a page.
LEMMA ReceivedQueues ==
  ASSUME Typed, NEW c, NEW kinds, Received(c, kinds)
  PROVE  /\ Head(fromAgent[c]) \in Msgs(fromAgent[c])
         /\ \A d \in Conns : Msgs(fromAgent'[d]) \subseteq Msgs(fromAgent[d])
<1>1. c \in Conns /\ fromAgent[c] \in Seq(AgentMessage) /\ fromAgent[c] # <<>>
      /\ fromAgent' = [fromAgent EXCEPT ![c] = Tail(@)]
  BY ReceivedTypes
<1>2. Msgs(Tail(fromAgent[c])) \subseteq Msgs(fromAgent[c]) /\ Head(fromAgent[c]) \in Msgs(fromAgent[c])
  BY <1>1, LesserTail
<1>3. \A d \in Conns : fromAgent'[d] = IF d = c THEN Tail(fromAgent[c]) ELSE fromAgent[d]
  BY <1>1 DEF Typed, WiresTyped
<1>4. QED
  BY <1>2, <1>3

LEMMA CommandedQueues ==
  ASSUME Typed, NEW p, NEW kinds, Commanded(p, kinds)
  PROVE  /\ Head(fromPage[p]) \in Msgs(fromPage[p])
         /\ \A q \in Pages : Msgs(fromPage'[q]) \subseteq Msgs(fromPage[q]) /\ \A m : Lesser(m, fromPage[q], fromPage'[q])
         /\ \A q \in Pages : q # p => fromPage'[q] = fromPage[q]
         /\ \A m : Once(m, fromPage[p]) /\ Head(fromPage[p]) = m => m \notin Msgs(fromPage'[p])
<1>1. p \in Pages /\ fromPage[p] \in Seq(ServerMessage) /\ fromPage[p] # <<>>
      /\ fromPage' = [fromPage EXCEPT ![p] = Tail(@)]
  BY CommandedTypes
<1>2. /\ Msgs(Tail(fromPage[p])) \subseteq Msgs(fromPage[p]) /\ Head(fromPage[p]) \in Msgs(fromPage[p])
      /\ \A m : Lesser(m, fromPage[p], Tail(fromPage[p]))
  BY <1>1, LesserTail
<1>3. \A q \in Pages : fromPage'[q] = IF q = p THEN Tail(fromPage[p]) ELSE fromPage[q]
  BY <1>1 DEF Typed, WiresTyped
<1>4. \A m : Once(m, fromPage[p]) /\ Head(fromPage[p]) = m => m \notin Msgs(Tail(fromPage[p]))
  BY <1>1, MsgsTail
<1>5. QED
  BY <1>1, <1>2, <1>3, <1>4, LesserSame

\* The agent and a page read of the server.
LEMMA DispatchedQueues ==
  ASSUME Typed, NEW kinds, Dispatched(kinds)
  PROVE  /\ Head(toAgent[conn]) \in Msgs(toAgent[conn])
         /\ \A c \in Conns : Msgs(toAgent'[c]) \subseteq Msgs(toAgent[c]) /\ \A m : Lesser(m, toAgent[c], toAgent'[c])
         /\ \A c \in Conns : c # conn => toAgent'[c] = toAgent[c]
         /\ \A m : Once(m, toAgent[conn]) /\ Head(toAgent[conn]) = m => m \notin Msgs(toAgent'[conn])
<1>1. conn \in Conns /\ toAgent[conn] \in Seq(ServerMessage) /\ toAgent[conn] # <<>>
      /\ toAgent' = [toAgent EXCEPT ![conn] = Tail(@)]
  BY DispatchedTypes
<1>2. /\ Msgs(Tail(toAgent[conn])) \subseteq Msgs(toAgent[conn]) /\ Head(toAgent[conn]) \in Msgs(toAgent[conn])
      /\ \A m : Lesser(m, toAgent[conn], Tail(toAgent[conn]))
  BY <1>1, LesserTail
<1>3. \A c \in Conns : toAgent'[c] = IF c = conn THEN Tail(toAgent[conn]) ELSE toAgent[c]
  BY <1>1 DEF Typed, WiresTyped
<1>4. \A m : Once(m, toAgent[conn]) /\ Head(toAgent[conn]) = m => m \notin Msgs(Tail(toAgent[conn]))
  BY <1>1, MsgsTail
<1>5. QED
  BY <1>1, <1>2, <1>3, <1>4, LesserSame

LEMMA ReceiveQueues ==
  ASSUME Typed, NEW p \in Pages, NEW kinds, Receive(p, kinds)
  PROVE  /\ Head(toPage[p]) \in AgentMessage /\ Head(toPage[p]).is \in kinds
         /\ Head(toPage[p]) \in Msgs(toPage[p]) /\ Head(toPage[p]) = toPage[p][1]
         /\ \A q \in Pages : Msgs(toPage'[q]) \subseteq Msgs(toPage[q])
         /\ \A q \in Pages : q # p => toPage'[q] = toPage[q]
         /\ Window(toPage'[p], toPage[p], 1) /\ Len(toPage[p]) > 0 /\ Len(toPage'[p]) = Len(toPage[p]) - 1
BY MsgsTail, HeadFacts DEF Receive, Typed, WiresTyped

\* Something is sent.
LEMMA SendQueues ==
  ASSUME Typed, NEW p \in Pages, NEW ms \in Seq(ServerMessage), Send(p, ms)
  PROVE  /\ \A q \in Pages : Msgs(fromPage'[q]) \subseteq Msgs(fromPage[q]) \cup Msgs(ms)
         /\ \A q \in Pages : q # p => fromPage'[q] = fromPage[q]
         /\ \A q \in Pages : \A m : m \notin Msgs(ms) => Lesser(m, fromPage[q], fromPage'[q])
BY LesserConcat, LesserSame DEF Send, Typed, WiresTyped

LEMMA ForwardQueues ==
  ASSUME Typed, NEW c \in Conns, NEW m \in ServerMessage, Forward(c, m)
  PROVE  /\ \A d \in Conns : d # c => toAgent'[d] = toAgent[d]
         /\ Msgs(toAgent'[c]) = Msgs(toAgent[c]) \cup {m}
         /\ m \notin Msgs(toAgent[c]) /\ Once(m, toAgent[c]) => Once(m, toAgent'[c])
         /\ \A d \in Conns : \A n : n # m => Lesser(n, toAgent[d], toAgent'[d])
BY LesserAppend, MsgsAppend, LesserSame DEF Forward, Typed, WiresTyped

LEMMA EnqueueQueues ==
  ASSUME Typed, NEW m \in AgentMessage, Enqueue(m)
  PROVE  Msgs(outgoing') = Msgs(outgoing) \cup {m} /\ Longer(outgoing', outgoing, m)
BY MsgsAppend DEF Typed, AgentTyped, Enqueue

LEMMA ReplyQueues ==
  ASSUME Typed, NEW p \in Pages, NEW m \in AgentMessage, Reply(p, m)
  PROVE  /\ \A q \in Pages : q # p => toPage'[q] = toPage[q]
         /\ toPage'[p] = toPage[p] \/ Longer(toPage'[p], toPage[p], m)
         /\ \A q \in Pages : Msgs(toPage'[q]) \subseteq Msgs(toPage[q]) \cup {m}
BY MsgsAppend DEF Reply, Typed, WiresTyped

\* The registry tells its pages.
LEMMA OwnerOne ==
  ASSUME Typed, NEW m \in AgentMessage, NEW gone, NotifyOwner(<<m>>, gone), NEW p \in Pages
  PROVE  /\ \/ toPage'[p] = toPage[p] /\ p \notin DOMAIN subscribed'
            \/ p \in DOMAIN subscribed /\ Longer(toPage'[p], toPage[p], m)
         /\ p \in DOMAIN subscribed' => p \in DOMAIN subscribed /\ subscribed'[p] = subscribed[p] \ gone
         /\ Msgs(toPage'[p]) \subseteq Msgs(toPage[p]) \cup {m}
<1> DEFINE subs == [q \in DOMAIN subscribed |-> subscribed[q] \ gone]
           ms == <<m>>
<1>1. Maps(subs, Pages, SUBSET (DOMAIN sessions \ gone)) /\ DOMAIN subscribed \in SUBSET DOMAIN subscribed
      /\ DOMAIN subs = DOMAIN subscribed
  BY OwnerSubs
<1>2. Notify(DOMAIN subscribed, <<m>>, subs)
  BY DEF NotifyOwner
<1>3. \/ toPage'[p] = toPage[p] /\ (p \notin DOMAIN subscribed \/ p \notin DOMAIN subscribed')
      \/ p \in DOMAIN subscribed /\ Longer(toPage'[p], toPage[p], m)
  <2> HIDE DEF subs
  <2>1. QED
    BY <1>1, <1>2, TellOne
<1>4. p \in DOMAIN subscribed' => p \in DOMAIN subscribed /\ subscribed'[p] = subs[p]
  <2> HIDE DEF subs
  <2>1. ms \in Seq(AgentMessage) /\ Notify(DOMAIN subscribed, ms, subs)
    BY <1>2, OneOf
  <2> HIDE DEF ms
  <2>2. Told(p, DOMAIN subscribed, ms, subs)
    BY <1>1, <2>1, NotifyFacts
  <2>3. QED
    BY <1>1, <2>2 DEF Told
<1>5. Longer(toPage'[p], toPage[p], m) => Msgs(toPage'[p]) = Msgs(toPage[p]) \cup {m}
  BY GrownFacts
<1>6. QED
  BY <1>3, <1>4, <1>5

LEMMA OwnerTwo ==
  ASSUME Typed, NEW m \in AgentMessage, NEW n \in AgentMessage, NEW gone, NotifyOwner(<<m, n>>, gone), NEW p \in Pages
  PROVE  /\ \/ toPage'[p] = toPage[p] /\ p \notin DOMAIN subscribed'
            \/ p \notin DOMAIN subscribed' /\ p \in DOMAIN subscribed /\ Longer(toPage'[p], toPage[p], m)
            \/ p \in DOMAIN subscribed /\ \E z : Longer(z, toPage[p], m) /\ Longer(toPage'[p], z, n)
         /\ p \in DOMAIN subscribed' => p \in DOMAIN subscribed /\ subscribed'[p] = subscribed[p] \ gone
         /\ Msgs(toPage'[p]) \subseteq Msgs(toPage[p]) \cup {m, n}
<1> DEFINE subs == [q \in DOMAIN subscribed |-> subscribed[q] \ gone]
           ms == <<m, n>>
<1>1. Maps(subs, Pages, SUBSET (DOMAIN sessions \ gone)) /\ DOMAIN subscribed \in SUBSET DOMAIN subscribed
      /\ DOMAIN subs = DOMAIN subscribed
  BY OwnerSubs
<1>2. Notify(DOMAIN subscribed, <<m, n>>, subs)
  BY DEF NotifyOwner
<1>3. \/ toPage'[p] = toPage[p] /\ (p \notin DOMAIN subscribed \/ p \notin DOMAIN subscribed')
      \/ p \in DOMAIN subscribed /\ p \notin DOMAIN subscribed' /\ Longer(toPage'[p], toPage[p], m)
      \/ p \in DOMAIN subscribed /\ \E z : Len(z) \in Nat /\ Longer(z, toPage[p], m) /\ Longer(toPage'[p], z, n)
  <2> HIDE DEF subs
  <2>1. QED
    BY <1>1, <1>2, TellTwo
<1>4. p \in DOMAIN subscribed' => p \in DOMAIN subscribed /\ subscribed'[p] = subs[p]
  <2> HIDE DEF subs
  <2>1. ms \in Seq(AgentMessage) /\ Notify(DOMAIN subscribed, ms, subs)
    BY <1>2
  <2> HIDE DEF ms
  <2>2. Told(p, DOMAIN subscribed, ms, subs)
    BY <1>1, <2>1, NotifyFacts
  <2>3. QED
    BY <1>1, <2>2 DEF Told
<1>5. \A z : Longer(z, toPage[p], m) => Msgs(z) = Msgs(toPage[p]) \cup {m}
  BY GrownFacts
<1>6. \A z : Longer(toPage'[p], z, n) => Msgs(toPage'[p]) = Msgs(z) \cup {n}
  BY GrownFacts
<1>7. Msgs(toPage'[p]) \subseteq Msgs(toPage[p]) \cup {m, n}
  BY <1>3, <1>5, <1>6
<1>8. QED
  BY <1>3, <1>4, <1>7

-----------------------------------------------------------------------------
(***************************************************************************)
(* The id of a session means nothing to anyone until its spawn is          *)
(* dispatched, and its spawn is under way once.                            *)
(***************************************************************************)
NoTrace(s) ==
  /\ s \notin DOMAIN ptys /\ s \notin infos
  /\ Mute(s, outgoing) /\ \A c \in Conns : Mute(s, fromAgent[c]) /\ ~Asked(s, toAgent[c])
  /\ \A p \in Pages : Blank(s, toPage[p]) /\ ~Asked(s, fromPage[p])

\* Nobody has spawned s yet; page p has; the spawn is on its way to the agent.
Unborn(s) ==
  /\ NoTrace(s) /\ s \notin DOMAIN sessions
  /\ \A p \in Pages : s \notin DOMAIN entries[p] /\ ~Begun(s, fromPage[p])
  /\ \A c \in Conns : ~Begun(s, toAgent[c])

Ordered(p, s) ==
  /\ NoTrace(s) /\ s \notin DOMAIN sessions /\ Once(Command("spawn", s), fromPage[p])
  /\ \A q \in Pages : q # p => s \notin DOMAIN entries[q] /\ ~Begun(s, fromPage[q])
  /\ \A c \in Conns : ~Begun(s, toAgent[c])

Underway(c, s) ==
  /\ NoTrace(s) /\ Once(Command("spawn", s), toAgent[c])
  /\ \A d \in Conns : d # c => ~Begun(s, toAgent[d])

Birth(s) ==
  /\ s \notin drawn => Unborn(s)
  /\ \A p \in Pages : Begun(s, fromPage[p]) => Ordered(p, s)
  /\ \A c \in Conns : Begun(s, toAgent[c]) => Underway(c, s)

LEMMA SpeaksOf ==
  ASSUME NEW s
  PROVE  /\ \A t, e : t # s => ~Speaks(Event(t, e), s)
         /\ \A t, n : t # s => ~Speaks(Output(t, n), s) /\ ~Speaks(Dump(t, n), s)
         /\ \A S : s \notin S => ~Speaks(List(S), s)
         /\ ~Speaks(Ready, s) /\ \A b : ~Speaks(Status(b), s)
         /\ \A t, e : ~Shows(Event(t, e), s) /\ ~Names(Event(t, e), s)
         /\ \A S : ~Shows(List(S), s) /\ (Names(List(S), s) <=> s \in S)
         /\ ~Shows(Ready, s) /\ ~Names(Ready, s) /\ \A b : ~Shows(Status(b), s) /\ ~Names(Status(b), s)
BY DEF Speaks, Shows, Names, Event, Output, Dump, List, Ready, Status

LEMMA SpeaksIs ==
  ASSUME NEW s, NEW m, ~Speaks(m, s)
  PROVE  /\ ~Shows(m, s) /\ ~Names(m, s) /\ ~Prints(m, s) /\ ~Closes(m, s)
         /\ m.is \in {"output", "dump", "event"} => m.id # s
BY DEF Speaks, Shows, Names, Prints, Closes

LEMMA Commands ==
  /\ \A d, e, s, t : Command(d, s) = Command(e, t) => d = e /\ s = t
  /\ \A d, s : d # "list" => Command(d, s) # ListSessions
  /\ \A d, s : d # "ping" => Command(d, s) # Ping
  /\ \A d, s : Command(d, s).do = d /\ Command(d, s).id = s
BY DEF Command, ListSessions, Ping

\* Nothing new of s.
Passes(s) ==
  /\ s \in drawn => s \in drawn'
  /\ NoTrace(s) => NoTrace(s)'
  /\ NoTrace(s) /\ s \notin DOMAIN sessions => s \notin DOMAIN sessions'
  /\ \A p \in Pages : NoTrace(s) /\ s \notin DOMAIN entries[p] => s \notin DOMAIN entries'[p]
  /\ \A p \in Pages : Lesser(Command("spawn", s), fromPage[p], fromPage'[p])
  /\ \A c \in Conns : Lesser(Command("spawn", s), toAgent[c], toAgent'[c])

\* The same, once a state with a spawn of s gives way to one without.
LEMMA BirthKept ==
  ASSUME NEW s, Birth(s), Passes(s), s \notin drawn' => s \notin drawn
  PROVE  Birth(s)'
<1> DEFINE m == Command("spawn", s)
<1>1. /\ \A p \in Pages : (Begun(s, fromPage[p])' => Begun(s, fromPage[p]))
                          /\ (Once(m, fromPage[p]) => Once(m, fromPage'[p]))
      /\ \A c \in Conns : (Begun(s, toAgent[c])' => Begun(s, toAgent[c]))
                          /\ (Once(m, toAgent[c]) => Once(m, toAgent'[c]))
  BY DEF Passes, Lesser, Begun
<1>2. ASSUME Unborn(s) PROVE Unborn(s)'
  BY <1>1, <1>2 DEF Unborn, Passes
<1>3. ASSUME NEW p \in Pages, Ordered(p, s) PROVE Ordered(p, s)'
  BY <1>1, <1>3 DEF Ordered, Passes
<1>4. ASSUME NEW c \in Conns, Underway(c, s) PROVE Underway(c, s)'
  BY <1>1, <1>4 DEF Underway, Passes
<1>5. QED
  BY <1>1, <1>2, <1>3, <1>4 DEF Birth

LEMMA BirthInit ==
  ASSUME Init, NEW s \in SessionIds
  PROVE  Birth(s)
BY EmptyStream, MapsEmpty DEF Init, NoTrace, Birth, Unborn

-----------------------------------------------------------------------------
(***************************************************************************)
(* The agent.                                                              *)
(***************************************************************************)
LEMMA BirthAgentOnly ==
  ASSUME Typed, NEW s \in SessionIds, AgentOnly,
         \A c \in Conns : Msgs(toAgent'[c]) \subseteq Msgs(toAgent[c])
                          /\ Lesser(Command("spawn", s), toAgent[c], toAgent'[c]),
         NoTrace(s) => /\ s \notin DOMAIN ptys' /\ Mute(s, outgoing')
                       /\ \A c \in Conns : Mute(s, fromAgent'[c])
  PROVE  Passes(s) /\ drawn' = drawn
BY LesserSame DEF AgentOnly, registryVars, linkVars, viewVars, NoTrace, Asked, Passes

LEMMA MuteMore ==
  ASSUME Typed, NEW s, NEW m \in AgentMessage, Enqueue(m), Mute(s, outgoing), ~Speaks(m, s)
  PROVE  Mute(s, outgoing')
BY EnqueueQueues DEF Mute

LEMMA BirthSend ==
  ASSUME Typed, NEW s \in SessionIds, AgentSend
  PROVE  Passes(s) /\ drawn' = drawn
<1>1. conn \in Conns /\ outgoing # <<>> /\ outgoing' = Tail(outgoing) /\ UNCHANGED <<toAgent, ptys>> /\ AgentOnly
      /\ (fromAgent' = fromAgent \/ fromAgent' = [fromAgent EXCEPT ![conn] = Append(@, Head(outgoing))])
  BY ConnIn DEF AgentSend
<1>2. outgoing \in Seq(AgentMessage)
  BY DEF Typed, AgentTyped
<1>3. Msgs(Tail(outgoing)) \subseteq Msgs(outgoing) /\ Head(outgoing) \in Msgs(outgoing)
      /\ Head(outgoing) \in AgentMessage
  BY <1>1, <1>2, LesserTail, HeadFacts
<1>4. Msgs(outgoing') \subseteq Msgs(outgoing)
  BY <1>1, <1>3
<1>5. Msgs(Append(fromAgent[conn], Head(outgoing))) = Msgs(fromAgent[conn]) \cup {Head(outgoing)}
  BY <1>1, <1>3, LesserAppend DEF Typed, WiresTyped
<1>6. \A c \in Conns : Msgs(fromAgent'[c]) \subseteq Msgs(fromAgent[c]) \cup Msgs(outgoing)
  BY <1>1, <1>3, <1>5 DEF Typed, WiresTyped
<1>7. NoTrace(s) => s \notin DOMAIN ptys' /\ Mute(s, outgoing') /\ \A c \in Conns : Mute(s, fromAgent'[c])
  BY <1>1, <1>4, <1>6 DEF NoTrace, Mute
<1>8. QED
  BY <1>1, <1>7, LesserSame, BirthAgentOnly

LEMMA BirthDrop ==
  ASSUME Typed, NEW s \in SessionIds, AgentDrop
  PROVE  Passes(s) /\ drawn' = drawn
BY MsgsEmpty, LesserSame, LesserEmpty, BirthAgentOnly DEF AgentDrop, Typed, WiresTyped, NoTrace

\* The spawn of s is dispatched.
Spawns(s) == Spawn /\ Head(toAgent[conn]) = Command("spawn", s)

LEMMA BirthDispatch ==
  ASSUME Typed, NEW s \in SessionIds, Dispatch, ~Spawns(s)
  PROVE  Passes(s) /\ drawn' = drawn
<1> DEFINE m == Head(toAgent[conn])
           mute == NoTrace(s) => s \notin DOMAIN ptys' /\ Mute(s, outgoing')
<1>1. ASSUME NEW kinds, Dispatched(kinds), mute
      PROVE  Passes(s) /\ drawn' = drawn
  BY <1>1, DispatchedTypes, DispatchedQueues, BirthAgentOnly DEF NoTrace
<1>2. ASSUME Spawn PROVE Passes(s) /\ drawn' = drawn
  <2>1. Dispatched({"spawn"})
    BY <1>2 DEF Spawn
  <2>2. m \in ServerMessage /\ m.do = "spawn"
    BY <2>1, DispatchedTypes
  <2>3. m.id \in SessionIds /\ m.id # s
    BY <1>2, <2>2, CommandParts DEF Spawns
  <2>4. CASE Enqueue(Event(m.id, "failed")) /\ UNCHANGED ptys
    BY <1>1, <2>1, <2>3, <2>4, MessageTypes, SpeaksOf, MuteMore DEF Events, NoTrace
  <2>5. CASE /\ ptys' = Put(ptys, m.id, [reader |-> "held", alive |-> TRUE, killed |-> FALSE, printed |-> 0])
             /\ UNCHANGED outgoing
    BY <1>1, <2>1, <2>3, <2>5 DEF Put, NoTrace
  <2>6. QED
    BY <1>2, <2>4, <2>5 DEF Spawn
<1>3. ASSUME Kill PROVE Passes(s) /\ drawn' = drawn
  BY <1>1, <1>3 DEF Kill, NoTrace
<1>4. ASSUME Resize PROVE Passes(s) /\ drawn' = drawn
  BY <1>1, <1>4 DEF Resize, NoTrace
<1>5. ASSUME DumpScrollback PROVE Passes(s) /\ drawn' = drawn
  <2> DEFINE n == IF m.id \in DOMAIN ptys THEN ptys[m.id].printed ELSE 0
  <2>1. Dispatched({"scrollback"}) /\ Enqueue(Dump(m.id, n)) /\ UNCHANGED ptys
    BY <1>5 DEF DumpScrollback
  <2>2. m \in ServerMessage /\ m.do = "scrollback" /\ conn \in Conns /\ m \in Msgs(toAgent[conn])
    BY <2>1, DispatchedTypes, DispatchedQueues
  <2>3. m.id \in SessionIds /\ m = Command("scrollback", m.id)
    BY <2>2, CommandParts
  <2>4. NoTrace(s) => m.id # s
    BY <2>2, <2>3 DEF NoTrace, Asked
  <2>5. Dump(m.id, n) \in AgentMessage
    BY <2>3, Bounds, MessageTypes DEF Typed, AgentTyped, Maps, Pty
  <2> HIDE DEF n
  <2>6. mute
    BY <2>1, <2>4, <2>5, SpeaksOf, MuteMore DEF NoTrace
  <2>7. QED
    BY <1>1, <2>1, <2>6
<1>6. ASSUME Relist PROVE Passes(s) /\ drawn' = drawn
  BY <1>1, <1>6, MessageTypes, SpeaksOf, MuteMore DEF Relist, Typed, AgentTyped, Maps, NoTrace
<1>7. QED
  BY <1>2, <1>3, <1>4, <1>5, <1>6 DEF Dispatch

LEMMA BirthReader ==
  ASSUME Typed, NEW s \in SessionIds,
         FinishSpawn \/ \E t \in DOMAIN ptys : Produce(t) \/ Exit(t) \/ Reader(t)
  PROVE  Passes(s) /\ drawn' = drawn
<1>1. ASSUME UNCHANGED <<toAgent, fromAgent>>, AgentOnly, DOMAIN ptys' \subseteq DOMAIN ptys,
             NoTrace(s) => Mute(s, outgoing')
      PROVE  Passes(s) /\ drawn' = drawn
  BY <1>1, LesserSame, BirthAgentOnly DEF NoTrace
<1>2. \A t \in DOMAIN ptys : t \in SessionIds /\ ptys[t] \in Pty
  BY DEF Typed, AgentTyped, Maps
<1>3. ASSUME NEW t \in DOMAIN ptys, NEW m \in AgentMessage, Enqueue(m), t # s => ~Speaks(m, s)
      PROVE  NoTrace(s) => Mute(s, outgoing')
  BY <1>3, MuteMore DEF NoTrace
<1>4. ASSUME FinishSpawn PROVE Passes(s) /\ drawn' = drawn
  BY <1>1, <1>2, <1>3, <1>4, MessageTypes, SpeaksOf DEF FinishSpawn, Typed, AgentTyped, Held, Events
<1>5. ASSUME NEW t \in DOMAIN ptys, Produce(t) PROVE Passes(s) /\ drawn' = drawn
  <2>1. /\ ptys[t].printed < MaxChunks /\ DOMAIN ptys' = DOMAIN ptys /\ Enqueue(Output(t, ptys[t].printed + 1))
        /\ UNCHANGED <<toAgent, fromAgent>> /\ AgentOnly
    BY <1>5 DEF Produce
  <2>2. ptys[t].printed + 1 \in 1..MaxChunks
    BY <1>2, <2>1, Bounds DEF Pty
  <2>3. Output(t, ptys[t].printed + 1) \in AgentMessage /\ (t # s => ~Speaks(Output(t, ptys[t].printed + 1), s))
    BY <1>2, <2>2, MessageTypes, SpeaksOf
  <2>4. NoTrace(s) => Mute(s, outgoing')
    BY <1>3, <2>1, <2>3
  <2>5. QED
    BY <1>1, <2>1, <2>4
<1>6. ASSUME NEW t \in DOMAIN ptys, Exit(t) PROVE Passes(s) /\ drawn' = drawn
  BY <1>1, <1>6 DEF Exit, NoTrace
<1>7. ASSUME NEW t \in DOMAIN ptys, ReportEnd(t) PROVE Passes(s) /\ drawn' = drawn
  <2> DEFINE e == IF ptys[t].killed THEN "killed" ELSE "exited"
  <2>1. /\ DOMAIN ptys' = DOMAIN ptys /\ Enqueue(Event(t, e))
        /\ UNCHANGED <<toAgent, fromAgent>> /\ AgentOnly
    BY <1>7 DEF ReportEnd
  <2>2. Event(t, e) \in AgentMessage /\ (t # s => ~Speaks(Event(t, e), s))
    BY <1>2, MessageTypes, SpeaksOf DEF Events
  <2> HIDE DEF e
  <2>3. NoTrace(s) => Mute(s, outgoing')
    BY <1>3, <2>1, <2>2
  <2>4. QED
    BY <1>1, <2>1, <2>3
<1>8. ASSUME NEW t \in DOMAIN ptys, Forget(t) PROVE Passes(s) /\ drawn' = drawn
  BY <1>1, <1>8 DEF Forget, Without, Restrict, NoTrace
<1>9. QED
  BY <1>4, <1>5, <1>6, <1>7, <1>8 DEF Reader

-----------------------------------------------------------------------------
(***************************************************************************)
(* The server.                                                             *)
(***************************************************************************)
LEMMA BirthServerOnly ==
  ASSUME NEW s, UNCHANGED <<ptys, outgoing, fromPage, entries, drawn>>,
         \A c \in Conns : (Asked(s, toAgent[c])' => Asked(s, toAgent[c]))
                          /\ Lesser(Command("spawn", s), toAgent[c], toAgent'[c]),
         NoTrace(s) => /\ s \notin infos' /\ (s \notin DOMAIN sessions => s \notin DOMAIN sessions')
                       /\ \A c \in Conns : Mute(s, fromAgent'[c])
                       /\ \A p \in Pages : Blank(s, toPage'[p])
  PROVE  Passes(s) /\ drawn' = drawn
BY LesserSame DEF NoTrace, Passes

LEMMA BlankMore ==
  ASSUME NEW s, NEW q, NEW r, NEW m, Msgs(r) \subseteq Msgs(q) \cup {m}, Blank(s, q), ~Shows(m, s), ~Names(m, s)
  PROVE  Blank(s, r)
BY DEF Blank

LEMMA BirthConnect ==
  ASSUME Typed, NEW s \in SessionIds, AgentConnect
  PROVE  Passes(s) /\ drawn' = drawn
<1>1. /\ UNCHANGED <<ptys, outgoing, fromPage, entries, drawn, toAgent, infos, sessions>>
      /\ NotifyOwner(<<Status(TRUE)>>, {})
      /\ fromAgent' = [fromAgent EXCEPT ![conn'] = <<Ready, List(DOMAIN ptys)>>]
  BY DEF AgentConnect, viewVars
<1>2. ASSUME NEW p \in Pages, Blank(s, toPage[p]) PROVE Blank(s, toPage'[p])
  <2>1. Status(TRUE) \in AgentMessage
    BY MessageTypes
  <2>2. Msgs(toPage'[p]) \subseteq Msgs(toPage[p]) \cup {Status(TRUE)}
    BY <1>1, <2>1, OwnerOne
  <2>3. QED
    BY <1>2, <2>2, BlankMore, SpeaksOf
<1>3. ASSUME NoTrace(s), NEW c \in Conns PROVE Mute(s, fromAgent'[c])
  <2>1. Msgs(<<Ready, List(DOMAIN ptys)>>) = {Ready, List(DOMAIN ptys)}
    BY MsgsTwo
  <2>2. Mute(s, <<Ready, List(DOMAIN ptys)>>)
    BY <1>3, <2>1, SpeaksOf DEF Mute, NoTrace
  <2>3. fromAgent'[c] = fromAgent[c] \/ fromAgent'[c] = <<Ready, List(DOMAIN ptys)>>
    BY <1>1 DEF Typed, WiresTyped
  <2>4. QED
    BY <1>3, <2>2, <2>3 DEF NoTrace
<1>4. NoTrace(s) => /\ s \notin infos' /\ (s \notin DOMAIN sessions => s \notin DOMAIN sessions')
                    /\ \A c \in Conns : Mute(s, fromAgent'[c])
                    /\ \A p \in Pages : Blank(s, toPage'[p])
  BY <1>1, <1>2, <1>3 DEF NoTrace
<1>5. \A c \in Conns : (Asked(s, toAgent[c])' => Asked(s, toAgent[c]))
                       /\ Lesser(Command("spawn", s), toAgent[c], toAgent'[c])
  BY <1>1, LesserSame
<1>6. QED
  BY <1>1, <1>4, <1>5, BirthServerOnly

LEMMA BirthUnregister ==
  ASSUME Typed, NEW s \in SessionIds, NEW c, Unregister(c)
  PROVE  Passes(s) /\ drawn' = drawn
<1> DEFINE gone == {t \in DOMAIN sessions : sessions[t] = c}
           m == Status(agents' # {})
           n == List(infos')
<1>1. /\ UNCHANGED <<ptys, outgoing, fromPage, entries, drawn>>
      /\ NotifyOwner(<<m, n>>, gone) /\ infos' = infos \ gone /\ DOMAIN sessions' \subseteq DOMAIN sessions
      /\ fromAgent' = [fromAgent EXCEPT ![c] = <<>>]
      /\ toAgent' = [toAgent EXCEPT ![c] = IF c = conn THEN @ ELSE <<>>]
  BY DEF Unregister, viewVars, agentVars, Without, Restrict
<1>2. ASSUME NoTrace(s), NEW p \in Pages PROVE Blank(s, toPage'[p])
  <2>1. m \in AgentMessage /\ n \in AgentMessage
    BY UnregisterMessages
  <2>2. ~Shows(m, s) /\ ~Names(m, s) /\ ~Shows(n, s) /\ ~Names(n, s)
    BY <1>1, <1>2, SpeaksOf DEF NoTrace
  <2> HIDE DEF m, n, gone
  <2>3. Msgs(toPage'[p]) \subseteq Msgs(toPage[p]) \cup {m, n}
    BY <1>1, <2>1, OwnerTwo
  <2>4. QED
    BY <1>2, <2>2, <2>3 DEF Blank, NoTrace
<1>3. ASSUME NoTrace(s), NEW d \in Conns PROVE Mute(s, fromAgent'[d])
  BY <1>1, <1>3, EmptyStream DEF Typed, WiresTyped, NoTrace
<1>4. \A d \in Conns : toAgent'[d] = toAgent[d] \/ toAgent'[d] = <<>>
  BY <1>1 DEF Typed, WiresTyped
<1>5. \A d \in Conns : (Asked(s, toAgent[d])' => Asked(s, toAgent[d]))
                       /\ Lesser(Command("spawn", s), toAgent[d], toAgent'[d])
  BY <1>4, LesserSame, LesserEmpty, EmptyStream
<1>6. NoTrace(s) => /\ s \notin infos' /\ (s \notin DOMAIN sessions => s \notin DOMAIN sessions')
                    /\ \A d \in Conns : Mute(s, fromAgent'[d])
                    /\ \A p \in Pages : Blank(s, toPage'[p])
  BY <1>1, <1>2, <1>3 DEF NoTrace
<1>7. QED
  BY <1>1, <1>5, <1>6, BirthServerOnly

LEMMA BirthReceived ==
  ASSUME Typed, NEW s \in SessionIds, NEW c, OnSessionList(c) \/ OnSessionMessage(c) \/ OnReady(c)
  PROVE  Passes(s) /\ drawn' = drawn
<1> DEFINE m == Head(fromAgent[c])
<1>1. ASSUME NEW kinds, Received(c, kinds),
             NoTrace(s) => /\ s \notin infos' /\ (s \notin DOMAIN sessions => s \notin DOMAIN sessions')
                           /\ \A p \in Pages : Blank(s, toPage'[p])
      PROVE  Passes(s) /\ drawn' = drawn
  BY <1>1, ReceivedQueues, LesserSame, BirthServerOnly DEF Received, agentVars, viewVars, NoTrace, Mute
<1>2. ASSUME NEW kinds, Received(c, kinds), NoTrace(s) PROVE ~Speaks(m, s) /\ m \in AgentMessage
  BY <1>2, ReceivedTypes, ReceivedQueues DEF NoTrace, Mute
<1>3. ASSUME NoTrace(s), NEW n, ~Shows(n, s), ~Names(n, s),
             \A p \in Pages : Msgs(toPage'[p]) \subseteq Msgs(toPage[p]) \cup {n}
      PROVE  \A p \in Pages : Blank(s, toPage'[p])
  BY <1>3 DEF Blank, NoTrace
<1>4. ASSUME OnSessionList(c) PROVE Passes(s) /\ drawn' = drawn
  <2> DEFINE accepted == {t \in m.ids : t \notin DOMAIN sessions \/ sessions[t] = c}
             known == [t \in DOMAIN sessions \cup accepted |-> IF t \in accepted THEN c ELSE sessions[t]]
             acknowledged == infos \cup accepted
             gone == {t \in DOMAIN known : known[t] = c /\ t \in acknowledged \ accepted}
  <2>1. /\ Received(c, {"list"}) /\ sessions' = Without(known, gone) /\ infos' = acknowledged \ gone
        /\ NotifyOwner(<<List(infos')>>, gone)
    BY <1>4 DEF OnSessionList
  <2>2. List(infos') \in AgentMessage
    BY <1>4, ListedMessages
  <2>3. NoTrace(s) => s \notin accepted
    <3>1. ASSUME NoTrace(s) PROVE s \notin accepted
      <4>1. ~Speaks(m, s) /\ m.is = "list"
        BY SMTT(30), <1>2, <2>1, <3>1, ReceivedTypes
      <4>2. s \notin m.ids
        BY <4>1 DEF Speaks, Names
      <4>3. QED
        BY <4>2
    <3>2. QED
      BY <3>1
  <2>4. DOMAIN sessions' \subseteq DOMAIN sessions \cup accepted
    BY <2>1 DEF Without, Restrict
  <2>5. infos' \subseteq infos \cup accepted
    BY <2>1
  <2>6. \A p \in Pages : Msgs(toPage'[p]) \subseteq Msgs(toPage[p]) \cup {List(infos')}
    <3> HIDE DEF gone
    <3>1. QED
      BY <2>1, <2>2, OwnerOne
  <2>7. NoTrace(s) => /\ s \notin infos' /\ (s \notin DOMAIN sessions => s \notin DOMAIN sessions')
                      /\ \A p \in Pages : Blank(s, toPage'[p])
    <3> HIDE DEF accepted
    <3>1. ASSUME NoTrace(s) PROVE s \notin infos' /\ \A p \in Pages : Blank(s, toPage'[p])
      BY <1>3, <2>3, <2>5, <2>6, <3>1, SpeaksOf DEF NoTrace
    <3>2. QED
      BY <2>3, <2>4, <3>1
  <2>8. QED
    BY <1>1, <2>1, <2>7
<1>5. ASSUME OnSessionMessage(c) PROVE Passes(s) /\ drawn' = drawn
  <2> DEFINE gone == IF m.is = "event" /\ m.event \in Ends THEN {m.id} ELSE {}
             subs == [p \in DOMAIN subscribed |-> subscribed[p] \ gone]
             R == {p \in DOMAIN subscribed : m.id \in subscribed[p]}
  <2>1. Received(c, {"output", "dump", "event"})
        /\ DOMAIN sessions' \subseteq DOMAIN sessions /\ infos' \subseteq infos
        /\ (toPage' = toPage \/ Notify(R, <<m>>, subs))
    BY <1>5 DEF OnSessionMessage, Without, Restrict
  <2>2. m \in AgentMessage
    BY <2>1, ReceivedTypes
  <2>3. \A p \in Pages : Msgs(toPage'[p]) \subseteq Msgs(toPage[p]) \cup {m}
    <3>1. CASE toPage' = toPage
      BY <3>1
    <3>2. CASE Notify(R, <<m>>, subs)
      <4>1. Maps(subs, Pages, SUBSET (DOMAIN sessions \ gone)) /\ R \in SUBSET DOMAIN subscribed
        <5> HIDE DEF gone
        <5>1. QED
          BY OwnerSubs
      <4>2. ASSUME NEW p \in Pages PROVE toPage'[p] = toPage[p] \/ Longer(toPage'[p], toPage[p], m)
        <5> HIDE DEF gone, subs, R, m
        <5>1. QED
          BY <2>2, <3>2, <4>1, TellOne
      <4>3. QED
        BY <4>2, GrownFacts
    <3>3. QED
      BY <2>1, <3>1, <3>2
  <2>4. NoTrace(s) => /\ s \notin infos' /\ (s \notin DOMAIN sessions => s \notin DOMAIN sessions')
                      /\ \A p \in Pages : Blank(s, toPage'[p])
    BY <1>2, <1>3, <2>1, <2>3, SpeaksIs DEF NoTrace
  <2>5. QED
    BY <1>1, <2>1, <2>4
<1>6. ASSUME OnReady(c) PROVE Passes(s) /\ drawn' = drawn
  BY <1>1, <1>3, <1>6, MessageTypes, OwnerOne, SpeaksOf DEF OnReady, NoTrace
<1>7. QED
  BY <1>4, <1>5, <1>6

LEMMA BirthPing ==
  ASSUME Typed, NEW s \in SessionIds, NEW c, SendPing(c)
  PROVE  Passes(s) /\ drawn' = drawn
<1>1. /\ UNCHANGED <<ptys, outgoing, fromPage, entries, drawn, fromAgent, toPage, infos, sessions>>
      /\ toAgent' = [toAgent EXCEPT ![c] = <<Ping>>] /\ toAgent[c] = <<>>
  BY DEF SendPing, registryVars, agentVars, linkVars, viewVars
<1>2. Msgs(<<Ping>>) = {Ping} /\ Command("spawn", s) # Ping /\ Command("scrollback", s) # Ping
  BY MsgsOne, Commands
<1>3. Command("spawn", s) \notin Msgs(<<Ping>>) /\ Command("scrollback", s) \notin Msgs(<<Ping>>)
  BY <1>2
<1>4. Once(Command("spawn", s), <<Ping>>)
  BY <1>3 DEF Once, Msgs
<1>5. \A d \in Conns : (Asked(s, toAgent[d])' => Asked(s, toAgent[d]))
                       /\ Lesser(Command("spawn", s), toAgent[d], toAgent'[d])
  BY <1>1, <1>3, <1>4, LesserSame DEF Typed, WiresTyped, Lesser, Asked
<1>6. NoTrace(s) => /\ s \notin infos' /\ (s \notin DOMAIN sessions => s \notin DOMAIN sessions')
                    /\ \A d \in Conns : Mute(s, fromAgent'[d])
                    /\ \A p \in Pages : Blank(s, toPage'[p])
  BY <1>1 DEF NoTrace
<1>7. QED
  BY <1>1, <1>5, <1>6, BirthServerOnly

-----------------------------------------------------------------------------
(***************************************************************************)
(* Commands of pages.                                                      *)
(***************************************************************************)
LEMMA BirthCommandedOnly ==
  ASSUME Typed, NEW s \in SessionIds, NEW p, NEW kinds, Commanded(p, kinds), NEW m, ~Shows(m, s), ~Names(m, s),
         \A q \in Pages : Msgs(toPage'[q]) \subseteq Msgs(toPage[q]) \cup {m},
         NoTrace(s) => \A c \in Conns : ~Asked(s, toAgent'[c]),
         \A c \in Conns : Lesser(Command("spawn", s), toAgent[c], toAgent'[c]),
         NoTrace(s) /\ s \notin DOMAIN sessions => s \notin DOMAIN sessions'
  PROVE  Passes(s) /\ drawn' = drawn
BY CommandedQueues, BlankMore DEF Commanded, agentVars, linkVars, viewVars, NoTrace, Asked, Passes

LEMMA RefuseQueues ==
  ASSUME Typed, NEW p \in Pages, NEW t \in SessionIds, Refuse(p, t)
  PROVE  /\ \A q \in Pages : Msgs(toPage'[q]) \subseteq Msgs(toPage[q]) \cup {Event(t, "failed")}
         /\ \A q \in Pages : q # p => toPage'[q] = toPage[q]
         /\ toPage'[p] = toPage[p] \/ Longer(toPage'[p], toPage[p], Event(t, "failed"))
         /\ UNCHANGED <<sessions, subscribed, toAgent>>
         /\ Event(t, "failed") \in AgentMessage
BY MessageTypes, ReplyQueues DEF Refuse, Events

LEMMA BirthRefuse ==
  ASSUME Typed, NEW s \in SessionIds, NEW p, NEW kinds, Commanded(p, kinds), NEW t \in SessionIds, Refuse(p, t)
  PROVE  Passes(s) /\ drawn' = drawn
<1>1. p \in Pages
  BY CommandedTypes
<1>2. /\ \A q \in Pages : Msgs(toPage'[q]) \subseteq Msgs(toPage[q]) \cup {Event(t, "failed")}
      /\ UNCHANGED <<sessions, toAgent>>
  BY <1>1, RefuseQueues
<1>3. /\ NoTrace(s) => \A c \in Conns : ~Asked(s, toAgent'[c])
      /\ \A c \in Conns : Lesser(Command("spawn", s), toAgent[c], toAgent'[c])
  BY <1>2, LesserSame DEF NoTrace
<1>4. QED
  BY <1>2, <1>3, SpeaksOf, BirthCommandedOnly

LEMMA AgentsAre ==
  ASSUME Typed
  PROVE  agents \subseteq Conns /\ \A s \in DOMAIN sessions : sessions[s] \in Conns
BY Bounds DEF Typed, RegistryTyped, AgentTyped, Conns, Maps

\* A command that goes to the agent passes by every other session.
Accepted(p, c, s) ==
  /\ c \in agents /\ s \notin DOMAIN sessions /\ Accepts(c) /\ Head(fromPage[p]) = Command("spawn", s)
  /\ Forward(c, Command("spawn", s)) /\ sessions' = Put(sessions, s, c) /\ Subscribe(p, s) /\ UNCHANGED toPage

LEMMA SpawnSessionCases ==
  ASSUME Typed, NEW p, OnSpawnSession(p)
  PROVE  /\ p \in Pages /\ Commanded(p, {"spawn"})
         /\ \E t \in SessionIds : Head(fromPage[p]) = Command("spawn", t)
              /\ ((\E c \in Conns : Accepted(p, c, t)) \/ Refuse(p, t))
BY CommandedTypes, CommandParts, AgentsAre DEF OnSpawnSession, Accepted

LEMMA BirthAccepted ==
  ASSUME Typed, NEW s \in SessionIds, Birth(s), NEW p \in Pages, Commanded(p, {"spawn"}),
         NEW c \in Conns, NEW t \in SessionIds, Accepted(p, c, t)
  PROVE  Birth(s)' /\ drawn' = drawn
<1> DEFINE m == Command("spawn", s)
           n == Command("spawn", t)
<1>1. /\ Forward(c, n) /\ sessions' = Put(sessions, t, c) /\ UNCHANGED toPage
      /\ n \in ServerMessage /\ n # Command("scrollback", s) /\ Head(fromPage[p]) = n /\ (t # s => n # m)
  BY CommandTypes, Commands DEF Accepted
<1>2. UNCHANGED <<ptys, outgoing, fromAgent, infos, entries, drawn>>
  BY DEF Commanded, agentVars, linkVars, viewVars
<1>3. /\ \A d \in Conns : d # c => toAgent'[d] = toAgent[d]
      /\ Msgs(toAgent'[c]) = Msgs(toAgent[c]) \cup {n}
      /\ n \notin Msgs(toAgent[c]) /\ Once(n, toAgent[c]) => Once(n, toAgent'[c])
      /\ \A d \in Conns : \A k : k # n => Lesser(k, toAgent[d], toAgent'[d])
  <2> HIDE DEF n
  <2>1. QED
    BY <1>1, ForwardQueues
<1>4. /\ Head(fromPage[p]) \in Msgs(fromPage[p])
      /\ \A q \in Pages : Msgs(fromPage'[q]) \subseteq Msgs(fromPage[q])
      /\ \A k : Once(k, fromPage[p]) /\ Head(fromPage[p]) = k => k \notin Msgs(fromPage'[p])
  BY CommandedQueues
<1>5. DOMAIN sessions' = DOMAIN sessions \cup {t}
  BY <1>1 DEF Put
<1>6. NoTrace(s) => NoTrace(s)'
  BY <1>1, <1>2, <1>3, <1>4 DEF NoTrace, Asked
<1>7. CASE t # s
  BY <1>1, <1>2, <1>3, <1>5, <1>6, <1>7, CommandedQueues, BirthKept DEF Passes
<1>8. CASE t = s
  <2>1. Begun(s, fromPage[p])
    BY <1>1, <1>4, <1>8 DEF Begun
  <2>2. Ordered(p, s)
    BY <2>1 DEF Birth
  <2>3. s \in drawn'
    BY <1>2, <2>1 DEF Birth, Unborn
  <2>4. \A q \in Pages : ~Begun(s, fromPage'[q])
    BY <1>1, <1>4, <1>8, <2>2 DEF Ordered, Begun
  <2>5. Underway(c, s)'
    BY <1>3, <1>6, <1>8, <2>2 DEF Ordered, Begun, Once, Msgs, Underway
  <2>6. \A d \in Conns : Begun(s, toAgent'[d]) => d = c
    BY <2>5 DEF Underway
  <2>7. QED
    BY <1>2, <2>3, <2>4, <2>5, <2>6 DEF Birth
<1>9. QED
  BY <1>7, <1>8

LEMMA BirthSpawnSession ==
  ASSUME Typed, NEW s \in SessionIds, Birth(s), NEW p, OnSpawnSession(p)
  PROVE  Birth(s)' /\ drawn' = drawn
BY SpawnSessionCases, BirthRefuse, BirthKept, BirthAccepted

LEMMA SessionCommandCases ==
  ASSUME Typed, NEW p, OnSessionCommand(p)
  PROVE  /\ p \in Pages /\ Commanded(p, {"kill", "resize", "scrollback"})
         /\ \E m \in ServerMessage :
              /\ m = Head(fromPage[p]) /\ m.do \in {"kill", "resize", "scrollback"} /\ m.id \in SessionIds
              /\ m = Command(m.do, m.id) /\ m \in Msgs(fromPage[p])
              /\ \/ /\ m.id \in DOMAIN sessions /\ sessions[m.id] \in Conns
                    /\ Forward(sessions[m.id], m) /\ UNCHANGED <<toPage, sessions>>
                    /\ (m.do = "scrollback" /\ Subscribe(p, m.id)) \/ (m.do # "scrollback" /\ UNCHANGED subscribed)
                 \/ Refuse(p, m.id)
BY CommandedTypes, CommandedQueues, CommandParts, AgentsAre DEF OnSessionCommand

LEMMA BirthSessionCommand ==
  ASSUME Typed, NEW s \in SessionIds, NEW p, OnSessionCommand(p)
  PROVE  Passes(s) /\ drawn' = drawn
<1>1. p \in Pages /\ Commanded(p, {"kill", "resize", "scrollback"})
  BY SessionCommandCases
<1>2. PICK m \in ServerMessage :
              /\ m = Head(fromPage[p]) /\ m.do \in {"kill", "resize", "scrollback"} /\ m.id \in SessionIds
              /\ m = Command(m.do, m.id) /\ m \in Msgs(fromPage[p])
              /\ \/ /\ m.id \in DOMAIN sessions /\ sessions[m.id] \in Conns
                    /\ Forward(sessions[m.id], m) /\ UNCHANGED <<toPage, sessions>>
                    /\ (m.do = "scrollback" /\ Subscribe(p, m.id)) \/ (m.do # "scrollback" /\ UNCHANGED subscribed)
                 \/ Refuse(p, m.id)
  BY SessionCommandCases
<1>3. CASE Refuse(p, m.id)
  BY <1>1, <1>2, <1>3, BirthRefuse
<1>4. CASE /\ m.id \in DOMAIN sessions /\ sessions[m.id] \in Conns
           /\ Forward(sessions[m.id], m) /\ UNCHANGED <<toPage, sessions>>
  <2>1. PICK c \in Conns : Forward(c, m)
    BY <1>4
  <2>2. m # Command("spawn", s) /\ (m = Command("scrollback", s) => Asked(s, fromPage[p]))
    BY <1>2, Commands DEF Asked
  <2>3. /\ Msgs(toAgent'[c]) = Msgs(toAgent[c]) \cup {m}
        /\ \A d \in Conns : d # c => toAgent'[d] = toAgent[d]
        /\ \A d \in Conns : Lesser(Command("spawn", s), toAgent[d], toAgent'[d])
    BY <2>1, <2>2, ForwardQueues
  <2>4. NoTrace(s) => \A d \in Conns : ~Asked(s, toAgent'[d])
    BY <1>1, <2>2, <2>3 DEF NoTrace, Asked
  <2>5. /\ ~Shows(Ready, s) /\ ~Names(Ready, s)
        /\ \A q \in Pages : Msgs(toPage'[q]) \subseteq Msgs(toPage[q]) \cup {Ready}
    BY <1>4, SpeaksOf
  <2>6. QED
    BY <1>1, <1>4, <2>3, <2>4, <2>5, BirthCommandedOnly
<1>5. QED
  BY <1>2, <1>3, <1>4

LEMMA BirthListSessions ==
  ASSUME Typed, NEW s \in SessionIds, NEW p, OnListSessions(p)
  PROVE  Passes(s) /\ drawn' = drawn
<1>1. Commanded(p, {"list"}) /\ UNCHANGED <<sessions, subscribed>>
  BY DEF OnListSessions
<1>2. p \in Pages
  BY <1>1, CommandedTypes
<1>3. ~Shows(List({}), s) /\ ~Names(List({}), s) /\ List({}) \in AgentMessage
  BY SpeaksOf, MessageTypes
<1>4. CASE Reply(p, List({})) /\ UNCHANGED toAgent
  BY <1>1, <1>2, <1>3, <1>4, ReplyQueues, LesserSame, BirthCommandedOnly DEF NoTrace
<1>5. CASE /\ UNCHANGED toPage
           /\ \E S \in SUBSET agents :
                toAgent' = [c \in Conns |-> IF c \in S THEN Append(toAgent[c], ListSessions) ELSE toAgent[c]]
  <2>1. ASSUME NEW c \in Conns
        PROVE  (Asked(s, toAgent'[c]) => Asked(s, toAgent[c])) /\ Lesser(Command("spawn", s), toAgent[c], toAgent'[c])
    BY <1>5, CommandTypes, Commands, LesserAppend, LesserSame DEF Typed, WiresTyped, Asked
  <2>2. NoTrace(s) => \A c \in Conns : ~Asked(s, toAgent'[c])
    BY <2>1 DEF NoTrace
  <2>3. \A q \in Pages : Msgs(toPage'[q]) \subseteq Msgs(toPage[q]) \cup {List({})}
    BY <1>5
  <2>4. QED
    BY <1>1, <1>3, <2>1, <2>2, <2>3, BirthCommandedOnly
<1>6. QED
  BY <1>4, <1>5 DEF OnListSessions

-----------------------------------------------------------------------------
(***************************************************************************)
(* What a page reads and what its user does.                               *)
(***************************************************************************)
LEMMA BirthPageOnly ==
  ASSUME Typed, NEW s \in SessionIds, PageOnly, drawn \subseteq drawn',
         NoTrace(s) => \A q \in Pages : Blank(s, toPage'[q]) /\ ~Asked(s, fromPage'[q])
                                        /\ (s \notin DOMAIN entries[q] => s \notin DOMAIN entries'[q]),
         \A q \in Pages : Lesser(Command("spawn", s), fromPage[q], fromPage'[q])
  PROVE  Passes(s)
BY LesserSame DEF PageOnly, registryVars, agentVars, NoTrace, Passes

\* What is asked for after a list.
LEMMA AskedQueues ==
  ASSUME NEW S \in SUBSET SessionIds
  PROVE  /\ SetToSeq({Command("scrollback", t) : t \in S}) \in Seq(ServerMessage)
         /\ Msgs(SetToSeq({Command("scrollback", t) : t \in S})) \subseteq {Command("scrollback", t) : t \in S}
<1> DEFINE C == {Command("scrollback", t) : t \in S}
           f == [t \in S |-> Command("scrollback", t)]
<1>1. IsFiniteSet(C)
  <2>1. IsFiniteSet(S)
    BY Bounds, FS_Subset
  <2>2. f \in Surjection(S, C)
    BY DEF Surjection
  <2> HIDE DEF C, f
  <2>3. QED
    BY <2>1, <2>2, FS_Surjection
<1>2. SetToSeq(C) \in Seq(C)
  BY <1>1, Sequenced
<1>3. Msgs(SetToSeq(C)) \subseteq C
  <2> HIDE DEF C
  <2>1. QED
    BY <1>2, SeqFacts DEF Msgs
<1>4. QED
  BY <1>3, AskedTypes

\* A page reads m.
LEMMA BirthReceive ==
  ASSUME Typed, NEW s \in SessionIds, NEW p \in Pages, NEW kinds, Receive(p, kinds),
         NoTrace(s) => /\ ~Asked(s, fromPage'[p]) /\ \A q \in Pages : q # p => fromPage'[q] = fromPage[q]
                       /\ \A q \in Pages : s \notin DOMAIN entries[q] => s \notin DOMAIN entries'[q],
         \A q \in Pages : Lesser(Command("spawn", s), fromPage[q], fromPage'[q])
  PROVE  Passes(s) /\ drawn' = drawn
BY ReceiveQueues, BirthPageOnly DEF Receive, linkVars, NoTrace, Blank

\* And sends something, or nothing.
LEMMA BirthReceiveSend ==
  ASSUME Typed, NEW s \in SessionIds, NEW p \in Pages, NEW kinds, Receive(p, kinds),
         NEW ms \in Seq(ServerMessage), Send(p, ms) \/ UNCHANGED fromPage,
         Command("spawn", s) \notin Msgs(ms), NoTrace(s) => Command("scrollback", s) \notin Msgs(ms),
         NoTrace(s) => \A q \in Pages : s \notin DOMAIN entries[q] => s \notin DOMAIN entries'[q]
  PROVE  Passes(s) /\ drawn' = drawn
BY LesserSame, BirthReceive, SendQueues DEF NoTrace, Asked

\* The tabs of one page.
LEMMA EntriesOf ==
  ASSUME Typed, NEW s, NEW p \in Pages, NEW f, entries' = [entries EXCEPT ![p] = f] \/ UNCHANGED entries,
         s \in DOMAIN f => s \in DOMAIN entries[p]
  PROVE  \A q \in Pages : s \notin DOMAIN entries[q] => s \notin DOMAIN entries'[q]
BY DEF Typed, PagesTyped

LEMMA BirthReceives ==
  ASSUME Typed, NEW s \in SessionIds, NEW p \in Pages, PageReceives(p)
  PROVE  Passes(s) /\ drawn' = drawn
<1> DEFINE m == Head(toPage[p])
<1>0. <<>> \in Seq(ServerMessage) /\ Msgs(<<>>) = {}
  BY MsgsEmpty
<1>1. ASSUME ReceiveStatus(p) PROVE Passes(s) /\ drawn' = drawn
  <2> DEFINE f == IF m.connected THEN entries[p] ELSE Unsubscribed(entries[p])
  <2>1. Receive(p, {"status"}) /\ entries' = [entries EXCEPT ![p] = f] /\ UNCHANGED fromPage
    BY <1>1 DEF ReceiveStatus
  <2>2. DOMAIN f = DOMAIN entries[p]
    BY DEF Unsubscribed
  <2> HIDE DEF f
  <2>3. \A q \in Pages : s \notin DOMAIN entries[q] => s \notin DOMAIN entries'[q]
    BY <2>1, <2>2, EntriesOf
  <2>4. QED
    BY <1>0, <2>1, <2>3, BirthReceiveSend
<1>2. ASSUME ReceiveReady(p) PROVE Passes(s) /\ drawn' = drawn
  <2>1. Receive(p, {"ready"}) /\ Send(p, <<ListSessions>>) /\ UNCHANGED entries
    BY <1>2 DEF ReceiveReady, viewVars
  <2>2. <<ListSessions>> \in Seq(ServerMessage) /\ Msgs(<<ListSessions>>) = {ListSessions}
    BY CommandTypes, OneOf, MsgsOne
  <2>3. Command("spawn", s) # ListSessions /\ Command("scrollback", s) # ListSessions
    BY Commands
  <2>4. QED
    BY <2>1, <2>2, <2>3, BirthReceiveSend
<1>3. ASSUME ReceiveList(p) PROVE Passes(s) /\ drawn' = drawn
  <2> DEFINE mine == entries[p]
             asked == {t \in m.ids : t \in DOMAIN mine => ~mine[t].subscribed}
             ms == SetToSeq({Command("scrollback", t) : t \in asked})
             restored(t) ==
               IF t \notin DOMAIN mine THEN NewEntry(TRUE)
               ELSE IF t \in asked THEN [mine[t] EXCEPT !.running = TRUE, !.subscribed = TRUE,
                                                        !.restoring = TRUE]
               ELSE IF t \in m.ids THEN [mine[t] EXCEPT !.running = TRUE]
               ELSE [mine[t] EXCEPT !.running = FALSE, !.subscribed = FALSE]
             f == [t \in DOMAIN mine \cup m.ids |-> restored(t)]
  <2>1. Receive(p, {"list"}) /\ (entries' = [entries EXCEPT ![p] = f] \/ UNCHANGED entries)
        /\ (Send(p, ms) \/ UNCHANGED fromPage)
    BY <1>3 DEF ReceiveList
  <2>2. m \in AgentMessage /\ m.is = "list" /\ m \in Msgs(toPage[p])
    <3>1. Receive(p, {"list"})
      BY <2>1
    <3>2. QED
      BY <3>1, ReceiveQueues
  <2>3. asked \subseteq m.ids /\ asked \in SUBSET SessionIds
    BY <2>2, MessageParts
  <2>4. NoTrace(s) => s \notin m.ids
    BY <2>2 DEF NoTrace, Blank, Names
  <2>5. ms \in Seq(ServerMessage) /\ Msgs(ms) \subseteq {Command("scrollback", t) : t \in asked}
    <3> HIDE DEF asked
    <3>1. QED
      BY <2>3, AskedQueues
  <2>6. Command("spawn", s) \notin Msgs(ms) /\ (NoTrace(s) => Command("scrollback", s) \notin Msgs(ms))
    <3> HIDE DEF asked, ms, m
    <3>1. QED
      BY <2>3, <2>4, <2>5, Commands
  <2>7. DOMAIN f = DOMAIN mine \cup m.ids
    OBVIOUS
  <2> HIDE DEF f, ms
  <2>8. NoTrace(s) => \A q \in Pages : s \notin DOMAIN entries[q] => s \notin DOMAIN entries'[q]
    BY <2>1, <2>4, <2>7, EntriesOf
  <2>9. QED
    BY <2>1, <2>5, <2>6, <2>8, BirthReceiveSend
<1>4. ASSUME ReceiveEvent(p) PROVE Passes(s) /\ drawn' = drawn
  <2> DEFINE closed == m.event \in {"exited", "killed"} /\ m.id \in closing[p]
             f == IF m.id \notin DOMAIN entries[p] THEN entries[p]
                  ELSE IF closed THEN Without(entries[p], {m.id})
                  ELSE [entries[p] EXCEPT ![m.id].running = (m.event = "started")]
  <2>1. Receive(p, {"event"}) /\ entries' = [entries EXCEPT ![p] = f] /\ UNCHANGED fromPage
    BY <1>4 DEF ReceiveEvent
  <2>2. DOMAIN f \subseteq DOMAIN entries[p]
    BY DEF Without, Restrict
  <2> HIDE DEF f
  <2>3. \A q \in Pages : s \notin DOMAIN entries[q] => s \notin DOMAIN entries'[q]
    BY <2>1, <2>2, EntriesOf
  <2>4. QED
    BY <1>0, <2>1, <2>3, BirthReceiveSend
<1>5. ASSUME ReceiveOutput(p) PROVE Passes(s) /\ drawn' = drawn
  <2> DEFINE e == entries[p][m.id]
             appended == IF e.restoring THEN e
                  ELSE [e EXCEPT !.shown = m.chunk, !.whole = @ /\ m.chunk = e.shown + 1]
             f == IF m.id \in DOMAIN entries[p] THEN [entries[p] EXCEPT ![m.id] = appended] ELSE entries[p]
  <2>1. Receive(p, {"output"}) /\ entries' = [entries EXCEPT ![p] = f] /\ UNCHANGED fromPage
    BY <1>5 DEF ReceiveOutput
  <2>2. DOMAIN f = DOMAIN entries[p]
    OBVIOUS
  <2> HIDE DEF f
  <2>3. \A q \in Pages : s \notin DOMAIN entries[q] => s \notin DOMAIN entries'[q]
    BY <2>1, <2>2, EntriesOf
  <2>4. QED
    BY <1>0, <2>1, <2>3, BirthReceiveSend
<1>6. ASSUME ReceiveDump(p) PROVE Passes(s) /\ drawn' = drawn
  <2> DEFINE f == IF m.id \in DOMAIN entries[p]
                  THEN [entries[p] EXCEPT ![m.id].restoring = FALSE, ![m.id].shown = m.upto,
                                          ![m.id].whole = TRUE]
                  ELSE entries[p]
             n == Command("resize", m.id)
  <2>1. Receive(p, {"dump"}) /\ entries' = [entries EXCEPT ![p] = f] /\ Send(p, <<n>>)
    BY <1>6 DEF ReceiveDump
  <2>2. DOMAIN f = DOMAIN entries[p]
    OBVIOUS
  <2>3. m.id \in SessionIds
    <3>1. m \in AgentMessage /\ m.is = "dump"
      BY <2>1, ReceiveQueues
    <3>2. QED
      BY <3>1, MessageParts
  <2> HIDE DEF f
  <2>4. \A q \in Pages : s \notin DOMAIN entries[q] => s \notin DOMAIN entries'[q]
    BY <2>1, <2>2, EntriesOf
  <2>5. n \in ServerMessage /\ n # Command("spawn", s) /\ n # Command("scrollback", s)
    BY <2>3, CommandTypes, Commands
  <2> HIDE DEF n, m
  <2>6. <<n>> \in Seq(ServerMessage) /\ Msgs(<<n>>) = {n}
    BY <2>5, OneOf, MsgsOne
  <2>7. QED
    BY <2>1, <2>4, <2>5, <2>6, BirthReceiveSend
<1>7. QED
  BY <1>1, <1>2, <1>3, <1>4, <1>5, <1>6 DEF PageReceives

LEMMA BirthLinks ==
  ASSUME Typed, NEW s \in SessionIds, NEW p \in Pages, Connect(p) \/ Disconnect(p)
  PROVE  Passes(s) /\ drawn' = drawn
<1>1. CASE Connect(p)
  <2>1. /\ toPage' = [toPage EXCEPT ![p] = <<Status(agents # {})>>] /\ Send(p, <<ListSessions>>)
        /\ UNCHANGED <<drawn, entries>> /\ PageOnly
    BY <1>1 DEF Connect, viewVars
  <2>2. <<ListSessions>> \in Seq(ServerMessage) /\ Msgs(<<ListSessions>>) = {ListSessions}
        /\ Command("spawn", s) # ListSessions /\ Command("scrollback", s) # ListSessions
    BY CommandTypes, OneOf, MsgsOne, Commands
  <2>3. /\ \A q \in Pages : Msgs(fromPage'[q]) \subseteq Msgs(fromPage[q]) \cup Msgs(<<ListSessions>>)
        /\ \A q \in Pages : \A m : m \notin Msgs(<<ListSessions>>) => Lesser(m, fromPage[q], fromPage'[q])
    BY <2>1, <2>2, SendQueues
  <2>4. ASSUME NoTrace(s), NEW q \in Pages PROVE Blank(s, toPage'[q]) /\ ~Asked(s, fromPage'[q])
    <3>1. Blank(s, <<Status(agents # {})>>)
      BY MsgsOne, SpeaksOf DEF Blank
    <3>2. toPage'[q] = toPage[q] \/ toPage'[q] = <<Status(agents # {})>>
      BY <2>1 DEF Typed, WiresTyped
    <3>3. Blank(s, toPage'[q])
      BY <2>4, <3>1, <3>2 DEF NoTrace
    <3>4. ~Asked(s, fromPage'[q])
      BY <2>2, <2>3, <2>4 DEF NoTrace, Asked
    <3>5. QED
      BY <3>3, <3>4
  <2>5. \A q \in Pages : Lesser(Command("spawn", s), fromPage[q], fromPage'[q])
    BY <2>2, <2>3
  <2>6. Passes(s)
    BY <2>1, <2>4, <2>5, BirthPageOnly
  <2>7. QED
    BY <2>1, <2>6
<1>2. CASE Disconnect(p)
  BY <1>2, EntriesOf, EmptyStream, LesserSame, LesserEmpty, BirthPageOnly DEF Disconnect, Typed, WiresTyped,
     Unsubscribed, NoTrace
<1>3. QED
  BY <1>1, <1>2

\* A command of the user that is no spawn of s.
LEMMA BirthUser ==
  ASSUME Typed, NEW s \in SessionIds, NEW p \in Pages, PageOnly, UNCHANGED toPage, drawn \subseteq drawn',
         NEW m \in ServerMessage, m # Command("spawn", s), m # Command("scrollback", s),
         Send(p, <<m>>) \/ UNCHANGED fromPage,
         \A q \in Pages : s \notin DOMAIN entries[q] => s \notin DOMAIN entries'[q]
  PROVE  Passes(s)
<1>1. CASE UNCHANGED fromPage
  BY <1>1, LesserSame, BirthPageOnly DEF NoTrace
<1>2. CASE Send(p, <<m>>)
  <2>1. <<m>> \in Seq(ServerMessage) /\ Msgs(<<m>>) = {m}
    BY OneOf, MsgsOne
  <2>2. /\ \A q \in Pages : Msgs(fromPage'[q]) \subseteq Msgs(fromPage[q]) \cup Msgs(<<m>>)
        /\ \A q \in Pages : \A n : n \notin Msgs(<<m>>) => Lesser(n, fromPage[q], fromPage'[q])
    BY <1>2, <2>1, SendQueues
  <2>3. NoTrace(s) => \A q \in Pages : Blank(s, toPage'[q]) /\ ~Asked(s, fromPage'[q])
                                      /\ (s \notin DOMAIN entries[q] => s \notin DOMAIN entries'[q])
    BY <2>1, <2>2 DEF NoTrace, Asked
  <2>4. \A q \in Pages : Lesser(Command("spawn", s), fromPage[q], fromPage'[q])
    BY <2>1, <2>2
  <2>5. QED
    BY <2>3, <2>4, BirthPageOnly
<1>3. QED
  BY <1>1, <1>2

LEMMA BirthClose ==
  ASSUME Typed, NEW s \in SessionIds, NEW p \in Pages, NEW t \in SessionIds, CloseTab(p, t)
  PROVE  Passes(s) /\ drawn' = drawn
<1> DEFINE m == Command("kill", t)
<1>1. PageOnly /\ UNCHANGED <<toPage, drawn>>
  BY DEF CloseTab
<1>2. \/ Send(p, <<m>>) /\ UNCHANGED entries
      \/ UNCHANGED fromPage /\ entries' = [entries EXCEPT ![p] = Without(entries[p], {t})]
  BY DEF CloseTab
<1>3. m \in ServerMessage /\ m # Command("spawn", s) /\ m # Command("scrollback", s)
  BY CommandTypes, Commands
<1>4. DOMAIN Without(entries[p], {t}) \subseteq DOMAIN entries[p]
  BY DEF Without, Restrict
<1>5. \A q \in Pages : s \notin DOMAIN entries[q] => s \notin DOMAIN entries'[q]
  BY <1>2, <1>4, EntriesOf
<1> HIDE DEF m
<1>6. Passes(s)
  BY <1>1, <1>2, <1>3, <1>5, BirthUser
<1>7. QED
  BY <1>1, <1>6

LEMMA NewSessionFacts ==
  ASSUME Typed, NEW p \in Pages, NEW t \in SessionIds, NewSession(p, t)
  PROVE  /\ PageOnly /\ UNCHANGED <<toPage, subscribed, agentUp, link>>
         /\ drawn' = drawn \cup {t} /\ t \notin drawn /\ agentUp[p] /\ fromPage[p] = <<>>
         /\ entries' = [entries EXCEPT ![p] = Put(entries[p], t, NewEntry(FALSE))]
         /\ Send(p, <<Command("spawn", t)>>) /\ Command("spawn", t) \in ServerMessage
         /\ \A q \in Pages : q # p => fromPage'[q] = fromPage[q] /\ entries'[q] = entries[q]
         /\ Msgs(fromPage'[p]) = {Command("spawn", t)} /\ Once(Command("spawn", t), fromPage'[p])
<1> DEFINE m == Command("spawn", t)
<1>1. /\ PageOnly /\ UNCHANGED <<toPage, subscribed, agentUp, link>>
      /\ drawn' = drawn \cup {t} /\ t \notin drawn /\ agentUp[p] /\ fromPage[p] = <<>>
      /\ entries' = [entries EXCEPT ![p] = Put(entries[p], t, NewEntry(FALSE))]
      /\ Send(p, <<m>>) /\ m \in ServerMessage
  BY CommandTypes DEF NewSession, Idle
<1>2. fromPage'[p] = <<>> \o <<m>> /\ \A q \in Pages : q # p => fromPage'[q] = fromPage[q] /\ entries'[q] = entries[q]
  BY <1>1 DEF Send, Typed, WiresTyped, PagesTyped
<1>3. <<>> \o <<m>> = <<m>>
  OBVIOUS
<1>4. QED
  BY <1>1, <1>2, <1>3, MsgsOne

LEMMA BirthNewSession ==
  ASSUME Typed, NEW s \in SessionIds, Birth(s), NEW p \in Pages, NEW t \in SessionIds, NewSession(p, t)
  PROVE  Birth(s)'
<1> DEFINE m == Command("spawn", t)
<1>1. /\ PageOnly /\ UNCHANGED toPage
      /\ drawn' = drawn \cup {t} /\ t \notin drawn
      /\ m \in ServerMessage
      /\ \A q \in Pages : q # p => fromPage'[q] = fromPage[q] /\ entries'[q] = entries[q]
      /\ Msgs(fromPage'[p]) = {m} /\ Once(m, fromPage'[p])
  BY NewSessionFacts
<1>2. CASE t # s
  <2>1. m # Command("spawn", s) /\ m # Command("scrollback", s)
    BY <1>2, Commands
  <2>2. \A q \in Pages : s \notin DOMAIN entries[q] => s \notin DOMAIN entries'[q]
    <3>1. entries' = [entries EXCEPT ![p] = Put(entries[p], t, NewEntry(FALSE))]
      BY NewSessionFacts
    <3>2. s \in DOMAIN Put(entries[p], t, NewEntry(FALSE)) => s \in DOMAIN entries[p]
      BY <1>2 DEF Put
    <3>3. QED
      BY <3>1, <3>2, EntriesOf
  <2>3. Send(p, <<m>>)
    BY NewSessionFacts
  <2>4. Passes(s)
    <3> HIDE DEF m
    <3>1. QED
      BY <1>1, <2>1, <2>2, <2>3, BirthUser
  <2>5. QED
    BY <1>1, <1>2, <2>4, BirthKept
<1>3. CASE t = s
  BY <1>1, <1>3, Commands DEF Birth, PageOnly, registryVars, agentVars, Asked, Unborn, NoTrace, Begun, Ordered
<1>4. QED
  BY <1>2, <1>3

\* The spawn of s reaches the agent.
LEMMA BirthSpawns ==
  ASSUME Typed, NEW s \in SessionIds, Birth(s), Spawns(s)
  PROVE  Birth(s)' /\ drawn' = drawn
<1> DEFINE m == Command("spawn", s)
<1>1. Dispatched({"spawn"}) /\ Head(toAgent[conn]) = m
  BY DEF Spawns, Spawn
<1>2. /\ m \in Msgs(toAgent[conn]) /\ conn \in Conns
      /\ \A c \in Conns : c # conn => toAgent'[c] = toAgent[c]
      /\ Once(m, toAgent[conn]) => m \notin Msgs(toAgent'[conn])
  BY <1>1, DispatchedQueues, DispatchedTypes
<1>3. Underway(conn, s)
  BY <1>2 DEF Birth, Begun
<1>4. \A c \in Conns : ~Begun(s, toAgent'[c])
  BY <1>2, <1>3 DEF Underway, Begun
<1>5. UNCHANGED <<fromPage, drawn>>
  BY <1>1, DispatchedTypes DEF AgentOnly, linkVars
<1>6. s \in drawn /\ \A p \in Pages : ~Begun(s, fromPage[p])
  BY <1>2 DEF Birth, Begun, Unborn, Ordered
<1>7. QED
  BY <1>4, <1>5, <1>6 DEF Birth

LEMMA BirthNext ==
  ASSUME Typed, NEW s \in SessionIds, Birth(s), [Next]_vars
  PROVE  Birth(s)'
<1>1. ASSUME Passes(s) /\ drawn' = drawn PROVE Birth(s)'
  BY <1>1, BirthKept
<1>2. CASE UNCHANGED vars
  BY <1>1, <1>2, LesserSame DEF vars, registryVars, agentVars, wireVars, linkVars, viewVars, NoTrace, Passes
<1>3. ASSUME NEW c \in Conns,
             OnSessionList(c) \/ OnSessionMessage(c) \/ OnReady(c) \/ Reap(c) \/ SendPing(c) \/ ServerHangup(c)
      PROVE  Birth(s)'
  BY <1>1, <1>3, BirthReceived, BirthPing, BirthUnregister DEF Reap, ServerHangup
<1>4. ASSUME NEW p \in Pages, OnSpawnSession(p) \/ OnSessionCommand(p) \/ OnListSessions(p)
      PROVE  Birth(s)'
  BY <1>1, <1>4, BirthSpawnSession, BirthSessionCommand, BirthListSessions
<1>5. CASE AgentConnect
  BY <1>1, <1>5, BirthConnect
<1>6. CASE AgentSend \/ AgentDrop
  BY <1>1, <1>6, BirthSend, BirthDrop
<1>7. CASE Dispatch
  BY <1>1, <1>7, BirthDispatch, BirthSpawns
<1>8. CASE FinishSpawn \/ \E t \in DOMAIN ptys : Produce(t) \/ Exit(t) \/ Reader(t)
  BY <1>1, <1>8, BirthReader
<1>9. ASSUME NEW p \in Pages, Connect(p) \/ Disconnect(p) \/ PageReceives(p) PROVE Birth(s)'
  BY <1>1, <1>9, BirthLinks, BirthReceives
<1>10. ASSUME NEW p \in Pages, NEW t \in SessionIds, NewSession(p, t) \/ CloseTab(p, t) PROVE Birth(s)'
  BY <1>1, <1>10, BirthNewSession, BirthClose
<1>11. QED
  BY <1>2, <1>3, <1>4, <1>5, <1>6, <1>7, <1>8, <1>9, <1>10 DEF Next, ServerStep

-----------------------------------------------------------------------------
(***************************************************************************)
(* What the agent has said, in the order in which the server hears it: the *)
(* stream of a connection, and under NoConn what waits for the next one.   *)
(***************************************************************************)
Streams == 0..MaxConns

Stream(c) ==
  IF c = conn THEN IF c = NoConn THEN outgoing ELSE fromAgent[c] \o outgoing
  ELSE IF c = NoConn THEN <<>> ELSE fromAgent[c]

Later(c, d) == c # NoConn /\ (d > c \/ d = NoConn)

LEMMA StreamsAre ==
  /\ NoConn \in Streams /\ \A c \in Streams : c # NoConn => c \in Conns
  /\ \A c \in Conns : c \in Streams /\ c # NoConn /\ c \in Nat
BY Bounds DEF Streams, Conns, NoConn

LEMMA StreamTypes ==
  ASSUME Typed, NEW c \in Streams
  PROVE  Stream(c) \in Seq(AgentMessage) /\ Len(Stream(c)) \in Nat /\ conn \in Streams
BY StreamsAre, ConcatFacts, Bounds, SeqFacts DEF Typed, WiresTyped, AgentTyped, Stream, Streams

\* Nothing comes after the stream of the connection in use.
LEMMA LaterEmpty ==
  ASSUME Typed, Wired, NEW d \in Streams, Later(conn, d)
  PROVE  Stream(d) = <<>>
BY StreamsAre DEF Later, Wired, WiredAgent, Stream, Typed, RegistryTyped, AgentTyped

\* Streams with something in them are of connections up to the last one.
LEMMA StreamsBefore ==
  ASSUME Typed, Wired, NEW c \in Streams, c # NoConn, c # conn, conn # NoConn, Stream(c) # <<>>
  PROVE  Later(c, conn)
BY StreamsAre DEF Stream, Wired, WiredAgent, Typed, RegistryTyped, AgentTyped, Later

-----------------------------------------------------------------------------
(***************************************************************************)
(* How the streams change.                                                 *)
(***************************************************************************)

\* The beginning of the stream of c is gone; or its end, if it is not in use.
Trimmed(c) ==
  \E a : /\ Window(Stream(c)', Stream(c), a)
         /\ c = conn => a + Len(Stream(c)') = Len(Stream(c))

LEMMA WindowSame ==
  ASSUME NEW q, Len(q) \in Nat
  PROVE  Window(q, q, 0) /\ 0 + Len(q) = Len(q)
BY DEF Window

LEMMA WindowNone ==
  ASSUME NEW q, Len(q) \in Nat
  PROVE  Window(<<>>, q, 0)
BY DEF Window

LEMMA TrimmedSame ==
  ASSUME Typed, NEW c \in Streams, Stream(c)' = Stream(c)
  PROVE  Trimmed(c)
BY StreamTypes, WindowSame DEF Trimmed

LEMMA StreamsSame ==
  ASSUME UNCHANGED <<conn, outgoing, fromAgent>>
  PROVE  \A c : Stream(c)' = Stream(c)
BY DEF Stream

\* A first message less, of the connection's part of the stream.
LEMMA WindowTail ==
  ASSUME NEW S, NEW q \in Seq(S), NEW u \in Seq(S), q # <<>>
  PROVE  /\ Window(Tail(q) \o u, q \o u, 1) /\ 1 + Len(Tail(q) \o u) = Len(q \o u)
         /\ (q \o u)[1] = Head(q) /\ Len(q \o u) > 0
<1>1. /\ Len(q) \in Nat /\ Len(q) > 0 /\ Tail(q) \in Seq(S) /\ Len(Tail(q)) = Len(q) - 1 /\ Head(q) = q[1]
      /\ \A i \in 1..(Len(q) - 1) : Tail(q)[i] = q[i + 1]
  BY HeadFacts
<1>2. /\ Len(u) \in Nat /\ Len(q \o u) = Len(q) + Len(u)
      /\ \A i \in 1..Len(q) : (q \o u)[i] = q[i]
      /\ \A i \in 1..Len(u) : (q \o u)[Len(q) + i] = u[i]
  BY ConcatFacts
<1>3. PICK t : t = Tail(q)
  OBVIOUS
<1>4. t \in Seq(S) /\ Len(t) = Len(q) - 1 /\ \A i \in 1..(Len(q) - 1) : t[i] = q[i + 1]
  BY <1>1, <1>3
<1>5. /\ Len(t \o u) = Len(t) + Len(u)
      /\ \A i \in 1..Len(t) : (t \o u)[i] = t[i]
      /\ \A i \in 1..Len(u) : (t \o u)[Len(t) + i] = u[i]
  <2>1. t \in Seq(S)
    BY <1>4
  <2>2. QED
    BY <2>1, ConcatFacts
<1>6. PICK r, z : r = t \o u /\ z = q \o u
  OBVIOUS
<1>7. /\ Len(r) = Len(q) - 1 + Len(u) /\ Len(z) = Len(q) + Len(u)
      /\ \A i \in 1..(Len(q) - 1) : r[i] = q[i + 1]
      /\ \A i \in 1..Len(u) : r[Len(q) - 1 + i] = u[i]
      /\ \A i \in 1..Len(q) : z[i] = q[i]
      /\ \A i \in 1..Len(u) : z[Len(q) + i] = u[i]
  BY <1>1, <1>2, <1>4, <1>5, <1>6
<1>8. ASSUME NEW i \in 1..Len(r) PROVE r[i] = z[1 + i]
  <2>1. CASE i <= Len(q) - 1
    BY <1>1, <1>7, <2>1
  <2>2. CASE i > Len(q) - 1
    <3>1. PICK j : j = i - (Len(q) - 1)
      OBVIOUS
    <3>2. j \in 1..Len(u) /\ i = Len(q) - 1 + j /\ 1 + i = Len(q) + j
      BY <1>1, <1>2, <1>7, <2>2, <3>1
    <3>3. QED
      BY <1>7, <3>2
  <2>3. QED
    BY <1>1, <1>2, <1>7, <2>1, <2>2
<1>9. Window(r, z, 1) /\ 1 + Len(r) = Len(z) /\ z[1] = q[1] /\ Len(z) > 0
  BY <1>1, <1>2, <1>7, <1>8 DEF Window
<1>10. QED
  BY <1>1, <1>3, <1>6, <1>9

\* The server reads of a connection.
LEMMA ReceivedStreams ==
  ASSUME Typed, NEW c, NEW kinds, Received(c, kinds)
  PROVE  /\ c \in Streams /\ c \in Conns /\ conn' = conn
         /\ \A d \in Streams : d # c => Stream(d)' = Stream(d)
         /\ Window(Stream(c)', Stream(c), 1) /\ 1 + Len(Stream(c)') = Len(Stream(c))
         /\ Stream(c)[1] = Head(fromAgent[c]) /\ Len(Stream(c)) > 0
         /\ \A d \in Streams : Trimmed(d)
<1>1. /\ c \in Conns /\ c # NoConn /\ c \in Streams /\ fromAgent[c] \in Seq(AgentMessage) /\ fromAgent[c] # <<>>
      /\ fromAgent' = [fromAgent EXCEPT ![c] = Tail(@)] /\ UNCHANGED <<conn, outgoing>>
  BY ReceivedTypes, StreamsAre DEF agentVars
<1>2. fromAgent'[c] = Tail(fromAgent[c]) /\ \A d \in Conns : d # c => fromAgent'[d] = fromAgent[d]
  BY <1>1 DEF Typed, WiresTyped
<1>3. \A d \in Streams : d # c => Stream(d)' = Stream(d)
  BY <1>1, <1>2, StreamsAre DEF Stream
<1>4. PICK q : q = fromAgent[c]
  OBVIOUS
<1>5. q \in Seq(AgentMessage) /\ q # <<>> /\ outgoing \in Seq(AgentMessage)
  BY <1>1, <1>4 DEF Typed, AgentTyped
<1>6. Window(Stream(c)', Stream(c), 1) /\ 1 + Len(Stream(c)') = Len(Stream(c))
      /\ Stream(c)[1] = Head(q) /\ Len(Stream(c)) > 0
  <2>1. CASE c = conn
    <3>1. Stream(c) = q \o outgoing /\ Stream(c)' = Tail(q) \o outgoing
      BY <1>1, <1>2, <1>4, <2>1 DEF Stream
    <3>2. QED
      BY <1>5, <3>1, WindowTail
  <2>2. CASE c # conn
    <3>1. Stream(c) = q /\ Stream(c)' = Tail(q)
      BY <1>1, <1>2, <1>4, <2>2 DEF Stream
    <3>2. Window(Tail(q), q, 1) /\ Len(q) \in Nat /\ Len(q) > 0 /\ Len(Tail(q)) = Len(q) - 1 /\ q[1] = Head(q)
      BY <1>5, MsgsTail
    <3>3. 1 + Len(Tail(q)) = Len(q)
      BY <3>2
    <3>4. QED
      BY <3>1, <3>2, <3>3
  <2>3. QED
    BY <2>1, <2>2
<1>7. Trimmed(c)
  BY <1>6 DEF Trimmed
<1>8. QED
  BY <1>1, <1>3, <1>4, <1>6, <1>7, TrimmedSame

\* The server gives up a connection.
LEMMA UnregisterStreams ==
  ASSUME Typed, NEW c, Unregister(c)
  PROVE  /\ c \in Conns /\ c \in Streams /\ c # NoConn /\ conn' = conn /\ outgoing' = outgoing
         /\ \A d \in Streams : d # c => Stream(d)' = Stream(d)
         /\ \A d \in Streams : Trimmed(d)
<1>1. c \in Conns /\ fromAgent' = [fromAgent EXCEPT ![c] = <<>>] /\ UNCHANGED <<conn, outgoing>>
  BY AgentsAre DEF Unregister, agentVars
<1>2. c # NoConn /\ c \in Streams /\ fromAgent[c] \in Seq(AgentMessage) /\ outgoing \in Seq(AgentMessage)
  BY <1>1, StreamsAre DEF Typed, WiresTyped, AgentTyped
<1>3. fromAgent'[c] = <<>> /\ \A d \in Conns : d # c => fromAgent'[d] = fromAgent[d]
  BY <1>1 DEF Typed, WiresTyped
<1>4. \A d \in Streams : d # c => Stream(d)' = Stream(d)
  BY <1>1, <1>3, StreamsAre DEF Stream
<1>5. CASE c = conn
  <2>1. Stream(c) = fromAgent[c] \o outgoing
    BY <1>2, <1>5 DEF Stream
  <2>2. Stream(c)' = <<>> \o outgoing
    BY <1>1, <1>2, <1>3, <1>5 DEF Stream
  <2>3. <<>> \o outgoing = outgoing
    BY <1>2, ConcatEmptySeq
  <2>4. PICK q : q = fromAgent[c]
    OBVIOUS
  <2>5. Len(q) \in Nat /\ Window(outgoing, q \o outgoing, Len(q)) /\ Len(q \o outgoing) = Len(q) + Len(outgoing)
    BY <1>2, <2>4, MsgsConcat, SeqFacts
  <2>6. PICK a : a = Len(q)
    OBVIOUS
  <2>7. Window(Stream(c)', Stream(c), a) /\ a + Len(Stream(c)') = Len(Stream(c))
    BY <2>1, <2>2, <2>3, <2>4, <2>5, <2>6
  <2>8. Trimmed(c)
    BY <2>7 DEF Trimmed
  <2>9. QED
    BY <1>1, <1>2, <1>4, <2>8, TrimmedSame
<1>6. CASE c # conn
  BY <1>1, <1>2, <1>3, <1>4, <1>6, StreamTypes, WindowNone, TrimmedSame DEF Stream, Trimmed
<1>7. QED
  BY <1>5, <1>6

\* One element moves from the head of a sequence to the end of another.
LEMMA MoveHead ==
  ASSUME NEW S, NEW q \in Seq(S), NEW u \in Seq(S), u # <<>>
  PROVE  /\ Window(Append(q, Head(u)) \o Tail(u), q \o u, 0)
         /\ 0 + Len(Append(q, Head(u)) \o Tail(u)) = Len(q \o u)
<1>1. /\ Len(u) \in Nat /\ Len(u) > 0 /\ Tail(u) \in Seq(S) /\ Len(Tail(u)) = Len(u) - 1 /\ Head(u) = u[1] /\ Head(u) \in S
      /\ \A i \in 1..(Len(u) - 1) : Tail(u)[i] = u[i + 1]
  BY HeadFacts
<1>2. PICK t, h : t = Tail(u) /\ h = Head(u)
  OBVIOUS
<1>3. t \in Seq(S) /\ h \in S
  BY <1>1, <1>2
<1>4. /\ Len(q) \in Nat /\ Append(q, h) \in Seq(S) /\ Len(Append(q, h)) = Len(q) + 1
      /\ \A i \in 1..Len(q) : Append(q, h)[i] = q[i]
      /\ Append(q, h)[Len(q) + 1] = h
  BY <1>3, AppendFacts
<1>5. PICK p : p = Append(q, h)
  OBVIOUS
<1>6. p \in Seq(S)
  BY <1>4, <1>5
<1>7. /\ Len(p \o t) = Len(p) + Len(t)
      /\ \A i \in 1..Len(p) : (p \o t)[i] = p[i]
      /\ \A i \in 1..Len(t) : (p \o t)[Len(p) + i] = t[i]
  BY <1>3, <1>6, ConcatFacts
<1>8. /\ Len(q \o u) = Len(q) + Len(u)
      /\ \A i \in 1..Len(q) : (q \o u)[i] = q[i]
      /\ \A i \in 1..Len(u) : (q \o u)[Len(q) + i] = u[i]
  BY ConcatFacts
<1>9. PICK r, z : r = p \o t /\ z = q \o u
  OBVIOUS
<1>10. /\ Len(p) = Len(q) + 1 /\ \A i \in 1..Len(q) : p[i] = q[i]
       /\ p[Len(q) + 1] = h
  BY <1>4, <1>5
<1>11. /\ Len(r) = Len(p) + Len(t) /\ \A i \in 1..Len(p) : r[i] = p[i]
       /\ \A i \in 1..Len(t) : r[Len(p) + i] = t[i]
  BY <1>7, <1>9
<1>12. /\ Len(z) = Len(q) + Len(u) /\ \A i \in 1..Len(q) : z[i] = q[i]
       /\ \A i \in 1..Len(u) : z[Len(q) + i] = u[i]
  BY <1>8, <1>9
<1>13. /\ Len(t) = Len(u) - 1 /\ h = u[1] /\ \A i \in 1..(Len(u) - 1) : t[i] = u[i + 1]
  BY <1>1, <1>2
<1>14. ASSUME NEW i \in 1..Len(r) PROVE r[i] = z[i]
  <2>1. CASE i <= Len(q)
    BY <1>4, <1>10, <1>11, <1>12, <2>1
  <2>2. CASE i = Len(q) + 1
    BY <1>1, <1>4, <1>10, <1>11, <1>12, <1>13, <2>2
  <2>3. CASE i > Len(q) + 1
    <3>1. PICK j : j = i - (Len(q) + 1)
      OBVIOUS
    <3>2. j \in 1..Len(t) /\ i = Len(p) + j /\ i = Len(q) + (j + 1) /\ j + 1 \in 1..Len(u) /\ j \in 1..(Len(u) - 1)
      BY <1>1, <1>4, <1>10, <1>11, <1>13, <2>3, <3>1
    <3>3. r[i] = t[j] /\ z[i] = u[j + 1]
      BY <1>11, <1>12, <3>2
    <3>4. QED
      BY <1>13, <3>2, <3>3
  <2>4. QED
    BY <1>1, <1>4, <1>10, <1>11, <1>13, <2>1, <2>2, <2>3
<1>15. Len(r) = Len(z) /\ Len(r) \in Nat
  BY <1>1, <1>4, <1>10, <1>11, <1>12, <1>13
<1>16. \A i \in 1..Len(r) : r[i] = z[0 + i]
  BY <1>14, <1>15
<1>17. Window(r, z, 0) /\ 0 + Len(r) = Len(z)
  BY <1>15, <1>16 DEF Window
<1>18. QED
  BY <1>2, <1>5, <1>9, <1>17

\* What the agent sends, or loses.
LEMMA SendStreams ==
  ASSUME Typed, Wired, AgentSend
  PROVE  /\ conn' = conn
         /\ \A d \in Streams : d # conn => Stream(d)' = Stream(d)
         /\ \A d \in Streams : Trimmed(d)
         /\ conn \in agents => Window(Stream(conn)', Stream(conn), 0) /\ 0 + Len(Stream(conn)') = Len(Stream(conn))
<1>1. /\ conn \in Conns /\ conn # NoConn /\ outgoing # <<>> /\ outgoing' = Tail(outgoing) /\ conn' = conn
  BY ConnIn DEF AgentSend
<1>2. conn \in Streams
  BY <1>1, StreamsAre
<1>3. PICK q, u : q = fromAgent[conn] /\ u = outgoing
  OBVIOUS
<1>4. q \in Seq(AgentMessage) /\ u \in Seq(AgentMessage) /\ u # <<>>
  BY <1>1, <1>3 DEF Typed, WiresTyped, AgentTyped
<1>5. Stream(conn) = q \o u
  BY <1>1, <1>3 DEF Stream
<1>6. CASE conn \in agents /\ fromAgent' = [fromAgent EXCEPT ![conn] = Append(@, Head(outgoing))]
  <2>1. fromAgent'[conn] = Append(q, Head(u)) /\ \A d \in Conns : d # conn => fromAgent'[d] = fromAgent[d]
    BY <1>1, <1>3, <1>6 DEF Typed, WiresTyped
  <2>2. Stream(conn)' = Append(q, Head(u)) \o Tail(u)
    BY <1>1, <1>3, <2>1 DEF Stream
  <2>3. \A d \in Streams : d # conn => Stream(d)' = Stream(d)
    BY <1>1, <2>1, StreamsAre DEF Stream
  <2>4. Window(Stream(conn)', Stream(conn), 0) /\ 0 + Len(Stream(conn)') = Len(Stream(conn))
    BY <1>4, <1>5, <2>2, MoveHead
  <2>5. Trimmed(conn)
    BY <2>4 DEF Trimmed
  <2>6. QED
    BY <1>1, <2>3, <2>4, <2>5, TrimmedSame
<1>7. CASE conn \notin agents /\ UNCHANGED fromAgent
  <2>1. q = <<>>
    BY <1>1, <1>3, <1>7 DEF Wired, WiredAgent
  <2>2. Tail(u) \in Seq(AgentMessage)
    BY <1>4, HeadFacts
  <2>3. <<>> \o u = u /\ <<>> \o Tail(u) = Tail(u)
    BY <1>4, <2>2, ConcatEmptySeq
  <2>4. fromAgent'[conn] = <<>>
    BY <1>3, <1>7, <2>1
  <2>5. Stream(conn) = u /\ Stream(conn)' = Tail(u)
    BY <1>1, <1>3, <1>5, <2>1, <2>3, <2>4 DEF Stream
  <2>6. \A d \in Streams : d # conn => Stream(d)' = Stream(d)
    BY <1>1, <1>7 DEF Stream
  <2>7. Window(Tail(u), u, 1) /\ Len(u) \in Nat /\ Len(Tail(u)) = Len(u) - 1
    BY <1>4, MsgsTail
  <2>8. 1 + Len(Tail(u)) = Len(u)
    BY <2>7
  <2>9. Trimmed(conn)
    BY <2>5, <2>7, <2>8 DEF Trimmed
  <2>10. QED
    BY <1>1, <1>7, <2>6, <2>9, TrimmedSame
<1>8. QED
  BY <1>6, <1>7 DEF AgentSend

\* The agent queues something.
LEMMA EnqueueStreams ==
  ASSUME Typed, UNCHANGED <<conn, fromAgent>>, NEW m \in AgentMessage, Enqueue(m)
  PROVE  /\ conn \in Streams /\ Longer(Stream(conn)', Stream(conn), m)
         /\ \A d \in Streams : d # conn => Stream(d)' = Stream(d)
<1>1. \A d \in Streams : d # conn => Stream(d)' = Stream(d)
  BY DEF Stream
<1>2. conn \in Streams
  BY StreamTypes, StreamsAre
<1>3. Longer(outgoing', outgoing, m) /\ outgoing \in Seq(AgentMessage) /\ outgoing' = Append(outgoing, m)
  BY EnqueueQueues DEF Typed, AgentTyped, Enqueue
<1>4. CASE conn = NoConn
  BY <1>1, <1>2, <1>3, <1>4 DEF Stream
<1>5. CASE conn # NoConn
  <2>1. PICK q, u : q = fromAgent[conn] /\ u = outgoing
    OBVIOUS
  <2>2. q \in Seq(AgentMessage) /\ u \in Seq(AgentMessage)
    BY <1>2, <1>5, <2>1, StreamsAre DEF Typed, WiresTyped, AgentTyped
  <2>3. PICK v : v = Append(u, m)
    OBVIOUS
  <2>4. Stream(conn) = q \o u /\ Stream(conn)' = q \o v
    BY <1>3, <1>5, <2>1, <2>3 DEF Stream
  <2>5. /\ Len(u) \in Nat /\ v \in Seq(AgentMessage) /\ Len(v) = Len(u) + 1
        /\ \A i \in 1..Len(u) : v[i] = u[i]
        /\ v[Len(u) + 1] = m
    BY <2>2, <2>3, AppendFacts
  <2>6. v \in Seq(AgentMessage)
    BY <2>5
  <2>7. PICK r, z : r = q \o v /\ z = q \o u
    OBVIOUS
  <2>8. /\ Len(q) \in Nat /\ Len(r) = Len(q) + Len(v)
        /\ \A i \in 1..Len(q) : r[i] = q[i]
        /\ \A i \in 1..Len(v) : r[Len(q) + i] = v[i]
    BY <2>2, <2>6, <2>7, ConcatFacts
  <2>9. /\ Len(z) = Len(q) + Len(u)
        /\ \A i \in 1..Len(q) : z[i] = q[i]
        /\ \A i \in 1..Len(u) : z[Len(q) + i] = u[i]
    BY <2>2, <2>7, ConcatFacts
  <2>10. Len(z) \in Nat /\ Len(r) = Len(z) + 1 /\ Len(z) + 1 = Len(q) + (Len(u) + 1) /\ Len(u) + 1 \in 1..Len(v)
    BY <2>5, <2>8, <2>9
  <2>11. r[Len(z) + 1] = m
    BY <2>5, <2>8, <2>10
  <2>12. ASSUME NEW i \in 1..Len(z) PROVE r[i] = z[i]
    <3>1. CASE i <= Len(q)
      BY <2>8, <2>9, <3>1
    <3>2. CASE i > Len(q)
      <4>1. PICK j : j = i - Len(q)
        OBVIOUS
      <4>2. j \in 1..Len(u) /\ j \in 1..Len(v) /\ i = Len(q) + j
        BY <2>5, <2>8, <2>9, <2>10, <3>2, <4>1
      <4>3. QED
        BY <2>5, <2>8, <2>9, <4>2
    <3>3. QED
      BY <2>8, <2>10, <3>1, <3>2
  <2>13. Longer(r, z, m)
    BY <2>10, <2>11, <2>12 DEF Longer
  <2>14. QED
    BY <1>1, <1>2, <2>4, <2>7, <2>13
<1>6. QED
  BY <1>4, <1>5

\* The connection of the agent breaks: what waits is for the next one.
LEMMA DropStreams ==
  ASSUME Typed, Wired, AgentDrop
  PROVE  /\ conn # NoConn /\ conn \in Streams /\ conn' = NoConn
         /\ \A d \in Streams : d # conn /\ d # NoConn => Stream(d)' = Stream(d)
         /\ Stream(NoConn) = <<>>
         /\ \E a : Window(Stream(NoConn)', Stream(conn), a) /\ a + Len(Stream(NoConn)') = Len(Stream(conn))
                   /\ Window(fromAgent[conn], Stream(conn), 0) /\ a = Len(fromAgent[conn])
         /\ \A d : d = conn => Stream(d)' = fromAgent[conn]
BY ConnIn, StreamsAre, MsgsConcat DEF AgentDrop, Stream, Typed, WiresTyped, AgentTyped

\* The agent connects: what it runs goes ahead of what waits.
LEMMA ConnectStreams ==
  ASSUME Typed, Wired, AgentConnect
  PROVE  /\ conn = NoConn /\ Stream(NoConn)' = <<>>
         /\ \E n \in Streams :
              /\ n = conn' /\ n # NoConn /\ n = conns + 1
              /\ \A d \in Streams : d # n /\ d # NoConn => Stream(d)' = Stream(d)
              /\ Ahead2(Stream(n)', Stream(NoConn))
              /\ Stream(n)'[1] = Ready /\ Stream(n)'[2] = List(DOMAIN ptys)
              /\ \A d \in Streams : d > n => Stream(d)' = <<>>
              /\ Stream(n) = <<>>
<1>1. /\ conn = NoConn /\ conns < MaxConns /\ conns' = conns + 1 /\ conn' = conns + 1 /\ UNCHANGED outgoing
      /\ fromAgent' = [fromAgent EXCEPT ![conn'] = <<Ready, List(DOMAIN ptys)>>]
  BY DEF AgentConnect
<1>2. conns \in Nat /\ MaxConns \in Nat /\ agents \subseteq 1..conns /\ NoConn = 0
  BY Bounds DEF Typed, AgentTyped, RegistryTyped, NoConn
<1>3. PICK n : n = conn'
  OBVIOUS
<1>4. n = conns + 1 /\ n \in 1..MaxConns /\ n # NoConn /\ n \in Conns /\ n \in Streams /\ n \notin agents /\ n \in Nat
  BY <1>1, <1>2, <1>3 DEF Conns, Streams
<1>5. fromAgent[n] = <<>>
  BY <1>4 DEF Wired, WiredAgent
<1>6. fromAgent'[n] = <<Ready, List(DOMAIN ptys)>> /\ \A d \in Conns : d # n => fromAgent'[d] = fromAgent[d]
  BY <1>1, <1>3, <1>4 DEF Typed, WiresTyped
<1>7. \A d \in Streams : d # n /\ d # NoConn => Stream(d)' = Stream(d)
  BY <1>1, <1>3, <1>6, StreamsAre DEF Stream
<1>8. Stream(NoConn)' = <<>> /\ Stream(NoConn) = outgoing /\ Stream(n) = <<>>
      /\ Stream(n)' = <<Ready, List(DOMAIN ptys)>> \o outgoing
  BY <1>1, <1>3, <1>4, <1>5, <1>6 DEF Stream
<1>9. ASSUME NEW d \in Streams, d > n PROVE Stream(d)' = <<>>
  BY <1>1, <1>2, <1>4, <1>7, <1>9, StreamsAre DEF Streams, Wired, WiredAgent, Stream
<1>10. PICK a, b, q : a = Ready /\ b = List(DOMAIN ptys) /\ q = <<a, b>>
  OBVIOUS
<1>11. /\ Ahead2(q \o outgoing, outgoing) /\ (q \o outgoing)[1] = a /\ (q \o outgoing)[2] = b
  BY <1>10, MessageTypes, ConcatFacts DEF Typed, AgentTyped, Maps, Ahead2
<1>12. QED
  BY <1>1, <1>3, <1>4, <1>7, <1>8, <1>9, <1>10, <1>11

-----------------------------------------------------------------------------
(***************************************************************************)
(* What the agent says of s is in order: chunks follow one another within  *)
(* each stream, the stream in use ends with the last one printed, and      *)
(* nothing is printed once the end of s has been told.                     *)
(***************************************************************************)
Runs(s) == s \in DOMAIN ptys /\ ptys[s].reader \in {"held", "running"}

\* s may still print.
Able(s) == Runs(s) \/ \E c \in Conns : Begun(s, toAgent[c])

Printed(s) == IF s \in DOMAIN ptys THEN ptys[s].printed ELSE 0

Order(s) ==
  /\ \A c \in Streams : Consecutive(s, Stream(c)) /\ Final(s, Stream(c))
  /\ s \in DOMAIN ptys => UpTo(s, Stream(conn), Printed(s))
  /\ \A c \in Streams : HasEnd(s, Stream(c)) =>
       ~Able(s) /\ \A d \in Streams : Later(c, d) => ~HasOutput(s, Stream(d))

\* Nothing about s that matters here changes at the agent.
Keeps(s) ==
  /\ Able(s)' => Able(s)
  /\ s \in DOMAIN ptys' => s \in DOMAIN ptys /\ ptys'[s].printed = ptys[s].printed

LEMMA LaterKept ==
  \A c, d : Later(c, d)' <=> Later(c, d)
BY DEF Later

LEMMA OrderTrims ==
  ASSUME NEW s, Order(s), Keeps(s), conn' = conn, conn \in Streams, \A c \in Streams : Trimmed(c)
  PROVE  Order(s)'
BY WindowFacts, PartFacts, LaterKept DEF Order, Trimmed, Keeps, Printed

\* Nothing has been said of s, and nothing runs.
LEMMA MuteStreams ==
  ASSUME Typed, NEW s, Mute(s, outgoing), \A c \in Conns : Mute(s, fromAgent[c]), NEW c \in Streams
  PROVE  Mute(s, Stream(c))
<1>1. CASE c = conn /\ c # NoConn
  BY <1>1, StreamsAre, MsgsConcat DEF Typed, WiresTyped, AgentTyped, Stream, Mute
<1>2. CASE c # conn \/ c = NoConn
  BY <1>2, StreamsAre, EmptyStream DEF Stream
<1>3. QED
  BY <1>1, <1>2

LEMMA OrderBlank ==
  ASSUME Typed, NEW s, NoTrace(s)
  PROVE  Order(s) /\ \A c \in Streams : Mute(s, Stream(c))
BY MuteStreams, MuteIs DEF NoTrace, Mute, Msgs, Speaks, Closes, Consecutive, Final, Order

\* The agent queues m.
Fit(s, m) ==
  /\ Able(s)' => Able(s)
  /\ Prints(m, s) => s \in DOMAIN ptys /\ Able(s) /\ m.chunk \in Nat /\ m.chunk - 1 = Printed(s)
  /\ s \in DOMAIN ptys' => IF Shows(m, s) THEN At(m) = Printed(s)'
                           ELSE s \in DOMAIN ptys /\ ptys'[s].printed = ptys[s].printed
  /\ Closes(m, s) => ~Able(s)'

LEMMA OrderGrows ==
  ASSUME Typed, Wired, NEW s, Order(s), UNCHANGED <<conn, fromAgent>>, NEW m \in AgentMessage, Enqueue(m), Fit(s, m)
  PROVE  Order(s)'
<1>1. /\ conn \in Streams /\ Longer(Stream(conn)', Stream(conn), m)
      /\ \A d \in Streams : d # conn => Stream(d)' = Stream(d)
  BY EnqueueStreams
<1>2. PICK k : k = conn
  OBVIOUS
<1>3. PICK q, r : q = Stream(k) /\ r = Stream(k)'
  OBVIOUS
<1>4. k \in Streams /\ conn' = k /\ Longer(r, q, m)
  BY <1>1, <1>2, <1>3
<1>5. Consecutive(s, q) /\ Final(s, q) /\ (s \in DOMAIN ptys => UpTo(s, q, Printed(s)))
  BY <1>2, <1>3, <1>4 DEF Order
<1>6. Prints(m, s) => UpTo(s, q, m.chunk - 1) /\ m.chunk \in Nat
  BY <1>5 DEF Fit
<1>7. Prints(m, s) => \A c \in Streams : ~HasEnd(s, Stream(c))
  BY DEF Order, Fit
<1>8. Consecutive(s, r)
  BY <1>4, <1>5, <1>6, LongerFacts
<1>9. Final(s, r)
  BY <1>3, <1>4, <1>5, <1>7, GrownFacts
<1>10. s \in DOMAIN ptys' => UpTo(s, r, Printed(s)')
  BY <1>4, <1>5, LongerFacts DEF Fit, Printed
<1>11. (HasOutput(s, r) => HasOutput(s, q) \/ Prints(m, s)) /\ (HasEnd(s, r) => HasEnd(s, q) \/ Closes(m, s))
  BY <1>4, GrownFacts
<1>12. ASSUME NEW c \in Streams, HasEnd(s, Stream(c)')
       PROVE  ~Able(s)' /\ \A d \in Streams : Later(c, d) => ~HasOutput(s, Stream(d)')
  <2>1. CASE HasEnd(s, Stream(c))
    BY <1>1, <1>2, <1>3, <1>7, <1>11, <2>1 DEF Order, Fit
  <2>2. CASE ~HasEnd(s, Stream(c))
    BY <1>1, <1>2, <1>3, <1>11, <1>12, <2>2, LaterEmpty, Bounds, EmptyStream DEF Fit, Streams, Later
  <2>3. QED
    BY <2>1, <2>2
<1>13. \A c \in Streams : Consecutive(s, Stream(c)') /\ Final(s, Stream(c)')
  BY <1>1, <1>2, <1>3, <1>8, <1>9 DEF Order
<1>14. s \in DOMAIN ptys' => UpTo(s, Stream(k)', Printed(s)')
  BY <1>3, <1>10
<1>15. QED
  BY <1>2, <1>4, <1>12, <1>13, <1>14, LaterKept DEF Order

LEMMA OrderDrop ==
  ASSUME Typed, Wired, NEW s, Order(s), Keeps(s), AgentDrop
  PROVE  Order(s)'
<1>1. /\ conn # NoConn /\ conn \in Streams /\ conn' = NoConn
      /\ \A d \in Streams : d # conn /\ d # NoConn => Stream(d)' = Stream(d)
      /\ Stream(NoConn) = <<>>
      /\ \A d : d = conn => Stream(d)' = fromAgent[conn]
  BY DropStreams
<1>2. PICK k : k = conn
  OBVIOUS
<1>3. PICK z, q, r : z = Stream(k) /\ q = fromAgent[k] /\ r = Stream(NoConn)'
  OBVIOUS
<1>4. PICK a : Window(r, z, a) /\ a + Len(r) = Len(z) /\ Window(q, z, 0) /\ a = Len(q)
  BY <1>2, <1>3, DropStreams
<1>5. k \in Streams /\ k # NoConn /\ NoConn \in Streams
  BY <1>1, <1>2, StreamsAre
<1>6. Consecutive(s, z) /\ Final(s, z) /\ (s \in DOMAIN ptys => UpTo(s, z, Printed(s)))
      /\ (HasEnd(s, z) => ~Able(s) /\ \A d \in Streams : Later(k, d) => ~HasOutput(s, Stream(d)))
  BY <1>2, <1>3, <1>5 DEF Order
<1>7. Consecutive(s, r) /\ Consecutive(s, q) /\ \A n : UpTo(s, z, n) => UpTo(s, r, n)
  BY <1>4, <1>6, WindowFacts
<1>8. /\ Final(s, r) /\ Final(s, q) /\ (HasOutput(s, r) => HasOutput(s, z)) /\ (HasOutput(s, q) => HasOutput(s, z))
      /\ (HasEnd(s, r) => HasEnd(s, z)) /\ (HasEnd(s, q) => HasEnd(s, z))
  BY <1>4, <1>6, PartFacts
<1>9. HasEnd(s, q) => ~HasOutput(s, r)
  <2>1. ASSUME HasEnd(s, q), HasOutput(s, r) PROVE FALSE
    <3>1. PICK i \in 1..Len(q) : Closes(q[i], s)
      BY <2>1 DEF HasEnd, Msgs
    <3>2. PICK j \in 1..Len(r) : Prints(r[j], s)
      BY <2>1 DEF HasOutput, Msgs
    <3>3. /\ Len(q) \in Nat /\ Len(r) \in Nat /\ Len(z) \in Nat /\ a = Len(q) /\ a + Len(r) = Len(z)
          /\ r[j] = z[a + j] /\ q[i] = z[0 + i] /\ 0 + i = i
      BY <1>4, <3>1, <3>2 DEF Window
    <3>4. i \in 1..Len(z) /\ a + j \in 1..Len(z) /\ i < a + j
      BY <3>1, <3>2, <3>3
    <3>5. QED
      BY <1>6, <3>1, <3>2, <3>3, <3>4 DEF Final
  <2>2. QED
    BY <2>1
<1>10. Stream(k)' = q /\ Stream(NoConn)' = r
  BY <1>1, <1>2, <1>3
<1>11. ASSUME NEW c \in Streams PROVE Consecutive(s, Stream(c)') /\ Final(s, Stream(c)')
  BY <1>1, <1>2, <1>7, <1>8, <1>10 DEF Order
<1>12. ASSUME NEW c \in Streams, HasEnd(s, Stream(c)')
       PROVE  ~Able(s)' /\ \A d \in Streams : Later(c, d) => ~HasOutput(s, Stream(d)')
  <2>1. CASE c = NoConn
    BY <1>6, <1>8, <1>10, <1>12, <2>1 DEF Later, Keeps
  <2>2. CASE c = k
    BY <1>1, <1>2, <1>6, <1>8, <1>9, <1>10, <1>12, <2>2, Bounds DEF Streams, Later, Keeps
  <2>3. CASE c # k /\ c # NoConn
    BY <1>1, <1>2, <1>3, <1>5, <1>8, <1>10, <1>12, <2>3, EmptyStream, StreamsBefore DEF Order, Keeps
  <2>4. QED
    BY <2>1, <2>2, <2>3
<1>13. s \in DOMAIN ptys' => UpTo(s, Stream(NoConn)', Printed(s)')
  BY <1>6, <1>7, <1>10 DEF Keeps, Printed
<1>14. QED
  BY <1>1, <1>11, <1>12, <1>13, LaterKept DEF Order

LEMMA OrderConnect ==
  ASSUME Typed, Wired, NEW s, Order(s), Keeps(s), AgentConnect
  PROVE  Order(s)'
<1>1. conn = NoConn /\ Stream(NoConn)' = <<>>
  BY ConnectStreams
<1>2. PICK n \in Streams :
              /\ n = conn' /\ n # NoConn /\ n = conns + 1
              /\ \A d \in Streams : d # n /\ d # NoConn => Stream(d)' = Stream(d)
              /\ Ahead2(Stream(n)', Stream(NoConn))
              /\ Stream(n)'[1] = Ready /\ Stream(n)'[2] = List(DOMAIN ptys)
              /\ \A d \in Streams : d > n => Stream(d)' = <<>>
              /\ Stream(n) = <<>>
  BY ConnectStreams
<1>3. PICK q, r : q = Stream(NoConn) /\ r = Stream(n)'
  OBVIOUS
<1>4. /\ Ahead2(r, q) /\ ~Shows(r[1], s) /\ ~Shows(r[2], s) /\ ~Prints(r[1], s) /\ ~Prints(r[2], s)
      /\ ~Closes(r[1], s) /\ ~Closes(r[2], s)
  BY <1>2, <1>3 DEF Shows, Prints, Closes, Ready, List
<1>5. NoConn \in Streams /\ Consecutive(s, q) /\ Final(s, q) /\ (s \in DOMAIN ptys => UpTo(s, q, Printed(s)))
      /\ (HasEnd(s, q) => ~Able(s))
  BY <1>1, <1>3, StreamsAre DEF Order
<1>6. Consecutive(s, r) /\ (s \in DOMAIN ptys => UpTo(s, r, Printed(s)))
  BY <1>4, <1>5, AheadFacts
<1>7. Len(q) \in Nat /\ Len(r) = Len(q) + 2 /\ \A i \in 1..Len(q) : r[2 + i] = q[i]
  BY <1>4 DEF Ahead2
<1>8. ASSUME NEW i \in 1..Len(r), Prints(r[i], s) \/ Closes(r[i], s)
      PROVE  \E j \in 1..Len(q) : i = 2 + j /\ r[i] = q[j]
  BY <1>4, <1>7, <1>8
<1>9. Final(s, r)
  BY <1>5, <1>7, <1>8 DEF Final
<1>10. (HasOutput(s, r) => HasOutput(s, q)) /\ (HasEnd(s, r) => HasEnd(s, q))
  BY <1>8 DEF Msgs, HasOutput, HasEnd
<1>11. ASSUME NEW c \in Streams PROVE Consecutive(s, Stream(c)') /\ Final(s, Stream(c)')
  BY <1>1, <1>2, <1>3, <1>6, <1>9, EmptyStream DEF Order
<1>12. ASSUME NEW c \in Streams, HasEnd(s, Stream(c)')
       PROVE  ~Able(s)' /\ \A d \in Streams : Later(c, d) => ~HasOutput(s, Stream(d)')
  BY <1>1, <1>2, <1>3, <1>5, <1>10, <1>12, EmptyStream DEF Later, Keeps, Order
<1>13. s \in DOMAIN ptys' => UpTo(s, Stream(n)', Printed(s)')
  BY <1>3, <1>6 DEF Keeps, Printed
<1>14. QED
  BY <1>2, <1>11, <1>12, <1>13, LaterKept DEF Order

-----------------------------------------------------------------------------
(***************************************************************************)
(* Every step keeps the order.                                             *)
(***************************************************************************)

\* s is born by being told of to the agent.
LEMMA AbleKept ==
  ASSUME NEW s, \A c \in Conns : Begun(s, toAgent'[c]) => Begun(s, toAgent[c]), Runs(s)' => Runs(s)
  PROVE  Able(s)' => Able(s)
BY DEF Able

LEMMA KeepsPassing ==
  ASSUME NEW s, Passes(s), UNCHANGED ptys
  PROVE  Keeps(s)
BY AbleKept DEF Passes, Lesser, Begun, Keeps, Runs

\* What is not the agent's leaves its part of the streams alone.
LEMMA OrderOutside ==
  ASSUME Typed, NEW s \in SessionIds, Order(s), Passes(s), UNCHANGED <<ptys, conn, outgoing, fromAgent>>
  PROVE  Order(s)'
BY StreamsSame, TrimmedSame, StreamTypes, StreamsAre, KeepsPassing, OrderTrims

\* The process that runs for s.
LEMMA RunsOne ==
  ASSUME NEW s, NEW t \in DOMAIN ptys, NEW v, DOMAIN ptys' = DOMAIN ptys,
         \A x \in DOMAIN ptys : x # t => ptys'[x] = ptys[x],
         ptys'[t].printed = ptys[t].printed,
         ptys'[t].reader \in {"held", "running"} => ptys[t].reader \in {"held", "running"}
  PROVE  /\ Runs(s)' => Runs(s)
         /\ s \in DOMAIN ptys' => s \in DOMAIN ptys /\ ptys'[s].printed = ptys[s].printed
BY DEF Runs

\* s runs: nobody spawns it any more.
LEMMA Unbegun ==
  ASSUME NEW s, Birth(s), s \in DOMAIN ptys
  PROVE  (\A c \in Conns : ~Begun(s, toAgent[c])) /\ \A p \in Pages : ~Begun(s, fromPage[p])
BY DEF Birth, Ordered, Underway, NoTrace

LEMMA PtyParts ==
  ASSUME Typed, NEW t \in DOMAIN ptys
  PROVE  t \in SessionIds /\ ptys[t] \in Pty /\ ptys[t].printed \in 0..MaxChunks /\ ptys[t].printed \in Nat
BY Bounds DEF Typed, AgentTyped, Maps, Pty

LEMMA MessageSays ==
  ASSUME NEW s
  PROVE  /\ \A t, e : ~Prints(Event(t, e), s) /\ ~Shows(Event(t, e), s)
                      /\ (Closes(Event(t, e), s) <=> t = s /\ e \in Ends)
         /\ \A t, n : (Prints(Output(t, n), s) <=> t = s) /\ (Shows(Output(t, n), s) <=> t = s)
                      /\ ~Closes(Output(t, n), s) /\ Output(t, n).chunk = n /\ At(Output(t, n)) = n
         /\ \A t, n : ~Prints(Dump(t, n), s) /\ (Shows(Dump(t, n), s) <=> t = s)
                      /\ ~Closes(Dump(t, n), s) /\ At(Dump(t, n)) = n
         /\ \A S : ~Prints(List(S), s) /\ ~Shows(List(S), s) /\ ~Closes(List(S), s)
BY DEF Prints, Shows, Closes, At, Event, Output, Dump, List

\* A message that says nothing of s goes by.
LEMMA OrderQuiet ==
  ASSUME Typed, Wired, NEW s, Order(s), Keeps(s), UNCHANGED <<conn, fromAgent>>,
         NEW m \in AgentMessage, Enqueue(m), ~Shows(m, s), ~Closes(m, s)
  PROVE  Order(s)'
BY OrderGrows DEF Fit, Keeps, Shows, Prints

\* Nothing is said at all.
LEMMA OrderStill ==
  ASSUME Typed, NEW s, Order(s), Keeps(s), UNCHANGED <<conn, outgoing, fromAgent>>
  PROVE  Order(s)'
BY StreamsSame, TrimmedSame, StreamTypes, StreamsAre, OrderTrims

\* The agent goes on: it says nothing, or one thing that fits; or s is spawned.
Utters(s) ==
  /\ UNCHANGED <<conn, fromAgent>> /\ (Able(s)' => Able(s))
  /\ \A c \in Conns : Begun(s, toAgent'[c]) => Begun(s, toAgent[c])
  /\ \/ UNCHANGED outgoing /\ (Keeps(s) \/ (NoTrace(s) /\ Printed(s)' = 0))
     \/ \E m \in AgentMessage : Enqueue(m) /\ Fit(s, m)

LEMMA UttersStill ==
  ASSUME NEW s, Keeps(s), UNCHANGED <<conn, outgoing, fromAgent>>,
         \A c \in Conns : Begun(s, toAgent'[c]) => Begun(s, toAgent[c])
  PROVE  Utters(s)
BY DEF Utters, Keeps

LEMMA UttersOne ==
  ASSUME NEW s, UNCHANGED <<conn, fromAgent>>, NEW m \in AgentMessage, Enqueue(m), Fit(s, m),
         \A c \in Conns : Begun(s, toAgent'[c]) => Begun(s, toAgent[c])
  PROVE  Utters(s)
BY DEF Utters, Fit

LEMMA UttersQuiet ==
  ASSUME NEW s, Keeps(s), UNCHANGED <<conn, fromAgent>>,
         NEW m \in AgentMessage, Enqueue(m), ~Shows(m, s), ~Closes(m, s),
         \A c \in Conns : Begun(s, toAgent'[c]) => Begun(s, toAgent[c])
  PROVE  Utters(s)
BY DEF Utters, Fit, Keeps, Shows, Prints

LEMMA UttersReader ==
  ASSUME Typed, NEW s \in SessionIds, Birth(s),
         FinishSpawn \/ \E t \in DOMAIN ptys : Produce(t) \/ Exit(t) \/ Reader(t)
  PROVE  Utters(s)
<1>1. ASSUME NEW t \in DOMAIN ptys, DOMAIN ptys' = DOMAIN ptys, UNCHANGED toAgent,
             \A x \in DOMAIN ptys : x # t => ptys'[x] = ptys[x],
             ptys'[t].printed = ptys[t].printed,
             ptys'[t].reader \in {"held", "running"} => ptys[t].reader \in {"held", "running"}
      PROVE  Keeps(s)
  BY <1>1, AbleKept DEF Runs, Keeps
<1>2. CASE FinishSpawn
  <2>1. /\ spawning # NoSession /\ Enqueue(Event(spawning, "started"))
        /\ ptys' = [ptys EXCEPT ![spawning].reader = "running"]
        /\ UNCHANGED <<toAgent, fromAgent, conn>>
    BY <1>2 DEF FinishSpawn
  <2>2. spawning \in DOMAIN ptys /\ ptys[spawning].reader = "held"
    BY <2>1 DEF Typed, AgentTyped, Held
  <2>3. ptys[spawning] \in Pty /\ spawning \in SessionIds
    BY <2>2, PtyParts
  <2>4. /\ DOMAIN ptys' = DOMAIN ptys /\ \A x \in DOMAIN ptys : x # spawning => ptys'[x] = ptys[x]
        /\ ptys'[spawning].printed = ptys[spawning].printed
    BY <2>1, <2>2, <2>3 DEF Pty
  <2>5. Keeps(s)
    BY <1>1, <2>1, <2>2, <2>4
  <2>6. Event(spawning, "started") \in AgentMessage /\ ~Shows(Event(spawning, "started"), s)
        /\ ~Closes(Event(spawning, "started"), s)
    BY <2>3, MessageTypes, MessageSays DEF Events, Ends
  <2>90. \A c \in Conns : Begun(s, toAgent'[c]) => Begun(s, toAgent[c])
    BY <2>1
  <2>7. QED
    BY <2>1, <2>5, <2>6, <2>90, UttersQuiet
<1>3. ASSUME NEW t \in DOMAIN ptys, Produce(t) PROVE Utters(s)
  <2>1. /\ ptys[t].reader = "running" /\ ptys[t].printed < MaxChunks
        /\ ptys' = [ptys EXCEPT ![t].printed = @ + 1]
        /\ Enqueue(Output(t, ptys[t].printed + 1)) /\ UNCHANGED <<toAgent, fromAgent, conn>>
    BY <1>3 DEF Produce
  <2>2. ptys[t] \in Pty /\ t \in SessionIds /\ ptys[t].printed \in Nat
    BY PtyParts
  <2>3. PICK n : n = ptys[t].printed + 1
    OBVIOUS
  <2>4. n \in Nat /\ n \in 1..MaxChunks /\ n - 1 = ptys[t].printed
    BY <2>1, <2>2, <2>3, Bounds
  <2>5. /\ DOMAIN ptys' = DOMAIN ptys /\ \A x \in DOMAIN ptys : x # t => ptys'[x] = ptys[x]
        /\ ptys'[t].printed = n /\ ptys'[t].reader = ptys[t].reader
    BY <2>1, <2>2, <2>3 DEF Pty
  <2>6. Enqueue(Output(t, n)) /\ Output(t, n) \in AgentMessage
    BY <2>1, <2>2, <2>3, <2>4, MessageTypes
  <2>7. Runs(s)' => Runs(s)
    BY <2>1, <2>5 DEF Runs
  <2>8. Able(s)' => Able(s)
    BY <2>1, <2>7, AbleKept
  <2>9. Fit(s, Output(t, n))
    <3>1. CASE t = s
      BY <2>1, <2>4, <2>5, <2>8, <3>1, MessageSays DEF Able, Runs, Printed, Fit
    <3>2. CASE t # s
      BY <2>5, <2>8, <3>2, MessageSays DEF Fit
    <3>3. QED
      BY <3>1, <3>2
  <2>10. UNCHANGED <<conn, fromAgent>>
    BY <2>1
  <2>90. \A c \in Conns : Begun(s, toAgent'[c]) => Begun(s, toAgent[c])
    BY <2>1
  <2>11. QED
    BY <2>6, <2>9, <2>10, <2>90, UttersOne
<1>4. ASSUME NEW t \in DOMAIN ptys, Exit(t) PROVE Utters(s)
  BY <1>1, <1>4, PtyParts, UttersStill DEF Exit, Pty
<1>5. ASSUME NEW t \in DOMAIN ptys, ReportEnd(t) PROVE Utters(s)
  <2> DEFINE e == IF ptys[t].killed THEN "killed" ELSE "exited"
  <2>1. /\ ptys[t].reader = "running" /\ Enqueue(Event(t, e))
        /\ ptys' = [ptys EXCEPT ![t].reader = "reported"] /\ UNCHANGED <<toAgent, fromAgent, conn>>
    BY <1>5 DEF ReportEnd
  <2>2. ptys[t] \in Pty /\ t \in SessionIds
    BY PtyParts
  <2>3. /\ DOMAIN ptys' = DOMAIN ptys /\ \A x \in DOMAIN ptys : x # t => ptys'[x] = ptys[x]
        /\ ptys'[t].printed = ptys[t].printed /\ ptys'[t].reader = "reported"
    BY <2>1, <2>2 DEF Pty
  <2>4. Keeps(s)
    BY <1>1, <2>1, <2>3
  <2>5. Event(t, e) \in AgentMessage /\ ~Shows(Event(t, e), s) /\ ~Prints(Event(t, e), s)
        /\ (Closes(Event(t, e), s) => t = s)
    BY <2>2, MessageTypes, MessageSays DEF Events
  <2>6. t = s => ~Able(s)'
    BY <2>1, <2>3, Unbegun DEF Runs, Able
  <2>7. Fit(s, Event(t, e))
    BY <2>4, <2>5, <2>6 DEF Fit, Keeps
  <2>8. UNCHANGED <<conn, fromAgent>>
    BY <2>1
  <2> HIDE DEF e
  <2>90. \A c \in Conns : Begun(s, toAgent'[c]) => Begun(s, toAgent[c])
    BY <2>1
  <2>9. QED
    BY <2>1, <2>5, <2>7, <2>8, <2>90, UttersOne
<1>6. ASSUME NEW t \in DOMAIN ptys, Forget(t) PROVE Utters(s)
  BY <1>6, AbleKept, UttersStill DEF Forget, Without, Restrict, Runs, Keeps
<1>7. QED
  BY <1>2, <1>3, <1>4, <1>5, <1>6 DEF Reader

LEMMA SpawnsFacts ==
  ASSUME Typed, NEW s \in SessionIds, Birth(s), Spawns(s)
  PROVE  NoTrace(s) /\ \A c \in Conns : ~Begun(s, toAgent'[c])
<1> DEFINE m == Command("spawn", s)
<1>1. Dispatched({"spawn"}) /\ Head(toAgent[conn]) = m
  BY DEF Spawns, Spawn
<1>2. /\ m \in Msgs(toAgent[conn]) /\ conn \in Conns
      /\ \A c \in Conns : c # conn => toAgent'[c] = toAgent[c]
      /\ Once(m, toAgent[conn]) => m \notin Msgs(toAgent'[conn])
  BY <1>1, DispatchedQueues, DispatchedTypes
<1>3. Underway(conn, s)
  BY <1>2 DEF Birth, Begun
<1>4. QED
  BY <1>2, <1>3 DEF Underway, Begun

\* Nothing has been said of s, and nothing is.
LEMMA OrderMute ==
  ASSUME Typed, NEW s, NoTrace(s), UNCHANGED <<conn, outgoing, fromAgent>>
  PROVE  Order(s)'
BY OrderBlank, StreamsSame, MuteIs, StreamTypes, StreamsAre DEF Order

LEMMA UttersDispatch ==
  ASSUME Typed, NEW s \in SessionIds, Birth(s), Dispatch
  PROVE  Utters(s)
<1> DEFINE m == Head(toAgent[conn])
<1>1. ASSUME NEW kinds, Dispatched(kinds)
      PROVE  UNCHANGED <<conn, fromAgent>> /\ m \in ServerMessage /\ m.do \in kinds
             /\ (\A c \in Conns : Begun(s, toAgent'[c]) => Begun(s, toAgent[c]))
  BY <1>1, DispatchedTypes, DispatchedQueues DEF Begun
<1>2. ASSUME Spawn PROVE Utters(s)
  <2>1. Dispatched({"spawn"})
    BY <1>2 DEF Spawn
  <2>2. m.id \in SessionIds /\ m = Command("spawn", m.id)
    BY <1>1, <2>1, CommandParts
  <2>3. PICK t \in SessionIds : t = m.id
    BY <2>2
  <2>4. t = s => NoTrace(s) /\ \A c \in Conns : ~Begun(s, toAgent'[c])
    BY <1>2, <2>2, <2>3, SpawnsFacts DEF Spawns
  <2>5. CASE Enqueue(Event(t, "failed")) /\ UNCHANGED ptys
    <3>1. Event(t, "failed") \in AgentMessage /\ ~Shows(Event(t, "failed"), s) /\ ~Prints(Event(t, "failed"), s)
          /\ (Closes(Event(t, "failed"), s) => t = s)
      BY MessageTypes, MessageSays DEF Events
    <3>2. Keeps(s)
      BY <1>1, <2>1, <2>5, AbleKept DEF Runs, Keeps
    <3>3. t = s => ~Able(s)'
      BY <2>4, <2>5 DEF Able, Runs, NoTrace
    <3>4. Fit(s, Event(t, "failed"))
      BY <3>1, <3>2, <3>3 DEF Fit, Keeps
    <3>5. UNCHANGED <<conn, fromAgent>>
      BY <1>1, <2>1
    <3>90. \A c \in Conns : Begun(s, toAgent'[c]) => Begun(s, toAgent[c])
      BY <1>1, <2>1
    <3>6. QED
      BY <2>5, <3>1, <3>4, <3>5, <3>90, UttersOne
  <2>6. CASE /\ ptys' = Put(ptys, t, [reader |-> "held", alive |-> TRUE, killed |-> FALSE, printed |-> 0])
             /\ UNCHANGED outgoing
    <3>0. UNCHANGED <<conn, fromAgent, outgoing>>
      BY <1>1, <2>1, <2>6
    <3>1. DOMAIN ptys' = DOMAIN ptys \cup {t} /\ \A x \in DOMAIN ptys : x # t => ptys'[x] = ptys[x]
      BY <2>6 DEF Put
    <3>2. CASE t # s
      BY <1>1, <2>1, <3>0, <3>1, <3>2, AbleKept, UttersStill DEF Runs, Keeps
    <3>3. CASE t = s
      <4>1. NoTrace(s) /\ \A c \in Conns : ~Begun(s, toAgent'[c])
        BY <2>4, <3>3
      <4>2. Begun(s, toAgent[conn]) /\ conn \in Conns
        BY <1>2, <2>1, <2>2, <2>3, <3>3, DispatchedQueues, DispatchedTypes DEF Begun
      <4>3. Printed(s)' = 0
        BY <2>6, <3>3 DEF Printed, Put
      <4>4. Able(s)
        BY <4>2 DEF Able
      <4>5. QED
        BY <3>0, <4>1, <4>3, <4>4 DEF Utters
    <3>4. QED
      BY <3>2, <3>3
  <2>7. QED
    BY <1>2, <2>3, <2>5, <2>6 DEF Spawn
<1>3. ASSUME Kill PROVE Utters(s)
  BY <1>1, <1>3, PtyParts, AbleKept, UttersStill DEF Kill, Pty, Runs, Keeps
<1>4. ASSUME NEW kinds, Dispatched(kinds), UNCHANGED ptys PROVE Keeps(s)
  BY <1>1, <1>4, AbleKept DEF Runs, Keeps
<1>5. ASSUME Resize PROVE Utters(s)
  BY <1>1, <1>4, <1>5, UttersStill DEF Resize
<1>6. ASSUME DumpScrollback PROVE Utters(s)
  <2> DEFINE n == IF m.id \in DOMAIN ptys THEN ptys[m.id].printed ELSE 0
  <2>1. Dispatched({"scrollback"}) /\ Enqueue(Dump(m.id, n)) /\ UNCHANGED ptys
    BY <1>6 DEF DumpScrollback
  <2>2. m.id \in SessionIds
    BY <1>1, <2>1, CommandParts
  <2>3. Dump(m.id, n) \in AgentMessage
    BY <2>2, Bounds, MessageTypes DEF Typed, AgentTyped, Maps, Pty
  <2>4. Keeps(s) /\ UNCHANGED <<conn, fromAgent>>
    BY <1>1, <1>4, <2>1
  <2>5. ~Prints(Dump(m.id, n), s) /\ (Shows(Dump(m.id, n), s) => m.id = s)
        /\ ~Closes(Dump(m.id, n), s) /\ At(Dump(m.id, n)) = n
    BY MessageSays
  <2>6. s \in DOMAIN ptys' /\ m.id = s => n = Printed(s)'
    BY <2>1 DEF Printed
  <2> HIDE DEF n, m
  <2>7. Fit(s, Dump(m.id, n))
    BY <2>4, <2>5, <2>6 DEF Fit, Keeps
  <2>90. \A c \in Conns : Begun(s, toAgent'[c]) => Begun(s, toAgent[c])
    BY <1>1, <2>1
  <2>8. QED
    BY <2>1, <2>3, <2>4, <2>7, <2>90, UttersOne
<1>7. ASSUME Relist PROVE Utters(s)
  <2>1. Dispatched({"list", "ping"}) /\ Enqueue(List(DOMAIN ptys)) /\ UNCHANGED ptys
    BY <1>7 DEF Relist
  <2>2. List(DOMAIN ptys) \in AgentMessage /\ ~Shows(List(DOMAIN ptys), s) /\ ~Closes(List(DOMAIN ptys), s)
    BY MessageTypes, MessageSays DEF Typed, AgentTyped, Maps
  <2>3. Keeps(s) /\ UNCHANGED <<conn, fromAgent>>
    BY <1>1, <1>4, <2>1
  <2>90. \A c \in Conns : Begun(s, toAgent'[c]) => Begun(s, toAgent[c])
    BY <1>1, <2>1
  <2>4. QED
    BY <2>1, <2>2, <2>3, <2>90, UttersQuiet
<1>8. QED
  BY <1>2, <1>3, <1>5, <1>6, <1>7 DEF Dispatch

\* What the agent says fits what it has said.
LEMMA OrderUtters ==
  ASSUME Typed, Wired, NEW s, Order(s), Utters(s)
  PROVE  Order(s)'
BY OrderStill, OrderMute, OrderGrows DEF Utters

\* A spawn of s on its way to the agent: nothing has been said of it.
LEMMA OrderAccepted ==
  ASSUME Typed, NEW s \in SessionIds, Birth(s), Order(s), NEW p, OnSpawnSession(p)
  PROVE  Order(s)'
<1>1. p \in Pages /\ Commanded(p, {"spawn"})
  BY SpawnSessionCases
<1>2. UNCHANGED <<ptys, conn, outgoing, fromAgent>>
  BY <1>1 DEF Commanded, agentVars
<1>3. PICK t \in SessionIds : (\E c \in Conns : Accepted(p, c, t)) \/ Refuse(p, t)
  BY SpawnSessionCases
<1>4. CASE Refuse(p, t)
  BY <1>1, <1>2, <1>4, BirthRefuse, OrderOutside
<1>5. ASSUME NEW c \in Conns, Accepted(p, c, t) PROVE Order(s)'
  <2>1. Command("spawn", t) \in ServerMessage /\ Forward(c, Command("spawn", t)) /\ (t # s => Command("spawn", t) # Command("spawn", s))
    BY <1>5, CommandTypes, Commands DEF Accepted
  <2>2. PICK n : n = Command("spawn", t)
    OBVIOUS
  <2>3. n \in ServerMessage /\ Forward(c, n) /\ (t # s => n # Command("spawn", s))
    BY <2>1, <2>2
  <2>4. /\ \A d \in Conns : d # c => toAgent'[d] = toAgent[d]
        /\ Msgs(toAgent'[c]) = Msgs(toAgent[c]) \cup {n}
    BY <2>3, ForwardQueues
  <2>5. CASE t # s
    BY <1>2, <2>3, <2>4, <2>5, AbleKept, OrderStill DEF Begun, Runs, Keeps
  <2>6. CASE t = s
    BY <1>1, <1>2, <1>5, <2>6, CommandedQueues, OrderMute DEF Begun, Accepted, Birth, Ordered
  <2>7. QED
    BY <2>5, <2>6
<1>6. QED
  BY <1>3, <1>4, <1>5

LEMMA OrderNext ==
  ASSUME Typed, Wired, NEW s \in SessionIds, Birth(s), Order(s), [Next]_vars
  PROVE  Order(s)'
<1>1. ASSUME UNCHANGED <<ptys, toAgent>> PROVE Keeps(s)
  BY <1>1 DEF Keeps, Able, Runs
<1>2. CASE UNCHANGED vars
  BY <1>1, <1>2, OrderStill DEF vars, agentVars, wireVars
<1>3. ASSUME NEW c \in Conns, OnSessionList(c) \/ OnSessionMessage(c) \/ OnReady(c) PROVE Order(s)'
  BY <1>1, <1>3, ReceivedStreams, StreamTypes, OrderTrims DEF OnSessionList, OnSessionMessage, OnReady,
     Received, agentVars
<1>4. ASSUME NEW c \in Conns, Unregister(c) PROVE Order(s)'
  BY <1>4, UnregisterStreams, StreamTypes, BirthUnregister, KeepsPassing, OrderTrims DEF Unregister, agentVars
<1>5. ASSUME NEW c \in Conns, SendPing(c) PROVE Order(s)'
  BY <1>5, BirthPing, OrderOutside DEF SendPing, agentVars
<1>6. ASSUME NEW p \in Pages, OnSpawnSession(p) \/ OnSessionCommand(p) \/ OnListSessions(p) PROVE Order(s)'
  BY <1>6, OrderAccepted, BirthSessionCommand, BirthListSessions, OrderOutside DEF OnSessionCommand,
     OnListSessions, Commanded, agentVars
<1>7. CASE AgentConnect
  BY <1>1, <1>7, OrderConnect DEF AgentConnect
<1>8. CASE AgentSend
  BY <1>1, <1>8, SendStreams, StreamTypes, StreamsAre, OrderTrims DEF AgentSend
<1>9. CASE AgentDrop
  BY <1>9, PtyParts, BirthDrop, AbleKept, OrderDrop DEF AgentDrop, Pty, Runs, Passes, Lesser, Begun, Keeps
<1>10. CASE Dispatch
  BY <1>10, UttersDispatch, OrderUtters
<1>11. CASE FinishSpawn \/ \E t \in DOMAIN ptys : Produce(t) \/ Exit(t) \/ Reader(t)
  BY <1>11, UttersReader, OrderUtters
<1>12. ASSUME PageOnly PROVE Order(s)'
  BY <1>1, <1>12, OrderStill DEF PageOnly, agentVars
<1>13. ASSUME NEW p \in Pages, Connect(p) \/ Disconnect(p) \/ PageReceives(p) PROVE Order(s)'
  BY <1>12, <1>13 DEF Connect, Disconnect, PageReceives, ReceiveStatus, ReceiveReady, ReceiveList, ReceiveEvent,
                      ReceiveOutput, ReceiveDump, Receive
<1>14. ASSUME NEW p \in Pages, NEW t \in SessionIds, NewSession(p, t) \/ CloseTab(p, t) PROVE Order(s)'
  BY <1>12, <1>14 DEF NewSession, CloseTab
<1>15. QED
  BY <1>2, <1>3, <1>4, <1>5, <1>6, <1>7, <1>8, <1>9, <1>10, <1>11, <1>13, <1>14
     DEF Next, ServerStep, Reap, ServerHangup

LEMMA OrderInit ==
  ASSUME Init, NEW s \in SessionIds
  PROVE  Order(s)
BY TypedInit, EmptyStream, MapsEmpty, OrderBlank DEF Init, NoTrace

-----------------------------------------------------------------------------
(***************************************************************************)
(* What a page that has read its queue shows of s, against what the server *)
(* and the agent still have to say.                                        *)
(***************************************************************************)

\* After chunk n, the registry's connection of s goes on with the next one.
Continues(s, n) ==
  s \in DOMAIN sessions =>
    /\ From(s, Stream(sessions[s]), n)
    /\ sessions[s] = conn /\ Able(s) /\ Silent(s, Stream(sessions[s])) => Printed(s) = n

\* There is, or may be, output of s on its way.
Live(s) == Able(s) \/ \E c \in Streams : HasOutput(s, Stream(c))

\* What page p may show of s at first.
Starts(s, up, ent) ==
  {x \in Views : /\ x.up = up
                 /\ x.has => /\ s \in DOMAIN ent /\ x.restoring = ent[s].restoring
                             /\ x.follows = ent[s].subscribed /\ x.shown = ent[s].shown}

Wants(p, s) == Asked(s, fromPage[p]) \/ Named(s, toPage[p])

\* s is not for p: nobody has drawn it, or another page is spawning it.
Elsewhere(p, s) == s \notin drawn \/ \E q \in Pages : q # p /\ Begun(s, fromPage[q])

\* Followed: the grid goes on where the stream does.  Not followed, or not
\* known: the page does not think it follows, and will ask for a dump.
Settled(x, up, known, followed, goesOn, live, wanted, begun, other) ==
  /\ x.up = up
  /\ known /\ followed => Quiet(x) \/ goesOn
  /\ known /\ ~followed /\ live => Quiet(x) \/ (~x.follows /\ ~wanted)
  /\ ~known /\ live => Quiet(x) \/ ~x.follows
  /\ begun => Quiet(x) \/ x.shown = 0
  /\ other => ~x.has

Fits(p, s, x) ==
  p \in DOMAIN subscribed =>
    Settled(x, agents # {}, s \in DOMAIN sessions, s \in subscribed[p], Continues(s, x.shown), Live(s),
            Wants(p, s), Begun(s, fromPage[p]), Elsewhere(p, s))

Fitting(p, s) == {x \in Views : Fits(p, s, x)}

PageSound(p, s) == Sound(s, Starts(s, agentUp[p], entries[p]), toPage[p], Fitting(p, s))

LEMMA FittingIs ==
  ASSUME NEW p, NEW s
  PROVE  \A x \in Views : x \in Fitting(p, s) <=> Fits(p, s, x)
BY DEF Fitting

LEMMA FittingNext ==
  ASSUME NEW p, NEW s
  PROVE  \A x \in Views : x \in Fitting(p, s)' <=> Fits(p, s, x)'
BY DEF Fitting

\* Everything else that Fits speaks of, at p and s, stays or gets easier.
Same(p, s) ==
  p \in DOMAIN subscribed' =>
    /\ p \in DOMAIN subscribed
    /\ s \in DOMAIN sessions' <=> s \in DOMAIN sessions
    /\ s \in subscribed'[p] <=> s \in subscribed[p]

Easier(p, s) ==
  /\ \A n : Continues(s, n) => Continues(s, n)'
  /\ Live(s)' => Live(s)
  /\ Wants(p, s)' => Wants(p, s)
  /\ Begun(s, fromPage[p])' => Begun(s, fromPage[p])
  /\ Elsewhere(p, s)' => Elsewhere(p, s)

\* y shows what x shows, or nothing.
Alike(x, y) == ~y.has \/ (x.has /\ y.restoring = x.restoring /\ y.follows = x.follows /\ y.shown = x.shown)

LEMMA FitsAlike ==
  ASSUME NEW p, NEW s, Same(p, s), Easier(p, s), NEW x, NEW y, Fits(p, s, x), Alike(x, y),
         y.up = (agents' # {}) \/ (y.up = x.up /\ (agents' # {}) = (agents # {}))
  PROVE  Fits(p, s, y)'
BY DEF Fits, Same, Settled, Quiet, Easier, Alike

-----------------------------------------------------------------------------
(***************************************************************************)
(* How a step keeps a page sound.                                          *)
(***************************************************************************)
LEMMA PageKept ==
  ASSUME Typed, NEW p \in Pages, NEW s, PageSound(p, s), UNCHANGED <<agentUp[p], entries[p], toPage[p]>>,
         \A x \in Views : Fits(p, s, x) => Fits(p, s, x)'
  PROVE  PageSound(p, s)'
BY SeqFacts, FittingIs, FittingNext, SoundWeaker DEF Typed, WiresTyped, PageSound, Starts

\* The page, as it was, will have read m too.
LEMMA PageLonger ==
  ASSUME NEW p \in Pages, NEW s, PageSound(p, s), UNCHANGED <<agentUp[p], entries[p]>>,
         NEW m, Longer(toPage'[p], toPage[p], m),
         \A x \in Views : Fits(p, s, x) => /\ Ahead(s, x, m)
                                           /\ \A y \in Views : Moves(s, x, m, y) => Fits(p, s, y)'
  PROVE  PageSound(p, s)'
BY FittingIs, FittingNext, SoundLonger DEF PageSound, Starts

\* Two more.
LEMMA PageLonger2 ==
  ASSUME NEW p \in Pages, NEW s, PageSound(p, s), UNCHANGED <<agentUp[p], entries[p]>>,
         NEW m, NEW n, NEW z, Longer(z, toPage[p], m), Longer(toPage'[p], z, n),
         \A x \in Views : Fits(p, s, x) =>
            /\ Ahead(s, x, m)
            /\ \A y \in Views : Moves(s, x, m, y) =>
                 /\ Ahead(s, y, n)
                 /\ \A w \in Views : Moves(s, y, n, w) => Fits(p, s, w)'
  PROVE  PageSound(p, s)'
<1>2. PICK X, q, r, E, F : X = Starts(s, agentUp[p], entries[p]) /\ q = toPage[p] /\ r = toPage'[p]
                           /\ E = Fitting(p, s) /\ F = Fitting(p, s)'
  OBVIOUS
<1> DEFINE G == {y \in Views : /\ Ahead(s, y, n)
                               /\ \A w \in Views : Moves(s, y, n, w) => Fits(p, s, w)'}
<1>3. \A x \in Views : x \in E => /\ Ahead(s, x, m)
                                  /\ \A y \in Views : Moves(s, x, m, y) => y \in G
  BY <1>2, FittingIs
<1>4. \A y \in Views : y \in G => /\ Ahead(s, y, n)
                                  /\ \A w \in Views : Moves(s, y, n, w) => w \in F
  BY <1>2, FittingNext
<1>5. Sound(s, X, q, E) /\ Longer(z, q, m) /\ Longer(r, z, n)
  BY <1>2 DEF PageSound
<1> HIDE DEF G
<1>6. Sound(s, X, z, G)
  BY <1>3, <1>5, SoundLonger
<1>7. Sound(s, X, r, F)
  BY <1>4, <1>5, <1>6, SoundLonger
<1>8. Starts(s, agentUp[p], entries[p])' = X /\ toPage'[p] = r
  BY <1>2 DEF Starts
<1>9. QED
  BY <1>2, <1>7, <1>8 DEF PageSound

-----------------------------------------------------------------------------
(***************************************************************************)
(* How messages move what a page shows.                                    *)
(***************************************************************************)
LEMMA MovesBlank ==
  ASSUME NEW s, NEW x \in Views, NEW y \in Views, NEW m, Moves(s, x, m, y), ~Shows(m, s),
         m.is \in {"ready", "output", "dump", "event"}
  PROVE  Alike(x, y) /\ y.up = x.up /\ Ahead(s, x, m)
BY DEF Moves, Alike, Ahead, Prints, Shows, Names, Views

LEMMA MovesStatus ==
  ASSUME NEW s, NEW x \in Views, NEW y \in Views, NEW b \in BOOLEAN, Moves(s, x, Status(b), y)
  PROVE  /\ y.up = b /\ (b => Alike(x, y)) /\ Ahead(s, x, Status(b))
         /\ ~y.has \/ (x.has /\ y.restoring = x.restoring /\ y.shown = x.shown /\ (y.follows => x.follows /\ b))
BY DEF Moves, Alike, Ahead, Prints, Shows, Names, Views, Status

LEMMA MovesList ==
  ASSUME NEW s, NEW x \in Views, NEW y \in Views, NEW S, Moves(s, x, List(S), y)
  PROVE  /\ y.up = x.up /\ Ahead(s, x, List(S))
         /\ \/ ~y.has
            \/ s \in S /\ x.up /\ ~(x.has /\ x.follows) /\ y.restoring
            \/ /\ x.has /\ y.restoring = x.restoring /\ y.shown = x.shown
               /\ ~(s \in S /\ x.up /\ ~x.follows) /\ (y.follows => x.follows /\ ~(x.up /\ s \notin S))
         /\ ~x.up => Alike(x, y)
BY DEF Moves, Alike, Ahead, Prints, Shows, Names, Views, List

LEMMA MovesShown ==
  ASSUME NEW s, NEW x \in Views, NEW y \in Views, NEW m \in AgentMessage, Moves(s, x, m, y), Shows(m, s)
  PROVE  /\ y.up = x.up
         /\ Quiet(y) \/ (x.has /\ y.shown = At(m))
         /\ y.has => x.has
BY DEF Shows, Moves, Names, Views, Quiet

\* No message but output leaves a gap.
LEMMA AheadUnless ==
  ASSUME NEW s, NEW x, NEW m, ~Prints(m, s)
  PROVE  Ahead(s, x, m)
BY DEF Ahead

-----------------------------------------------------------------------------
(***************************************************************************)
(* What the agent does is no news to a page.                               *)
(***************************************************************************)
Steady(s) == (\A n : Continues(s, n) => Continues(s, n)') /\ (Live(s)' => Live(s))

LEMMA ContinuesOn ==
  ASSUME NEW s, NEW n, Continues(s, n), NEW c,
         s \in DOMAIN sessions' => s \in DOMAIN sessions /\ sessions[s] = c /\ sessions'[s] = c,
         From(s, Stream(c), n) => From(s, Stream(c)', n),
         conn' = c => conn = c,
         conn' = c /\ Able(s)' /\ Silent(s, Stream(c)') /\ (Able(s) /\ Silent(s, Stream(c)) => Printed(s) = n)
           => Printed(s)' = n
  PROVE  Continues(s, n)'
BY DEF Continues

\* Streams that only lose what says nothing of s.
LEMMA ContinuesTrims ==
  ASSUME NEW s, NEW n, Continues(s, n), NEW c,
         s \in DOMAIN sessions' => s \in DOMAIN sessions /\ sessions[s] = c /\ sessions'[s] = c,
         From(s, Stream(c), n) => From(s, Stream(c)', n),
         conn' = c => conn = c, conn' = c /\ Silent(s, Stream(c)') => Silent(s, Stream(c)),
         Able(s)' => Able(s) /\ Printed(s)' = Printed(s)
  PROVE  Continues(s, n)'
BY ContinuesOn

LEMMA PrintedKept ==
  ASSUME NEW s, Birth(s), Keeps(s), \A c \in Conns : Begun(s, toAgent'[c]) => Begun(s, toAgent[c])
  PROVE  Able(s)' => Able(s) /\ Printed(s)' = Printed(s)
BY DEF Keeps, Printed, Able, Runs, Birth, Underway, NoTrace

LEMMA LiveTrims ==
  ASSUME NEW s, Able(s)' => Able(s), \A c \in Streams : Trimmed(c)
  PROVE  Live(s)' => Live(s)
BY PartFacts DEF Trimmed, Live

LEMMA SteadyUtters ==
  ASSUME Typed, NEW s, Birth(s), Utters(s),
         s \in DOMAIN sessions' => s \in DOMAIN sessions /\ sessions'[s] = sessions[s]
  PROVE  Steady(s)
<1>1. CASE UNCHANGED outgoing /\ (Keeps(s) \/ (NoTrace(s) /\ Printed(s)' = 0))
  <2>1. \A c : Stream(c)' = Stream(c)
    BY <1>1, StreamsSame DEF Utters
  <2>2. Able(s)' => Able(s) /\ Printed(s)' = Printed(s)
    BY <1>1, PrintedKept DEF Utters, NoTrace, Printed
  <2>3. ASSUME NEW n, Continues(s, n) PROVE Continues(s, n)'
    BY <2>1, <2>2, <2>3, ContinuesTrims DEF Utters
  <2>4. Live(s)' => Live(s)
    BY <2>1, <2>2 DEF Live
  <2>5. QED
    BY <2>3, <2>4 DEF Steady
<1>2. ASSUME NEW m \in AgentMessage, Enqueue(m), Fit(s, m) PROVE Steady(s)
  <2>1. /\ conn \in Streams /\ Longer(Stream(conn)', Stream(conn), m)
        /\ \A d \in Streams : d # conn => Stream(d)' = Stream(d)
    BY <1>2, EnqueueStreams DEF Utters
  <2>2. PICK k : k = conn
    OBVIOUS
  <2>3. PICK q, r : q = Stream(k) /\ r = Stream(k)'
    OBVIOUS
  <2>4. k \in Streams /\ conn' = k /\ Longer(r, q, m)
    BY <2>1, <2>2, <2>3 DEF Utters
  <2>5. Live(s)' => Live(s)
    BY <1>2, <2>1, <2>2, <2>3, <2>4, GrownFacts DEF Fit, Live
  <2>6. ASSUME NEW n, Continues(s, n), s \in DOMAIN sessions' PROVE Continues(s, n)'
    <3>1. PICK c : c = sessions[s]
      OBVIOUS
    <3>2. s \in DOMAIN sessions /\ sessions'[s] = c /\ c \in Streams
      BY <2>6, <3>1, AgentsAre, StreamsAre
    <3>3. CASE c # k
      BY <2>1, <2>2, <2>4, <2>6, <3>1, <3>2, <3>3, ContinuesOn
    <3>4. CASE c = k
      <4>1. From(s, q, n) /\ (Able(s) /\ Silent(s, q) => Printed(s) = n)
        BY <2>2, <2>3, <2>6, <3>1, <3>2, <3>4 DEF Continues
      <4>2. Prints(m, s) /\ Silent(s, q) => m.chunk = n + 1
        BY <1>2, <4>1 DEF Fit
      <4>3. From(s, r, n) /\ (Silent(s, r) => Silent(s, q) /\ ~Shows(m, s))
        BY <2>4, <4>1, <4>2, LongerFacts
      <4>4. ASSUME Able(s)', Silent(s, r) PROVE Printed(s)' = n
        BY <1>2, <4>1, <4>3, <4>4 DEF Fit, Printed, Able, Runs, Utters, Birth, Underway, NoTrace
      <4>5. From(s, Stream(c)', n) /\ (Able(s)' /\ Silent(s, Stream(c)') => Printed(s)' = n) /\ conn = c
        BY <2>2, <2>3, <3>4, <4>3, <4>4
      <4>6. QED
        BY <2>6, <3>1, <3>2, <4>5, ContinuesOn
    <3>5. QED
      BY <3>3, <3>4
  <2>7. s \notin DOMAIN sessions' => \A n : Continues(s, n)'
    BY DEF Continues
  <2>8. QED
    BY <2>5, <2>6, <2>7 DEF Steady
<1>3. QED
  BY <1>1, <1>2 DEF Utters

\* What changes nothing the page has been told, or that it goes by.
LEMMA SoundAlong ==
  ASSUME Typed, NEW p \in Pages, NEW s, PageSound(p, s), UNCHANGED <<agentUp[p], entries[p], toPage[p]>>,
         p \in DOMAIN subscribed' => Same(p, s) /\ Easier(p, s) /\ (agents' # {}) = (agents # {})
  PROVE  PageSound(p, s)'
BY FitsAlike, PageKept DEF Alike, Fits

LEMMA EasierSteady ==
  ASSUME NEW p \in Pages, NEW s, Steady(s), UNCHANGED <<fromPage, drawn, toPage[p]>>
  PROVE  Easier(p, s)
BY DEF Easier, Steady, Wants, Elsewhere

LEMMA PageAgentOnly ==
  ASSUME Typed, NEW p \in Pages, NEW s, PageSound(p, s), AgentOnly, Steady(s)
  PROVE  PageSound(p, s)'
BY EasierSteady, SoundAlong DEF AgentOnly, registryVars, linkVars, viewVars, Same

\* The agent says, sends or loses something.
LEMMA SteadySend ==
  ASSUME Typed, Wired, NEW s, AgentSend
  PROVE  Steady(s)
<1>1. UNCHANGED <<ptys, toAgent, sessions, conn>>
  BY DEF AgentSend, AgentOnly, registryVars
<1>2. Able(s)' = Able(s) /\ Printed(s)' = Printed(s)
  BY <1>1 DEF Able, Runs, Printed
<1>3. Live(s)' => Live(s)
  BY <1>2, SendStreams, LiveTrims
<1>4. ASSUME NEW n, Continues(s, n), s \in DOMAIN sessions PROVE Continues(s, n)'
  <2>1. PICK c : c = sessions[s]
    OBVIOUS
  <2>2. s \in DOMAIN sessions' /\ sessions'[s] = c /\ c \in Streams /\ c \in agents
    BY <1>1, <1>4, <2>1, AgentsAre, StreamsAre DEF Typed, RegistryTyped, Maps
  <2>3. Window(Stream(c)', Stream(c), 0) /\ 0 + Len(Stream(c)') = Len(Stream(c))
    BY <2>2, SendStreams, StreamTypes, WindowSame
  <2>4. PICK q, r : q = Stream(c) /\ r = Stream(c)'
    OBVIOUS
  <2>5. Window(r, q, 0) /\ Len(r) = Len(q)
    BY <2>3, <2>4 DEF Window
  <2>6. (From(s, q, n) => From(s, r, n)) /\ (Silent(s, r) => Silent(s, q))
    <3>1. From(s, q, n) => From(s, r, n)
      BY <2>5, WindowFacts
    <3>2. \A i \in 1..Len(q) : r[i] = q[i]
      BY <2>5 DEF Window
    <3>3. Silent(s, r) => Silent(s, q)
      BY <2>5, <3>2 DEF Silent
    <3>4. QED
      BY <3>1, <3>3
  <2>7. QED
    BY <1>1, <1>2, <1>4, <2>1, <2>2, <2>4, <2>6, ContinuesTrims
<1>5. s \notin DOMAIN sessions => \A n : Continues(s, n)'
  BY <1>1 DEF Continues
<1>6. QED
  BY <1>3, <1>4, <1>5 DEF Steady

LEMMA SteadyDrop ==
  ASSUME Typed, Wired, NEW s, Birth(s), AgentDrop
  PROVE  Steady(s)
<1>1. UNCHANGED sessions
  BY DEF AgentDrop, AgentOnly, registryVars
<1>2. Able(s)' => Able(s)
  BY PtyParts, EmptyStream, AbleKept DEF AgentDrop, Runs, Pty, Typed, WiresTyped
<1>3. PICK k : k = conn
  OBVIOUS
<1>4. /\ k # NoConn /\ k \in Streams /\ conn' = NoConn
      /\ \A d \in Streams : d # k /\ d # NoConn => Stream(d)' = Stream(d)
      /\ \E a : Window(Stream(NoConn)', Stream(k), a)
      /\ Window(Stream(k)', Stream(k), 0)
  BY <1>3, DropStreams
<1>5. Live(s)' => Live(s)
  BY <1>2, <1>4, PartFacts DEF Live
<1>6. ASSUME NEW n, Continues(s, n), s \in DOMAIN sessions PROVE Continues(s, n)'
  <2>1. PICK c : c = sessions[s]
    OBVIOUS
  <2>2. s \in DOMAIN sessions' /\ sessions'[s] = c /\ c \in Streams /\ c # NoConn
    BY <1>1, <1>6, <2>1, AgentsAre, StreamsAre
  <2>3. From(s, Stream(c), n) => From(s, Stream(c)', n)
    BY <1>4, <2>2, WindowFacts
  <2>4. conn' # c
    BY <1>4, <2>2
  <2>5. QED
    BY <1>6, <2>1, <2>2, <2>3, <2>4, ContinuesOn
<1>7. s \notin DOMAIN sessions => \A n : Continues(s, n)'
  BY <1>1 DEF Continues
<1>8. QED
  BY <1>5, <1>6, <1>7 DEF Steady

LEMMA SteadyConnect ==
  ASSUME Typed, Wired, NEW s, AgentConnect
  PROVE  Steady(s)
<1>1. UNCHANGED <<sessions, ptys, toAgent>>
  BY DEF AgentConnect
<1>2. Able(s)' => Able(s)
  BY <1>1 DEF Able, Runs
<1>3. PICK n \in Streams :
              /\ n = conn' /\ n # NoConn /\ n = conns + 1
              /\ \A d \in Streams : d # n /\ d # NoConn => Stream(d)' = Stream(d)
              /\ Ahead2(Stream(n)', Stream(NoConn))
              /\ Stream(n)'[1] = Ready /\ Stream(n)'[2] = List(DOMAIN ptys)
  BY ConnectStreams
<1>4. Stream(NoConn)' = <<>> /\ NoConn \in Streams
  BY ConnectStreams, StreamsAre
<1>5. Live(s)' => Live(s)
  <2>1. ASSUME NEW d \in Streams, HasOutput(s, Stream(d)') PROVE \E c \in Streams : HasOutput(s, Stream(c))
    <3>1. d # NoConn
      BY <1>4, <2>1, EmptyStream
    <3>2. CASE d # n
      BY <1>3, <2>1, <3>1, <3>2
    <3>3. CASE d = n
      <4>1. PICK q, r : q = Stream(NoConn) /\ r = Stream(n)'
        OBVIOUS
      <4>2. Ahead2(r, q) /\ ~Prints(r[1], s) /\ ~Prints(r[2], s) /\ HasOutput(s, r)
        BY <1>3, <2>1, <3>3, <4>1 DEF Prints, Ready, List
      <4>3. PICK i \in 1..Len(r) : Prints(r[i], s)
        BY <4>2 DEF HasOutput, Msgs
      <4>4. i - 2 \in 1..Len(q) /\ 2 + (i - 2) = i
        BY <4>2, <4>3 DEF Ahead2
      <4>5. r[i] = q[i - 2]
        BY <4>2, <4>4 DEF Ahead2
      <4>6. HasOutput(s, q)
        BY <4>3, <4>4, <4>5 DEF HasOutput, Msgs
      <4>7. QED
        BY <1>4, <4>1, <4>6
    <3>4. QED
      BY <3>2, <3>3
  <2>2. QED
    BY <1>2, <2>1 DEF Live
<1>6. ASSUME NEW m, Continues(s, m), s \in DOMAIN sessions PROVE Continues(s, m)'
  <2>1. PICK c : c = sessions[s]
    OBVIOUS
  <2>2. s \in DOMAIN sessions' /\ sessions'[s] = c /\ c \in Streams /\ c # NoConn /\ c \in agents
    BY <1>1, <1>6, <2>1, AgentsAre, StreamsAre DEF Typed, RegistryTyped, Maps
  <2>3. c # n
    BY <1>3, <2>2, Bounds DEF Typed, RegistryTyped, AgentTyped
  <2>4. Stream(c)' = Stream(c) /\ conn' # c
    BY <1>3, <2>2, <2>3
  <2>5. QED
    BY <1>6, <2>1, <2>2, <2>4, ContinuesOn
<1>7. s \notin DOMAIN sessions => \A m : Continues(s, m)'
  BY <1>1 DEF Continues
<1>8. QED
  BY <1>5, <1>6, <1>7 DEF Steady

\* The agent connects: there is one.
LEMMA PageConnect ==
  ASSUME Typed, Wired, NEW p \in Pages, NEW s, PageSound(p, s), AgentConnect
  PROVE  PageSound(p, s)'
<1>1. /\ UNCHANGED <<sessions, fromPage, drawn, agentUp, entries>> /\ agents' # {}
      /\ NotifyOwner(<<Status(TRUE)>>, {})
  BY DEF AgentConnect, viewVars
<1>2. PICK m : m = Status(TRUE)
  OBVIOUS
<1>3. m \in AgentMessage /\ ~Names(m, s)
  BY <1>2, MessageTypes, SpeaksOf
<1>4. /\ \/ toPage'[p] = toPage[p] /\ p \notin DOMAIN subscribed'
         \/ p \in DOMAIN subscribed /\ Longer(toPage'[p], toPage[p], m)
      /\ p \in DOMAIN subscribed' => p \in DOMAIN subscribed /\ subscribed'[p] = subscribed[p] \ {}
  BY <1>1, <1>2, <1>3, OwnerOne
<1>5. CASE toPage'[p] = toPage[p] /\ p \notin DOMAIN subscribed'
  BY <1>1, <1>5, SoundAlong
<1>6. CASE Longer(toPage'[p], toPage[p], m)
  <2>1. Same(p, s)
    BY <1>1, <1>4 DEF Same
  <2>2. Easier(p, s)
    <3>0. Msgs(toPage'[p]) = Msgs(toPage[p]) \cup {m}
      BY <1>6, GrownFacts
    <3>1. Named(s, toPage'[p]) => Named(s, toPage[p])
      BY <1>3, <3>0 DEF Named
    <3>2. QED
      BY <1>1, <3>1, SteadyConnect DEF Easier, Steady, Wants, Elsewhere
  <2>3. ASSUME NEW x \in Views, Fits(p, s, x)
        PROVE  /\ Ahead(s, x, m)
               /\ \A y \in Views : Moves(s, x, m, y) => Fits(p, s, y)'
    BY <1>1, <1>2, <2>1, <2>2, <2>3, MovesStatus, FitsAlike DEF Ahead, Prints, Status
  <2>4. QED
    BY <1>1, <1>6, <2>3, PageLonger
<1>7. QED
  BY <1>4, <1>5, <1>6

-----------------------------------------------------------------------------
(***************************************************************************)
(* A list of what the registry knows, S, goes to the pages.                *)
(***************************************************************************)
Lists(p, s, S) ==
  p \in DOMAIN subscribed' =>
    /\ p \in DOMAIN subscribed
    /\ s \in DOMAIN sessions' /\ s \in subscribed'[p] =>
         /\ s \in DOMAIN sessions /\ s \in subscribed[p]
         /\ \A n : Continues(s, n) => Continues(s, n)'
    /\ s \notin DOMAIN sessions' => s \notin S
    /\ s \in DOMAIN sessions' /\ s \notin subscribed'[p] =>
         (s \in DOMAIN sessions /\ s \notin subscribed[p]) \/ (s \notin DOMAIN sessions /\ s \in S)
    /\ Live(s)' => Live(s)
    /\ Wants(p, s)' => Wants(p, s) \/ s \in S
    /\ Begun(s, fromPage[p])' => Begun(s, fromPage[p])
    /\ Elsewhere(p, s)' => Elsewhere(p, s) /\ s \notin S

LEMMA RelistFits ==
  ASSUME NEW p, NEW s, NEW S, Lists(p, s, S), agents # {}, agents' # {},
         NEW x \in Views, NEW y \in Views, Fits(p, s, x), Moves(s, x, List(S), y)
  PROVE  Fits(p, s, y)'
<1> SUFFICES ASSUME p \in DOMAIN subscribed' PROVE Fits(p, s, y)'
  BY DEF Fits
<1>1. Settled(x, agents # {}, s \in DOMAIN sessions, s \in subscribed[p], Continues(s, x.shown), Live(s),
              Wants(p, s), Begun(s, fromPage[p]), Elsewhere(p, s))
  BY DEF Fits, Lists
<1>2. y.up = (agents' # {}) /\ x.up
  BY <1>1, MovesList DEF Settled
<1>3. CASE ~y.has
  BY <1>2, <1>3 DEF Fits, Settled, Quiet
<1>4. CASE s \in S /\ y.restoring
  BY <1>2, <1>4 DEF Lists, Fits, Settled, Quiet
<1>5. CASE /\ x.has /\ y.restoring = x.restoring /\ y.shown = x.shown
           /\ ~(s \in S /\ x.up /\ ~x.follows) /\ (y.follows => x.follows /\ ~(x.up /\ s \notin S))
  BY <1>1, <1>2, <1>5 DEF Quiet, Settled, Lists, Fits
<1>6. QED
  BY <1>3, <1>4, <1>5, MovesList

\* One message from the registry to its pages.
LEMMA PageOwnerOne ==
  ASSUME Typed, NEW p \in Pages, NEW s, PageSound(p, s), UNCHANGED <<agentUp[p], entries[p]>>,
         NEW m \in AgentMessage, NEW gone, NotifyOwner(<<m>>, gone), ~Prints(m, s),
         p \in DOMAIN subscribed' =>
           \A x \in Views : Fits(p, s, x) => \A y \in Views : Moves(s, x, m, y) => Fits(p, s, y)'
  PROVE  PageSound(p, s)'
BY OwnerOne, SoundAlong, AheadUnless, PageLonger DEF Fits

\* Two.
LEMMA PageOwnerTwo ==
  ASSUME Typed, NEW p \in Pages, NEW s, PageSound(p, s), UNCHANGED <<agentUp[p], entries[p]>>,
         NEW m \in AgentMessage, NEW n \in AgentMessage, NEW gone, NotifyOwner(<<m, n>>, gone),
         ~Prints(m, s), ~Prints(n, s),
         p \in DOMAIN subscribed' =>
           \A x \in Views : Fits(p, s, x) =>
             \A y \in Views : Moves(s, x, m, y) =>
               \A w \in Views : Moves(s, y, n, w) => Fits(p, s, w)'
  PROVE  PageSound(p, s)'
<1>1. \/ toPage'[p] = toPage[p] /\ p \notin DOMAIN subscribed'
      \/ p \notin DOMAIN subscribed' /\ Longer(toPage'[p], toPage[p], m)
      \/ \E z : Longer(z, toPage[p], m) /\ Longer(toPage'[p], z, n)
  BY OwnerTwo
<1>2. CASE toPage'[p] = toPage[p] /\ p \notin DOMAIN subscribed'
  BY <1>2, SoundAlong
<1>3. CASE p \notin DOMAIN subscribed' /\ Longer(toPage'[p], toPage[p], m)
  BY <1>3, AheadUnless, PageLonger DEF Fits
<1>4. ASSUME NEW z, Longer(z, toPage[p], m), Longer(toPage'[p], z, n) PROVE PageSound(p, s)'
  BY <1>4, AheadUnless, PageLonger2 DEF Fits
<1>5. QED
  BY <1>1, <1>2, <1>3, <1>4

\* For a page nobody has drawn s for, or that is not the one to spawn it, there
\* is no trace of s.
LEMMA ElsewhereIs ==
  ASSUME NEW p, NEW s, Birth(s), Elsewhere(p, s)
  PROVE  NoTrace(s)
BY DEF Birth, Elsewhere, Unborn, Ordered

\* The sessions of a connection the server gives up are gone.
LEMMA UnregisterFacts ==
  ASSUME Typed, NEW s \in SessionIds, NEW c, Unregister(c), NEW gone, gone = {t \in DOMAIN sessions : sessions[t] = c}
  PROVE  /\ c \in agents /\ agents' = agents \ {c}
         /\ UNCHANGED <<fromPage, agentUp, entries, drawn, ptys, conn>>
         /\ NotifyOwner(<<Status(agents' # {}), List(infos')>>, gone)
         /\ s \in DOMAIN sessions' <=> s \in DOMAIN sessions /\ s \notin gone
         /\ s \in DOMAIN sessions' => sessions'[s] = sessions[s] /\ sessions[s] # c
         /\ infos' = infos \ gone
         /\ s \notin DOMAIN sessions' => s \notin infos'
         /\ agents' = {} => s \notin DOMAIN sessions'
<1>1. /\ c \in agents /\ agents' = agents \ {c}
      /\ UNCHANGED <<fromPage, agentUp, entries, drawn, ptys, conn>>
      /\ NotifyOwner(<<Status(agents' # {}), List(infos')>>, gone)
      /\ sessions' = Without(sessions, gone) /\ infos' = infos \ gone
  BY DEF Unregister, agentVars, viewVars
<1>2. /\ Maps(sessions, SessionIds, agents) /\ infos \subseteq DOMAIN sessions
  BY DEF Typed, RegistryTyped
<1>3. /\ s \in DOMAIN sessions' <=> s \in DOMAIN sessions /\ s \notin gone
      /\ s \in DOMAIN sessions' => sessions'[s] = sessions[s] /\ sessions[s] # c /\ sessions[s] \in agents
  <2>1. gone \subseteq DOMAIN sessions
    OBVIOUS
  <2>2. DOMAIN sessions' = DOMAIN sessions \ gone /\ \A t \in DOMAIN sessions \ gone : sessions'[t] = sessions[t]
    <3>1. DOMAIN Without(sessions, gone) = DOMAIN sessions \ gone
          /\ \A t \in DOMAIN sessions \ gone : Without(sessions, gone)[t] = sessions[t]
      BY <1>2, MapsWithout
    <3>2. QED
      BY <1>1, <3>1
  <2>3. \A t \in DOMAIN sessions : sessions[t] \in agents
    BY <1>2 DEF Maps
  <2>4. QED
    BY <2>2, <2>3
<1>4. agents' = {} => s \notin DOMAIN sessions'
  BY <1>1, <1>3
<1>5. s \notin DOMAIN sessions' => s \notin infos'
  BY <1>1, <1>2, <1>3
<1>6. QED
  BY <1>1, <1>3, <1>4, <1>5

LEMMA UnregisterContinues ==
  ASSUME Typed, NEW s \in SessionIds, Birth(s), NEW c, Unregister(c)
  PROVE  /\ s \in DOMAIN sessions' => \A n : Continues(s, n) => Continues(s, n)'
         /\ Live(s)' => Live(s)
<1>1. PICK gone : gone = {t \in DOMAIN sessions : sessions[t] = c}
  OBVIOUS
<1>2. /\ UNCHANGED <<ptys, conn>>
      /\ s \in DOMAIN sessions' => s \in DOMAIN sessions /\ sessions'[s] = sessions[s] /\ sessions[s] # c
  BY <1>1, UnregisterFacts
<1>3. Passes(s)
  BY BirthUnregister
<1>4. Keeps(s)
  BY <1>2, <1>3, KeepsPassing
<1>5. Able(s)' => Able(s) /\ Printed(s)' = Printed(s)
  BY <1>3, <1>4, PrintedKept DEF Passes, Lesser, Begun
<1>6. Live(s)' => Live(s)
  BY <1>5, UnregisterStreams, LiveTrims
<1>7. ASSUME NEW n, Continues(s, n), s \in DOMAIN sessions' PROVE Continues(s, n)'
  BY <1>2, <1>5, <1>7, AgentsAre, StreamsAre, UnregisterStreams, ContinuesTrims
<1>8. QED
  BY <1>6, <1>7

LEMMA PageUnregister ==
  ASSUME Typed, NEW s \in SessionIds, Birth(s), NEW p \in Pages, PageSound(p, s), NEW c, Unregister(c)
  PROVE  PageSound(p, s)'
<1>1. PICK gone : gone = {t \in DOMAIN sessions : sessions[t] = c}
  OBVIOUS
<1>2. PICK b, S, m, n : b = (agents' # {}) /\ S = infos' /\ m = Status(b) /\ n = List(S)
  OBVIOUS
<1>3. /\ c \in agents /\ b = (agents' # {})
      /\ UNCHANGED <<fromPage, agentUp, entries, drawn>>
      /\ NotifyOwner(<<m, n>>, gone)
      /\ s \in DOMAIN sessions' <=> s \in DOMAIN sessions /\ s \notin gone
      /\ S = infos \ gone
      /\ s \notin DOMAIN sessions' => s \notin S
      /\ agents' = {} => s \notin DOMAIN sessions'
  BY <1>1, <1>2, UnregisterFacts
<1>4. m \in AgentMessage /\ n \in AgentMessage /\ b \in BOOLEAN
  BY <1>2, UnregisterMessages
<1>5. ~Prints(m, s) /\ ~Prints(n, s) /\ ~Names(m, s) /\ (Names(n, s) <=> s \in S)
  BY <1>2 DEF Prints, Names, Status, List
<1>6. /\ p \in DOMAIN subscribed' => p \in DOMAIN subscribed /\ subscribed'[p] = subscribed[p] \ gone
      /\ Msgs(toPage'[p]) \subseteq Msgs(toPage[p]) \cup {m, n}
  BY <1>3, <1>4, OwnerTwo
<1>7. Wants(p, s)' => Wants(p, s) \/ s \in S
  BY <1>3, <1>5, <1>6 DEF Wants, Named
<1>8. /\ Begun(s, fromPage[p])' = Begun(s, fromPage[p])
      /\ Elsewhere(p, s)' = Elsewhere(p, s)
  BY <1>3 DEF Elsewhere
<1>9. Elsewhere(p, s) => s \notin S
  BY <1>3, ElsewhereIs DEF NoTrace
<1>10. /\ s \in DOMAIN sessions' => \A k : Continues(s, k) => Continues(s, k)'
       /\ Live(s)' => Live(s)
  BY UnregisterContinues
<1>11. Lists(p, s, S)
  BY <1>3, <1>6, <1>7, <1>8, <1>9, <1>10 DEF Lists
<1>12. ASSUME NEW x \in Views, Fits(p, s, x), NEW y \in Views, Moves(s, x, m, y), NEW w \in Views, Moves(s, y, n, w),
              p \in DOMAIN subscribed'
       PROVE  Fits(p, s, w)'
  <2>1. Settled(x, agents # {}, s \in DOMAIN sessions, s \in subscribed[p], Continues(s, x.shown), Live(s),
                Wants(p, s), Begun(s, fromPage[p]), Elsewhere(p, s))
    BY <1>6, <1>12 DEF Fits
  <2>2. x.up
    BY <1>3, <2>1 DEF Settled
  <2>3. /\ y.up = b /\ (b => Alike(x, y))
        /\ ~y.has \/ (x.has /\ y.restoring = x.restoring /\ y.shown = x.shown /\ (y.follows => x.follows /\ b))
    <3>1. Moves(s, x, Status(b), y)
      BY <1>2, <1>12
    <3>2. QED
      BY <1>4, <3>1, MovesStatus
  <2>4. CASE b
    BY <1>2, <1>3, <1>11, <1>12, <2>1, <2>3, <2>4, RelistFits DEF Fits, Settled, Quiet, Alike
  <2>5. CASE ~b
    <3>1. /\ w.up = y.up /\ ~y.up /\ Alike(y, w)
      BY <1>2, <1>12, <2>3, <2>5, MovesList
    <3>2. ~w.has \/ (x.has /\ w.restoring = x.restoring /\ w.shown = x.shown /\ ~w.follows)
      BY <2>3, <2>5, <3>1 DEF Alike
    <3>3. s \notin DOMAIN sessions' /\ w.up = (agents' # {})
      BY <1>3, <2>3, <2>5, <3>1
    <3>4. CASE ~w.has
      BY <3>3, <3>4 DEF Fits, Settled, Quiet
    <3>5. CASE x.has /\ w.restoring = x.restoring /\ w.shown = x.shown /\ ~w.follows
      BY <1>8, <2>1, <3>3, <3>5 DEF Settled, Quiet, Fits
    <3>6. QED
      BY <3>2, <3>4, <3>5
  <2>6. QED
    BY <1>4, <2>4, <2>5
<1>13. QED
  BY <1>3, <1>4, <1>5, <1>12, PageOwnerTwo

-----------------------------------------------------------------------------
(***************************************************************************)
(* The server reads of a connection what shows nothing of s.               *)
(***************************************************************************)
LEMMA ReceivedKeeps ==
  ASSUME Typed, NEW s \in SessionIds, Birth(s), NEW c, NEW kinds, Received(c, kinds)
  PROVE  /\ UNCHANGED <<agents, fromPage, agentUp, entries, drawn>>
         /\ Live(s)' => Live(s)
         /\ conn' = conn /\ (Able(s)' => Able(s) /\ Printed(s)' = Printed(s))
BY ReceivedStreams, LiveTrims DEF Received, agentVars, viewVars, Able, Runs, Printed

LEMMA ReceivedContinues ==
  ASSUME Typed, NEW s \in SessionIds, Birth(s), NEW c, NEW kinds, Received(c, kinds), NEW n, Continues(s, n),
         s \in DOMAIN sessions' => s \in DOMAIN sessions /\ sessions'[s] = sessions[s],
         ~Shows(Head(fromAgent[c]), s) \/ (s \in DOMAIN sessions => sessions[s] # c)
  PROVE  Continues(s, n)'
<1>1. CASE s \notin DOMAIN sessions'
  BY <1>1 DEF Continues
<1>2. CASE s \in DOMAIN sessions'
  <2>1. PICK d : d = sessions[s]
    OBVIOUS
  <2>2. sessions'[s] = d /\ s \in DOMAIN sessions /\ d \in Streams
    BY <1>2, <2>1, AgentsAre, StreamsAre
  <2>3. conn' = conn /\ (Able(s)' => Able(s) /\ Printed(s)' = Printed(s))
    BY ReceivedKeeps
  <2>4. (From(s, Stream(d), n) => From(s, Stream(d)', n)) /\ (Silent(s, Stream(d)') => Silent(s, Stream(d)))
    <3>1. CASE d # c
      BY <2>2, <3>1, ReceivedStreams
    <3>2. CASE d = c
      BY <2>1, <2>2, <3>2, ReceivedStreams, ReadFacts DEF Window
    <3>3. QED
      BY <3>1, <3>2
  <2>5. QED
    BY <2>1, <2>2, <2>3, <2>4, ContinuesTrims
<1>3. QED
  BY <1>1, <1>2

LEMMA PageReady ==
  ASSUME Typed, NEW s \in SessionIds, Birth(s), NEW p \in Pages, PageSound(p, s), NEW c, OnReady(c)
  PROVE  PageSound(p, s)'
<1>1. Received(c, {"ready"}) /\ NotifyOwner(<<Ready>>, {}) /\ UNCHANGED sessions
  BY DEF OnReady
<1>2. UNCHANGED <<agents, fromPage, agentUp, entries, drawn>> /\ (Live(s)' => Live(s))
  BY <1>1, ReceivedKeeps
<1>3. ~Shows(Head(fromAgent[c]), s)
  BY <1>1, ReceivedTypes DEF Shows
<1>4. \A n : Continues(s, n) => Continues(s, n)'
  BY <1>1, <1>3, ReceivedContinues
<1>5. PICK m : m = Ready
  OBVIOUS
<1>6. m \in AgentMessage /\ ~Names(m, s) /\ ~Shows(m, s) /\ ~Prints(m, s) /\ m.is = "ready" /\ NotifyOwner(<<m>>, {})
  BY <1>1, <1>5, MessageTypes, SpeaksOf DEF Prints, Ready
<1>7. /\ p \in DOMAIN subscribed' => p \in DOMAIN subscribed /\ subscribed'[p] = subscribed[p] \ {}
      /\ Msgs(toPage'[p]) \subseteq Msgs(toPage[p]) \cup {m}
  BY <1>6, OwnerOne
<1>8. Same(p, s)
  BY <1>1, <1>7 DEF Same
<1>9. Wants(p, s)' => Wants(p, s)
  BY <1>2, <1>6, <1>7 DEF Wants, Named
<1>10. Easier(p, s)
  BY <1>2, <1>4, <1>9 DEF Easier, Elsewhere
<1>11. ASSUME NEW x \in Views, Fits(p, s, x), NEW y \in Views, Moves(s, x, m, y) PROVE Fits(p, s, y)'
  BY <1>2, <1>6, <1>8, <1>10, <1>11, MovesBlank, FitsAlike
<1>12. QED
  BY <1>2, <1>6, <1>11, PageOwnerOne

-----------------------------------------------------------------------------
LEMMA ListedFacts ==
  ASSUME Typed, NEW s \in SessionIds, NEW c, OnSessionList(c)
  PROVE  \E gone :
           /\ NotifyOwner(<<List(infos')>>, gone)
           /\ s \in DOMAIN sessions' => s \notin gone
           /\ s \in DOMAIN sessions' /\ s \in DOMAIN sessions => sessions'[s] = sessions[s]
           /\ s \notin DOMAIN sessions' => s \notin infos'
           /\ s \in DOMAIN sessions' => s \in DOMAIN sessions \/ s \in infos'
           /\ s \in infos' => s \in infos \/ Names(Head(fromAgent[c]), s)
<1> DEFINE m == Head(fromAgent[c])
           accepted == {t \in m.ids : t \notin DOMAIN sessions \/ sessions[t] = c}
           known == [t \in DOMAIN sessions \cup accepted |-> IF t \in accepted THEN c ELSE sessions[t]]
           acknowledged == infos \cup accepted
           gone == {t \in DOMAIN known : known[t] = c /\ t \in acknowledged \ accepted}
<1>1. /\ Received(c, {"list"}) /\ sessions' = Without(known, gone) /\ infos' = acknowledged \ gone
      /\ NotifyOwner(<<List(infos')>>, gone)
  BY DEF OnSessionList
<1>2. m.is = "list"
  BY <1>1, ReceivedTypes
<1>3. DOMAIN sessions' = (DOMAIN sessions \cup accepted) \ gone
      /\ \A t \in DOMAIN sessions' : sessions'[t] = known[t]
  <2> HIDE DEF accepted, gone
  <2>1. QED
    BY <1>1 DEF Without, Restrict
<1>4. infos \subseteq DOMAIN sessions
  BY DEF Typed, RegistryTyped
<1>5. \A t \in accepted : Names(m, t) /\ (t \in DOMAIN sessions => sessions[t] = c)
  BY <1>2 DEF Names
<1>6. s \in DOMAIN sessions' /\ s \in DOMAIN sessions => sessions'[s] = sessions[s]
  <2>1. s \in DOMAIN sessions \cup accepted => known[s] = IF s \in accepted THEN c ELSE sessions[s]
    OBVIOUS
  <2> HIDE DEF accepted, gone, known
  <2>2. QED
    BY <1>3, <1>5, <2>1
<1>7. /\ s \in DOMAIN sessions' => s \notin gone
      /\ s \notin DOMAIN sessions' => s \notin infos'
      /\ s \in DOMAIN sessions' => s \in DOMAIN sessions \/ s \in infos'
      /\ s \in infos' => s \in infos \/ Names(m, s)
  <2>1. infos' = (infos \cup accepted) \ gone
    BY <1>1
  <2> HIDE DEF accepted, gone, known, acknowledged
  <2>2. QED
    BY <1>3, <1>4, <1>5, <2>1
<1>8. QED
  <2> HIDE DEF gone, known, accepted, acknowledged
  <2>1. QED
    BY <1>1, <1>6, <1>7

LEMMA PageListed ==
  ASSUME Typed, NEW s \in SessionIds, Birth(s), NEW p \in Pages, PageSound(p, s), NEW c, OnSessionList(c)
  PROVE  PageSound(p, s)'
<1>1. Received(c, {"list"})
  BY DEF OnSessionList
<1>2. UNCHANGED <<agents, fromPage, agentUp, entries, drawn>> /\ (Live(s)' => Live(s))
  BY <1>1, ReceivedKeeps
<1>3. ~Shows(Head(fromAgent[c]), s) /\ c \in agents /\ Head(fromAgent[c]) \in Msgs(fromAgent[c]) /\ c \in Conns
  BY <1>1, ReceivedTypes, ReceivedQueues DEF Shows
<1>4. PICK gone :
           /\ NotifyOwner(<<List(infos')>>, gone)
           /\ s \in DOMAIN sessions' => s \notin gone
           /\ s \in DOMAIN sessions' /\ s \in DOMAIN sessions => sessions'[s] = sessions[s]
           /\ s \notin DOMAIN sessions' => s \notin infos'
           /\ s \in DOMAIN sessions' => s \in DOMAIN sessions \/ s \in infos'
           /\ s \in infos' => s \in infos \/ Names(Head(fromAgent[c]), s)
  BY ListedFacts
<1>5. PICK S, m : S = infos' /\ m = List(S)
  OBVIOUS
<1>6. m \in AgentMessage /\ NotifyOwner(<<m>>, gone) /\ ~Prints(m, s) /\ (Names(m, s) <=> s \in S)
  BY <1>4, <1>5, ListedMessages DEF Prints, Names, List
<1>7. /\ p \in DOMAIN subscribed' => p \in DOMAIN subscribed /\ subscribed'[p] = subscribed[p] \ gone
      /\ Msgs(toPage'[p]) \subseteq Msgs(toPage[p]) \cup {m}
  BY <1>6, OwnerOne
<1>8. Wants(p, s)' => Wants(p, s) \/ s \in S
  BY <1>2, <1>6, <1>7 DEF Wants, Named
<1>9. /\ Begun(s, fromPage[p])' = Begun(s, fromPage[p])
      /\ Elsewhere(p, s)' = Elsewhere(p, s)
  BY <1>2 DEF Elsewhere
<1>10. Elsewhere(p, s) => s \notin S
  BY <1>3, <1>4, <1>5, ElsewhereIs DEF NoTrace, Mute, Speaks
<1>11. p \in DOMAIN subscribed => subscribed[p] \subseteq DOMAIN sessions
  BY DEF Typed, RegistryTyped, Maps
<1>12. s \in DOMAIN sessions' /\ s \in DOMAIN sessions => \A n : Continues(s, n) => Continues(s, n)'
  BY <1>1, <1>3, <1>4, ReceivedContinues
<1>13. Lists(p, s, S)
  BY <1>2, <1>4, <1>5, <1>7, <1>8, <1>9, <1>10, <1>11, <1>12 DEF Lists
<1>14. agents # {} /\ agents' # {}
  BY <1>2, <1>3
<1>15. ASSUME NEW x \in Views, Fits(p, s, x), NEW y \in Views, Moves(s, x, m, y) PROVE Fits(p, s, y)'
  BY <1>5, <1>13, <1>14, <1>15, RelistFits
<1>16. QED
  BY <1>2, <1>6, <1>15, PageOwnerOne

-----------------------------------------------------------------------------
(***************************************************************************)
(* The server passes on what a connection says of a session, if it is the  *)
(* session's connection: to page p, and what it then knows of s.           *)
(***************************************************************************)
Passed(c, m, p, s) ==
  /\ m.id \in DOMAIN sessions /\ sessions[m.id] = c
  /\ s \in DOMAIN sessions' <=> s \in DOMAIN sessions /\ ~Closes(m, s)
  /\ s \in DOMAIN sessions' => sessions'[s] = sessions[s]
  /\ p \in DOMAIN subscribed' =>
       p \in DOMAIN subscribed /\ (s \in subscribed'[p] <=> s \in subscribed[p] /\ ~Closes(m, s))
  /\ \/ toPage'[p] = toPage[p] /\ (p \notin DOMAIN subscribed' \/ m.id \notin subscribed[p])
     \/ p \in DOMAIN subscribed /\ m.id \in subscribed[p] /\ Longer(toPage'[p], toPage[p], m)

Ignored(c, m) ==
  /\ m.id \in DOMAIN sessions => sessions[m.id] # c
  /\ UNCHANGED <<sessions, toPage, subscribed>>

LEMMA MessageFacts ==
  ASSUME Typed, NEW s \in SessionIds, NEW p \in Pages, NEW c, OnSessionMessage(c)
  PROVE  /\ Received(c, {"output", "dump", "event"})
         /\ \E m \in AgentMessage :
              /\ m = Head(fromAgent[c]) /\ m.is \in {"output", "dump", "event"}
              /\ Ignored(c, m) \/ Passed(c, m, p, s)
<1> DEFINE m == Head(fromAgent[c])
           gone == IF m.is = "event" /\ m.event \in Ends THEN {m.id} ELSE {}
           subs == [q \in DOMAIN subscribed |-> subscribed[q] \ gone]
           R == {q \in DOMAIN subscribed : m.id \in subscribed[q]}
<1>1. Received(c, {"output", "dump", "event"})
      /\ \/ /\ ~(m.id \in DOMAIN sessions /\ sessions[m.id] = c)
            /\ UNCHANGED <<sessions, toPage, subscribed>>
         \/ /\ m.id \in DOMAIN sessions /\ sessions[m.id] = c
            /\ sessions' = Without(sessions, gone) /\ Notify(R, <<m>>, subs)
  BY DEF OnSessionMessage
<1>2. m \in AgentMessage /\ m.is \in {"output", "dump", "event"}
  BY <1>1, ReceivedTypes
<1>3. s \in gone <=> Closes(m, s)
  BY DEF Closes
<1>4. CASE /\ m.id \in DOMAIN sessions /\ sessions[m.id] = c
           /\ sessions' = Without(sessions, gone) /\ Notify(R, <<m>>, subs)
  <2>1. Maps(subs, Pages, SUBSET (DOMAIN sessions \ gone)) /\ R \in SUBSET DOMAIN subscribed
        /\ DOMAIN subs = DOMAIN subscribed /\ \A q \in DOMAIN subscribed : subs[q] = subscribed[q] \ gone
    <3> HIDE DEF gone
    <3>1. QED
      BY OwnerSubs
  <2>2. p \in R <=> p \in DOMAIN subscribed /\ m.id \in subscribed[p]
    OBVIOUS
  <2> HIDE DEF subs, R, m, gone
  <2>3. <<m>> \in Seq(AgentMessage)
    BY <1>2
  <2>4. Notify(R, <<m>>, subs)
    BY <1>4
  <2>5. p \in DOMAIN subscribed' => p \in DOMAIN subscribed /\ subscribed'[p] = subs[p]
    <3>1. PICK ms : ms = <<m>>
      OBVIOUS
    <3>2. ms \in Seq(AgentMessage) /\ Notify(R, ms, subs)
      BY <2>3, <2>4, <3>1
    <3>3. Maps(subs, Pages, SUBSET (DOMAIN sessions \ gone)) /\ R \in SUBSET DOMAIN subscribed
          /\ DOMAIN subs = DOMAIN subscribed
      BY <2>1
    <3>4. QED
      BY <3>2, <3>3, TellLinks
  <2>6. \/ toPage'[p] = toPage[p] /\ (p \notin R \/ p \notin DOMAIN subscribed')
        \/ p \in R /\ Longer(toPage'[p], toPage[p], m)
    BY <1>2, <2>1, <2>4, TellOne
  <2>7. p \in DOMAIN subscribed' =>
          p \in DOMAIN subscribed /\ (s \in subscribed'[p] <=> s \in subscribed[p] /\ ~Closes(m, s))
    BY <1>3, <2>1, <2>5
  <2>8. /\ s \in DOMAIN sessions' <=> s \in DOMAIN sessions /\ s \notin gone
        /\ s \in DOMAIN sessions' => sessions'[s] = sessions[s]
    BY <1>4 DEF Without, Restrict
  <2>9. \/ toPage'[p] = toPage[p] /\ (p \notin DOMAIN subscribed' \/ m.id \notin subscribed[p])
        \/ p \in DOMAIN subscribed /\ m.id \in subscribed[p] /\ Longer(toPage'[p], toPage[p], m)
    BY <2>2, <2>5, <2>6
  <2>10. Passed(c, m, p, s)
    BY <1>3, <1>4, <2>7, <2>8, <2>9 DEF Passed
  <2>11. QED
    BY <1>1, <1>2, <2>10 DEF m
<1>5. CASE ~(m.id \in DOMAIN sessions /\ sessions[m.id] = c) /\ UNCHANGED <<sessions, toPage, subscribed>>
  <2> HIDE DEF m, gone, subs, R
  <2>1. Ignored(c, m)
    BY <1>5 DEF Ignored
  <2>2. QED
    BY <1>1, <1>2, <2>1 DEF m
<1>6. QED
  BY <1>1, <1>4, <1>5

\* The end of s is read: nothing is to come.
LEMMA EndIsLast ==
  ASSUME Typed, Wired, NEW s \in SessionIds, Birth(s), Order(s), "stale" \notin Races, NEW c, NEW kinds, Received(c, kinds),
         Closes(Head(fromAgent[c]), s)
  PROVE  ~Live(s)'
<1>1. /\ c \in Streams /\ c \in Conns /\ conn' = conn /\ c # NoConn
      /\ \A d \in Streams : d # c => Stream(d)' = Stream(d)
      /\ Window(Stream(c)', Stream(c), 1) /\ 1 + Len(Stream(c)') = Len(Stream(c))
      /\ Stream(c)[1] = Head(fromAgent[c]) /\ Len(Stream(c)) > 0
  BY ReceivedStreams, StreamsAre
<1>2. PICK q, r : q = Stream(c) /\ r = Stream(c)'
  OBVIOUS
<1>3. Window(r, q, 1) /\ Closes(q[1], s) /\ Len(q) > 0 /\ Len(q) \in Nat
  BY <1>1, <1>2 DEF Window
<1>4. HasEnd(s, q) /\ Final(s, q)
  BY <1>1, <1>2, <1>3 DEF Msgs, HasEnd, Order
<1>5. ~Able(s) /\ \A d \in Streams : Later(c, d) => ~HasOutput(s, Stream(d))
  BY <1>1, <1>2, <1>4 DEF Order
<1>6. ~Able(s)'
  BY <1>5, ReceivedKeeps
<1>7. ~HasOutput(s, r)
  BY <1>3, <1>4 DEF Window, Final, HasOutput, Msgs
<1>8. ASSUME NEW d \in Streams PROVE ~HasOutput(s, Stream(d)')
  <2>1. CASE d = c
    BY <1>2, <1>7, <2>1
  <2>2. CASE Later(c, d)
    BY <1>1, <1>5, <2>2, StreamsAre DEF Later
  <2>3. CASE d # c /\ ~Later(c, d)
    <3>1. d # NoConn /\ d < c /\ d \in Conns
      BY <1>1, <2>3, StreamsAre DEF Later
    <3>2. fromAgent[d] = <<>>
      BY <3>1 DEF Received, Wired, WiredAgent
    <3>3. d # conn
      BY <3>1, Bounds, StreamsAre DEF Received, Typed, RegistryTyped, AgentTyped, Wired, WiredAgent
    <3>4. Stream(d)' = <<>>
      BY <1>1, <2>3, <3>1, <3>2, <3>3 DEF Stream
    <3>5. QED
      BY <3>4, EmptyStream
  <2>4. QED
    BY <2>1, <2>2, <2>3
<1>9. QED
  BY <1>6, <1>8 DEF Live

\* What goes on around a message that is passed on, or not.
Around(p, s) ==
  /\ UNCHANGED <<agents, fromPage, agentUp, entries, drawn>>
  /\ Live(s)' => Live(s)
  /\ Wants(p, s)' => Wants(p, s)
  /\ Begun(s, fromPage[p])' = Begun(s, fromPage[p])
  /\ Elsewhere(p, s)' = Elsewhere(p, s)

LEMMA AroundIs ==
  ASSUME Typed, NEW s \in SessionIds, Birth(s), NEW p \in Pages, NEW c, Received(c, {"output", "dump", "event"}),
         NEW m, m.is \in {"output", "dump", "event"}, toPage'[p] = toPage[p] \/ Longer(toPage'[p], toPage[p], m)
  PROVE  Around(p, s)
<1>1. UNCHANGED <<agents, fromPage, agentUp, entries, drawn>> /\ (Live(s)' => Live(s))
  BY ReceivedKeeps
<1>2. Named(s, toPage'[p]) => Named(s, toPage[p])
  <2>1. Msgs(toPage'[p]) \subseteq Msgs(toPage[p]) \cup {m}
    BY GrownFacts
  <2>2. ~Names(m, s)
    BY DEF Names
  <2>3. QED
    BY <2>1, <2>2 DEF Named
<1>3. QED
  BY <1>1, <1>2 DEF Around, Wants, Elsewhere

LEMMA PageIgnored ==
  ASSUME Typed, NEW s \in SessionIds, Birth(s), NEW p \in Pages, PageSound(p, s), NEW c,
         Received(c, {"output", "dump", "event"}), NEW m, m = Head(fromAgent[c]), Ignored(c, m),
         m.is \in {"output", "dump", "event"}
  PROVE  PageSound(p, s)'
BY AroundIs, ReceivedContinues, SoundAlong DEF Ignored, Shows, Same, Easier, Around

\* What is neither shown of s nor its end.
LEMMA PagePassedBy ==
  ASSUME Typed, NEW s \in SessionIds, Birth(s), NEW p \in Pages, PageSound(p, s), NEW c,
         Received(c, {"output", "dump", "event"}), NEW m, m = Head(fromAgent[c]), Passed(c, m, p, s),
         m.is \in {"output", "dump", "event"}, ~Shows(m, s), ~Closes(m, s)
  PROVE  PageSound(p, s)'
<1>1. Around(p, s)
  BY AroundIs DEF Passed
<1>2. \A n : Continues(s, n) => Continues(s, n)'
  BY ReceivedContinues DEF Passed
<1>3. Same(p, s) /\ Easier(p, s)
  BY <1>1, <1>2 DEF Same, Easier, Around, Passed
<1>4. CASE toPage'[p] = toPage[p]
  BY <1>1, <1>3, <1>4, SoundAlong DEF Around
<1>5. CASE Longer(toPage'[p], toPage[p], m)
  BY <1>1, <1>3, <1>5, MovesBlank, FitsAlike, PageLonger DEF Ahead, Prints, Shows, Around
<1>6. QED
  BY <1>4, <1>5 DEF Passed

\* p does not follow s.
LEMMA PagePassedUnfollowed ==
  ASSUME Typed, NEW s \in SessionIds, Birth(s), NEW p \in Pages, PageSound(p, s), NEW c,
         Received(c, {"output", "dump", "event"}), NEW m, m = Head(fromAgent[c]), Passed(c, m, p, s),
         m.is \in {"output", "dump", "event"}, m.id = s, toPage'[p] = toPage[p]
  PROVE  PageSound(p, s)'
BY AroundIs, PageKept DEF Fits, Passed, Longer, Settled, Around

\* The end of s, for a page that follows it.
LEMMA PagePassedEnd ==
  ASSUME Typed, Wired, NEW s \in SessionIds, Birth(s), Order(s), "stale" \notin Races,
         NEW p \in Pages, PageSound(p, s), NEW c,
         Received(c, {"output", "dump", "event"}), NEW m, m = Head(fromAgent[c]), Passed(c, m, p, s),
         m.is \in {"output", "dump", "event"}, Closes(m, s), p \in DOMAIN subscribed, Longer(toPage'[p], toPage[p], m)
  PROVE  PageSound(p, s)'
<1>1. Around(p, s)
  BY AroundIs
<1>2. ~Live(s)'
  BY EndIsLast
<1>3. s \notin DOMAIN sessions'
  BY DEF Passed
<1>4. ASSUME NEW x \in Views, Fits(p, s, x), NEW y \in Views, Moves(s, x, m, y) PROVE Fits(p, s, y)'
  BY <1>1, <1>2, <1>3, <1>4, MovesBlank DEF Closes, Shows, Fits, Settled, Around, Alike, Quiet
<1>5. ASSUME NEW x \in Views, Fits(p, s, x)
      PROVE  /\ Ahead(s, x, m)
             /\ \A y \in Views : Moves(s, x, m, y) => Fits(p, s, y)'
  BY <1>4, <1>5 DEF Ahead, Prints, Closes
<1>6. UNCHANGED <<agentUp[p], entries[p]>>
  BY <1>1 DEF Around
<1>7. QED
  BY <1>5, <1>6, PageLonger

\* Output of s is read: the stream goes on after it.
LEMMA ShownContinues ==
  ASSUME Typed, Wired, NEW s \in SessionIds, Birth(s), Order(s), NEW c, NEW kinds, Received(c, kinds),
         s \in DOMAIN sessions, sessions[s] = c, s \in DOMAIN sessions' => sessions'[s] = c,
         NEW m, m = Head(fromAgent[c]), Shows(m, s)
  PROVE  Continues(s, At(m))'
<1>1. /\ c \in Streams /\ conn' = conn /\ c # NoConn /\ c \in Conns
      /\ Window(Stream(c)', Stream(c), 1) /\ 1 + Len(Stream(c)') = Len(Stream(c))
      /\ Stream(c)[1] = m /\ Len(Stream(c)) > 0
  BY ReceivedStreams, StreamsAre
<1>2. PICK q, r : q = Stream(c) /\ r = Stream(c)'
  OBVIOUS
<1>3. Window(r, q, 1) /\ Len(r) = Len(q) - 1 /\ q[1] = m /\ Len(q) > 0 /\ Len(q) \in Nat
  BY <1>1, <1>2 DEF Window
<1>4. Consecutive(s, q)
  BY <1>1, <1>2 DEF Order
<1>5. From(s, r, At(m))
  BY <1>3, <1>4, ReadFacts
<1>6. ~NoTrace(s)
  BY <1>1, ReceivedQueues DEF NoTrace, Mute, Speaks
<1>7. ASSUME conn' = c, Able(s)', Silent(s, r) PROVE Printed(s)' = At(m)
  <2>1. Able(s) /\ Printed(s)' = Printed(s)
    BY <1>7, ReceivedKeeps
  <2>2. s \in DOMAIN ptys
    BY <1>6, <2>1 DEF Able, Runs, Birth, Underway
  <2>3. UpTo(s, q, Printed(s))
    BY <1>1, <1>2, <1>7, <2>2 DEF Order
  <2>4. \A k \in 1..Len(q) : 1 < k => ~Shows(q[k], s)
    <3>1. ASSUME NEW k \in 1..Len(q), 1 < k PROVE ~Shows(q[k], s)
      <4>1. k - 1 \in 1..Len(r) /\ 1 + (k - 1) = k
        BY <1>3, <3>1
      <4>2. r[k - 1] = q[k]
        BY <1>3, <4>1 DEF Window
      <4>3. QED
        BY <1>7, <4>1, <4>2 DEF Silent
    <3>2. QED
      BY <3>1
  <2>5. 1 \in 1..Len(q)
    BY <1>3
  <2>6. At(q[1]) = Printed(s)
    BY <1>3, <2>3, <2>4, <2>5 DEF UpTo
  <2>7. QED
    BY <1>3, <2>1, <2>6
<1>8. CASE s \notin DOMAIN sessions'
  BY <1>8 DEF Continues
<1>9. CASE s \in DOMAIN sessions'
  BY <1>2, <1>5, <1>7, <1>9 DEF Continues
<1>10. QED
  BY <1>8, <1>9

\* Output of s, for a page that follows it.
LEMMA PagePassedShown ==
  ASSUME Typed, Wired, NEW s \in SessionIds, Birth(s), Order(s),
         NEW p \in Pages, PageSound(p, s), NEW c,
         Received(c, {"output", "dump", "event"}), NEW m \in AgentMessage, m = Head(fromAgent[c]), Passed(c, m, p, s),
         m.is \in {"output", "dump", "event"}, Shows(m, s), p \in DOMAIN subscribed, m.id \in subscribed[p],
         Longer(toPage'[p], toPage[p], m)
  PROVE  PageSound(p, s)'
<1>1. Around(p, s)
  BY AroundIs
<1>2. m.id = s /\ ~Closes(m, s) /\ s \in DOMAIN sessions /\ sessions[s] = c /\ s \in subscribed[p]
  BY DEF Shows, Closes, Passed
<1>3. /\ s \in DOMAIN sessions' /\ sessions'[s] = c
      /\ p \in DOMAIN subscribed' => s \in subscribed'[p]
  BY <1>2 DEF Passed
<1>4. Continues(s, At(m))'
  BY <1>2, <1>3, ShownContinues
<1>5. ~NoTrace(s)
  BY ReceivedQueues, ReceivedTypes DEF NoTrace, Mute, Speaks
<1>6. ~Elsewhere(p, s) /\ ~Begun(s, fromPage[p])
  BY <1>5, ElsewhereIs DEF Birth, Ordered
<1>7. ASSUME NEW x \in Views, Fits(p, s, x)
      PROVE  /\ Ahead(s, x, m)
             /\ \A y \in Views : Moves(s, x, m, y) => Fits(p, s, y)'
  <2>1. Settled(x, agents # {}, s \in DOMAIN sessions, s \in subscribed[p], Continues(s, x.shown), Live(s),
                Wants(p, s), Begun(s, fromPage[p]), Elsewhere(p, s))
    BY <1>7 DEF Fits
  <2>2. x.up = (agents # {}) /\ (Quiet(x) \/ Continues(s, x.shown))
    BY <1>2, <2>1 DEF Settled
  <2>3. Ahead(s, x, m)
    <3>1. ASSUME Prints(m, s), ~Quiet(x) PROVE m.chunk = x.shown + 1
      <4>1. From(s, Stream(c), x.shown)
        BY <1>2, <2>2, <3>1 DEF Continues
      <4>2. PICK q, r, n : q = Stream(c) /\ r = Stream(c)' /\ n = x.shown
        OBVIOUS
      <4>3. Window(r, q, 1) /\ 1 + Len(r) = Len(q) /\ Len(q) > 0 /\ q[1] = m /\ From(s, q, n)
        BY <4>1, <4>2, ReceivedStreams
      <4>4. Len(r) = Len(q) - 1
        BY <4>3 DEF Window
      <4>5. q[1].chunk = n + 1
        BY <3>1, <4>3, <4>4, ReadFacts
      <4>6. QED
        BY <4>2, <4>3, <4>5
    <3>2. QED
      BY <3>1 DEF Ahead
  <2>4. ASSUME NEW y \in Views, Moves(s, x, m, y) PROVE Fits(p, s, y)'
    BY <1>1, <1>3, <1>4, <1>6, <2>2, <2>4, MovesShown DEF Around, Fits, Settled
  <2>5. QED
    BY <2>3, <2>4
<1>8. UNCHANGED <<agentUp[p], entries[p]>>
  BY <1>1 DEF Around
<1>9. QED
  BY <1>7, <1>8, PageLonger

LEMMA PageMessage ==
  ASSUME Typed, Wired, NEW s \in SessionIds, Birth(s), Order(s), "stale" \notin Races,
         NEW p \in Pages, PageSound(p, s), NEW c, OnSessionMessage(c)
  PROVE  PageSound(p, s)'
BY MessageFacts, PageIgnored, PagePassedBy, PagePassedUnfollowed, PagePassedShown, PagePassedEnd DEF Shows,
   Closes, Passed

-----------------------------------------------------------------------------
(***************************************************************************)
(* The server takes a command of a page.                                   *)
(***************************************************************************)
LEMMA SteadyOutside ==
  ASSUME Typed, NEW s, Birth(s), Passes(s), UNCHANGED <<conn, outgoing, fromAgent, ptys, sessions>>
  PROVE  Steady(s)
BY KeepsPassing, UttersStill, SteadyUtters DEF Passes, Lesser, Begun

LEMMA CommandedKeeps ==
  ASSUME Typed, NEW s, NEW o, NEW kinds, Commanded(o, kinds), NEW p \in Pages
  PROVE  /\ o \in Pages /\ o \in DOMAIN subscribed
         /\ UNCHANGED <<agents, drawn, conn, outgoing, fromAgent, ptys, agentUp, entries>>
         /\ Asked(s, fromPage'[p]) => Asked(s, fromPage[p])
         /\ Begun(s, fromPage'[p]) => Begun(s, fromPage[p])
         /\ Elsewhere(p, s)' => Elsewhere(p, s)
BY CommandedTypes, CommandedQueues DEF agentVars, linkVars, viewVars, Asked, Begun, Elsewhere

LEMMA CommandedEasier ==
  ASSUME Typed, NEW s, NEW o, NEW kinds, Commanded(o, kinds), NEW p \in Pages, Steady(s),
         Named(s, toPage'[p]) => Named(s, toPage[p])
  PROVE  Easier(p, s)
BY CommandedKeeps DEF Easier, Steady, Wants

\* A command refused.
LEMMA PageRefuse ==
  ASSUME Typed, NEW s \in SessionIds, Birth(s), NEW p \in Pages, PageSound(p, s),
         NEW o, NEW kinds, Commanded(o, kinds), NEW t \in SessionIds, Refuse(o, t)
  PROVE  PageSound(p, s)'
<1>1. UNCHANGED <<agents, conn, outgoing, fromAgent, ptys, agentUp, entries>> /\ o \in Pages
  BY CommandedKeeps
<1>2. PICK m : m = Event(t, "failed")
  OBVIOUS
<1>3. /\ toPage'[p] = toPage[p] \/ Longer(toPage'[p], toPage[p], m)
      /\ UNCHANGED <<sessions, subscribed, toAgent>>
  BY <1>1, <1>2, RefuseQueues
<1>4. ~Shows(m, s) /\ ~Names(m, s) /\ m.is = "event"
  BY <1>2, SpeaksOf DEF Event
<1>5. Steady(s)
  BY <1>1, <1>3, BirthRefuse, SteadyOutside
<1>6. Named(s, toPage'[p]) => Named(s, toPage[p])
  <2>1. Msgs(toPage'[p]) \subseteq Msgs(toPage[p]) \cup {m}
    BY <1>3, GrownFacts
  <2>2. QED
    BY <1>4, <2>1 DEF Named
<1>7. Easier(p, s)
  BY <1>5, <1>6, CommandedEasier
<1>8. Same(p, s)
  BY <1>3 DEF Same
<1>9. CASE toPage'[p] = toPage[p]
  BY <1>1, <1>7, <1>8, <1>9, SoundAlong
<1>10. CASE Longer(toPage'[p], toPage[p], m)
  BY <1>1, <1>4, <1>7, <1>8, <1>10, MovesBlank, FitsAlike, PageLonger DEF Ahead, Prints, Shows
<1>11. QED
  BY <1>3, <1>9, <1>10

\* Lists asked for, or none to be had.
LEMMA PageListSessions ==
  ASSUME Typed, NEW s \in SessionIds, Birth(s), NEW p \in Pages, PageSound(p, s), NEW o, OnListSessions(o)
  PROVE  PageSound(p, s)'
<1>1. Commanded(o, {"list"}) /\ UNCHANGED <<sessions, subscribed>>
  BY DEF OnListSessions
<1>2. UNCHANGED <<agents, conn, outgoing, fromAgent, ptys, agentUp, entries>> /\ o \in Pages /\ o \in DOMAIN subscribed
  BY <1>1, CommandedKeeps
<1>3. Steady(s)
  BY <1>1, <1>2, BirthListSessions, SteadyOutside
<1>4. Same(p, s)
  BY <1>1 DEF Same
<1>5. CASE toPage'[p] = toPage[p]
  BY <1>1, <1>2, <1>3, <1>4, <1>5, CommandedEasier, SoundAlong
<1>6. CASE agents = {} /\ Reply(o, List({}))
  <2>1. PICK m : m = List({})
    OBVIOUS
  <2>2. m \in AgentMessage /\ ~Names(m, s) /\ ~Prints(m, s) /\ Reply(o, m)
    <3>1. List({}) \in AgentMessage /\ ~Names(List({}), s) /\ ~Prints(List({}), s)
      BY MessageTypes, SpeaksOf, MessageSays
    <3>2. QED
      BY <1>6, <2>1, <3>1
  <2>3. toPage'[p] = toPage[p] \/ (p = o /\ Longer(toPage'[p], toPage[p], m))
    BY <1>2, <2>2, ReplyQueues
  <2>4. CASE p = o /\ Longer(toPage'[p], toPage[p], m)
    <3>1. Named(s, toPage'[p]) => Named(s, toPage[p])
      <4>1. Msgs(toPage'[p]) = Msgs(toPage[p]) \cup {m}
        BY <2>4, GrownFacts
      <4>2. QED
        BY <2>2, <4>1 DEF Named
    <3>2. Easier(p, s)
      BY <1>1, <1>3, <3>1, CommandedEasier
    <3>3. ASSUME NEW x \in Views, Fits(p, s, x)
          PROVE  /\ Ahead(s, x, m)
                 /\ \A y \in Views : Moves(s, x, m, y) => Fits(p, s, y)'
      <4>1. Ahead(s, x, m)
        BY <2>2, AheadUnless DEF Ahead
      <4>2. ~x.up
        BY <1>2, <1>6, <2>4, <3>3 DEF Fits, Settled
      <4>3. ASSUME NEW y \in Views, Moves(s, x, m, y) PROVE Fits(p, s, y)'
        BY <1>2, <1>4, <2>1, <3>2, <3>3, <4>2, <4>3, MovesList, FitsAlike
      <4>4. QED
        BY <4>1, <4>3
    <3>4. QED
      BY <1>2, <2>4, <3>3, PageLonger
  <2>5. QED
    BY <1>5, <2>3, <2>4
<1>7. QED
  BY <1>5, <1>6 DEF OnListSessions

\* A command for the agent.
LEMMA PageSessionCommand ==
  ASSUME Typed, NEW s \in SessionIds, Birth(s), NEW p \in Pages, PageSound(p, s), NEW o, OnSessionCommand(o)
  PROVE  PageSound(p, s)'
<1>1. o \in Pages /\ Commanded(o, {"kill", "resize", "scrollback"})
  BY SessionCommandCases
<1>2. PICK m \in ServerMessage :
              /\ m = Head(fromPage[o]) /\ m.do \in {"kill", "resize", "scrollback"} /\ m.id \in SessionIds
              /\ m = Command(m.do, m.id) /\ m \in Msgs(fromPage[o])
              /\ \/ /\ UNCHANGED <<toPage, sessions>> /\ m.id \in DOMAIN sessions
                    /\ (m.do = "scrollback" /\ Subscribe(o, m.id)) \/ (m.do # "scrollback" /\ UNCHANGED subscribed)
                 \/ Refuse(o, m.id)
  BY SessionCommandCases
<1>3. CASE Refuse(o, m.id)
  BY <1>1, <1>2, <1>3, PageRefuse
<1>4. CASE /\ UNCHANGED <<toPage, sessions>> /\ m.id \in DOMAIN sessions
           /\ (m.do = "scrollback" /\ Subscribe(o, m.id)) \/ (m.do # "scrollback" /\ UNCHANGED subscribed)
  <2>1. UNCHANGED <<agents, conn, outgoing, fromAgent, ptys, agentUp, entries>> /\ o \in DOMAIN subscribed
    BY <1>1, CommandedKeeps
  <2>2. Steady(s)
    BY <1>4, <2>1, BirthSessionCommand, SteadyOutside
  <2>3. Easier(p, s)
    BY <1>1, <1>4, <2>2, CommandedEasier
  <2>4. DOMAIN subscribed' = DOMAIN subscribed
        /\ \A q \in DOMAIN subscribed :
             subscribed'[q] = subscribed[q] \/ (q = o /\ m.do = "scrollback" /\ subscribed'[q] = subscribed[q] \cup {m.id})
    BY <1>4, <2>1 DEF Subscribe
  <2>5. CASE Same(p, s)
    BY <1>4, <2>1, <2>3, <2>5, SoundAlong
  <2>6. CASE ~Same(p, s)
    <3>1. p = o /\ m.do = "scrollback" /\ s = m.id /\ s \in subscribed'[p] /\ s \notin subscribed[p]
      BY <1>4, <2>4, <2>6 DEF Same
    <3>2. Wants(p, s)
      BY <1>2, <3>1 DEF Wants, Asked
    <3>3. ASSUME NEW x \in Views, Fits(p, s, x) PROVE Fits(p, s, x)'
      <4>1. Settled(x, agents # {}, s \in DOMAIN sessions, s \in subscribed[p], Continues(s, x.shown), Live(s),
                    Wants(p, s), Begun(s, fromPage[p]), Elsewhere(p, s))
        BY <2>1, <3>1, <3>3 DEF Fits
      <4>2. /\ x.up = (agents # {}) /\ (Live(s) => Quiet(x))
            /\ (Begun(s, fromPage[p]) => Quiet(x) \/ x.shown = 0) /\ (Elsewhere(p, s) => ~x.has)
        BY <1>4, <3>1, <3>2, <4>1 DEF Settled
      <4>3. Quiet(x) \/ Continues(s, x.shown)'
        BY <2>2, <4>2, AgentsAre, StreamsAre, QuietIs DEF Live, Continues, Steady
      <4>4. /\ x.up = (agents' # {})
            /\ (Begun(s, fromPage[p])' => Quiet(x) \/ x.shown = 0) /\ (Elsewhere(p, s)' => ~x.has)
        BY <2>1, <2>3, <4>2 DEF Easier
      <4>5. s \in DOMAIN sessions' /\ s \in subscribed'[p]
        BY <1>4, <3>1
      <4>6. QED
        BY <4>3, <4>4, <4>5 DEF Fits, Settled
    <3>4. QED
      BY <1>4, <2>1, <3>3, PageKept
  <2>7. QED
    BY <2>5, <2>6
<1>5. QED
  BY <1>2, <1>3, <1>4

\* Another session is spawned.
LEMMA PageAcceptedOther ==
  ASSUME Typed, NEW s \in SessionIds, Birth(s), NEW p \in Pages, PageSound(p, s), NEW o \in Pages, Commanded(o, {"spawn"}),
         NEW c \in Conns, NEW t \in SessionIds, t # s, Accepted(o, c, t)
  PROVE  PageSound(p, s)'
<1>1. UNCHANGED <<agents, conn, outgoing, fromAgent, ptys, agentUp, entries>> /\ o \in DOMAIN subscribed
  BY CommandedKeeps
<1>2. sessions' = Put(sessions, t, c) /\ Subscribe(o, t) /\ UNCHANGED toPage
  BY DEF Accepted
<1>3. Command("spawn", t) \in ServerMessage /\ Forward(c, Command("spawn", t)) /\ Command("spawn", t) # Command("spawn", s)
  BY CommandTypes, Commands DEF Accepted
<1>4. PICK n : n = Command("spawn", t)
  OBVIOUS
<1>5. n \in ServerMessage /\ Forward(c, n) /\ n # Command("spawn", s)
  BY <1>3, <1>4
<1>6. /\ \A d \in Conns : d # c => toAgent'[d] = toAgent[d]
      /\ Msgs(toAgent'[c]) = Msgs(toAgent[c]) \cup {n}
  BY <1>5, ForwardQueues
<1>7. \A d \in Conns : Begun(s, toAgent'[d]) => Begun(s, toAgent[d])
  BY <1>5, <1>6 DEF Begun
<1>8. Keeps(s)
  BY <1>1, <1>7, AbleKept DEF Keeps, Runs
<1>9. (s \in DOMAIN sessions' <=> s \in DOMAIN sessions) /\ (s \in DOMAIN sessions' => sessions'[s] = sessions[s])
  BY <1>2 DEF Put
<1>10. Steady(s)
  BY <1>1, <1>7, <1>8, <1>9, UttersStill, SteadyUtters
<1>11. Easier(p, s)
  BY <1>2, <1>10, CommandedEasier
<1>12. DOMAIN subscribed' = DOMAIN subscribed
       /\ \A q \in DOMAIN subscribed : s \in subscribed'[q] <=> s \in subscribed[q]
  BY <1>1, <1>2 DEF Subscribe
<1>13. Same(p, s)
  BY <1>9, <1>12 DEF Same
<1>14. QED
  BY <1>1, <1>2, <1>11, <1>13, SoundAlong

\* s is spawned: its page follows it from the start, and nobody else has seen it.
LEMMA PageAcceptedOne ==
  ASSUME Typed, NEW s \in SessionIds, Birth(s), NEW p \in Pages, PageSound(p, s), NEW o \in Pages, Commanded(o, {"spawn"}),
         NEW c \in Conns, Accepted(o, c, s)
  PROVE  PageSound(p, s)'
<1>1. UNCHANGED <<agents, drawn, conn, outgoing, fromAgent, ptys, agentUp, entries>> /\ o \in DOMAIN subscribed
  BY CommandedKeeps
<1>2. /\ sessions' = Put(sessions, s, c) /\ Subscribe(o, s) /\ UNCHANGED toPage
      /\ Head(fromPage[o]) = Command("spawn", s)
  BY DEF Accepted
<1>3. /\ Begun(s, fromPage[o])
      /\ \A q \in Pages : Begun(s, fromPage'[q]) => Begun(s, fromPage[q])
      /\ Once(Command("spawn", s), fromPage[o]) => ~Begun(s, fromPage'[o])
  BY <1>2, CommandedQueues DEF Begun
<1>4. Ordered(o, s)
  BY <1>3 DEF Birth
<1>5. NoTrace(s) /\ \A q \in Pages : ~Begun(s, fromPage'[q])
  BY <1>3, <1>4 DEF Ordered
<1>6. s \in drawn
  BY <1>3 DEF Birth, Unborn
<1>7. ~Elsewhere(p, s)' /\ ~Begun(s, fromPage[p])'
  BY <1>1, <1>5, <1>6 DEF Elsewhere
<1>8. /\ s \in DOMAIN sessions' /\ sessions'[s] = c
      /\ DOMAIN subscribed' = DOMAIN subscribed /\ s \in subscribed'[o]
  BY <1>1, <1>2 DEF Put, Subscribe
<1>9. Continues(s, 0)'
  BY <1>1, <1>5, <1>8, StreamsAre, OrderBlank, StreamsSame, MuteIs DEF NoTrace, Printed, Continues
<1>10. ASSUME NEW x \in Views, Fits(p, s, x) PROVE Fits(p, s, x)'
  BY <1>1, <1>3, <1>7, <1>8, <1>9, <1>10 DEF Fits, Settled, Elsewhere, Quiet
<1>11. QED
  BY <1>1, <1>2, <1>10, PageKept

LEMMA PageSpawnSession ==
  ASSUME Typed, NEW s \in SessionIds, Birth(s), NEW p \in Pages, PageSound(p, s), NEW o, OnSpawnSession(o)
  PROVE  PageSound(p, s)'
BY SpawnSessionCases, PageRefuse, PageAcceptedOther, PageAcceptedOne

LEMMA PagePing ==
  ASSUME Typed, NEW s \in SessionIds, Birth(s), NEW p \in Pages, PageSound(p, s), NEW c, SendPing(c)
  PROVE  PageSound(p, s)'
BY BirthPing, SteadyOutside, EasierSteady, SoundAlong DEF SendPing, registryVars, agentVars, linkVars,
   viewVars, Same

LEMMA PageUtters ==
  ASSUME Typed, NEW s, Birth(s), NEW p \in Pages, PageSound(p, s), AgentOnly, Utters(s)
  PROVE  PageSound(p, s)'
BY SteadyUtters, PageAgentOnly DEF AgentOnly, registryVars

LEMMA PageByAgent ==
  ASSUME Typed, Wired, NEW s \in SessionIds, Birth(s), NEW p \in Pages, PageSound(p, s), AgentStep
  PROVE  PageSound(p, s)'
<1>1. CASE AgentSend
  BY <1>1, SteadySend, PageAgentOnly DEF AgentSend
<1>2. CASE AgentDrop
  BY <1>2, SteadyDrop, PageAgentOnly DEF AgentDrop
<1>3. CASE Dispatch
  BY <1>3, UttersDispatch, PageUtters DEF Dispatch, Spawn, Kill, Resize, DumpScrollback, Relist, Dispatched
<1>4. CASE FinishSpawn \/ \E t \in DOMAIN ptys : Produce(t) \/ Exit(t) \/ Reader(t)
  BY <1>4, UttersReader, PageUtters DEF FinishSpawn, Produce, Exit, Reader, ReportEnd, Forget
<1>5. QED
  BY <1>1, <1>2, <1>3, <1>4 DEF AgentStep

LEMMA PageStutter ==
  ASSUME Typed, NEW s, Birth(s), NEW p \in Pages, PageSound(p, s), UNCHANGED vars
  PROVE  PageSound(p, s)'
BY UttersStill, PageUtters DEF vars, AgentOnly, agentVars, wireVars, Keeps, Able, Runs

-----------------------------------------------------------------------------
(***************************************************************************)
(* Pages.  What one of them does is no news to the others.                 *)
(***************************************************************************)
\* Nothing about s changes at the server or the agent.
LEMMA SteadyPage ==
  ASSUME Typed, NEW s, Birth(s), PageOnly
  PROVE  Steady(s)
BY UttersStill, SteadyUtters DEF PageOnly, registryVars, agentVars, Keeps, Able, Runs

\* Page o sends no spawn of s, unless nobody has drawn it.
LEMMA PageOther ==
  ASSUME Typed, NEW s, NEW o \in Pages, NEW p \in Pages, o # p, PageSound(p, s), PageOnly, Steady(s),
         UNCHANGED <<agentUp[p], entries[p], toPage[p], fromPage[p]>>,
         p \in DOMAIN subscribed' => p \in DOMAIN subscribed /\ subscribed'[p] = subscribed[p],
         s \in drawn => s \in drawn',
         \A q \in Pages : Begun(s, fromPage'[q]) => Begun(s, fromPage[q]) \/ s \notin drawn
  PROVE  PageSound(p, s)'
BY SoundAlong DEF PageOnly, registryVars, Same, Wants, Elsewhere, Easier, Steady

PageStep(p) ==
  Connect(p) \/ Disconnect(p) \/ PageReceives(p) \/ \E t \in SessionIds : NewSession(p, t) \/ CloseTab(p, t)

LEMMA PageStepOnly ==
  ASSUME NEW p, PageStep(p)
  PROVE  PageOnly
BY DEF PageStep, Connect, Disconnect, PageReceives, ReceiveStatus, ReceiveReady, ReceiveList, ReceiveEvent,
       ReceiveOutput, ReceiveDump, Receive, NewSession, CloseTab

\* What page o has of its own is all that changes.
LEMMA Own ==
  ASSUME Typed, NEW o \in Pages, PageStep(o), NEW p \in Pages, p # o
  PROVE  /\ UNCHANGED <<agentUp[p], entries[p], toPage[p], fromPage[p]>>
         /\ p \in DOMAIN subscribed' => p \in DOMAIN subscribed /\ subscribed'[p] = subscribed[p]
<1>1. Maps(subscribed, Pages, SUBSET DOMAIN sessions) /\ p \in DOMAIN agentUp /\ p \in DOMAIN entries
      /\ p \in DOMAIN toPage /\ p \in DOMAIN fromPage
  BY DEF Typed, RegistryTyped, WiresTyped, PagesTyped
<1>2. CASE Connect(o)
  BY <1>1, <1>2, MapsPut DEF Connect, Send, viewVars, Put
<1>3. CASE Disconnect(o)
  BY <1>1, <1>3 DEF Disconnect, Without, Restrict
<1>4. CASE PageReceives(o)
  BY <1>1, <1>4 DEF PageReceives, ReceiveStatus, ReceiveReady, ReceiveList, ReceiveEvent, ReceiveOutput,
     ReceiveDump, Receive, Send, viewVars
<1>5. CASE \E t \in SessionIds : NewSession(o, t) \/ CloseTab(o, t)
  BY <1>1, <1>5 DEF NewSession, CloseTab, Send
<1>6. QED
  BY <1>2, <1>3, <1>4, <1>5 DEF PageStep

\* A spawn of s is sent only if nobody has drawn it.
LEMMA PassesOr ==
  ASSUME Typed, NEW s \in SessionIds, NEW o \in Pages, PageStep(o)
  PROVE  /\ s \in drawn => s \in drawn'
         /\ Passes(s) \/ NewSession(o, s)
<1>1. CASE ~\E t \in SessionIds : NewSession(o, t)
  BY <1>1, BirthLinks, BirthReceives, BirthClose DEF PageStep
<1>2. ASSUME NEW t \in SessionIds, NewSession(o, t) PROVE s \in drawn => s \in drawn'
  BY <1>2, NewSessionFacts
<1>3. ASSUME NEW t \in SessionIds, NewSession(o, t), t # s PROVE Passes(s)
  <2>1. PageOnly /\ UNCHANGED toPage /\ drawn \subseteq drawn' /\ Send(o, <<Command("spawn", t)>>)
        /\ Command("spawn", t) \in ServerMessage
        /\ entries' = [entries EXCEPT ![o] = Put(entries[o], t, NewEntry(FALSE))]
    BY <1>3, NewSessionFacts
  <2>2. Command("spawn", t) # Command("spawn", s) /\ Command("spawn", t) # Command("scrollback", s)
    BY <1>3, Commands
  <2>3. s \in DOMAIN Put(entries[o], t, NewEntry(FALSE)) => s \in DOMAIN entries[o]
    BY <1>3 DEF Put
  <2>4. \A q \in Pages : s \notin DOMAIN entries[q] => s \notin DOMAIN entries'[q]
    BY <2>1, <2>3, EntriesOf
  <2>5. QED
    BY <2>1, <2>2, <2>4, BirthUser
<1>4. QED
  BY <1>1, <1>2, <1>3

LEMMA BegunOr ==
  ASSUME Typed, NEW s \in SessionIds, NEW o \in Pages, PageStep(o), NEW q \in Pages, Begun(s, fromPage'[q])
  PROVE  Begun(s, fromPage[q]) \/ s \notin drawn
BY NewSessionFacts, PassesOr DEF Passes, Lesser, Begun

LEMMA PageOthers ==
  ASSUME Typed, NEW s \in SessionIds, Birth(s), NEW o \in Pages, NEW p \in Pages, o # p, PageSound(p, s), PageStep(o)
  PROVE  PageSound(p, s)'
BY PageStepOnly, SteadyPage, BegunOr, PassesOr, Own, PageOther

\* The page has not seen s.
LEMMA ElsewhereUnseen ==
  ASSUME NEW p \in Pages, NEW s, Birth(s), Elsewhere(p, s)
  PROVE  s \notin DOMAIN entries[p]
BY DEF Birth, Elsewhere, Unborn, Ordered

LEMMA StartsNext ==
  ASSUME NEW p, NEW s
  PROVE  Starts(s, agentUp[p], entries[p])' = Starts(s, agentUp'[p], entries'[p])
BY DEF Starts

\* A page connects: it follows nothing, and hears whether there is an agent.
LEMMA ConnectFacts ==
  ASSUME Typed, Wired, NEW p \in Pages, NEW s, Connect(p)
  PROVE  /\ UNCHANGED <<agentUp[p], entries[p], agents, drawn>>
         /\ ~agentUp[p] /\ \A t \in DOMAIN entries[p] : ~entries[p][t].subscribed
         /\ p \in DOMAIN subscribed' /\ subscribed'[p] = {}
         /\ toPage'[p] = <<Status(agents # {})>>
         /\ ~Wants(p, s)' /\ ~Begun(s, fromPage[p])'
         /\ Elsewhere(p, s)' => Elsewhere(p, s)
<1>1. toPage[p] = <<>> /\ fromPage[p] = <<>> /\ ~agentUp[p] /\ \A t \in DOMAIN entries[p] : ~entries[p][t].subscribed
  BY DEF Wired, WiredPage, Connect
<1>2. UNCHANGED <<agentUp, entries, agents, drawn>>
  BY DEF Connect, PageOnly, registryVars, viewVars
<1>3. p \in DOMAIN toPage /\ p \in DOMAIN fromPage
  BY DEF Typed, WiresTyped
<1>4. toPage'[p] = <<Status(agents # {})>>
  BY <1>3 DEF Connect
<1>5. p \in DOMAIN subscribed' /\ subscribed'[p] = {}
  BY DEF Connect, Put
<1>6. ListSessions \in ServerMessage /\ <<ListSessions>> \in Seq(ServerMessage) /\ Len(<<ListSessions>>) = 1
  BY CommandTypes
<1>7. Send(p, <<ListSessions>>)
  BY DEF Connect
<1>8. Msgs(fromPage'[p]) \subseteq Msgs(<<>>) \cup Msgs(<<ListSessions>>)
      /\ \A q \in Pages : q # p => fromPage'[q] = fromPage[q]
  BY <1>1, <1>6, <1>7, SendQueues
<1>9. Msgs(fromPage'[p]) \subseteq {ListSessions}
  BY <1>8, MsgsEmpty, MsgsOne
<1>10. ~Asked(s, fromPage'[p]) /\ ~Begun(s, fromPage'[p])
  BY <1>9, Commands DEF Asked, Begun
<1>11. ~Named(s, toPage'[p])
  <2>1. Msgs(toPage'[p]) = {Status(agents # {})}
    BY <1>4, MsgsOne
  <2>2. QED
    BY <2>1, SpeaksOf DEF Named
<1>12. ~Wants(p, s)'
  BY <1>10, <1>11 DEF Wants
<1>13. Elsewhere(p, s)' => Elsewhere(p, s)
  BY <1>2, <1>8 DEF Elsewhere
<1>14. QED
  BY <1>1, <1>2, <1>4, <1>5, <1>10, <1>12, <1>13

LEMMA PageConnects ==
  ASSUME Typed, Wired, NEW s \in SessionIds, Birth(s), NEW p \in Pages, Connect(p)
  PROVE  PageSound(p, s)'
<1> DEFINE up == agents # {}
           E == {x \in Views : x.has => ~x.follows /\ s \in DOMAIN entries[p]}
<1>1. PICK X, F : X = Starts(s, agentUp[p], entries[p])' /\ F = Fitting(p, s)'
  OBVIOUS
<1>2. X \in SUBSET Views /\ X \subseteq E
  BY <1>1, StartsNext, ConnectFacts DEF Starts
<1>3. Len(<<>>) = 0 /\ Longer(<<Status(up)>>, <<>>, Status(up))
  BY DEF Longer
<1>4. ASSUME NEW x \in Views, x \in E, NEW y \in Views, Moves(s, x, Status(up), y)
      PROVE  Fits(p, s, y)'
  <2>1. y.up = up /\ (y.has => x.has /\ ~y.follows)
    BY <1>4, MovesStatus
  <2>2. Elsewhere(p, s)' => ~y.has
    BY <1>4, <2>1, ConnectFacts, ElsewhereUnseen
  <2>3. ~y.has \/ ~y.follows
    BY <2>1
  <2> HIDE DEF up
  <2>4. (agents' # {}) = up
    BY ConnectFacts DEF up
  <2>5. s \notin subscribed'[p] /\ ~Wants(p, s)' /\ ~Begun(s, fromPage[p])'
    BY ConnectFacts
  <2>6. Settled(y, agents' # {}, s \in DOMAIN sessions', s \in subscribed'[p], Continues(s, y.shown)', Live(s)',
                Wants(p, s)', Begun(s, fromPage[p])', Elsewhere(p, s)')
    BY <2>1, <2>2, <2>3, <2>4, <2>5 DEF Settled, Quiet
  <2>7. QED
    BY <2>6 DEF Fits
<1>5. \A x \in Views : x \in E => /\ Ahead(s, x, Status(up))
                                  /\ \A y \in Views : Moves(s, x, Status(up), y) => y \in F
  BY <1>1, <1>4, SpeaksOf, AheadUnless, FittingNext DEF Shows, Prints, Status
<1> HIDE DEF E, up
<1>6. Sound(s, X, <<>>, E)
  BY <1>2, <1>3, SoundEmpty
<1>7. Sound(s, X, <<Status(up)>>, F)
  BY <1>3, <1>5, <1>6, SoundLonger
<1>8. toPage'[p] = <<Status(up)>>
  BY ConnectFacts DEF up
<1>9. QED
  BY <1>1, <1>7, <1>8 DEF PageSound

\* A page that is not connected has nothing to read.
LEMMA PageGone ==
  ASSUME NEW p \in Pages, NEW s, p \notin DOMAIN subscribed', toPage'[p] = <<>>
  PROVE  PageSound(p, s)'
BY FittingNext, SoundEmpty DEF Starts, Fits, PageSound

LEMMA PageDisconnects ==
  ASSUME Typed, NEW s, NEW p \in Pages, Disconnect(p)
  PROVE  PageSound(p, s)'
BY PageGone DEF Disconnect, Typed, WiresTyped, Without, Restrict

LEMMA PageInit ==
  ASSUME Init, NEW p \in Pages, NEW s
  PROVE  PageSound(p, s)
<1>1. toPage[p] = <<>> /\ Len(<<>>) = 0
  BY DEF Init
<1>2. p \notin DOMAIN subscribed
  BY DEF Init, Empty
<1>3. PICK X, F : X = Starts(s, agentUp[p], entries[p]) /\ F = Fitting(p, s)
  OBVIOUS
<1>4. X \in SUBSET Views
  BY <1>3 DEF Starts
<1>5. \A x \in Views : Fits(p, s, x)
  BY <1>2 DEF Fits
<1>6. X \subseteq F
  BY <1>3, <1>4, <1>5, FittingIs
<1>7. Sound(s, X, <<>>, F)
  BY <1>1, <1>4, <1>6, SoundEmpty
<1>8. QED
  BY <1>1, <1>3, <1>7 DEF PageSound

\* A page goes on with what it shows, or less, and asks for no more.
LEMMA PageLess ==
  ASSUME Typed, NEW p \in Pages, NEW s, PageSound(p, s), Starts(s, agentUp[p], entries[p])' \subseteq Starts(s, agentUp[p], entries[p]),
         UNCHANGED <<toPage, agents, sessions, subscribed>>, Steady(s),
         Asked(s, fromPage'[p]) => Asked(s, fromPage[p]),
         Begun(s, fromPage'[p]) => Begun(s, fromPage[p]),
         Elsewhere(p, s)' => Elsewhere(p, s)
  PROVE  PageSound(p, s)'
<1>1. PICK X, Y, q, E, F : X = Starts(s, agentUp[p], entries[p]) /\ Y = Starts(s, agentUp[p], entries[p])'
                           /\ q = toPage[p] /\ E = Fitting(p, s) /\ F = Fitting(p, s)'
  OBVIOUS
<1>2. Same(p, s)
  BY DEF Same
<1>3. Wants(p, s)' => Wants(p, s)
  BY DEF Wants
<1>4. Easier(p, s)
  BY <1>3 DEF Easier, Steady
<1>5. ASSUME NEW x \in Views, Fits(p, s, x) PROVE Fits(p, s, x)'
  BY <1>2, <1>4, <1>5, FitsAlike DEF Alike
<1>6. \A x \in Views : x \in E => x \in F
  BY <1>1, <1>5, FittingIs, FittingNext
<1>7. Y \subseteq X /\ Sound(s, X, q, E) /\ toPage'[p] = q
  BY <1>1 DEF PageSound
<1>8. Len(q) \in Nat
  BY <1>1, SeqFacts DEF Typed, WiresTyped
<1>9. Sound(s, Y, q, F)
  BY <1>6, <1>7, <1>8, SoundWeaker
<1>10. QED
  BY <1>1, <1>7, <1>9 DEF PageSound

\* A tab is closed, or what runs in it killed first.
LEMMA PageCloses ==
  ASSUME Typed, NEW s \in SessionIds, Birth(s), NEW p \in Pages, PageSound(p, s), NEW t \in SessionIds, CloseTab(p, t)
  PROVE  PageSound(p, s)'
<1>1. PageOnly /\ UNCHANGED <<toPage, subscribed, agentUp, drawn>>
  BY DEF CloseTab
<1>2. UNCHANGED <<agents, sessions>> /\ Steady(s)
  BY <1>1, SteadyPage DEF PageOnly, registryVars
<1>3. Command("kill", t) \in ServerMessage /\ <<Command("kill", t)>> \in Seq(ServerMessage)
  BY CommandTypes, OneOf
<1>4. Command("kill", t) # Command("spawn", s) /\ Command("kill", t) # Command("scrollback", s)
  BY Commands
<1>5. \A q \in Pages : (Asked(s, fromPage'[q]) => Asked(s, fromPage[q])) /\ (Begun(s, fromPage'[q]) => Begun(s, fromPage[q]))
  <2>1. CASE UNCHANGED fromPage
    BY <2>1
  <2>2. CASE Send(p, <<Command("kill", t)>>)
    <3>1. \A q \in Pages : Msgs(fromPage'[q]) \subseteq Msgs(fromPage[q]) \cup Msgs(<<Command("kill", t)>>)
      BY <1>3, <2>2, SendQueues
    <3>2. \A q \in Pages : Msgs(fromPage'[q]) \subseteq Msgs(fromPage[q]) \cup {Command("kill", t)}
      BY <3>1, MsgsOne
    <3>3. QED
      BY <1>4, <3>2 DEF Asked, Begun
  <2>3. QED
    BY <2>1, <2>2 DEF CloseTab
<1>6. Elsewhere(p, s)' => Elsewhere(p, s)
  BY <1>1, <1>5 DEF Elsewhere
<1>7. s \in DOMAIN entries'[p] => s \in DOMAIN entries[p] /\ entries'[p][s] = entries[p][s]
  BY DEF Typed, PagesTyped, Without, Restrict, CloseTab
<1>8. Starts(s, agentUp[p], entries[p])' \subseteq Starts(s, agentUp[p], entries[p])
  BY <1>1, <1>7 DEF Starts
<1>9. QED
  BY <1>1, <1>2, <1>5, <1>6, <1>8, PageLess

\* Another tab is opened.
LEMMA PageOpensOther ==
  ASSUME Typed, NEW s \in SessionIds, Birth(s), NEW p \in Pages, PageSound(p, s), NEW t \in SessionIds, t # s,
         NewSession(p, t)
  PROVE  PageSound(p, s)'
<1>1. PageOnly /\ UNCHANGED <<toPage, subscribed, agentUp>> /\ drawn' = drawn \cup {t}
      /\ entries' = [entries EXCEPT ![p] = Put(entries[p], t, NewEntry(FALSE))]
  BY NewSessionFacts
<1>2. UNCHANGED <<agents, sessions>> /\ Steady(s)
  BY <1>1, SteadyPage DEF PageOnly, registryVars
<1>3. Msgs(fromPage'[p]) = {Command("spawn", t)} /\ \A q \in Pages : q # p => fromPage'[q] = fromPage[q]
  BY NewSessionFacts
<1>4. ~Asked(s, fromPage'[p]) /\ ~Begun(s, fromPage'[p])
  BY <1>3, Commands DEF Asked, Begun
<1>5. Elsewhere(p, s)' => Elsewhere(p, s)
  BY <1>1, <1>3 DEF Elsewhere
<1>6. entries'[p] = Put(entries[p], t, NewEntry(FALSE))
  BY <1>1 DEF Typed, PagesTyped
<1>7. s \in DOMAIN entries'[p] => s \in DOMAIN entries[p] /\ entries'[p][s] = entries[p][s]
  BY <1>6 DEF Put
<1>8. Starts(s, agentUp[p], entries[p])' \subseteq Starts(s, agentUp[p], entries[p])
  BY <1>1, <1>7 DEF Starts
<1>9. QED
  BY <1>1, <1>2, <1>4, <1>5, <1>8, PageLess

\* A tab is opened for s.
LEMMA PageOpensOne ==
  ASSUME Typed, NEW s \in SessionIds, Birth(s), NEW p \in Pages, PageSound(p, s), NewSession(p, s)
  PROVE  PageSound(p, s)'
<1>1. PageOnly /\ UNCHANGED <<toPage, subscribed, agentUp>> /\ drawn' = drawn \cup {s} /\ s \notin drawn
      /\ entries' = [entries EXCEPT ![p] = Put(entries[p], s, NewEntry(FALSE))]
      /\ \A q \in Pages : q # p => fromPage'[q] = fromPage[q]
  BY NewSessionFacts
<1>2. UNCHANGED <<agents, sessions>> /\ Steady(s)
  BY <1>1, SteadyPage DEF PageOnly, registryVars
<1>3. Unborn(s) /\ NoTrace(s) /\ s \notin DOMAIN sessions /\ Elsewhere(p, s)
  BY <1>1 DEF Birth, Unborn, Elsewhere
<1>4. ~Live(s)'
  BY <1>2, <1>3, OrderBlank, MuteIs DEF Able, Runs, NoTrace, Unborn, Live, Steady
<1>5. ~Elsewhere(p, s)'
  BY <1>1, <1>3 DEF Elsewhere, Unborn
<1>6. PICK X, Y, q, E, F : X = Starts(s, agentUp[p], entries[p]) /\ Y = Starts(s, agentUp[p], entries[p])'
                           /\ q = toPage[p] /\ E = Fitting(p, s) /\ F = Fitting(p, s)'
  OBVIOUS
<1>7. Sound(s, X, q, E) /\ toPage'[p] = q
  BY <1>1, <1>6 DEF PageSound
<1>8. Len(q) \in Nat /\ \A i \in 1..Len(q) : ~Shows(q[i], s) /\ ~Names(q[i], s)
  BY <1>3, <1>6, SeqFacts DEF Typed, WiresTyped, NoTrace, Blank, Msgs
<1>9. ASSUME NEW y \in Y PROVE y \in Views /\ (y \in X \/ (Fresh(y) /\ \E x \in X : ~x.has /\ x.up = y.up))
  <2>1. entries'[p] = Put(entries[p], s, NewEntry(FALSE))
    BY <1>1 DEF Typed, PagesTyped
  <2>2. s \in DOMAIN entries'[p] /\ entries'[p][s] = NewEntry(FALSE)
    BY <2>1 DEF Put
  <2>3. ~entries'[p][s].restoring /\ entries'[p][s].shown = 0
    BY <2>2 DEF NewEntry
  <2>4. y \in Views /\ y.up = agentUp[p] /\ (y.has => Fresh(y))
    BY <1>1, <1>6, <1>9, <2>3 DEF Starts, Fresh
  <2>5. CASE ~y.has
    BY <1>6, <2>4, <2>5 DEF Starts
  <2>6. CASE y.has
    <3>1. PICK x : x = [up |-> y.up, has |-> FALSE, restoring |-> y.restoring, follows |-> y.follows, shown |-> y.shown]
      OBVIOUS
    <3>2. x \in Views /\ ~x.has /\ x.up = y.up
      BY <2>4, <3>1 DEF Views
    <3>3. x \in X
      BY <1>6, <2>4, <3>2 DEF Starts
    <3>4. QED
      BY <2>4, <2>6, <3>2, <3>3
  <2>7. QED
    BY <2>4, <2>5, <2>6 DEF Views
<1>10. ASSUME NEW y \in Views, y \in E \/ (Fresh(y) /\ \E x \in Views : x \in E /\ ~x.has /\ x.up = y.up)
       PROVE  y \in F
  <2>1. p \in DOMAIN subscribed => y.up = (agents # {}) /\ (~y.has \/ y.shown = 0)
    BY <1>3, <1>6, <1>10, FittingIs DEF Fits, Settled, Fresh
  <2>2. p \in DOMAIN subscribed' =>
          Settled(y, agents' # {}, s \in DOMAIN sessions', s \in subscribed'[p], Continues(s, y.shown)', Live(s)',
                  Wants(p, s)', Begun(s, fromPage[p])', Elsewhere(p, s)')
    BY <1>1, <1>2, <1>3, <1>4, <1>5, <2>1 DEF Settled, Quiet
  <2>3. Fits(p, s, y)'
    BY <2>2 DEF Fits
  <2>4. QED
    BY <1>6, <2>3, FittingNext
<1>11. Sound(s, Y, q, F)
  BY <1>7, <1>8, <1>9, <1>10, SoundFresh
<1>12. QED
  BY <1>6, <1>7, <1>11 DEF PageSound

-----------------------------------------------------------------------------
(***************************************************************************)
(* A page reads a message.                                                 *)
(***************************************************************************)
\* What m makes of the entry e of s: f.
Shifts(s, up, e, m, f) ==
  /\ IF Names(m, s) /\ up /\ ~e.subscribed
     THEN f.restoring /\ f.subscribed
     ELSE /\ f.restoring = (e.restoring /\ ~(m.is = "dump" /\ m.id = s))
          /\ f.subscribed = (e.subscribed /\ ~(m.is = "status" /\ ~m.connected)
                                          /\ ~(m.is = "list" /\ up /\ s \notin m.ids))
          /\ f.shown = IF Shows(m, s) /\ ~(m.is = "output" /\ e.restoring) THEN At(m) ELSE e.shown
  /\ e.whole /\ (Prints(m, s) => e.restoring \/ m.chunk = e.shown + 1) => f.whole
\* What m makes of a page without one.
Appears(s, up, m, f) == Names(m, s) /\ up /\ f.restoring /\ f.subscribed /\ f.whole
Turns(p, s, m) ==
  /\ agentUp'[p] = IF m.is = "status" THEN m.connected ELSE agentUp[p]
  /\ s \in DOMAIN entries'[p] =>
       \/ s \in DOMAIN entries[p] /\ Shifts(s, agentUp[p], entries[p][s], m, entries'[p][s])
       \/ s \notin DOMAIN entries[p] /\ Appears(s, agentUp[p], m, entries'[p][s])

LEMMA ReadHead ==
  ASSUME Typed, NEW p \in Pages, NEW kinds, Receive(p, kinds)
  PROVE  /\ Head(toPage[p]) \in AgentMessage /\ Head(toPage[p]).is \in kinds
         /\ p \in DOMAIN entries /\ p \in DOMAIN agentUp /\ agentUp[p] \in BOOLEAN /\ Maps(entries[p], SessionIds, Entry)
BY ReceiveQueues DEF Typed, PagesTyped

LEMMA ShiftsStill ==
  ASSUME NEW s, NEW up, NEW e \in Entry, NEW m, NEW f, f.restoring = e.restoring, f.subscribed = e.subscribed,
         f.shown = e.shown, f.whole = e.whole, ~Shows(m, s), m.is \in {"ready", "event", "output", "dump"}
  PROVE  Shifts(s, up, e, m, f)
BY DEF Names, Shows, Prints, Entry, Shifts

LEMMA StatusTurns ==
  ASSUME Typed, NEW p \in Pages, NEW s, ReceiveStatus(p), NEW m, m = Head(toPage[p])
  PROVE  Turns(p, s, m)
<1>1. m.is = "status" /\ p \in DOMAIN entries /\ p \in DOMAIN agentUp /\ Maps(entries[p], SessionIds, Entry)
      /\ m.connected \in BOOLEAN
  BY ReadHead, MessageParts DEF ReceiveStatus
<1>2. agentUp'[p] = m.connected
  BY <1>1 DEF ReceiveStatus
<1>3. entries'[p] = IF m.connected THEN entries[p] ELSE Unsubscribed(entries[p])
  BY <1>1 DEF ReceiveStatus
<1>4. ASSUME s \in DOMAIN entries'[p]
      PROVE  s \in DOMAIN entries[p] /\ Shifts(s, agentUp[p], entries[p][s], m, entries'[p][s])
  <2>1. s \in DOMAIN entries[p]
    BY <1>3, <1>4 DEF Unsubscribed
  <2>2. PICK e, f : e = entries[p][s] /\ f = entries'[p][s]
    OBVIOUS
  <2>3. e \in Entry
    BY <1>1, <2>1, <2>2, EntryIn
  <2>4. f = IF m.connected THEN e ELSE [e EXCEPT !.subscribed = FALSE]
    BY <1>3, <2>1, <2>2 DEF Unsubscribed
  <2>5. /\ f.restoring = e.restoring /\ f.shown = e.shown /\ f.whole = e.whole
        /\ f.subscribed = (e.subscribed /\ m.connected) /\ e.restoring \in BOOLEAN
    BY <1>1, <2>3, <2>4 DEF Entry
  <2>6. Shifts(s, agentUp[p], e, m, f)
    BY <1>1, <2>5 DEF Shifts, Names, Shows, Prints
  <2>7. QED
    BY <2>1, <2>2, <2>6
<1>5. QED
  BY <1>1, <1>2, <1>4 DEF Turns

LEMMA ReadyTurns ==
  ASSUME Typed, NEW p \in Pages, NEW s, ReceiveReady(p), NEW m, m = Head(toPage[p])
  PROVE  Turns(p, s, m)
BY ReadHead, EntryIn, ShiftsStill DEF ReceiveReady, viewVars, Shows, Turns

LEMMA EventTurns ==
  ASSUME Typed, NEW p \in Pages, NEW s, ReceiveEvent(p), NEW m, m = Head(toPage[p])
  PROVE  Turns(p, s, m)
<1>1. m.is = "event" /\ Maps(entries[p], SessionIds, Entry) /\ p \in DOMAIN entries
  BY ReadHead DEF ReceiveEvent
<1>2. UNCHANGED agentUp
  BY DEF ReceiveEvent
<1>3. \/ entries'[p] = entries[p] \/ entries'[p] = Without(entries[p], {m.id})
      \/ m.id \in DOMAIN entries[p] /\ entries'[p] = [entries[p] EXCEPT ![m.id].running = (m.event = "started")]
  BY <1>1 DEF ReceiveEvent
<1>4. ASSUME s \in DOMAIN entries'[p]
      PROVE  s \in DOMAIN entries[p] /\ Shifts(s, agentUp[p], entries[p][s], m, entries'[p][s])
  <2>1. s \in DOMAIN entries[p]
    BY <1>3, <1>4 DEF Without, Restrict
  <2>2. PICK e, f : e = entries[p][s] /\ f = entries'[p][s]
    OBVIOUS
  <2>3. e \in Entry
    BY <1>1, <2>1, <2>2, EntryIn
  <2>4. f = e \/ f = [e EXCEPT !.running = (m.event = "started")]
    BY <1>3, <1>4, <2>1, <2>2 DEF Without, Restrict
  <2>5. f.restoring = e.restoring /\ f.shown = e.shown /\ f.whole = e.whole /\ f.subscribed = e.subscribed
    BY <2>3, <2>4 DEF Entry
  <2>6. QED
    BY <1>1, <2>1, <2>2, <2>3, <2>5, ShiftsStill DEF Shows
<1>5. QED
  BY <1>1, <1>2, <1>4 DEF Turns

LEMMA OutputTurns ==
  ASSUME Typed, NEW p \in Pages, NEW s, ReceiveOutput(p), NEW m, m = Head(toPage[p])
  PROVE  Turns(p, s, m)
<1>1. m.is = "output" /\ Maps(entries[p], SessionIds, Entry) /\ p \in DOMAIN entries
  BY ReadHead DEF ReceiveOutput
<1>2. UNCHANGED agentUp
  BY DEF ReceiveOutput
<1>3. entries'[p] = IF m.id \in DOMAIN entries[p]
                    THEN [entries[p] EXCEPT ![m.id] =
                            IF entries[p][m.id].restoring THEN entries[p][m.id]
                            ELSE [entries[p][m.id] EXCEPT !.shown = m.chunk,
                                                          !.whole = @ /\ m.chunk = entries[p][m.id].shown + 1]]
                    ELSE entries[p]
  BY <1>1 DEF ReceiveOutput
<1>4. ASSUME s \in DOMAIN entries'[p]
      PROVE  s \in DOMAIN entries[p] /\ Shifts(s, agentUp[p], entries[p][s], m, entries'[p][s])
  <2>1. s \in DOMAIN entries[p]
    BY <1>3, <1>4
  <2>2. PICK e, f : e = entries[p][s] /\ f = entries'[p][s]
    OBVIOUS
  <2>3. e \in Entry
    BY <1>1, <2>1, <2>2, EntryIn
  <2>4. CASE s # m.id
    BY <1>1, <1>3, <2>1, <2>2, <2>3, <2>4, ShiftsStill DEF Shows
  <2>5. CASE s = m.id
    BY <1>1, <1>3, <2>1, <2>2, <2>3, <2>5 DEF Entry, Shifts, Names, Shows, Prints, At
  <2>6. QED
    BY <2>4, <2>5
<1>5. QED
  BY <1>1, <1>2, <1>4 DEF Turns

LEMMA DumpTurns ==
  ASSUME Typed, NEW p \in Pages, NEW s, ReceiveDump(p), NEW m, m = Head(toPage[p])
  PROVE  Turns(p, s, m)
<1>1. m.is = "dump" /\ Maps(entries[p], SessionIds, Entry) /\ p \in DOMAIN entries
  BY ReadHead DEF ReceiveDump
<1>2. UNCHANGED agentUp
  BY DEF ReceiveDump
<1>3. entries'[p] = IF m.id \in DOMAIN entries[p]
                    THEN [entries[p] EXCEPT ![m.id].restoring = FALSE, ![m.id].shown = m.upto, ![m.id].whole = TRUE]
                    ELSE entries[p]
  BY <1>1 DEF ReceiveDump
<1>4. ASSUME s \in DOMAIN entries'[p]
      PROVE  s \in DOMAIN entries[p] /\ Shifts(s, agentUp[p], entries[p][s], m, entries'[p][s])
  <2>1. s \in DOMAIN entries[p]
    BY <1>3, <1>4
  <2>2. PICK e, f : e = entries[p][s] /\ f = entries'[p][s]
    OBVIOUS
  <2>3. e \in Entry
    BY <1>1, <2>1, <2>2, EntryIn
  <2>4. CASE s # m.id
    BY <1>1, <1>3, <2>1, <2>2, <2>3, <2>4, ShiftsStill DEF Shows
  <2>5. CASE s = m.id
    <3>1. f = [e EXCEPT !.restoring = FALSE, !.shown = m.upto, !.whole = TRUE]
      BY <1>3, <2>1, <2>2, <2>5
    <3>2. f.restoring = FALSE /\ f.subscribed = e.subscribed /\ f.shown = m.upto /\ f.whole /\ e.subscribed \in BOOLEAN
      BY <2>3, <3>1 DEF Entry
    <3>3. Shifts(s, agentUp[p], e, m, f)
      BY <1>1, <2>5, <3>2 DEF Shifts, Names, Shows, Prints, At
    <3>4. QED
      BY <2>1, <2>2, <3>3
  <2>6. QED
    BY <2>4, <2>5
<1>5. QED
  BY <1>1, <1>2, <1>4 DEF Turns

LEMMA ListTurns ==
  ASSUME Typed, NEW p \in Pages, NEW s, ReceiveList(p), NEW m, m = Head(toPage[p])
  PROVE  Turns(p, s, m)
<1>1. m.is = "list" /\ Maps(entries[p], SessionIds, Entry) /\ p \in DOMAIN entries
  <2>1. Receive(p, {"list"})
    BY DEF ReceiveList
  <2>2. QED
    BY <2>1, ReadHead
<1>2. UNCHANGED agentUp
  BY DEF ReceiveList
<1> DEFINE mine == entries[p]
           asked == {t \in m.ids : t \in DOMAIN mine => ~mine[t].subscribed}
           restored(t) ==
             IF t \notin DOMAIN mine THEN NewEntry(TRUE)
             ELSE IF t \in asked THEN [mine[t] EXCEPT !.running = TRUE, !.subscribed = TRUE, !.restoring = TRUE]
             ELSE IF t \in m.ids THEN [mine[t] EXCEPT !.running = TRUE]
             ELSE [mine[t] EXCEPT !.running = FALSE, !.subscribed = FALSE]
<1>3. \/ ~agentUp[p] /\ entries' = entries
      \/ agentUp[p] /\ entries'[p] = [t \in DOMAIN mine \cup m.ids |-> restored(t)]
  BY <1>1 DEF ReceiveList
<1>4. CASE ~agentUp[p] /\ entries' = entries
  BY <1>1, <1>2, <1>4, EntryIn DEF Entry, Shifts, Names, Shows, Prints, Turns
<1>5. CASE agentUp[p] /\ entries'[p] = [t \in DOMAIN mine \cup m.ids |-> restored(t)]
  <2>1. s \in DOMAIN entries'[p] => (s \in DOMAIN mine \/ s \in m.ids) /\ entries'[p][s] = restored(s)
    BY <1>5
  <2>2. CASE s \in DOMAIN mine
    <3>1. PICK e : e = mine[s]
      OBVIOUS
    <3>2. e \in Entry
      BY <1>1, <2>2, <3>1, EntryIn
    <3>3. PICK f : f = restored(s)
      OBVIOUS
    <3>4. f = IF s \in m.ids /\ ~e.subscribed
              THEN [e EXCEPT !.running = TRUE, !.subscribed = TRUE, !.restoring = TRUE]
              ELSE IF s \in m.ids THEN [e EXCEPT !.running = TRUE]
              ELSE [e EXCEPT !.running = FALSE, !.subscribed = FALSE]
      BY <2>2, <3>1, <3>3
    <3>5. /\ s \in m.ids /\ ~e.subscribed => f.restoring /\ f.subscribed
          /\ ~(s \in m.ids /\ ~e.subscribed) => f.restoring = e.restoring /\ f.shown = e.shown
                                                /\ f.subscribed = (e.subscribed /\ s \in m.ids)
          /\ f.whole = e.whole /\ e.restoring \in BOOLEAN /\ e.subscribed \in BOOLEAN
      BY <3>2, <3>4 DEF Entry
    <3>6. Shifts(s, agentUp[p], e, m, f)
      BY <1>1, <1>5, <3>5 DEF Shifts, Names, Shows, Prints
    <3> HIDE DEF restored
    <3>7. QED
      BY <1>1, <1>2, <2>1, <2>2, <3>1, <3>3, <3>6 DEF Turns
  <2>3. CASE s \notin DOMAIN mine
    <3>1. restored(s) = NewEntry(TRUE)
      BY <2>3
    <3>2. NewEntry(TRUE).restoring /\ NewEntry(TRUE).subscribed /\ NewEntry(TRUE).whole
      BY DEF NewEntry
    <3> HIDE DEF restored
    <3>3. s \in DOMAIN entries'[p] => Appears(s, agentUp[p], m, entries'[p][s])
      BY <1>1, <1>5, <2>1, <2>3, <3>1, <3>2 DEF Appears, Names
    <3>4. QED
      BY <1>1, <1>2, <2>3, <3>3 DEF Turns
  <2>4. QED
    BY <2>2, <2>3
<1>6. QED
  BY <1>3, <1>4, <1>5

\* What m makes of the page is a move.
LEMMA TurnsMoves ==
  ASSUME Typed, NEW p \in Pages, NEW s, NEW m, Turns(p, s, m), NEW y \in Starts(s, agentUp[p], entries[p])'
  PROVE  y \in Views /\ \E x \in Starts(s, agentUp[p], entries[p]) : Moves(s, x, m, y)
<1>1. PICK X, up, ent : X = Starts(s, agentUp[p], entries[p]) /\ up = agentUp[p] /\ ent = entries[p]
  OBVIOUS
<1>2. PICK vp, nxt : vp = agentUp'[p] /\ nxt = entries'[p]
  OBVIOUS
<1>3. y \in Starts(s, vp, nxt)
  BY <1>2, StartsNext
<1>4. /\ y \in Views /\ y.up = vp
      /\ y.has => s \in DOMAIN nxt /\ y.restoring = nxt[s].restoring /\ y.follows = nxt[s].subscribed /\ y.shown = nxt[s].shown
  BY <1>3 DEF Starts
<1>5. up \in BOOLEAN /\ Maps(ent, SessionIds, Entry)
  BY <1>1 DEF Typed, PagesTyped
<1>6. vp = (IF m.is = "status" THEN m.connected ELSE up)
  BY <1>1, <1>2 DEF Turns
<1>7. ASSUME ~y.has \/ s \notin DOMAIN ent, ~y.has \/ (s \in DOMAIN nxt /\ Appears(s, up, m, nxt[s]))
      PROVE  \E x \in X : Moves(s, x, m, y)
  <2>1. PICK x : x = [up |-> up, has |-> FALSE, restoring |-> y.restoring, follows |-> y.follows, shown |-> y.shown]
    OBVIOUS
  <2>2. x \in Views /\ x.up = up /\ ~x.has
    BY <1>4, <1>5, <2>1 DEF Views
  <2>3. x \in X
    BY <1>1, <2>2 DEF Starts
  <2>4. Moves(s, x, m, y)
    BY <1>4, <1>6, <1>7, <2>2 DEF Moves, Appears
  <2>5. QED
    BY <2>3, <2>4
<1>8. ASSUME y.has, s \in DOMAIN ent, s \in DOMAIN nxt, Shifts(s, up, ent[s], m, nxt[s])
      PROVE  \E x \in X : Moves(s, x, m, y)
  <2>1. PICK e, f : e = ent[s] /\ f = nxt[s]
    OBVIOUS
  <2>2. e \in Entry
    BY <1>5, <1>8, <2>1, EntryIn
  <2>3. PICK x : x = [up |-> up, has |-> TRUE, restoring |-> e.restoring, follows |-> e.subscribed, shown |-> e.shown]
    OBVIOUS
  <2>4. x \in Views /\ x.up = up /\ x.has /\ x.restoring = e.restoring /\ x.follows = e.subscribed /\ x.shown = e.shown
    BY <1>5, <2>2, <2>3 DEF Views, Entry
  <2>5. x \in X
    BY <1>1, <1>8, <2>1, <2>4 DEF Starts
  <2>6. Shifts(s, up, e, m, f) /\ y.restoring = f.restoring /\ y.follows = f.subscribed /\ y.shown = f.shown
    BY <1>4, <1>8, <2>1
  <2>7. Moves(s, x, m, y)
    BY <1>4, <1>6, <1>8, <2>4, <2>6 DEF Moves, Shifts
  <2>8. QED
    BY <2>5, <2>7
<1>9. y.has => s \in DOMAIN nxt /\ ((s \in DOMAIN ent /\ Shifts(s, up, ent[s], m, nxt[s]))
                                    \/ (s \notin DOMAIN ent /\ Appears(s, up, m, nxt[s])))
  BY <1>1, <1>2, <1>4 DEF Turns
<1>10. \E x \in X : Moves(s, x, m, y)
  BY <1>7, <1>8, <1>9
<1>11. QED
  BY <1>1, <1>4, <1>10

\* What the page asks for in turn.
LEMMA ReceivesAsks ==
  ASSUME Typed, NEW s \in SessionIds, NEW p \in Pages, PageReceives(p), NEW m, m = Head(toPage[p])
  PROVE  /\ Asked(s, fromPage'[p]) => Asked(s, fromPage[p]) \/ Names(m, s)
         /\ \A q \in Pages : Begun(s, fromPage'[q]) => Begun(s, fromPage[q])
<1>1. \A q \in Pages : Begun(s, fromPage'[q]) => Begun(s, fromPage[q])
  BY BirthReceives DEF Passes, Lesser, Begun
<1>2. CASE UNCHANGED fromPage
  BY <1>1, <1>2
<1>3. ASSUME NEW ms \in Seq(ServerMessage), Send(p, ms), Command("scrollback", s) \in Msgs(ms) => Names(m, s)
      PROVE  Asked(s, fromPage'[p]) => Asked(s, fromPage[p]) \/ Names(m, s)
  BY <1>3, SendQueues DEF Asked
<1>4. ASSUME ReceiveReady(p) PROVE Asked(s, fromPage'[p]) => Asked(s, fromPage[p]) \/ Names(m, s)
  <2>1. <<ListSessions>> \in Seq(ServerMessage) /\ Send(p, <<ListSessions>>)
    BY <1>4, CommandTypes, OneOf DEF ReceiveReady
  <2>2. Command("scrollback", s) \notin Msgs(<<ListSessions>>)
    BY MsgsOne, Commands
  <2>3. QED
    BY <1>3, <2>1, <2>2
<1>5. ASSUME ReceiveDump(p) PROVE Asked(s, fromPage'[p]) => Asked(s, fromPage[p]) \/ Names(m, s)
  <2>1. Receive(p, {"dump"}) /\ Send(p, <<Command("resize", m.id)>>)
    BY <1>5 DEF ReceiveDump
  <2>2. m \in AgentMessage /\ m.is = "dump"
    BY <2>1, ReceiveQueues
  <2>3. m.id \in SessionIds
    BY <2>2, MessageParts
  <2>4. Command("resize", m.id) \in ServerMessage
    BY <2>3, CommandTypes
  <2>5. <<Command("resize", m.id)>> \in Seq(ServerMessage)
    BY <2>4, OneOf
  <2>6. Command("scrollback", s) \notin Msgs(<<Command("resize", m.id)>>)
    BY MsgsOne, Commands
  <2>7. QED
    BY <1>3, <2>1, <2>5, <2>6
<1>6. ASSUME ReceiveList(p) PROVE Asked(s, fromPage'[p]) => Asked(s, fromPage[p]) \/ Names(m, s)
  <2> DEFINE mine == entries[p]
             asked == {t \in m.ids : t \in DOMAIN mine => ~mine[t].subscribed}
             ms == SetToSeq({Command("scrollback", t) : t \in asked})
  <2>1. Receive(p, {"list"})
    BY <1>6 DEF ReceiveList
  <2>2. Send(p, ms) \/ UNCHANGED fromPage
    BY <1>6 DEF ReceiveList
  <2>3. m \in AgentMessage /\ m.is = "list"
    BY <2>1, ReceiveQueues
  <2>4. asked \subseteq m.ids /\ asked \in SUBSET SessionIds
    BY <2>3, MessageParts
  <2>5. ms \in Seq(ServerMessage) /\ Msgs(ms) \subseteq {Command("scrollback", t) : t \in asked}
    <3> HIDE DEF asked
    <3>1. QED
      BY <2>4, AskedQueues
  <2> HIDE DEF ms, asked
  <2>6. Command("scrollback", s) \in Msgs(ms) => Names(m, s)
    BY <2>3, <2>4, <2>5, Commands DEF Names
  <2>7. QED
    BY <1>2, <1>3, <2>2, <2>5, <2>6
<1>7. CASE ReceiveStatus(p) \/ ReceiveEvent(p) \/ ReceiveOutput(p)
  BY <1>2, <1>7 DEF ReceiveStatus, ReceiveEvent, ReceiveOutput
<1>8. QED
  BY <1>1, <1>4, <1>5, <1>6, <1>7 DEF PageReceives

LEMMA ReceivesTurns ==
  ASSUME Typed, NEW p \in Pages, NEW s, PageReceives(p), NEW m, m = Head(toPage[p])
  PROVE  Turns(p, s, m)
BY StatusTurns, ReadyTurns, ListTurns, EventTurns, OutputTurns, DumpTurns DEF PageReceives

LEMMA ReceivesIs ==
  ASSUME NEW p, PageReceives(p)
  PROVE  \E kinds : Receive(p, kinds)
BY DEF ReceiveList, ReceiveEvent, ReceiveOutput, ReceiveDump, ReceiveStatus, ReceiveReady, PageReceives

LEMMA PageReads ==
  ASSUME Typed, NEW s \in SessionIds, Birth(s), NEW p \in Pages, PageSound(p, s), PageReceives(p)
  PROVE  PageSound(p, s)' /\ \A x \in Starts(s, agentUp[p], entries[p]) : Ahead(s, x, Head(toPage[p]))
<1>1. PICK m : m = Head(toPage[p])
  OBVIOUS
<1>2. PICK kinds : Receive(p, kinds)
  BY ReceivesIs
<1>3. /\ m \in Msgs(toPage[p]) /\ m = toPage[p][1] /\ Msgs(toPage'[p]) \subseteq Msgs(toPage[p])
      /\ Window(toPage'[p], toPage[p], 1) /\ Len(toPage[p]) > 0 /\ Len(toPage'[p]) = Len(toPage[p]) - 1
  BY <1>1, <1>2, ReceiveQueues
<1>4. PageOnly /\ UNCHANGED <<subscribed, drawn>>
  BY <1>2 DEF Receive, linkVars
<1>5. UNCHANGED <<agents, sessions>> /\ Steady(s)
  BY <1>4, SteadyPage DEF PageOnly, registryVars
<1>6. Turns(p, s, m)
  BY <1>1, ReceivesTurns
<1>7. PICK X, Y, q, r, E, F : X = Starts(s, agentUp[p], entries[p]) /\ Y = Starts(s, agentUp[p], entries[p])'
                              /\ q = toPage[p] /\ r = toPage'[p] /\ E = Fitting(p, s) /\ F = Fitting(p, s)'
  OBVIOUS
<1>8. Sound(s, X, q, E)
  BY <1>7 DEF PageSound
<1>9. \A y \in Y : y \in Views /\ \E x \in X : Moves(s, x, m, y)
  BY <1>6, <1>7, TurnsMoves
<1>10. Window(r, q, 1) /\ Len(q) > 0 /\ Len(r) = Len(q) - 1 /\ q[1] = m
  BY <1>3, <1>7
<1>11. Sound(s, Y, r, E) /\ \A x \in X : Ahead(s, x, m)
  BY <1>8, <1>9, <1>10, SoundRead
<1>12. Same(p, s)
  BY <1>4, <1>5 DEF Same
<1>13. /\ Asked(s, fromPage'[p]) => Asked(s, fromPage[p]) \/ Names(m, s)
       /\ \A o \in Pages : Begun(s, fromPage'[o]) => Begun(s, fromPage[o])
  BY <1>1, ReceivesAsks
<1>14. Wants(p, s)' => Wants(p, s)
  BY <1>3, <1>13 DEF Wants, Named
<1>15. Elsewhere(p, s)' => Elsewhere(p, s)
  BY <1>4, <1>13 DEF Elsewhere
<1>16. Easier(p, s)
  BY <1>5, <1>13, <1>14, <1>15 DEF Easier, Steady
<1>17. ASSUME NEW x \in Views, Fits(p, s, x) PROVE Fits(p, s, x)'
  BY <1>5, <1>12, <1>16, <1>17, FitsAlike DEF Alike
<1>18. \A x \in Views : x \in E => x \in F
  BY <1>7, <1>17, FittingIs, FittingNext
<1>19. Len(r) \in Nat
  BY <1>10 DEF Window
<1>20. Sound(s, Y, r, F)
  BY <1>11, <1>18, <1>19, SoundWeaker
<1>21. PageSound(p, s)'
  BY <1>7, <1>20 DEF PageSound
<1>22. QED
  BY <1>1, <1>7, <1>11, <1>21

LEMMA PageNext ==
  ASSUME Typed, Wired, "stale" \notin Races, NEW s \in SessionIds, Birth(s), Order(s), NEW p \in Pages, PageSound(p, s),
         [Next]_vars
  PROVE  PageSound(p, s)'
<1>1. CASE UNCHANGED vars
  BY <1>1, PageStutter
<1>2. ASSUME NEW c \in Conns, OnSessionList(c) \/ OnSessionMessage(c) \/ OnReady(c) PROVE PageSound(p, s)'
  BY <1>2, PageListed, PageMessage, PageReady
<1>3. ASSUME NEW c \in Conns, Unregister(c) PROVE PageSound(p, s)'
  BY <1>3, PageUnregister
<1>4. ASSUME NEW c \in Conns, SendPing(c) PROVE PageSound(p, s)'
  BY <1>4, PagePing
<1>5. ASSUME NEW o \in Pages, OnSpawnSession(o) \/ OnSessionCommand(o) \/ OnListSessions(o) PROVE PageSound(p, s)'
  BY <1>5, PageSpawnSession, PageSessionCommand, PageListSessions
<1>6. CASE AgentConnect
  BY <1>6, PageConnect
<1>7. CASE AgentStep
  BY <1>7, PageByAgent
<1>8. ASSUME NEW o \in Pages, PageStep(o) PROVE PageSound(p, s)'
  BY <1>8, PageOthers, PageConnects, PageDisconnects, PageReads, PageOpensOne, PageOpensOther,
     PageCloses DEF PageStep
<1>9. QED
  BY <1>1, <1>2, <1>3, <1>4, <1>5, <1>6, <1>7, <1>8 DEF Next, ServerStep, Reap, ServerHangup, AgentStep, PageStep

-----------------------------------------------------------------------------
(***************************************************************************)
(* What a page shows is whole.                                             *)
(***************************************************************************)
WholeOf(p, s) == s \in DOMAIN entries[p] => entries[p][s].whole

LEMMA WholeReads ==
  ASSUME Typed, NEW s \in SessionIds, Birth(s), NEW p \in Pages, PageSound(p, s), WholeOf(p, s), PageReceives(p)
  PROVE  WholeOf(p, s)'
<1>1. SUFFICES ASSUME s \in DOMAIN entries'[p] PROVE entries'[p][s].whole
  BY DEF WholeOf
<1>2. PICK m : m = Head(toPage[p])
  OBVIOUS
<1>3. Turns(p, s, m)
  BY <1>2, ReceivesTurns
<1>4. CASE s \notin DOMAIN entries[p]
  BY <1>1, <1>3, <1>4 DEF Turns, Appears
<1>5. CASE s \in DOMAIN entries[p]
  <2>1. PICK e, f : e = entries[p][s] /\ f = entries'[p][s]
    OBVIOUS
  <2>2. Shifts(s, agentUp[p], e, m, f) /\ e.whole
    BY <1>1, <1>3, <1>5, <2>1 DEF Turns, WholeOf
  <2>3. e \in Entry /\ agentUp[p] \in BOOLEAN
    BY <1>5, <2>1, EntryIn DEF Typed, PagesTyped
  <2>4. PICK x : x = [up |-> agentUp[p], has |-> TRUE, restoring |-> e.restoring, follows |-> e.subscribed, shown |-> e.shown]
    OBVIOUS
  <2>5. x \in Views /\ x.up = agentUp[p] /\ x.has /\ x.restoring = e.restoring /\ x.follows = e.subscribed /\ x.shown = e.shown
    BY <2>3, <2>4 DEF Views, Entry
  <2>6. x \in Starts(s, agentUp[p], entries[p])
    BY <1>5, <2>1, <2>5 DEF Starts
  <2>7. Ahead(s, x, m)
    BY <1>2, <2>6, PageReads
  <2>8. Prints(m, s) => e.restoring \/ m.chunk = e.shown + 1
    BY <2>5, <2>7 DEF Ahead, Quiet
  <2>9. f.whole
    BY <2>2, <2>8 DEF Shifts
  <2>10. QED
    BY <2>1, <2>9
<1>6. QED
  BY <1>4, <1>5

LEMMA EntriesKept ==
  ASSUME [Next]_vars, ~\E p \in Pages : PageStep(p)
  PROVE  UNCHANGED entries
<1>1. CASE UNCHANGED vars
  BY <1>1 DEF vars, viewVars
<1>2. CASE AgentStep
  <2>1. AgentOnly
    BY <1>2 DEF AgentStep, AgentSend, AgentDrop, Dispatch, Spawn, Kill, Resize, DumpScrollback, Relist, Dispatched,
                FinishSpawn, Produce, Exit, Reader, ReportEnd, Forget
  <2>2. QED
    BY <2>1 DEF AgentOnly, viewVars
<1>3. CASE AgentConnect
  BY <1>3 DEF AgentConnect, viewVars
<1>4. ASSUME NEW c \in Conns, OnSessionList(c) \/ OnSessionMessage(c) \/ OnReady(c) PROVE UNCHANGED entries
  BY <1>4 DEF OnSessionList, OnSessionMessage, OnReady, Received, viewVars
<1>5. ASSUME NEW c \in Conns, Unregister(c) \/ SendPing(c) PROVE UNCHANGED entries
  BY <1>5 DEF Unregister, SendPing, viewVars
<1>6. ASSUME NEW o \in Pages, OnSpawnSession(o) \/ OnSessionCommand(o) \/ OnListSessions(o) PROVE UNCHANGED entries
  BY <1>6 DEF OnSpawnSession, OnSessionCommand, OnListSessions, Commanded, viewVars
<1>7. QED
  BY <1>1, <1>2, <1>3, <1>4, <1>5, <1>6 DEF Next, ServerStep, Reap, ServerHangup, AgentStep, PageStep

LEMMA WholeStep ==
  ASSUME Typed, NEW s \in SessionIds, Birth(s), NEW o \in Pages, PageStep(o), NEW p \in Pages, PageSound(p, s), WholeOf(p, s)
  PROVE  WholeOf(p, s)'
<1>1. CASE o # p
  BY <1>1, Own DEF WholeOf
<1>2. p \in DOMAIN entries /\ Maps(entries[p], SessionIds, Entry)
  BY DEF Typed, PagesTyped
<1>3. CASE Connect(p)
  BY <1>3 DEF Connect, viewVars, WholeOf
<1>4. CASE Disconnect(p)
  <2>1. entries'[p] = Unsubscribed(entries[p])
    BY <1>2, <1>4 DEF Disconnect
  <2>2. ASSUME s \in DOMAIN entries[p] PROVE entries'[p][s].whole = entries[p][s].whole
    <3>1. entries[p][s] \in Entry
      BY <1>2, <2>2, EntryIn
    <3>2. entries'[p][s] = [entries[p][s] EXCEPT !.subscribed = FALSE]
      BY <2>1, <2>2 DEF Unsubscribed
    <3>3. QED
      BY <3>1, <3>2 DEF Entry
  <2>3. DOMAIN entries'[p] = DOMAIN entries[p]
    BY <2>1 DEF Unsubscribed
  <2>4. QED
    BY <2>2, <2>3 DEF WholeOf
<1>5. ASSUME NEW t \in SessionIds, NewSession(p, t) PROVE WholeOf(p, s)'
  BY <1>2, <1>5 DEF NewSession, Put, NewEntry, WholeOf
<1>6. ASSUME NEW t \in SessionIds, CloseTab(p, t) PROVE WholeOf(p, s)'
  BY <1>2, <1>6 DEF CloseTab, Without, Restrict, WholeOf
<1>7. CASE o = p
  BY <1>3, <1>4, <1>5, <1>6, <1>7, WholeReads DEF PageStep
<1>8. QED
  BY <1>1, <1>7

Inductive(s) == Birth(s) /\ Order(s) /\ \A p \in Pages : PageSound(p, s) /\ WholeOf(p, s)
GridInv == Typed /\ Wired /\ \A s \in SessionIds : Inductive(s)

LEMMA GridInvInit == Init => GridInv
BY MapsEmpty, BirthInit, OrderInit, PageInit, TypedInit, WiredInit DEF Init, WholeOf, Inductive, GridInv

LEMMA GridInvNext ==
  ASSUME "stale" \notin Races
  PROVE  GridInv /\ [Next]_vars => GridInv'
<1>1. SUFFICES ASSUME GridInv, [Next]_vars PROVE GridInv'
  OBVIOUS
<1>2. Typed /\ Wired
  BY <1>1 DEF GridInv
<1>3. Typed' /\ Wired'
  BY <1>1, <1>2, TypedNext, WiredNext
<1>4. ASSUME NEW s \in SessionIds PROVE Inductive(s)'
  <2>1. Birth(s) /\ Order(s) /\ \A p \in Pages : PageSound(p, s) /\ WholeOf(p, s)
    BY <1>1 DEF GridInv, Inductive
  <2>2. Birth(s)' /\ Order(s)'
    BY <1>1, <1>2, <2>1, BirthNext, OrderNext
  <2>3. ASSUME NEW p \in Pages PROVE PageSound(p, s)'
    BY <1>1, <1>2, <2>1, PageNext
  <2>4. ASSUME NEW p \in Pages PROVE WholeOf(p, s)'
    <3>1. CASE \E o \in Pages : PageStep(o)
      BY <1>2, <2>1, <3>1, WholeStep
    <3>2. CASE ~\E o \in Pages : PageStep(o)
      <4>1. UNCHANGED entries
        BY <1>1, <3>2, EntriesKept
      <4>2. QED
        BY <2>1, <4>1 DEF WholeOf
    <3>3. QED
      BY <3>1, <3>2
  <2>5. QED
    BY <2>2, <2>3, <2>4 DEF Inductive
<1>5. QED
  BY <1>3, <1>4 DEF GridInv

LEMMA GridInvIs == GridInv => GridsWhole
BY DEF GridInv, Typed, PagesTyped, Maps, Inductive, WholeOf, GridsWhole

\* What a page shows of a session has no gap and nothing twice, whatever was lost
\* or replayed on the way (sessions.rs, output; pty_manager.rs, output_lock), if
\* the server hears from the agent's connections in the order they were made.
THEOREM GridsStayWhole ==
  ASSUME "stale" \notin Races
  PROVE  Spec => []GridsWhole
<1>1. Init => GridInv
  BY GridInvInit
<1>2. GridInv /\ [Next]_vars => GridInv'
  BY GridInvNext
<1>3. GridInv => GridsWhole
  BY GridInvIs
<1>4. QED
  BY <1>1, <1>2, <1>3, PTL DEF Spec

-----------------------------------------------------------------------------
(***************************************************************************)
(* What the registry will pass on of a queue.  Its messages about s count  *)
(* at place j if they come bare: the queue's connection has s at first     *)
(* (own) or a list names s on the way, and no end of s comes after that.   *)
(* While the agent has s (all), each of them may count.                    *)
(***************************************************************************)
Bares(s, own, q, j) ==
  \/ own /\ \A i \in 1..Len(q) : i < j => ~Closes(q[i], s)
  \/ \E k \in 1..Len(q) : /\ k < j /\ Names(q[k], s)
                          /\ \A i \in 1..Len(q) : k < i /\ i < j => ~Closes(q[i], s)
Counts(s, all, own, q, j) == Shows(q[j], s) /\ (all \/ Bares(s, own, q, j))

\* What counts shows no less than what is before it; no less than n.
Climbs(s, all, own, q) ==
  \A i, j \in 1..Len(q) : i < j /\ Shows(q[i], s) /\ Counts(s, all, own, q, j) => At(q[i]) <= At(q[j])
Tops(s, all, own, q, n) == \A j \in 1..Len(q) : Counts(s, all, own, q, j) => n <= At(q[j])

LEMMA BaresWindow ==
  ASSUME NEW s, NEW q, NEW r, NEW a, Window(r, q, a), NEW own, NEW left, left => Bares(s, own, q, a + 1),
         NEW j \in 1..(Len(r) + 1), Bares(s, left, r, j)
  PROVE  Bares(s, own, q, a + j)
<1>1. a \in Nat /\ Len(r) \in Nat /\ Len(q) \in Nat /\ a + Len(r) <= Len(q) /\ j \in Nat
  BY DEF Window
<1>2. \A i \in 1..Len(r) : r[i] = q[a + i] /\ a + i \in 1..Len(q)
  BY <1>1 DEF Window
<1>3. ASSUME NEW i \in 1..Len(q), a < i, i < a + j PROVE i - a \in 1..Len(r) /\ q[i] = r[i - a] /\ i - a < j
  BY <1>1, <1>2, <1>3
<1>4. CASE \E k \in 1..Len(r) : /\ k < j /\ Names(r[k], s)
                                /\ \A i \in 1..Len(r) : k < i /\ i < j => ~Closes(r[i], s)
  <2>1. PICK k \in 1..Len(r) : /\ k < j /\ Names(r[k], s)
                               /\ \A i \in 1..Len(r) : k < i /\ i < j => ~Closes(r[i], s)
    BY <1>4
  <2>2. a + k \in 1..Len(q) /\ a + k < a + j /\ Names(q[a + k], s)
    BY <1>1, <1>2, <2>1
  <2>3. ASSUME NEW i \in 1..Len(q), a + k < i, i < a + j PROVE ~Closes(q[i], s)
    BY <1>1, <1>3, <2>1, <2>3
  <2>4. QED
    BY <2>2, <2>3 DEF Bares
<1>5. CASE left /\ \A i \in 1..Len(r) : i < j => ~Closes(r[i], s)
  <2>1. ASSUME NEW i \in 1..Len(q), a < i, i < a + j PROVE ~Closes(q[i], s)
    BY <1>3, <1>5, <2>1
  <2>2. CASE own /\ \A i \in 1..Len(q) : i < a + 1 => ~Closes(q[i], s)
    BY <1>1, <2>1, <2>2 DEF Bares
  <2>3. CASE \E k \in 1..Len(q) : /\ k < a + 1 /\ Names(q[k], s)
                                  /\ \A i \in 1..Len(q) : k < i /\ i < a + 1 => ~Closes(q[i], s)
    BY <1>1, <2>1, <2>3 DEF Bares
  <2>4. QED
    BY <1>5, <2>2, <2>3 DEF Bares
<1>6. QED
  BY <1>4, <1>5 DEF Bares

\* A part of a queue.
LEMMA CountsWindow ==
  ASSUME NEW s, NEW q, NEW r, NEW a, Window(r, q, a), NEW own, NEW left, left => Bares(s, own, q, a + 1),
         NEW all, NEW some, some => all, NEW j \in 1..Len(r), Counts(s, some, left, r, j)
  PROVE  a + j \in 1..Len(q) /\ r[j] = q[a + j] /\ Counts(s, all, own, q, a + j)
<1>1. a \in Nat /\ Len(r) \in Nat /\ Len(q) \in Nat /\ a + Len(r) <= Len(q) /\ r[j] = q[a + j]
  BY DEF Window
<1>2. a + j \in 1..Len(q) /\ j \in 1..(Len(r) + 1)
  BY <1>1
<1>3. Bares(s, left, r, j) => Bares(s, own, q, a + j)
  BY <1>2, BaresWindow
<1>4. QED
  BY <1>1, <1>2, <1>3 DEF Counts

LEMMA WindowKeeps ==
  ASSUME NEW s, NEW q, NEW r, NEW a, Window(r, q, a), NEW own, NEW left, left => Bares(s, own, q, a + 1),
         NEW all, NEW some, some => all
  PROVE  /\ Climbs(s, all, own, q) => Climbs(s, some, left, r)
         /\ \A n : Tops(s, all, own, q, n) => Tops(s, some, left, r, n)
<1>1. \A j \in 1..Len(r) : Counts(s, some, left, r, j) =>
         a + j \in 1..Len(q) /\ r[j] = q[a + j] /\ Counts(s, all, own, q, a + j)
  BY CountsWindow
<1>2. ASSUME Climbs(s, all, own, q), NEW i \in 1..Len(r), NEW j \in 1..Len(r), i < j, Shows(r[i], s),
             Counts(s, some, left, r, j)
      PROVE  At(r[i]) <= At(r[j])
  BY <1>1, <1>2 DEF Window, Climbs
<1>3. ASSUME NEW n, Tops(s, all, own, q, n), NEW j \in 1..Len(r), Counts(s, some, left, r, j)
      PROVE  n <= At(r[j])
  BY <1>1, <1>3 DEF Tops
<1>4. QED
  BY <1>2, <1>3 DEF Climbs, Tops

\* One message more.
LEMMA BaresLonger ==
  ASSUME NEW s, NEW q, NEW r, NEW m, Longer(r, q, m), NEW own
  PROVE  /\ \A j \in 1..(Len(q) + 1) : Bares(s, own, r, j) => Bares(s, own, q, j)
         /\ Bares(s, own, r, Len(r) + 1) => Names(m, s) \/ (Bares(s, own, q, Len(q) + 1) /\ ~Closes(m, s))
BY DEF Longer, Bares

LEMMA LongerKeeps ==
  ASSUME NEW s, NEW q, NEW r, NEW m, Longer(r, q, m), NEW own, NEW all, NEW some, some => all
  PROVE  /\ Climbs(s, all, own, q) /\ (Shows(m, s) /\ (some \/ Bares(s, own, q, Len(q) + 1)) =>
                                         \A i \in 1..Len(q) : Shows(q[i], s) => At(q[i]) <= At(m))
              => Climbs(s, some, own, r)
         /\ \A n : Tops(s, all, own, q, n) /\ (Shows(m, s) /\ (some \/ Bares(s, own, q, Len(q) + 1)) => n <= At(m))
              => Tops(s, some, own, r, n)
BY BaresLonger DEF Longer, Counts, Climbs, Tops

\* Two messages go ahead; if one of them names s, all count anyway.
LEMMA AheadKeeps ==
  ASSUME NEW s, NEW q, NEW r, Ahead2(r, q), ~Shows(r[1], s), ~Shows(r[2], s), NEW own, NEW left, left => own,
         NEW all, (Names(r[1], s) \/ Names(r[2], s)) => all
  PROVE  /\ Climbs(s, all, own, q) => Climbs(s, all, left, r)
         /\ \A n : Tops(s, all, own, q, n) => Tops(s, all, left, r, n)
         /\ Bares(s, left, r, Len(r) + 1) => all \/ Bares(s, own, q, Len(q) + 1)
<1>1. /\ Len(q) \in Nat /\ Len(r) = Len(q) + 2 /\ \A i \in 1..Len(q) : r[2 + i] = q[i] /\ 2 + i \in 1..Len(r)
      /\ \A i \in 1..Len(r) : i = 1 \/ i = 2 \/ (i - 2 \in 1..Len(q) /\ r[i] = q[i - 2])
  BY DEF Ahead2
<1>2. ASSUME NEW j \in 1..(Len(q) + 1), Bares(s, left, r, 2 + j) PROVE all \/ Bares(s, own, q, j)
  <2>1. CASE left /\ \A i \in 1..Len(r) : i < 2 + j => ~Closes(r[i], s)
    BY <1>1, <2>1 DEF Bares
  <2>2. CASE \E k \in 1..Len(r) : /\ k < 2 + j /\ Names(r[k], s)
                                  /\ \A i \in 1..Len(r) : k < i /\ i < 2 + j => ~Closes(r[i], s)
    <3>1. PICK k \in 1..Len(r) : /\ k < 2 + j /\ Names(r[k], s)
                                 /\ \A i \in 1..Len(r) : k < i /\ i < 2 + j => ~Closes(r[i], s)
      BY <2>2
    <3>2. CASE k = 1 \/ k = 2
      BY <3>1, <3>2
    <3>3. CASE k # 1 /\ k # 2
      <4>1. k - 2 \in 1..Len(q) /\ Names(q[k - 2], s) /\ k - 2 < j
        BY <1>1, <3>1, <3>3
      <4>2. ASSUME NEW i \in 1..Len(q), k - 2 < i, i < j PROVE ~Closes(q[i], s)
        <5>1. k < 2 + i /\ 2 + i < 2 + j
          BY <1>1, <4>2
        <5>2. QED
          BY <1>1, <3>1, <5>1
      <4>3. QED
        BY <4>1, <4>2 DEF Bares
    <3>4. QED
      BY <3>2, <3>3
  <2>3. QED
    BY <1>2, <2>1, <2>2 DEF Bares
<1>3. ASSUME NEW j \in 1..Len(r), Counts(s, all, left, r, j)
      PROVE  j - 2 \in 1..Len(q) /\ r[j] = q[j - 2] /\ Counts(s, all, own, q, j - 2)
  BY <1>1, <1>2, <1>3 DEF Counts
<1>4. ASSUME Climbs(s, all, own, q), NEW i \in 1..Len(r), NEW j \in 1..Len(r), i < j, Shows(r[i], s), Counts(s, all, left, r, j)
      PROVE  At(r[i]) <= At(r[j])
  <2>1. j - 2 \in 1..Len(q) /\ r[j] = q[j - 2] /\ Counts(s, all, own, q, j - 2)
    BY <1>3, <1>4
  <2>2. i # 1 /\ i # 2
    BY <1>4
  <2>3. i - 2 \in 1..Len(q) /\ r[i] = q[i - 2]
    BY <1>1, <2>2
  <2>4. i - 2 < j - 2
    BY <1>1, <1>4
  <2>5. QED
    BY <1>4, <2>1, <2>3, <2>4 DEF Climbs
<1>5. ASSUME NEW n, Tops(s, all, own, q, n), NEW j \in 1..Len(r), Counts(s, all, left, r, j)
      PROVE  n <= At(r[j])
  BY <1>3, <1>5 DEF Tops
<1>6. ASSUME Bares(s, left, r, Len(r) + 1) PROVE all \/ Bares(s, own, q, Len(q) + 1)
  BY <1>1, <1>2, <1>6
<1>7. QED
  BY <1>4, <1>5, <1>6 DEF Climbs, Tops

\* Nothing of s is shown.
LEMMA SilentKeeps ==
  ASSUME NEW s, NEW q, Silent(s, q)
  PROVE  \A all, own : Climbs(s, all, own, q) /\ \A n : Tops(s, all, own, q, n)
  BY DEF Silent, Climbs, Tops, Counts

-----------------------------------------------------------------------------
(***************************************************************************)
(* What the agent says of s rises: what counts in a stream shows no less   *)
(* than what is before it, there or in an earlier stream, and no more than *)
(* has been printed.  At the end of the stream in use nothing counts of a  *)
(* session that the agent does not have.                                   *)
(***************************************************************************)
Owns(c, s) == s \in DOMAIN sessions /\ sessions[s] = c
Top(s, c, n) == Tops(s, s \in DOMAIN ptys, Owns(c, s), Stream(c), n)
Climb(s, c) == Climbs(s, s \in DOMAIN ptys, Owns(c, s), Stream(c))
Open(s) == Bares(s, Owns(conn, s), Stream(conn), Len(Stream(conn)) + 1)
Speaking(s) ==
  \/ s \in DOMAIN ptys /\ ptys[s].reader # "reported"
  \/ conn # NoConn /\ Begun(s, toAgent[conn])
Reached(s, n) == s \in DOMAIN ptys => n <= Printed(s)
Shown(s, q) == {n \in Nat : \E i \in 1..Len(q) : Shows(q[i], s) /\ At(q[i]) = n}
Below(s, c, n) == Reached(s, n) /\ \A d \in Streams : Later(c, d) => Top(s, d, n)
Rise(s) ==
  /\ \A c \in Streams : Climb(s, c) /\ \A n \in Shown(s, Stream(c)) : Below(s, c, n)
  /\ Open(s) => Speaking(s)

\* Nothing that is to come of s shows less than n.
Early(s) == s \notin drawn \/ (\E p \in Pages : Begun(s, fromPage[p])) \/ \E c \in Conns : Begun(s, toAgent[c])
Low(s, n) == (Early(s) => n = 0) /\ Reached(s, n) /\ \A c \in Streams : Top(s, c, n)

LEMMA ShownNat ==
  ASSUME NEW s, NEW m \in AgentMessage, Shows(m, s)
  PROVE  At(m) \in Nat
  BY MessageParts, Bounds DEF Shows, At
LEMMA StreamShown ==
  ASSUME Typed, NEW s, NEW c \in Streams, NEW i \in 1..Len(Stream(c)), Shows(Stream(c)[i], s)
  PROVE  At(Stream(c)[i]) \in Nat
BY StreamTypes, SeqFacts, ShownNat
LEMMA PrintedNat ==
  ASSUME Typed, NEW s
  PROVE  Printed(s) \in Nat
  BY PtyParts DEF Printed

LEMMA ShownWindow ==
  ASSUME NEW s, NEW q, NEW r, NEW a, Window(r, q, a)
  PROVE  Shown(s, r) \subseteq Shown(s, q)
BY DEF Window, Shown
LEMMA ShownLonger ==
  ASSUME NEW s, NEW q, NEW r, NEW m, Longer(r, q, m)
  PROVE  \A n \in Shown(s, r) : n \in Shown(s, q) \/ (Shows(m, s) /\ n = At(m))
BY DEF Longer, Shown
LEMMA ShownAhead ==
  ASSUME NEW s, NEW q, NEW r, Ahead2(r, q), ~Shows(r[1], s), ~Shows(r[2], s)
  PROVE  Shown(s, r) \subseteq Shown(s, q)
<1>1. Len(q) \in Nat /\ Len(r) = Len(q) + 2 /\ \A i \in 1..Len(q) : r[2 + i] = q[i]
  BY DEF Ahead2
<1>2. ASSUME NEW i \in 1..Len(r), Shows(r[i], s) PROVE \E j \in 1..Len(q) : r[i] = q[j]
  <2>1. i # 1 /\ i # 2
    BY <1>2
  <2>2. i - 2 \in 1..Len(q) /\ 2 + (i - 2) = i
    BY <1>1, <2>1
  <2>3. QED
    BY <1>1, <2>2
<1>3. QED
  BY <1>2 DEF Shown

\* The stream of c loses its beginning, and what the server has read of it is
\* all it now knows of s; or its end, if it is not in use.
Sinks(c, s) ==
  \E a : /\ Window(Stream(c)', Stream(c), a)
         /\ c = conn => a + Len(Stream(c)') = Len(Stream(c))
         /\ Owns(c, s)' => Bares(s, Owns(c, s), Stream(c), a + 1)

LEMMA SinksKeeps ==
  ASSUME NEW s, NEW c, Sinks(c, s), (s \in DOMAIN ptys)' => s \in DOMAIN ptys
  PROVE  /\ Climb(s, c) => Climb(s, c)'
         /\ \A n : Top(s, c, n) => Top(s, c, n)'
         /\ Shown(s, Stream(c)') \subseteq Shown(s, Stream(c))
BY WindowKeeps, ShownWindow DEF Sinks, Climb, Top

LEMMA OpenSinks ==
  ASSUME Typed, NEW s, conn' = conn, Sinks(conn, s), Open(s)'
  PROVE  Open(s)
<1>1. PICK k, q, r, own, left : k = conn /\ q = Stream(k) /\ r = Stream(k)' /\ own = Owns(k, s) /\ left = Owns(k, s)'
  OBVIOUS
<1>2. PICK a : Window(r, q, a) /\ a + Len(r) = Len(q) /\ (left => Bares(s, own, q, a + 1))
  BY <1>1 DEF Sinks
<1>3. Bares(s, left, r, Len(r) + 1)
  BY <1>1 DEF Open
<1>4. Len(r) \in Nat /\ Len(r) + 1 \in 1..(Len(r) + 1) /\ a + (Len(r) + 1) = Len(q) + 1
  BY <1>2 DEF Window
<1>5. Bares(s, own, q, a + (Len(r) + 1))
  BY <1>2, <1>3, <1>4, BaresWindow
<1>6. QED
  BY <1>1, <1>4, <1>5 DEF Open

\* The agent has printed no less than before, if it still has s.
Further(s) ==
  (s \in DOMAIN ptys)' => /\ s \in DOMAIN ptys /\ Printed(s) \in Nat /\ Printed(s)' \in Nat
                          /\ Printed(s) <= Printed(s)'

LEMMA ReachedKept ==
  ASSUME NEW s, Further(s), NEW n \in Nat, Reached(s, n)
  PROVE  Reached(s, n)'
  BY DEF Reached, Further

LEMMA BelowKept ==
  ASSUME NEW s, Further(s), NEW n \in Nat, NEW c, \A d \in Streams : Later(c, d) /\ Top(s, d, n) => Top(s, d, n)',
         Below(s, c, n)
  PROVE  Below(s, c, n)'
BY ReachedKept, LaterKept DEF Below

LEMMA RiseSinks ==
  ASSUME Typed, NEW s, Rise(s), conn' = conn, \A c \in Streams : Sinks(c, s), Further(s), Speaking(s) => Speaking(s)'
  PROVE  Rise(s)'
BY StreamTypes, StreamsAre, SinksKeeps, BelowKept, OpenSinks DEF Further, Rise, Shown

LEMMA LowSinks ==
  ASSUME NEW s, NEW n \in Nat, Low(s, n), \A c \in Streams : Sinks(c, s), Further(s), Early(s)' => Early(s)
  PROVE  Low(s, n)'
BY SinksKeeps, ReachedKept DEF Further, Low

-----------------------------------------------------------------------------
(***************************************************************************)
(* A stream loses its beginning, or has a message more.                    *)
(***************************************************************************)
LEMMA BaresFirst ==
  ASSUME NEW s, NEW q, Len(q) \in Nat
  PROVE  Bares(s, TRUE, q, 1)
  BY DEF Bares
LEMMA SinksSame ==
  ASSUME Typed, NEW s, NEW c \in Streams, Stream(c)' = Stream(c), Owns(c, s)' => Owns(c, s)
  PROVE  Sinks(c, s)
BY StreamTypes, WindowSame DEF Bares, Sinks

\* The agent queues m.
Says(s, m) ==
  /\ Further(s)
  /\ Shows(m, s) => IF s \in DOMAIN ptys THEN (s \in DOMAIN ptys)' /\ At(m) = Printed(s)' ELSE ~Open(s)
  /\ Names(m, s) \/ (Speaking(s) /\ ~Closes(m, s)) => Speaking(s)'

LEMMA GrowsTop ==
  ASSUME Typed, NEW s, UNCHANGED <<conn, fromAgent, sessions>>, NEW m \in AgentMessage, Enqueue(m), Says(s, m)
  PROVE  \A c \in Streams, n \in Nat : Reached(s, n) /\ Top(s, c, n) => Top(s, c, n)'
<1>1. /\ conn \in Streams /\ Longer(Stream(conn)', Stream(conn), m)
      /\ \A d \in Streams : d # conn => Stream(d)' = Stream(d)
  BY EnqueueStreams
<1>2. (s \in DOMAIN ptys)' => s \in DOMAIN ptys
  BY DEF Says, Further
<1>3. ASSUME NEW c \in Streams, NEW n \in Nat, Reached(s, n), Top(s, c, n), c # conn PROVE Top(s, c, n)'
  BY <1>1, <1>2, <1>3, SinksSame, SinksKeeps DEF Owns
<1>4. ASSUME NEW c \in Streams, NEW n \in Nat, Reached(s, n), Top(s, c, n), c = conn PROVE Top(s, c, n)'
  <2>1. PICK q, r, own, all, some :
          q = Stream(c) /\ r = Stream(c)' /\ own = Owns(c, s) /\ all = (s \in DOMAIN ptys) /\ some = (s \in DOMAIN ptys)'
    OBVIOUS
  <2>2. Longer(r, q, m) /\ (some => all)
    BY <1>1, <1>2, <1>4, <2>1
  <2>3. ASSUME Shows(m, s), some \/ Bares(s, own, q, Len(q) + 1) PROVE n <= At(m)
    <3>1. Bares(s, own, q, Len(q) + 1) => Open(s)
      BY <1>4, <2>1 DEF Open
    <3>2. s \in DOMAIN ptys /\ (s \in DOMAIN ptys)' /\ At(m) = Printed(s)'
      BY <1>2, <2>1, <2>3, <3>1 DEF Says
    <3>3. n <= Printed(s) /\ Printed(s) \in Nat /\ Printed(s)' \in Nat /\ Printed(s) <= Printed(s)'
      BY <1>4, <3>2 DEF Reached, Says, Further
    <3>4. QED
      BY <3>2, <3>3
  <2>4. Tops(s, all, own, q, n) => Tops(s, some, own, r, n)
    BY <2>2, <2>3, LongerKeeps
  <2>5. Owns(c, s)' = own
    BY <2>1 DEF Owns
  <2>6. QED
    BY <1>4, <2>1, <2>4, <2>5 DEF Top
<1>5. QED
  BY <1>3, <1>4

LEMMA GrowsClimb ==
  ASSUME Typed, NEW s, Rise(s), UNCHANGED <<conn, fromAgent, sessions>>, NEW m \in AgentMessage, Enqueue(m), Says(s, m)
  PROVE  \A c \in Streams : Climb(s, c)'
<1>1. /\ conn \in Streams /\ Longer(Stream(conn)', Stream(conn), m)
      /\ \A d \in Streams : d # conn => Stream(d)' = Stream(d)
  BY EnqueueStreams
<1>2. (s \in DOMAIN ptys)' => s \in DOMAIN ptys
  BY DEF Says, Further
<1>3. ASSUME NEW c \in Streams, c # conn PROVE Climb(s, c)'
  BY <1>1, <1>2, <1>3, SinksSame, SinksKeeps DEF Owns, Rise
<1>4. ASSUME NEW c \in Streams, c = conn PROVE Climb(s, c)'
  <2>1. PICK q, r, own, all, some :
          q = Stream(c) /\ r = Stream(c)' /\ own = Owns(c, s) /\ all = (s \in DOMAIN ptys) /\ some = (s \in DOMAIN ptys)'
    OBVIOUS
  <2>2. Longer(r, q, m) /\ (some => all)
    BY <1>1, <1>2, <1>4, <2>1
  <2>3. ASSUME Shows(m, s), some \/ Bares(s, own, q, Len(q) + 1), NEW i \in 1..Len(q), Shows(q[i], s)
        PROVE  At(q[i]) <= At(m)
    <3>1. Bares(s, own, q, Len(q) + 1) => Open(s)
      BY <1>4, <2>1 DEF Open
    <3>2. s \in DOMAIN ptys /\ (s \in DOMAIN ptys)' /\ At(m) = Printed(s)'
      BY <1>2, <2>1, <2>3, <3>1 DEF Says
    <3>3. At(q[i]) \in Nat
      BY <2>1, <2>3, StreamShown
    <3>4. PICK n \in Nat : n = At(q[i])
      BY <3>3
    <3>5. n \in Shown(s, Stream(c))
      BY <2>1, <2>3, <3>4 DEF Shown
    <3>6. Below(s, c, n)
      BY <3>5 DEF Rise
    <3>7. n <= Printed(s) /\ Printed(s) \in Nat /\ Printed(s)' \in Nat /\ Printed(s) <= Printed(s)'
      BY <3>2, <3>6 DEF Below, Reached, Says, Further
    <3>8. QED
      BY <3>2, <3>4, <3>7
  <2>4. Climbs(s, all, own, q) => Climbs(s, some, own, r)
    BY <2>2, <2>3, LongerKeeps
  <2>5. Owns(c, s)' = own /\ Climb(s, c)
    BY <2>1 DEF Owns, Rise
  <2>6. QED
    BY <2>1, <2>4, <2>5 DEF Climb
<1>5. QED
  BY <1>3, <1>4

LEMMA EmptyTop ==
  ASSUME NEW s, NEW d, Stream(d)' = <<>>
  PROVE  Climb(s, d)' /\ \A n : Top(s, d, n)'
BY EmptyStream, SilentKeeps DEF Climb, Top

LEMMA RiseGrows ==
  ASSUME Typed, Wired, NEW s, Rise(s), UNCHANGED <<conn, fromAgent, sessions>>, NEW m \in AgentMessage, Enqueue(m),
         Says(s, m)
  PROVE  Rise(s)'
<1>1. /\ conn \in Streams /\ Longer(Stream(conn)', Stream(conn), m)
      /\ \A d \in Streams : d # conn => Stream(d)' = Stream(d)
  BY EnqueueStreams
<1>2. PICK k, q, r : k = conn /\ q = Stream(k) /\ r = Stream(k)'
  OBVIOUS
<1>3. k \in Streams /\ Longer(r, q, m)
  BY <1>1, <1>2
<1>4. \A c \in Streams, n \in Nat : Reached(s, n) /\ Top(s, c, n) => Top(s, c, n)'
  BY GrowsTop
<1>5. \A c \in Streams : Climb(s, c)'
  BY GrowsClimb
<1>6. Further(s)
  BY DEF Says
<1>7. ASSUME NEW c \in Streams, NEW n \in Shown(s, Stream(c)), n \in Nat PROVE Below(s, c, n)'
  BY <1>4, <1>6, <1>7, BelowKept DEF Rise, Below
<1>8. ASSUME Shows(m, s), NEW n \in Nat, n = At(m) PROVE Below(s, k, n)'
  <2>1. Reached(s, n)'
    BY <1>6, <1>8 DEF Reached, Says, Further
  <2>2. ASSUME NEW d \in Streams, Later(k, d) PROVE Top(s, d, n)'
    <3>1. Stream(d) = <<>> /\ d # conn
      BY <1>2, <1>3, <2>2, LaterEmpty, Bounds DEF Streams, Later
    <3>2. Stream(d)' = <<>>
      BY <1>1, <3>1
    <3>3. QED
      BY <3>2, EmptyTop
  <2>3. QED
    BY <2>1, <2>2, LaterKept DEF Below
<1>9. ASSUME NEW c \in Streams, NEW n \in Shown(s, Stream(c)') PROVE Below(s, c, n)'
  BY <1>1, <1>2, <1>3, <1>7, <1>8, <1>9, ShownLonger DEF Shown
<1>10. ASSUME Open(s)' PROVE Speaking(s)'
  BY <1>2, <1>3, <1>10, BaresLonger DEF Owns, Open, Rise, Says
<1>11. QED
  BY <1>5, <1>9, <1>10 DEF Rise

LEMMA LowGrows ==
  ASSUME Typed, NEW s, NEW n \in Nat, Low(s, n), UNCHANGED <<conn, fromAgent, sessions>>,
         NEW m \in AgentMessage, Enqueue(m), Says(s, m), Early(s)' => Early(s)
  PROVE  Low(s, n)'
BY GrowsTop, ReachedKept DEF Low, Says

-----------------------------------------------------------------------------
(***************************************************************************)
(* The agent gives up its connection, and its queue becomes the stream in  *)
(* use; it makes a new one, and bootstrap goes ahead of what waits.        *)
(***************************************************************************)
LEMMA ConnsOwn ==
  ASSUME Typed, NEW s, NEW c, Owns(c, s)
  PROVE  c \in agents /\ c \in Conns /\ c # NoConn /\ c <= conns
BY Bounds DEF Typed, RegistryTyped, AgentTyped, Maps, Owns, Conns, NoConn

LEMMA EmptyShown == \A s : Shown(s, <<>>) = {}
  BY DEF Shown

LEMMA SplitTop ==
  ASSUME NEW s, NEW z, NEW q, NEW r, NEW a, Window(r, z, a), Window(q, z, 0), Len(q) <= a, NEW own, NEW left,
         left => Bares(s, own, z, a + 1), NEW all, NEW some, some => all, Climbs(s, all, own, z), NEW n \in Shown(s, q)
  PROVE  Tops(s, some, left, r, n)
<1>0. \A j \in 1..Len(r) : Counts(s, some, left, r, j) =>
         a + j \in 1..Len(z) /\ r[j] = z[a + j] /\ Counts(s, all, own, z, a + j)
  BY CountsWindow
<1>1. PICK i \in 1..Len(q) : Shows(q[i], s) /\ At(q[i]) = n
  BY DEF Shown
<1>2. Len(q) \in Nat /\ Len(z) \in Nat /\ Len(r) \in Nat /\ a + Len(r) <= Len(z) /\ q[i] = z[0 + i] /\ 0 + i = i /\ a \in Nat
  BY DEF Window
<1>3. ASSUME NEW j \in 1..Len(r), Counts(s, some, left, r, j) PROVE n <= At(r[j])
  BY <1>0, <1>1, <1>2, <1>3 DEF Climbs
<1>4. QED
  BY <1>3 DEF Tops

LEMMA DropFurther ==
  ASSUME Typed, NEW s, AgentDrop
  PROVE  /\ Further(s) /\ sessions' = sessions
         /\ s \in DOMAIN ptys /\ ptys[s].reader # "reported" => (s \in DOMAIN ptys /\ ptys[s].reader # "reported")'
         /\ Early(s)' => Early(s)
<1>1. /\ ptys' = [t \in DOMAIN ptys |-> IF t = spawning THEN [ptys[t] EXCEPT !.reader = "orphaned"] ELSE ptys[t]]
      /\ toAgent' = [toAgent EXCEPT ![conn] = <<>>] /\ conn # NoConn
      /\ UNCHANGED <<sessions, fromPage, drawn>>
  BY DEF AgentDrop, AgentOnly, registryVars, linkVars
<1>2. ASSUME s \in DOMAIN ptys
      PROVE  /\ s \in DOMAIN ptys' /\ ptys'[s].printed = ptys[s].printed /\ ptys[s].printed \in Nat
             /\ ptys[s].reader # "reported" => ptys'[s].reader # "reported"
  BY <1>1, <1>2, PtyParts DEF Pty
<1>3. Further(s)
  BY <1>1, <1>2 DEF Further, Printed
<1>4. Early(s)' => Early(s)
  BY <1>1, MsgsEmpty DEF Typed, WiresTyped, Begun, Early
<1>5. QED
  BY <1>1, <1>2, <1>3, <1>4

LEMMA DropTop ==
  ASSUME Typed, Wired, NEW s, AgentDrop
  PROVE  /\ \A c \in Streams : c # NoConn =>
              /\ Climb(s, c) => Climb(s, c)'
              /\ \A n : Top(s, c, n) => Top(s, c, n)'
              /\ Shown(s, Stream(c)') \subseteq Shown(s, Stream(c))
         /\ Climb(s, conn) => /\ Climb(s, NoConn)'
                              /\ \A n \in Shown(s, fromAgent[conn]) : Top(s, NoConn, n)'
         /\ \A n : Top(s, conn, n) => Top(s, NoConn, n)'
         /\ Shown(s, Stream(NoConn)') \subseteq Shown(s, Stream(conn))
         /\ Open(s)' => Open(s) /\ \E i \in 1..Len(Stream(conn)) : Names(Stream(conn)[i], s)
<1>1. /\ conn # NoConn /\ conn \in Streams /\ conn' = NoConn
      /\ \A d \in Streams : d # conn /\ d # NoConn => Stream(d)' = Stream(d)
      /\ Stream(NoConn) = <<>>
      /\ \A d : d = conn => Stream(d)' = fromAgent[conn]
  BY DropStreams
<1>2. PICK k : k = conn
  OBVIOUS
<1>3. PICK z, q, r, own, all, some : /\ z = Stream(k) /\ q = fromAgent[k] /\ r = Stream(NoConn)' /\ own = Owns(k, s)
                                     /\ all = (s \in DOMAIN ptys) /\ some = (s \in DOMAIN ptys)'
  OBVIOUS
<1>4. PICK a : Window(r, z, a) /\ a + Len(r) = Len(z) /\ Window(q, z, 0) /\ a = Len(q)
  BY <1>2, <1>3, DropStreams
<1>5. sessions' = sessions /\ (some => all)
  BY <1>3, DropFurther DEF Further
<1>6. \A c : Owns(c, s)' = Owns(c, s)
  BY <1>5 DEF Owns
<1>7. Owns(NoConn, s)' = FALSE
  BY <1>6, ConnsOwn DEF Owns
<1>8. Len(z) \in Nat /\ Len(r) \in Nat /\ Len(q) \in Nat
  BY <1>4 DEF Window
<1>9. own => Bares(s, own, z, 0 + 1)
  BY <1>8 DEF Bares
<1>10. /\ Climbs(s, all, own, z) => Climbs(s, some, own, q)
       /\ \A n : Tops(s, all, own, z, n) => Tops(s, some, own, q, n)
  BY <1>4, <1>5, <1>9, WindowKeeps
<1>11. /\ Climbs(s, all, own, z) => Climbs(s, some, FALSE, r)
       /\ \A n : Tops(s, all, own, z, n) => Tops(s, some, FALSE, r, n)
  BY <1>4, <1>5, WindowKeeps
<1>12. Shown(s, q) \subseteq Shown(s, z) /\ Shown(s, r) \subseteq Shown(s, z)
  BY <1>4, ShownWindow
<1>13. Stream(k)' = q
  BY <1>1, <1>2, <1>3
<1>14. ASSUME NEW c \in Streams, c # NoConn
       PROVE  /\ Climb(s, c) => Climb(s, c)'
              /\ \A n : Top(s, c, n) => Top(s, c, n)'
              /\ Shown(s, Stream(c)') \subseteq Shown(s, Stream(c))
  <2>1. CASE c = k
    BY <1>3, <1>6, <1>10, <1>12, <1>13, <2>1 DEF Climb, Top
  <2>2. CASE c # k
    BY <1>1, <1>2, <1>3, <1>5, <1>6, <1>14, <2>2, SinksSame, SinksKeeps
  <2>3. QED
    BY <2>1, <2>2
<1>15. Climb(s, conn) => /\ Climb(s, NoConn)'
                         /\ \A n \in Shown(s, fromAgent[conn]) : Top(s, NoConn, n)'
  <2>1. ASSUME Climb(s, conn) PROVE Climbs(s, all, own, z)
    BY <1>2, <1>3, <2>1 DEF Climb
  <2>2. ASSUME Climb(s, conn) PROVE Climb(s, NoConn)'
    BY <1>3, <1>7, <1>11, <2>1, <2>2 DEF Climb
  <2>3. ASSUME Climb(s, conn), NEW n \in Shown(s, fromAgent[conn]) PROVE Top(s, NoConn, n)'
    <3>1. n \in Shown(s, q)
      BY <1>2, <1>3, <2>3
    <3>2. Tops(s, some, FALSE, r, n)
      <4>1. PICK left : left = FALSE
        OBVIOUS
      <4>2. Len(q) <= a /\ (left => Bares(s, own, z, a + 1)) /\ Climbs(s, all, own, z)
        BY <1>4, <1>8, <2>1, <2>3, <4>1
      <4>3. Window(r, z, a) /\ Window(q, z, 0)
        BY <1>4
      <4>4. Tops(s, some, left, r, n)
        BY <1>5, <3>1, <4>2, <4>3, SplitTop
      <4>5. QED
        BY <4>1, <4>4
    <3>3. QED
      BY <1>3, <1>7, <3>2 DEF Top
  <2>4. QED
    BY <2>2, <2>3
<1>16. \A n : Top(s, conn, n) => Top(s, NoConn, n)'
  BY <1>2, <1>3, <1>7, <1>11 DEF Top
<1>17. ASSUME Open(s)' PROVE Open(s) /\ \E i \in 1..Len(z) : Names(z[i], s)
  <2>1. Bares(s, FALSE, r, Len(r) + 1)
    BY <1>1, <1>3, <1>7, <1>17 DEF Open
  <2>2. Len(r) + 1 \in 1..(Len(r) + 1) /\ a + (Len(r) + 1) = Len(z) + 1
    BY <1>4, <1>8
  <2>3. Bares(s, own, z, a + (Len(r) + 1))
    BY <1>4, <2>1, <2>2, BaresWindow
  <2>4. PICK i \in 1..Len(r) : Names(r[i], s)
    BY <2>1 DEF Bares
  <2>5. a + i \in 1..Len(z) /\ r[i] = z[a + i]
    BY <1>4, <1>8 DEF Window
  <2>6. QED
    BY <1>2, <1>3, <2>2, <2>3, <2>4, <2>5 DEF Open
<1>18. QED
  BY <1>2, <1>3, <1>12, <1>14, <1>15, <1>16, <1>17

LEMMA RiseDrop ==
  ASSUME Typed, Wired, NEW s, Birth(s), Rise(s), AgentDrop
  PROVE  Rise(s)'
<1>1. PICK k : k = conn
  OBVIOUS
<1>2. /\ k # NoConn /\ k \in Streams /\ conn' = NoConn
      /\ \A d \in Streams : d # k /\ d # NoConn => Stream(d)' = Stream(d)
  BY <1>1, DropStreams
<1>3. /\ \A c \in Streams : c # NoConn =>
              /\ Climb(s, c) => Climb(s, c)'
              /\ \A n : Top(s, c, n) => Top(s, c, n)'
              /\ Shown(s, Stream(c)') \subseteq Shown(s, Stream(c))
      /\ Climb(s, k) => Climb(s, NoConn)'
      /\ \A n : Top(s, k, n) => Top(s, NoConn, n)'
      /\ Shown(s, Stream(NoConn)') \subseteq Shown(s, Stream(k))
  BY <1>1, DropTop
<1>4. Further(s)
  BY DropFurther
<1>5. \A c \in Streams : Climb(s, c)'
  BY <1>2, <1>3 DEF Rise
<1>6. ASSUME NEW n \in Shown(s, Stream(k)') PROVE Top(s, NoConn, n)'
  BY <1>1, <1>2, <1>6, DropStreams, DropTop DEF Rise
<1>7. ASSUME NEW c \in Streams, NEW n \in Shown(s, Stream(c)'), c # NoConn PROVE Below(s, c, n)'
  <2>1. n \in Nat /\ n \in Shown(s, Stream(c))
    BY <1>3, <1>7 DEF Shown
  <2>2. Below(s, c, n)
    BY <2>1 DEF Rise
  <2>3. ASSUME NEW d \in Streams, Later(c, d) PROVE Top(s, d, n)'
    BY <1>1, <1>2, <1>3, <1>6, <1>7, <2>1, <2>2, <2>3, EmptyShown, StreamsBefore DEF Below
  <2>4. Reached(s, n)'
    BY <1>4, <2>1, <2>2, ReachedKept DEF Below
  <2>5. QED
    BY <2>3, <2>4, LaterKept DEF Below
<1>8. ASSUME NEW n \in Shown(s, Stream(NoConn)') PROVE Below(s, NoConn, n)'
  BY <1>2, <1>3, <1>4, <1>8, ReachedKept DEF Shown, Rise, Below, Later
<1>9. ASSUME Open(s)' PROVE Speaking(s)'
  <2>1. Open(s) /\ \E i \in 1..Len(Stream(k)) : Names(Stream(k)[i], s)
    BY <1>1, <1>9, DropTop
  <2>2. Speaking(s)
    BY <2>1 DEF Rise
  <2>3. CASE s \in DOMAIN ptys /\ ptys[s].reader # "reported"
    BY <2>3, DropFurther DEF Speaking
  <2>4. CASE conn # NoConn /\ Begun(s, toAgent[conn])
    BY <1>2, <2>1, <2>4, ConnIn, OrderBlank DEF Birth, Underway, Mute, Msgs, Speaks
  <2>5. QED
    BY <2>2, <2>3, <2>4 DEF Speaking
<1>10. QED
  BY <1>5, <1>7, <1>8, <1>9 DEF Rise
LEMMA LowDrop ==
  ASSUME Typed, Wired, NEW s, NEW n \in Nat, Low(s, n), AgentDrop
  PROVE  Low(s, n)'
BY DropStreams, DropTop, DropFurther, ReachedKept DEF Low

LEMMA ConnectFurther ==
  ASSUME Typed, NEW s, AgentConnect
  PROVE  /\ UNCHANGED <<sessions, ptys, fromPage, toAgent, drawn>>
         /\ Further(s) /\ Early(s)' = Early(s) /\ \A c : Owns(c, s)' = Owns(c, s)
BY PrintedNat DEF AgentConnect, Printed, Further, Early, Owns

LEMMA ConnectTop ==
  ASSUME Typed, Wired, NEW s, AgentConnect
  PROVE  \E n \in Streams :
           /\ n = conn' /\ n # NoConn
           /\ \A c \in Streams : c # n =>
                /\ Climb(s, c) => Climb(s, c)'
                /\ \A m : Top(s, c, m) => Top(s, c, m)'
                /\ Shown(s, Stream(c)') \subseteq Shown(s, Stream(c))
           /\ Climb(s, NoConn) => Climb(s, n)'
           /\ \A m : Top(s, NoConn, m) => Top(s, n, m)'
           /\ Shown(s, Stream(n)') \subseteq Shown(s, Stream(NoConn))
           /\ Shown(s, Stream(NoConn)') = {}
           /\ \A d \in Streams : Later(n, d) => \A m : Top(s, d, m)'
           /\ Open(s)' => s \in DOMAIN ptys \/ Open(s)
<1>1. conn = NoConn /\ Stream(NoConn)' = <<>>
  BY ConnectStreams
<1>2. PICK n \in Streams :
              /\ n = conn' /\ n # NoConn /\ n = conns + 1
              /\ \A d \in Streams : d # n /\ d # NoConn => Stream(d)' = Stream(d)
              /\ Ahead2(Stream(n)', Stream(NoConn))
              /\ Stream(n)'[1] = Ready /\ Stream(n)'[2] = List(DOMAIN ptys)
              /\ \A d \in Streams : d > n => Stream(d)' = <<>>
              /\ Stream(n) = <<>>
  BY ConnectStreams
<1>3. /\ UNCHANGED <<sessions, ptys>> /\ \A c : Owns(c, s)' = Owns(c, s)
  BY ConnectFurther
<1>4. ~Owns(n, s)
  BY <1>2, ConnsOwn DEF Typed, AgentTyped
<1>5. PICK q, r, own, left, all : /\ q = Stream(NoConn) /\ r = Stream(n)' /\ own = Owns(NoConn, s) /\ left = Owns(n, s)'
                                  /\ all = (s \in DOMAIN ptys)
  OBVIOUS
<1>6. (left => own) /\ all = (s \in DOMAIN ptys)'
  BY <1>3, <1>4, <1>5
<1>7. Ahead2(r, q) /\ r[1] = Ready /\ r[2] = List(DOMAIN ptys)
  BY <1>2, <1>5
<1>8. /\ ~Shows(r[1], s) /\ ~Shows(r[2], s)
      /\ (Names(r[1], s) \/ Names(r[2], s)) => all
  BY <1>5, <1>7, SpeaksOf
<1>9. /\ Climbs(s, all, own, q) => Climbs(s, all, left, r)
      /\ \A m : Tops(s, all, own, q, m) => Tops(s, all, left, r, m)
      /\ Bares(s, left, r, Len(r) + 1) => all \/ Bares(s, own, q, Len(q) + 1)
  BY <1>6, <1>7, <1>8, AheadKeeps
<1>10. Shown(s, r) \subseteq Shown(s, q)
  BY <1>7, <1>8, ShownAhead
<1>11. Climb(s, NoConn) => Climb(s, n)'
  BY <1>5, <1>6, <1>9 DEF Climb
<1>12. \A m : Top(s, NoConn, m) => Top(s, n, m)'
  BY <1>5, <1>6, <1>9 DEF Top
<1>13. Open(s)' => s \in DOMAIN ptys \/ Open(s)
  BY <1>1, <1>2, <1>5, <1>9 DEF Open
<1>14. ASSUME NEW c \in Streams, c # n
       PROVE  /\ Climb(s, c) => Climb(s, c)'
              /\ \A m : Top(s, c, m) => Top(s, c, m)'
              /\ Shown(s, Stream(c)') \subseteq Shown(s, Stream(c))
  BY <1>1, <1>2, <1>3, <1>14, EmptyShown, EmptyTop, SinksSame, SinksKeeps
<1>15. ASSUME NEW d \in Streams, Later(n, d) PROVE \A m : Top(s, d, m)'
  BY <1>1, <1>2, <1>15, EmptyTop DEF Later
<1>16. Shown(s, Stream(NoConn)') = {}
  BY <1>1, EmptyShown
<1>17. Shown(s, Stream(n)') \subseteq Shown(s, Stream(NoConn))
  BY <1>5, <1>10
<1>18. QED
  BY <1>2, <1>11, <1>12, <1>13, <1>14, <1>15, <1>16, <1>17

LEMMA RiseConnect ==
  ASSUME Typed, Wired, "exitgap" \notin Races, NEW s, Rise(s), AgentConnect
  PROVE  Rise(s)'
<1>1. PICK n \in Streams :
           /\ n = conn' /\ n # NoConn
           /\ \A c \in Streams : c # n =>
                /\ Climb(s, c) => Climb(s, c)'
                /\ \A m : Top(s, c, m) => Top(s, c, m)'
                /\ Shown(s, Stream(c)') \subseteq Shown(s, Stream(c))
           /\ Climb(s, NoConn) => Climb(s, n)'
           /\ \A m : Top(s, NoConn, m) => Top(s, n, m)'
           /\ Shown(s, Stream(n)') \subseteq Shown(s, Stream(NoConn))
           /\ Shown(s, Stream(NoConn)') = {}
           /\ \A d \in Streams : Later(n, d) => \A m : Top(s, d, m)'
           /\ Open(s)' => s \in DOMAIN ptys \/ Open(s)
  BY ConnectTop
<1>2. NoConn \in Streams
  BY StreamsAre
<1>3. UNCHANGED ptys /\ Further(s)
  BY ConnectFurther
<1>4. ASSUME NEW c \in Streams PROVE Climb(s, c)'
  BY <1>1, <1>2 DEF Rise
<1>5. ASSUME NEW c \in Streams, NEW m \in Shown(s, Stream(c)') PROVE Below(s, c, m)'
  <2>1. PICK b \in Streams : m \in Shown(s, Stream(b)) /\ (c = n \/ (b = c /\ c # NoConn))
    BY <1>1, <1>2, <1>5
  <2>2. Below(s, b, m)
    BY <2>1 DEF Rise
  <2>3. m \in Nat
    BY <2>1 DEF Shown
  <2>4. Reached(s, m)'
    BY <1>3, <2>2, <2>3, ReachedKept DEF Below
  <2>5. ASSUME NEW d \in Streams, Later(c, d) PROVE Top(s, d, m)'
    BY <1>1, <1>2, <2>1, <2>2, <2>5 DEF Later, Below
  <2>6. QED
    BY <2>4, <2>5, LaterKept DEF Below
<1>6. ASSUME Open(s)' PROVE Speaking(s)'
  BY <1>1, <1>3, <1>6 DEF AgentConnect, Rise, Speaking
<1>7. QED
  BY <1>4, <1>5, <1>6 DEF Rise

LEMMA LowConnect ==
  ASSUME Typed, Wired, NEW s, NEW n \in Nat, Low(s, n), AgentConnect
  PROVE  Low(s, n)'
BY ConnectTop, StreamsAre, ConnectFurther, ReachedKept DEF Low

\* What the agent says of s still rises, and what was below it still is.
Lasts(s) == Rise(s)' /\ \A n \in Nat : Low(s, n) => Low(s, n)'

LEMMA EarlyKept ==
  ASSUME NEW s, Passes(s)
  PROVE  Early(s)' => Early(s)
  BY DEF Passes, Lesser, Early, Begun

LEMMA LastsSinks ==
  ASSUME Typed, NEW s, Rise(s), conn' = conn, \A c \in Streams : Sinks(c, s), Further(s), Speaking(s) => Speaking(s)',
         Early(s)' => Early(s)
  PROVE  Lasts(s)
BY RiseSinks, LowSinks DEF Lasts

LEMMA LastsGrows ==
  ASSUME Typed, Wired, NEW s, Rise(s), UNCHANGED <<conn, fromAgent, sessions>>, NEW m \in AgentMessage, Enqueue(m),
         Says(s, m), Early(s)' => Early(s)
  PROVE  Lasts(s)
BY RiseGrows, LowGrows DEF Lasts

\* Nothing is said.
LEMMA LastsStill ==
  ASSUME Typed, NEW s, Rise(s), UNCHANGED <<conn, outgoing, fromAgent>>, \A c : Owns(c, s)' => Owns(c, s), Further(s),
         Speaking(s) => Speaking(s)', Early(s)' => Early(s)
  PROVE  Lasts(s)
BY StreamsSame, SinksSame, LastsSinks

\* Nothing has been said of s.
LEMMA LastsMute ==
  ASSUME Typed, NEW s, NoTrace(s), UNCHANGED <<conn, outgoing, fromAgent>>, Owns(conn, s)' => Speaking(s)',
         \A n \in Nat : Low(s, n) => Reached(s, n)', Early(s)' => Early(s)
  PROVE  Lasts(s)
<1>1. \A c \in Streams : Mute(s, Stream(c)) /\ Stream(c)' = Stream(c)
  BY OrderBlank, StreamsSame
<1>2. ASSUME NEW c \in Streams
      PROVE  Climb(s, c)' /\ (\A n : Top(s, c, n)') /\ Shown(s, Stream(c)') = {}
  BY <1>1, MuteIs, SilentKeeps DEF Silent, Shown, Climb, Top
<1>3. ASSUME Open(s)' PROVE Owns(conn, s)'
  BY <1>1, <1>3, StreamTypes, StreamsAre DEF Open, Mute, Msgs, Speaks, Bares
<1>4. Rise(s)'
  BY <1>2, <1>3 DEF Rise
<1>5. ASSUME NEW n \in Nat, Low(s, n) PROVE Low(s, n)'
  BY <1>2, <1>5 DEF Low
<1>6. QED
  BY <1>4, <1>5 DEF Lasts

\* The agent and what it is told stay as they are, or it is told more.
LEMMA SpeakingKept ==
  ASSUME Typed, NEW s, UNCHANGED <<conn, ptys>>,
         conn # NoConn /\ Begun(s, toAgent[conn]) => Begun(s, toAgent'[conn])
  PROVE  Further(s) /\ (Speaking(s) => Speaking(s)')
BY PrintedNat DEF Printed, Further, Speaking

-----------------------------------------------------------------------------
(***************************************************************************)
(* The agent says and sends nothing that takes back what has been said.    *)
(***************************************************************************)
LEMMA PtysFurther ==
  ASSUME Typed, NEW s,
         s \in DOMAIN ptys' => /\ s \in DOMAIN ptys
                               /\ ptys'[s].printed \in {ptys[s].printed, ptys[s].printed + 1}
  PROVE  Further(s)
BY PtyParts DEF Further, Printed

LEMMA SaysEvent ==
  ASSUME NEW s, NEW t, NEW e, Further(s), ~(t = s /\ e \in Ends) /\ Speaking(s) => Speaking(s)'
  PROVE  Says(s, Event(t, e))
BY MessageSays, SpeaksOf DEF Says

LEMMA LastsSend ==
  ASSUME Typed, Wired, NEW s \in SessionIds, Rise(s), AgentSend
  PROVE  Lasts(s)
<1>1. /\ UNCHANGED <<toAgent, conn, ptys, sessions>>
  BY DEF AgentSend, AgentOnly, registryVars
<1>2. Further(s) /\ (Speaking(s) => Speaking(s)')
  BY <1>1, SpeakingKept
<1>3. Early(s)' => Early(s)
  BY BirthSend, EarlyKept
<1>4. \A c : Owns(c, s)' => Owns(c, s)
  BY <1>1 DEF Owns
<1>5. conn \in Streams
  BY StreamTypes, StreamsAre
<1>6. ASSUME NEW c \in Streams PROVE Sinks(c, s)
  BY <1>1, <1>4, <1>5, SendStreams, SinksSame, StreamTypes, ConnsOwn DEF Bares, Sinks, Trimmed
<1>7. QED
  BY <1>1, <1>2, <1>3, <1>6, LastsSinks

LEMMA LastsReader ==
  ASSUME Typed, Wired, NEW s \in SessionIds, Rise(s),
         FinishSpawn \/ \E t \in DOMAIN ptys : Produce(t) \/ Exit(t) \/ Reader(t)
  PROVE  Lasts(s)
<1>1. UNCHANGED <<conn, fromAgent, sessions, toAgent>>
  BY DEF FinishSpawn, Produce, Exit, Reader, ReportEnd, Forget, AgentOnly, registryVars
<1>2. Early(s)' => Early(s)
  BY BirthReader, EarlyKept
<1>3. ASSUME s \in DOMAIN ptys /\ ptys[s].reader # "reported" => s \in DOMAIN ptys' /\ ptys'[s].reader # "reported"
      PROVE  Speaking(s) => Speaking(s)'
  BY <1>1, <1>3 DEF Speaking
<1>4. \A x \in DOMAIN ptys : ptys[x] \in Pty /\ x \in SessionIds /\ ptys[x].printed \in 0..MaxChunks /\ ptys[x].printed \in Nat
  BY PtyParts
<1>5. CASE FinishSpawn
  <2>1. spawning \in DOMAIN ptys /\ spawning \in SessionIds
    BY <1>4, <1>5 DEF FinishSpawn, Typed, AgentTyped, Held
  <2>2. ptys' = [ptys EXCEPT ![spawning].reader = "running"]
    BY <1>5 DEF FinishSpawn
  <2>3. /\ DOMAIN ptys' = DOMAIN ptys
        /\ s \in DOMAIN ptys => ptys'[s].printed = ptys[s].printed
        /\ s \in DOMAIN ptys /\ ptys[s].reader # "reported" => ptys'[s].reader # "reported"
    BY <1>4, <2>1, <2>2 DEF Pty
  <2>4. Further(s)
    BY <2>3, PtysFurther
  <2>5. Says(s, Event(spawning, "started"))
    BY <1>3, <2>3, <2>4, SaysEvent DEF Ends
  <2>6. Event(spawning, "started") \in AgentMessage
    BY <2>1, MessageTypes DEF Events
  <2>7. QED
    BY <1>1, <1>2, <1>5, <2>5, <2>6, LastsGrows DEF FinishSpawn
<1>6. ASSUME NEW t \in DOMAIN ptys, Produce(t) PROVE Lasts(s)
  <2>1. ptys' = [ptys EXCEPT ![t].printed = @ + 1] /\ ptys[t].printed < MaxChunks
    BY <1>6 DEF Produce
  <2>2. /\ DOMAIN ptys' = DOMAIN ptys
        /\ s \in DOMAIN ptys => ptys'[s].printed \in {ptys[s].printed, ptys[s].printed + 1}
        /\ s = t => ptys'[s].printed = ptys[t].printed + 1
        /\ s \in DOMAIN ptys /\ ptys[s].reader # "reported" => ptys'[s].reader # "reported"
    BY <1>4, <2>1 DEF Pty
  <2>3. Further(s)
    BY <2>2, PtysFurther
  <2>4. PICK n : n = ptys[t].printed + 1
    OBVIOUS
  <2>5. n \in 1..MaxChunks
    BY <1>4, <2>1, <2>4, Bounds
  <2>6. Output(t, n) \in AgentMessage
    BY <1>4, <2>5, MessageTypes
  <2>7. /\ (Shows(Output(t, n), s) <=> t = s) /\ ~Closes(Output(t, n), s) /\ At(Output(t, n)) = n
        /\ ~Names(Output(t, n), s)
    BY MessageSays DEF Names, Output
  <2>8. t = s => s \in DOMAIN ptys /\ s \in DOMAIN ptys' /\ n = Printed(s)'
    BY <1>6, <2>2, <2>4 DEF Printed
  <2>9. Speaking(s) => Speaking(s)'
    BY <1>3, <2>2
  <2>10. Says(s, Output(t, n))
    BY <2>3, <2>7, <2>8, <2>9 DEF Says
  <2>11. Enqueue(Output(t, n))
    BY <1>6, <2>4 DEF Produce
  <2>12. QED
    BY <1>1, <1>2, <2>6, <2>10, <2>11, LastsGrows
<1>7. ASSUME NEW t \in DOMAIN ptys, Exit(t) PROVE Lasts(s)
  BY <1>1, <1>2, <1>3, <1>4, <1>7, PtysFurther, LastsStill DEF Exit, Pty, Owns
<1>8. ASSUME NEW t \in DOMAIN ptys, ReportEnd(t) PROVE Lasts(s)
  <2>1. ptys' = [ptys EXCEPT ![t].reader = "reported"]
    BY <1>8 DEF ReportEnd
  <2>2. /\ DOMAIN ptys' = DOMAIN ptys
        /\ s \in DOMAIN ptys => ptys'[s].printed = ptys[s].printed
        /\ s # t => (s \in DOMAIN ptys /\ ptys[s].reader # "reported" => ptys'[s].reader # "reported")
    BY <1>4, <2>1 DEF Pty
  <2>3. Further(s)
    BY <2>2, PtysFurther
  <2>4. PICK e \in Ends : Enqueue(Event(t, e))
    BY <1>8 DEF ReportEnd, Ends
  <2>5. Says(s, Event(t, e))
    BY <1>3, <2>2, <2>3, <2>4, SaysEvent
  <2>6. Event(t, e) \in AgentMessage
    BY <1>4, <2>4, MessageTypes DEF Events, Ends
  <2>7. QED
    BY <1>1, <1>2, <2>4, <2>5, <2>6, LastsGrows
<1>9. ASSUME NEW t \in DOMAIN ptys, Forget(t) PROVE Lasts(s)
  <2>1. ptys' = Without(ptys, {t}) /\ ptys[t].reader = "reported" /\ outgoing' = outgoing
    BY <1>9 DEF Forget
  <2>2. Maps(ptys, SessionIds, Pty)
    BY DEF Typed, AgentTyped
  <2>3. DOMAIN ptys' = DOMAIN ptys \ {t} /\ \A y \in DOMAIN ptys \ {t} : ptys'[y] = ptys[y]
    BY <2>1, <2>2, MapsWithout
  <2>4. Further(s) /\ (Speaking(s) => Speaking(s)')
    BY <1>3, <2>1, <2>3, PtysFurther
  <2>5. \A c : Owns(c, s)' => Owns(c, s)
    BY <1>1 DEF Owns
  <2>6. QED
    BY <1>1, <1>2, <2>1, <2>4, <2>5, LastsStill
<1>10. QED
  BY <1>5, <1>6, <1>7, <1>8, <1>9 DEF Reader

\* The agent does what it is told.
LEMMA DispatchedKeeps ==
  ASSUME Typed, NEW s, NEW kinds, Dispatched(kinds)
  PROVE  /\ UNCHANGED <<conn, fromAgent, sessions>> /\ conn \in Conns /\ conn # NoConn /\ (Early(s)' => Early(s))
         /\ \A c : Owns(c, s)' => Owns(c, s)
         /\ Head(toAgent[conn]) \in ServerMessage /\ Head(toAgent[conn]).do \in kinds
         /\ Head(toAgent[conn]) \in Msgs(toAgent[conn])
         /\ Head(toAgent[conn]) # Command("spawn", s) /\ Begun(s, toAgent[conn]) => Begun(s, toAgent'[conn])
BY DispatchedTypes, MsgsTail, DispatchedQueues DEF AgentOnly, registryVars, linkVars, Typed, WiresTyped,
   Dispatched, Early, Begun, Owns

LEMMA LastsSpawn ==
  ASSUME Typed, Wired, NEW s \in SessionIds, Birth(s), Rise(s), Spawn
  PROVE  Lasts(s)
<1>1. Dispatched({"spawn"})
  BY DEF Spawn
<1>2. /\ UNCHANGED <<conn, fromAgent, sessions>> /\ conn \in Conns /\ conn # NoConn /\ (Early(s)' => Early(s))
      /\ \A c : Owns(c, s)' => Owns(c, s)
      /\ Head(toAgent[conn]) \in ServerMessage /\ Head(toAgent[conn]).do \in {"spawn"}
      /\ Head(toAgent[conn]) \in Msgs(toAgent[conn])
      /\ Head(toAgent[conn]) # Command("spawn", s) /\ Begun(s, toAgent[conn]) => Begun(s, toAgent'[conn])
  BY <1>1, DispatchedKeeps
<1>3. PICK t \in SessionIds : Head(toAgent[conn]) = Command("spawn", t) /\ Head(toAgent[conn]).id = t
  BY <1>2, CommandParts
<1>4. t # s => Head(toAgent[conn]) # Command("spawn", s)
  BY <1>3, Commands
<1>5. CASE Enqueue(Event(t, "failed")) /\ UNCHANGED ptys
  BY <1>2, <1>4, <1>5, PrintedNat, SpeakingKept, SaysEvent, MessageTypes, LastsGrows DEF Further, Printed,
     Ends, Events
<1>6. CASE /\ t \notin DOMAIN ptys /\ UNCHANGED outgoing
           /\ ptys' = Put(ptys, t, [reader |-> "held", alive |-> TRUE, killed |-> FALSE, printed |-> 0])
  <2>0. PICK v : v = [reader |-> "held", alive |-> TRUE, killed |-> FALSE, printed |-> 0]
    OBVIOUS
  <2>1. v \in Pty
    BY <2>0, Bounds DEF Pty
  <2>2. v.reader = "held" /\ v.printed = 0
    BY <2>0
  <2>3. Maps(ptys, SessionIds, Pty)
    BY DEF Typed, AgentTyped
  <2>4. ptys' = Put(ptys, t, v)
    BY <1>6, <2>0
  <2>5. DOMAIN ptys' = DOMAIN ptys \cup {t} /\ ptys'[t] = v /\ \A y \in DOMAIN ptys : y # t => ptys'[y] = ptys[y]
    BY <2>4 DEF Put
  <2>6. CASE t # s
    BY <1>2, <1>4, <1>6, <2>5, <2>6, PtysFurther, LastsStill DEF Speaking
  <2>7. CASE t = s
    <3>1. Begun(s, toAgent[conn])
      BY <1>2, <1>3, <2>7 DEF Begun
    <3>2. NoTrace(s)
      BY <1>2, <3>1 DEF Birth, Underway
    <3>3. Speaking(s)'
      BY <2>2, <2>5, <2>7 DEF Speaking
    <3>4. Printed(s)' = 0
      BY <2>2, <2>5, <2>7 DEF Printed
    <3>5. Early(s)
      BY <1>2, <3>1 DEF Early
    <3>6. \A n \in Nat : Low(s, n) => Reached(s, n)'
      BY <3>4, <3>5 DEF Low, Reached
    <3>7. QED
      BY <1>2, <1>6, <3>2, <3>3, <3>6, LastsMute
  <2>8. QED
    BY <2>6, <2>7
<1>7. QED
  BY <1>3, <1>5, <1>6 DEF Spawn

LEMMA LastsDispatch ==
  ASSUME Typed, Wired, "exitgap" \notin Races, NEW s \in SessionIds, Birth(s), Rise(s), Dispatch
  PROVE  Lasts(s)
<1>1. ASSUME NEW kinds, Dispatched(kinds), "spawn" \notin kinds
      PROVE  /\ UNCHANGED <<conn, fromAgent, sessions>> /\ (Early(s)' => Early(s)) /\ \A c : Owns(c, s)' => Owns(c, s)
             /\ conn # NoConn /\ Begun(s, toAgent[conn]) => Begun(s, toAgent'[conn])
  <2>1. Head(toAgent[conn]) # Command("spawn", s)
    <3>1. Head(toAgent[conn]).do \in kinds
      BY <1>1, DispatchedKeeps
    <3>2. Head(toAgent[conn]).do # "spawn"
      BY <1>1, <3>1
    <3>3. QED
      BY <3>2, Commands
  <2>2. QED
    BY <1>1, <2>1, DispatchedKeeps
<1>2. CASE Kill
  BY <1>1, <1>2, PtyParts, PtysFurther, LastsStill DEF Kill, Pty, Speaking
<1>3. CASE Resize
  BY <1>1, <1>3, SpeakingKept, LastsStill DEF Resize
<1>4. CASE DumpScrollback
  <2>1. Dispatched({"scrollback"}) /\ UNCHANGED ptys
    BY <1>4 DEF DumpScrollback
  <2>2. /\ UNCHANGED <<conn, fromAgent, sessions>> /\ (Early(s)' => Early(s))
        /\ conn # NoConn /\ Begun(s, toAgent[conn]) => Begun(s, toAgent'[conn])
    BY <1>1, <2>1
  <2>3. Further(s) /\ (Speaking(s) => Speaking(s)')
    BY <2>1, <2>2, SpeakingKept
  <2>4. conn \in Conns /\ Head(toAgent[conn]) \in ServerMessage /\ Head(toAgent[conn]).do \in {"scrollback"}
        /\ Head(toAgent[conn]) \in Msgs(toAgent[conn])
    BY <2>1, DispatchedKeeps
  <2>5. PICK t \in SessionIds : Head(toAgent[conn]) = Command("scrollback", t) /\ Head(toAgent[conn]).id = t
    BY <2>4, CommandParts
  <2>6. PICK n : n = (IF t \in DOMAIN ptys THEN ptys[t].printed ELSE 0)
    OBVIOUS
  <2>7. n \in 0..MaxChunks
    BY <2>6, PtyParts, Bounds
  <2>8. Dump(t, n) \in AgentMessage
    BY <2>7, MessageTypes
  <2>9. Enqueue(Dump(t, n))
    BY <1>4, <2>5, <2>6 DEF DumpScrollback
  <2>10. (Shows(Dump(t, n), s) <=> t = s) /\ ~Closes(Dump(t, n), s) /\ At(Dump(t, n)) = n /\ ~Names(Dump(t, n), s)
    BY MessageSays DEF Names, Dump
  <2>11. ASSUME t = s, s \notin DOMAIN ptys PROVE ~Open(s)
    BY <2>4, <2>5, <2>11 DEF Asked, Birth, Underway, NoTrace, Speaking, Rise
  <2>12. s \in DOMAIN ptys /\ t = s => s \in DOMAIN ptys' /\ n = Printed(s)'
    BY <2>1, <2>6 DEF Printed
  <2>13. Says(s, Dump(t, n))
    BY <2>3, <2>10, <2>11, <2>12 DEF Says
  <2>14. QED
    BY <2>2, <2>8, <2>9, <2>13, LastsGrows
<1>5. CASE Relist
  BY <1>1, <1>5, SpeakingKept, MessageTypes, SpeaksOf, LastsGrows DEF Relist, Typed, AgentTyped, Maps,
     Speaking, Says
<1>6. CASE Spawn
  BY <1>6, LastsSpawn
<1>7. QED
  BY <1>2, <1>3, <1>4, <1>5, <1>6 DEF Dispatch

-----------------------------------------------------------------------------
(***************************************************************************)
(* The server reads a connection, or gives it up.                          *)
(***************************************************************************)
LEMMA LastsRead ==
  ASSUME Typed, NEW s \in SessionIds, Rise(s), NEW c, NEW kinds, Received(c, kinds),
         \A d : d # c /\ Owns(d, s)' => Owns(d, s),
         Owns(c, s)' => (Owns(c, s) /\ ~Closes(Head(fromAgent[c]), s)) \/ Names(Head(fromAgent[c]), s)
  PROVE  Lasts(s)
<1>1. UNCHANGED <<toAgent, fromPage, drawn, conn, ptys>>
  BY DEF Received, agentVars
<1>2. Early(s)' => Early(s)
  BY <1>1 DEF Early
<1>3. Further(s) /\ (Speaking(s) => Speaking(s)')
  BY <1>1, SpeakingKept
<1>4. /\ c \in Streams /\ c \in Conns /\ conn' = conn
      /\ \A d \in Streams : d # c => Stream(d)' = Stream(d)
      /\ Window(Stream(c)', Stream(c), 1) /\ 1 + Len(Stream(c)') = Len(Stream(c))
      /\ Stream(c)[1] = Head(fromAgent[c]) /\ Len(Stream(c)) > 0
  BY ReceivedStreams
<1>5. ASSUME Owns(c, s)' PROVE Bares(s, Owns(c, s), Stream(c), 1 + 1)
  BY <1>4, <1>5, StreamTypes DEF Bares
<1>6. ASSUME NEW d \in Streams PROVE Sinks(d, s)
  BY <1>4, <1>5, SinksSame DEF Sinks
<1>7. QED
  BY <1>1, <1>2, <1>3, <1>6, LastsSinks

\* What the server knows of s after a list, or a message of a session.
LEMMA ListedOwns ==
  ASSUME Typed, NEW s, NEW c, OnSessionList(c)
  PROVE  /\ \A d : d # c /\ Owns(d, s)' => Owns(d, s)
         /\ Owns(c, s)' => Owns(c, s) \/ Names(Head(fromAgent[c]), s)
         /\ ~Closes(Head(fromAgent[c]), s)
BY DEF OnSessionList, Received, Without, Restrict, Owns, Names, Closes

LEMMA MessageOwns ==
  ASSUME Typed, NEW s, NEW c, OnSessionMessage(c)
  PROVE  \A d : Owns(d, s)' => Owns(d, s) /\ (d = c => ~Closes(Head(fromAgent[c]), s))
BY DEF Owns, Closes, Without, Restrict, OnSessionMessage

LEMMA LastsReceived ==
  ASSUME Typed, NEW s \in SessionIds, Rise(s), NEW c, OnSessionList(c) \/ OnSessionMessage(c) \/ OnReady(c)
  PROVE  Lasts(s)
<1>1. CASE OnSessionList(c)
  BY <1>1, ListedOwns, LastsRead DEF OnSessionList
<1>2. CASE OnSessionMessage(c)
  BY <1>2, MessageOwns, LastsRead DEF OnSessionMessage
<1>3. CASE OnReady(c)
  BY <1>3, LastsRead DEF OnReady, Received, Closes, Owns
<1>4. QED
  BY <1>1, <1>2, <1>3

LEMMA LastsUnregister ==
  ASSUME Typed, NEW s \in SessionIds, Rise(s), NEW c, Unregister(c)
  PROVE  Lasts(s)
<1>1. UNCHANGED <<conn, ptys>> /\ toAgent' = [toAgent EXCEPT ![c] = IF c = conn THEN @ ELSE <<>>]
  BY DEF Unregister, agentVars
<1>2. conn # NoConn => toAgent'[conn] = toAgent[conn]
  BY <1>1, ConnIn DEF Typed, WiresTyped
<1>3. Further(s) /\ (Speaking(s) => Speaking(s)')
  BY <1>1, <1>2, SpeakingKept
<1>4. Early(s)' => Early(s)
  BY BirthUnregister, EarlyKept
<1>5. /\ c \in Streams
      /\ \A d \in Streams : d # c => Stream(d)' = Stream(d)
      /\ \A d \in Streams : Trimmed(d)
  BY UnregisterStreams
<1>6. \A d : Owns(d, s)' => Owns(d, s) /\ d # c
  <2>1. PICK gone : gone = {t \in DOMAIN sessions : sessions[t] = c}
    OBVIOUS
  <2>2. /\ s \in DOMAIN sessions' => s \in DOMAIN sessions /\ sessions'[s] = sessions[s] /\ sessions[s] # c
    BY <2>1, UnregisterFacts
  <2>3. QED
    BY <2>2 DEF Owns
<1>7. ASSUME NEW d \in Streams PROVE Sinks(d, s)
  BY <1>5, <1>6, SinksSame DEF Sinks, Trimmed
<1>8. QED
  BY <1>1, <1>3, <1>4, <1>7, LastsSinks

-----------------------------------------------------------------------------
(***************************************************************************)
(* Every step keeps what the agent says rising.                            *)
(***************************************************************************)
\* The agent is told more.
LEMMA LastsTold ==
  ASSUME Typed, NEW s, Rise(s), UNCHANGED <<conn, outgoing, fromAgent, ptys>>,
         \A c \in Conns : Begun(s, toAgent[c]) => Begun(s, toAgent'[c]),
         \A c : Owns(c, s)' => Owns(c, s), Early(s)' => Early(s)
  PROVE  Lasts(s)
BY ConnIn, SpeakingKept, LastsStill

LEMMA LastsCommanded ==
  ASSUME Typed, NEW s \in SessionIds, Birth(s), Rise(s), NEW p, OnSpawnSession(p) \/ OnSessionCommand(p) \/ OnListSessions(p)
  PROVE  Lasts(s)
<1>1. ASSUME NEW kinds, Commanded(p, kinds)
      PROVE  /\ UNCHANGED <<conn, outgoing, fromAgent, ptys, drawn>>
             /\ \A q \in Pages : Begun(s, fromPage'[q]) => Begun(s, fromPage[q])
  BY <1>1, CommandedQueues DEF Commanded, agentVars, linkVars, Begun
<1>2. ASSUME NEW c \in Conns, NEW m \in ServerMessage, Forward(c, m)
      PROVE  \A d \in Conns : Msgs(toAgent[d]) \subseteq Msgs(toAgent'[d])
  BY <1>2, ForwardQueues
<1>3. CASE OnSpawnSession(p)
  <2>1. PICK t \in SessionIds : /\ Head(fromPage[p]) = Command("spawn", t)
                                /\ ((\E c \in Conns : Accepted(p, c, t)) \/ Refuse(p, t))
    BY <1>3, SpawnSessionCases
  <2>2. p \in Pages /\ Commanded(p, {"spawn"})
    BY <1>3, SpawnSessionCases
  <2>3. /\ UNCHANGED <<conn, outgoing, fromAgent, ptys, drawn>>
        /\ \A q \in Pages : Begun(s, fromPage'[q]) => Begun(s, fromPage[q])
    BY <1>1, <2>2
  <2>4. CASE Refuse(p, t)
    BY <2>3, <2>4, LastsTold DEF Refuse, Owns, Early
  <2>5. ASSUME NEW c \in Conns, Accepted(p, c, t) PROVE Lasts(s)
    <3>1. Forward(c, Command("spawn", t)) /\ sessions' = Put(sessions, t, c)
      BY <2>5 DEF Accepted
    <3>2. Command("spawn", t) \in ServerMessage
      BY <2>1, CommandTypes
    <3>3. \A d \in Conns : Msgs(toAgent[d]) \subseteq Msgs(toAgent'[d])
      BY <1>2, <3>1, <3>2
    <3>4. CASE t # s
      <4>1. \A d : Owns(d, s)' => Owns(d, s)
        BY <3>1, <3>4 DEF Owns, Put
      <4>2. Command("spawn", s) # Command("spawn", t)
        BY <3>4, Commands
      <4>3. \A d \in Conns : Begun(s, toAgent'[d]) => Begun(s, toAgent[d])
        BY <3>1, <3>2, <4>2, ForwardQueues DEF Begun, Lesser
      <4>4. Early(s)' => Early(s)
        BY <2>3, <4>3 DEF Early
      <4>5. QED
        BY <2>3, <3>3, <4>1, <4>4, LastsTold DEF Begun
    <3>5. CASE t = s
      <4>1. Begun(s, fromPage[p])
        BY <2>1, <2>2, <3>5, CommandedQueues DEF Begun
      <4>2. NoTrace(s) /\ Early(s)
        BY <2>2, <4>1 DEF Birth, Ordered, Early
      <4>3. s \notin DOMAIN ptys
        BY <4>2 DEF NoTrace
      <4>4. ASSUME Owns(conn, s)' PROVE Speaking(s)'
        BY <2>3, <3>1, <3>2, <3>5, <4>4, ForwardQueues, StreamsAre DEF Owns, Put, Begun, Speaking
      <4>5. \A n \in Nat : Reached(s, n)'
        BY <2>3, <4>3 DEF Reached
      <4>6. QED
        BY <2>3, <4>2, <4>4, <4>5, LastsMute
    <3>6. QED
      BY <3>4, <3>5
  <2>6. QED
    BY <2>1, <2>4, <2>5
<1>4. ASSUME \A c \in Conns : Msgs(toAgent[c]) \subseteq Msgs(toAgent'[c]), UNCHANGED sessions, Passes(s),
             NEW kinds, Commanded(p, kinds)
      PROVE  Lasts(s)
  BY <1>1, <1>4, EarlyKept, LastsTold DEF Owns, Begun
<1>5. CASE OnSessionCommand(p)
  BY <1>2, <1>4, <1>5, SessionCommandCases, BirthSessionCommand DEF OnSessionCommand, Refuse
<1>6. CASE OnListSessions(p)
  <2>1. Passes(s) /\ Commanded(p, {"list"}) /\ UNCHANGED sessions
    BY <1>6, BirthListSessions DEF OnListSessions
  <2>2. ASSUME NEW d \in Conns PROVE Msgs(toAgent[d]) \subseteq Msgs(toAgent'[d])
    <3>1. toAgent'[d] = toAgent[d] \/ toAgent'[d] = Append(toAgent[d], ListSessions)
      BY <1>6 DEF OnListSessions
    <3>2. toAgent[d] \in Seq(ServerMessage) /\ ListSessions \in ServerMessage
      BY CommandTypes DEF Typed, WiresTyped
    <3>3. PICK q : q = toAgent[d]
      OBVIOUS
    <3>4. Msgs(Append(q, ListSessions)) = Msgs(q) \cup {ListSessions}
      BY <3>2, <3>3, MsgsAppend
    <3>5. QED
      BY <3>1, <3>3, <3>4
  <2>3. QED
    BY <1>4, <2>1, <2>2
<1>7. QED
  BY <1>3, <1>5, <1>6

LEMMA LastsPing ==
  ASSUME Typed, NEW s \in SessionIds, Rise(s), NEW c, SendPing(c)
  PROVE  Lasts(s)
BY EmptyStream, BirthPing, EarlyKept, LastsTold DEF SendPing, agentVars, registryVars, Typed, WiresTyped, Owns

LEMMA LastsPage ==
  ASSUME Typed, NEW s \in SessionIds, Rise(s), NEW o \in Pages, PageStep(o)
  PROVE  Lasts(s)
BY PageStepOnly, PassesOr, BegunOr, LastsTold DEF PageOnly, agentVars, registryVars, Owns, Early

LEMMA LastsStutter ==
  ASSUME Typed, NEW s, Rise(s), UNCHANGED vars
  PROVE  Lasts(s)
BY LastsTold DEF vars, agentVars, registryVars, wireVars, linkVars, Owns, Early

LEMMA LastsNext ==
  ASSUME Typed, Wired, "exitgap" \notin Races, NEW s \in SessionIds, Birth(s), Rise(s), [Next]_vars
  PROVE  Lasts(s)
<1>1. CASE AgentConnect
  BY <1>1, RiseConnect, LowConnect DEF Lasts
<1>2. CASE AgentDrop
  BY <1>2, RiseDrop, LowDrop DEF Lasts
<1>3. CASE AgentSend
  BY <1>3, LastsSend
<1>4. CASE Dispatch
  BY <1>4, LastsDispatch
<1>5. CASE FinishSpawn \/ \E t \in DOMAIN ptys : Produce(t) \/ Exit(t) \/ Reader(t)
  BY <1>5, LastsReader
<1>6. ASSUME NEW c, Reap(c) \/ ServerHangup(c) PROVE Lasts(s)
  BY <1>6, LastsUnregister DEF Reap, ServerHangup
<1>7. CASE ServerStep
  BY <1>6, <1>7, LastsReceived, LastsPing, LastsCommanded DEF ServerStep
<1>8. ASSUME NEW p \in Pages, PageStep(p) PROVE Lasts(s)
  BY <1>8, LastsPage
<1>9. CASE UNCHANGED vars
  BY <1>9, LastsStutter
<1>10. QED
  BY <1>1, <1>2, <1>3, <1>4, <1>5, <1>6, <1>7, <1>8, <1>9 DEF Next, PageStep

LEMMA RiseInit ==
  ASSUME Init, NEW s
  PROVE  Rise(s)
BY StreamsAre DEF Init, Stream, Owns, Empty, Climb, Climbs, Shown, Open, Bares, Rise

-----------------------------------------------------------------------------
(***************************************************************************)
(* What a page shows of s rises, and nothing that is to come is below it.  *)
(***************************************************************************)
Grid(p, s) == {n \in Nat : s \in DOMAIN entries[p] /\ entries[p][s].shown = n}
Rising(p, s) ==
  /\ \A n \in Grid(p, s) \cup Shown(s, toPage[p]) : Low(s, n)
  /\ Climbs(s, TRUE, TRUE, toPage[p])
  /\ \A n \in Grid(p, s), k \in Shown(s, toPage[p]) : n <= k

LEMMA RisingStep ==
  ASSUME NEW s, NEW p, Lasts(s), Rising(p, s),
         \A n \in Shown(s, toPage'[p]) : n \in Shown(s, toPage[p]) \/ Low(s, n)',
         Climbs(s, TRUE, TRUE, toPage'[p]),
         \A n \in Grid(p, s)' : Low(s, n) /\ \A k \in Shown(s, toPage'[p]) : n <= k
  PROVE  Rising(p, s)'
BY DEF Grid, Lasts, Rising, Shown

\* r shows nothing of s that q does not, in its order.
Adds(s, q, r) == Shown(s, r) \subseteq Shown(s, q) /\ (Climbs(s, TRUE, TRUE, q) => Climbs(s, TRUE, TRUE, r))

LEMMA AddsSame ==
  \A s, q : Adds(s, q, q)
  BY DEF Adds

LEMMA AddsWindow ==
  ASSUME NEW s, NEW q, NEW r, NEW a, Window(r, q, a)
  PROVE  Adds(s, q, r)
<1>1. Shown(s, r) \subseteq Shown(s, q)
  BY ShownWindow
<1>2. ASSUME Climbs(s, TRUE, TRUE, q) PROVE Climbs(s, TRUE, TRUE, r)
  <2>1. /\ a \in Nat /\ Len(r) \in Nat /\ Len(q) \in Nat /\ a + Len(r) <= Len(q)
        /\ \A i \in 1..Len(r) : r[i] = q[a + i]
    BY DEF Window
  <2>2. \A i, j \in 1..Len(q) : i < j /\ Shows(q[i], s) /\ Shows(q[j], s) => At(q[i]) <= At(q[j])
    BY <1>2 DEF Climbs, Counts
  <2>3. \A i, j \in 1..Len(r) : i < j => a + i \in 1..Len(q) /\ a + j \in 1..Len(q) /\ a + i < a + j
    BY <2>1
  <2>4. QED
    BY <2>1, <2>2, <2>3 DEF Climbs, Counts
<1>3. QED
  BY <1>1, <1>2 DEF Adds

LEMMA ClimbsLonger ==
  ASSUME NEW s, NEW q, NEW r, NEW m, Longer(r, q, m), Climbs(s, TRUE, TRUE, q),
         Shows(m, s) => \A i \in 1..Len(q) : Shows(q[i], s) => At(q[i]) <= At(m)
  PROVE  Climbs(s, TRUE, TRUE, r)
BY DEF Longer, Climbs, Counts

LEMMA AddsLonger ==
  ASSUME NEW s, NEW q, NEW r, NEW m, Longer(r, q, m), ~Shows(m, s)
  PROVE  Adds(s, q, r)
BY ShownLonger, ClimbsLonger DEF Adds

LEMMA RisingAdds ==
  ASSUME NEW s, NEW p, Lasts(s), Rising(p, s), Adds(s, toPage[p], toPage'[p]), Grid(p, s)' \subseteq Grid(p, s)
  PROVE  Rising(p, s)'
BY RisingStep DEF Adds, Rising

\* The registry tells its pages nothing that shows s.
LEMMA AddsOne ==
  ASSUME Typed, NEW s, NEW p \in Pages, NEW m \in AgentMessage, NEW gone, NotifyOwner(<<m>>, gone), ~Shows(m, s)
  PROVE  Adds(s, toPage[p], toPage'[p])
BY OwnerOne, AddsSame, AddsLonger

LEMMA AddsTwo ==
  ASSUME Typed, NEW s, NEW p \in Pages, NEW m \in AgentMessage, NEW n \in AgentMessage, NEW gone,
         NotifyOwner(<<m, n>>, gone), ~Shows(m, s), ~Shows(n, s)
  PROVE  Adds(s, toPage[p], toPage'[p])
<1>1. PICK q, r : q = toPage[p] /\ r = toPage'[p]
  OBVIOUS
<1>2. r = q \/ Longer(r, q, m) \/ \E z : Longer(z, q, m) /\ Longer(r, z, n)
  BY <1>1, OwnerTwo
<1>3. ASSUME NEW z, Longer(z, q, m), Longer(r, z, n) PROVE Adds(s, q, r)
  BY <1>3, AddsLonger DEF Adds
<1>4. Adds(s, q, r)
  BY <1>2, <1>3, AddsSame, AddsLonger
<1>5. QED
  BY <1>1, <1>4

\* So it is with all that the server does but pass on what it hears.
LEMMA AddsServer ==
  ASSUME Typed, NEW s \in SessionIds, NEW p \in Pages, NEW c,
         AgentConnect \/ Unregister(c) \/ OnReady(c) \/ OnSessionList(c)
  PROVE  Adds(s, toPage[p], toPage'[p])
<1>1. CASE AgentConnect
  BY <1>1, MessageTypes, SpeaksOf, AddsOne DEF AgentConnect
<1>2. CASE Unregister(c)
  <2>1. PICK gone : gone = {t \in DOMAIN sessions : sessions[t] = c}
    OBVIOUS
  <2>2. PICK b, S, m, n : b = (agents' # {}) /\ S = infos' /\ m = Status(b) /\ n = List(S)
    OBVIOUS
  <2>3. NotifyOwner(<<m, n>>, gone)
    BY <1>2, <2>1, <2>2, UnregisterFacts
  <2>4. m \in AgentMessage /\ n \in AgentMessage
    BY <1>2, <2>2, UnregisterMessages
  <2>5. ~Shows(m, s) /\ ~Shows(n, s)
    BY <2>2 DEF Shows, Status, List
  <2>6. QED
    BY <2>3, <2>4, <2>5, AddsTwo
<1>3. CASE OnReady(c)
  BY <1>3, MessageTypes, SpeaksOf, AddsOne DEF OnReady
<1>4. CASE OnSessionList(c)
  BY <1>4, ListedFacts, ListedMessages, AddsOne DEF Shows, List
<1>5. QED
  BY <1>1, <1>2, <1>3, <1>4

LEMMA AddsCommanded ==
  ASSUME Typed, NEW s \in SessionIds, NEW p \in Pages, NEW o, OnSpawnSession(o) \/ OnSessionCommand(o) \/ OnListSessions(o)
  PROVE  Adds(s, toPage[p], toPage'[p])
<1>1. PICK q, r : q = toPage[p] /\ r = toPage'[p]
  OBVIOUS
<1>2. ASSUME NEW t \in SessionIds, o \in Pages, Refuse(o, t) PROVE Adds(s, q, r)
  BY <1>1, <1>2, RefuseQueues, SpeaksOf, AddsSame, AddsLonger
<1>3. CASE OnSpawnSession(o)
  BY <1>1, <1>2, <1>3, SpawnSessionCases, AddsSame DEF Accepted
<1>4. CASE OnSessionCommand(o)
  BY <1>1, <1>2, <1>4, SessionCommandCases, AddsSame
<1>5. CASE OnListSessions(o)
  <2>1. o \in Pages /\ (UNCHANGED toPage \/ Reply(o, List({})))
    BY <1>5, CommandedTypes DEF OnListSessions
  <2>2. PICK m : m = List({})
    OBVIOUS
  <2>3. m \in AgentMessage /\ ~Shows(m, s)
    BY <2>2, MessageTypes, SpeaksOf
  <2>4. CASE UNCHANGED toPage
    BY <1>1, <2>4, AddsSame
  <2>5. CASE Reply(o, List({}))
    BY <1>1, <2>1, <2>2, <2>3, <2>5, ReplyQueues, AddsSame, AddsLonger
  <2>6. QED
    BY <2>1, <2>4, <2>5
<1>6. QED
  BY <1>3, <1>4, <1>5

-----------------------------------------------------------------------------
(***************************************************************************)
(* Output of s is passed on: all that is to come shows no less.            *)
(***************************************************************************)
LEMMA HeadTop ==
  ASSUME NEW s, NEW q, NEW r, Window(r, q, 1), Len(q) > 0, Shows(q[1], s), NEW own, NEW left,
         left => Bares(s, own, q, 2), NEW all, NEW some, some => all, Climbs(s, all, own, q)
  PROVE  Tops(s, some, left, r, At(q[1]))
<1>1. left => Bares(s, own, q, 1 + 1)
  OBVIOUS
<1>2. \A j \in 1..Len(r) : Counts(s, some, left, r, j) =>
         1 + j \in 1..Len(q) /\ r[j] = q[1 + j] /\ Counts(s, all, own, q, 1 + j)
  BY <1>1, CountsWindow
<1>3. ASSUME NEW j \in 1..Len(r), Counts(s, some, left, r, j) PROVE At(q[1]) <= At(r[j])
  BY <1>2, <1>3 DEF Window, Climbs
<1>4. QED
  BY <1>3 DEF Tops

\* Nothing is left in the streams before the one the server reads.
LEMMA NothingBefore ==
  ASSUME Typed, Wired, "stale" \notin Races, NEW c, NEW kinds, Received(c, kinds),
         NEW d \in Streams, d # c, ~Later(c, d)
  PROVE  Stream(d) = <<>>
<1>1. c \in Conns /\ c # NoConn /\ c \in agents /\ c \in Nat /\ c <= conns /\ conns \in Nat
  BY ReceivedTypes, StreamsAre DEF Typed, RegistryTyped, AgentTyped
<1>2. d # NoConn /\ d \in Conns /\ d \in Nat
  BY <1>1, StreamsAre DEF Later
<1>3. d < c
  BY <1>1, <1>2 DEF Later
<1>4. fromAgent[d] = <<>>
  BY <1>2, <1>3 DEF Received, Wired, WiredAgent
<1>5. d # conn
  BY <1>1, <1>2, <1>3 DEF Wired, WiredAgent
<1>6. QED
  BY <1>2, <1>4, <1>5 DEF Stream

\* Nothing has been said of a session whose spawn has not been done.
LEMMA EarlyTrace ==
  ASSUME NEW s, Birth(s), Early(s)
  PROVE  NoTrace(s)
BY DEF Birth, Early, Unborn, Ordered, Underway

LEMMA LowZero ==
  ASSUME Typed, NEW s
  PROVE  Low(s, 0)
<1>1. Reached(s, 0)
  BY PrintedNat DEF Reached
<1>2. ASSUME NEW c \in Streams PROVE Top(s, c, 0)
  <2>1. ASSUME NEW j \in 1..Len(Stream(c)), Shows(Stream(c)[j], s) PROVE 0 <= At(Stream(c)[j])
    <3>1. At(Stream(c)[j]) \in Nat
      BY <2>1, StreamShown
    <3>2. PICK k : k = At(Stream(c)[j])
      OBVIOUS
    <3>3. QED
      BY <3>1, <3>2
  <2>2. QED
    BY <2>1 DEF Top, Tops, Counts
<1>3. QED
  BY <1>1, <1>2 DEF Low

\* What the server passes on of s.
LEMMA PassedLow ==
  ASSUME Typed, Wired, "stale" \notin Races, NEW s \in SessionIds, Birth(s), Rise(s), NEW c, OnSessionMessage(c),
         NEW m, m = Head(fromAgent[c]), Shows(m, s), Owns(c, s)
  PROVE  At(m) \in Nat /\ Low(s, At(m))' /\ \A n \in Nat : Low(s, n) => n <= At(m)
<1>1. Received(c, {"output", "dump", "event"})
  BY DEF OnSessionMessage
<1>2. UNCHANGED <<toAgent, fromPage, drawn, conn, ptys>>
  BY <1>1 DEF Received, agentVars
<1>3. /\ c \in Streams /\ c \in Conns
      /\ \A d \in Streams : d # c => Stream(d)' = Stream(d)
      /\ Window(Stream(c)', Stream(c), 1) /\ Stream(c)[1] = m /\ Len(Stream(c)) > 0
  BY <1>1, ReceivedStreams
<1>4. PICK q, r, own, all, k : q = Stream(c) /\ r = Stream(c)' /\ own = Owns(c, s) /\ all = (s \in DOMAIN ptys) /\ k = At(m)
  OBVIOUS
<1>5. Len(q) \in Nat /\ Len(q) > 0 /\ 1 \in 1..Len(q) /\ q[1] = m /\ Window(r, q, 1) /\ Shows(q[1], s) /\ own
  BY <1>3, <1>4, StreamTypes
<1>6. k \in Nat /\ k \in Shown(s, q)
  BY <1>3, <1>4, <1>5, StreamShown DEF Shown
<1>7. Climbs(s, all, own, q) /\ Below(s, c, k)
  BY <1>3, <1>4, <1>6 DEF Rise, Climb
<1>8. ~Early(s)
  BY <1>1, <1>3, ReceivedQueues, EarlyTrace, SpeaksIs DEF NoTrace, Mute
<1>9. ~Early(s)'
  BY <1>2, <1>8 DEF Early
<1>10. Reached(s, k)'
  BY <1>2, <1>7 DEF Below, Reached, Printed
<1>11. \A d : Owns(d, s)' => Owns(d, s)
  BY MessageOwns
<1>12. ASSUME NEW d \in Streams PROVE Top(s, d, k)'
  <2>1. CASE d = c
    <3>1. \A left : left => Bares(s, own, q, 2)
      BY <1>5 DEF Closes, Shows, Bares
    <3>2. PICK left, some : left = Owns(c, s)' /\ some = (s \in DOMAIN ptys)'
      OBVIOUS
    <3>3. some => all
      BY <1>2, <1>4, <3>2
    <3>4. left => Bares(s, own, q, 2)
      BY <3>1
    <3>5. Tops(s, some, left, r, At(q[1]))
      BY <1>5, <1>7, <3>3, <3>4, HeadTop
    <3>6. Top(s, c, k)'
      BY <1>4, <1>5, <3>2, <3>5 DEF Top
    <3>7. QED
      BY <2>1, <3>6
  <2>2. CASE d # c /\ Later(c, d)
    BY <1>2, <1>3, <1>7, <1>11, <2>2, SinksSame, SinksKeeps DEF Below
  <2>3. CASE d # c /\ ~Later(c, d)
    BY <1>1, <1>3, <2>3, NothingBefore, EmptyTop
  <2>4. QED
    BY <2>1, <2>2, <2>3
<1>13. Low(s, k)'
  BY <1>9, <1>10, <1>12 DEF Low
<1>14. ASSUME NEW n \in Nat, Low(s, n) PROVE n <= k
  BY <1>3, <1>4, <1>5, <1>14, BaresFirst DEF Low, Top, Counts, Bares, Tops
<1>15. QED
  BY <1>4, <1>6, <1>13, <1>14

\* The server passes on what a connection says of a session.
LEMMA RisingMessage ==
  ASSUME Typed, Wired, "stale" \notin Races, NEW s \in SessionIds, Birth(s), Rise(s), Lasts(s), NEW c, OnSessionMessage(c),
         NEW p \in Pages, Rising(p, s)
  PROVE  Rising(p, s)'
<1>1. Received(c, {"output", "dump", "event"})
  BY DEF OnSessionMessage
<1>2. PICK m \in AgentMessage : m = Head(fromAgent[c]) /\ (Ignored(c, m) \/ Passed(c, m, p, s))
  BY MessageFacts
<1>3. Grid(p, s)' \subseteq Grid(p, s)
  BY <1>1 DEF Received, viewVars, Grid
<1>4. PICK q, r : q = toPage[p] /\ r = toPage'[p]
  OBVIOUS
<1>5. CASE r = q
  BY <1>3, <1>4, <1>5, AddsSame, RisingAdds
<1>6. CASE Longer(r, q, m) /\ ~Shows(m, s)
  BY <1>3, <1>4, <1>6, AddsLonger, RisingAdds
<1>7. CASE Longer(r, q, m) /\ Shows(m, s) /\ Passed(c, m, p, s)
  <2>1. Owns(c, s)
    BY <1>7 DEF Passed, Owns, Shows
  <2>2. At(m) \in Nat /\ Low(s, At(m))' /\ \A n \in Nat : Low(s, n) => n <= At(m)
    BY <1>2, <1>7, <2>1, PassedLow
  <2>3. PICK k : k = At(m)
    OBVIOUS
  <2>4. /\ \A n \in Grid(p, s) \cup Shown(s, q) : n \in Nat /\ Low(s, n) /\ n <= k
        /\ Climbs(s, TRUE, TRUE, q)
        /\ \A n \in Grid(p, s), j \in Shown(s, q) : n <= j
    BY <1>4, <2>2, <2>3 DEF Rising, Grid, Shown
  <2>5. \A n \in Shown(s, r) : n \in Shown(s, q) \/ n = k
    BY <1>7, <2>3, ShownLonger
  <2>6. \A n \in Shown(s, toPage'[p]) : n \in Shown(s, toPage[p]) \/ Low(s, n)'
    BY <1>4, <2>2, <2>3, <2>5
  <2>7. \A i \in 1..Len(q) : Shows(q[i], s) => At(q[i]) <= k
    BY <1>4, <2>4, ElementOfSeq, ShownNat DEF Typed, WiresTyped, Shown
  <2>8. Climbs(s, TRUE, TRUE, r)
    BY <1>7, <2>3, <2>4, <2>7, ClimbsLonger
  <2>9. \A n \in Grid(p, s)' : Low(s, n) /\ \A j \in Shown(s, toPage'[p]) : n <= j
    BY <1>3, <1>4, <2>4, <2>5
  <2>10. QED
    BY <1>4, <2>6, <2>8, <2>9, RisingStep
<1>8. QED
  BY <1>2, <1>4, <1>5, <1>6, <1>7 DEF Ignored, Passed

-----------------------------------------------------------------------------
(***************************************************************************)
(* What a page shows changes with what it reads.                           *)
(***************************************************************************)
Redrawn(p, s, m) ==
  s \in DOMAIN entries'[p] =>
    IF s \in DOMAIN entries[p]
    THEN \/ entries'[p][s].shown = entries[p][s].shown
         \/ Shows(m, s) /\ entries'[p][s].shown = At(m)
    ELSE entries'[p][s].shown = 0

LEMMA ListRedraws ==
  ASSUME Typed, NEW p \in Pages, NEW s, ReceiveList(p), NEW m, m = Head(toPage[p])
  PROVE  Redrawn(p, s, m)
<1>1. Maps(entries[p], SessionIds, Entry) /\ p \in DOMAIN entries
  BY DEF Typed, PagesTyped
<1> DEFINE mine == entries[p]
           asked == {t \in m.ids : t \in DOMAIN mine => ~mine[t].subscribed}
           restored(t) ==
             IF t \notin DOMAIN mine THEN NewEntry(TRUE)
             ELSE IF t \in asked THEN [mine[t] EXCEPT !.running = TRUE, !.subscribed = TRUE, !.restoring = TRUE]
             ELSE IF t \in m.ids THEN [mine[t] EXCEPT !.running = TRUE]
             ELSE [mine[t] EXCEPT !.running = FALSE, !.subscribed = FALSE]
<1>2. \/ entries' = entries
      \/ entries'[p] = [t \in DOMAIN mine \cup m.ids |-> restored(t)]
  BY <1>1 DEF ReceiveList
<1>3. CASE entries' = entries
  BY <1>3 DEF Redrawn
<1>4. CASE entries'[p] = [t \in DOMAIN mine \cup m.ids |-> restored(t)]
  <2>1. s \in DOMAIN entries'[p] => entries'[p][s] = restored(s)
    BY <1>4
  <2>2. CASE s \in DOMAIN mine
    <3>1. PICK e : e = mine[s]
      OBVIOUS
    <3>2. e \in Entry
      BY <1>1, <2>2, <3>1, EntryIn
    <3>3. PICK f : f = restored(s)
      OBVIOUS
    <3>4. f = IF s \in asked THEN [e EXCEPT !.running = TRUE, !.subscribed = TRUE, !.restoring = TRUE]
              ELSE IF s \in m.ids THEN [e EXCEPT !.running = TRUE]
              ELSE [e EXCEPT !.running = FALSE, !.subscribed = FALSE]
      BY <2>2, <3>1, <3>3
    <3> HIDE DEF asked
    <3>5. f.shown = e.shown
      BY <3>2, <3>4 DEF Entry
    <3> HIDE DEF restored
    <3>6. QED
      BY <2>1, <2>2, <3>1, <3>3, <3>5 DEF Redrawn
  <2>3. CASE s \notin DOMAIN mine
    <3>1. restored(s) = NewEntry(TRUE) /\ NewEntry(TRUE).shown = 0
      BY <2>3 DEF NewEntry
    <3> HIDE DEF restored
    <3>2. QED
      BY <2>1, <2>3, <3>1 DEF Redrawn
  <2>4. QED
    BY <2>2, <2>3
<1>5. QED
  BY <1>2, <1>3, <1>4

LEMMA PageRedraws ==
  ASSUME Typed, NEW p \in Pages, NEW s, PageReceives(p), NEW m, m = Head(toPage[p])
  PROVE  Redrawn(p, s, m)
<1>1. CASE ReceiveList(p)
  BY <1>1, ListRedraws
<1>2. CASE ~ReceiveList(p)
  <2>1. Turns(p, s, m)
    BY ReceivesTurns
  <2>2. m.is # "list"
    BY <1>2 DEF PageReceives, ReceiveStatus, ReceiveReady, ReceiveEvent, ReceiveOutput, ReceiveDump, Receive
  <2>3. ~Names(m, s)
    BY <2>2 DEF Names
  <2>4. \A up, e, f : Shifts(s, up, e, m, f) => f.shown = e.shown \/ (Shows(m, s) /\ f.shown = At(m))
    BY <2>3 DEF Shifts
  <2>5. QED
    BY <2>1, <2>3, <2>4 DEF Turns, Appears, Redrawn
<1>3. QED
  BY <1>1, <1>2

\* What a page shows of s is never taken back.
Kept(p, s) ==
  s \in DOMAIN entries[p] /\ s \in DOMAIN entries'[p] => entries'[p][s].shown >= entries[p][s].shown

LEMMA ShownIs ==
  ASSUME Typed, NEW p \in Pages, NEW s \in DOMAIN entries[p]
  PROVE  entries[p][s].shown \in Nat /\ entries[p][s].shown \in Grid(p, s)
<1>1. entries[p][s] \in Entry
  BY EntryIn DEF Typed, PagesTyped
<1>2. entries[p][s].shown \in 0..MaxChunks
  BY <1>1 DEF Entry
<1>3. entries[p][s].shown \in Nat
  BY <1>2, Bounds
<1>4. QED
  BY <1>3 DEF Grid

LEMMA RisingReads ==
  ASSUME Typed, NEW s \in SessionIds, Lasts(s), NEW p \in Pages, Rising(p, s), PageReceives(p)
  PROVE  Rising(p, s)' /\ Kept(p, s)
<1>1. PICK m : m = Head(toPage[p])
  OBVIOUS
<1>2. Redrawn(p, s, m)
  BY <1>1, PageRedraws
<1>3. PICK q, r : q = toPage[p] /\ r = toPage'[p]
  OBVIOUS
<1>4. Window(r, q, 1) /\ Len(q) > 0 /\ m \in AgentMessage /\ q[1] = m
  BY <1>1, <1>3, ReceivesIs, ReceiveQueues
<1>5. Len(q) \in Nat /\ Len(r) \in Nat /\ 1 \in 1..Len(q) /\ \A i \in 1..Len(r) : r[i] = q[1 + i] /\ 1 + i \in 1..Len(q) /\ 1 < 1 + i
  BY <1>4 DEF Window
<1>6. Adds(s, q, r)
  BY <1>4, AddsWindow
<1>7. /\ \A n \in Grid(p, s) \cup Shown(s, q) : Low(s, n)
      /\ Climbs(s, TRUE, TRUE, q)
      /\ \A n \in Grid(p, s), k \in Shown(s, q) : n <= k
  BY <1>3 DEF Rising
<1>8. Climbs(s, TRUE, TRUE, r) /\ \A k \in Shown(s, r) : k \in Shown(s, q) /\ k \in Nat
  BY <1>6, <1>7 DEF Adds, Shown
<1>9. PICK a : a = At(m)
  OBVIOUS
<1>10. ASSUME Shows(m, s) PROVE a \in Shown(s, q) /\ \A k \in Shown(s, r) : a <= k
  BY <1>4, <1>5, <1>7, <1>9, <1>10, ShownNat DEF Shown, Counts, Climbs
<1>11. ASSUME NEW n \in Grid(p, s)' PROVE n \in Grid(p, s) \/ (Shows(m, s) /\ n = a) \/ n = 0
  BY <1>2, <1>9, <1>11 DEF Redrawn, Grid
<1>12. ASSUME NEW n \in Grid(p, s)' PROVE Low(s, n) /\ \A k \in Shown(s, r) : n <= k
  BY <1>7, <1>8, <1>10, <1>11, <1>12, LowZero
<1>13. Rising(p, s)'
  BY <1>3, <1>8, <1>12, RisingStep
<1>14. Kept(p, s)
  BY <1>2, <1>7, <1>9, <1>10, ShownIs DEF Kept, Redrawn, Shown
<1>15. QED
  BY <1>13, <1>14

\* The user, and the connection of a page.
LEMMA RisingSame ==
  ASSUME Typed, NEW s \in SessionIds, Lasts(s), NEW p \in Pages, Rising(p, s), Adds(s, toPage[p], toPage'[p]),
         s \in DOMAIN entries'[p] => s \in DOMAIN entries[p] /\ entries'[p][s].shown = entries[p][s].shown
  PROVE  Rising(p, s)' /\ Kept(p, s)
BY ShownIs, RisingAdds DEF Grid, Kept

LEMMA RisingPage ==
  ASSUME Typed, NEW s \in SessionIds, Birth(s), Lasts(s), NEW o \in Pages, PageStep(o), NEW p \in Pages, Rising(p, s)
  PROVE  Rising(p, s)' /\ Kept(p, s)
<1>1. CASE o # p
  BY <1>1, Own, AddsSame, RisingSame
<1>2. p \in DOMAIN entries /\ Maps(entries[p], SessionIds, Entry) /\ p \in DOMAIN toPage
  BY DEF Typed, PagesTyped, WiresTyped
<1>3. CASE Connect(p)
  <2>1. entries' = entries /\ toPage'[p] = <<Status(agents # {})>>
    BY <1>2, <1>3 DEF Connect, viewVars
  <2>2. PICK b, r, m : b = (agents # {}) /\ r = toPage'[p] /\ m = Status(b)
    OBVIOUS
  <2>3. r = <<m>> /\ ~Shows(m, s)
    BY <2>1, <2>2 DEF Status, Shows
  <2>4. Len(r) = 1 /\ \A i \in 1..1 : i = 1 /\ ~Shows(r[i], s)
    BY <2>3
  <2>5. Shown(s, r) = {} /\ Climbs(s, TRUE, TRUE, r)
    BY <2>4 DEF Shown, Climbs
  <2>6. Adds(s, toPage[p], r)
    BY <2>5 DEF Adds
  <2>7. QED
    BY <2>1, <2>2, <2>6, RisingSame
<1>4. CASE Disconnect(p)
  <2>1. entries'[p] = Unsubscribed(entries[p]) /\ toPage'[p] = <<>>
    BY <1>2, <1>4 DEF Disconnect
  <2>2. ASSUME s \in DOMAIN entries[p] PROVE entries'[p][s].shown = entries[p][s].shown
    <3>1. entries[p][s] \in Entry
      BY <1>2, <2>2, EntryIn
    <3>2. entries'[p][s] = [entries[p][s] EXCEPT !.subscribed = FALSE]
      BY <2>1, <2>2 DEF Unsubscribed
    <3>3. QED
      BY <3>1, <3>2 DEF Entry
  <2>3. DOMAIN entries'[p] = DOMAIN entries[p]
    BY <2>1 DEF Unsubscribed
  <2>4. PICK r : r = toPage'[p]
    OBVIOUS
  <2>5. Len(r) = 0
    BY <2>1, <2>4
  <2>6. Shown(s, r) = {} /\ Climbs(s, TRUE, TRUE, r)
    BY <2>5 DEF Shown, Climbs
  <2>7. Adds(s, toPage[p], toPage'[p])
    BY <2>4, <2>6 DEF Adds
  <2>8. QED
    BY <2>2, <2>3, <2>7, RisingSame
<1>5. ASSUME NEW t \in SessionIds, NewSession(p, t) PROVE Rising(p, s)' /\ Kept(p, s)
  <2>1. entries'[p] = Put(entries[p], t, NewEntry(FALSE)) /\ toPage' = toPage /\ t \notin drawn
    BY <1>2, <1>5 DEF NewSession
  <2>2. Adds(s, toPage[p], toPage'[p])
    BY <2>1, AddsSame
  <2>3. CASE t = s
    <3>1. s \notin DOMAIN entries[p]
      BY <2>1, <2>3 DEF Birth, Unborn
    <3>2. NoTrace(s)
      BY <2>1, <2>3 DEF Birth, Unborn
    <3>3. entries'[p][s].shown = 0
      BY <2>1, <2>3 DEF Put, NewEntry
    <3>4. PICK q : q = toPage[p]
      OBVIOUS
    <3>5. Shown(s, q) = {}
      BY <3>2, <3>4 DEF NoTrace, Blank, Msgs, Shown
    <3>6. \A n \in Grid(p, s)' : n = 0
      BY <3>3 DEF Grid
    <3>7. \A n \in Grid(p, s)' : Low(s, n)
      BY <3>6, LowZero
    <3>8. Climbs(s, TRUE, TRUE, toPage'[p]) /\ Shown(s, toPage'[p]) = {}
      BY <2>1, <3>4, <3>5 DEF Rising
    <3>9. Rising(p, s)'
      BY <3>7, <3>8, RisingStep
    <3>10. QED
      BY <3>1, <3>9 DEF Kept
  <2>4. CASE t # s
    BY <2>1, <2>2, <2>4, RisingSame DEF Put
  <2>5. QED
    BY <2>3, <2>4
<1>6. ASSUME NEW t \in SessionIds, CloseTab(p, t) PROVE Rising(p, s)' /\ Kept(p, s)
  BY <1>2, <1>6, AddsSame, RisingSame DEF CloseTab, Without, Restrict
<1>7. CASE o = p
  BY <1>3, <1>4, <1>5, <1>6, <1>7, RisingReads DEF PageStep
<1>8. QED
  BY <1>1, <1>7

\* Every step.
LEMMA RisingNext ==
  ASSUME Typed, Wired, "exitgap" \notin Races, "stale" \notin Races, NEW s \in SessionIds, Birth(s), Rise(s),
         NEW p \in Pages, Rising(p, s), [Next]_vars
  PROVE  Rising(p, s)' /\ Kept(p, s)
<1>1. Lasts(s)
  BY LastsNext
<1>2. CASE \E o \in Pages : PageStep(o)
  BY <1>1, <1>2, RisingPage
<1>3. CASE ~\E o \in Pages : PageStep(o)
  <2>1. UNCHANGED entries
    BY <1>3, EntriesKept
  <2>2. ASSUME Adds(s, toPage[p], toPage'[p]) PROVE Rising(p, s)' /\ Kept(p, s)
    BY <1>1, <2>1, <2>2, RisingSame
  <2>3. ASSUME UNCHANGED toPage PROVE Rising(p, s)' /\ Kept(p, s)
    BY <2>2, <2>3, AddsSame
  <2>4. CASE UNCHANGED vars
    BY <2>3, <2>4 DEF vars, wireVars
  <2>5. CASE AgentStep
    <3>1. AgentOnly
      BY <2>5 DEF AgentStep, AgentSend, AgentDrop, Dispatch, Spawn, Kill, Resize, DumpScrollback, Relist, Dispatched,
                  FinishSpawn, Produce, Exit, Reader, ReportEnd, Forget
    <3>2. QED
      BY <2>3, <3>1 DEF AgentOnly
  <2>6. ASSUME NEW c \in Conns, OnSessionMessage(c) PROVE Rising(p, s)' /\ Kept(p, s)
    BY <1>1, <2>1, <2>6, RisingMessage, ShownIs DEF Kept
  <2>7. ASSUME NEW c \in Conns, OnSessionList(c) \/ OnReady(c) \/ Unregister(c) PROVE Rising(p, s)' /\ Kept(p, s)
    BY <2>2, <2>7, AddsServer
  <2>8. CASE AgentConnect
    BY <2>2, <2>8, AddsServer
  <2>9. ASSUME NEW c \in Conns, SendPing(c) PROVE Rising(p, s)' /\ Kept(p, s)
    BY <2>3, <2>9 DEF SendPing
  <2>10. ASSUME NEW o \in Pages, OnSpawnSession(o) \/ OnSessionCommand(o) \/ OnListSessions(o)
         PROVE  Rising(p, s)' /\ Kept(p, s)
    BY <2>2, <2>10, AddsCommanded
  <2>11. QED
    BY <1>3, <2>4, <2>5, <2>6, <2>7, <2>8, <2>9, <2>10 DEF Next, ServerStep, Reap, ServerHangup, AgentStep, PageStep
<1>4. QED
  BY <1>2, <1>3

-----------------------------------------------------------------------------
(***************************************************************************)
(* What a page shows is never taken back.                                  *)
(***************************************************************************)
Orderly(s) == Birth(s) /\ Rise(s) /\ \A p \in Pages : Rising(p, s)
RetainInv == Typed /\ Wired /\ \A s \in SessionIds : Orderly(s)

LEMMA RetainInit == Init => RetainInv
BY MapsEmpty, BirthInit, RiseInit, TypedInit, WiredInit DEF Init, Shown, Climbs, Rising, Grid, Orderly,
   RetainInv

LEMMA RetainNext ==
  ASSUME "exitgap" \notin Races, "stale" \notin Races
  PROVE  RetainInv /\ [Next]_vars => RetainInv' /\ \A p \in Pages, s \in SessionIds : Kept(p, s)
<1>1. SUFFICES ASSUME RetainInv, [Next]_vars
               PROVE  RetainInv' /\ \A p \in Pages, s \in SessionIds : Kept(p, s)
  OBVIOUS
<1>2. Typed /\ Wired
  BY <1>1 DEF RetainInv
<1>3. Typed' /\ Wired'
  BY <1>1, <1>2, TypedNext, WiredNext
<1>4. ASSUME NEW s \in SessionIds PROVE Orderly(s)' /\ \A p \in Pages : Kept(p, s)
  <2>1. Birth(s) /\ Rise(s) /\ \A p \in Pages : Rising(p, s)
    BY <1>1 DEF RetainInv, Orderly
  <2>2. Birth(s)'
    BY <1>1, <1>2, <2>1, BirthNext
  <2>3. Rise(s)'
    <3>1. Lasts(s)
      BY <1>1, <1>2, <2>1, LastsNext
    <3>2. QED
      BY <3>1 DEF Lasts
  <2>4. ASSUME NEW p \in Pages PROVE Rising(p, s)' /\ Kept(p, s)
    BY <1>1, <1>2, <2>1, RisingNext
  <2>5. QED
    BY <2>2, <2>3, <2>4 DEF Orderly
<1>5. QED
  BY <1>3, <1>4 DEF RetainInv

\* If the agent lists no session whose end it has told, and the server hears from
\* the agent's connections in the order they were made, no step takes back output
\* that a tab shows, whatever is lost or replayed on the way and however long the
\* tab stays open (connect_manager.rs, agent_message; pty_manager.rs, output_lock;
\* sessions.rs, output).
THEOREM OutputRetained ==
  ASSUME "exitgap" \notin Races, "stale" \notin Races
  PROVE  Spec => Retained
<1>1. Init => RetainInv
  BY RetainInit
<1>2. RetainInv /\ [Next]_vars => RetainInv'
  BY RetainNext
<1>3. RetainInv /\ [Next]_vars =>
        [\A p \in Pages : \A s \in DOMAIN entries[p] \cap DOMAIN entries'[p] :
           entries'[p][s].shown >= entries[p][s].shown]_vars
  BY RetainNext DEF RetainInv, Typed, PagesTyped, Maps, Kept
<1>4. QED
  BY <1>1, <1>2, <1>3, PTL DEF Spec, Retained

=============================================================================
