----------------------- MODULE GitHubConnectionProofs -----------------------
(***************************************************************************)
(* What GitHubConnection.tla keeps for every value of its constants: any   *)
(* repositories, authorizations, number of events and scenario.            *)
(***************************************************************************)
EXTENDS GitHubConnection, TLAPS

-----------------------------------------------------------------------------
(***************************************************************************)
(* The inductive invariant.  A generation that was read is no newer than   *)
(* the row's; if it is the row's, what was read with it still holds.       *)
(***************************************************************************)
\* A handler, with the event it handles, a row and a number of changes.
JobOK(x, ev, w, n) ==
  /\ x \in JobType
  /\ x.stage # "idle" => ev.kind # "none"
  /\ x.gen <= w.gen
  /\ x.stage = "record" /\ x.go => w.there
  /\ x.stage \in {"change", "scope", "delta", "begin", "cache"} => w.there
  /\ x.stage \in {"asking", "commenting"} => Allows(w, ev.repo)
  /\ (x.stage \in {"asking", "cache"} /\ x.gen = w.gen /\ Active(w)) => x.asof = n
  /\ x.stage = "cache" /\ w.pending => x.gen < w.gen

\* An authorization, with a row and a number of stops.
FlowOK(x, w, n) ==
  /\ x \in FlowType
  /\ x.action = "reconnect" =>
       /\ w.there /\ x.expected <= w.gen
       /\ x.expected = w.gen => x.seen = n
  /\ \A g \in x.archived : w.there /\ g <= w.gen /\ (g = w.gen => x.seen = n)

\* An event that is not recorded has not been dispatched.
Counted == \A e \in Events : ran[e] <= 1 /\ (e \notin recorded => ran[e] = 0)

RowOK(w, n) ==
  /\ w \in RowType
  /\ ~w.there => w = NoRow
  /\ w.token # {} => Active(w) /\ w.token = {n}

\* What needs no induction of its own.
Simple ==
  /\ left \in [Moves -> Nat]
  /\ git \in [scope : Scope, suspended : BOOLEAN, gone : BOOLEAN]
  /\ event \in [Events -> EventType]
  /\ recorded \in SUBSET Events
  /\ effects \in [Repos -> SUBSET {"link", "commit", "activity", "status"}]
  /\ ran \in [Events -> Nat]
  /\ changes \in Nat /\ stops \in Nat /\ stray \in BOOLEAN

JobsOK == /\ job \in [Jobs -> JobType]
          /\ \A j \in Jobs : JobOK(job[j], event[j[1]], row, changes)
FlowsOK == /\ flow \in [Flows -> FlowType]
           /\ \A f \in Flows : FlowOK(flow[f], row, stops)

Inv == Simple /\ RowOK(row, changes) /\ JobsOK /\ FlowsOK /\ Counted

-----------------------------------------------------------------------------
(***************************************************************************)
(* The invariant implies the state properties.                             *)
(***************************************************************************)
LEMMA InvImplies == Inv => TypeOK /\ Once /\ OutboundAllowed /\ TokenCurrent
<1> SUFFICES ASSUME Inv PROVE TypeOK /\ Once /\ OutboundAllowed /\ TokenCurrent
  OBVIOUS
<1> USE DEF Inv
<1>1. TypeOK
  BY DEF Simple, RowOK, JobsOK, FlowsOK, TypeOK
<1>2. Once
  BY DEF Counted, Once
<1>3. OutboundAllowed
  BY DEF JobsOK, JobOK, OutboundAllowed, Outbound, Repo
<1>4. TokenCurrent
  BY DEF RowOK, TokenCurrent
<1>5. QED
  BY <1>1, <1>2, <1>3, <1>4

-----------------------------------------------------------------------------
(***************************************************************************)
(* What changes of a handler, of the row and of an authorization do to     *)
(* the others.                                                             *)
(***************************************************************************)
LEMMA Pairs == \A j \in Jobs : j[1] \in Events
BY DEF Jobs

\* Stages that ask nothing of the row.
Passive == {"sent", "details", "list", "finish", "pr", "link", "activity", "rules",
            "notify", "token", "ask", "status", "comment", "done"}

LEMMA Moved ==
  ASSUME NEW x \in JobType, NEW ev, NEW w, NEW n,
         ev.kind # "none", x.stage \in Passive, x.gen <= w.gen
  PROVE  JobOK(x, ev, w, n)
BY DEF JobOK, Passive

LEMMA DoneOK ==
  ASSUME NEW ev, NEW w \in RowType, NEW n, ev.kind # "none"
  PROVE  JobOK(Done, ev, w, n)
<1>1. Done \in JobType /\ Done.stage = "done" /\ Done.gen = 0
  BY DEF Done, NewJob, JobType, Stages, Scope, AllRepos
<1>2. QED
  BY <1>1 DEF JobOK, RowType

\* One handler changes, and those that do not change fit the new state.
LEMMA OneJob ==
  ASSUME NEW j \in Jobs, NEW x, job \in [Jobs -> JobType],
         job' = [job EXCEPT ![j] = x],
         JobOK(x, event'[j[1]], row', changes'),
         \A i \in Jobs : i # j => JobOK(job[i], event'[i[1]], row', changes')
  PROVE  JobsOK'
<1>1. x \in JobType
  BY DEF JobOK
<1>2. job' \in [Jobs -> JobType]
  BY <1>1
<1>3. \A i \in Jobs : job'[i] = IF i = j THEN x ELSE job[i]
  OBVIOUS
<1>4. ASSUME NEW i \in Jobs PROVE JobOK(job'[i], event'[i[1]], row', changes')
  <2>1. CASE i = j
    BY <1>3, <2>1
  <2>2. CASE i # j
    BY <1>3, <2>2
  <2>3. QED
    BY <2>1, <2>2
<1>5. QED
  BY <1>2, <1>4 DEF JobsOK

LEMMA OneFlow ==
  ASSUME NEW f \in Flows, NEW x, flow \in [Flows -> FlowType],
         flow' = [flow EXCEPT ![f] = x],
         FlowOK(x, row', stops'),
         \A g \in Flows : g # f => FlowOK(flow[g], row', stops')
  PROVE  FlowsOK'
<1>1. x \in FlowType
  BY DEF FlowOK
<1>2. flow' \in [Flows -> FlowType]
  BY <1>1
<1>3. \A g \in Flows : flow'[g] = IF g = f THEN x ELSE flow[g]
  OBVIOUS
<1>4. ASSUME NEW g \in Flows PROVE FlowOK(flow'[g], row', stops')
  <2>1. CASE g = f
    BY <1>3, <2>1
  <2>2. CASE g # f
    BY <1>3, <2>2
  <2>3. QED
    BY <2>1, <2>2
<1>5. QED
  BY <1>2, <1>4 DEF FlowsOK

\* A new generation of the row leaves no handler and no authorization with the
\* row's generation.
LEMMA NewGeneration ==
  ASSUME Inv, Free, NEW w \in RowType, w.there, w.gen = row.gen + 1, w.token = {},
         NEW n \in Nat, NEW m \in Nat
  PROVE  /\ RowOK(w, n)
         /\ \A i \in Jobs : JobOK(job[i], event[i[1]], w, n)
         /\ \A f \in Flows : FlowOK(flow[f], w, m)
<1>1. RowOK(w, n)
  BY DEF RowOK
<1>2. row.gen \in Nat
  BY DEF Inv, RowOK, RowType
<1>3. ASSUME NEW i \in Jobs PROVE JobOK(job[i], event[i[1]], w, n)
  <2>1. JobOK(job[i], event[i[1]], row, changes)
    BY DEF Inv, JobsOK
  <2>2. job[i].stage \notin {"asking", "commenting"}
    BY DEF Free, Outbound
  <2>3. job[i].gen \in Nat
    BY <2>1 DEF JobOK, JobType
  <2>4. job[i].gen < w.gen /\ job[i].gen <= w.gen
    BY <1>2, <2>1, <2>3 DEF JobOK
  <2>5. job[i].gen # w.gen
    BY <2>3, <2>4, <1>2
  <2>6. QED
    BY <2>1, <2>2, <2>4, <2>5 DEF JobOK
<1>4. ASSUME NEW f \in Flows PROVE FlowOK(flow[f], w, m)
  <2>1. FlowOK(flow[f], row, stops)
    BY DEF Inv, FlowsOK
  <2>2. flow[f].expected \in Nat /\ flow[f].archived \subseteq Nat
    BY <2>1 DEF FlowOK, FlowType
  <2>3. QED
    BY <1>2, <2>1, <2>2 DEF FlowOK
<1>5. QED
  BY <1>1, <1>3, <1>4

\* While the row and the events stay, only what moved has to be looked at.
LEMMA QuietJob ==
  ASSUME Inv, NEW j \in Jobs, NEW x, job' = [job EXCEPT ![j] = x],
         UNCHANGED <<event, row, changes>>,
         JobOK(x, event[j[1]], row, changes)
  PROVE  JobsOK' /\ RowOK(row, changes)'
<1>1. \A i \in Jobs : JobOK(job[i], event[i[1]], row, changes)
  BY DEF Inv, JobsOK
<1>2. job \in [Jobs -> JobType]
  BY DEF Inv, JobsOK
<1>3. JobOK(x, event'[j[1]], row', changes')
  OBVIOUS
<1>4. \A i \in Jobs : i # j => JobOK(job[i], event'[i[1]], row', changes')
  BY <1>1
<1>5. JobsOK'
  BY <1>2, <1>3, <1>4, OneJob
<1>6. QED
  BY <1>5 DEF Inv, RowOK

LEMMA QuietFlows ==
  ASSUME Inv, UNCHANGED <<flow, row, stops>>
  PROVE  FlowsOK'
BY DEF Inv, FlowsOK, FlowOK

\* A handler under way: what its event, its record and its row are.
LEMMA Underway ==
  ASSUME Inv, NEW j \in Jobs, job[j].stage # "idle"
  PROVE  /\ job[j] \in JobType
         /\ event[j[1]] \in EventType /\ event[j[1]].kind # "none"
         /\ j[1] \in Events
         /\ JobOK(job[j], event[j[1]], row, changes)
         /\ job[j].gen <= row.gen
         /\ row \in RowType /\ row.gen \in Nat
<1>1. JobOK(job[j], event[j[1]], row, changes)
  BY DEF Inv, JobsOK
<1>2. j[1] \in Events
  BY Pairs
<1>3. row \in RowType /\ row.gen \in Nat
  BY DEF Inv, RowOK, RowType
<1>4. QED
  BY <1>1, <1>2, <1>3 DEF Inv, Simple, JobOK

\* Ending a handler, or moving it to a stage that asks nothing of the row.
LEMMA EndQuiet ==
  ASSUME Inv, NEW j \in Jobs, job[j].stage # "idle", End(j),
         UNCHANGED <<event, row, changes>>
  PROVE  JobsOK' /\ RowOK(row, changes)'
BY Underway, DoneOK, QuietJob DEF End

LEMMA GotoQuiet ==
  ASSUME Inv, NEW j \in Jobs, job[j].stage # "idle", NEW s \in Passive, Goto(j, s),
         UNCHANGED <<event, row, changes>>
  PROVE  JobsOK' /\ RowOK(row, changes)'
<1> DEFINE x == [job[j] EXCEPT !.stage = s]
<1>1. job' = [job EXCEPT ![j] = x]
  BY DEF Goto
<1>2. x \in JobType /\ x.stage = s /\ x.gen = job[j].gen
  BY Underway DEF JobType, Passive, Stages
<1>3. JobOK(x, event[j[1]], row, changes)
  BY <1>2, Underway, Moved
<1>4. QED
  BY <1>1, <1>3, QuietJob

-----------------------------------------------------------------------------
LEMMA InitInv == Init => Inv
<1> SUFFICES ASSUME Init PROVE Inv
  OBVIOUS
<1>1. AllRepos \in Scope /\ \A R \in SUBSET Repos : Selected(R) \in Scope
  BY DEF AllRepos, Selected, Scope
<1>2. Blank \in EventType
  BY DEF Blank, EventType, Kinds
<1>3. Simple
  <2>1. left \in [Moves -> Nat]
    BY GitHubConnectionAssumption DEF Init
  <2>2. git \in [scope : Scope, suspended : BOOLEAN, gone : BOOLEAN]
    <3>1. PICK s \in {AllRepos} \cup {Selected(R) : R \in SUBSET Repos} :
            git = [scope |-> s, suspended |-> FALSE, gone |-> FALSE]
      BY DEF Init
    <3>2. s \in Scope
      BY <1>1, <3>1
    <3>3. QED
      BY <3>1, <3>2
  <2>3. event \in [Events -> EventType]
    BY <1>2 DEF Init
  <2>4. /\ recorded \in SUBSET Events /\ ran \in [Events -> Nat]
        /\ effects \in [Repos -> SUBSET {"link", "commit", "activity", "status"}]
        /\ changes \in Nat /\ stops \in Nat /\ stray \in BOOLEAN
    BY DEF Init
  <2>5. QED
    BY <2>1, <2>2, <2>3, <2>4 DEF Simple
<1>4. PICK s \in {AllRepos} \cup {Selected(R) : R \in SUBSET Repos}, start \in Starts :
        row = FirstRow(start, s)
  BY DEF Init
<1>5. s \in Scope
  BY <1>1, <1>4
<1>6. NoRow \in RowType /\ NoRow.token = {} /\ NoRow.gen = 0
  BY <1>1 DEF NoRow, RowType
<1>7. row \in RowType /\ row.token = {} /\ row.gen = 0 /\ (~row.there => row = NoRow)
  <2>1. CASE start = "none"
    BY <2>1, <1>4, <1>6 DEF FirstRow
  <2>2. CASE start # "none"
    <3>1. row = [NoRow EXCEPT !.there = TRUE, !.verified = (start = "live"), !.scope = s]
      BY <2>2, <1>4 DEF FirstRow
    <3>2. QED
      BY <3>1, <1>5, <1>6 DEF NoRow, RowType
  <2>3. QED
    BY <2>1, <2>2
<1>8. RowOK(row, changes)
  BY <1>7 DEF RowOK
<1>9. JobsOK
  <2>1. NewJob \in JobType /\ NewJob.stage = "idle" /\ NewJob.gen = 0
    BY <1>1 DEF NewJob, JobType, Stages
  <2>2. job = [j \in Jobs |-> NewJob]
    BY DEF Init
  <2>3. QED
    BY <1>7, <2>1, <2>2 DEF JobsOK, JobOK
<1>10. FlowsOK
  <2>1. NewFlow \in FlowType /\ NewFlow.action = "connect" /\ NewFlow.archived = {}
    BY <1>1 DEF NewFlow, FlowType
  <2>2. flow = [f \in Flows |-> NewFlow]
    BY DEF Init
  <2>3. QED
    BY <2>1, <2>2 DEF FlowsOK, FlowOK
<1>11. Counted
  BY DEF Init, Counted
<1>12. QED
  BY <1>3, <1>8, <1>9, <1>10, <1>11 DEF Inv

-----------------------------------------------------------------------------
(***************************************************************************)
(* GitHub, its users and ours.                                             *)
(***************************************************************************)
\* A budget that is spent.
LEMMA Spent ==
  ASSUME Inv, NEW m \in Moves, Spend(m)
  PROVE  left' \in [Moves -> Nat]
<1>1. left \in [Moves -> Nat]
  BY DEF Inv, Simple
<1>2. left[m] \in Nat /\ left[m] > 0
  BY <1>1 DEF Spend
<1>3. left[m] - 1 \in Nat
  BY <1>2
<1>4. QED
  BY <1>1, <1>3 DEF Spend

\* A handler of a new event, in a stage that asks nothing.
LEMMA NewEvent ==
  ASSUME Inv, NEW e \in Events, Fresh(e), NEW ev \in EventType, ev.kind # "none",
         event' = [event EXCEPT ![e] = ev], NEW s \in {"sent", "notify"},
         job' = [job EXCEPT ![<<e, 1>>].stage = s],
         UNCHANGED <<row, changes, flow, stops>>
  PROVE  JobsOK' /\ RowOK(row, changes)' /\ FlowsOK' /\ event' \in [Events -> EventType]
<1> DEFINE j == <<e, 1>>
<1> DEFINE x == [job[j] EXCEPT !.stage = s]
<1>1. j \in Jobs /\ j[1] = e
  BY DEF Jobs
<1>2. event \in [Events -> EventType] /\ job \in [Jobs -> JobType]
  BY DEF Inv, Simple, JobsOK
<1>3. \A i \in Jobs : JobOK(job[i], event[i[1]], row, changes)
  BY DEF Inv, JobsOK
<1>4. event' \in [Events -> EventType]
  BY <1>2
<1>5. job' = [job EXCEPT ![j] = x]
  OBVIOUS
<1>6. x \in JobType /\ x.stage = s /\ x.gen = job[j].gen
  BY <1>1, <1>2 DEF JobType, Stages
<1>7. JobOK(x, event'[j[1]], row', changes')
  <2>1. event'[j[1]].kind # "none"
    BY <1>1, <1>2
  <2>2. x.gen <= row.gen
    BY <1>1, <1>3, <1>6 DEF JobOK
  <2>3. QED
    BY <2>1, <2>2, <1>6, Moved DEF Passive
<1>8. ASSUME NEW i \in Jobs, i # j PROVE JobOK(job[i], event'[i[1]], row', changes')
  <2>1. CASE i[1] = e
    <3>1. event[i[1]].kind = "none"
      BY <2>1 DEF Fresh
    <3>2. job[i].stage = "idle"
      BY <3>1, <1>3 DEF JobOK
    <3>3. QED
      BY <3>2, <1>3 DEF JobOK
  <2>2. CASE i[1] # e
    <3>1. event'[i[1]] = event[i[1]]
      BY <2>2, <1>2, Pairs
    <3>2. QED
      BY <3>1, <1>3
  <2>3. QED
    BY <2>1, <2>2
<1> HIDE DEF j, x
<1>9. JobsOK'
  BY <1>1, <1>2, <1>5, <1>7, <1>8, OneJob
<1>10. FlowsOK'
  BY QuietFlows
<1>11. QED
  BY <1>4, <1>9, <1>10 DEF Inv, RowOK

LEMMA BlankOK == Blank \in EventType /\ AllRepos \in Scope /\ NewFlow \in FlowType
BY DEF Blank, EventType, Kinds, AllRepos, Scope, NewFlow, FlowType

\* What the actions of GitHub and the completion of an issue have in common.
LEMMA NewEventInv ==
  ASSUME Inv, NEW e \in Events, Fresh(e), NEW ev \in EventType, ev.kind # "none",
         event' = [event EXCEPT ![e] = ev], NEW s \in {"sent", "notify"},
         job' = [job EXCEPT ![<<e, 1>>].stage = s], NEW m \in Moves, Spend(m),
         git' \in [scope : Scope, suspended : BOOLEAN, gone : BOOLEAN],
         UNCHANGED <<recorded, row, flow, effects, history>>
  PROVE  Inv'
<1>1. UNCHANGED <<row, changes, flow, stops, ran, stray>>
  BY DEF history
<1>2. JobsOK' /\ RowOK(row, changes)' /\ FlowsOK' /\ event' \in [Events -> EventType]
  BY <1>1, NewEvent
<1>3. left' \in [Moves -> Nat]
  BY Spent
<1>4. Simple'
  BY <1>1, <1>2, <1>3 DEF Inv, Simple
<1>5. Counted'
  BY <1>1 DEF Inv, Counted
<1>6. QED
  BY <1>2, <1>4, <1>5 DEF Inv

LEMMA SentInv ==
  ASSUME Inv, NEW ev \in EventType, ev.kind # "none", Send(ev), NEW m \in Moves, Spend(m),
         git' \in [scope : Scope, suspended : BOOLEAN, gone : BOOLEAN],
         UNCHANGED <<recorded, row, flow, effects, history>>
  PROVE  Inv'
<1>1. PICK e \in Events : /\ Fresh(e)
                          /\ event' = [event EXCEPT ![e] = ev]
                          /\ job' = [job EXCEPT ![<<e, 1>>].stage = "sent"]
  BY DEF Send
<1>2. QED
  BY <1>1, NewEventInv

LEMMA GitHubInv == ASSUME Inv, GitHub PROVE Inv'
<1>0. git \in [scope : Scope, suspended : BOOLEAN, gone : BOOLEAN]
  BY DEF Inv, Simple
<1>1. CASE ChangeScope
  <2>1. PICK s \in {AllRepos} \cup {Selected(R) : R \in SUBSET Repos} :
          /\ git' = [git EXCEPT !.scope = s]
          /\ Send([Blank EXCEPT !.kind = "repos", !.sel = s.sel,
                                !.added = s.repos \ git.scope.repos,
                                !.removed = git.scope.repos \ s.repos])
    BY <1>1 DEF ChangeScope
  <2> DEFINE ev == [Blank EXCEPT !.kind = "repos", !.sel = s.sel,
                                 !.added = s.repos \ git.scope.repos,
                                 !.removed = git.scope.repos \ s.repos]
  <2>2. s \in Scope
    BY DEF AllRepos, Selected, Scope
  <2>3. s.sel \in {"all", "selected"} /\ s.repos \in SUBSET Repos /\ git.scope.repos \in SUBSET Repos
    BY <1>0, <2>2 DEF Scope
  <2>4. ev \in EventType /\ ev.kind = "repos"
    BY <2>3 DEF Blank, EventType, Kinds
  <2>5. git' \in [scope : Scope, suspended : BOOLEAN, gone : BOOLEAN]
    BY <1>0, <2>1, <2>2
  <2>6. Send(ev) /\ Spend("scope") /\ "scope" \in Moves
    BY <1>1, <2>1 DEF ChangeScope, Moves
  <2>7. UNCHANGED <<recorded, row, flow, effects, history>>
    BY <1>1 DEF ChangeScope
  <2> HIDE DEF ev
  <2>8. QED
    BY <2>4, <2>5, <2>6, <2>7, SentInv
<1>2. CASE SuspendOrNot
  <2> DEFINE ev == [Blank EXCEPT !.kind = IF git.suspended THEN "unsuspend" ELSE "suspend"]
  <2>1. ev \in EventType /\ ev.kind # "none"
    BY BlankOK DEF Blank, EventType, Kinds
  <2>2. git' \in [scope : Scope, suspended : BOOLEAN, gone : BOOLEAN]
    BY <1>0, <1>2 DEF SuspendOrNot
  <2>3. Send(ev) /\ Spend("suspend") /\ "suspend" \in Moves
    BY <1>2 DEF SuspendOrNot, Moves
  <2>4. UNCHANGED <<recorded, row, flow, effects, history>>
    BY <1>2 DEF SuspendOrNot
  <2> HIDE DEF ev
  <2>5. QED
    BY <2>1, <2>2, <2>3, <2>4, SentInv
<1>3. CASE Uninstall
  <2> DEFINE ev == [Blank EXCEPT !.kind = "deleted"]
  <2>1. ev \in EventType /\ ev.kind # "none"
    BY BlankOK DEF Blank, EventType, Kinds
  <2>2. git' \in [scope : Scope, suspended : BOOLEAN, gone : BOOLEAN]
    BY <1>0, <1>3 DEF Uninstall
  <2>3. Send(ev) /\ Spend("uninstall") /\ "uninstall" \in Moves
    BY <1>3 DEF Uninstall, Moves
  <2>4. UNCHANGED <<recorded, row, flow, effects, history>>
    BY <1>3 DEF Uninstall
  <2> HIDE DEF ev
  <2>5. QED
    BY <2>1, <2>2, <2>3, <2>4, SentInv
<1>4. CASE \E r \in Repos, kind \in {"pr", "push"} : Develop(kind, r)
  <2>1. PICK r \in Repos, kind \in {"pr", "push"} : Develop(kind, r)
    BY <1>4
  <2> DEFINE ev == [Blank EXCEPT !.kind = kind, !.repo = {r}]
  <2>2. ev \in EventType /\ ev.kind # "none"
    BY BlankOK DEF Blank, EventType, Kinds
  <2>3. git' \in [scope : Scope, suspended : BOOLEAN, gone : BOOLEAN]
    BY <1>0, <2>1 DEF Develop
  <2>4. Send(ev) /\ Spend(kind) /\ kind \in Moves
    BY <2>1 DEF Develop, Moves
  <2>5. UNCHANGED <<recorded, row, flow, effects, history>>
    BY <2>1 DEF Develop
  <2> HIDE DEF ev
  <2>6. QED
    BY <2>2, <2>3, <2>4, <2>5, SentInv
<1>5. CASE \E e \in Events : Redeliver(e)
  <2>1. PICK e \in Events : Redeliver(e)
    BY <1>5
  <2> DEFINE j == <<e, 2>>
             x == [job[j] EXCEPT !.stage = "sent"]
  <2>2. j \in Jobs /\ j[1] = e
    BY DEF Jobs
  <2>3. job' = [job EXCEPT ![j] = x] /\ UNCHANGED <<event, row, flow, changes, stops>>
    BY <2>1 DEF Redeliver, history
  <2>4. JobOK(job[j], event[e], row, changes) /\ event[e].kind # "none"
    BY <2>1, <2>2 DEF Inv, JobsOK, Redeliver
  <2>5. x \in JobType /\ x.stage = "sent" /\ x.gen <= row.gen
    BY <2>4 DEF JobOK, JobType, Stages
  <2>6. JobOK(x, event[j[1]], row, changes)
    BY <2>2, <2>4, <2>5, Moved DEF Passive
  <2> HIDE DEF j, x
  <2>7. JobsOK' /\ RowOK(row, changes)'
    BY <2>2, <2>3, <2>6, QuietJob
  <2>8. FlowsOK'
    BY <2>3, QuietFlows
  <2>9. left' \in [Moves -> Nat]
    BY <2>1, Spent DEF Redeliver, Moves
  <2>10. Simple' /\ Counted'
    BY <2>1, <2>9 DEF Inv, Simple, Counted, Redeliver, history
  <2>11. QED
    BY <2>7, <2>8, <2>10 DEF Inv
<1>6. CASE \E r \in Repos : CompleteIssue(r)
  <2>1. PICK r \in Repos : CompleteIssue(r)
    BY <1>6
  <2> DEFINE ev == [Blank EXCEPT !.kind = "completed", !.repo = {r}]
  <2>2. ev \in EventType /\ ev.kind # "none"
    BY BlankOK DEF Blank, EventType, Kinds
  <2>3. git' \in [scope : Scope, suspended : BOOLEAN, gone : BOOLEAN]
    BY <1>0, <2>1 DEF CompleteIssue
  <2>4. Spend("complete") /\ "complete" \in Moves
    BY <2>1 DEF CompleteIssue, Moves
  <2>5. PICK e \in Events : /\ Fresh(e)
                            /\ event' = [event EXCEPT ![e] = ev]
                            /\ job' = [job EXCEPT ![<<e, 1>>].stage = "notify"]
    BY <2>1 DEF CompleteIssue
  <2>6. UNCHANGED <<recorded, row, flow, effects, history>>
    BY <2>1 DEF CompleteIssue
  <2> HIDE DEF ev
  <2>7. QED
    BY <2>2, <2>3, <2>4, <2>5, <2>6, NewEventInv
<1>7. QED
  BY <1>1, <1>2, <1>3, <1>4, <1>5, <1>6 DEF GitHub

-----------------------------------------------------------------------------
(***************************************************************************)
(* The webhook handler: the steps that leave the row alone.                *)
(***************************************************************************)
LEMMA QuietInv ==
  ASSUME Inv, JobsOK', UNCHANGED <<git, event, recorded, row, flow, ran, changes, stops>>,
         left' \in [Moves -> Nat], stray' \in BOOLEAN,
         effects' \in [Repos -> SUBSET {"link", "commit", "activity", "status"}]
  PROVE  Inv'
<1>1. FlowsOK'
  BY QuietFlows
<1>2. Simple' /\ Counted' /\ RowOK(row, changes)'
  BY DEF Inv, Simple, Counted, RowOK
<1>3. QED
  BY <1>1, <1>2 DEF Inv

\* Where nothing but the handler changes.
LEMMA OnlyJob ==
  ASSUME Inv, JobsOK', UNCHANGED <<left, git, event, recorded, row, flow, effects, history>>
  PROVE  Inv'
<1>1. UNCHANGED <<ran, changes, stops, stray>>
  BY DEF history
<1>2. QED
  BY <1>1, QuietInv DEF Inv, Simple

LEMMA EffectType ==
  ASSUME Inv, NEW j, NEW what \in {"link", "commit", "activity", "status"}, Effect(j, what)
  PROVE  effects' \in [Repos -> SUBSET {"link", "commit", "activity", "status"}]
BY DEF Inv, Simple, Effect

LEMMA OnWithQuiet ==
  ASSUME Inv, NEW j \in Jobs, job[j].stage # "idle", NEW has \in BOOLEAN, OnWith(j, has),
         UNCHANGED <<event, row, changes>>
  PROVE  JobsOK'
<1>1. CASE event[j[1]].kind = "pr"
  <2> DEFINE x == [job[j] EXCEPT !.stage = "status", !.token = has, !.asof = 0]
  <2>1. job' = [job EXCEPT ![j] = x]
    BY <1>1 DEF OnWith
  <2>2. x \in JobType /\ x.stage = "status" /\ x.gen = job[j].gen
    BY Underway DEF JobType, Stages
  <2>3. JobOK(x, event[j[1]], row, changes)
    BY <2>2, Underway, Moved DEF Passive
  <2>4. QED
    BY <2>1, <2>3, QuietJob
<1>2. CASE event[j[1]].kind # "pr" /\ has
  <2> DEFINE x == [job[j] EXCEPT !.stage = "comment", !.token = TRUE, !.asof = 0]
  <2>1. job' = [job EXCEPT ![j] = x]
    BY <1>2 DEF OnWith
  <2>2. x \in JobType /\ x.stage = "comment" /\ x.gen = job[j].gen
    BY Underway DEF JobType, Stages
  <2>3. JobOK(x, event[j[1]], row, changes)
    BY <2>2, Underway, Moved DEF Passive
  <2>4. QED
    BY <2>1, <2>3, QuietJob
<1>3. CASE event[j[1]].kind # "pr" /\ ~has
  BY <1>3, EndQuiet DEF OnWith
<1>4. QED
  BY <1>1, <1>2, <1>3

\* A handler in a stage that asks nothing, with a generation it has just read.
LEMMA WithGeneration ==
  ASSUME Inv, NEW j \in Jobs, job[j].stage # "idle", NEW s \in Passive,
         job' = [job EXCEPT ![j].stage = s, ![j].gen = row.gen],
         UNCHANGED <<event, row, changes>>
  PROVE  JobsOK'
<1> DEFINE x == [job[j] EXCEPT !.stage = s, !.gen = row.gen]
<1>1. job' = [job EXCEPT ![j] = x]
  OBVIOUS
<1>2. x \in JobType /\ x.stage = s /\ x.gen = row.gen
  BY Underway DEF JobType, Passive, Stages
<1>3. x.gen <= row.gen /\ x.stage \in Passive /\ event[j[1]].kind # "none"
  BY <1>2, Underway
<1>4. JobOK(x, event[j[1]], row, changes)
  BY <1>2, <1>3, Moved
<1>5. QED
  BY <1>1, <1>4, QuietJob

LEMMA ReceiveInv == ASSUME Inv, NEW j \in Jobs, Receive(j) PROVE Inv'
<1>1. job[j].stage = "sent" /\ UNCHANGED <<event, row, changes>>
  BY DEF Receive, history
<1>2. JobsOK'
  <2>1. CASE j[1] \in recorded
    BY <1>1, <2>1, EndQuiet DEF Receive
  <2>2. CASE j[1] \notin recorded
    <3> DEFINE go == row.there /\ (event[j[1]].kind = "pr" => Allows(row, Repo(j)))
               x == [job[j] EXCEPT !.stage = "record", !.go = go]
    <3>1. job' = [job EXCEPT ![j] = x]
      BY <2>2 DEF Receive
    <3>2. row.there \in BOOLEAN
      BY <1>1, Underway DEF RowType
    <3>3. go \in BOOLEAN
      OBVIOUS
    <3>4. go => row.there
      OBVIOUS
    <3> HIDE DEF go
    <3>5. x \in JobType /\ x.stage = "record" /\ x.gen = job[j].gen /\ x.go = go
      BY <1>1, <3>3, Underway DEF JobType, Stages
    <3>6. JobOK(x, event[j[1]], row, changes)
      BY <1>1, <3>4, <3>5, Underway DEF JobOK
    <3>7. QED
      BY <1>1, <3>1, <3>6, QuietJob
  <2>3. QED
    BY <2>1, <2>2
<1>3. QED
  BY <1>2, OnlyJob DEF Receive

\* The stage an event is dispatched to: not before there is a row for it.
LEMMA Dispatched1 ==
  ASSUME Inv, NEW j \in Jobs, job[j].stage # "idle", row.there,
         Goto(j, Dispatch(event[j[1]].kind)), UNCHANGED <<event, row, changes>>
  PROVE  JobsOK'
<1> DEFINE s == Dispatch(event[j[1]].kind)
           x == [job[j] EXCEPT !.stage = s]
<1>1. s \in {"change", "scope", "pr"}
  BY DEF Dispatch
<1>2. job' = [job EXCEPT ![j] = x]
  BY DEF Goto
<1> HIDE DEF s
<1>3. x \in JobType /\ x.stage = s /\ x.gen = job[j].gen
  BY <1>1, Underway DEF JobType, Stages
<1>4. JobOK(x, event[j[1]], row, changes)
  BY <1>1, <1>3, Underway DEF JobOK
<1>5. QED
  BY <1>2, <1>4, QuietJob

LEMMA RecordInv == ASSUME Inv, NEW j \in Jobs, Record(j) PROVE Inv'
<1>1. job[j].stage = "record" /\ UNCHANGED <<left, git, event, row, flow, effects, changes, stops>>
  BY DEF Record
<1>2. j[1] \in Events /\ job[j] \in JobType /\ (job[j].go => row.there)
  BY <1>1, Underway DEF JobOK
<1>3. CASE j[1] \in recorded
  <2>1. JobsOK'
    BY <1>1, <1>3, EndQuiet DEF Record
  <2>2. UNCHANGED <<recorded, ran, stray>>
    BY <1>3 DEF Record
  <2>3. QED
    BY <1>1, <2>1, <2>2, QuietInv DEF Inv, Simple
<1>4. CASE j[1] \notin recorded
  <2>1. /\ recorded' = recorded \cup {j[1]}
        /\ ran' = [ran EXCEPT ![j[1]] = @ + 1]
        /\ IF job[j].go THEN Goto(j, Dispatch(event[j[1]].kind)) ELSE End(j)
        /\ stray' = (stray \/ (event[j[1]].kind = "repos" /\ ~job[j].go))
    BY <1>4 DEF Record
  <2>2. JobsOK'
    <3>1. CASE job[j].go
      BY <1>1, <1>2, <2>1, <3>1, Dispatched1
    <3>2. CASE ~job[j].go
      BY <1>1, <2>1, <3>2, EndQuiet
    <3>3. QED
      BY <3>1, <3>2
  <2>3. ran \in [Events -> Nat] /\ \A e \in Events : ran[e] <= 1 /\ (e \notin recorded => ran[e] = 0)
    BY DEF Inv, Simple, Counted
  <2>4. ran' \in [Events -> Nat]
    BY <1>2, <2>1, <2>3
  <2>5. Counted'
    BY <1>2, <1>4, <2>1, <2>3 DEF Counted
  <2>6. Simple'
    BY <1>1, <1>2, <2>1, <2>4 DEF Inv, Simple
  <2>7. RowOK(row, changes)' /\ FlowsOK'
    BY <1>1, QuietFlows DEF Inv, RowOK
  <2>8. QED
    BY <2>2, <2>5, <2>6, <2>7 DEF Inv
<1>5. QED
  BY <1>3, <1>4

LEMMA ReadScopeInv == ASSUME Inv, NEW j \in Jobs, ReadScope(j) PROVE Inv'
<1> DEFINE s == IF row.pending \/ (row.scope.sel = "all" /\ event[j[1]].sel = "selected")
                THEN "begin" ELSE "delta"
           x == [job[j] EXCEPT !.stage = s]
<1>1. job[j].stage = "scope" /\ UNCHANGED <<left, git, event, recorded, row, flow, effects, ran, changes, stops>>
  BY DEF ReadScope
<1>2. job' = [job EXCEPT ![j] = x] /\ s \in {"begin", "delta"}
  BY DEF ReadScope, Goto
<1>3. row.there
  BY <1>1, Underway DEF JobOK
<1>4. stray' \in BOOLEAN
  BY DEF ReadScope, Early
<1> HIDE DEF s
<1>5. x \in JobType /\ x.stage = s /\ x.gen = job[j].gen
  BY <1>1, <1>2, Underway DEF JobType, Stages
<1>6. JobOK(x, event[j[1]], row, changes)
  BY <1>1, <1>2, <1>3, <1>5, Underway DEF JobOK
<1>7. JobsOK'
  BY <1>1, <1>2, <1>6, QuietJob
<1>8. QED
  BY <1>1, <1>4, <1>7, QuietInv DEF Inv, Simple

LEMMA FetchInv ==
  ASSUME Inv, NEW j \in Jobs, FetchDetails(j) \/ FetchList(j)
  PROVE  Inv'
<1>1. job[j].stage \in {"details", "list"} /\ UNCHANGED <<event, row, changes>>
  BY DEF FetchDetails, FetchList, history
<1>2. git.scope \in Scope /\ AllRepos \in Scope /\ Selected(git.scope.repos) \in Scope
  BY BlankOK DEF Inv, Simple, Scope, Selected
<1>3. JobsOK'
  <2>1. CASE End(j)
    BY <1>1, <2>1, EndQuiet
  <2>2. CASE Goto(j, "list")
    BY <1>1, <2>2, GotoQuiet DEF Passive
  <2>3. ASSUME NEW s \in Scope, job' = [job EXCEPT ![j].stage = "finish", ![j].scope = s]
        PROVE  JobsOK'
    <3> DEFINE x == [job[j] EXCEPT !.stage = "finish", !.scope = s]
    <3>1. job' = [job EXCEPT ![j] = x]
      BY <2>3
    <3>2. x \in JobType /\ x.stage = "finish" /\ x.gen = job[j].gen
      BY <1>1, Underway DEF JobType, Stages
    <3>3. JobOK(x, event[j[1]], row, changes)
      BY <1>1, <3>2, Underway, Moved DEF Passive
    <3>4. QED
      BY <1>1, <3>1, <3>3, QuietJob
  <2>4. QED
    BY <1>2, <2>1, <2>2, <2>3 DEF FetchDetails, FetchList
<1>4. QED
  BY <1>3, OnlyJob DEF FetchDetails, FetchList

LEMMA ReadForInv ==
  ASSUME Inv, NEW j \in Jobs, ReadForLinks(j) \/ ReadForRules(j)
  PROVE  Inv'
<1>1. job[j].stage \in {"pr", "rules", "notify"} /\ UNCHANGED <<event, row, changes>>
  BY DEF ReadForLinks, ReadForRules, history
<1>2. JobsOK'
  <2>1. CASE End(j)
    BY <1>1, <2>1, EndQuiet
  <2>2. CASE Goto(j, "rules")
    BY <1>1, <2>2, GotoQuiet DEF Passive
  <2>3. ASSUME NEW s \in {"link", "token"}, job' = [job EXCEPT ![j].stage = s, ![j].gen = row.gen]
        PROVE  JobsOK'
    BY <1>1, <2>3, WithGeneration DEF Passive
  <2>4. QED
    BY <2>1, <2>2, <2>3 DEF ReadForLinks, ReadForRules
<1>3. QED
  BY <1>2, OnlyJob DEF ReadForLinks, ReadForRules

LEMMA EffectInv ==
  ASSUME Inv, NEW j \in Jobs, Link(j) \/ Activity(j) \/ SetStatus(j)
  PROVE  Inv'
<1>1. /\ job[j].stage \in {"link", "activity", "status"}
      /\ UNCHANGED <<left, git, event, recorded, row, flow, history>>
  BY DEF Link, Activity, SetStatus
<1>2. UNCHANGED <<ran, changes, stops, stray>>
  BY <1>1 DEF history
<1>3. End(j) \/ Goto(j, "activity") \/ Goto(j, "rules") \/ Goto(j, "comment")
  BY DEF Link, Activity, SetStatus
<1>4. JobsOK'
  <2>1. CASE End(j)
    BY <1>1, <1>2, <2>1, EndQuiet
  <2>2. ASSUME NEW s \in {"activity", "rules", "comment"}, Goto(j, s) PROVE JobsOK'
    BY <1>1, <1>2, <2>2, GotoQuiet DEF Passive
  <2>3. QED
    BY <1>3, <2>1, <2>2
<1>5. UNCHANGED effects \/ \E what \in {"link", "commit", "activity", "status"} : Effect(j, what)
  <2>1. LinkKind(j) \in {"link", "commit"}
    BY DEF LinkKind
  <2>2. QED
    BY <2>1 DEF Link, Activity, SetStatus
<1>6. effects' \in [Repos -> SUBSET {"link", "commit", "activity", "status"}]
  BY <1>5, EffectType DEF Inv, Simple
<1>7. QED
  BY <1>1, <1>2, <1>4, <1>6, QuietInv DEF Inv, Simple

LEMMA TokenInv ==
  ASSUME Inv, NEW j \in Jobs,
         GetToken(j) \/ AskToken(j) \/ TokenAnswered(j) \/ RequestFails(j)
  PROVE  Inv'
<1>1. /\ job[j].stage \in {"token", "ask", "asking", "details", "list"}
      /\ UNCHANGED <<event, row, changes>>
  BY DEF GetToken, AskToken, TokenAnswered, RequestFails, history
<1>2. CASE End(j) \/ (\E has \in BOOLEAN : OnWith(j, has)) \/ Goto(j, "ask")
  <2>1. JobsOK'
    <3>1. CASE End(j)
      BY <1>1, <3>1, EndQuiet
    <3>2. CASE \E has \in BOOLEAN : OnWith(j, has)
      BY <1>1, <3>2, OnWithQuiet
    <3>3. CASE Goto(j, "ask")
      BY <1>1, <3>3, GotoQuiet DEF Passive
    <3>4. QED
      BY <1>2, <3>1, <3>2, <3>3
  <2>2. QED
    BY <2>1, OnlyJob DEF GetToken, AskToken, TokenAnswered, RequestFails
<1>3. CASE /\ AskToken(j) /\ Admits(j)
           /\ job' = [job EXCEPT ![j].stage = "asking", ![j].asof = changes]
  <2> DEFINE x == [job[j] EXCEPT !.stage = "asking", !.asof = changes]
  <2>1. job' = [job EXCEPT ![j] = x]
    BY <1>3
  <2>2. changes \in Nat
    BY DEF Inv, Simple
  <2>3. x \in JobType /\ x.stage = "asking" /\ x.gen = job[j].gen /\ x.asof = changes
    BY <1>1, <2>2, Underway DEF JobType, Stages
  <2>4. Allows(row, event[j[1]].repo)
    BY <1>3 DEF Admits, Repo
  <2>5. JobOK(x, event[j[1]], row, changes)
    BY <1>1, <2>3, <2>4, Underway DEF JobOK
  <2>6. JobsOK'
    BY <1>1, <2>1, <2>5, QuietJob
  <2>7. QED
    BY <1>3, <2>6, OnlyJob DEF AskToken
<1>4. CASE TokenAnswered(j) /\ Goto(j, "cache")
  <2> DEFINE x == [job[j] EXCEPT !.stage = "cache"]
  <2>1. job' = [job EXCEPT ![j] = x]
    BY <1>4 DEF Goto
  <2>2. x \in JobType /\ x.stage = "cache" /\ x.gen = job[j].gen /\ x.asof = job[j].asof
    BY <1>1, Underway DEF JobType, Stages
  <2>3. job[j].stage = "asking"
    BY <1>4 DEF TokenAnswered
  <2>4. Active(row) /\ row.there /\ ~row.pending
    BY <2>3, Underway DEF JobOK, Allows, Active
  <2>5. JobOK(x, event[j[1]], row, changes)
    BY <2>2, <2>3, <2>4, Underway DEF JobOK
  <2>6. JobsOK'
    BY <1>1, <2>1, <2>5, QuietJob
  <2>7. QED
    BY <1>4, <2>6, OnlyJob DEF TokenAnswered
<1>5. QED
  BY <1>2, <1>3, <1>4 DEF GetToken, AskToken, TokenAnswered, RequestFails

LEMMA CommentInv ==
  ASSUME Inv, NEW j \in Jobs, AskComment(j) \/ CommentAnswered(j)
  PROVE  Inv'
<1>1. job[j].stage \in {"comment", "commenting"} /\ UNCHANGED <<event, row, changes>>
  BY DEF AskComment, CommentAnswered, history
<1>2. CASE End(j)
  BY <1>1, <1>2, EndQuiet, OnlyJob DEF AskComment, CommentAnswered
<1>3. CASE AskComment(j) /\ Admits(j) /\ Goto(j, "commenting")
  <2> DEFINE x == [job[j] EXCEPT !.stage = "commenting"]
  <2>1. job' = [job EXCEPT ![j] = x]
    BY <1>3 DEF Goto
  <2>2. x \in JobType /\ x.stage = "commenting" /\ x.gen = job[j].gen
    BY <1>1, Underway DEF JobType, Stages
  <2>3. JobOK(x, event[j[1]], row, changes)
    BY <1>1, <1>3, <2>2, Underway DEF JobOK, Admits, Repo
  <2>4. JobsOK'
    BY <1>1, <2>1, <2>3, QuietJob
  <2>5. QED
    BY <1>3, <2>4, OnlyJob DEF AskComment
<1>4. QED
  BY <1>2, <1>3 DEF AskComment, CommentAnswered

LEMMA AbandonInv == ASSUME Inv, NEW j \in Jobs, Abandon(j) PROVE Inv'
<1>1. job[j].stage # "idle" /\ UNCHANGED <<git, event, recorded, row, flow, effects, ran, changes, stops>>
  BY DEF Abandon
<1>2. JobsOK'
  BY <1>1, EndQuiet DEF Abandon
<1>3. left' \in [Moves -> Nat] /\ stray' \in BOOLEAN
  BY Spent DEF Abandon, Moves, Inv, Simple
<1>4. QED
  BY <1>1, <1>2, <1>3, QuietInv DEF Inv, Simple

-----------------------------------------------------------------------------
(***************************************************************************)
(* The steps that change the row.                                          *)
(***************************************************************************)
\* A new generation, whatever becomes of the handler that started it.
LEMMA NewRowInv ==
  ASSUME Inv, Free, row' \in RowType, row'.there, row'.gen = row.gen + 1, row'.token = {},
         changes' = changes + 1, stops' \in Nat, left' \in [Moves -> Nat], stray' \in BOOLEAN,
         UNCHANGED <<git, event, recorded, effects, ran>>,
         JobsOK', FlowsOK'
  PROVE  Inv'
<1>1. RowOK(row, changes)'
  BY DEF RowOK
<1>2. Simple' /\ Counted'
  BY DEF Inv, Simple, Counted
<1>3. QED
  BY <1>1, <1>2 DEF Inv

LEMMA NewRowHandler ==
  ASSUME Inv, Free, NEW j \in Jobs, NEW x, job' = [job EXCEPT ![j] = x],
         row' \in RowType, row'.there, row'.gen = row.gen + 1, row'.token = {},
         changes' = changes + 1, stops' \in Nat, stray' \in BOOLEAN,
         UNCHANGED <<left, git, event, recorded, flow, effects, ran>>,
         JobOK(x, event[j[1]], row', changes')
  PROVE  Inv'
<1>1. changes' \in Nat
  BY DEF Inv, Simple
<1>2. /\ \A i \in Jobs : JobOK(job[i], event[i[1]], row', changes')
      /\ \A f \in Flows : FlowOK(flow[f], row', stops')
  BY <1>1, NewGeneration
<1>3. JobsOK'
  <2>1. job \in [Jobs -> JobType]
    BY DEF Inv, JobsOK
  <2>2. JobOK(x, event'[j[1]], row', changes')
    OBVIOUS
  <2>3. \A i \in Jobs : i # j => JobOK(job[i], event'[i[1]], row', changes')
    BY <1>2
  <2>4. QED
    BY <2>1, <2>2, <2>3, OneJob
<1>4. FlowsOK'
  BY <1>2 DEF Inv, FlowsOK
<1>5. QED
  BY <1>3, <1>4, NewRowInv DEF Inv, Simple

\* An authorization that is over.
LEMMA OverOK ==
  ASSUME NEW w, NEW n
  PROVE  FlowOK([NewFlow EXCEPT !.phase = "over"], w, n)
<1> DEFINE x == [NewFlow EXCEPT !.phase = "over"]
<1>1. x \in FlowType /\ x.action = "connect" /\ x.archived = {}
  BY BlankOK DEF NewFlow, FlowType
<1>2. QED
  BY <1>1 DEF FlowOK

\* The same, of a change of the administrator.
LEMMA NewRowAdmin ==
  ASSUME Inv, Free, row' \in RowType, row'.there, row'.gen = row.gen + 1, row'.token = {},
         changes' = changes + 1, stops' \in Nat, left' \in [Moves -> Nat],
         UNCHANGED <<git, event, recorded, job, effects, ran, stray>>,
         \/ UNCHANGED flow
         \/ \E f \in Flows : flow' = [flow EXCEPT ![f] = [NewFlow EXCEPT !.phase = "over"]]
  PROVE  Inv'
<1>1. changes' \in Nat
  BY DEF Inv, Simple
<1>2. /\ \A i \in Jobs : JobOK(job[i], event[i[1]], row', changes')
      /\ \A f \in Flows : FlowOK(flow[f], row', stops')
  BY <1>1, NewGeneration
<1>3. JobsOK'
  BY <1>2 DEF Inv, JobsOK
<1>4. FlowsOK'
  <2>1. CASE UNCHANGED flow
    BY <1>2, <2>1 DEF Inv, FlowsOK
  <2>2. CASE \E f \in Flows : flow' = [flow EXCEPT ![f] = [NewFlow EXCEPT !.phase = "over"]]
    <3>1. PICK f \in Flows : flow' = [flow EXCEPT ![f] = [NewFlow EXCEPT !.phase = "over"]]
      BY <2>2
    <3>2. FlowOK([NewFlow EXCEPT !.phase = "over"], row', stops')
      BY OverOK
    <3>3. flow \in [Flows -> FlowType]
      BY DEF Inv, FlowsOK
    <3>4. QED
      BY <1>2, <3>1, <3>2, <3>3, OneFlow
  <2>3. QED
    BY <2>1, <2>2
<1>5. QED
  BY <1>3, <1>4, NewRowInv DEF Inv, Simple

\* A row that goes to a new generation.
LEMMA BumpedOK ==
  ASSUME NEW w \in RowType
  PROVE  /\ Bumped(w) \in RowType
         /\ Bumped(w).gen = w.gen + 1 /\ Bumped(w).token = {} /\ Bumped(w).there = w.there
<1>1. w.gen \in Nat
  BY DEF RowType
<1>2. PICK g \in Nat : g = w.gen + 1
  BY <1>1
<1>3. Bumped(w) = [w EXCEPT !.gen = g, !.token = {}]
  BY <1>2 DEF Bumped
<1>4. QED
  BY <1>2, <1>3 DEF RowType

LEMMA LifecycleInv == ASSUME Inv, NEW j \in Jobs, Lifecycle(j) PROVE Inv'
<1>1. /\ job[j].stage = "change" /\ Free /\ changes' = changes + 1 /\ End(j)
      /\ UNCHANGED <<left, git, event, recorded, flow, effects, ran, stray>>
  BY DEF Lifecycle
<1>2. row \in RowType /\ row.there /\ row.gen \in Nat
  BY <1>1, Underway DEF JobOK
<1>3. PICK w \in RowType : row' = Bumped(w) /\ w.there /\ w.gen = row.gen
  <2>1. \A b \in BOOLEAN : /\ [row EXCEPT !.uninstalled = b] \in RowType
                           /\ [row EXCEPT !.suspended = b] \in RowType
    BY <1>2 DEF RowType
  <2>2. \A b \in BOOLEAN :
          /\ [row EXCEPT !.uninstalled = b].there /\ [row EXCEPT !.uninstalled = b].gen = row.gen
          /\ [row EXCEPT !.suspended = b].there /\ [row EXCEPT !.suspended = b].gen = row.gen
    BY <1>2 DEF RowType
  <2>3. \E b \in BOOLEAN : \/ row' = Bumped([row EXCEPT !.uninstalled = b])
                           \/ row' = Bumped([row EXCEPT !.suspended = b])
    BY DEF Lifecycle
  <2>4. QED
    BY <2>1, <2>2, <2>3
<1>4. row' \in RowType /\ row'.there /\ row'.gen = row.gen + 1 /\ row'.token = {}
  BY <1>3, BumpedOK
<1>5. stops' \in Nat /\ stray' \in BOOLEAN
  BY <1>1 DEF Inv, Simple, Lifecycle
<1>6. JobOK(Done, event[j[1]], row', changes')
  BY <1>1, <1>4, Underway, DoneOK
<1>7. QED
  BY <1>1, <1>4, <1>5, <1>6, NewRowHandler DEF End

LEMMA DeltaInv == ASSUME Inv, NEW j \in Jobs, Delta(j) PROVE Inv'
<1> DEFINE e == event[j[1]]
           s == IF e.sel = "all" THEN AllRepos
                ELSE Selected((Kept(row) \cup e.added) \ e.removed)
           w == [row EXCEPT !.scope = s]
<1>1. /\ job[j].stage = "delta" /\ Free /\ changes' = changes + 1 /\ End(j)
      /\ UNCHANGED <<left, git, event, recorded, flow, effects, ran, stops>>
      /\ row' = Bumped(w)
  BY DEF Delta
<1>2. row \in RowType /\ row.there /\ row.gen \in Nat
  BY <1>1, Underway DEF JobOK
<1>3. s \in Scope
  <2>1. e.added \in SUBSET Repos /\ e.removed \in SUBSET Repos
    BY <1>1, Underway DEF EventType
  <2>2. Kept(row) \in SUBSET Repos
    BY <1>2 DEF Kept, RowType, Scope
  <2>3. QED
    BY <2>1, <2>2, BlankOK DEF Selected, Scope
<1> HIDE DEF s
<1>4. w \in RowType /\ w.there /\ w.gen = row.gen
  BY <1>2, <1>3 DEF RowType
<1> HIDE DEF w
<1>5. row' \in RowType /\ row'.there /\ row'.gen = row.gen + 1 /\ row'.token = {}
  BY <1>1, <1>4, BumpedOK
<1>6. stops' \in Nat /\ stray' \in BOOLEAN
  BY <1>1 DEF Inv, Simple, Delta
<1>7. JobOK(Done, event[j[1]], row', changes')
  BY <1>1, <1>5, Underway, DoneOK
<1>8. QED
  BY <1>1, <1>5, <1>6, <1>7, NewRowHandler DEF End

LEMMA BeginInv == ASSUME Inv, NEW j \in Jobs, Begin(j) PROVE Inv'
<1> DEFINE w == [row EXCEPT !.pending = TRUE]
           x == [job[j] EXCEPT !.stage = "details", !.gen = row.gen + 1]
<1>1. /\ job[j].stage = "begin" /\ Free /\ changes' = changes + 1
      /\ UNCHANGED <<left, git, event, recorded, flow, effects, ran, stops, stray>>
      /\ row' = Bumped(w) /\ job' = [job EXCEPT ![j] = x]
  BY DEF Begin
<1>2. row \in RowType /\ row.there /\ row.gen \in Nat
  BY <1>1, Underway DEF JobOK
<1>3. w \in RowType /\ w.there /\ w.gen = row.gen
  BY <1>2 DEF RowType
<1> HIDE DEF w
<1>4. row' \in RowType /\ row'.there /\ row'.gen = row.gen + 1 /\ row'.token = {}
  BY <1>1, <1>3, BumpedOK
<1>5. stops' \in Nat /\ stray' \in BOOLEAN
  BY <1>1 DEF Inv, Simple
<1>6. x \in JobType /\ x.stage = "details" /\ x.gen = row.gen + 1
  <2>1. job[j] \in JobType
    BY <1>1, Underway
  <2>2. PICK g \in Nat : g = row.gen + 1
    BY <1>2
  <2>3. x = [job[j] EXCEPT !.stage = "details", !.gen = g]
    BY <2>2
  <2>4. QED
    BY <2>1, <2>2, <2>3 DEF JobType, Stages
<1>7. x.gen <= row'.gen /\ x.stage \in Passive /\ event[j[1]].kind # "none"
  BY <1>1, <1>2, <1>4, <1>6, Underway DEF Passive
<1>8. JobOK(x, event[j[1]], row', changes')
  BY <1>6, <1>7, Moved
<1> HIDE DEF x
<1>9. QED
  BY <1>1, <1>4, <1>5, <1>8, NewRowHandler

\* The one change of the scope that starts no generation: while it is pending no
\* handler has a token of this generation.
LEMMA FinishInv == ASSUME Inv, NEW j \in Jobs, Finish(j) PROVE Inv'
<1>1. /\ job[j].stage = "finish" /\ Free /\ End(j)
      /\ UNCHANGED <<left, git, event, recorded, flow, effects, ran, stops, stray>>
  BY DEF Finish
<1>2. CASE ~(row.gen = job[j].gen /\ row.pending)
  <2>1. UNCHANGED <<row, changes>>
    BY <1>2 DEF Finish
  <2>2. JobsOK'
    BY <1>1, <2>1, EndQuiet
  <2>3. QED
    BY <1>1, <2>1, <2>2, QuietInv DEF Inv, Simple
<1>3. CASE row.gen = job[j].gen /\ row.pending
  <2>1. row' = [row EXCEPT !.pending = FALSE, !.scope = job[j].scope] /\ changes' = changes + 1
    BY <1>3 DEF Finish
  <2>2. row \in RowType /\ job[j].scope \in Scope /\ row.gen \in Nat
    BY <1>1, Underway DEF JobType
  <2>3. /\ row' \in RowType /\ row'.gen = row.gen /\ row'.there = row.there
        /\ row'.token = row.token
    BY <2>1, <2>2 DEF RowType
  <2>4. row.token = {} /\ row.there
    <3>1. row.token # {} => Active(row)
      BY DEF Inv, RowOK
    <3>2. ~row.there => row = NoRow
      BY DEF Inv, RowOK
    <3>3. QED
      BY <1>3, <3>1, <3>2 DEF Active, NoRow
  <2>5. RowOK(row, changes)'
    BY <2>3, <2>4 DEF RowOK
  <2>6. ASSUME NEW i \in Jobs PROVE JobOK(job[i], event[i[1]], row', changes')
    <3>1. JobOK(job[i], event[i[1]], row, changes) /\ job[i].stage \notin {"asking", "commenting"}
      BY <1>1 DEF Inv, JobsOK, Free, Outbound
    <3>2. job[i].gen \in Nat
      BY <3>1 DEF JobOK, JobType
    <3>3. job[i].stage = "cache" => job[i].gen < row'.gen /\ job[i].gen # row'.gen
      BY <1>3, <2>2, <2>3, <3>1, <3>2 DEF JobOK
    <3>4. QED
      BY <2>3, <2>4, <3>1, <3>3 DEF JobOK
  <2>7. JobOK(Done, event[j[1]], row', changes')
    BY <1>1, <2>3, Underway, DoneOK
  <2>8. JobsOK'
    <3>1. job \in [Jobs -> JobType]
      BY DEF Inv, JobsOK
    <3>2. JobOK(Done, event'[j[1]], row', changes')
      BY <1>1, <2>7
    <3>3. \A i \in Jobs : i # j => JobOK(job[i], event'[i[1]], row', changes')
      BY <1>1, <2>6
    <3>4. QED
      BY <1>1, <3>1, <3>2, <3>3, OneJob DEF End
  <2>9. FlowsOK'
    BY <1>1, <2>3 DEF Inv, FlowsOK, FlowOK
  <2>10. Simple' /\ Counted'
    BY <1>1, <2>1 DEF Inv, Simple, Counted
  <2>11. QED
    BY <2>5, <2>8, <2>9, <2>10 DEF Inv
<1>4. QED
  BY <1>2, <1>3

LEMMA CacheTokenInv == ASSUME Inv, NEW j \in Jobs, CacheToken(j) PROVE Inv'
<1>1. /\ job[j].stage = "cache"
      /\ UNCHANGED <<left, git, event, recorded, flow, effects, ran, changes, stops, stray>>
  BY DEF CacheToken, history
<1>2. CASE UNCHANGED row /\ OnWith(j, FALSE)
  <2>1. JobsOK'
    BY <1>1, <1>2, OnWithQuiet
  <2>2. QED
    BY <1>1, <1>2, <2>1, QuietInv DEF Inv, Simple
<1>3. CASE /\ row.gen = job[j].gen /\ Active(row)
           /\ row' = [row EXCEPT !.token = {job[j].asof}] /\ OnWith(j, TRUE)
  <2>1. job[j].asof = changes /\ row \in RowType /\ changes \in Nat
    BY <1>1, <1>3, Underway DEF JobOK, Inv, Simple
  <2>2. row' = [row EXCEPT !.token = {changes}]
    BY <1>3, <2>1
  <2>3. /\ row' \in RowType /\ row'.token = {changes} /\ row'.there = row.there
        /\ row'.gen = row.gen /\ row'.pending = row.pending
        /\ (Active(row') <=> Active(row)) /\ (\A R : Allows(row', R) <=> Allows(row, R))
    BY <2>1, <2>2 DEF RowType, Active, Allows
  <2>4. RowOK(row, changes)'
    BY <1>1, <1>3, <2>3 DEF RowOK, Active
  <2>5. \A i \in Jobs : JobOK(job[i], event[i[1]], row', changes')
    BY <1>1, <2>3 DEF Inv, JobsOK, JobOK
  <2>6. PICK s \in {"status", "comment"} :
          job' = [job EXCEPT ![j].stage = s, ![j].token = TRUE, ![j].asof = 0]
    BY <1>3 DEF OnWith
  <2> DEFINE x == [job[j] EXCEPT !.stage = s, !.token = TRUE, !.asof = 0]
  <2>7. job' = [job EXCEPT ![j] = x]
    BY <2>6
  <2>8. x \in JobType /\ x.stage = s /\ x.gen = job[j].gen
    BY <1>1, Underway DEF JobType, Stages
  <2>9. x.gen <= row'.gen /\ x.stage \in Passive /\ event[j[1]].kind # "none"
    BY <1>1, <2>3, <2>8, Underway DEF Passive
  <2>10. JobOK(x, event[j[1]], row', changes')
    BY <2>8, <2>9, Moved
  <2> HIDE DEF x
  <2>11. JobsOK'
    <3>1. job \in [Jobs -> JobType]
      BY DEF Inv, JobsOK
    <3>2. JobOK(x, event'[j[1]], row', changes')
      BY <1>1, <2>10
    <3>3. \A i \in Jobs : i # j => JobOK(job[i], event'[i[1]], row', changes')
      BY <1>1, <2>5
    <3>4. QED
      BY <2>7, <3>1, <3>2, <3>3, OneJob
  <2>12. FlowsOK'
    BY <1>1, <2>3 DEF Inv, FlowsOK, FlowOK
  <2>13. Simple' /\ Counted'
    BY <1>1 DEF Inv, Simple, Counted
  <2>14. QED
    BY <2>4, <2>11, <2>12, <2>13 DEF Inv
<1>4. QED
  BY <1>2, <1>3 DEF CacheToken

LEMMA HandlerInv == ASSUME Inv, NEW j \in Jobs, Handler(j) PROVE Inv'
<1>1. CASE Receive(j) \/ Record(j) \/ Lifecycle(j)
  BY <1>1, ReceiveInv, RecordInv, LifecycleInv
<1>2. CASE ReadScope(j) \/ Delta(j) \/ Begin(j) \/ FetchDetails(j) \/ FetchList(j) \/ Finish(j)
  BY <1>2, ReadScopeInv, DeltaInv, BeginInv, FetchInv, FinishInv
<1>3. CASE ReadForLinks(j) \/ Link(j) \/ Activity(j) \/ ReadForRules(j) \/ SetStatus(j)
  BY <1>3, ReadForInv, EffectInv
<1>4. CASE GetToken(j) \/ AskToken(j) \/ TokenAnswered(j) \/ CacheToken(j) \/ RequestFails(j)
  BY <1>4, TokenInv, CacheTokenInv
<1>5. CASE AskComment(j) \/ CommentAnswered(j) \/ Abandon(j)
  BY <1>5, CommentInv, AbandonInv
<1>6. QED
  BY <1>1, <1>2, <1>3, <1>4, <1>5 DEF Handler

-----------------------------------------------------------------------------
(***************************************************************************)
(* The administrator.                                                      *)
(***************************************************************************)
LEMMA EndingInv == ASSUME Inv, Disconnect \/ Remove PROVE Inv'
<1>1. /\ row.there /\ Free /\ changes' = changes + 1 /\ stops' = stops + 1
      /\ UNCHANGED <<git, event, recorded, job, flow, effects, ran, stray>>
  BY DEF Disconnect, Remove
<1>2. row \in RowType /\ row.gen \in Nat
  BY DEF Inv, RowOK, RowType
<1>3. PICK w \in RowType : row' = Bumped(w) /\ w.there /\ w.gen = row.gen
  <2>1. /\ [row EXCEPT !.disconnected = TRUE] \in RowType
        /\ [row EXCEPT !.archived = TRUE] \in RowType
    BY <1>2 DEF RowType
  <2>2. /\ [row EXCEPT !.disconnected = TRUE].there
        /\ [row EXCEPT !.disconnected = TRUE].gen = row.gen
        /\ [row EXCEPT !.archived = TRUE].there
        /\ [row EXCEPT !.archived = TRUE].gen = row.gen
    BY <1>1, <1>2 DEF RowType
  <2>3. \/ row' = Bumped([row EXCEPT !.disconnected = TRUE])
        \/ row' = Bumped([row EXCEPT !.archived = TRUE])
    BY DEF Disconnect, Remove
  <2>4. QED
    BY <2>1, <2>2, <2>3
<1>4. row' \in RowType /\ row'.there /\ row'.gen = row.gen + 1 /\ row'.token = {}
  BY <1>3, BumpedOK
<1>5. left' \in [Moves -> Nat]
  BY Spent DEF Disconnect, Remove, Moves
<1>6. stops' \in Nat
  BY <1>1 DEF Inv, Simple
<1>7. QED
  BY <1>1, <1>4, <1>5, <1>6, NewRowAdmin

\* An authorization changes, and nothing else but a budget.
LEMMA OnlyFlow ==
  ASSUME Inv, NEW f \in Flows, NEW x, flow' = [flow EXCEPT ![f] = x],
         FlowOK(x, row, stops), left' \in [Moves -> Nat],
         UNCHANGED <<git, event, recorded, row, job, effects, history>>
  PROVE  Inv'
<1>1. UNCHANGED <<ran, changes, stops, stray>>
  BY DEF history
<1>2. FlowsOK'
  <2>1. /\ flow \in [Flows -> FlowType]
        /\ \A g \in Flows : g # f => FlowOK(flow[g], row', stops')
    BY <1>1 DEF Inv, FlowsOK
  <2>2. FlowOK(x, row', stops')
    BY <1>1
  <2>3. QED
    BY <2>1, <2>2, OneFlow
<1>3. JobsOK' /\ RowOK(row, changes)' /\ Simple' /\ Counted'
  BY <1>1 DEF Inv, JobsOK, RowOK, Simple, Counted
<1>4. QED
  BY <1>2, <1>3 DEF Inv

LEMMA StartFlowInv ==
  ASSUME Inv, NEW f \in Flows, NEW action \in {"connect", "reconnect"}, StartFlow(f, action)
  PROVE  Inv'
<1> DEFINE archived == IF action = "connect" /\ row.there /\ row.archived THEN {row.gen} ELSE {}
           phase == IF action = "reconnect" THEN "oauth" ELSE "setup"
           x == [NewFlow EXCEPT !.phase = phase, !.action = action, !.expected = row.gen,
                                !.seen = stops, !.archived = archived]
<1>1. /\ action = "reconnect" => row.there
      /\ flow' = [flow EXCEPT ![f] = x]
      /\ UNCHANGED <<git, event, recorded, row, job, effects, history>>
  BY DEF StartFlow
<1>2. row.gen \in Nat /\ stops \in Nat
  BY DEF Inv, Simple, RowOK, RowType
<1>3. archived \in SUBSET Nat /\ (\A g \in archived : row.there /\ g = row.gen)
  BY <1>2
<1>4. phase \in {"oauth", "setup"}
  OBVIOUS
<1> HIDE DEF archived, phase
<1>5. /\ x \in FlowType /\ x.action = action /\ x.expected = row.gen /\ x.seen = stops
      /\ x.archived = archived
  BY <1>2, <1>3, <1>4, BlankOK DEF NewFlow, FlowType
<1>6. FlowOK(x, row, stops)
  BY <1>1, <1>2, <1>3, <1>5 DEF FlowOK
<1>7. left' \in [Moves -> Nat]
  BY Spent DEF StartFlow, Moves
<1> HIDE DEF x
<1>8. QED
  BY <1>1, <1>6, <1>7, OnlyFlow

LEMMA VerifyInv ==
  ASSUME Inv, NEW f \in Flows, AdvanceSetup(f) \/ VerifyDetails(f) \/ VerifyList(f)
  PROVE  Inv'
<1>1. FlowOK(flow[f], row, stops) /\ flow[f] \in FlowType
  BY DEF Inv, FlowsOK
<1>2. UNCHANGED <<left, git, event, recorded, row, job, effects, history>>
  BY DEF AdvanceSetup, VerifyDetails, VerifyList
<1>3. PICK ph \in {"oauth", "over", "bind", "list"}, s \in Scope :
        flow' = [flow EXCEPT ![f] = [flow[f] EXCEPT !.phase = ph, !.scope = s]]
  <2>1. flow[f].scope \in Scope /\ Selected(git.scope.repos) \in Scope
    BY <1>1 DEF FlowType, Inv, Simple, Scope, Selected
  <2>2. \A ph : [flow[f] EXCEPT !.phase = ph]
                  = [flow[f] EXCEPT !.phase = ph, !.scope = flow[f].scope]
    BY <1>1 DEF FlowType
  <2>3. \/ \E ph \in {"oauth", "over", "bind", "list"} :
             flow' = [flow EXCEPT ![f] = [flow[f] EXCEPT !.phase = ph]]
        \/ flow' = [flow EXCEPT ![f] = [flow[f] EXCEPT !.phase = "bind",
                                                       !.scope = Selected(git.scope.repos)]]
    BY DEF AdvanceSetup, VerifyDetails, VerifyList
  <2>4. QED
    BY ZenonT(60), <2>1, <2>2, <2>3
<1> DEFINE x == [flow[f] EXCEPT !.phase = ph, !.scope = s]
<1>4. /\ x \in FlowType /\ x.action = flow[f].action /\ x.expected = flow[f].expected
      /\ x.archived = flow[f].archived /\ x.seen = flow[f].seen
  BY <1>1 DEF FlowType
<1>5. FlowOK(x, row, stops)
  BY <1>1, <1>4 DEF FlowOK
<1>6. left' \in [Moves -> Nat]
  BY <1>2 DEF Inv, Simple
<1>7. flow' = [flow EXCEPT ![f] = x]
  BY <1>3
<1> HIDE DEF x
<1>8. QED
  BY <1>2, <1>5, <1>6, <1>7, OnlyFlow

\* The first row: nobody has read one, so nobody relies on it.
LEMMA InsertInv ==
  ASSUME Inv, NEW f \in Flows, Free, ~row.there,
         row' = [NoRow EXCEPT !.there = TRUE, !.verified = TRUE, !.scope = flow[f].scope],
         changes' = changes + 1,
         flow' = [flow EXCEPT ![f] = [NewFlow EXCEPT !.phase = "over"]],
         UNCHANGED <<left, git, event, recorded, job, effects, ran, stops, stray>>
  PROVE  Inv'
<1>1. row = NoRow /\ NoRow \in RowType /\ NoRow.gen = 0 /\ NoRow.token = {}
  BY DEF Inv, RowOK, NoRow
<1>2. flow[f].scope \in Scope
  BY DEF Inv, FlowsOK, FlowType
<1>3. row' \in RowType /\ row'.there /\ row'.gen = row.gen /\ row'.token = {} /\ row.gen \in Nat
  BY <1>1, <1>2 DEF NoRow, RowType
<1>4. RowOK(row, changes)'
  BY <1>3 DEF RowOK
<1>5. \A i \in Jobs : JobOK(job[i], event[i[1]], row', changes')
  <2>1. SUFFICES ASSUME NEW i \in Jobs PROVE JobOK(job[i], event[i[1]], row', changes')
    OBVIOUS
  <2>2. JobOK(job[i], event[i[1]], row, changes)
    BY DEF Inv, JobsOK
  <2>3. job[i].stage \notin {"asking", "commenting"}
    BY DEF Free, Outbound
  <2>4. QED
    BY <1>3, <2>2, <2>3 DEF JobOK
<1>6. JobsOK'
  BY <1>5 DEF Inv, JobsOK
<1>7. FlowsOK'
  <2>1. \A g \in Flows : FlowOK(flow[g], row', stops')
    BY <1>3 DEF Inv, FlowsOK, FlowOK
  <2>2. flow \in [Flows -> FlowType]
    BY DEF Inv, FlowsOK
  <2>3. FlowOK([NewFlow EXCEPT !.phase = "over"], row', stops')
    BY OverOK
  <2>4. QED
    BY <2>1, <2>2, <2>3, OneFlow
<1>8. Simple' /\ Counted'
  BY DEF Inv, Simple, Counted
<1>9. QED
  BY <1>4, <1>6, <1>7, <1>8 DEF Inv

LEMMA BindInv == ASSUME Inv, NEW f \in Flows, Bind(f) PROVE Inv'
<1>1. /\ Free /\ flow' = [flow EXCEPT ![f] = [NewFlow EXCEPT !.phase = "over"]]
      /\ UNCHANGED <<left, git, event, recorded, job, effects, ran, stops, stray>>
  BY DEF Bind
<1>2. row \in RowType /\ row.gen \in Nat /\ flow[f].scope \in Scope
  BY DEF Inv, RowOK, RowType, FlowsOK, FlowType
<1>3. CASE row.there /\ row' = Restored(flow[f]) /\ changes' = changes + 1
  <2>1. /\ Bumped(row) \in RowType /\ Bumped(row).gen = row.gen + 1
        /\ Bumped(row).token = {} /\ Bumped(row).there
    BY <1>2, <1>3, BumpedOK
  <2>2. /\ row' \in RowType /\ row'.gen = Bumped(row).gen /\ row'.token = {} /\ row'.there
    BY <1>2, <1>3, <2>1 DEF Restored, RowType
  <2>3. left' \in [Moves -> Nat] /\ stops' \in Nat
    BY <1>1 DEF Inv, Simple
  <2>4. QED
    BY <1>1, <1>3, <2>1, <2>2, <2>3, NewRowAdmin
<1>4. CASE UNCHANGED <<row, changes>>
  <2>1. FlowsOK'
    <3>1. /\ flow \in [Flows -> FlowType]
          /\ \A g \in Flows : FlowOK(flow[g], row', stops')
      BY <1>1, <1>4 DEF Inv, FlowsOK
    <3>2. FlowOK([NewFlow EXCEPT !.phase = "over"], row', stops')
      BY OverOK
    <3>3. QED
      BY <1>1, <3>1, <3>2, OneFlow
  <2>2. JobsOK' /\ RowOK(row, changes)' /\ Simple' /\ Counted'
    BY <1>1, <1>4 DEF Inv, JobsOK, RowOK, Simple, Counted
  <2>3. QED
    BY <2>1, <2>2 DEF Inv
<1>5. CASE /\ ~row.there /\ changes' = changes + 1
           /\ row' = [NoRow EXCEPT !.there = TRUE, !.verified = TRUE, !.scope = flow[f].scope]
  BY <1>1, <1>5, InsertInv
<1>6. QED
  BY <1>3, <1>4, <1>5 DEF Bind

LEMMA AdminInv == ASSUME Inv, Admin PROVE Inv'
<1>1. CASE Disconnect \/ Remove
  BY <1>1, EndingInv
<1>2. CASE \E f \in Flows, action \in {"connect", "reconnect"} : StartFlow(f, action)
  BY <1>2, StartFlowInv
<1>3. CASE \E f \in Flows : AdvanceSetup(f) \/ VerifyDetails(f) \/ VerifyList(f)
  BY <1>3, VerifyInv
<1>4. CASE \E f \in Flows : Bind(f)
  BY <1>4, BindInv
<1>5. QED
  BY <1>1, <1>2, <1>3, <1>4 DEF Admin

-----------------------------------------------------------------------------
(***************************************************************************)
(* Every step, and what follows of every behaviour.                        *)
(***************************************************************************)
LEMMA StutterInv == ASSUME Inv, UNCHANGED vars PROVE Inv'
<1>1. /\ UNCHANGED <<left, git, event, recorded, row, job, flow, effects>>
      /\ UNCHANGED <<ran, changes, stops, stray>>
  BY DEF vars, history
<1>2. QED
  BY <1>1 DEF Inv, Simple, RowOK, JobsOK, FlowsOK, Counted

LEMMA Inductive == Inv /\ [Next]_vars => Inv'
<1> SUFFICES ASSUME Inv, [Next]_vars PROVE Inv'
  OBVIOUS
<1>1. CASE GitHub
  BY <1>1, GitHubInv
<1>2. CASE Admin
  BY <1>2, AdminInv
<1>3. ASSUME NEW j \in Jobs, Handler(j) PROVE Inv'
  BY <1>3, HandlerInv
<1>4. CASE UNCHANGED vars
  BY <1>4, StutterInv
<1>5. QED
  BY <1>1, <1>2, <1>3, <1>4 DEF Next

LEMMA Invariant == Spec => []Inv
<1>1. Init => Inv
  BY InitInv
<1>2. Inv /\ [Next]_vars => Inv'
  BY Inductive
<1>3. QED
  BY <1>1, <1>2, PTL DEF Spec

\* The variables of a connection keep their types, and a row that is not there is
\* the blank one (github_installations, schema.rs).
THEOREM Typing == Spec => []TypeOK
BY Invariant, InvImplies, PTL

\* However many deliveries of a webhook event there are, and wherever in the
\* handlers they overlap, the event is dispatched once (routes/github.rs,
\* create_event).
THEOREM Dispatched == Spec => []Once
BY Invariant, InvImplies, PTL

\* While a request to GitHub is under way, the connection allows the repository it
\* is for: no change of the connection overtakes it (schema.rs, admit_outbound).
THEOREM Admitted == Spec => []OutboundAllowed
BY Invariant, InvImplies, PTL

\* No token outlives the connection it was asked for: the one in the row is from
\* after the last change of an active connection (cache_installation_token).
THEOREM TokensFresh == Spec => []TokenCurrent
BY Invariant, InvImplies, PTL

-----------------------------------------------------------------------------
(***************************************************************************)
(* What a step may never do.                                               *)
(***************************************************************************)
\* Who writes on behalf of a repository has been admitted to.
LEMMA Written ==
  ASSUME NEW j \in Jobs, NEW what, Admits(j), Effect(j, what)
  PROVE  \A r \in Repos : effects'[r] # effects[r] => Allows(row, {r})
<1>1. Allows(row, Repo(j))
  BY DEF Admits
<1>2. \A r \in Repos : effects'[r] # effects[r] => r \in Repo(j)
  BY DEF Effect
<1>3. \A r \in Repo(j) : Allows(row, {r})
  BY <1>1 DEF Allows
<1>4. QED
  BY <1>2, <1>3

LEMMA EffectsStep ==
  ASSUME Next
  PROVE  \A r \in Repos : effects'[r] # effects[r] => Allows(row, {r})
<1>1. CASE GitHub
  BY <1>1 DEF GitHub, ChangeScope, SuspendOrNot, Uninstall, Develop, Redeliver, CompleteIssue
<1>2. CASE Admin
  BY <1>2 DEF Admin, Disconnect, Remove, StartFlow, AdvanceSetup, VerifyDetails, VerifyList, Bind
<1>3. ASSUME NEW j \in Jobs, Handler(j)
      PROVE  UNCHANGED effects \/ (Admits(j) /\ \E what : Effect(j, what))
  <2>1. CASE Link(j) \/ Activity(j) \/ SetStatus(j)
    BY <2>1 DEF Link, Activity, SetStatus
  <2>2. CASE \/ Receive(j) \/ Record(j) \/ Lifecycle(j) \/ ReadScope(j) \/ Delta(j)
             \/ Begin(j) \/ FetchDetails(j) \/ FetchList(j) \/ Finish(j) \/ Abandon(j)
    BY <2>2 DEF Receive, Record, Lifecycle, ReadScope, Delta, Begin, FetchDetails, FetchList,
                Finish, Abandon
  <2>3. CASE \/ ReadForLinks(j) \/ ReadForRules(j) \/ GetToken(j) \/ AskToken(j)
             \/ TokenAnswered(j) \/ CacheToken(j) \/ AskComment(j) \/ CommentAnswered(j)
             \/ RequestFails(j)
    BY <2>3 DEF ReadForLinks, ReadForRules, GetToken, AskToken, TokenAnswered, CacheToken,
                AskComment, CommentAnswered, RequestFails
  <2>4. QED
    BY <1>3, <2>1, <2>2, <2>3 DEF Handler
<1>4. QED
  BY <1>1, <1>2, <1>3, Written DEF Next

\* A webhook event leads to a link, an activity or a status only in a repository that
\* the connection allows at that moment, whatever was read before (schema.rs,
\* ConnectionAdmission).
THEOREM EffectsSafe == Spec => EffectsAllowed
<1>1. [Next]_vars => [\A r \in Repos : effects'[r] # effects[r] => Allows(row, {r})]_vars
  BY EffectsStep
<1>2. QED
  BY <1>1, PTL DEF Spec, EffectsAllowed

\* The handlers never clear what ends a connection.
LEMMA HandlerKeepsEnd ==
  ASSUME Inv, NEW j \in Jobs, Handler(j), EndedHere(row)
  PROVE  EndedHere(row')
<1>1. row \in RowType
  BY DEF Inv, RowOK
<1>2. CASE UNCHANGED row
  BY <1>2
<1>3. CASE Lifecycle(j)
  BY <1>1, <1>3 DEF Lifecycle, Bumped, EndedHere, RowType
<1>4. CASE Delta(j)
  BY <1>1, <1>4 DEF Delta, Bumped, EndedHere, RowType
<1>5. CASE Begin(j)
  BY <1>1, <1>5 DEF Begin, Bumped, EndedHere, RowType
<1>6. CASE Finish(j)
  BY <1>1, <1>6 DEF Finish, EndedHere, RowType
<1>7. CASE CacheToken(j)
  BY <1>1, <1>7 DEF CacheToken, EndedHere, RowType
<1>8. CASE \/ Receive(j) \/ Record(j) \/ ReadScope(j) \/ FetchDetails(j) \/ FetchList(j)
           \/ ReadForLinks(j) \/ Link(j) \/ Activity(j) \/ ReadForRules(j) \/ Abandon(j)
  BY <1>8, <1>2 DEF Receive, Record, ReadScope, FetchDetails, FetchList, ReadForLinks, Link,
                    Activity, ReadForRules, Abandon
<1>9. CASE \/ GetToken(j) \/ AskToken(j) \/ TokenAnswered(j) \/ SetStatus(j) \/ AskComment(j)
           \/ CommentAnswered(j) \/ RequestFails(j)
  BY <1>9, <1>2 DEF GetToken, AskToken, TokenAnswered, SetStatus, AskComment,
                    CommentAnswered, RequestFails
<1>10. QED
  BY <1>3, <1>4, <1>5, <1>6, <1>7, <1>8, <1>9 DEF Handler

\* An authorization that may bring a row back was started after the last end of it:
\* each end starts a generation.
LEMMA RestoredLater ==
  ASSUME Inv, NEW f \in Flows, MayRestore(flow[f])
  PROVE  flow[f].seen = stops
<1>1. FlowOK(flow[f], row, stops)
  BY DEF Inv, FlowsOK
<1>2. QED
  BY <1>1 DEF FlowOK, MayRestore

LEMMA RestoreStep ==
  ASSUME Inv, Next, EndedHere(row), ~EndedHere(row')
  PROVE  \E f \in Flows : flow[f].phase = "bind" /\ flow'[f].phase = "over"
                          /\ flow[f].seen = stops
<1>0. row \in RowType /\ flow \in [Flows -> FlowType]
  BY DEF Inv, RowOK, FlowsOK
<1>1. ~UNCHANGED row
  OBVIOUS
<1>2. ~GitHub
  BY <1>1 DEF GitHub, ChangeScope, SuspendOrNot, Uninstall, Develop, Redeliver, CompleteIssue
<1>3. \A j \in Jobs : ~Handler(j)
  BY HandlerKeepsEnd
<1>4. ~Disconnect /\ ~Remove
  BY <1>0 DEF Disconnect, Remove, Bumped, EndedHere, RowType
<1>5. PICK f \in Flows : Bind(f)
  BY <1>1, <1>2, <1>3, <1>4 DEF Next, Admin, StartFlow, AdvanceSetup, VerifyDetails, VerifyList
<1>6. row.there
  <2>1. ~row.there => row = NoRow
    BY DEF Inv, RowOK
  <2>2. QED
    BY <2>1 DEF EndedHere, NoRow
<1>7. MayRestore(flow[f])
  BY <1>1, <1>5, <1>6 DEF Bind
<1>8. flow[f].phase = "bind" /\ flow' = [flow EXCEPT ![f] = [NewFlow EXCEPT !.phase = "over"]]
  BY <1>5 DEF Bind
<1>9. flow'[f].phase = "over"
  BY <1>0, <1>8 DEF NewFlow
<1>10. QED
  BY <1>7, <1>8, <1>9, RestoredLater

\* A connection that was disconnected, removed or uninstalled comes back only by an
\* authorization that was started after that (bind_verified_connection and the
\* generations of start_connection).
THEOREM Ended == Spec => NoResurrection
<1>1. Inv /\ [Next]_vars =>
        [EndedHere(row) /\ ~EndedHere(row')
           => \E f \in Flows : flow[f].phase = "bind" /\ flow'[f].phase = "over"
                               /\ flow[f].seen = stops]_vars
  BY RestoreStep
<1>2. QED
  BY <1>1, Invariant, PTL DEF Spec, NoResurrection

-----------------------------------------------------------------------------
(***************************************************************************)
(* The scope settles.  Read in their order, the scope events tell what     *)
(* GitHub grants.  A scope on its way to the row, the row's own included,  *)
(* is right about every repository that no event still to come speaks of.  *)
(***************************************************************************)
Deciding == {"scope", "delta", "begin"}
ScopeEvent(e) == event[e].kind = "repos"

\* The scope events that have yet to reach the row.
Waits == {e \in Events : /\ ScopeEvent(e)
                         /\ e \notin recorded \/ \E c \in {1, 2} : job[<<e, c>>].stage \in Deciding}

Speaks(ev, r) == r \in ev.added \cup ev.removed

\* The events ev tell the scope g.
TellsSel(ev, g) ==
  \A e \in Events : ev[e].kind = "repos" /\ (\A d \in Events : d > e => ev[d].kind # "repos")
    => ev[e].sel = g.sel
TellsRepo(ev, g, e, r) ==
  /\ r \in ev[e].added => r \in g.repos
  /\ r \in ev[e].removed => r \notin g.repos
  /\ ev[e].sel = "all" => r \in g.repos
TellsRepos(ev, g) ==
  \A e \in Events, r \in Repos :
    /\ ev[e].kind = "repos"
    /\ \A d \in Events : d > e /\ ev[d].kind = "repos" => ~Speaks(ev[d], r)
    => TellsRepo(ev, g, e, r)
Dense(ev) == \A e \in Events : ev[e].kind # "none" => \A d \in 1..(e - 1) : ev[d].kind # "none"
WellFormed(g) == g \in Scope /\ (g.sel = "all" => g.repos = Repos)
Told(ev, g) == WellFormed(g) /\ Dense(ev) /\ TellsSel(ev, g) /\ TellsRepos(ev, g)

\* The scope w is right but for the events of W.
Fits(w, W, ev, g) ==
  /\ WellFormed(w)
  /\ W = {} => w.sel = g.sel
  /\ \A r \in Repos : (\A d \in W : ~Speaks(ev[d], r)) => (r \in w.repos <=> r \in g.repos)

RowFits(w, W, ev, g) == w.there /\ ~w.pending => Fits(w.scope, W, ev, g)

JobFits(x, w, W, ev, g) ==
  w.pending /\ x.gen = w.gen =>
    /\ x.stage = "list" /\ W = {} => g.sel = "selected"
    /\ x.stage = "finish" => Fits(x.scope, W, ev, g)

\* The authorization x may bind the row w.
May(x, w) ==
  IF w.there THEN IF x.action = "reconnect" THEN w.gen = x.expected
                  ELSE w.archived /\ w.gen \in x.archived
  ELSE x.action = "connect"

FlowFits(x, w, W, ev, g) ==
  /\ x.phase \in {"none", "setup", "oauth", "list"} => x.scope = AllRepos
  /\ May(x, w) =>
       /\ x.phase = "list" /\ W = {} => g.sel = "selected"
       /\ x.phase = "bind" => Fits(x.scope, W, ev, g)

\* A handler of a scope event past its record has recorded it, and alone.
Begun ==
  \A e \in Events : ScopeEvent(e) =>
    /\ job[<<e, 1>>].stage # "idle"
    /\ \A c \in {1, 2} : job[<<e, c>>].stage \notin {"idle", "sent", "record"} => e \in recorded
    /\ job[<<e, 1>>].stage \in Deciding => job[<<e, 2>>].stage \notin Deciding

\* Scope events reach the row in their order.
InOrder ==
  \A e \in Events, d \in Waits : d < e /\ ScopeEvent(e) =>
    /\ e \in Waits
    /\ \A c \in {1, 2} : job[<<e, c>>].stage \notin {"delta", "begin"}

Staged == \A j \in Jobs : job[j].stage \in Deciding \cup {"details", "list", "finish"}
                            => ScopeEvent(j[1])

Settling ==
  /\ Begun /\ InOrder
  /\ RowFits(row, Waits, event, git.scope)
  /\ \A j \in Jobs : JobFits(job[j], row, Waits, event, git.scope)
  /\ \A f \in Flows : FlowFits(flow[f], row, Waits, event, git.scope)

Known == \A e \in recorded : event[e].kind # "none"

ScopeInv == Told(event, git.scope) /\ Known /\ Staged /\ (~stray => Settling)

\* Once every scope event has been handled, none waits.
LEMMA ScopeInvImplies == Inv /\ ScopeInv => ScopeSettles
<1> SUFFICES ASSUME Inv, ScopeInv, row.there, ~row.pending, ~stray,
                    \A e \in Events : event[e].kind = "repos"
                      => job[<<e, 1>>].stage = "done" /\ job[<<e, 2>>].stage \in {"idle", "done"}
             PROVE  row.scope = git.scope
  BY DEF ScopeSettles
<1>1. Waits = {}
  BY DEF ScopeInv, Settling, Begun, Waits, ScopeEvent, Deciding
<1>2. Fits(row.scope, Waits, event, git.scope)
  BY DEF ScopeInv, Settling, RowFits
<1>3. row.scope.sel = git.scope.sel /\ \A r \in Repos : r \in row.scope.repos <=> r \in git.scope.repos
  BY <1>1, <1>2 DEF Fits
<1>4. row.scope \in Scope /\ git.scope \in Scope
  BY DEF Inv, RowOK, RowType, Simple
<1>5. row.scope.repos = git.scope.repos
  BY <1>3, <1>4 DEF Scope
<1>6. QED
  BY <1>3, <1>4, <1>5 DEF Scope

LEMMA InitScope == Init => ScopeInv
<1> SUFFICES ASSUME Init PROVE ScopeInv
  OBVIOUS
<1>1. \A e \in Events : event[e].kind = "none"
  BY DEF Init, Blank
<1>2. \A j \in Jobs : job[j].stage = "idle"
  BY DEF Init, NewJob
<1>3. Waits = {}
  BY <1>1 DEF Waits, ScopeEvent
<1>4. PICK s \in {AllRepos} \cup {Selected(R) : R \in SUBSET Repos}, start \in Starts :
        git.scope = s /\ row = FirstRow(start, s)
  BY DEF Init
<1>5. WellFormed(s)
  BY DEF WellFormed, AllRepos, Selected, Scope
<1>6. Told(event, git.scope)
  BY <1>1, <1>4, <1>5 DEF Told, Dense, TellsSel, TellsRepos
<1>7. Known /\ Staged /\ Begun /\ InOrder
  BY <1>1, <1>2, <1>3 DEF Init, Known, Staged, Begun, InOrder, ScopeEvent, Deciding
<1>8. RowFits(row, Waits, event, git.scope)
  <2>1. CASE start = "none"
    BY <2>1, <1>4 DEF FirstRow, NoRow, RowFits
  <2>2. CASE start # "none"
    <3>1. row.scope = s
      BY <2>2, <1>4 DEF FirstRow, NoRow
    <3>2. QED
      BY <3>1, <1>4, <1>5 DEF RowFits, Fits
  <2>3. QED
    BY <2>1, <2>2
<1>9. \A j \in Jobs : JobFits(job[j], row, Waits, event, git.scope)
  BY <1>2 DEF JobFits
<1>10. \A f \in Flows : FlowFits(flow[f], row, Waits, event, git.scope)
  BY DEF Init, NewFlow, FlowFits
<1>11. QED
  BY <1>6, <1>7, <1>8, <1>9, <1>10 DEF ScopeInv, Settling

-----------------------------------------------------------------------------
\* A new event.
\* What a new scope event adds to what the events tell.
LEMMA ToldNew ==
  ASSUME NEW e \in Events, event \in [Events -> EventType], Fresh(e), NEW ev \in EventType,
         event' = [event EXCEPT ![e] = ev], ev.kind # "none", NEW h, Told(event, h), NEW g,
         \/ ev.kind # "repos" /\ g = h
         \/ /\ WellFormed(g) /\ ev.kind = "repos" /\ ev.sel = g.sel
            /\ ev.added = g.repos \ h.repos /\ ev.removed = h.repos \ g.repos
  PROVE  Told(event', g)
<1>0. Events \subseteq Nat
  BY DEF Events
<1>1. \A d \in Events : event'[d] = IF d = e THEN ev ELSE event[d]
  OBVIOUS
<1>2. event[e].kind = "none" /\ \A d \in Events : d > e => event[d].kind = "none"
  <2>1. ASSUME NEW d \in Events, d > e PROVE event[d].kind = "none"
    <3>1. e \in 1..(d - 1)
      BY <2>1 DEF Events
    <3>2. QED
      BY <3>1 DEF Fresh, Told, Dense
  <2>2. QED
    BY <2>1 DEF Fresh
<1>3. WellFormed(g)
  BY DEF Told
<1>4. Dense(event')
  <2>1. ASSUME NEW d \in Events, event'[d].kind # "none", NEW c \in 1..(d - 1)
        PROVE  event'[c].kind # "none"
    <3>1. c \in Events
      BY GitHubConnectionAssumption DEF Events
    <3>2. QED
      BY <1>1, <2>1, <3>1 DEF Fresh, Told, Dense
  <2>2. QED
    BY <2>1 DEF Dense
<1>5. TellsSel(event', g)
  <2>1. ASSUME NEW d \in Events, event'[d].kind = "repos",
               \A b \in Events : b > d => event'[b].kind # "repos"
        PROVE  event'[d].sel = g.sel
    <3>1. CASE d = e
      BY <1>1, <2>1, <3>1
    <3>2. CASE d # e
      <4>1. d < e /\ event[d].kind = "repos"
        BY <1>0, <1>1, <1>2, <2>1, <3>2
      <4>2. ev.kind # "repos"
        BY <1>0, <1>1, <2>1, <4>1
      <4>3. \A b \in Events : b > d => event[b].kind # "repos"
        BY <1>1, <1>2, <2>1
      <4>4. event[d].sel = h.sel
        BY <4>1, <4>3 DEF Told, TellsSel
      <4>5. QED
        BY <1>1, <3>2, <4>2, <4>4
    <3>3. QED
      BY <3>1, <3>2
  <2>2. QED
    BY <2>1 DEF TellsSel
<1>6. TellsRepos(event', g)
  <2>1. ASSUME NEW d \in Events, NEW r \in Repos, event'[d].kind = "repos",
               \A b \in Events : b > d /\ event'[b].kind = "repos" => ~Speaks(event'[b], r)
        PROVE  TellsRepo(event', g, d, r)
    <3>1. CASE d = e
      BY <1>1, <1>3, <2>1, <3>1 DEF TellsRepo, WellFormed
    <3>2. CASE d # e
      <4>1. d < e /\ event[d].kind = "repos"
        BY <1>0, <1>1, <1>2, <2>1, <3>2
      <4>2. \A b \in Events : b > d /\ event[b].kind = "repos" => ~Speaks(event[b], r)
        BY <1>1, <1>2, <2>1
      <4>3. TellsRepo(event, h, d, r)
        BY <4>1, <4>2 DEF Told, TellsRepos
      <4>4. r \in g.repos <=> r \in h.repos
        <5>1. CASE ev.kind # "repos"
          BY <5>1
        <5>2. CASE ev.kind = "repos"
          <6>1. ~Speaks(ev, r)
            BY <1>0, <1>1, <2>1, <4>1, <5>2
          <6>2. QED
            BY <6>1, <5>2 DEF Speaks
        <5>3. QED
          BY <5>1, <5>2
      <4>5. QED
        BY <1>1, <3>2, <4>3, <4>4 DEF TellsRepo
    <3>3. QED
      BY <3>1, <3>2
  <2>2. QED
    BY <2>1 DEF TellsRepos
<1>7. QED
  BY <1>3, <1>4, <1>5, <1>6 DEF Told

\* A scope on its way is right but for the new event.
LEMMA FitsNew ==
  ASSUME NEW e \in Events, event \in [Events -> EventType], NEW ev \in EventType,
         event' = [event EXCEPT ![e] = ev], NEW W \in SUBSET Events, e \notin W, NEW h, NEW g, NEW V,
         \/ ev.kind # "repos" /\ g = h /\ V = W
         \/ /\ V = W \cup {e}
            /\ ev.added = g.repos \ h.repos /\ ev.removed = h.repos \ g.repos
  PROVE  /\ \A w : Fits(w, W, event, h) => Fits(w, V, event', g)
         /\ (W = {} => h.sel = "selected") => (V = {} => g.sel = "selected")
<1>1. \A d \in W : d \in V /\ event'[d] = event[d]
  OBVIOUS
<1>2. ASSUME NEW r \in Repos, \A d \in V : ~Speaks(event'[d], r)
      PROVE  (\A d \in W : ~Speaks(event[d], r)) /\ (r \in g.repos <=> r \in h.repos)
  <2>1. \A d \in W : ~Speaks(event[d], r)
    BY <1>1, <1>2
  <2>2. CASE g = h
    BY <2>1, <2>2
  <2>3. CASE V = W \cup {e} /\ ev.added = g.repos \ h.repos /\ ev.removed = h.repos \ g.repos
    <3>1. ~Speaks(ev, r)
      BY <1>2, <2>3
    <3>2. QED
      BY <2>1, <2>3, <3>1 DEF Speaks
  <2>4. QED
    BY <2>2, <2>3
<1>3. V = {} => W = {} /\ g = h
  OBVIOUS
<1>4. QED
  BY <1>2, <1>3 DEF Fits

LEMMA NewEventScope ==
  ASSUME Inv, ScopeInv, NEW e \in Events, Fresh(e), NEW ev \in EventType, ev.kind # "none",
         event' = [event EXCEPT ![e] = ev], NEW s \in {"sent", "notify"},
         ev.kind = "repos" => s = "sent",
         job' = [job EXCEPT ![<<e, 1>>].stage = s],
         UNCHANGED <<recorded, row, flow, stray>>,
         \/ ev.kind # "repos" /\ git'.scope = git.scope
         \/ /\ WellFormed(git'.scope) /\ ev.kind = "repos" /\ ev.sel = git'.scope.sel
            /\ ev.added = git'.scope.repos \ git.scope.repos
            /\ ev.removed = git.scope.repos \ git'.scope.repos
  PROVE  ScopeInv'
<1> DEFINE x == [job[<<e, 1>>] EXCEPT !.stage = s]
<1>0. event \in [Events -> EventType] /\ job \in [Jobs -> JobType] /\ Events \subseteq Nat
  BY DEF Inv, Simple, JobsOK, Events
<1>1. \A d \in Events : event'[d] = IF d = e THEN ev ELSE event[d]
  BY <1>0
<1>2. \A c \in {1, 2} : <<e, c>> \in Jobs /\ job[<<e, c>>].stage = "idle"
  <2>1. \A c \in {1, 2} : <<e, c>> \in Jobs /\ <<e, c>>[1] = e
    BY DEF Jobs
  <2>2. \A j \in Jobs : JobOK(job[j], event[j[1]], row, changes)
    BY DEF Inv, JobsOK
  <2>3. QED
    BY <2>1, <2>2 DEF JobOK, Fresh
<1>3. x.stage = s /\ x.gen = job[<<e, 1>>].gen
  BY <1>0, <1>2 DEF JobType
<1>4. \A j \in Jobs : job'[j] = IF j = <<e, 1>> THEN x ELSE job[j]
  BY <1>0, <1>2
<1> HIDE DEF x
<1>5. \A d \in Events, c \in {1, 2} :
        /\ <<d, c>> \in Jobs
        /\ job'[<<d, c>>].stage = IF d = e /\ c = 1 THEN s ELSE job[<<d, c>>].stage
  <2>1. \A d \in Events, c \in {1, 2} : <<d, c>> \in Jobs /\ (<<d, c>> = <<e, 1>> <=> d = e /\ c = 1)
    BY DEF Jobs
  <2>2. ASSUME NEW d \in Events, NEW c \in {1, 2}
        PROVE  job'[<<d, c>>].stage = IF d = e /\ c = 1 THEN s ELSE job[<<d, c>>].stage
    <3>1. CASE d = e /\ c = 1
      BY <1>3, <1>4, <2>1, <3>1
    <3>2. CASE ~(d = e /\ c = 1)
      <4>1. job'[<<d, c>>] = job[<<d, c>>]
        BY <1>4, <2>1, <3>2
      <4>2. QED
        BY <3>2, <4>1
    <3>3. QED
      BY <3>1, <3>2
  <2>3. QED
    BY <2>1, <2>2
<1>6. e \notin recorded /\ e \notin Waits
  BY DEF ScopeInv, Known, Fresh, Waits, ScopeEvent
<1>7. Waits' = IF ev.kind = "repos" THEN Waits \cup {e} ELSE Waits
  <2>1. ASSUME NEW d \in Events, d # e PROVE d \in Waits' <=> d \in Waits
    BY <1>1, <1>5, <2>1 DEF Waits, ScopeEvent
  <2>2. e \in Waits' <=> ev.kind = "repos"
    BY <1>1, <1>6 DEF Waits, ScopeEvent
  <2>3. Waits \subseteq Events /\ Waits' \subseteq Events
    BY DEF Waits
  <2>4. QED
    BY <1>6, <2>1, <2>2, <2>3
<1>8. Told(event', git'.scope)
  BY <1>0, ToldNew DEF ScopeInv
<1>9. Known'
  BY <1>1, <1>6 DEF ScopeInv, Known, Inv, Simple
<1>10. Staged'
  <2>1. \A j \in Jobs : j[1] \in Events
    BY Pairs
  <2>2. ASSUME NEW j \in Jobs, job'[j].stage \in Deciding \cup {"details", "list", "finish"}
        PROVE  ScopeEvent(j[1])'
    <3>1. j # <<e, 1>>
      BY <1>2, <1>3, <1>4, <2>2 DEF Deciding
    <3>2. job[j].stage \in Deciding \cup {"details", "list", "finish"}
      BY <1>4, <2>2, <3>1
    <3>3. event[j[1]].kind = "repos"
      BY <3>2 DEF ScopeInv, Staged, ScopeEvent
    <3>4. QED
      BY <1>1, <2>1, <3>3 DEF Fresh, ScopeEvent
  <2>3. QED
    BY <2>2 DEF Staged
<1>11. ASSUME ~stray PROVE Settling'
  <2>0. Settling
    BY <1>11 DEF ScopeInv
  <2>1. Begun'
    BY <1>1, <1>2, <1>5, <2>0 DEF Settling, Begun, ScopeEvent, Deciding
  <2>2. \A d \in Events : event[d].kind # "none" => d < e
    <3>1. ASSUME NEW d \in Events, event[d].kind # "none", d > e PROVE FALSE
      <4>1. e \in 1..(d - 1)
        BY <3>1, GitHubConnectionAssumption DEF Events
      <4>2. QED
        BY <3>1, <4>1 DEF Fresh, ScopeInv, Told, Dense
    <3>2. QED
      BY <1>0, <3>1 DEF Fresh
  <2>3. InOrder'
    <3>1. ASSUME NEW d \in Events, NEW c \in Waits', c < d, ScopeEvent(d)'
          PROVE  d \in Waits' /\ \A b \in {1, 2} : job'[<<d, b>>].stage \notin {"delta", "begin"}
      <4>1. CASE d = e
        BY <1>1, <1>2, <1>5, <1>7, <3>1, <4>1 DEF ScopeEvent
      <4>2. CASE d # e
        <5>1. ScopeEvent(d) /\ d < e
          BY <1>1, <2>2, <3>1, <4>2 DEF ScopeEvent
        <5>2. c \in Waits /\ c \in Events
          BY <1>0, <1>7, <3>1, <5>1 DEF Waits
        <5>3. QED
          BY <1>5, <1>7, <2>0, <3>1, <4>2, <5>1, <5>2 DEF Settling, InOrder
      <4>3. QED
        BY <4>1, <4>2
    <3>2. QED
      BY <3>1 DEF InOrder
  <2>4. Waits \in SUBSET Events
    BY DEF Waits
  <2>5. /\ \A w : Fits(w, Waits, event, git.scope) => Fits(w, Waits', event', git'.scope)
        /\ (Waits = {} => git.scope.sel = "selected") => (Waits' = {} => git'.scope.sel = "selected")
    BY <1>0, <1>6, <1>7, <2>4, FitsNew
  <2>6. RowFits(row', Waits', event', git'.scope)
    BY <2>0, <2>5 DEF Settling, RowFits
  <2>7. \A j \in Jobs : JobFits(job'[j], row', Waits', event', git'.scope)
    <3>1. ASSUME NEW j \in Jobs PROVE JobFits(job'[j], row', Waits', event', git'.scope)
      <4>1. CASE j = <<e, 1>>
        BY <1>3, <1>4, <4>1 DEF JobFits
      <4>2. CASE j # <<e, 1>>
        BY <1>4, <2>0, <2>5, <4>2 DEF Settling, JobFits
      <4>3. QED
        BY <4>1, <4>2
    <3>2. QED
      BY <3>1
  <2>8. \A f \in Flows : FlowFits(flow'[f], row', Waits', event', git'.scope)
    BY <2>0, <2>5 DEF Settling, FlowFits
  <2>9. QED
    BY <2>1, <2>3, <2>6, <2>7, <2>8 DEF Settling
<1>12. QED
  BY <1>8, <1>9, <1>10, <1>11 DEF ScopeInv

-----------------------------------------------------------------------------
\* A step of a handler that decides nothing about the scope.
SameScope(v, w) ==
  /\ v.there = w.there /\ v.archived = w.archived /\ v.pending = w.pending
  /\ v.scope = w.scope /\ v.gen = w.gen

LEMMA SameFits ==
  ASSUME NEW v, NEW w, SameScope(v, w), NEW W, NEW ev, NEW g
  PROVE  /\ RowFits(w, W, ev, g) => RowFits(v, W, ev, g)
         /\ \A x : JobFits(x, w, W, ev, g) => JobFits(x, v, W, ev, g)
         /\ \A x : FlowFits(x, w, W, ev, g) => FlowFits(x, v, W, ev, g)
BY DEF SameScope, RowFits, JobFits, FlowFits, May

\* What the stages of the two deliveries say of which scope events wait.
LEMMA WaitsSame ==
  ASSUME Inv, NEW j \in Jobs, NEW x, job' = [job EXCEPT ![j] = x],
         UNCHANGED <<event, recorded>>,
         ScopeEvent(j[1]) => (x.stage \in Deciding <=> job[j].stage \in Deciding)
  PROVE  Waits' = Waits
<1>1. \A i \in Jobs : job'[i] = IF i = j THEN x ELSE job[i]
  BY DEF Inv, JobsOK
<1>2. ASSUME NEW e \in Events, ScopeEvent(e), NEW c \in {1, 2}
      PROVE  job'[<<e, c>>].stage \in Deciding <=> job[<<e, c>>].stage \in Deciding
  <2>1. <<e, c>> \in Jobs /\ <<e, c>>[1] = e
    BY DEF Jobs
  <2>2. CASE <<e, c>> = j
    BY <1>1, <1>2, <2>1, <2>2
  <2>3. CASE <<e, c>> # j
    <3>1. job'[<<e, c>>] = job[<<e, c>>]
      BY <1>1, <2>1, <2>3
    <3>2. QED
      BY <3>1
  <2>4. QED
    BY <2>2, <2>3
<1>3. \A e \in Events : e \in Waits' <=> e \in Waits
  BY <1>2 DEF Waits, ScopeEvent
<1>4. QED
  BY <1>3 DEF Waits

\* The deliveries of an event are recorded, and in turn.
LEMMA BegunStep ==
  ASSUME Inv, Begun, NEW j \in Jobs, NEW x, job' = [job EXCEPT ![j] = x],
         UNCHANGED event, recorded \subseteq recorded', x.stage # "idle",
         ScopeEvent(j[1]) => /\ j[1] \in recorded' \/ x.stage \in {"sent", "record"}
                             /\ x.stage \in Deciding => job[j].stage \in Deciding \/ j[1] \notin recorded
  PROVE  Begun'
<1>1. \A i \in Jobs : job'[i] = IF i = j THEN x ELSE job[i]
  BY DEF Inv, JobsOK
<1>2. SUFFICES ASSUME NEW e \in Events, ScopeEvent(e)
      PROVE  /\ job'[<<e, 1>>].stage # "idle"
             /\ \A c \in {1, 2} : job'[<<e, c>>].stage \notin {"idle", "sent", "record"} => e \in recorded'
             /\ job'[<<e, 1>>].stage \in Deciding => job'[<<e, 2>>].stage \notin Deciding
  BY DEF Begun, ScopeEvent
<1>3. <<e, 1>> \in Jobs /\ <<e, 2>> \in Jobs /\ <<e, 1>> # <<e, 2>>
  BY DEF Jobs
<1>4. /\ job[<<e, 1>>].stage # "idle"
      /\ \A c \in {1, 2} : job[<<e, c>>].stage \notin {"idle", "sent", "record"} => e \in recorded
      /\ job[<<e, 1>>].stage \in Deciding => job[<<e, 2>>].stage \notin Deciding
  BY <1>2 DEF Begun
<1>5. CASE j \notin {<<e, 1>>, <<e, 2>>}
  <2>1. job'[<<e, 1>>] = job[<<e, 1>>] /\ job'[<<e, 2>>] = job[<<e, 2>>]
    BY <1>1, <1>3, <1>5
  <2>2. QED
    BY <1>4, <2>1
<1>6. ASSUME NEW c \in {1, 2}, NEW d \in {1, 2}, c # d, j = <<e, c>>
      PROVE  /\ job'[<<e, c>>].stage # "idle"
             /\ \A b \in {1, 2} : job'[<<e, b>>].stage \notin {"idle", "sent", "record"} => e \in recorded'
             /\ job'[<<e, c>>].stage \in Deciding => job'[<<e, d>>].stage \notin Deciding
             /\ d = 1 => job'[<<e, d>>].stage # "idle"
  <2>1. j[1] = e /\ <<e, d>> \in Jobs /\ <<e, d>> # j
    BY <1>6 DEF Jobs
  <2>2. job'[<<e, c>>] = x /\ job'[<<e, d>>] = job[<<e, d>>]
    BY <1>1, <1>6, <2>1
  <2>3. job[<<e, c>>].stage \in Deciding => job[<<e, d>>].stage \notin Deciding
    BY <1>4, <1>6
  <2>4. e \notin recorded => job[<<e, d>>].stage \notin Deciding
    BY <1>4 DEF Deciding
  <2>5. job'[<<e, c>>].stage \in Deciding => job'[<<e, d>>].stage \notin Deciding
    BY <1>2, <1>6, <2>1, <2>2, <2>3, <2>4
  <2>6. job'[<<e, c>>].stage \notin {"idle", "sent", "record"} => e \in recorded'
    BY <1>2, <2>1, <2>2
  <2>7. job'[<<e, d>>].stage \notin {"idle", "sent", "record"} => e \in recorded'
    BY <1>4, <2>2
  <2>8. QED
    BY <1>4, <1>6, <2>2, <2>5, <2>6, <2>7
<1>7. QED
  BY <1>4, <1>5, <1>6

\* A handler moves; the order is kept if it comes to decide with nobody before it.
LEMMA InOrderStep ==
  ASSUME Inv, InOrder, NEW j \in Jobs, NEW x, job' = [job EXCEPT ![j] = x],
         UNCHANGED event, Waits' \subseteq Waits,
         \A e \in Waits : e \notin Waits' => e = j[1] /\ job[j].stage \in {"delta", "begin"},
         /\ ScopeEvent(j[1]) /\ x.stage \in {"delta", "begin"} /\ job[j].stage \notin {"delta", "begin"}
         => \A d \in Waits : ~(d < j[1])
  PROVE  InOrder'
<1>1. \A i \in Jobs : job'[i] = IF i = j THEN x ELSE job[i]
  BY DEF Inv, JobsOK
<1>2. SUFFICES ASSUME NEW e \in Events, NEW d \in Waits', d < e, ScopeEvent(e)
      PROVE  e \in Waits' /\ \A c \in {1, 2} : job'[<<e, c>>].stage \notin {"delta", "begin"}
  BY DEF InOrder, ScopeEvent
<1>3. d \in Waits
  BY <1>2
<1>4. e \in Waits /\ \A c \in {1, 2} : job[<<e, c>>].stage \notin {"delta", "begin"}
  BY <1>2, <1>3 DEF InOrder
<1>5. j[1] = e => job[j].stage \notin {"delta", "begin"}
  BY <1>4 DEF Jobs
<1>6. e \in Waits'
  BY <1>4, <1>5
<1>7. ASSUME NEW c \in {1, 2} PROVE job'[<<e, c>>].stage \notin {"delta", "begin"}
  <2>1. <<e, c>> \in Jobs /\ <<e, c>>[1] = e
    BY DEF Jobs
  <2>2. CASE <<e, c>> = j
    BY <1>1, <1>2, <1>3, <1>5, <2>1, <2>2
  <2>3. CASE <<e, c>> # j
    <3>1. job'[<<e, c>>] = job[<<e, c>>]
      BY <1>1, <2>1, <2>3
    <3>2. QED
      BY <1>4, <3>1
  <2>4. QED
    BY <2>2, <2>3
<1>8. QED
  BY <1>6, <1>7

LEMMA StagedStep ==
  ASSUME Inv, Staged, NEW j \in Jobs, NEW x, job' = [job EXCEPT ![j] = x], UNCHANGED event,
         x.stage \in Deciding \cup {"details", "list", "finish"} => ScopeEvent(j[1])
  PROVE  Staged'
<1>1. \A i \in Jobs : job'[i] = IF i = j THEN x ELSE job[i]
  BY DEF Inv, JobsOK
<1>2. ASSUME NEW i \in Jobs, job'[i].stage \in Deciding \cup {"details", "list", "finish"}
      PROVE  ScopeEvent(i[1])
  BY <1>1, <1>2 DEF Staged
<1>3. QED
  BY <1>2 DEF Staged, ScopeEvent

\* A handler that moves on, with the scopes on their way as they were.
LEMMA FitsMoved ==
  ASSUME Inv, Settling, NEW j \in Jobs, NEW x, job' = [job EXCEPT ![j] = x],
         UNCHANGED <<event, flow>>, git'.scope = git.scope, SameScope(row', row), Waits' = Waits,
         JobFits(x, row, Waits, event, git.scope), Begun', InOrder'
  PROVE  Settling'
<1>1. \A i \in Jobs : job'[i] = IF i = j THEN x ELSE job[i]
  BY DEF Inv, JobsOK
<1>2. RowFits(row', Waits', event', git'.scope)
  BY SameFits DEF Settling
<1>3. ASSUME NEW i \in Jobs PROVE JobFits(job'[i], row', Waits', event', git'.scope)
  <2>1. JobFits(job'[i], row, Waits, event, git.scope)
    BY <1>1 DEF Settling
  <2>2. QED
    BY <2>1, SameFits
<1>4. ASSUME NEW f \in Flows PROVE FlowFits(flow'[f], row', Waits', event', git'.scope)
  BY SameFits DEF Settling
<1>5. QED
  BY <1>2, <1>3, <1>4 DEF Settling

LEMMA QuietScope ==
  ASSUME Inv, ScopeInv, NEW j \in Jobs, NEW x, job' = [job EXCEPT ![j] = x],
         x.stage \notin Deciding \cup {"idle", "details", "list", "finish"},
         UNCHANGED <<event, recorded, flow>>, git'.scope = git.scope, SameScope(row', row),
         stray => stray',
         ~stray' /\ ScopeEvent(j[1]) =>
           /\ job[j].stage \notin Deciding
           /\ \/ j[1] \in recorded
              \/ x.stage \in {"sent", "record"}
              \/ job[j].stage \notin {"idle", "sent", "record"}
  PROVE  ScopeInv'
<1>1. Told(event', git'.scope) /\ Known'
  BY DEF ScopeInv, Known
<1>2. Staged'
  BY StagedStep DEF ScopeInv
<1>3. ASSUME ~stray' PROVE Settling'
  <2>1. Settling
    BY <1>3 DEF ScopeInv
  <2>2. Waits' = Waits
    BY <1>3, WaitsSame
  <2>3. j[1] \in Events /\ j = <<j[1], j[2]>> /\ j[2] \in {1, 2}
    BY DEF Jobs
  <2>4. ScopeEvent(j[1]) => j[1] \in recorded \/ x.stage \in {"sent", "record"}
    <3>1. ASSUME ScopeEvent(j[1]), job[j].stage \notin {"idle", "sent", "record"}
          PROVE  j[1] \in recorded
      BY <2>1, <2>3, <3>1 DEF Settling, Begun
    <3>2. QED
      BY <1>3, <3>1
  <2>5. Begun'
    BY <2>1, <2>4, BegunStep DEF Settling
  <2>6. InOrder'
    BY <2>1, <2>2, InOrderStep DEF Settling, Deciding
  <2>7. JobFits(x, row, Waits, event, git.scope)
    BY DEF JobFits
  <2>8. QED
    BY <2>1, <2>2, <2>5, <2>6, <2>7, FitsMoved
<1>4. QED
  BY <1>1, <1>2, <1>3 DEF ScopeInv

LEMMA GitHubScope == ASSUME Inv, ScopeInv, GitHub PROVE ScopeInv'
<1>0. git \in [scope : Scope, suspended : BOOLEAN, gone : BOOLEAN] /\ WellFormed(git.scope)
  BY DEF Inv, Simple, ScopeInv, Told
<1>1. CASE ChangeScope
  <2>1. PICK s \in {AllRepos} \cup {Selected(R) : R \in SUBSET Repos} :
          /\ git' = [git EXCEPT !.scope = s]
          /\ Send([Blank EXCEPT !.kind = "repos", !.sel = s.sel,
                                !.added = s.repos \ git.scope.repos,
                                !.removed = git.scope.repos \ s.repos])
    BY <1>1 DEF ChangeScope
  <2> DEFINE ev == [Blank EXCEPT !.kind = "repos", !.sel = s.sel,
                                 !.added = s.repos \ git.scope.repos,
                                 !.removed = git.scope.repos \ s.repos]
  <2>2. WellFormed(s)
    BY DEF WellFormed, AllRepos, Selected, Scope
  <2>3. s.sel \in {"all", "selected"} /\ s.repos \in SUBSET Repos /\ git.scope.repos \in SUBSET Repos
    BY <1>0, <2>2 DEF WellFormed, Scope
  <2>4. /\ ev \in EventType /\ ev.kind = "repos" /\ ev.sel = s.sel
        /\ ev.added = s.repos \ git.scope.repos /\ ev.removed = git.scope.repos \ s.repos
    BY <2>3 DEF Blank, EventType, Kinds
  <2>5. git'.scope = s
    BY <1>0, <2>1
  <2>6. PICK e \in Events : /\ Fresh(e)
                            /\ event' = [event EXCEPT ![e] = ev]
                            /\ job' = [job EXCEPT ![<<e, 1>>].stage = "sent"]
    BY <2>1 DEF Send
  <2>7. UNCHANGED <<recorded, row, flow, stray>>
    BY <1>1 DEF ChangeScope, history
  <2> HIDE DEF ev
  <2>8. QED
    BY <2>2, <2>4, <2>5, <2>6, <2>7, NewEventScope
<1>2. ASSUME NEW ev \in EventType, ev.kind \notin {"none", "repos"}, Send(ev),
             git'.scope = git.scope, UNCHANGED <<recorded, row, flow, effects, history>>
      PROVE  ScopeInv'
  <2>1. PICK e \in Events : /\ Fresh(e)
                            /\ event' = [event EXCEPT ![e] = ev]
                            /\ job' = [job EXCEPT ![<<e, 1>>].stage = "sent"]
    BY <1>2 DEF Send
  <2>2. UNCHANGED <<recorded, row, flow, stray>>
    BY <1>2 DEF history
  <2>3. QED
    BY <1>2, <2>1, <2>2, NewEventScope
<1>3. CASE SuspendOrNot
  <2> DEFINE ev == [Blank EXCEPT !.kind = IF git.suspended THEN "unsuspend" ELSE "suspend"]
  <2>1. ev \in EventType /\ ev.kind \notin {"none", "repos"}
    BY BlankOK DEF Blank, EventType, Kinds
  <2>2. git'.scope = git.scope
    BY <1>0, <1>3 DEF SuspendOrNot
  <2>3. Send(ev) /\ UNCHANGED <<recorded, row, flow, effects, history>>
    BY <1>3 DEF SuspendOrNot
  <2> HIDE DEF ev
  <2>4. QED
    BY <2>1, <2>2, <2>3, <1>2
<1>4. CASE Uninstall
  <2> DEFINE ev == [Blank EXCEPT !.kind = "deleted"]
  <2>1. ev \in EventType /\ ev.kind \notin {"none", "repos"}
    BY BlankOK DEF Blank, EventType, Kinds
  <2>2. git'.scope = git.scope
    BY <1>0, <1>4 DEF Uninstall
  <2>3. Send(ev) /\ UNCHANGED <<recorded, row, flow, effects, history>>
    BY <1>4 DEF Uninstall
  <2> HIDE DEF ev
  <2>4. QED
    BY <2>1, <2>2, <2>3, <1>2
<1>5. CASE \E r \in Repos, kind \in {"pr", "push"} : Develop(kind, r)
  <2>1. PICK r \in Repos, kind \in {"pr", "push"} : Develop(kind, r)
    BY <1>5
  <2> DEFINE ev == [Blank EXCEPT !.kind = kind, !.repo = {r}]
  <2>2. ev \in EventType /\ ev.kind \notin {"none", "repos"}
    BY BlankOK DEF Blank, EventType, Kinds
  <2>3. Send(ev) /\ UNCHANGED <<git, recorded, row, flow, effects, history>>
    BY <2>1 DEF Develop
  <2> HIDE DEF ev
  <2>4. QED
    BY <2>2, <2>3, <1>2
<1>6. CASE \E r \in Repos : CompleteIssue(r)
  <2>1. PICK r \in Repos : CompleteIssue(r)
    BY <1>6
  <2> DEFINE ev == [Blank EXCEPT !.kind = "completed", !.repo = {r}]
  <2>2. ev \in EventType /\ ev.kind \notin {"none", "repos"}
    BY BlankOK DEF Blank, EventType, Kinds
  <2>3. PICK e \in Events : /\ Fresh(e)
                            /\ event' = [event EXCEPT ![e] = ev]
                            /\ job' = [job EXCEPT ![<<e, 1>>].stage = "notify"]
    BY <2>1 DEF CompleteIssue
  <2>4. UNCHANGED <<git, recorded, row, flow, stray>>
    BY <2>1 DEF CompleteIssue, history
  <2> HIDE DEF ev
  <2>5. QED
    BY <2>2, <2>3, <2>4, NewEventScope
<1>7. CASE \E e \in Events : Redeliver(e)
  <2>1. PICK e \in Events : Redeliver(e)
    BY <1>7
  <2> DEFINE j == <<e, 2>>
             x == [job[j] EXCEPT !.stage = "sent"]
  <2>2. j \in Jobs /\ job \in [Jobs -> JobType]
    BY DEF Jobs, Inv, JobsOK
  <2>3. job' = [job EXCEPT ![j] = x] /\ UNCHANGED <<git, event, recorded, row, flow, stray>>
    BY <2>1 DEF Redeliver, history
  <2>4. x.stage = "sent" /\ job[j].stage = "idle"
    BY <2>1, <2>2 DEF Redeliver, JobType
  <2> HIDE DEF j, x
  <2>5. SameScope(row', row) /\ git'.scope = git.scope
    BY <2>3 DEF SameScope
  <2>6. QED
    BY <2>2, <2>3, <2>4, <2>5, QuietScope DEF Deciding
<1>8. QED
  BY <1>1, <1>3, <1>4, <1>5, <1>6, <1>7 DEF GitHub

-----------------------------------------------------------------------------
\* The handler's steps that have nothing to do with the scope.
Elsewhere == {"change", "pr", "link", "activity", "rules", "notify", "token", "ask", "asking", "cache",
              "status", "comment", "commenting", "done"}

Aside(j) ==
  \/ job[j].stage \in Elsewhere \cup {"details", "list", "finish"}
  \/ j[1] \in recorded /\ job[j].stage \in {"sent", "record"}

LEMMA ElsewhereScope ==
  ASSUME Inv, ScopeInv, NEW j \in Jobs, NEW x, job' = [job EXCEPT ![j] = x],
         x.stage \in Elsewhere,
         Aside(j),
         UNCHANGED <<git, event, recorded, flow, stray>>, SameScope(row', row)
  PROVE  ScopeInv'
BY QuietScope DEF Aside, Elsewhere, Deciding

LEMMA ElsewhereEnd ==
  ASSUME Inv, ScopeInv, NEW j \in Jobs, End(j),
         Aside(j),
         UNCHANGED <<git, event, recorded, flow, stray>>, SameScope(row', row)
  PROVE  ScopeInv'
<1>1. Done.stage \in Elsewhere
  BY DEF Done, NewJob, Elsewhere
<1>2. QED
  BY <1>1, ElsewhereScope DEF End

LEMMA ElsewhereGoto ==
  ASSUME Inv, ScopeInv, NEW j \in Jobs, NEW s \in Elsewhere, Goto(j, s), job[j].stage \in Elsewhere,
         UNCHANGED <<git, event, recorded, flow, stray>>, SameScope(row', row)
  PROVE  ScopeInv'
<1> DEFINE x == [job[j] EXCEPT !.stage = s]
<1>1. job' = [job EXCEPT ![j] = x]
  BY DEF Goto
<1>2. x.stage = s
  BY DEF Inv, JobsOK, JobType
<1> HIDE DEF x
<1>3. QED
  BY <1>1, <1>2, ElsewhereScope DEF Aside

LEMMA ElsewhereOnWith ==
  ASSUME Inv, ScopeInv, NEW j \in Jobs, NEW has, OnWith(j, has), job[j].stage \in Elsewhere,
         UNCHANGED <<git, event, recorded, flow, stray>>, SameScope(row', row)
  PROVE  ScopeInv'
<1>0. job[j] \in JobType
  BY DEF Inv, JobsOK
<1>1. ASSUME NEW s \in {"status", "comment"}, NEW t,
             job' = [job EXCEPT ![j].stage = s, ![j].token = t, ![j].asof = 0]
      PROVE  ScopeInv'
  <2> DEFINE x == [job[j] EXCEPT !.stage = s, !.token = t, !.asof = 0]
  <2>1. job' = [job EXCEPT ![j] = x]
    BY <1>1
  <2>2. x.stage \in Elsewhere
    BY <1>0 DEF JobType, Elsewhere
  <2> HIDE DEF x
  <2>3. QED
    BY <2>1, <2>2, ElsewhereScope DEF Aside
<1>2. QED
  BY <1>1, ElsewhereEnd DEF OnWith, Aside

LEMMA SameRow == ASSUME UNCHANGED row PROVE SameScope(row', row)
BY DEF SameScope

LEMMA ElsewhereSteps ==
  ASSUME Inv, ScopeInv, NEW j \in Jobs,
         \/ Link(j) \/ Activity(j) \/ ReadForLinks(j) \/ ReadForRules(j) \/ GetToken(j)
         \/ AskToken(j) \/ TokenAnswered(j) \/ SetStatus(j) \/ AskComment(j) \/ CommentAnswered(j)
  PROVE  ScopeInv'
<1>0. /\ UNCHANGED <<git, event, recorded, flow, stray>> /\ SameScope(row', row)
      /\ job[j].stage \in Elsewhere
  <2>1. UNCHANGED <<git, event, recorded, row, flow, history>>
    BY DEF Link, Activity, ReadForLinks, ReadForRules, GetToken, AskToken, TokenAnswered,
           SetStatus, AskComment, CommentAnswered
  <2>2. job[j].stage \in Elsewhere
    BY DEF Link, Activity, ReadForLinks, ReadForRules, GetToken, AskToken, TokenAnswered,
           SetStatus, AskComment, CommentAnswered, Elsewhere
  <2>3. QED
    BY <2>1, <2>2, SameRow DEF history
<1>1. CASE End(j)
  BY <1>0, <1>1, ElsewhereEnd DEF Aside
<1>2. CASE \E s \in Elsewhere : Goto(j, s)
  BY <1>0, <1>2, ElsewhereGoto
<1>3. CASE \E has : OnWith(j, has)
  BY <1>0, <1>3, ElsewhereOnWith
<1>4. ASSUME NEW s \in Elsewhere,
             \/ job' = [job EXCEPT ![j].stage = s, ![j].gen = row.gen]
             \/ job' = [job EXCEPT ![j].stage = s, ![j].asof = changes]
      PROVE  ScopeInv'
  <2>1. PICK x \in {[job[j] EXCEPT !.stage = s, !.gen = row.gen],
                    [job[j] EXCEPT !.stage = s, !.asof = changes]} : job' = [job EXCEPT ![j] = x]
    BY <1>4
  <2>2. x.stage = s
    BY DEF Inv, JobsOK, JobType
  <2>3. QED
    BY <1>0, <2>1, <2>2, ElsewhereScope DEF Aside
<1>5. CASE ReadForLinks(j) \/ ReadForRules(j) \/ AskToken(j)
  <2>1. "link" \in Elsewhere /\ "token" \in Elsewhere /\ "asking" \in Elsewhere /\ "rules" \in Elsewhere
    BY DEF Elsewhere
  <2>2. QED
    BY <1>1, <1>2, <1>3, <1>4, <1>5, <2>1 DEF ReadForLinks, ReadForRules, AskToken
<1>6. CASE \/ Link(j) \/ Activity(j) \/ GetToken(j) \/ TokenAnswered(j) \/ SetStatus(j)
           \/ AskComment(j) \/ CommentAnswered(j)
  <2>1. \A s \in {"activity", "rules", "ask", "cache", "comment", "commenting"} : s \in Elsewhere
    BY DEF Elsewhere
  <2>2. End(j) \/ (\E s \in Elsewhere : Goto(j, s)) \/ (\E has : OnWith(j, has))
    BY <1>6, <2>1 DEF Link, Activity, GetToken, TokenAnswered, SetStatus, AskComment, CommentAnswered
  <2>3. QED
    BY <1>1, <1>2, <1>3, <2>2
<1>7. QED
  BY <1>5, <1>6

LEMMA CacheTokenScope ==
  ASSUME Inv, ScopeInv, NEW j \in Jobs, CacheToken(j)
  PROVE  ScopeInv'
<1>1. UNCHANGED <<git, event, recorded, flow, stray>> /\ job[j].stage \in Elsewhere
  BY DEF CacheToken, history, Elsewhere
<1>2. SameScope(row', row)
  <2>1. row \in RowType
    BY DEF Inv, RowOK
  <2>2. UNCHANGED row \/ row' = [row EXCEPT !.token = {job[j].asof}]
    BY DEF CacheToken
  <2>3. QED
    BY <2>1, <2>2 DEF SameScope, RowType
<1>3. \E has : OnWith(j, has)
  BY DEF CacheToken
<1>4. QED
  BY <1>1, <1>2, <1>3, ElsewhereOnWith

LEMMA RequestFailsScope ==
  ASSUME Inv, ScopeInv, NEW j \in Jobs, RequestFails(j)
  PROVE  ScopeInv'
<1>1. UNCHANGED <<git, event, recorded, flow, stray>> /\ SameScope(row', row)
  BY SameRow DEF RequestFails, history
<1>2. CASE job[j].stage \in {"details", "list"} /\ End(j)
  BY <1>1, <1>2, ElsewhereEnd DEF Aside
<1>3. CASE job[j].stage = "asking" /\ OnWith(j, FALSE)
  BY <1>1, <1>3, ElsewhereOnWith DEF Elsewhere
<1>4. QED
  BY <1>2, <1>3 DEF RequestFails

LEMMA AbandonScope ==
  ASSUME Inv, ScopeInv, NEW j \in Jobs, Abandon(j)
  PROVE  ScopeInv'
<1>1. UNCHANGED <<git, event, recorded, row, flow>> /\ SameScope(row', row)
  BY SameRow DEF Abandon
<1>2. job' = [job EXCEPT ![j] = Done] /\ stray' = (stray \/ event[j[1]].kind = "repos")
  BY DEF Abandon, End
<1>3. Done.stage \notin Deciding \cup {"idle", "details", "list", "finish"}
  BY DEF Done, NewJob, Deciding
<1>4. ~(~stray' /\ ScopeEvent(j[1])) /\ (stray => stray')
  BY <1>2 DEF ScopeEvent
<1>5. git'.scope = git.scope
  BY <1>1
<1>6. QED
  BY <1>1, <1>2, <1>3, <1>4, <1>5, QuietScope

-----------------------------------------------------------------------------
\* The handler's steps up to the row.
LEMMA MovedScope ==
  ASSUME Inv, ScopeInv, NEW j \in Jobs, NEW x, job' = [job EXCEPT ![j] = x],
         UNCHANGED <<event, flow>>, git'.scope = git.scope, SameScope(row', row),
         Waits' = Waits, Known', x.stage # "idle", recorded \subseteq recorded', stray => stray',
         x.stage \in Deciding \cup {"details", "list", "finish"} => ScopeEvent(j[1]),
         ~stray' /\ ScopeEvent(j[1]) =>
           /\ j[1] \in recorded'
           /\ x.stage \in Deciding => job[j].stage \in Deciding \/ j[1] \notin recorded
           /\ x.stage \in {"delta", "begin"} => \A d \in Waits : ~(d < j[1]),
         ~stray' => JobFits(x, row, Waits, event, git.scope)
  PROVE  ScopeInv'
<1>1. Told(event', git'.scope)
  BY DEF ScopeInv
<1>2. Staged'
  BY StagedStep DEF ScopeInv
<1>3. ASSUME ~stray' PROVE Settling'
  <2>1. Settling
    BY <1>3 DEF ScopeInv
  <2>2. Begun'
    BY <1>3, <2>1, BegunStep DEF Settling
  <2>3. InOrder'
    BY <1>3, <2>1, InOrderStep DEF Settling
  <2>4. QED
    BY <1>3, <2>1, <2>2, <2>3, FitsMoved
<1>4. QED
  BY <1>1, <1>2, <1>3 DEF ScopeInv

LEMMA ReceiveScope ==
  ASSUME Inv, ScopeInv, NEW j \in Jobs, Receive(j)
  PROVE  ScopeInv'
<1>1. /\ job[j].stage = "sent" /\ UNCHANGED <<git, event, recorded, row, flow, stray>>
      /\ SameScope(row', row)
  BY SameRow DEF Receive, history
<1>2. CASE j[1] \in recorded
  BY <1>1, <1>2, ElsewhereEnd DEF Receive, Aside
<1>3. CASE j[1] \notin recorded
  <2> DEFINE go == row.there /\ (event[j[1]].kind = "pr" => Allows(row, Repo(j)))
             x == [job[j] EXCEPT !.stage = "record", !.go = go]
  <2>1. job' = [job EXCEPT ![j] = x]
    BY <1>3 DEF Receive
  <2> HIDE DEF go
  <2>2. x.stage = "record"
    BY DEF Inv, JobsOK, JobType
  <2> HIDE DEF x
  <2>3. git'.scope = git.scope
    BY <1>1
  <2>4. QED
    BY <1>1, <2>1, <2>2, <2>3, QuietScope DEF Deciding
<1>4. QED
  BY <1>2, <1>3

LEMMA RecordScope ==
  ASSUME Inv, ScopeInv, NEW j \in Jobs, Record(j)
  PROVE  ScopeInv'
<1>1. job[j].stage = "record" /\ UNCHANGED <<git, event, row, flow>> /\ SameScope(row', row)
  BY SameRow DEF Record
<1>2. CASE j[1] \in recorded
  BY <1>1, <1>2, ElsewhereEnd DEF Record, Aside
<1>3. CASE j[1] \notin recorded
  <2>1. /\ recorded' = recorded \cup {j[1]}
        /\ IF job[j].go THEN Goto(j, Dispatch(event[j[1]].kind)) ELSE End(j)
        /\ stray' = (stray \/ (event[j[1]].kind = "repos" /\ ~job[j].go))
    BY <1>3 DEF Record
  <2>2. job[j] \in JobType /\ event[j[1]].kind # "none" /\ j[1] \in Events
    BY <1>1, Underway
  <2>3. PICK x : /\ job' = [job EXCEPT ![j] = x]
                 /\ x.stage \in {"done", "change", "scope", "pr"}
                 /\ x.stage = "scope" => event[j[1]].kind = "repos"
                 /\ ~stray' /\ event[j[1]].kind = "repos" => x.stage = "scope"
    <3>1. CASE job[j].go
      <4> DEFINE s == Dispatch(event[j[1]].kind)
                 x == [job[j] EXCEPT !.stage = s]
      <4>1. /\ s \in {"change", "scope", "pr"}
            /\ s = "scope" <=> event[j[1]].kind = "repos"
        BY DEF Dispatch
      <4>2. job' = [job EXCEPT ![j] = x]
        BY <2>1, <3>1 DEF Goto
      <4> HIDE DEF s
      <4>3. x.stage = s
        BY <2>2 DEF JobType
      <4> HIDE DEF x
      <4>4. QED
        BY <4>1, <4>2, <4>3
    <3>2. CASE ~job[j].go
      <4>1. job' = [job EXCEPT ![j] = Done] /\ Done.stage = "done"
        BY <2>1, <3>2 DEF End, Done, NewJob
      <4>2. ~stray' => event[j[1]].kind # "repos"
        BY <2>1, <3>2
      <4>3. QED
        BY <4>1, <4>2
    <3>3. QED
      BY <3>1, <3>2
  <2>4. Known'
    BY <1>1, <2>1, <2>2 DEF ScopeInv, Known
  <2>5. CASE stray'
    <3>1. Staged'
      BY <1>1, <2>3, StagedStep DEF ScopeInv, Deciding, ScopeEvent
    <3>2. QED
      BY <1>1, <2>4, <2>5, <3>1 DEF ScopeInv
  <2>6. CASE ~stray'
    <3>1. ASSUME NEW e \in Events PROVE e \in Waits' <=> e \in Waits
      <4>1. \A i \in Jobs : job'[i] = IF i = j THEN x ELSE job[i]
        BY <2>3 DEF Inv, JobsOK
      <4>2. CASE e # j[1]
        <5>1. \A c \in {1, 2} : <<e, c>> \in Jobs /\ <<e, c>> # j
          BY <4>2 DEF Jobs
        <5>2. \A c \in {1, 2} : job'[<<e, c>>] = job[<<e, c>>]
          BY <4>1, <5>1
        <5>3. QED
          BY <1>1, <2>1, <4>2, <5>2 DEF Waits, ScopeEvent
      <4>3. CASE e = j[1]
        <5>1. e \in Waits <=> event[e].kind = "repos"
          BY <1>3, <4>3 DEF Waits, ScopeEvent
        <5>2. PICK c \in {1, 2} : j = <<e, c>>
          BY <4>3 DEF Jobs
        <5>3. job'[<<e, c>>].stage = x.stage
          BY <4>1, <5>2
        <5>4. event[e].kind = "repos" => e \in Waits'
          BY <1>1, <2>3, <2>6, <4>3, <5>3 DEF Waits, ScopeEvent, Deciding
        <5>5. e \in Waits' => event[e].kind = "repos"
          BY <1>1 DEF Waits, ScopeEvent
        <5>6. QED
          BY <5>1, <5>4, <5>5
      <4>4. QED
        BY <4>2, <4>3
    <3>2. Waits' = Waits
      BY <3>1 DEF Waits
    <3>3. JobFits(x, row, Waits, event, git.scope)
      BY <2>3 DEF JobFits
    <3>4. /\ x.stage # "idle" /\ (stray => stray') /\ git'.scope = git.scope
          /\ recorded \subseteq recorded' /\ j[1] \in recorded'
      BY <1>1, <2>1, <2>3
    <3>5. /\ x.stage \in Deciding \cup {"details", "list", "finish"} => ScopeEvent(j[1])
          /\ x.stage \notin {"delta", "begin"}
      BY <2>3 DEF Deciding, ScopeEvent
    <3>6. QED
      BY <1>1, <1>3, <2>3, <2>4, <3>2, <3>3, <3>4, <3>5, MovedScope
  <2>7. QED
    BY <2>5, <2>6
<1>4. QED
  BY <1>2, <1>3

\* What is decided about a scope event is decided after all those before it.
LEMMA ReadScopeScope ==
  ASSUME Inv, ScopeInv, NEW j \in Jobs, ReadScope(j)
  PROVE  ScopeInv'
<1> DEFINE s == IF row.pending \/ (row.scope.sel = "all" /\ event[j[1]].sel = "selected")
                THEN "begin" ELSE "delta"
           x == [job[j] EXCEPT !.stage = s]
<1>1. /\ job[j].stage = "scope" /\ UNCHANGED <<git, event, recorded, row, flow>>
      /\ stray' = (stray \/ Early(j[1])) /\ job' = [job EXCEPT ![j] = x]
  BY DEF ReadScope, Goto
<1>2. SameScope(row', row) /\ git'.scope = git.scope
  BY <1>1 DEF SameScope
<1>3. s \in {"begin", "delta"}
  OBVIOUS
<1> HIDE DEF s
<1>4. x.stage = s
  BY DEF Inv, JobsOK, JobType
<1> HIDE DEF x
<1>5. ScopeEvent(j[1]) /\ j[1] \in Events
  BY <1>1, Pairs DEF ScopeInv, Staged, Deciding
<1>6. Waits' = Waits
  BY <1>1, <1>3, <1>4, WaitsSame DEF Deciding
<1>7. ASSUME ~stray' PROVE j[1] \in recorded /\ \A d \in Waits : ~(d < j[1])
  <2>1. Begun /\ ~Early(j[1])
    BY <1>1, <1>7 DEF ScopeInv, Settling
  <2>2. j = <<j[1], j[2]>> /\ j[2] \in {1, 2}
    BY DEF Jobs
  <2>3. j[1] \in recorded
    BY <1>1, <1>5, <2>1, <2>2 DEF Begun
  <2>4. ASSUME NEW d \in Waits, d < j[1] PROVE FALSE
    <3>1. d \in Events /\ event[d].kind = "repos" /\ d \in 1..(j[1] - 1)
      BY <1>5, <2>4, GitHubConnectionAssumption DEF Waits, ScopeEvent, Events
    <3>2. \A c \in {1, 2} : job[<<d, c>>].stage \notin {"sent", "record", "scope", "delta", "begin"}
      BY <2>1, <3>1 DEF Early
    <3>3. d \in recorded
      BY <2>1, <3>1, <3>2 DEF Begun, ScopeEvent
    <3>4. QED
      BY <2>4, <3>2, <3>3 DEF Waits, Deciding
  <2>5. QED
    BY <2>3, <2>4
<1>8. JobFits(x, row, Waits, event, git.scope)
  BY <1>3, <1>4 DEF JobFits
<1>9. Known' /\ x.stage # "idle" /\ (stray => stray') /\ recorded \subseteq recorded'
  BY <1>1, <1>3, <1>4 DEF ScopeInv, Known
<1>10. job[j].stage \in Deciding
  BY <1>1 DEF Deciding
<1>11. j[1] \in recorded => j[1] \in recorded'
  BY <1>1
<1>12. UNCHANGED <<event, flow>> /\ job' = [job EXCEPT ![j] = x]
  BY <1>1
<1>13. QED
  BY <1>2, <1>5, <1>6, <1>7, <1>8, <1>9, <1>10, <1>11, <1>12, MovedScope

\* What GitHub says now is right.
LEMMA GrantFits ==
  ASSUME NEW W, NEW ev, NEW g, WellFormed(g), (W = {}) => g.sel = "selected"
  PROVE  Fits(Selected(g.repos), W, ev, g)
BY DEF Fits, WellFormed, Selected, Scope

LEMMA AllFits ==
  ASSUME NEW W, NEW ev, NEW g, WellFormed(g), g.sel = "all"
  PROVE  Fits(AllRepos, W, ev, g)
BY DEF Fits, WellFormed, AllRepos, Scope

LEMMA FetchScope ==
  ASSUME Inv, ScopeInv, NEW j \in Jobs, FetchDetails(j) \/ FetchList(j)
  PROVE  ScopeInv'
<1>1. /\ job[j].stage \in {"details", "list"}
      /\ UNCHANGED <<git, event, recorded, row, flow, stray>> /\ SameScope(row', row)
  BY SameRow DEF FetchDetails, FetchList, history
<1>2. job[j] \in JobType /\ WellFormed(git.scope)
  BY DEF Inv, JobsOK, ScopeInv, Told
<1>3. ASSUME NEW x, job' = [job EXCEPT ![j] = x], x.stage \in {"list", "finish"},
             ~stray => JobFits(x, row, Waits, event, git.scope)
      PROVE  ScopeInv'
  <2>1. ScopeEvent(j[1])
    BY <1>1 DEF ScopeInv, Staged
  <2>2. Waits' = Waits
    BY <1>1, <1>3, WaitsSame DEF Deciding
  <2>3. ~stray => j[1] \in recorded
    <3>1. j[1] \in Events /\ j = <<j[1], j[2]>> /\ j[2] \in {1, 2}
      BY DEF Jobs
    <3>2. QED
      BY <1>1, <2>1, <3>1 DEF ScopeInv, Settling, Begun
  <2>4. Known' /\ git'.scope = git.scope
    BY <1>1 DEF ScopeInv, Known
  <2>5. x.stage \notin Deciding /\ x.stage \notin {"delta", "begin"} /\ x.stage # "idle"
    BY <1>3 DEF Deciding
  <2>6. recorded \subseteq recorded' /\ (stray => stray') /\ (stray' <=> stray)
        /\ (j[1] \in recorded => j[1] \in recorded')
    BY <1>1
  <2>7. UNCHANGED <<event, flow>> /\ SameScope(row', row)
    BY <1>1
  <2>8. QED
    BY <1>3, <2>1, <2>2, <2>3, <2>4, <2>5, <2>6, <2>7, MovedScope
<1>4. CASE End(j)
  BY <1>1, <1>4, ElsewhereEnd DEF Aside
<1>5. CASE FetchDetails(j) /\ git.scope.sel = "all" /\ ~End(j)
  <2> DEFINE x == [job[j] EXCEPT !.stage = "finish", !.scope = AllRepos]
  <2>1. job' = [job EXCEPT ![j] = x]
    BY <1>5 DEF FetchDetails
  <2>2. x.stage = "finish" /\ x.scope = AllRepos
    BY <1>2 DEF JobType
  <2> HIDE DEF x
  <2>3. JobFits(x, row, Waits, event, git.scope)
    BY <1>2, <1>5, <2>2, AllFits DEF JobFits
  <2>4. QED
    BY <2>1, <2>2, <2>3, <1>3
<1>6. CASE FetchDetails(j) /\ git.scope.sel # "all" /\ ~End(j)
  <2> DEFINE x == [job[j] EXCEPT !.stage = "list"]
  <2>1. job' = [job EXCEPT ![j] = x]
    BY <1>6 DEF FetchDetails, Goto
  <2>2. x.stage = "list"
    BY <1>2 DEF JobType
  <2> HIDE DEF x
  <2>3. JobFits(x, row, Waits, event, git.scope)
    BY <1>2, <1>6, <2>2 DEF JobFits, WellFormed, Scope
  <2>4. QED
    BY <2>1, <2>2, <2>3, <1>3
<1>7. CASE FetchList(j) /\ ~End(j)
  <2> DEFINE s == Selected(git.scope.repos)
             x == [job[j] EXCEPT !.stage = "finish", !.scope = s]
  <2>1. job' = [job EXCEPT ![j] = x] /\ job[j].stage = "list"
    BY <1>7 DEF FetchList
  <2> HIDE DEF s
  <2>2. x.stage = "finish" /\ x.scope = s /\ x.gen = job[j].gen
    BY <1>2 DEF JobType
  <2> HIDE DEF x
  <2>3. ASSUME ~stray PROVE JobFits(x, row, Waits, event, git.scope)
    <3>1. JobFits(job[j], row, Waits, event, git.scope)
      BY <2>3 DEF ScopeInv, Settling
    <3>2. row.pending /\ x.gen = row.gen => (Waits = {} => git.scope.sel = "selected")
      BY <2>1, <2>2, <3>1 DEF JobFits
    <3>3. row.pending /\ x.gen = row.gen => Fits(s, Waits, event, git.scope)
      BY <1>2, <3>2, GrantFits DEF s
    <3>4. QED
      BY <2>2, <3>3 DEF JobFits
  <2>4. QED
    BY <2>1, <2>2, <2>3, <1>3
<1>8. QED
  BY <1>4, <1>5, <1>6, <1>7

-----------------------------------------------------------------------------
\* The steps that change the row.
\* Nothing that was on its way to the row may go there in a new generation.
LEMMA NewerFits ==
  ASSUME Inv, NEW w, w.there, w.gen = row.gen + 1, NEW V, NEW ev, NEW g
  PROVE  /\ \A j \in Jobs : JobFits(job[j], w, V, ev, g)
         /\ \A f \in Flows : FlowFits(flow[f], row, Waits, event, git.scope)
                               => FlowFits(flow[f], w, V, ev, g)
<1>0. row.gen \in Nat
  BY DEF Inv, RowOK, RowType
<1>1. ASSUME NEW j \in Jobs PROVE JobFits(job[j], w, V, ev, g)
  <2>1. job[j].gen \in Nat /\ job[j].gen <= row.gen
    BY DEF Inv, JobsOK, JobOK, JobType
  <2>2. job[j].gen # w.gen
    BY <1>0, <2>1
  <2>3. QED
    BY <2>2 DEF JobFits
<1>2. ASSUME NEW f \in Flows, FlowFits(flow[f], row, Waits, event, git.scope)
      PROVE  FlowFits(flow[f], w, V, ev, g)
  <2>1. FlowOK(flow[f], row, stops)
    BY DEF Inv, FlowsOK
  <2>2. flow[f].expected \in Nat /\ flow[f].archived \subseteq Nat
    BY <2>1 DEF FlowOK, FlowType
  <2>3. ~May(flow[f], w)
    BY <1>0, <2>1, <2>2 DEF FlowOK, May
  <2>4. QED
    BY <1>2, <2>3 DEF FlowFits
<1>3. QED
  BY <1>1, <1>2

LEMMA BumpedScope ==
  ASSUME NEW w \in RowType
  PROVE  /\ Bumped(w).gen = w.gen + 1 /\ Bumped(w).there = w.there
         /\ Bumped(w).pending = w.pending /\ Bumped(w).scope = w.scope
         /\ Bumped(w).archived = w.archived
BY DEF Bumped, RowType

\* A handler that ends with a new generation of the row, or starts one.
LEMMA NewGenScope ==
  ASSUME Inv, ScopeInv, NEW j \in Jobs, NEW x, job' = [job EXCEPT ![j] = x],
         UNCHANGED <<git, event, recorded, flow>>, stray => stray',
         row'.there, row'.gen = row.gen + 1,
         x.stage \in {"done", "details"},
         job[j].stage \in {"change", "delta", "begin"},
         job[j].stage = "change" => x.stage = "done",
         ~stray' => RowFits(row', Waits', event, git.scope)
  PROVE  ScopeInv'
<1>1. Told(event', git'.scope) /\ Known'
  BY DEF ScopeInv, Known
<1>2. \A i \in Jobs : job'[i] = IF i = j THEN x ELSE job[i]
  BY DEF Inv, JobsOK
<1>3. Staged'
  <2>1. x.stage \in Deciding \cup {"details", "list", "finish"} => ScopeEvent(j[1])
    BY DEF Deciding, ScopeInv, Staged
  <2>2. QED
    BY <2>1, StagedStep DEF ScopeInv
<1>4. ASSUME ~stray' PROVE Settling'
  <2>1. Settling
    BY <1>4 DEF ScopeInv
  <2>2. j[1] \in Events /\ j = <<j[1], j[2]>> /\ j[2] \in {1, 2}
    BY DEF Jobs
  <2>3. Waits' \subseteq Waits
    <3>1. ASSUME NEW e \in Waits' PROVE e \in Waits
      <4>1. e \in Events /\ ScopeEvent(e)
        BY DEF Waits, ScopeEvent
      <4>2. \A c \in {1, 2} : job'[<<e, c>>].stage \in Deciding => job[<<e, c>>].stage \in Deciding
        <5>1. ASSUME NEW c \in {1, 2}, job'[<<e, c>>].stage \in Deciding
              PROVE  job[<<e, c>>].stage \in Deciding
          <6>1. <<e, c>> \in Jobs
            BY <4>1 DEF Jobs
          <6>2. <<e, c>> # j
            BY <1>2, <5>1, <6>1 DEF Deciding
          <6>3. QED
            BY <1>2, <5>1, <6>1, <6>2
        <5>2. QED
          BY <5>1
      <4>3. QED
        BY <4>1, <4>2 DEF Waits, ScopeEvent
    <3>2. QED
      BY <3>1
  <2>4. ASSUME NEW e \in Waits, e \notin Waits'
        PROVE  e = j[1] /\ job[j].stage \in {"delta", "begin"}
    <3>1. e \in Events /\ ScopeEvent(e) /\ e \in recorded
      BY <2>4 DEF Waits, ScopeEvent
    <3>2. PICK c \in {1, 2} : job[<<e, c>>].stage \in Deciding /\ job'[<<e, c>>].stage \notin Deciding
      BY <2>4, <3>1 DEF Waits, ScopeEvent
    <3>3. <<e, c>> \in Jobs
      BY <3>1 DEF Jobs
    <3>4. <<e, c>> = j
      BY <1>2, <3>2, <3>3
    <3>5. QED
      BY <3>2, <3>4 DEF Deciding
  <2>5. ScopeEvent(j[1]) => j[1] \in recorded
    BY <2>1, <2>2 DEF Settling, Begun
  <2>6. Begun'
    BY <2>1, <2>5, BegunStep DEF Settling, Deciding
  <2>7. InOrder'
    BY <2>1, <2>3, <2>4, InOrderStep DEF Settling
  <2>8. RowFits(row', Waits', event', git'.scope)
    BY <1>4
  <2>9. \A i \in Jobs : JobFits(job[i], row', Waits', event', git'.scope)
    BY NewerFits
  <2>10. JobFits(x, row', Waits', event', git'.scope)
    BY DEF JobFits
  <2>11. \A i \in Jobs : JobFits(job'[i], row', Waits', event', git'.scope)
    BY <1>2, <2>9, <2>10
  <2>12. \A f \in Flows : FlowFits(flow'[f], row', Waits', event', git'.scope)
    BY <2>1, NewerFits DEF Settling
  <2>13. QED
    BY <2>6, <2>7, <2>8, <2>11, <2>12 DEF Settling
<1>5. QED
  BY <1>1, <1>3, <1>4 DEF ScopeInv

LEMMA LifecycleScope ==
  ASSUME Inv, ScopeInv, NEW j \in Jobs, Lifecycle(j)
  PROVE  ScopeInv'
<1>1. /\ job[j].stage = "change" /\ job' = [job EXCEPT ![j] = Done]
      /\ UNCHANGED <<git, event, recorded, flow, stray>>
  BY DEF Lifecycle, End
<1>2. row \in RowType /\ row.there /\ Done.stage = "done"
  BY <1>1, Underway DEF JobOK, Done, NewJob
<1>3. PICK w \in RowType : /\ row' = Bumped(w) /\ w.there /\ w.gen = row.gen
                           /\ w.pending = row.pending /\ w.scope = row.scope
  <2>1. \A b \in BOOLEAN : /\ [row EXCEPT !.uninstalled = b] \in RowType
                           /\ [row EXCEPT !.suspended = b] \in RowType
    BY <1>2 DEF RowType
  <2>2. \A b \in BOOLEAN : \A w \in {[row EXCEPT !.uninstalled = b], [row EXCEPT !.suspended = b]} :
          w.there /\ w.gen = row.gen /\ w.pending = row.pending /\ w.scope = row.scope
    BY <1>2 DEF RowType
  <2>3. \E b \in BOOLEAN : \/ row' = Bumped([row EXCEPT !.uninstalled = b])
                           \/ row' = Bumped([row EXCEPT !.suspended = b])
    BY DEF Lifecycle
  <2>4. QED
    BY <2>1, <2>2, <2>3
<1>4. /\ row'.there /\ row'.gen = row.gen + 1 /\ row'.pending = row.pending
      /\ row'.scope = row.scope
  BY <1>3, BumpedScope
<1>5. Waits' = Waits
  BY <1>1, <1>2, WaitsSame DEF Deciding
<1>6. ~stray' => RowFits(row', Waits', event, git.scope)
  BY <1>1, <1>2, <1>4, <1>5 DEF ScopeInv, Settling, RowFits
<1>7. QED
  BY <1>1, <1>2, <1>4, <1>6, NewGenScope

LEMMA BeginScope ==
  ASSUME Inv, ScopeInv, NEW j \in Jobs, Begin(j)
  PROVE  ScopeInv'
<1> DEFINE w == [row EXCEPT !.pending = TRUE]
           x == [job[j] EXCEPT !.stage = "details", !.gen = row.gen + 1]
<1>1. /\ job[j].stage = "begin" /\ job' = [job EXCEPT ![j] = x] /\ row' = Bumped(w)
      /\ UNCHANGED <<git, event, recorded, flow, stray>>
  BY DEF Begin
<1>2. row \in RowType /\ row.there
  BY <1>1, Underway DEF JobOK
<1>3. w \in RowType /\ w.there /\ w.gen = row.gen /\ w.pending
  BY <1>2 DEF RowType
<1>4. row'.there /\ row'.gen = row.gen + 1 /\ row'.pending
  BY <1>1, <1>3, BumpedScope
<1>5. x.stage = "details"
  BY DEF Inv, JobsOK, JobType
<1> HIDE DEF w, x
<1>6. ~stray' => RowFits(row', Waits', event, git.scope)
  BY <1>4 DEF RowFits
<1>7. QED
  BY <1>1, <1>4, <1>5, <1>6, NewGenScope

\* The delta of the next scope event, on a scope that is right but for the events
\* that wait, leaves one that is right but for those after it.
LEMMA DeltaFits ==
  ASSUME Inv, ScopeInv, ~stray, NEW j \in Jobs, job[j].stage = "delta", NEW V \in SUBSET Events,
         \A d \in Waits : d # j[1] => d \in V,
         NEW w, Fits(w, Waits, event, git.scope),
         ~(w.sel = "all" /\ event[j[1]].sel = "selected"),
         NEW s,
         s = IF event[j[1]].sel = "all" THEN AllRepos
             ELSE Selected(((IF w.sel = "all" THEN {} ELSE w.repos) \cup event[j[1]].added)
                             \ event[j[1]].removed)
  PROVE  Fits(s, V, event, git.scope)
<1> DEFINE e == j[1]
           g == git.scope
<1>1. /\ e \in Events /\ ScopeEvent(e) /\ event[e] \in EventType /\ Events \subseteq Nat
      /\ j = <<e, j[2]>> /\ j[2] \in {1, 2}
  BY DEF ScopeInv, Staged, Deciding, Jobs, Events, Inv, Simple
<1>2. InOrder /\ Told(event, g)
  BY DEF ScopeInv, Settling
<1>3. e \in Waits
  BY <1>1 DEF Waits, Deciding
<1>4. \A d \in Events : d > e /\ ScopeEvent(d) => d \in V
  BY <1>1, <1>2, <1>3 DEF InOrder
<1>5. event[e].sel \in {"all", "selected"} /\ event[e].added \subseteq Repos /\ event[e].removed \subseteq Repos
  BY <1>1 DEF EventType
<1> HIDE DEF e, g
<1>6. WellFormed(w)
  BY DEF Fits
<1>7. WellFormed(s)
  BY <1>5, <1>6 DEF WellFormed, Scope, AllRepos, Selected, e
<1>8. V = {} => s.sel = g.sel
  <2>1. ASSUME V = {} PROVE event[e].sel = g.sel
    BY <1>1, <1>2, <1>4, <2>1 DEF Told, TellsSel, ScopeEvent
  <2>2. s.sel = event[e].sel
    BY <1>5 DEF AllRepos, Selected, e
  <2>3. QED
    BY <2>1, <2>2
<1>9. ASSUME NEW r \in Repos, \A d \in V : ~Speaks(event[d], r)
      PROVE  r \in s.repos <=> r \in g.repos
  <2>1. TellsRepo(event, g, e, r)
    BY <1>1, <1>2, <1>4, <1>9 DEF Told, TellsRepos, ScopeEvent
  <2>2. CASE event[e].sel = "all"
    BY <2>1, <2>2 DEF TellsRepo, AllRepos, e
  <2>3. CASE event[e].sel = "selected"
    <3>1. w.sel # "all"
      BY <2>3 DEF e
    <3>2. s.repos = (w.repos \cup event[e].added) \ event[e].removed
      BY <2>3, <3>1 DEF Selected, e
    <3>3. CASE Speaks(event[e], r)
      BY <2>1, <3>2, <3>3 DEF Speaks, TellsRepo
    <3>4. CASE ~Speaks(event[e], r)
      <4>1. \A d \in Waits : ~Speaks(event[d], r)
        BY <1>9, <3>4 DEF e
      <4>2. r \in w.repos <=> r \in g.repos
        BY <4>1 DEF Fits, g
      <4>3. QED
        BY <3>2, <3>4, <4>2 DEF Speaks
    <3>5. QED
      BY <3>3, <3>4
  <2>4. QED
    BY <1>5, <2>2, <2>3
<1>10. QED
  BY <1>7, <1>8, <1>9 DEF Fits, g

LEMMA DeltaScope ==
  ASSUME Inv, ScopeInv, NEW j \in Jobs, Delta(j)
  PROVE  ScopeInv'
<1> DEFINE e == event[j[1]]
           s == IF e.sel = "all" THEN AllRepos
                ELSE Selected((Kept(row) \cup e.added) \ e.removed)
           w == [row EXCEPT !.scope = s]
<1>1. /\ job[j].stage = "delta" /\ job' = [job EXCEPT ![j] = Done] /\ row' = Bumped(w)
      /\ UNCHANGED <<git, event, recorded, flow>>
      /\ stray' = (stray \/ (row.scope.sel = "all" /\ e.sel = "selected"))
  BY DEF Delta, End
<1>2. row \in RowType /\ row.there /\ Done.stage = "done" /\ e \in EventType
  BY <1>1, Underway DEF JobOK, Done, NewJob
<1>3. s \in Scope
  <2>1. e.added \in SUBSET Repos /\ e.removed \in SUBSET Repos
    BY <1>2 DEF EventType
  <2>2. Kept(row) \in SUBSET Repos
    BY <1>2 DEF Kept, RowType, Scope
  <2>3. QED
    BY <2>1, <2>2, BlankOK DEF Selected, Scope
<1>4. s = IF event[j[1]].sel = "all" THEN AllRepos
          ELSE Selected(((IF row.scope.sel = "all" THEN {} ELSE row.scope.repos) \cup event[j[1]].added)
                          \ event[j[1]].removed)
  BY DEF Kept
<1> HIDE DEF s
<1>5. w \in RowType /\ w.there /\ w.gen = row.gen /\ w.pending = row.pending /\ w.scope = s
  BY <1>2, <1>3 DEF RowType
<1> HIDE DEF w
<1>6. row'.there /\ row'.gen = row.gen + 1 /\ row'.pending = row.pending /\ row'.scope = s
  BY <1>1, <1>5, BumpedScope
<1>7. ASSUME ~stray', ~row.pending PROVE Fits(s, Waits', event, git.scope)
  <2>1. ~stray /\ ~(row.scope.sel = "all" /\ event[j[1]].sel = "selected")
    BY <1>1, <1>7
  <2>2. Fits(row.scope, Waits, event, git.scope)
    BY <1>2, <1>7, <2>1 DEF ScopeInv, Settling, RowFits
  <2>3. Waits' \in SUBSET Events
    BY <1>1 DEF Waits
  <2>4. ASSUME NEW d \in Waits, d # j[1] PROVE d \in Waits'
    <3>1. \A c \in {1, 2} : <<d, c>> \in Jobs /\ <<d, c>> # j
      BY <2>4 DEF Jobs, Waits
    <3>2. \A c \in {1, 2} : job'[<<d, c>>] = job[<<d, c>>]
      BY <1>1, <3>1 DEF Inv, JobsOK
    <3>3. QED
      BY <1>1, <2>4, <3>2 DEF Waits, ScopeEvent
  <2>5. QED
    BY <1>1, <1>4, <2>1, <2>2, <2>3, <2>4, DeltaFits
<1>8. ~stray' => RowFits(row', Waits', event, git.scope)
  BY <1>6, <1>7 DEF RowFits
<1>9. stray => stray'
  BY <1>1
<1>10. QED
  BY <1>1, <1>2, <1>6, <1>8, <1>9, NewGenScope

\* A reconciliation of the row's generation saw what GitHub grants.
LEMMA FinishScope ==
  ASSUME Inv, ScopeInv, NEW j \in Jobs, Finish(j)
  PROVE  ScopeInv'
<1>1. /\ job[j].stage = "finish" /\ job' = [job EXCEPT ![j] = Done]
      /\ UNCHANGED <<git, event, recorded, flow, stray>>
  BY DEF Finish, End
<1>2. CASE UNCHANGED row
  BY <1>1, <1>2, SameRow, ElsewhereEnd DEF Aside, End
<1>3. CASE /\ row.gen = job[j].gen /\ row.pending
           /\ row' = [row EXCEPT !.pending = FALSE, !.scope = job[j].scope]
  <2>1. row \in RowType /\ job[j].scope \in Scope
    BY <1>1, Underway DEF JobType
  <2>2. /\ row'.there = row.there /\ row'.gen = row.gen /\ row'.archived = row.archived
        /\ ~row'.pending /\ row'.scope = job[j].scope
    BY <1>3, <2>1 DEF RowType
  <2>3. Done.stage = "done"
    BY DEF Done, NewJob
  <2>4. Waits' = Waits
    BY <1>1, <2>3, WaitsSame DEF Deciding
  <2>5. Told(event', git'.scope) /\ Known'
    BY <1>1 DEF ScopeInv, Known
  <2>6. Staged'
    BY <1>1, <2>3, StagedStep DEF ScopeInv, Deciding
  <2>7. ASSUME ~stray' PROVE Settling'
    <3>1. Settling
      BY <1>1, <2>7 DEF ScopeInv
    <3>2. j[1] \in Events /\ j = <<j[1], j[2]>> /\ j[2] \in {1, 2}
      BY DEF Jobs
    <3>3. ScopeEvent(j[1]) => j[1] \in recorded
      BY <1>1, <3>1, <3>2 DEF Settling, Begun
    <3>4. Begun'
      BY <1>1, <2>3, <3>1, <3>3, BegunStep DEF Settling, Deciding
    <3>5. InOrder'
      BY <1>1, <2>3, <2>4, <3>1, InOrderStep DEF Settling
    <3>6. Fits(job[j].scope, Waits, event, git.scope)
      BY <1>1, <1>3, <3>1 DEF Settling, JobFits
    <3>7. RowFits(row', Waits', event', git'.scope)
      BY <1>1, <2>2, <2>4, <3>6 DEF RowFits
    <3>8. \A i \in Jobs : JobFits(job'[i], row', Waits', event', git'.scope)
      BY <2>2 DEF JobFits
    <3>9. \A f \in Flows : FlowFits(flow'[f], row', Waits', event', git'.scope)
      BY <1>1, <2>2, <2>4, <3>1 DEF Settling, FlowFits, May
    <3>10. QED
      BY <3>4, <3>5, <3>7, <3>8, <3>9 DEF Settling
  <2>8. QED
    BY <2>5, <2>6, <2>7 DEF ScopeInv
<1>4. QED
  BY <1>2, <1>3 DEF Finish

LEMMA HandlerScope == ASSUME Inv, ScopeInv, NEW j \in Jobs, Handler(j) PROVE ScopeInv'
<1>1. CASE Receive(j) \/ Record(j) \/ Lifecycle(j)
  BY <1>1, ReceiveScope, RecordScope, LifecycleScope
<1>2. CASE ReadScope(j) \/ Delta(j) \/ Begin(j) \/ FetchDetails(j) \/ FetchList(j) \/ Finish(j)
  BY <1>2, ReadScopeScope, DeltaScope, BeginScope, FetchScope, FinishScope
<1>3. CASE \/ Link(j) \/ Activity(j) \/ ReadForLinks(j) \/ ReadForRules(j) \/ GetToken(j)
           \/ AskToken(j) \/ TokenAnswered(j) \/ SetStatus(j) \/ AskComment(j) \/ CommentAnswered(j)
  BY <1>3, ElsewhereSteps
<1>4. CASE CacheToken(j) \/ RequestFails(j) \/ Abandon(j)
  BY <1>4, CacheTokenScope, RequestFailsScope, AbandonScope
<1>5. QED
  BY <1>1, <1>2, <1>3, <1>4 DEF Handler

-----------------------------------------------------------------------------
\* The administrator.
LEMMA AdminScope ==
  ASSUME Inv, ScopeInv, UNCHANGED <<git, event, recorded, job, stray>>,
         ~stray => /\ RowFits(row', Waits, event, git.scope)
                   /\ \A j \in Jobs : JobFits(job[j], row', Waits, event, git.scope)
                   /\ \A f \in Flows : FlowFits(flow'[f], row', Waits, event, git.scope)
  PROVE  ScopeInv'
<1>1. Waits' = Waits
  BY DEF Waits, ScopeEvent
<1>2. Told(event', git'.scope) /\ Known' /\ Staged'
  BY DEF ScopeInv, Known, Staged, ScopeEvent
<1>3. ASSUME ~stray PROVE Settling'
  <2>1. Begun'
    BY <1>3 DEF ScopeInv, Settling, Begun, ScopeEvent
  <2>2. InOrder'
    BY <1>1, <1>3 DEF ScopeInv, Settling, InOrder, ScopeEvent
  <2>3. QED
    BY <1>1, <1>3, <2>1, <2>2 DEF Settling
<1>4. QED
  BY <1>2, <1>3 DEF ScopeInv

LEMMA EndingScope == ASSUME Inv, ScopeInv, Disconnect \/ Remove PROVE ScopeInv'
<1>1. row.there /\ UNCHANGED <<git, event, recorded, job, flow, stray>>
  BY DEF Disconnect, Remove
<1>2. row \in RowType
  BY DEF Inv, RowOK
<1>3. PICK w \in RowType : /\ row' = Bumped(w) /\ w.there /\ w.gen = row.gen
                           /\ w.pending = row.pending /\ w.scope = row.scope
  <2>1. /\ [row EXCEPT !.disconnected = TRUE] \in RowType
        /\ [row EXCEPT !.archived = TRUE] \in RowType
    BY <1>2 DEF RowType
  <2>2. \A w \in {[row EXCEPT !.disconnected = TRUE], [row EXCEPT !.archived = TRUE]} :
          w.there /\ w.gen = row.gen /\ w.pending = row.pending /\ w.scope = row.scope
    BY <1>1, <1>2 DEF RowType
  <2>3. \/ row' = Bumped([row EXCEPT !.disconnected = TRUE])
        \/ row' = Bumped([row EXCEPT !.archived = TRUE])
    BY DEF Disconnect, Remove
  <2>4. QED
    BY <2>1, <2>2, <2>3
<1>4. /\ row'.there /\ row'.gen = row.gen + 1 /\ row'.pending = row.pending
      /\ row'.scope = row.scope
  BY <1>3, BumpedScope
<1>5. ASSUME ~stray
      PROVE  /\ RowFits(row', Waits, event, git.scope)
             /\ \A j \in Jobs : JobFits(job[j], row', Waits, event, git.scope)
             /\ \A f \in Flows : FlowFits(flow'[f], row', Waits, event, git.scope)
  <2>1. Settling
    BY <1>5 DEF ScopeInv
  <2>2. RowFits(row', Waits, event, git.scope)
    BY <1>1, <1>4, <2>1 DEF Settling, RowFits
  <2>3. \A j \in Jobs : JobFits(job[j], row', Waits, event, git.scope)
    BY <1>4, NewerFits
  <2>4. \A f \in Flows : FlowFits(flow[f], row', Waits, event, git.scope)
    BY <1>4, <2>1, NewerFits DEF Settling
  <2>5. flow' = flow
    BY <1>1
  <2>6. QED
    BY <2>2, <2>3, <2>4, <2>5
<1>6. QED
  BY <1>1, <1>5, AdminScope

LEMMA OneFlowScope ==
  ASSUME Inv, ScopeInv, NEW f \in Flows, NEW x, flow' = [flow EXCEPT ![f] = x],
         UNCHANGED <<git, event, recorded, row, job, stray>>,
         ~stray => FlowFits(x, row, Waits, event, git.scope)
  PROVE  ScopeInv'
<1>1. \A h \in Flows : flow'[h] = IF h = f THEN x ELSE flow[h]
  BY DEF Inv, FlowsOK
<1>2. ASSUME ~stray
      PROVE  /\ RowFits(row', Waits, event, git.scope)
             /\ \A j \in Jobs : JobFits(job[j], row', Waits, event, git.scope)
             /\ \A h \in Flows : FlowFits(flow'[h], row', Waits, event, git.scope)
  BY <1>1, <1>2 DEF ScopeInv, Settling
<1>3. QED
  BY <1>2, AdminScope

LEMMA StartFlowScope ==
  ASSUME Inv, ScopeInv, NEW f \in Flows, NEW action \in {"connect", "reconnect"},
         StartFlow(f, action)
  PROVE  ScopeInv'
<1> DEFINE archived == IF action = "connect" /\ row.there /\ row.archived THEN {row.gen} ELSE {}
           phase == IF action = "reconnect" THEN "oauth" ELSE "setup"
           x == [NewFlow EXCEPT !.phase = phase, !.action = action, !.expected = row.gen,
                                !.seen = stops, !.archived = archived]
<1>1. flow' = [flow EXCEPT ![f] = x] /\ UNCHANGED <<git, event, recorded, row, job, stray>>
  BY DEF StartFlow, history
<1>2. phase \in {"oauth", "setup"}
  OBVIOUS
<1> HIDE DEF archived, phase
<1>3. x.phase = phase /\ x.scope = AllRepos
  BY DEF NewFlow
<1> HIDE DEF x
<1>4. FlowFits(x, row, Waits, event, git.scope)
  BY <1>2, <1>3 DEF FlowFits
<1>5. QED
  BY <1>1, <1>4, OneFlowScope

LEMMA VerifyScope ==
  ASSUME Inv, ScopeInv, NEW f \in Flows, AdvanceSetup(f) \/ VerifyDetails(f) \/ VerifyList(f)
  PROVE  ScopeInv'
<1>1. flow[f] \in FlowType /\ WellFormed(git.scope)
  BY DEF Inv, FlowsOK, ScopeInv, Told
<1>2. UNCHANGED <<git, event, recorded, row, job, stray>>
  BY DEF AdvanceSetup, VerifyDetails, VerifyList, history
<1>3. ASSUME ~stray PROVE FlowFits(flow[f], row, Waits, event, git.scope)
  BY <1>3 DEF ScopeInv, Settling
<1>4. ASSUME NEW ph \in {"oauth", "over", "bind", "list"},
             flow' = [flow EXCEPT ![f] = [flow[f] EXCEPT !.phase = ph]],
             flow[f].phase \in {"setup", "oauth", "list"},
             ph \in {"bind", "list"} => flow[f].phase = "oauth",
             ph = "bind" => git.scope.sel = "all", ph = "list" => git.scope.sel # "all"
      PROVE  ScopeInv'
  <2> DEFINE x == [flow[f] EXCEPT !.phase = ph]
  <2>1. x.phase = ph /\ x.scope = flow[f].scope
    BY <1>1 DEF FlowType
  <2>2. flow' = [flow EXCEPT ![f] = x]
    BY <1>4
  <2> HIDE DEF x
  <2>3. ~stray => x.scope = AllRepos
    BY <1>3, <1>4, <2>1 DEF FlowFits
  <2>4. git.scope.sel = "all" => Fits(AllRepos, Waits, event, git.scope)
    BY <1>1, AllFits
  <2>5. git.scope.sel # "all" => git.scope.sel = "selected"
    BY <1>1 DEF WellFormed, Scope
  <2>6. ~stray => FlowFits(x, row, Waits, event, git.scope)
    BY <1>4, <2>1, <2>3, <2>4, <2>5 DEF FlowFits
  <2>7. QED
    BY <1>2, <2>2, <2>6, OneFlowScope
<1>5. CASE AdvanceSetup(f)
  BY <1>4, <1>5 DEF AdvanceSetup
<1>6. CASE VerifyDetails(f)
  <2>1. PICK ph \in {"over", "bind", "list"} :
          /\ flow' = [flow EXCEPT ![f] = [flow[f] EXCEPT !.phase = ph]]
          /\ ph = "bind" => git.scope.sel = "all"
          /\ ph = "list" => git.scope.sel # "all"
    BY <1>6 DEF VerifyDetails
  <2>2. flow[f].phase = "oauth"
    BY <1>6 DEF VerifyDetails
  <2>3. QED
    BY <1>4, <2>1, <2>2
<1>7. CASE VerifyList(f) /\ (git.gone \/ git.suspended)
  BY <1>4, <1>7 DEF VerifyList
<1>8. CASE VerifyList(f) /\ ~(git.gone \/ git.suspended)
  <2> DEFINE s == Selected(git.scope.repos)
             x == [flow[f] EXCEPT !.phase = "bind", !.scope = s]
  <2>1. flow' = [flow EXCEPT ![f] = x] /\ flow[f].phase = "list"
    BY <1>8 DEF VerifyList
  <2> HIDE DEF s
  <2>2. /\ x.phase = "bind" /\ x.scope = s /\ x.action = flow[f].action
        /\ x.expected = flow[f].expected /\ x.archived = flow[f].archived
    BY <1>1 DEF FlowType
  <2> HIDE DEF x
  <2>3. May(x, row) <=> May(flow[f], row)
    BY <2>2 DEF May
  <2>4. ASSUME ~stray, May(x, row) PROVE Fits(s, Waits, event, git.scope)
    <3>1. Waits = {} => git.scope.sel = "selected"
      BY <1>3, <2>1, <2>3, <2>4 DEF FlowFits
    <3>2. QED
      BY <1>1, <3>1, GrantFits DEF s
  <2>5. ~stray => FlowFits(x, row, Waits, event, git.scope)
    BY <2>2, <2>4 DEF FlowFits
  <2>6. QED
    BY <1>2, <2>1, <2>5, OneFlowScope
<1>9. QED
  BY <1>5, <1>6, <1>7, <1>8

\* An authorization that may bind the row saw what GitHub grants.
LEMMA BindScope == ASSUME Inv, ScopeInv, NEW f \in Flows, Bind(f) PROVE ScopeInv'
<1> DEFINE over == [NewFlow EXCEPT !.phase = "over"]
<1>1. /\ flow[f].phase = "bind" /\ flow' = [flow EXCEPT ![f] = over]
      /\ UNCHANGED <<git, event, recorded, job, stray>>
  BY DEF Bind
<1>2. row \in RowType /\ flow[f] \in FlowType /\ flow[f].scope \in Scope
  BY DEF Inv, RowOK, FlowsOK, FlowType
<1>3. over.phase = "over"
  BY DEF NewFlow
<1> HIDE DEF over
<1>4. \A w : FlowFits(over, w, Waits, event, git.scope)
  BY <1>3 DEF FlowFits
<1>5. \A h \in Flows : flow'[h] = IF h = f THEN over ELSE flow[h]
  BY <1>1 DEF Inv, FlowsOK
<1>6. CASE UNCHANGED row
  BY <1>1, <1>4, <1>6, OneFlowScope
<1>7. CASE row.there /\ MayRestore(flow[f]) /\ row' = Restored(flow[f])
  <2>1. Bumped(row) \in RowType /\ Bumped(row).gen = row.gen + 1 /\ Bumped(row).there
    BY <1>2, <1>7, BumpedOK
  <2>2. row'.there /\ row'.gen = row.gen + 1 /\ row'.scope = flow[f].scope
    BY <1>2, <1>7, <2>1 DEF Restored, RowType
  <2>3. May(flow[f], row)
    BY <1>7 DEF May, MayRestore
  <2>4. ASSUME ~stray
        PROVE  /\ RowFits(row', Waits, event, git.scope)
               /\ \A j \in Jobs : JobFits(job[j], row', Waits, event, git.scope)
               /\ \A h \in Flows : FlowFits(flow'[h], row', Waits, event, git.scope)
    <3>1. Settling
      BY <2>4 DEF ScopeInv
    <3>2. RowFits(row', Waits, event, git.scope)
      BY <1>1, <2>2, <2>3, <3>1 DEF Settling, FlowFits, RowFits
    <3>3. \A j \in Jobs : JobFits(job[j], row', Waits, event, git.scope)
      BY <2>2, NewerFits
    <3>4. \A h \in Flows : FlowFits(flow[h], row', Waits, event, git.scope)
      BY <2>2, <3>1, NewerFits DEF Settling
    <3>5. QED
      BY <1>4, <1>5, <3>2, <3>3, <3>4
  <2>5. QED
    BY <1>1, <2>4, AdminScope
<1>8. CASE /\ ~row.there /\ flow[f].action = "connect"
           /\ row' = [NoRow EXCEPT !.there = TRUE, !.verified = TRUE, !.scope = flow[f].scope]
  <2>1. row'.there /\ ~row'.archived /\ ~row'.pending /\ row'.scope = flow[f].scope
    BY <1>8 DEF NoRow
  <2>2. May(flow[f], row)
    BY <1>8 DEF May
  <2>3. ASSUME ~stray
        PROVE  /\ RowFits(row', Waits, event, git.scope)
               /\ \A j \in Jobs : JobFits(job[j], row', Waits, event, git.scope)
               /\ \A h \in Flows : FlowFits(flow'[h], row', Waits, event, git.scope)
    <3>1. Settling
      BY <2>3 DEF ScopeInv
    <3>2. RowFits(row', Waits, event, git.scope)
      BY <1>1, <2>1, <2>2, <3>1 DEF Settling, FlowFits, RowFits
    <3>3. \A j \in Jobs : JobFits(job[j], row', Waits, event, git.scope)
      BY <2>1 DEF JobFits
    <3>4. ASSUME NEW h \in Flows PROVE FlowFits(flow[h], row', Waits, event, git.scope)
      <4>1. FlowOK(flow[h], row, stops) /\ FlowFits(flow[h], row, Waits, event, git.scope)
        BY <3>1 DEF Inv, FlowsOK, Settling
      <4>2. ~May(flow[h], row')
        BY <1>8, <2>1, <4>1 DEF FlowOK, May
      <4>3. QED
        BY <4>1, <4>2 DEF FlowFits
    <3>5. QED
      BY <1>4, <1>5, <3>2, <3>3, <3>4
  <2>4. QED
    BY <1>1, <2>3, AdminScope
<1>9. QED
  BY <1>6, <1>7, <1>8 DEF Bind

LEMMA ScopeInductive == Inv /\ ScopeInv /\ [Next]_vars => ScopeInv'
<1> SUFFICES ASSUME Inv, ScopeInv, [Next]_vars PROVE ScopeInv'
  OBVIOUS
<1>1. CASE GitHub
  BY <1>1, GitHubScope
<1>2. CASE Admin
  BY <1>2, EndingScope, StartFlowScope, VerifyScope, BindScope DEF Admin
<1>3. ASSUME NEW j \in Jobs, Handler(j) PROVE ScopeInv'
  BY <1>3, HandlerScope
<1>4. CASE UNCHANGED vars
  <2>1. UNCHANGED <<git, event, recorded, row, job, flow, stray>>
    BY <1>4 DEF vars, history
  <2>2. QED
    BY <2>1, AdminScope DEF ScopeInv, Settling
<1>5. QED
  BY <1>1, <1>2, <1>3, <1>4 DEF Next

\* Whatever handlers of scope events, lists and authorizations overlap, and whatever
\* GitHub grants meanwhile: once every scope event has been handled, in order and
\* none of them lost, an effective row has the scope that GitHub grants
\* (routes/github.rs, handle_installation_repos_changed, reconcile_repository_scope).
THEOREM ScopeFollows == Spec => []ScopeSettles
<1>1. Init => ScopeInv
  BY InitScope
<1>2. Inv /\ ScopeInv /\ [Next]_vars => ScopeInv'
  BY ScopeInductive
<1>3. Inv /\ ScopeInv => ScopeSettles
  BY ScopeInvImplies
<1>4. QED
  BY <1>1, <1>2, <1>3, Invariant, PTL DEF Spec

=============================================================================
