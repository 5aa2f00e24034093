-------------------------- MODULE GitHubConnection --------------------------
(***************************************************************************)
(* One GitHub connection of a workspace: its row in github_installations,  *)
(* and everyone who reads it, goes away to do something slow and comes     *)
(* back to write: the webhook handlers (routes/github.rs, events.rs,       *)
(* transitions.rs), the reconciliation of the repository scope, the        *)
(* refresh of the installation token, the comments on pull requests, an    *)
(* administrator who disconnects, removes or authorizes again.             *)
(*                                                                         *)
(* The row has a generation (token_generation).  Whoever means to act on   *)
(* what was read earlier takes the row's lock and compares generations.    *)
(* GitHub is external: it changes what it grants, suspends, uninstalls,    *)
(* and sends deliveries that arrive in any order, some of them twice.      *)
(***************************************************************************)
EXTENDS Naturals, FiniteSets

CONSTANTS
  Repos,       \* repositories of the account
  Flows,       \* authorization attempts of the administrator
  MaxEvents,   \* bound: webhook events and completed issues
  Starts,      \* the connections to begin with: subset of {"none", "live", "legacy"}
  Scenarios    \* bounds: what may happen from outside, and how often

Moves == {"scope", "suspend", "uninstall", "pr", "push", "complete",
          "redeliver", "abandon", "disconnect", "remove", "flow"}

ASSUME GitHubConnectionAssumption ==
  /\ MaxEvents \in Nat
  /\ Starts \subseteq {"none", "live", "legacy"}
  /\ Scenarios \subseteq [Moves -> Nat]

Events == 1..MaxEvents
Jobs == Events \X {1, 2}     \* an event's delivery, and its redelivery

Scope == [sel : {"all", "selected"}, repos : SUBSET Repos]
AllRepos == [sel |-> "all", repos |-> Repos]
Selected(R) == [sel |-> "selected", repos |-> R]

VARIABLES
  left,      \* of each move, how many more are allowed
  git,       \* GitHub: the scope granted, suspended, gone (uninstalled)
  event,     \* what each event says
  recorded,  \* github_events, by delivery id
  row,       \* the row of github_installations
  job,       \* per delivery: the step of its handler and what it read
  flow,      \* per attempt: its row in github_connection_states and its callback
  effects,   \* per repository: the kinds of things written on its behalf
  ran,       \* history: how often an event was dispatched
  changes,   \* history: commits that changed the connection ...
  stops,     \* ... and those that ended it
  stray      \* history: a scope event out of order, lost, with no row to go to,
             \* or that meets another row than it was decided on

history == <<ran, changes, stops, stray>>
vars == <<left, git, event, recorded, row, job, flow, effects, history>>

-----------------------------------------------------------------------------
Blank == [kind |-> "none", repo |-> {}, sel |-> "all", added |-> {}, removed |-> {}]

Kinds == {"none", "deleted", "suspend", "unsuspend", "repos", "pr", "push", "completed"}

Stages == {"idle", "sent", "record", "change", "scope", "delta", "begin",
           "details", "list", "finish", "pr", "link", "activity", "rules",
           "notify", "token", "ask", "asking", "cache", "status", "comment",
           "commenting", "done"}

\* gen: the generation read.  go: what the snapshot of the webhook handler said.
\* token: a token is in hand.  asof: the changes there had been when it was
\* asked for (history).
NewJob == [stage |-> "idle", gen |-> 0, go |-> FALSE, token |-> FALSE,
           asof |-> 0, scope |-> AllRepos]
Done == [NewJob EXCEPT !.stage = "done"]

\* expected: expected_token_generation.  archived: the generation in
\* archived_installation_generations, if any.  seen: stops at the start (history).
NewFlow == [phase |-> "none", action |-> "connect", expected |-> 0,
            archived |-> {}, scope |-> AllRepos, seen |-> 0]

\* The token's value is what asof was when it was asked for.
NoRow == [there |-> FALSE, archived |-> FALSE, disconnected |-> FALSE,
          suspended |-> FALSE, uninstalled |-> FALSE, verified |-> FALSE,
          pending |-> FALSE, scope |-> AllRepos, gen |-> 0, token |-> {}]

FirstRow(start, s) ==
  IF start = "none" THEN NoRow
  ELSE [NoRow EXCEPT !.there = TRUE, !.verified = (start = "live"), !.scope = s]

Init ==
  /\ left \in Scenarios
  /\ \E s \in {AllRepos} \cup {Selected(R) : R \in SUBSET Repos}, start \in Starts :
       /\ git = [scope |-> s, suspended |-> FALSE, gone |-> FALSE]
       /\ row = FirstRow(start, s)
  /\ event = [e \in Events |-> Blank]
  /\ recorded = {}
  /\ job = [j \in Jobs |-> NewJob]
  /\ flow = [f \in Flows |-> NewFlow]
  /\ effects = [r \in Repos |-> {}]
  /\ ran = [e \in Events |-> 0]
  /\ changes = 0 /\ stops = 0 /\ stray = FALSE

-----------------------------------------------------------------------------
\* The row.

Active(w) == /\ w.there /\ w.verified
             /\ ~w.pending /\ ~w.archived /\ ~w.disconnected
             /\ ~w.suspended /\ ~w.uninstalled

Allows(w, R) == Active(w) /\ (w.scope.sel = "all" \/ R \subseteq w.scope.repos)

\* Its lock is held while a request admitted by admit_outbound is under way.
Outbound(j) == job[j].stage \in {"asking", "commenting"}
FreeAtOnce == TRUE    \* mutant: the transaction ends before the request
Free == \A j \in Jobs : ~Outbound(j)

\* Every change but one starts a generation and drops the token.
Bumped(w) == [w EXCEPT !.gen = @ + 1, !.token = {}]

Repo(j) == event[j[1]].repo

\* ConnectionAdmission: with the row locked, to the end of the transaction.
Admits(j) == row.gen = job[j].gen /\ Allows(row, Repo(j))

-----------------------------------------------------------------------------
\* GitHub, its users and ours.

Spend(m) == left[m] > 0 /\ left' = [left EXCEPT ![m] = @ - 1]

Fresh(e) == event[e].kind = "none" /\ \A d \in 1..(e - 1) : event[d].kind # "none"

\* A new event of GitHub, on its way.
Send(ev) ==
  \E e \in Events :
    /\ Fresh(e)
    /\ event' = [event EXCEPT ![e] = ev]
    /\ job' = [job EXCEPT ![<<e, 1>>].stage = "sent"]

\* The account changes what the App may see.
ChangeScope ==
  /\ Spend("scope") /\ ~git.gone
  /\ \E s \in {AllRepos} \cup {Selected(R) : R \in SUBSET Repos} :
       /\ s # git.scope
       /\ git' = [git EXCEPT !.scope = s]
       /\ Send([Blank EXCEPT !.kind = "repos", !.sel = s.sel,
                             !.added = s.repos \ git.scope.repos,
                             !.removed = git.scope.repos \ s.repos])
  /\ UNCHANGED <<recorded, row, flow, effects, history>>

SuspendOrNot ==
  /\ Spend("suspend") /\ ~git.gone
  /\ git' = [git EXCEPT !.suspended = ~@]
  /\ Send([Blank EXCEPT !.kind = IF git.suspended THEN "unsuspend" ELSE "suspend"])
  /\ UNCHANGED <<recorded, row, flow, effects, history>>

Uninstall ==
  /\ Spend("uninstall") /\ ~git.gone
  /\ git' = [git EXCEPT !.gone = TRUE]
  /\ Send([Blank EXCEPT !.kind = "deleted"])
  /\ UNCHANGED <<recorded, row, flow, effects, history>>

\* A pull request with a trigger, or a push, in a repository the App sees.
Develop(kind, r) ==
  /\ Spend(kind)
  /\ r \in git.scope.repos /\ ~git.suspended /\ ~git.gone
  /\ Send([Blank EXCEPT !.kind = kind, !.repo = {r}])
  /\ UNCHANGED <<git, recorded, row, flow, effects, history>>

\* Somebody has an event delivered again.
Redeliver(e) ==
  /\ Spend("redeliver")
  /\ event[e].kind \notin {"none", "completed"} /\ job[<<e, 2>>].stage = "idle"
  /\ job' = [job EXCEPT ![<<e, 2>>].stage = "sent"]
  /\ UNCHANGED <<git, event, recorded, row, flow, effects, history>>

\* A user completes an issue that a pull request of the repository is to close.
CompleteIssue(r) ==
  /\ Spend("complete")
  /\ \E e \in Events :
       /\ Fresh(e)
       /\ event' = [event EXCEPT ![e] = [Blank EXCEPT !.kind = "completed", !.repo = {r}]]
       /\ job' = [job EXCEPT ![<<e, 1>>].stage = "notify"]
  /\ UNCHANGED <<git, recorded, row, flow, effects, history>>

-----------------------------------------------------------------------------
\* The webhook handler.

Goto(j, stage) == job' = [job EXCEPT ![j].stage = stage]
End(j) == job' = [job EXCEPT ![j] = Done]

\* The step after the event is recorded.  go: there is a row and, for a pull
\* request, it allows the repository.
Dispatch(kind) ==
  CASE kind \in {"deleted", "suspend", "unsuspend"} -> "change"
    [] kind = "repos" -> "scope"
    [] OTHER -> "pr"

\* event_exists; get_installation_by_github_id.
Receive(j) ==
  /\ job[j].stage = "sent"
  /\ IF j[1] \in recorded
     THEN End(j)
     ELSE job' = [job EXCEPT ![j].stage = "record",
                             ![j].go = row.there /\ (event[j[1]].kind = "pr"
                                                       => Allows(row, Repo(j)))]
  /\ UNCHANGED <<left, git, event, recorded, row, flow, effects, history>>

\* Mutants: the delivery id is not unique; an event is dispatched without a row.
RecordAgain(j) ==
  LET e == j[1] IN
  /\ job[j].stage = "record"
  /\ recorded' = recorded \cup {e}
  /\ ran' = [ran EXCEPT ![e] = @ + 1]
  /\ IF job[j].go THEN Goto(j, Dispatch(event[e].kind)) ELSE End(j)
  /\ stray' = (stray \/ (event[e].kind = "repos" /\ ~job[j].go))
  /\ UNCHANGED <<left, git, event, row, flow, effects, changes, stops>>
RecordUnlooked(j) ==
  LET e == j[1] IN
  /\ job[j].stage = "record"
  /\ IF e \in recorded
     THEN End(j) /\ UNCHANGED <<recorded, ran>>
     ELSE /\ recorded' = recorded \cup {e}
          /\ ran' = [ran EXCEPT ![e] = @ + 1]
          /\ Goto(j, Dispatch(event[e].kind))
  /\ UNCHANGED <<left, git, event, row, flow, effects, changes, stops, stray>>

\* create_event: the delivery id is unique, the second insert of it fails.
Record(j) ==
  LET e == j[1] IN
  /\ job[j].stage = "record"
  /\ IF e \in recorded
     THEN End(j) /\ UNCHANGED <<recorded, ran, stray>>
     ELSE /\ recorded' = recorded \cup {e}
          /\ ran' = [ran EXCEPT ![e] = @ + 1]
          /\ IF job[j].go THEN Goto(j, Dispatch(event[e].kind)) ELSE End(j)
          /\ stray' = (stray \/ (event[e].kind = "repos" /\ ~job[j].go))
  /\ UNCHANGED <<left, git, event, row, flow, effects, changes, stops>>

\* change_installation, for installation.deleted, .suspend and .unsuspend.
Lifecycle(j) ==
  LET kind == event[j[1]].kind IN
  /\ job[j].stage = "change" /\ Free
  /\ row' = CASE kind = "deleted" -> Bumped([row EXCEPT !.uninstalled = TRUE])
              [] kind = "suspend" -> Bumped([row EXCEPT !.suspended = TRUE])
              [] OTHER -> Bumped([row EXCEPT !.suspended = FALSE])
  /\ changes' = changes + 1
  /\ stops' = IF kind = "deleted" THEN stops + 1 ELSE stops
  /\ End(j)
  /\ UNCHANGED <<left, git, event, recorded, flow, effects, ran, stray>>

-----------------------------------------------------------------------------
\* The repository scope.

\* An earlier scope event is still to reach the row.
Early(e) ==
  \E d \in 1..(e - 1), c \in {1, 2} :
    event[d].kind = "repos"
    /\ job[<<d, c>>].stage \in {"sent", "record", "scope", "delta", "begin"}

\* What to do is decided on the row as it is before any transaction.
ReadScope(j) ==
  /\ job[j].stage = "scope"
  /\ Goto(j, IF row.pending \/ (row.scope.sel = "all" /\ event[j[1]].sel = "selected")
             THEN "begin" ELSE "delta")
  /\ stray' = (stray \/ Early(j[1]))
  /\ UNCHANGED <<left, git, event, recorded, row, flow, effects, ran, changes, stops>>

Kept(w) == IF w.scope.sel = "all" THEN {} ELSE w.scope.repos

\* apply_repository_delta, on the row as it is now.
Delta(j) ==
  LET e == event[j[1]] IN
  /\ job[j].stage = "delta" /\ Free
  /\ row' = Bumped([row EXCEPT !.scope = IF e.sel = "all" THEN AllRepos
                              ELSE Selected((Kept(row) \cup e.added) \ e.removed)])
  /\ changes' = changes + 1
  /\ stray' = (stray \/ (row.scope.sel = "all" /\ e.sel = "selected"))
  /\ End(j)
  /\ UNCHANGED <<left, git, event, recorded, flow, effects, ran, stops>>

\* begin_repository_reconciliation: nothing is allowed until it is finished.
Begin(j) ==
  /\ job[j].stage = "begin" /\ Free
  /\ row' = Bumped([row EXCEPT !.pending = TRUE])
  /\ job' = [job EXCEPT ![j].stage = "details", ![j].gen = row.gen + 1]
  /\ changes' = changes + 1
  /\ UNCHANGED <<left, git, event, recorded, flow, effects, ran, stops, stray>>

\* get_installation_details: the selection, and whether the App still may.
FetchDetails(j) ==
  /\ job[j].stage = "details"
  /\ IF git.gone \/ git.suspended THEN End(j)
     ELSE IF git.scope.sel = "all"
     THEN job' = [job EXCEPT ![j].stage = "finish", ![j].scope = AllRepos]
     ELSE Goto(j, "list")
  /\ UNCHANGED <<left, git, event, recorded, row, flow, effects, history>>

\* list_installation_repos, with a token made for the purpose.
FetchList(j) ==
  /\ job[j].stage = "list"
  /\ IF git.gone \/ git.suspended THEN End(j)
     ELSE job' = [job EXCEPT ![j].stage = "finish", ![j].scope = Selected(git.scope.repos)]
  /\ UNCHANGED <<left, git, event, recorded, row, flow, effects, history>>

\* Mutant: whoever finishes last decides.
FinishLate(j) ==
  /\ job[j].stage = "finish" /\ Free
  /\ row' = [row EXCEPT !.pending = FALSE, !.scope = job[j].scope]
  /\ changes' = changes + 1
  /\ End(j)
  /\ UNCHANGED <<left, git, event, recorded, flow, effects, ran, stops, stray>>

\* finish_repository_reconciliation: only of the generation that began it.
Finish(j) ==
  /\ job[j].stage = "finish" /\ Free
  /\ IF row.gen = job[j].gen /\ row.pending
     THEN /\ row' = [row EXCEPT !.pending = FALSE, !.scope = job[j].scope]
          /\ changes' = changes + 1
     ELSE UNCHANGED <<row, changes>>
  /\ End(j)
  /\ UNCHANGED <<left, git, event, recorded, flow, effects, ran, stops, stray>>

-----------------------------------------------------------------------------
\* Pull requests and pushes.

\* process_pull_request and process_push read the row again.  A pull request
\* that is no longer allowed is not an error: the rules are still looked at.
ReadForLinks(j) ==
  /\ job[j].stage = "pr"
  /\ IF Allows(row, Repo(j))
     THEN job' = [job EXCEPT ![j].stage = "link", ![j].gen = row.gen]
     ELSE IF event[j[1]].kind = "pr" THEN Goto(j, "rules") ELSE End(j)
  /\ UNCHANGED <<left, git, event, recorded, row, flow, effects, history>>

Effect(j, what) ==
  effects' = [r \in Repos |-> IF r \in Repo(j) THEN effects[r] \cup {what} ELSE effects[r]]

LinkKind(j) == IF event[j[1]].kind = "pr" THEN "link" ELSE "commit"

\* Mutant: the link is written on the strength of the earlier read.
LinkUnadmitted(j) ==
  /\ job[j].stage = "link" /\ Free
  /\ Effect(j, LinkKind(j)) /\ Goto(j, "activity")
  /\ UNCHANGED <<left, git, event, recorded, row, flow, history>>

\* A link is upserted, or the stale ones deleted; a refusal fails the event.
Link(j) ==
  /\ job[j].stage = "link" /\ Free
  /\ IF Admits(j) THEN Effect(j, LinkKind(j)) /\ Goto(j, "activity")
     ELSE End(j) /\ UNCHANGED effects
  /\ UNCHANGED <<left, git, event, recorded, row, flow, history>>

\* An activity is recorded; a refusal is logged.
Activity(j) ==
  /\ job[j].stage = "activity" /\ Free
  /\ IF Admits(j) THEN Effect(j, "activity") ELSE UNCHANGED effects
  /\ IF event[j[1]].kind = "pr" THEN Goto(j, "rules") ELSE End(j)
  /\ UNCHANGED <<left, git, event, recorded, row, flow, history>>

\* apply_transition_rules, and the notification of a completed issue: the row
\* once more, and the links there are.
ReadForRules(j) ==
  /\ job[j].stage \in {"rules", "notify"}
  /\ IF /\ Allows(row, Repo(j))
        /\ \A r \in Repo(j) : "link" \in effects[r]
     THEN job' = [job EXCEPT ![j].stage = "token", ![j].gen = row.gen]
     ELSE End(j)
  /\ UNCHANGED <<left, git, event, recorded, row, flow, effects, history>>

\* On, with or without a token: only a transition goes ahead without one.
OnWith(j, has) ==
  IF event[j[1]].kind = "pr"
  THEN job' = [job EXCEPT ![j].stage = "status", ![j].token = has, ![j].asof = 0]
  ELSE IF has THEN job' = [job EXCEPT ![j].stage = "comment", ![j].token = TRUE, ![j].asof = 0]
  ELSE End(j)

\* get_installation_token: a cached one, if it has not expired.
GetToken(j) ==
  /\ job[j].stage = "token"
  /\ \/ (~Active(row) \/ row.gen # job[j].gen) /\ OnWith(j, FALSE)
     \/ Active(row) /\ row.gen = job[j].gen /\ row.token # {} /\ OnWith(j, TRUE)
     \/ Active(row) /\ row.gen = job[j].gen /\ Goto(j, "ask")
  /\ UNCHANGED <<left, git, event, recorded, row, flow, effects, history>>

\* admit_outbound: from here to the answer the row is locked.
AskToken(j) ==
  /\ job[j].stage = "ask" /\ Free
  /\ IF Admits(j) THEN job' = [job EXCEPT ![j].stage = "asking", ![j].asof = changes]
     ELSE OnWith(j, FALSE)
  /\ UNCHANGED <<left, git, event, recorded, row, flow, effects, history>>

TokenAnswered(j) ==
  /\ job[j].stage = "asking"
  /\ IF git.gone \/ git.suspended THEN OnWith(j, FALSE) ELSE Goto(j, "cache")
  /\ UNCHANGED <<left, git, event, recorded, row, flow, effects, history>>

\* Mutant: an active connection is enough, whatever its generation.
CacheTokenAnyway(j) ==
  /\ job[j].stage = "cache" /\ Free
  /\ IF Active(row)
     THEN row' = [row EXCEPT !.token = {job[j].asof}] /\ OnWith(j, TRUE)
     ELSE OnWith(j, FALSE) /\ UNCHANGED row
  /\ UNCHANGED <<left, git, event, recorded, flow, effects, history>>

\* cache_installation_token; a token that is not cached is not used either.
CacheToken(j) ==
  /\ job[j].stage = "cache" /\ Free
  /\ IF row.gen = job[j].gen /\ Active(row)
     THEN row' = [row EXCEPT !.token = {job[j].asof}] /\ OnWith(j, TRUE)
     ELSE OnWith(j, FALSE) /\ UNCHANGED row
  /\ UNCHANGED <<left, git, event, recorded, flow, effects, history>>

\* update_issue_with_admission; an issue already there is skipped.
SetStatus(j) ==
  /\ job[j].stage = "status"
  /\ \/ Free /\ Admits(j) /\ Effect(j, "status")
        /\ IF job[j].token THEN Goto(j, "comment") ELSE End(j)
     \/ Free /\ ~Admits(j) /\ End(j) /\ UNCHANGED effects
     \/ (\A r \in Repo(j) : "status" \in effects[r]) /\ End(j) /\ UNCHANGED effects
  /\ UNCHANGED <<left, git, event, recorded, row, flow, history>>

AskComment(j) ==
  /\ job[j].stage = "comment" /\ Free
  /\ IF Admits(j) THEN Goto(j, "commenting") ELSE End(j)
  /\ UNCHANGED <<left, git, event, recorded, row, flow, effects, history>>

CommentAnswered(j) ==
  /\ job[j].stage = "commenting"
  /\ End(j)
  /\ UNCHANGED <<left, git, event, recorded, row, flow, effects, history>>

\* A request to GitHub fails: the reconciliation stays pending, the token or
\* the comment is done without.
RequestFails(j) ==
  /\ \/ job[j].stage \in {"details", "list"} /\ End(j)
     \/ job[j].stage = "asking" /\ OnWith(j, FALSE)
  /\ UNCHANGED <<left, git, event, recorded, row, flow, effects, history>>

\* The handler is dropped, with its connection or with the process: what it has
\* committed stays, the rest is rolled back, and no delivery takes it up again.
Abandon(j) ==
  /\ Spend("abandon") /\ job[j].stage \notin {"idle", "sent", "done"}
  /\ End(j)
  /\ stray' = (stray \/ event[j[1]].kind = "repos")
  /\ UNCHANGED <<git, event, recorded, row, flow, effects, ran, changes, stops>>

-----------------------------------------------------------------------------
\* The administrator.

Disconnect ==
  /\ Spend("disconnect") /\ row.there /\ Free
  /\ row' = Bumped([row EXCEPT !.disconnected = TRUE])
  /\ changes' = changes + 1 /\ stops' = stops + 1
  /\ UNCHANGED <<git, event, recorded, job, flow, effects, ran, stray>>

\* remove_installation: only what is inactive, and not twice.
Remove ==
  /\ Spend("remove") /\ row.there /\ Free
  /\ ~row.archived /\ ~Active(row)
  /\ row' = Bumped([row EXCEPT !.archived = TRUE])
  /\ changes' = changes + 1 /\ stops' = stops + 1
  /\ UNCHANGED <<git, event, recorded, job, flow, effects, ran, stray>>

\* start_connection: to reconnect a row it notes its generation; to add, the
\* generation of the row if that is archived.
StartFlow(f, action) ==
  /\ Spend("flow") /\ flow[f].phase = "none"
  /\ action = "reconnect" => row.there
  /\ flow' = [flow EXCEPT ![f] =
       [NewFlow EXCEPT !.phase = IF action = "reconnect" THEN "oauth" ELSE "setup",
                       !.action = action, !.expected = row.gen, !.seen = stops,
                       !.archived = IF action = "connect" /\ row.there /\ row.archived
                                    THEN {row.gen} ELSE {}]]
  /\ UNCHANGED <<git, event, recorded, row, job, effects, history>>

\* advance_setup.
AdvanceSetup(f) ==
  /\ flow[f].phase = "setup"
  /\ flow' = [flow EXCEPT ![f].phase = "oauth"]
  /\ UNCHANGED <<left, git, event, recorded, row, job, effects, history>>

\* verify_connection, first part: what the user may see, and the selection.
VerifyDetails(f) ==
  /\ flow[f].phase = "oauth"
  /\ flow' = [flow EXCEPT ![f].phase =
       IF git.gone \/ git.suspended THEN "over"
       ELSE IF git.scope.sel = "all" THEN "bind" ELSE "list"]
  /\ UNCHANGED <<left, git, event, recorded, row, job, effects, history>>

\* Second part: the repositories.
VerifyList(f) ==
  /\ flow[f].phase = "list"
  /\ flow' = [flow EXCEPT ![f] = IF git.gone \/ git.suspended
                                 THEN [@ EXCEPT !.phase = "over"]
                                 ELSE [@ EXCEPT !.phase = "bind",
                                                !.scope = Selected(git.scope.repos)]]
  /\ UNCHANGED <<left, git, event, recorded, row, job, effects, history>>

\* Mutant: without the generations.
MayRestoreAny(x) == x.action = "reconnect" \/ row.archived

\* Who may bring back a row that is there: a reconnection of the generation it
\* noted, or an addition that noted the row's archived generation.
MayRestore(x) ==
  IF x.action = "reconnect" THEN row.gen = x.expected
  ELSE row.archived /\ row.gen \in x.archived

Restored(x) ==
  [Bumped(row) EXCEPT !.suspended = FALSE, !.disconnected = FALSE,
                      !.uninstalled = FALSE, !.archived = FALSE,
                      !.verified = TRUE, !.pending = FALSE, !.scope = x.scope]

\* bind_verified_connection.
Bind(f) ==
  LET x == flow[f] IN
  /\ x.phase = "bind" /\ Free
  /\ flow' = [flow EXCEPT ![f] = [NewFlow EXCEPT !.phase = "over"]]
  /\ \/ /\ row.there /\ MayRestore(x)
        /\ row' = Restored(x) /\ changes' = changes + 1
     \/ /\ row.there /\ ~MayRestore(x)    \* in vain, or nothing to do
        /\ UNCHANGED <<row, changes>>
     \/ /\ ~row.there /\ x.action = "connect"
        /\ row' = [NoRow EXCEPT !.there = TRUE, !.verified = TRUE, !.scope = x.scope]
        /\ changes' = changes + 1
  /\ UNCHANGED <<left, git, event, recorded, job, effects, ran, stops, stray>>

-----------------------------------------------------------------------------
GitHub ==
  \/ ChangeScope
  \/ SuspendOrNot
  \/ Uninstall
  \/ \E r \in Repos, kind \in {"pr", "push"} : Develop(kind, r)
  \/ \E e \in Events : Redeliver(e)
  \/ \E r \in Repos : CompleteIssue(r)

Handler(j) ==
  \/ Receive(j) \/ Record(j) \/ Lifecycle(j)
  \/ ReadScope(j) \/ Delta(j) \/ Begin(j) \/ FetchDetails(j) \/ FetchList(j) \/ Finish(j)
  \/ ReadForLinks(j) \/ Link(j) \/ Activity(j) \/ ReadForRules(j)
  \/ GetToken(j) \/ AskToken(j) \/ TokenAnswered(j) \/ CacheToken(j)
  \/ SetStatus(j) \/ AskComment(j) \/ CommentAnswered(j) \/ RequestFails(j)
  \/ Abandon(j)

Admin ==
  \/ Disconnect \/ Remove
  \/ \E f \in Flows : \/ \E action \in {"connect", "reconnect"} : StartFlow(f, action)
                      \/ AdvanceSetup(f) \/ VerifyDetails(f) \/ VerifyList(f) \/ Bind(f)

Next == GitHub \/ Admin \/ \E j \in Jobs : Handler(j)

Spec == Init /\ [][Next]_vars

-----------------------------------------------------------------------------
\* Properties.

EventType == [kind : Kinds, repo : SUBSET Repos, sel : {"all", "selected"},
              added : SUBSET Repos, removed : SUBSET Repos]
JobType == [stage : Stages, gen : Nat, go : BOOLEAN, token : BOOLEAN, asof : Nat,
            scope : Scope]
FlowType == [phase : {"none", "setup", "oauth", "list", "bind", "over"},
             action : {"connect", "reconnect"}, expected : Nat,
             archived : SUBSET Nat, scope : Scope, seen : Nat]
RowType == [there : BOOLEAN, archived : BOOLEAN, disconnected : BOOLEAN,
            suspended : BOOLEAN, uninstalled : BOOLEAN, verified : BOOLEAN,
            pending : BOOLEAN, scope : Scope, gen : Nat, token : SUBSET Nat]

\* The types of the variables; a row that is not there is the blank one.
TypeOK ==
  /\ left \in [Moves -> Nat]
  /\ git \in [scope : Scope, suspended : BOOLEAN, gone : BOOLEAN]
  /\ event \in [Events -> EventType]
  /\ recorded \in SUBSET Events
  /\ row \in RowType
  /\ ~row.there => row = NoRow
  /\ job \in [Jobs -> JobType]
  /\ flow \in [Flows -> FlowType]
  /\ effects \in [Repos -> SUBSET {"link", "commit", "activity", "status"}]
  /\ ran \in [Events -> Nat]
  /\ changes \in Nat /\ stops \in Nat /\ stray \in BOOLEAN

\* A webhook event is dispatched once, however often it is delivered and even if
\* two deliveries of it are looked up before either is recorded (routes/github.rs).
Once == \A e \in Events : ran[e] <= 1

\* A request to GitHub is under way only for a repository that the connection, as
\* it is now, allows: disconnect, suspend and scope changes wait for it
\* (schema.rs, admit_outbound).
OutboundAllowed == \A j \in Jobs : Outbound(j) => Allows(row, Repo(j))

\* The cached token belongs to an active connection, and nothing about the
\* connection has changed since it was asked for (transitions.rs and schema.rs).
TokenCurrent == row.token # {} => Active(row) /\ row.token = {changes}

\* Handlers of scope events, deciding on a row read earlier, with slow lists and
\* authorizations in between, end with the scope GitHub grants: once every such
\* event has been handled, in order, an effective row has GitHub's scope.
ScopeSettles ==
  /\ row.there /\ ~row.pending /\ ~stray
  /\ \A e \in Events : event[e].kind = "repos" => job[<<e, 1>>].stage = "done"
                                               /\ job[<<e, 2>>].stage \in {"idle", "done"}
  => row.scope = git.scope

\* Links, activities and status changes of an event are written only while the
\* connection allows the repository, although each was decided on an earlier read.
EffectsAllowed ==
  [][\A r \in Repos : effects'[r] # effects[r] => Allows(row, {r})]_vars

\* What ended a connection, a disconnect, a removal or an uninstall, is undone only
\* by an authorization that was started after the last of them.
EndedHere(w) == w.disconnected \/ w.archived \/ w.uninstalled
NoResurrection ==
  [][EndedHere(row) /\ ~EndedHere(row')
       => \E f \in Flows : flow[f].phase = "bind" /\ flow'[f].phase = "over"
                           /\ flow[f].seen = stops]_vars

=============================================================================
