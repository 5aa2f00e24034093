------------------------------ MODULE SyncLog ------------------------------
(***************************************************************************)
(* Who is told what (sync_log_service.rs): the teams and views of a        *)
(* workspace, the services that change them (team_service.rs,              *)
(* view_service.rs), the log they write in their transactions, the live    *)
(* frames they send after the commit, and the bootstrap and delta that     *)
(* read the log and the tables for one user.                               *)
(*                                                                         *)
(* Not everybody may see everything.  A team is for its members, a view    *)
(* for its owner or, when shared, for all.  Both change after entries      *)
(* were written, so an entry's audience is partly decided when it is read. *)
(*                                                                         *)
(* The client is one that applies what it is sent, in order: SyncEngine    *)
(* has the ways in which a real one may fall short of that.                *)
(***************************************************************************)
EXTENDS Naturals, Sequences, FiniteSetsExt

CONSTANTS
  Users,      \* members of the workspace
  Owner,      \* the user who makes views
  Teams,      \* team ids; an id is drawn once
  Views,      \* view ids; likewise
  Scoped,     \* pairs of a view and the team it is made in
  OtherTeams, \* number of teams that nothing happens to
  Requests,   \* handlers that may run at once
  Scenarios,  \* the sets of calls a behaviour may make, see CallKinds
  Backend,    \* "sqlite" or "postgres"
  Races,      \* interleavings to include: "overlap", a commit that is no deletion
              \* between what a handler reads on the pool and its transaction; "late", a change of something
              \* whose last change has not been sent yet; "early", a live frame between
              \* a client's wipe and the watermark of its bootstrap
  BatchSize,  \* DELTA_BATCH_SIZE
  MaxLog      \* bound: sync ids ever taken

CallKinds == {"create_team", "update_team", "added", "role", "removed", "delete_team",
              "create_view", "update_view", "delete_view"}

Items == Teams \cup Views

ASSUME SyncLogAssumption ==
  /\ Owner \in Users /\ Teams \cap Views = {} /\ Scoped \subseteq Views \X Teams
  /\ \A S \in Scenarios : S \subseteq CallKinds
  /\ Backend \in {"sqlite", "postgres"} /\ Races \subseteq {"overlap", "late", "early"}
  /\ {OtherTeams, MaxLog} \subseteq Nat /\ BatchSize \in Nat \ {0}
  /\ {"workspace", "team"} \cap Users = {}

VARIABLES
  calls,    \* the calls of this behaviour
  content,  \* tables teams and views: the entry that wrote a row, 0 without one
  members,  \* table team_members
  shared,   \* the views whose is_shared is set
  log,      \* table sync_log, by sync_id, with entries of open transactions
  reqs,     \* per request: how far it is
  watched,  \* the user whose client this is ...
  client,   \* ... what it holds, and what the server is doing for it
  entitled, \* history: what the user has ever been allowed to see
  strays,   \* history: views that were shared and then no longer
  behind    \* history: items of which a connected client is not promised the latest
            \* before its next catch-up.  No action reads these three

tables == <<content, members, shared>>
history == <<entitled, strays, behind>>
vars == <<calls, tables, log, reqs, watched, client, history>>

-----------------------------------------------------------------------------
\* A row of sync_log.  "team" and "workspace" are both a visibility_user_id of
\* NULL, and differ in who gets the live frame.  n = 0 is a Delete.
Entry(i, to, n, live) == [item |-> i, to |-> to, n |-> n, live |-> live, state |-> "open"]

\* What a transaction does to the tables: rows it sets (0 removes one), members
\* that join and leave, views it shares and keeps.
Put(i, n) == [x \in {i} |-> n]
NoEffect == [set |-> [x \in {} |-> 0], join |-> {}, leave |-> {}, share |-> {}, unshare |-> {}]

\* seen is what the handler read on the pool: a team's row, a view's audience.
Idle == [at |-> "idle", call |-> "none", item |-> "none", user |-> "none", seen |-> 0,
         ids |-> {}, locks |-> {}, fx |-> NoEffect]

Down == [phase |-> "down", holds |-> [i \in Items |-> 0], cursor |-> 0,
         mark |-> 0, page |-> {}, short |-> FALSE]

Init ==
  /\ calls \in Scenarios
  /\ content = [i \in Items |-> 0] /\ members = {} /\ shared = {}
  /\ log = <<>>
  /\ reqs = [r \in Requests |-> Idle]
  /\ watched \in Users /\ client = Down
  /\ entitled = {} /\ strays = {} /\ behind = {}

Exists(i) == content[i] # 0
Drawn(i)  == \E k \in DOMAIN log : log[k].item = i

\* list_teams(.., Some(user)) and list_views, with members M and shared views S.
MaySee(u, i, M, S) == IF i \in Teams THEN <<i, u>> \in M ELSE u = Owner \/ i \in S

\* What a bootstrap shows u.
Bootstrap(u) == [i \in Items |-> IF Exists(i) /\ MaySee(u, i, members, shared)
                                THEN content[i] ELSE 0]

\* Mutant: the membership filter holds for deletes too.
ConcernsMembers(e, u) ==
  /\ e.state = "in"
  /\ e.to \in Users => e.to = u
  /\ e.item \in Teams => <<e.item, u>> \in members

\* Mutant: no membership filter, only the visibility column.
ConcernsAll(e, u) == e.state = "in" /\ (e.to \in Users => e.to = u)

\* ENTRIES_SINCE_SQL, without its range: entry e is in a delta of u.
Concerns(e, u) ==
  /\ e.state = "in"
  /\ e.to \in Users => e.to = u
  /\ e.item \in Teams /\ e.n # 0 => <<e.item, u>> \in members

Above(c) == {k \in DOMAIN log : k > c /\ Concerns(log[k], watched)}

\* get_latest_sync_id.
Latest == Max({0} \cup {k \in DOMAIN log : log[k].state = "in"})

-----------------------------------------------------------------------------
(***************************************************************************)
(* The database.  SQLite has one connection, which a transaction keeps.    *)
(***************************************************************************)
Open(q) == reqs[q].at = "open"
Others(r) == Requests \ {r}

\* Something outside a transaction of its own reads the pool, or r begins one.
Pool == Backend = "sqlite" => \A q \in Requests : ~Open(q)

Disturbs(call) == "overlap" \notin Races /\ call \notin {"delete_team", "delete_view"}

\* call, of r, does not change what another handler has read on the pool.
Undisturbed(r, call) == Disturbs(call) => \A q \in Others(r) : reqs[q].at # "looked"

Unlocked(names) == \A q \in Requests : reqs[q].locks \cap names = {}

\* A handler reads what it needs before its transaction opens.
Look(r, call, i, u, seen) ==
  /\ call \in calls /\ reqs[r].at = "idle" /\ Exists(i) /\ Pool /\ Undisturbed(r, call)
  /\ \A q \in Requests : ~(Open(q) /\ Disturbs(reqs[q].call))
  /\ reqs' = [reqs EXCEPT ![r] = [Idle EXCEPT !.at = "looked", !.call = call, !.item = i,
                                              !.user = u, !.seen = seen]]
  /\ UNCHANGED <<calls, tables, log, watched, client, history>>

\* The next sync_id, and the content of a row that its entry is about to describe.
New == Len(log) + 1

\* The statements of a transaction have run, record or write_sync_entry_in_tx the
\* last of them: the entries have their ids, and nothing is visible yet.
Stage(r, from, call, names, entries, fx) ==
  /\ call \in calls /\ reqs[r].at = from
  /\ from = "looked" => reqs[r].call = call
  /\ Pool /\ Undisturbed(r, call) /\ Unlocked(names)
  /\ Len(log) + Len(entries) <= MaxLog
  /\ log' = log \o entries
  /\ reqs' = [reqs EXCEPT ![r] =
                [@ EXCEPT !.at = "open", !.call = call, !.locks = names, !.fx = fx,
                          !.ids = New..Len(log) + Len(entries)]]
  /\ UNCHANGED <<calls, tables, watched, client, history>>

\* NotFound, or a foreign key fails: the handler returns, nothing is written.
Refuse(r) ==
  /\ reqs[r].at = "looked" /\ reqs[r].call \in {"added", "delete_view"}
  /\ ~Exists(reqs[r].item) /\ Pool
  /\ reqs' = [reqs EXCEPT ![r] = Idle]
  /\ UNCHANGED <<calls, tables, log, watched, client, history>>

-----------------------------------------------------------------------------
(***************************************************************************)
(* team_service.rs and view_service.rs.  "update" stands for every change  *)
(* of a row that does not touch its audience: names, icons, settings.      *)
(***************************************************************************)
\* create_team: two entries, the second for the creator's membership.
CreateTeam(r, t, u) ==
  /\ ~Drawn(t)
  /\ Stage(r, "idle", "create_team", {t},
           <<Entry(t, "team", New, TRUE), Entry(t, "team", New, TRUE)>>,
           [NoEffect EXCEPT !.set = Put(t, New), !.join = {<<t, u>>}])

\* update_team, the icons, update_team_settings: commit_team_update.
UpdateTeam(r, t) ==
  /\ Exists(t)
  /\ Stage(r, "idle", "update_team", {t}, <<Entry(t, "team", New, TRUE)>>,
           [NoEffect EXCEPT !.set = Put(t, New)])

\* add_team_member, update_team_member_role and remove_team_member resolve the
\* team on the pool, ...
LookAtTeam(r, call, t, u) ==
  /\ call \in {"added", "role", "removed"}
  /\ Look(r, call, t, u, content[t])

\* ... and write_membership_sync_entry carries the team as it was then.  A
\* removal is also told to the user it removes.  A row that is there is locked.
ChangeMembership(r) ==
  LET t == reqs[r].item
      u == reqs[r].user
      told == Entry(t, "team", reqs[r].seen, FALSE)
      touched == IF <<t, u>> \in members \/ reqs[r].call = "added" THEN {<<t, u>>} ELSE {}
  IN \/ /\ Exists(t)
        /\ Stage(r, "looked", "added", touched, <<told>>,
                 [NoEffect EXCEPT !.join = {<<t, u>>}])
     \/ Stage(r, "looked", "role", touched, <<told>>, NoEffect)
     \/ Stage(r, "looked", "removed", touched, <<told, Entry(t, u, 0, FALSE)>>,
              [NoEffect EXCEPT !.leave = touched])

\* delete_team refuses the only team of a workspace.
LookAtDoomedTeam(r, t) ==
  /\ OtherTeams + Cardinality({x \in Teams : Exists(x)}) > 1
  /\ Look(r, "delete_team", t, "none", 0)

\* The rows that go with the team are its members and its views.
DeleteTeam(r) ==
  LET t == reqs[r].item
      views == {v \in Views : <<v, t>> \in Scoped}
  IN Stage(r, "looked", "delete_team", {t} \cup ({t} \X Users) \cup views,
           <<Entry(t, "workspace", 0, TRUE)>>,
           [NoEffect EXCEPT !.set = Put(t, 0)])

\* view_audience.
Audience(isShared) == IF isShared THEN "workspace" ELSE Owner

\* create_view and update_view.  A view in a team needs the team.
SaveView(r, call, v, isShared) ==
  /\ IF call = "create_view" THEN ~Drawn(v) /\ \A x \in Scoped : x[1] = v => Exists(x[2])
                             ELSE Exists(v)
  /\ Stage(r, "idle", call, {v}, <<Entry(v, Audience(isShared), New, TRUE)>>,
           [NoEffect EXCEPT !.set = Put(v, New), !.share = IF isShared THEN {v} ELSE {},
                            !.unshare = IF isShared THEN {} ELSE {v}])

\* delete_view reads on the pool whether the view is shared.
LookAtView(r, v) == Look(r, "delete_view", v, "none", IF v \in shared THEN 1 ELSE 0)

DeleteView(r) ==
  LET v == reqs[r].item
  IN /\ Exists(v)
     /\ Stage(r, "looked", "delete_view", {v}, <<Entry(v, Audience(reqs[r].seen = 1), 0, TRUE)>>,
              [NoEffect EXCEPT !.set = Put(v, 0)])

-----------------------------------------------------------------------------
(***************************************************************************)
(* The end of a mutation: SyncBatch::commit_and_deliver, or tx.commit().   *)
(***************************************************************************)
Deliverable(ids) == {k \in ids : log[k].live}

\* A live frame about i has not gone out yet.
Unsent(i) == \E q \in Requests :
               reqs[q].at = "deliver" /\ \E k \in reqs[q].ids : log[k].item = i

\* The rows and the entries become visible at once.  Members go with their team,
\* and views with the team they are in (ON DELETE CASCADE).
Commit(r) ==
  LET fx == reqs[r].fx
      ids == reqs[r].ids
      set == [i \in Items |-> IF i \in DOMAIN fx.set THEN fx.set[i] ELSE content[i]]
      gone == {v \in Views : \E x \in Scoped : x[1] = v /\ set[x[2]] = 0}
  IN /\ Open(r)
     /\ "late" \notin Races => \A i \in DOMAIN fx.set : ~Unsent(i)
     /\ content' = [i \in Items |-> IF i \in gone THEN 0 ELSE set[i]]
     /\ members' = {m \in (members \cup fx.join) \ fx.leave : content'[m[1]] # 0}
     /\ shared' = (shared \cup fx.share) \ fx.unshare
     /\ log' = [k \in DOMAIN log |-> IF k \in ids THEN [log[k] EXCEPT !.state = "in"]
                                                 ELSE log[k]]
     /\ reqs' = [reqs EXCEPT ![r] =
                   IF Deliverable(ids) = {} THEN Idle
                   ELSE [Idle EXCEPT !.at = "deliver", !.ids = Deliverable(ids)]]
     /\ entitled' = entitled \cup
          {i \in Items : content'[i] # 0 /\ MaySee(watched, i, members', shared')}
     /\ strays' = (strays \cup (fx.unshare \cap shared)) \ fx.share
     /\ behind' = behind \cup {t \in Teams : /\ Deliverable(ids) = {}
                                            /\ <<t, watched>> \in fx.join \cup fx.leave}
     /\ UNCHANGED <<calls, watched, client>>

\* Mutant: entries written outside of the transaction.
RollbackRowsOnly(r) ==
  /\ Open(r)
  /\ reqs' = [reqs EXCEPT ![r] = Idle]
  /\ UNCHANGED <<calls, tables, log, watched, client, history>>

\* The transaction fails, or the request is dropped in it.  PostgreSQL does not
\* give the ids out again.
Rollback(r) ==
  /\ Open(r)
  /\ log' = IF Backend = "sqlite" THEN SubSeq(log, 1, Min(reqs[r].ids) - 1)
            ELSE [k \in DOMAIN log |-> IF k \in reqs[r].ids
                                      THEN [log[k] EXCEPT !.state = "void"] ELSE log[k]]
  /\ reqs' = [reqs EXCEPT ![r] = Idle]
  /\ UNCHANGED <<calls, tables, watched, client, history>>

\* Mutant: whatever is about a team goes to its members.
RecipientsByItem(e) == IF e.item \in Teams THEN {u \in Users : <<e.item, u>> \in members}
                       ELSE IF e.to = "workspace" THEN Users ELSE {e.to}

\* Whom broadcast_raw_to_workspace, send_to_user_raw and
\* broadcast_raw_to_team_members send a frame to.
Recipients(e) == CASE e.to = "workspace" -> Users
                   [] e.to = "team" -> {u \in Users : <<e.item, u>> \in members}
                   [] OTHER -> {e.to}

\* The next frame goes out, to those who should have it at this moment.  A frame
\* that crosses a catch-up stream may be followed by an older row.
Deliver(r) ==
  LET k == Min(reqs[r].ids)
      e == log[k]
      left == reqs[r].ids \ {k}
      gets == client.phase # "down" /\ watched \in Recipients(e)
  IN /\ reqs[r].at = "deliver" /\ Pool
     /\ "early" \notin Races => ~(gets /\ client.phase = "asked")
     /\ reqs' = [reqs EXCEPT ![r] = IF left = {} THEN Idle ELSE [@ EXCEPT !.ids = left]]
     /\ client' = IF gets THEN [client EXCEPT !.holds[e.item] = e.n] ELSE client
     /\ behind' = IF gets /\ client.phase # "current" THEN behind \cup {e.item} ELSE behind
     /\ UNCHANGED <<calls, tables, log, watched, entitled, strays>>

\* The recipients cannot be read, PUBLISH fails, or the request is dropped: what
\* was left to send is not sent.
Silence(r) ==
  /\ reqs[r].at = "deliver"
  /\ reqs' = [reqs EXCEPT ![r] = Idle]
  /\ behind' = behind \cup {log[k].item : k \in reqs[r].ids}
  /\ UNCHANGED <<calls, tables, log, watched, client, entitled, strays>>

-----------------------------------------------------------------------------
(***************************************************************************)
(* The client, and the handler of its request (routes/websocket.rs).  What *)
(* is sent counts as received: a connection that loses its last frames is  *)
(* one that ended before they were sent.                                   *)
(***************************************************************************)
\* A frame of a stream; frames go out by place.
Frame(place, i, n) == [place |-> place, item |-> i, n |-> n]

\* Without a cursor, or with 0 for one, the client empties its store and asks for a bootstrap.
Connect ==
  /\ client.phase = "down"
  /\ client' = IF client.cursor = 0 THEN [Down EXCEPT !.phase = "asked"]
               ELSE [client EXCEPT !.phase = "delta", !.mark = client.cursor]
  /\ behind' = {}
  /\ UNCHANGED <<calls, tables, log, reqs, watched, entitled, strays>>

ServerOnly == UNCHANGED <<calls, tables, log, reqs, watched, history>>

\* handle_sync_bootstrap: the watermark is read before any of the data, ...
StartBootstrap ==
  /\ client.phase = "asked" /\ Pool
  /\ client' = [client EXCEPT !.phase = "teams", !.mark = Latest]
  /\ ServerOnly

\* ... and each list is a read of its own.
ReadList(place, phase, kind, next) ==
  /\ client.phase = phase /\ Pool
  /\ client' = [client EXCEPT !.phase = next, !.short = TRUE,
                  !.page = @ \cup {Frame(place, i, content[i]) :
                                     i \in {x \in kind : Bootstrap(watched)[x] # 0}}]
  /\ ServerOnly

\* drain_delta: the next page above the last id sent.
ReadPage ==
  LET above == Above(client.mark)
      page  == {k \in above : Cardinality({j \in above : j < k}) < BatchSize}
  IN /\ \/ client.phase = "delta"
        \/ client.phase = "stream" /\ client.page = {} /\ ~client.short
     /\ Pool
     /\ client' = [client EXCEPT !.phase = "stream", !.short = Cardinality(above) < BatchSize,
                      !.page = {Frame(k, log[k].item, log[k].n) : k \in page},
                      !.mark = Max({@} \cup page)]
     /\ ServerOnly

SendNext ==
  /\ client.phase = "stream"
  /\ \E f \in client.page :
       /\ \A g \in client.page : f.place <= g.place
       /\ client' = [client EXCEPT !.holds[f.item] = f.n, !.page = @ \ {f}]
  /\ ServerOnly

\* SyncComplete.
Complete ==
  /\ client.phase = "stream" /\ client.page = {} /\ client.short
  /\ client' = [client EXCEPT !.phase = "current", !.cursor = client.mark, !.mark = 0, !.short = FALSE]
  /\ ServerOnly

\* The connection is lost, or the handler stops on an error.
Disconnect ==
  /\ client.phase # "down"
  /\ client' = [Down EXCEPT !.holds = client.holds, !.cursor = client.cursor]
  /\ ServerOnly

-----------------------------------------------------------------------------
Request(r) ==
  \/ \E t \in Teams : \/ UpdateTeam(r, t)
                      \/ LookAtDoomedTeam(r, t)
                      \/ \E u \in Users : \/ CreateTeam(r, t, u)
                                         \/ \E c \in CallKinds : LookAtTeam(r, c, t, u)
  \/ \E v \in Views : \/ LookAtView(r, v)
                      \/ \E s \in BOOLEAN, c \in {"create_view", "update_view"} : SaveView(r, c, v, s)
  \/ reqs[r].at = "looked" /\ (ChangeMembership(r) \/ DeleteTeam(r) \/ DeleteView(r))
  \/ Refuse(r) \/ Commit(r) \/ Rollback(r) \/ Deliver(r) \/ Silence(r)

Handler ==
  \/ StartBootstrap
  \/ ReadList(1, "teams", Teams, "views") \/ ReadList(2, "views", Views, "stream")
  \/ ReadPage \/ SendNext \/ Complete

Next == (\E r \in Requests : Request(r)) \/ Connect \/ Handler \/ Disconnect

Spec == Init /\ [][Next]_vars

-----------------------------------------------------------------------------
(***************************************************************************)
(* Properties                                                              *)
(***************************************************************************)
\* Types; entries of open transactions belong to a request, and on SQLite there is
\* one such request at most.
TypeOK ==
  /\ calls \in Scenarios
  /\ content \in [Items -> 0..MaxLog] /\ members \subseteq Teams \X Users /\ shared \subseteq Views
  /\ log \in Seq([item : Items, to : {"workspace", "team"} \cup Users, n : 0..MaxLog,
                  live : BOOLEAN, state : {"open", "in", "void"}])
  /\ \A k \in DOMAIN log :
       log[k].state = "open" <=> \E r \in Requests : Open(r) /\ k \in reqs[r].ids
  /\ Backend = "sqlite" => Cardinality({r \in Requests : Open(r)}) <= 1
  /\ \A r \in Requests : reqs[r].at \in {"idle", "looked", "open", "deliver"}
  /\ watched \in Users
  /\ client.holds \in [Items -> 0..MaxLog] /\ client.cursor \in 0..Len(log)
  /\ client.phase \in {"down", "asked", "teams", "views", "delta", "stream", "current"}
  /\ strays \cup behind \cup entitled \subseteq Items

\* A view that is not shared any more stays with those who have it until they
\* bootstrap: view_audience says so.
Lingering == IF watched = Owner THEN {} ELSE strays

\* What the client has of i once it has replayed the log from its cursor.
Replayed(i) ==
  LET about == {k \in Above(client.cursor) : log[k].item = i}
  IN IF about = {} THEN client.holds[i] ELSE log[Max(about)].n

\* A delta from the client's cursor brings it to what a bootstrap would give it,
\* whatever became of the user's memberships since, and wherever the connection
\* broke (drain_delta: "makes the delta dataset match what handle_sync_bootstrap
\* would have given the same user").
CatchUpIsEnough ==
  client.cursor # 0 =>
    \A i \in Items \ Lingering : Replayed(i) = Bootstrap(watched)[i]

\* A client that has caught up and stays connected shows the latest of everything it
\* may see and nothing else, once the frames under way are out: those who get a live
\* frame are those who need it.  Except for what no frame is sent for or no frame
\* carried over in order (behind): the user's own memberships, frames lost, frames
\* that crossed a catch-up.
ScreenSettles ==
  client.phase = "current" =>
    \A i \in Items \ (behind \cup Lingering) :
      Unsent(i) \/ client.holds[i] = Bootstrap(watched)[i]

\* No path brings a client a team or a view that its user was never allowed to see:
\* not a bootstrap, not a delta read while the audience changes, not a live frame
\* addressed after the commit.
OnlyEntitled == \A i \in Items : client.holds[i] # 0 => i \in entitled

=============================================================================
