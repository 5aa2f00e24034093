-------------------------- MODULE WorkspaceRecords --------------------------
(***************************************************************************)
(* What hangs together in a workspace: projects with their members,        *)
(* milestones and updates, favorites, labels, releases, and the fields of  *)
(* an issue that name them (project_service.rs, favorite_service.rs,       *)
(* label_service.rs, release_service.rs, issue_service.rs), with the       *)
(* sweep that archives old issues (archive_service.rs).  A delete takes    *)
(* rows with it that the database reports to nobody; the services tell     *)
(* clients of them through the sync log.                                   *)
(*                                                                         *)
(* As in IssueGraph the log is the picture it paints: what a client that   *)
(* has replayed it holds, in the order of the commits.  A call that is     *)
(* refused changes nothing and is no step; neither is the look-up on the   *)
(* pool in front of a statement that decides the same again.               *)
(***************************************************************************)
EXTENDS Naturals

CONSTANTS
  Projects,   \* project ids; an id is drawn once
  Issues,     \* issue ids; an id is drawn once
  None,       \* no project
  Requests,   \* handlers that may run at once, the sweep among them
  Scenarios,  \* the sets of calls made in one behaviour, see CallKinds
  Backends,   \* the databases to run on
  MaxRows     \* bound: milestones, updates, favorites, labels and releases ever made

CallKinds == {"create_project", "update_project", "delete_project",
              "add_member", "remove_member", "create_milestone", "update_milestone",
              "delete_milestone", "create_update", "add_favorite", "remove_favorite",
              "create_label", "update_label", "delete_label", "create_release",
              "create_issue", "assign", "status", "sort", "set_labels", "delete_issue", "sweep"}

ASSUME RecordsAssumption ==
  /\ None \notin Projects \cup Issues
  /\ Projects \cap Issues = {}
  /\ Scenarios \subseteq SUBSET CallKinds
  /\ Backends \subseteq {"sqlite", "postgres"}
  /\ MaxRows \in Nat

VARIABLES
  backend,  \* the database of this behaviour
  calls,    \* the calls made in it
  rows,     \* tables projects, project_members, project_milestones, project_updates,
            \* favorites, labels and releases
  used,     \* project ids and row ids that were drawn
  issues,   \* table issues
  tags,     \* table issue_labels: pairs of an issue and the id of a label
  picture,  \* what the log says there is: rows, and issues with their last payload
  reqs      \* per request: how far it is

vars == <<backend, calls, rows, used, issues, tags, picture, reqs>>

-----------------------------------------------------------------------------
(***************************************************************************)
(* Tables.                                                                 *)
(***************************************************************************)
\* Tables whose rows go with their project (ON DELETE CASCADE).
PartKinds == {"member", "milestone", "update"}
RowKinds  == PartKinds \cup {"project", "favorite", "label", "release"}

\* A row is about a project or an issue, or nothing.  A member has no id of its
\* own (project_member_entity_id); the one user there is adds and removes it.
Row == [kind : RowKinds, of : Projects \cup Issues \cup {None}, id : 0..MaxRows]

Project(p) == [kind |-> "project", of |-> p, id |-> 0]
Member(p)  == [kind |-> "member", of |-> p, id |-> 0]

OfKind(k)      == {x \in rows : x.kind = k}
PartsOf(p)     == {x \in rows : x.kind \in PartKinds /\ x.of = p}
FavoritesOf(t) == {x \in OfKind("favorite") : x.of = t}

Issue == [at : {"unborn", "there", "gone"}, project : Projects \cup {None}, milestone : 0..MaxRows,
          done : BOOLEAN, archived : BOOLEAN, released : BOOLEAN]

Unborn == [at |-> "unborn", project |-> None, milestone |-> 0,
           done |-> FALSE, archived |-> FALSE, released |-> FALSE]

There(i)  == issues[i].at = "there"
TagsOf(i) == {t \in tags : t[1] = i}

\* issue_sync_payload_tx, of an issue that is v with tags T.
Payload(i, v, T) == [issue |-> v, labels |-> {t[2] : t \in {u \in T : u[1] = i}}]

Nothing == [i \in {} |-> Unborn]

\* What f says, and g where f says nothing.
Over(f, g) == [i \in DOMAIN f \cup DOMAIN g |-> IF i \in DOMAIN f THEN f[i] ELSE g[i]]

\* What a transaction will do: rows added and cut (cascades included), those it
\* has locked, issues as they will be, tags, issues a foreign key shares; and its
\* entries: rows told with a payload and rows evicted, issues shown and hidden.
NoEffect == [added |-> {}, cut |-> {}, held |-> {}, issues |-> Nothing,
             tagged |-> {}, untagged |-> {}, shares |-> {},
             told |-> {}, evicted |-> {}, shown |-> Nothing, hidden |-> {}]

\* A request that is not running.  One that runs has read rows and issues.
Idle == [at |-> "idle", of |-> None, seen |-> {}, ids |-> {}, fx |-> NoEffect]

\* The workspace has its projects, and issues that are in none.
Init ==
  /\ backend \in Backends /\ calls \in Scenarios
  /\ \E born \in SUBSET Projects :
       /\ rows = {Project(p) : p \in born}
       /\ used = [projects |-> born, rows |-> 0]
  /\ issues \in [Issues -> {Unborn, [Unborn EXCEPT !.at = "there"]}]
  /\ tags = {}
  /\ picture = [rows |-> rows, issues |-> [i \in {j \in Issues : There(j)} |-> Payload(i, issues[i], {})]]
  /\ reqs = [r \in Requests |-> Idle]

-----------------------------------------------------------------------------
(***************************************************************************)
(* The database.  SQLite has one connection, which a transaction keeps;    *)
(* PostgreSQL has many, read committed.  A statement that waits for a lock *)
(* is a step that is not enabled.                                          *)
(***************************************************************************)
Others(r) == {q \in Requests \ {r} : reqs[q].at \in {"destroy", "commit"}}

At(r, place) ==
  /\ reqs[r].at = place
  /\ backend = "sqlite" => Others(r) = {}

Asked(r, call) == call \in calls /\ At(r, "idle")

\* The rows a change names through a foreign key that is checked.
NamedBy(fx) ==
  LET vs == {fx.issues[i] : i \in DOMAIN fx.issues} IN
  {Project(x.of) : x \in {y \in fx.added : y.kind \in PartKinds}}
    \cup {Project(v.project) : v \in {w \in vs : w.project # None}}
    \cup {x \in OfKind("milestone") : \E v \in vs : v.milestone = x.id}
    \cup {x \in OfKind("label") : \E t \in fx.tagged : t[2] = x.id}

\* No other transaction has them locked (Free), is removing them (Kept), or has
\* made something that names them (Unnamed).
Free(r, X)    == \A q \in Others(r) : X \cap reqs[q].fx.held = {}
Kept(r, X)    == \A q \in Others(r) : X \cap reqs[q].fx.cut = {}
Unnamed(r, X) == \A q \in Others(r) : X \cap NamedBy(reqs[q].fx) = {}

IssuesFree(r, I) == \A q \in Others(r) : I \cap DOMAIN reqs[q].fx.issues = {}
IssueKept(r, i) ==
  \A q \in Others(r) : i \in DOMAIN reqs[q].fx.issues => reqs[q].fx.issues[i].at # "gone"
Unshared(r, i)   == \A q \in Others(r) : i \notin reqs[q].fx.shares
TagsFree(r, T)   == \A q \in Others(r) : T \cap (reqs[q].fx.tagged \cup reqs[q].fx.untagged) = {}

\* The foreign keys of an issue, or of an issue that will be v.
Keyed(r, v) ==
  /\ v.project # None => Project(v.project) \in rows /\ Kept(r, {Project(v.project)})
  /\ v.milestone # 0 /\ backend = "postgres" =>
       \E x \in OfKind("milestone") : x.id = v.milestone /\ Kept(r, {x})

\* The statements of the transaction have run; it is not visible yet.
Stage(r, fx, left) ==
  /\ reqs' = [reqs EXCEPT ![r] = [Idle EXCEPT !.at = "commit", !.fx = fx, !.ids = left]]
  /\ UNCHANGED <<backend, calls, rows, issues, tags, picture>>

Finish(r, fx) == Stage(r, fx, {}) /\ UNCHANGED used

DatabaseOnly == UNCHANGED <<backend, calls, rows, used, issues, tags, picture>>

\* commit_and_deliver.  The sweep goes on with the issues it has left.
Commit(r) ==
  LET fx == reqs[r].fx
      shown == Over(fx.shown, picture.issues)
  IN /\ At(r, "commit")
     /\ rows' = (rows \ fx.cut) \cup fx.added
     /\ issues' = Over(fx.issues, issues)
     /\ tags' = (tags \ fx.untagged) \cup fx.tagged
     /\ picture' = [rows |-> (picture.rows \cup fx.told) \ fx.evicted,
                    issues |-> [i \in DOMAIN shown \ fx.hidden |-> shown[i]]]
     /\ reqs' = [reqs EXCEPT ![r] = IF @.ids = {} THEN Idle
                                    ELSE [Idle EXCEPT !.at = "sweep", !.ids = reqs[r].ids]]
     /\ UNCHANGED <<backend, calls, used>>

\* The client of a request goes away, a statement fails, or the process
\* restarts: what is not committed is rolled back.
Abandon(r) ==
  /\ reqs[r].at # "idle"
  /\ reqs' = [reqs EXCEPT ![r] = Idle]
  /\ DatabaseOnly

-----------------------------------------------------------------------------
(***************************************************************************)
(* Rows.                                                                   *)
(***************************************************************************)
\* An INSERT and its entry, in one transaction.
Insert(r, x) == Stage(r, [NoEffect EXCEPT !.added = {x}, !.held = {x}, !.told = {x}], {})

\* The row gets an id of its own.
InsertNew(r, kind, of) ==
  /\ used.rows < MaxRows
  /\ used' = [used EXCEPT !.rows = @ + 1]
  /\ Insert(r, [kind |-> kind, of |-> of, id |-> used.rows + 1])

\* create_project.
CreateProject(r, p) ==
  /\ Asked(r, "create_project")
  /\ p \notin used.projects
  /\ used' = [used EXCEPT !.projects = @ \cup {p}]
  /\ Insert(r, Project(p))

\* The foreign key of a part.
InProject(r, p) == Project(p) \in rows /\ Kept(r, {Project(p)})

\* add_project_member: a user is a member of a project once.
AddMember(r, p) ==
  /\ Asked(r, "add_member")
  /\ InProject(r, p)
  /\ Member(p) \notin rows /\ Free(r, {Member(p)})
  /\ Insert(r, Member(p)) /\ UNCHANGED used

\* Mutant: the foreign key is read, and not locked.
CreateMilestoneAnywhere(r, p) ==
  /\ Asked(r, "create_milestone")
  /\ Project(p) \in rows
  /\ InsertNew(r, "milestone", p)

\* create_milestone and create_project_update.
CreateMilestone(r, p) ==
  /\ Asked(r, "create_milestone")
  /\ InProject(r, p)
  /\ InsertNew(r, "milestone", p)

CreateUpdate(r, p) ==
  /\ Asked(r, "create_update")
  /\ InProject(r, p)
  /\ InsertNew(r, "update", p)

CreateLabel(r) == Asked(r, "create_label") /\ InsertNew(r, "label", None)

\* An UPDATE and its entry; no property is about what it changes.
Rewrite(r, x) ==
  /\ x \in rows /\ Free(r, {x})
  /\ Finish(r, [NoEffect EXCEPT !.held = {x}, !.told = {x}])

UpdateProject(r, x)   == Asked(r, "update_project") /\ x.kind = "project" /\ Rewrite(r, x)
UpdateMilestone(r, x) == Asked(r, "update_milestone") /\ x.kind = "milestone" /\ Rewrite(r, x)
UpdateLabel(r, x)     == Asked(r, "update_label") /\ x.kind = "label" /\ Rewrite(r, x)

\* remove_project_member.
RemoveMember(r, p) ==
  /\ Asked(r, "remove_member")
  /\ Member(p) \in rows /\ Free(r, {Member(p)})
  /\ Finish(r, [NoEffect EXCEPT !.cut = {Member(p)}, !.held = {Member(p)}, !.evicted = {Member(p)}])

\* delete_milestone: PostgreSQL clears the issues that name it, and nobody is
\* told; SQLite leaves them as they are, for want of a foreign key.
DeleteMilestone(r, x) ==
  LET naming == {i \in Issues : There(i) /\ issues[i].milestone = x.id}
      cleared == IF backend = "postgres" THEN naming ELSE {}
  IN /\ Asked(r, "delete_milestone")
     /\ x \in OfKind("milestone") /\ Free(r, {x}) /\ Unnamed(r, {x})
     /\ IssuesFree(r, cleared)
     /\ Finish(r, [NoEffect EXCEPT !.cut = {x}, !.held = {x}, !.evicted = {x},
                     !.issues = [i \in cleared |-> [issues[i] EXCEPT !.milestone = 0]]])

\* delete_label: its tags go with it, and the issues that had it are not told.
DeleteLabel(r, x) ==
  LET naming == {t \in tags : t[2] = x.id}
  IN /\ Asked(r, "delete_label")
     /\ x \in OfKind("label") /\ Free(r, {x}) /\ Unnamed(r, {x})
     /\ TagsFree(r, naming)
     /\ Finish(r, [NoEffect EXCEPT !.cut = {x}, !.held = {x}, !.evicted = {x}, !.untagged = naming])

\* add_favorite: ON CONFLICT DO NOTHING, then the row that is there is told.  What
\* it names is not looked at, and may be gone.
AddFavorite(r, t) ==
  /\ Asked(r, "add_favorite")
  /\ t \in used.projects \/ t \in {i \in Issues : issues[i].at # "unborn"}
  /\ \A q \in Others(r) : \A x \in reqs[q].fx.held : ~(x.kind = "favorite" /\ x.of = t)
  /\ \/ FavoritesOf(t) = {} /\ InsertNew(r, "favorite", t)
     \/ /\ FavoritesOf(t) # {}
        /\ Finish(r, [NoEffect EXCEPT !.told = FavoritesOf(t)])

\* remove_favorite: its id is read on the pool, then it is deleted by that.
FindFavorite(r, x) ==
  /\ Asked(r, "remove_favorite")
  /\ x \in OfKind("favorite")
  /\ reqs' = [reqs EXCEPT ![r] = [Idle EXCEPT !.at = "unpin", !.seen = {x}]]
  /\ DatabaseOnly

RemoveFavorite(r) ==
  LET seen == reqs[r].seen
  IN /\ At(r, "unpin")
     /\ Free(r, seen)
     /\ IF seen \subseteq rows
        THEN Finish(r, [NoEffect EXCEPT !.cut = seen, !.held = seen, !.evicted = seen])
        ELSE reqs' = [reqs EXCEPT ![r] = Idle] /\ DatabaseOnly

-----------------------------------------------------------------------------
(***************************************************************************)
(* A project goes.                                                         *)
(***************************************************************************)
\* The issues that point at p or at one of its milestones.
Attached(p) ==
  LET theirs == {x.id : x \in {y \in PartsOf(p) : y.kind = "milestone"}}
  IN {i \in Issues : There(i) /\ (issues[i].project = p \/ issues[i].milestone \in theirs)}

\* delete_project opens its transaction and reads what will go with the project,
\* the issues that will be detached, and the favorites of it ...
CollectProject(r, p) ==
  /\ Asked(r, "delete_project")
  /\ Project(p) \in rows
  /\ reqs' = [reqs EXCEPT ![r] = [Idle EXCEPT !.at = "destroy", !.of = p,
                                     !.seen = PartsOf(p) \cup FavoritesOf(p), !.ids = Attached(p)]]
  /\ DatabaseOnly

\* ... then deletes it, which waits for whoever has its row, one of those that
\* go, or an issue that points there.  ON DELETE SET NULL clears the issues.
Detached(p, i) ==
  LET theirs == {x.id : x \in {y \in PartsOf(p) : y.kind = "milestone"}}
      v == issues[i]
  IN [v EXCEPT !.project = IF @ = p THEN None ELSE @,
               !.milestone = IF @ \in theirs /\ backend = "postgres" THEN 0 ELSE @]

\* Mutant: payloads are read along with the ids, before the DELETE.
DestroyProjectEarly(r) ==
  LET p == reqs[r].of
      seen == reqs[r].seen
      doomed == {x \in seen : x.kind = "favorite"} \cap rows
      gone == ({Project(p)} \cap rows) \cup PartsOf(p)
      changed == {i \in Attached(p) : Detached(p, i) # issues[i]}
  IN /\ At(r, "destroy") /\ p \in Projects
     /\ Free(r, gone \cup doomed) /\ Unnamed(r, gone)
     /\ IssuesFree(r, changed)
     /\ Finish(r, [NoEffect EXCEPT !.cut = gone \cup doomed, !.held = gone \cup doomed,
                     !.evicted = {Project(p)} \cup seen,
                     !.issues = [i \in changed |-> Detached(p, i)],
                     !.shown = [i \in reqs[r].ids |-> Payload(i, issues[i], tags)]])

DestroyProject(r) ==
  LET p == reqs[r].of
      seen == reqs[r].seen
      doomed == {x \in seen : x.kind = "favorite"} \cap rows
      gone == ({Project(p)} \cap rows) \cup PartsOf(p)
      changed == {i \in Attached(p) : Detached(p, i) # issues[i]}
  IN /\ At(r, "destroy") /\ p \in Projects
     /\ Free(r, gone \cup doomed) /\ Unnamed(r, gone)
     /\ IssuesFree(r, changed)
     /\ IF \E i \in reqs[r].ids : ~There(i)
        THEN reqs' = [reqs EXCEPT ![r] = Idle] /\ DatabaseOnly
        ELSE Finish(r, [NoEffect EXCEPT !.cut = gone \cup doomed, !.held = gone \cup doomed,
                          !.evicted = {Project(p)} \cup seen,
                          !.issues = [i \in changed |-> Detached(p, i)],
                          !.shown = [i \in reqs[r].ids |-> Payload(i, Detached(p, i), tags)]])

-----------------------------------------------------------------------------
(***************************************************************************)
(* Issues.                                                                 *)
(***************************************************************************)
\* An issue changes to v, and its new state is told.
Write(r, i, v) ==
  /\ Keyed(r, v)
  /\ Finish(r, [NoEffect EXCEPT !.issues = [j \in {i} |-> v],
                  !.shown = [j \in {i} |-> Payload(i, v, tags)]])

\* create_issue, with a project, a milestone and labels.
CreateIssue(r, i, p, m, L) ==
  LET v == [Unborn EXCEPT !.at = "there", !.project = p, !.milestone = m]
      T == {i} \X L
  IN /\ Asked(r, "create_issue")
     /\ issues[i].at = "unborn" /\ IssuesFree(r, {i})
     /\ Keyed(r, v)
     /\ \A l \in L : \E x \in OfKind("label") : x.id = l /\ Kept(r, {x})
     /\ Finish(r, [NoEffect EXCEPT !.issues = [j \in {i} |-> v], !.tagged = T,
                     !.shown = [j \in {i} |-> Payload(i, v, T)]])

\* update_issue: any update takes the issue out of the archive.
UpdateIssue(r, i, v) ==
  /\ There(i) /\ IssuesFree(r, {i})
  /\ Write(r, i, [v EXCEPT !.archived = FALSE])

AssignProject(r, i, p) ==
  Asked(r, "assign") /\ UpdateIssue(r, i, [issues[i] EXCEPT !.project = p])

AssignMilestone(r, i, m) ==
  Asked(r, "assign") /\ UpdateIssue(r, i, [issues[i] EXCEPT !.milestone = m])

SetStatus(r, i, done) ==
  Asked(r, "status") /\ UpdateIssue(r, i, [issues[i] EXCEPT !.done = done])

\* set_sort_order.
SetSortOrder(r, i) == Asked(r, "sort") /\ UpdateIssue(r, i, issues[i])

\* set_issue_labels deletes the tags there are and inserts those in L.  It does
\* not lock the issue, whose whole state it tells, and leaves it in the archive.
SetIssueLabels(r, i, L) ==
  LET old == TagsOf(i)
      new == {i} \X L
  IN /\ Asked(r, "set_labels")
     /\ There(i)
     /\ L # {} => IssueKept(r, i)
     /\ TagsFree(r, old \cup new)
     /\ \A l \in L : \E x \in OfKind("label") : x.id = l /\ Kept(r, {x})
     /\ Finish(r, [NoEffect EXCEPT !.untagged = old \ new, !.tagged = new,
                     !.shares = IF L = {} THEN {} ELSE {i},
                     !.shown = [j \in {i} |-> Payload(i, issues[i], new)]])

\* create_release of issues I that were found before: all of them are there or the
\* foreign key refuses it.  Those that were in no release are stamped.
CreateRelease(r, I) ==
  LET stamped == {i \in I : ~issues[i].released}
      After(i) == [issues[i] EXCEPT !.released = TRUE]
      x == [kind |-> "release", of |-> None, id |-> used.rows + 1]
  IN /\ Asked(r, "create_release")
     /\ used.rows < MaxRows
     /\ \A i \in I : There(i) /\ IssueKept(r, i)
     /\ IssuesFree(r, stamped)
     /\ used' = [used EXCEPT !.rows = @ + 1]
     /\ Stage(r, [NoEffect EXCEPT !.added = {x}, !.held = {x}, !.told = {x}, !.shares = I,
                    !.issues = [i \in stamped |-> After(i)],
                    !.shown = [i \in I |-> Payload(i, After(i), tags)]], {})

\* delete_issue reads the favorites of the issue in its transaction, then deletes
\* it.  Its comments and relations are in IssueGraph.
CollectIssue(r, i) ==
  /\ Asked(r, "delete_issue")
  /\ There(i)
  /\ reqs' = [reqs EXCEPT ![r] = [Idle EXCEPT !.at = "destroy", !.of = i, !.seen = FavoritesOf(i)]]
  /\ DatabaseOnly

DestroyIssue(r) ==
  LET i == reqs[r].of
      doomed == reqs[r].seen \cap rows
  IN /\ At(r, "destroy") /\ i \in Issues
     /\ IssuesFree(r, {i}) /\ Unshared(r, i) /\ TagsFree(r, TagsOf(i))
     /\ Free(r, doomed)
     /\ Finish(r, [NoEffect EXCEPT !.cut = doomed, !.held = doomed, !.evicted = reqs[r].seen,
                     !.untagged = TagsOf(i), !.hidden = {i},
                     !.issues = [j \in {i} |-> [Unborn EXCEPT !.at = "gone"]]])

-----------------------------------------------------------------------------
(***************************************************************************)
(* The sweep.                                                              *)
(***************************************************************************)
\* run_archive_sweep selects what is done and not archived, and old enough: which
\* of them are, is left open.  One sweep runs at a time (main.rs).
SelectOld(r, I) ==
  /\ Asked(r, "sweep")
  /\ \A q \in Requests : reqs[q].at # "sweep" /\ reqs[q].ids = {}
  /\ I # {}
  /\ \A i \in I : There(i) /\ issues[i].done /\ ~issues[i].archived
  /\ reqs' = [reqs EXCEPT ![r] = [Idle EXCEPT !.at = "sweep", !.ids = I]]
  /\ DatabaseOnly

\* Mutant: the UPDATE looks at the issue again, the entry is written all the same.
ArchiveIssueIfDone(r, i) ==
  LET v == [issues[i] EXCEPT !.archived = TRUE]
      hit == IF There(i) /\ issues[i].done THEN {i} ELSE {}
  IN /\ At(r, "sweep") /\ i \in reqs[r].ids
     /\ IssuesFree(r, {i})
     /\ Stage(r, [NoEffect EXCEPT !.issues = [j \in hit |-> v], !.hidden = {i}], reqs[r].ids \ {i})
     /\ UNCHANGED used

\* Each of them is archived in a transaction of its own, whatever became of it.
ArchiveIssue(r, i) ==
  LET v == [issues[i] EXCEPT !.archived = TRUE]
      hit == IF There(i) THEN {i} ELSE {}
  IN /\ At(r, "sweep") /\ i \in reqs[r].ids
     /\ IssuesFree(r, {i})
     /\ Stage(r, [NoEffect EXCEPT !.issues = [j \in hit |-> v], !.hidden = {i}], reqs[r].ids \ {i})
     /\ UNCHANGED used

-----------------------------------------------------------------------------
Ids(k) == {x.id : x \in OfKind(k)}

RowStep(r) ==
  \/ \E p \in Projects : \/ CreateProject(r, p) \/ AddMember(r, p) \/ RemoveMember(r, p)
                         \/ CreateMilestone(r, p) \/ CreateUpdate(r, p) \/ CollectProject(r, p)
  \/ \E x \in rows : \/ UpdateProject(r, x) \/ UpdateMilestone(r, x) \/ UpdateLabel(r, x)
                     \/ DeleteMilestone(r, x) \/ DeleteLabel(r, x) \/ FindFavorite(r, x)
  \/ \E t \in Projects \cup Issues : AddFavorite(r, t)
  \/ CreateLabel(r) \/ RemoveFavorite(r) \/ DestroyProject(r)

IssueStep(r) ==
  \/ \E i \in Issues :
       \/ \E p \in Projects \cup {None} :
            \/ AssignProject(r, i, p)
            \/ \E m \in Ids("milestone") \cup {0}, L \in SUBSET Ids("label") : CreateIssue(r, i, p, m, L)
       \/ \E m \in Ids("milestone") \cup {0} : AssignMilestone(r, i, m)
       \/ \E done \in BOOLEAN : SetStatus(r, i, done)
       \/ \E L \in SUBSET Ids("label") : SetIssueLabels(r, i, L)
       \/ SetSortOrder(r, i) \/ CollectIssue(r, i) \/ ArchiveIssue(r, i)
  \/ \E I \in SUBSET Issues : CreateRelease(r, I) \/ SelectOld(r, I)
  \/ DestroyIssue(r)

Next == \E r \in Requests : RowStep(r) \/ IssueStep(r) \/ Commit(r) \/ Abandon(r)

Spec == Init /\ [][Next]_vars

-----------------------------------------------------------------------------
(***************************************************************************)
(* Properties.                                                             *)
(***************************************************************************)
\* Types; the rows of the database keep their keys: parts have their project, tags
\* their issue and label, an issue its project and, on PostgreSQL, its milestone.
TypeOK ==
  /\ backend \in Backends /\ calls \in Scenarios
  /\ rows \cup picture.rows \subseteq Row
  /\ used.projects \subseteq Projects /\ used.rows \in 0..MaxRows
  /\ issues \in [Issues -> Issue]
  /\ DOMAIN picture.issues \subseteq Issues
  /\ \A x \in rows : x.kind \in PartKinds => Project(x.of) \in rows
  /\ \A x, y \in rows : x.id = y.id /\ x.id # 0 => x = y
  /\ \A t \in tags : t[1] \in Issues /\ There(t[1]) /\ \E x \in OfKind("label") : x.id = t[2]
  /\ \A i \in Issues :
       /\ issues[i].project # None => Project(issues[i].project) \in rows
       /\ issues[i].milestone # 0 /\ backend = "postgres" =>
            \E x \in OfKind("milestone") : x.id = issues[i].milestone

\* Nothing that is there is missing on a client: what clients were told is gone
\* is gone, or archived, on both databases and in every order of commits
\* (project_service.rs, delete_project: "a client told to delete them would drop
\* rows the server still has").
NothingLost ==
  /\ rows \subseteq picture.rows
  /\ \A i \in Issues : There(i) /\ ~issues[i].archived => i \in DOMAIN picture.issues

\* On SQLite a client has nothing else, and every issue it has as it is, but for
\* labels that were deleted: what went with a project, an issue or a label was
\* told, with the state it left (project_service.rs, delete_project: "nor left
\* without the row that replays one that was not").
NothingStale ==
  backend = "sqlite" =>
    /\ picture.rows \subseteq rows
    /\ \A i \in DOMAIN picture.issues :
         /\ There(i) /\ picture.issues[i].issue = issues[i]
         /\ picture.issues[i].labels \cap Ids("label") = {t[2] : t \in TagsOf(i)}
=============================================================================
