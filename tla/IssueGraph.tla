----------------------------- MODULE IssueGraph -----------------------------
(***************************************************************************)
(* The services behind an issue (issue_service.rs, relation_service.rs,    *)
(* comment_service.rs): requests that validate on the pool, then change    *)
(* the database and write the sync log in one transaction.  Requests run   *)
(* at once, and stop anywhere when their client goes away.                 *)
(*                                                                         *)
(* The log is kept as the picture it paints: what a client that has        *)
(* replayed it holds, with the last payload of each issue.                 *)
(***************************************************************************)
EXTENDS Naturals, FiniteSets

CONSTANTS
  Issues,    \* issue ids; an id is drawn once
  Requests,  \* handlers that may run at once
  RowTypes,  \* the relation types in play, and "comment"
  Calls,     \* the calls users make, see CallKinds
  Backends,  \* the databases to run on
  Races,     \* interleavings to include: "overlap", calls that add relations run
             \* at once; "lookup", issues are related while a status is updated
  MaxRows,   \* bound: relations and comments ever added
  MaxDepth   \* the parents validate_no_circular_reference walks up

CallKinds == {"create", "status", "edit", "delete", "relate", "parent", "unrelate", "comment"}

ASSUME IssueGraphAssumption ==
  /\ RowTypes \subseteq {"blocks", "parent", "duplicate", "relates_to", "comment"}
  /\ Calls \subseteq CallKinds
  /\ Backends \subseteq {"sqlite", "postgres"}
  /\ Races \subseteq {"overlap", "lookup"}
  /\ {MaxRows, MaxDepth} \subseteq Nat

VARIABLES
  backend,  \* the database of this behaviour
  life,     \* table issues: "unborn", "open", "done" (by status category), "deleted"
  rows,     \* tables issue_relations and comments
  drawn,    \* row ids drawn
  replica,  \* what the log says there is: issues and rows
  flags,    \* the is_blocked of each issue's last payload
  touched,  \* history: issues whose is_blocked came to differ from that as a blocks
            \* relation came or went.  No action reads it
  reqs      \* per request: how far it is

vars == <<backend, life, rows, drawn, replica, flags, touched, reqs>>

-----------------------------------------------------------------------------
Live(i)  == life[i] \in {"open", "done"}
LiveSet  == {i \in Issues : Live(i)}
Ends(x)  == {x.source, x.target}

Row == [id : 1..MaxRows, type : RowTypes, source : Issues, target : Issues]

\* find_blocked_issue_ids.
BlockedBy(i) == {x.target : x \in {y \in rows : y.type = "blocks" /\ y.source = i}}

\* The is_blocked column of ISSUE_DETAIL_SELECT, on rows R and issues L.
IsBlocked(i, R, L) == \E x \in R : x.type = "blocks" /\ x.target = i /\ L[x.source] = "open"

NoFlags == [i \in {} |-> FALSE]

\* What f says where it says something, and g elsewhere.
Over(f, g) == [x \in DOMAIN f \cup DOMAIN g |-> IF x \in DOMAIN f THEN f[x] ELSE g[x]]

\* What a transaction will do: issues made and destroyed, rows added and removed,
\* a status, and the entries it writes: cut are the rows they evict.
NoEffect == [born |-> {}, killed |-> {}, added |-> {}, cut |-> {}, status |-> NoFlags,
             flags |-> NoFlags]

\* A request that is not running.  It wants a row, or a change of the issue
\* named by it.
Idle == [at |-> "idle", call |-> "none", type |-> "none", source |-> "none", target |-> "none",
         id |-> 0, to |-> "open", todo |-> {}, seen |-> {}, hops |-> 0, fx |-> NoEffect]

Init ==
  /\ backend \in Backends
  /\ life \in [Issues -> {"unborn", "open"}]
  /\ rows = {} /\ drawn = 0
  /\ replica = [issues |-> LiveSet, rows |-> {}]
  /\ flags = [i \in Issues |-> FALSE]
  /\ touched = {}
  /\ reqs = [r \in Requests |-> Idle]

-----------------------------------------------------------------------------
(***************************************************************************)
(* The database.  SQLite has one connection, which a transaction keeps;    *)
(* PostgreSQL has many, read committed, and locks rows.                    *)
(***************************************************************************)
InTransaction(q) == reqs[q].at \in {"destroy", "commit"}

Others(r) == {q \in Requests \ {r} : InTransaction(q)}

At(r, places) ==
  /\ reqs[r].at \in places
  /\ backend = "sqlite" => Others(r) = {}

\* The handler goes on, with what it has looked at forgotten.
Goto(r, place) ==
  reqs' = [reqs EXCEPT ![r] = [@ EXCEPT !.at = place, !.id = 0, !.todo = {}, !.seen = {}, !.hops = 0]]

\* An error or an answer: the handler returns, and drops what it has open.
Return(r) == reqs' = [reqs EXCEPT ![r] = Idle]

DatabaseOnly == UNCHANGED <<backend, life, rows, drawn, replica, flags, touched>>

\* What r does to issue i does not wait for a lock of another transaction:
\* foreign keys share the row, an update or delete has it alone.
Unlocked(r, i, alone) ==
  \A q \in Others(r) :
    LET fx == reqs[q].fx IN
      /\ i \notin fx.killed \cup DOMAIN fx.status
      /\ alone => \A x \in fx.added : i \notin Ends(x)

RowUnlocked(r, x) ==
  \A q \in Others(r) : x \notin reqs[q].fx.cut /\ Ends(x) \cap reqs[q].fx.killed = {}

\* The statements of the transaction have run; it is not visible yet.
Stage(r, fx) ==
  /\ reqs' = [reqs EXCEPT ![r] = [@ EXCEPT !.at = "commit", !.fx = fx, !.id = 0, !.todo = {},
                                           !.to = "open"]]
  /\ UNCHANGED <<backend, life, rows, replica, flags, touched>>

\* commit_and_deliver: the changes and their entries become visible at once.  A
\* row goes with the issues it names (ON DELETE CASCADE).
Commit(r) ==
  LET fx == reqs[r].fx
      kept == {x \in (rows \ fx.cut) \cup fx.added : Ends(x) \cap fx.killed = {}}
      moved == {x \in (rows \ kept) \cup (kept \ rows) : x.type = "blocks"}
  IN /\ At(r, {"commit"})
     /\ life' = [i \in Issues |-> IF i \in fx.born THEN "open"
                                  ELSE IF i \in fx.killed THEN "deleted"
                                  ELSE IF i \in DOMAIN fx.status THEN fx.status[i]
                                  ELSE life[i]]
     /\ rows' = kept
     /\ replica' = [issues |-> (replica.issues \cup fx.born) \ fx.killed,
                    rows |-> (replica.rows \cup fx.added) \ fx.cut]
     /\ flags' = Over(fx.flags, Over([i \in fx.killed |-> FALSE], flags))
     /\ touched' = {i \in (touched \cup {x.target : x \in moved}) \ (DOMAIN fx.flags \cup fx.killed) :
                      flags'[i] # IsBlocked(i, rows', life')}
     /\ IF reqs[r].call = "parent" /\ fx.added = {}
        THEN reqs' = [reqs EXCEPT ![r] = [@ EXCEPT !.at = "check", !.fx = NoEffect]]
        ELSE Return(r)
     /\ UNCHANGED <<backend, drawn>>

\* The client of a request goes away, or the process restarts: what is not
\* committed is rolled back.
Abandon(r) ==
  /\ reqs[r].at # "idle"
  /\ Return(r)
  /\ DatabaseOnly

-----------------------------------------------------------------------------
(***************************************************************************)
(* Issues.                                                                 *)
(***************************************************************************)
\* create_issue.
CreateIssue(r, i) ==
  /\ "create" \in Calls
  /\ At(r, {"idle"})
  /\ life[i] = "unborn"
  /\ \A q \in Others(r) : i \notin reqs[q].fx.born
  /\ Stage(r, [NoEffect EXCEPT !.born = {i}, !.flags = [j \in {i} |-> FALSE]])
  /\ UNCHANGED drawn

\* update_issue: the issue is found by its number and, when its status is to
\* change, so are those it blocks, before the transaction opens.
FindIssue(r, i) ==
  /\ At(r, {"idle"})
  /\ Live(i)
  /\ \/ /\ "status" \in Calls
        /\ "lookup" \in Races \/ \A q \in Requests : reqs[q].type # "blocks"
        /\ \E to \in {"open", "done"} :
             reqs' = [reqs EXCEPT ![r] = [Idle EXCEPT !.at = "update", !.call = "status",
                                                      !.source = i, !.to = to,
                                                      !.todo = BlockedBy(i)]]
     \/ /\ "edit" \in Calls
        /\ reqs' = [reqs EXCEPT ![r] = [Idle EXCEPT !.at = "update", !.call = "edit",
                                                    !.source = i]]
  /\ DatabaseOnly

\* Mutant: only the issue itself gets an entry.
UpdateIssueAlone(r) ==
  LET i == reqs[r].source
      status == IF reqs[r].call = "status" THEN [j \in {i} |-> reqs[r].to] ELSE NoFlags
  IN /\ At(r, {"update"})
     /\ Unlocked(r, i, reqs[r].call = "status")
     /\ \/ ~Live(i) /\ Return(r) /\ DatabaseOnly
        \/ /\ Live(i)
           /\ Stage(r, [NoEffect EXCEPT !.status = status,
                          !.flags = [j \in {i} |-> IsBlocked(j, rows, Over(status, life))]])
           /\ UNCHANGED drawn

\* The transaction of update_issue: payloads are read in it, of the issue and of
\* those it was found to block that still exist.
UpdateIssue(r) ==
  LET i == reqs[r].source
      status == IF reqs[r].call = "status" THEN [j \in {i} |-> reqs[r].to] ELSE NoFlags
      told == {i} \cup {j \in reqs[r].todo : Live(j)}
  IN /\ At(r, {"update"})
     /\ Unlocked(r, i, reqs[r].call = "status")
     /\ \/ ~Live(i) /\ Return(r) /\ DatabaseOnly
        \/ /\ Live(i)
           /\ Stage(r, [NoEffect EXCEPT !.status = status,
                          !.flags = [j \in told |-> IsBlocked(j, rows, Over(status, life))]])
           /\ UNCHANGED drawn

\* delete_issue: the rows that will go are read first, in the transaction ...
CollectCascade(r, i) ==
  /\ "delete" \in Calls
  /\ At(r, {"idle"})
  /\ Live(i)
  /\ reqs' = [reqs EXCEPT ![r] =
                [Idle EXCEPT !.at = "destroy", !.call = "delete", !.source = i,
                             !.fx.cut = {x \in rows : i \in Ends(x)}]]
  /\ DatabaseOnly

\* Mutant: the rows that go with the issue are not reported.
DeleteIssueOnly(r) ==
  LET i == reqs[r].source
  IN /\ At(r, {"destroy"})
     /\ Unlocked(r, i, TRUE)
     /\ Stage(r, [NoEffect EXCEPT !.killed = {i}])
     /\ UNCHANGED drawn

\* ... then the issue is deleted, which waits for its row.
DeleteIssue(r) ==
  LET i == reqs[r].source
  IN /\ At(r, {"destroy"})
     /\ Unlocked(r, i, TRUE)
     /\ Stage(r, [reqs[r].fx EXCEPT !.killed = {i}])
     /\ UNCHANGED drawn

-----------------------------------------------------------------------------
(***************************************************************************)
(* Rows.                                                                   *)
(***************************************************************************)
Relating(q) == reqs[q].call \in {"relate", "parent"}

MayRelate(r) ==
  /\ "overlap" \in Races \/ \A q \in Requests \ {r} : ~Relating(q)
  /\ "lookup" \in Races \/ \A q \in Requests : reqs[q].call # "status" \/ reqs[q].at # "update"

\* create_relation begins: two different issues, which exist; then each type
\* has its validation.
Validate(r, want) ==
  LET place == CASE want.type \in {"blocks", "parent"} -> "walk"
                 [] want.type = "duplicate" -> "single"
                 [] OTHER -> "insert"
      first == CASE want.type = "blocks" -> {want.target}
                 [] want.type = "parent" -> {want.source}
                 [] OTHER -> {}
  IN IF want.source # want.target /\ Live(want.source) /\ Live(want.target)
     THEN reqs' = [reqs EXCEPT ![r] = [want EXCEPT !.at = place, !.todo = first]]
     ELSE Return(r)

AskRelation(r, t, s, d) ==
  /\ "relate" \in Calls
  /\ At(r, {"idle"})
  /\ MayRelate(r)
  /\ t \in RowTypes \ {"comment"}
  /\ Validate(r, [Idle EXCEPT !.call = "relate", !.type = t, !.source = s, !.target = d])
  /\ DatabaseOnly

\* set_parent begins with clear_parent, which looks for the relation ...
FindParent(r, s, d) ==
  /\ "parent" \in Calls /\ "parent" \in RowTypes
  /\ At(r, {"idle"})
  /\ MayRelate(r)
  /\ LET old == {x \in rows : x.type = "parent" /\ x.target = d}
         wanted == [Idle EXCEPT !.call = "parent", !.type = "parent", !.source = s, !.target = d]
     IN \/ /\ old = {}
           /\ Validate(r, wanted)
        \/ \E x \in old :
             reqs' = [reqs EXCEPT ![r] = [wanted EXCEPT !.at = "cut", !.id = x.id]]
  /\ DatabaseOnly

\* delete_relation, in one transaction.  A user gives one that is there or not;
\* in set_parent, the one that was found, and create_relation comes next.
DeleteRelation(r, n) ==
  /\ \/ /\ At(r, {"idle"}) /\ "unrelate" \in Calls
        /\ \E x \in rows : x.id = n /\ x.type # "comment"
     \/ At(r, {"cut"}) /\ n = reqs[r].id
  /\ \/ /\ \A x \in rows : x.id # n
        /\ Return(r)
        /\ DatabaseOnly
     \/ \E x \in rows :
          /\ x.id = n
          /\ RowUnlocked(r, x)
          /\ Stage(r, [NoEffect EXCEPT !.cut = {x}])
          /\ UNCHANGED drawn

\* set_parent goes on to create_relation.
CheckEnds(r) ==
  /\ At(r, {"check"})
  /\ Validate(r, reqs[r])
  /\ DatabaseOnly

\* Mutant: the walk ends after the first issue.
WalkBlockedOnce(r) ==
  LET want == reqs[r] IN
  /\ At(r, {"walk"}) /\ want.type = "blocks"
  /\ \/ want.todo = {} /\ Goto(r, "insert")
     \/ \E i \in want.todo :
          IF i = want.source THEN Return(r)
          ELSE reqs' = [reqs EXCEPT ![r].seen = @ \cup {i}, ![r].todo = {}]
  /\ DatabaseOnly

\* validate_no_circular_blocking, a query per issue.
WalkBlocked(r) ==
  LET want == reqs[r] IN
  /\ At(r, {"walk"}) /\ want.type = "blocks"
  /\ \/ want.todo = {} /\ Goto(r, "insert")
     \/ \E i \in want.todo :
          IF i = want.source THEN Return(r)
          ELSE reqs' = [reqs EXCEPT ![r].seen = @ \cup {i},
                                    ![r].todo = (@ \cup BlockedBy(i)) \ (want.seen \cup {i})]
  /\ DatabaseOnly

\* validate_no_circular_reference, a query per ancestor.
WalkParents(r) ==
  LET want == reqs[r] IN
  /\ At(r, {"walk"}) /\ want.type = "parent"
  /\ \E i \in want.todo :
       LET up == {x.source : x \in {y \in rows : y.type = "parent" /\ y.target = i}} IN
         IF want.hops = MaxDepth THEN Return(r)
         ELSE \/ up = {} /\ Goto(r, "single")
              \/ \E p \in up : IF p = want.target THEN Return(r)
                               ELSE reqs' = [reqs EXCEPT ![r].todo = {p}, ![r].hops = @ + 1]
  /\ DatabaseOnly

\* validate_single_parent and validate_single_duplicate.
CheckSingle(r) ==
  LET want == reqs[r]
      taken == \E x \in rows : x.type = want.type
                 /\ (IF want.type = "parent" THEN x.target = want.target
                                             ELSE x.source = want.source)
  IN /\ At(r, {"single"})
     /\ IF taken THEN Return(r) ELSE Goto(r, "insert")
     /\ DatabaseOnly

\* create_comment finds the issue's workspace.
AskComment(r, i) ==
  /\ "comment" \in Calls /\ "comment" \in RowTypes
  /\ At(r, {"idle"})
  /\ Live(i)
  /\ reqs' = [reqs EXCEPT ![r] = [Idle EXCEPT !.at = "insert", !.call = "comment",
                                              !.type = "comment", !.source = i, !.target = i]]
  /\ DatabaseOnly

NewRow(r) == [id |-> drawn + 1, type |-> reqs[r].type, source |-> reqs[r].source,
              target |-> reqs[r].target]

Same(x, y) == x.type # "comment" /\ x.type = y.type /\ x.source = y.source /\ x.target = y.target

AddRow(r) ==
  /\ drawn < MaxRows
  /\ drawn' = drawn + 1
  /\ Stage(r, [NoEffect EXCEPT !.added = {NewRow(r)}])

\* Mutant: no foreign keys.
InsertRowAnywhere(r) ==
  /\ At(r, {"insert"})
  /\ \A y \in rows : ~Same(NewRow(r), y)
  /\ AddRow(r)

\* The INSERT of create_relation and create_comment: foreign keys, and one
\* relation of a type between two issues, which waits for others who add or
\* remove it.
InsertRow(r) ==
  LET refused == ~(Ends(reqs[r]) \subseteq LiveSet) \/ \E y \in rows : Same(NewRow(r), y)
  IN /\ At(r, {"insert"})
     /\ \A i \in Ends(reqs[r]) : Unlocked(r, i, FALSE)
     /\ \A q \in Others(r) : \A y \in reqs[q].fx.added \cup reqs[q].fx.cut : ~Same(NewRow(r), y)
     /\ \/ refused /\ Return(r) /\ DatabaseOnly
        \/ ~refused /\ AddRow(r)

-----------------------------------------------------------------------------
IssueStep(r) ==
  \/ \E i \in Issues : CreateIssue(r, i) \/ FindIssue(r, i) \/ CollectCascade(r, i)
  \/ UpdateIssue(r) \/ DeleteIssue(r)

RowStep(r) ==
  \/ \E t \in RowTypes, s, d \in Issues : AskRelation(r, t, s, d)
  \/ \E s, d \in Issues : FindParent(r, s, d)
  \/ \E n \in 1..MaxRows : DeleteRelation(r, n)
  \/ \E i \in Issues : AskComment(r, i)
  \/ CheckEnds(r) \/ WalkBlocked(r) \/ WalkParents(r) \/ CheckSingle(r)
  \/ InsertRow(r)

Next == \E r \in Requests : IssueStep(r) \/ RowStep(r) \/ Commit(r) \/ Abandon(r)

Spec == Init /\ [][Next]_vars

-----------------------------------------------------------------------------
(***************************************************************************)
(* Properties.                                                             *)
(***************************************************************************)

Effect(fx) ==
  /\ fx.born \cup fx.killed \cup DOMAIN fx.status \cup DOMAIN fx.flags \subseteq Issues
  /\ fx.added \cup fx.cut \subseteq Row

\* Types; the rows of the database keep their keys (issue_relations.sql): the
\* issues they name exist, and an id is used once.
TypeOK ==
  /\ backend \in Backends
  /\ life \in [Issues -> {"unborn", "open", "done", "deleted"}]
  /\ rows \subseteq Row /\ drawn \in 0..MaxRows
  /\ \A x \in rows : Ends(x) \subseteq LiveSet
  /\ \A x, y \in rows : x.id = y.id => x = y
  /\ replica.issues \subseteq Issues /\ replica.rows \subseteq Row
  /\ flags \in [Issues -> BOOLEAN]
  /\ touched \subseteq Issues
  /\ \A r \in Requests : reqs[r].todo \cup reqs[r].seen \subseteq Issues /\ Effect(reqs[r].fx)

\* Who replays the log has exactly the rows of the database: a row that was
\* logged and is gone has been reported gone, whatever took it ("nor left
\* without the row that replays one that was not", issue_service.rs, delete_issue).
LogTellsAll == replica = [issues |-> LiveSet, rows |-> rows]

\* The blocked flag clients were last told is right, unless a relation has come
\* or gone since, which tells nothing (issue_service.rs, update_issue: "one per
\* issue whose derived is_blocked flag changed with it").
FlagsTold == \A i \in LiveSet \ touched : flags[i] = IsBlocked(i, rows, life)

\* The picture the log paints changes as IssueTracker says, one call at a time.
Tracker == INSTANCE IssueTracker WITH issues <- replica.issues, rows <- replica.rows
Implements == Tracker!TrackerSpec
=============================================================================
