---------------------------- MODULE IssueTracker ----------------------------
(***************************************************************************)
(* What the issue services promise of the picture that the sync log paints *)
(* (issue_service.rs, relation_service.rs, comment_service.rs): issues,    *)
(* and rows that depend on them.  One call changes it in one step; a row   *)
(* never outlives the issues it names; and the rules on relations that     *)
(* create_relation documents hold of every relation that is added.         *)
(*                                                                         *)
(* A comment is a row whose source and target are the issue it is on.      *)
(***************************************************************************)
CONSTANTS Issues, RowTypes

VARIABLES
  issues,  \* the issues there are
  rows     \* the relations and comments there are

vars == <<issues, rows>>

Ends(x) == {x.source, x.target}

Of(type) == {x \in rows : x.type = type}

\* b can be reached from a along rows of a type: it is in every set that has a
\* and is closed under them.
Leads(type, a, b) ==
  \A S \in SUBSET issues :
    (a \in S /\ \A x \in Of(type) : x.source \in S => x.target \in S) => b \in S

\* The rules of each type: no cycle of blocks or of parents, one parent, one
\* original.
Legal(x) ==
  /\ x.type \in RowTypes
  /\ Ends(x) \subseteq issues
  /\ x.type # "comment" =>
       /\ x.source # x.target
       /\ \A y \in Of(x.type) : y.source # x.source \/ y.target # x.target
  /\ x.type \in {"blocks", "parent"} => ~Leads(x.type, x.target, x.source)
  /\ x.type = "parent" => \A y \in Of("parent") : y.target # x.target
  /\ x.type = "duplicate" => \A y \in Of("duplicate") : y.source # x.source

TrackerInit == issues \subseteq Issues /\ rows = {}

Add(i) == issues' = issues \cup {i} /\ UNCHANGED rows

Remove(i) ==
  /\ issues' = issues \ {i}
  /\ rows' = {x \in rows : i \notin Ends(x)}

Link == \E x \in rows' : Legal(x) /\ rows' = rows \cup {x} /\ UNCHANGED issues

Unlink == \E x \in rows : rows' = rows \ {x} /\ UNCHANGED issues

TrackerNext == Link \/ Unlink \/ \E i \in Issues : Add(i) \/ Remove(i)

TrackerSpec == TrackerInit /\ [][TrackerNext]_vars
=============================================================================
