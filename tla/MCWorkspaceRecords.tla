------------------------- MODULE MCWorkspaceRecords -------------------------
(***************************************************************************)
(* Instances of WorkspaceRecords: which calls meet.                        *)
(***************************************************************************)
EXTENDS WorkspaceRecords, TLC

CONSTANTS p1, p2, i1, i2, r1, r2

\* A project with its parts, and what goes with it.
Parts == {"create_project", "delete_project", "add_member", "remove_member", "create_update"}

\* Milestones, inside the project of the issue and outside.
Milestones == {"delete_project", "create_milestone", "update_milestone", "delete_milestone", "create_issue",
               "assign", "status"}

\* Favorites of projects and issues that go.
Pins == {"delete_project", "update_project", "delete_issue", "add_favorite", "remove_favorite"}

\* Issues of a project that change, move and go.
Moves == {"delete_project", "create_issue", "assign", "sort", "create_release", "delete_issue"}

\* Labels of issues that change and go.
Labels == {"create_label", "update_label", "delete_label", "create_issue", "set_labels", "assign",
           "delete_issue"}

\* The archive.
Archive == {"status", "sort", "sweep", "delete_issue", "create_release"}
Archived == {"set_labels", "status", "sort", "sweep", "delete_issue"}

AllScenarios == {Parts, Milestones, Pins, Moves, Labels, Archive, Archived}
Perms == Permutations({r1, r2}) \cup Permutations({i1, i2}) \cup Permutations({p1, p2})
=============================================================================
