------------------------------ MODULE MCSyncLog ------------------------------
(***************************************************************************)
(* Instances of SyncLog for TLC.                                           *)
(***************************************************************************)
EXTENDS SyncLog, TLC

CONSTANTS ann, bob, t1, v1, r1, r2

TeamCalls == {"create_team", "update_team", "added", "role", "removed", "delete_team"}
ViewCalls == {"create_view", "update_view", "delete_view"}

\* Teams and views share nothing but the log: one of them at a time.
SafetyScenarios == {TeamCalls, ViewCalls}

\* A view made in a team, and the end of the team.
InTeam == {<<v1, t1>>}
CascadeScenarios == {{"create_team", "delete_team", "create_view"}}

Interchangeable == Permutations(Requests)

=============================================================================
