------------------------ MODULE MCGitHubConnection ------------------------
(***************************************************************************)
(* Instances of GitHubConnection for TLC.                                  *)
(***************************************************************************)
EXTENDS GitHubConnection, TLC

CONSTANTS r1, r2, f1, f2

Sym == Permutations(Repos) \cup Permutations(Flows)

Allow(f) == [m \in Moves |-> IF m \in DOMAIN f THEN f[m] ELSE 0]

TheScenarios ==
  {Allow("scope" :> 2 @@ "flow" :> 1 @@ "disconnect" :> 1),
   Allow("scope" :> 1 @@ "flow" :> 1 @@ "redeliver" :> 1),
   Allow("pr" :> 1 @@ "scope" :> 2 @@ "disconnect" :> 1),
   Allow("pr" :> 1 @@ "scope" :> 1 @@ "suspend" :> 1 @@ "flow" :> 1),
   Allow("pr" :> 1 @@ "complete" :> 1 @@ "suspend" :> 1 @@ "redeliver" :> 1),
   Allow("pr" :> 1 @@ "complete" :> 1 @@ "abandon" :> 1 @@ "disconnect" :> 1),
   Allow("scope" :> 2 @@ "abandon" :> 1),
   Allow("push" :> 1 @@ "uninstall" :> 1 @@ "flow" :> 1 @@ "redeliver" :> 1),
   Allow("disconnect" :> 1 @@ "remove" :> 1 @@ "flow" :> 2 @@ "suspend" :> 1)}

=============================================================================
