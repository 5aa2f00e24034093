---------------------------- MODULE MCSyncEngine ----------------------------
(***************************************************************************)
(* Instances of SyncEngine for TLC.                                        *)
(***************************************************************************)
EXTENDS SyncEngine, TLC

CONSTANTS k1, k2, e1, e2, t1, t2

\* Two rows of different types: a wipe takes two steps and can be half done.
OneRowPerType == k1 :> e1 @@ k2 :> e2

\* Rows of one type: a wipe is one step.
OneType == [k \in Keys |-> e1]

=============================================================================
