----------------------------- MODULE MCTabSync -----------------------------
(***************************************************************************)
(* Instances of TabSync for TLC.                                           *)
(***************************************************************************)
EXTENDS TabSync, TLC

CONSTANTS t1, t2, k1

\* No tab is special: which one opens first is all the same.
TabSymmetry == Permutations(Tabs)

Bounded(g, f, l, o, d) ==
  [gestures |-> g, faults |-> f, races |-> {}, log |-> l, opens |-> o, drops |-> d]

\* Writes that fail and a lost connection; a third page load; memberships that
\* come back and lists that cannot be read.
SafetyScenarios ==
  {Bounded({"delete", "leave", "prune"}, {"write"}, 2, 2, 1),
   Bounded({"delete", "leave"}, {}, 2, 3, 0),
   Bounded({"leave", "rejoin"}, {"hydrate"}, 3, 2, 0)}

\* What the server broadcasts, and what it does not.
LiveScenarios ==
  {Bounded({"delete"}, {}, 2, 2, 0), Bounded({"leave"}, {}, 2, 2, 0)}

=============================================================================
