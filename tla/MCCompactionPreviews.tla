------------------------ MODULE MCCompactionPreviews -------------------------
(***************************************************************************)
(* Instances of CompactionPreviews for TLC.  The program's budgets (8/12   *)
(* previews, 1/2 applies, 3 revisions, 6 hours, 14 days) are scaled down   *)
(* to one, so that the second preview and the second apply are over them.  *)
(***************************************************************************)
EXTENDS CompactionPreviews, TLC

CONSTANTS p1, p2, c1, c2, s1, s2, f1, f2

MCBudget == [p \in Profiles |-> 1]

Symmetry == Permutations({p1, p2}) \cup Permutations({c1, c2})
            \cup Permutations({s1, s2}) \cup Permutations({f1, f2})
=============================================================================
