-------------------------- MODULE MCCompactionApply --------------------------
(***************************************************************************)
(* Instances of CompactionApply for TLC: two executions over four entries. *)
(* One preview has two groups, the other one group that shares a source    *)
(* with each of them; the executions may also apply the same preview.      *)
(***************************************************************************)
EXTENDS CompactionApply, TLC

CONSTANTS a1, a2, e1, e2, e3, e4, h1, h2, wide, narrow

MCProcs == {a1, a2}
MCOneProc == {a1}
MCEntries == {e1, e2, e3, e4}
MCPreviews == {wide, narrow}
MCGroups == [p \in MCPreviews |->
               IF p = wide THEN <<{e1, e2}, {e3, e4}>> ELSE <<{e2, e3}>>]
MCMaxGroups == 2
MCIds == MCEntries \cup (Procs \X (1..MCMaxGroups))

\* Every entry has a rowid of its own.
MCRowId == [i \in MCIds |-> i]

MCHosts == {h1, h2}
MCOneHost == [a \in Procs |-> h1]
MCTwoHosts == [a \in Procs |-> IF a = a1 THEN h1 ELSE h2]

\* The two executions, each with its host, are interchangeable.
MCSymmetry == {f \in Permutations({a1, a2, h1, h2}) :
                 f[a1] \in {a1, a2} /\ (f[a1] = a2 <=> f[h1] = h2)}
=============================================================================
