-------------------------- MODULE MCContinuityWrite --------------------------
(***************************************************************************)
(* Instances of ContinuityWrite for TLC: write calls and one entry that is *)
(* already stored.                                                         *)
(***************************************************************************)
EXTENDS ContinuityWrite

CONSTANTS w1, w2, w3, w4, w5, e0, h1, h2

MCProcs == {w1, w2, w3, w4, w5}
MCPair == {w1, w2}
MCIds == Procs \cup {e0}

\* w1 and w3, on different hosts, share a rowid; so do w4 and the old entry.
MCRowId == [i \in MCIds |-> CASE i = w3 -> w1 [] i = w4 -> e0 [] OTHER -> i]

MCHosts == {h1, h2}
MCOneHost == [p \in Procs |-> h1]
MCTwoHosts == [p \in Procs |-> IF p \in {w1, w2} THEN h1 ELSE h2]

\* w1, w2 and w3 say the same; w4 repeats the old entry, which its gate finds
\* unless the read throws; w5 is operational noise.
MCTexts == {"plan", "decision", "noise"}
MCText == [i \in MCIds |-> CASE i \in {e0, w4} -> "plan"
                             [] i = w5 -> "noise"
                             [] OTHER -> "decision"]
MCLowSignal == {"noise"}
=============================================================================
