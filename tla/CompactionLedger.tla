-------------------------- MODULE CompactionLedger ---------------------------
(***************************************************************************)
(* What applying a preview means: in one step, all sources of all its      *)
(* groups, none of them absorbed before, are absorbed by the summaries of  *)
(* one execution, and the preview is done.  It happens at most once per    *)
(* preview and is never undone.                                            *)
(***************************************************************************)
EXTENDS Sequences

CONSTANTS Entries, Executions, Previews, Groups, NoId

VARIABLES
    absorbed,   \* [Entries -> summary id or NoId]
    done        \* applied previews

Init ==
    /\ absorbed = [e \in Entries |-> NoId]
    /\ done = {}

Compact(x, p) ==
    /\ p \notin done
    /\ done' = done \cup {p}
    /\ \A n \in DOMAIN Groups[p] : \A e \in Groups[p][n] : absorbed[e] = NoId
    /\ absorbed' = [e \in Entries |->
          IF \E n \in DOMAIN Groups[p] : e \in Groups[p][n]
          THEN <<x, CHOOSE n \in DOMAIN Groups[p] : e \in Groups[p][n]>>
          ELSE absorbed[e]]

Next == \E x \in Executions, p \in Previews : Compact(x, p)

Spec == Init /\ [][Next]_<<absorbed, done>>
=============================================================================
