---------------------------- MODULE MCKnowledge ----------------------------
(***************************************************************************)
(* Instances of Promotion and the ProjectIndex it reads for TLC.           *)
(***************************************************************************)
EXTENDS Promotion

CONSTANTS c1, c2, ann, bob, strong, weak

Table(u, k, n) == [user |-> u, kind |-> k, most |-> n]

\* Ann's memories, and those of Bob.
MCTables == <<Table(ann, "memory", 2), Table(bob, "memory", 1)>>
\* Ann's memories and continuity entries, Bob's memories.
MCThreeTables == <<Table(ann, "memory", 1), Table(ann, "continuity", 1),
                   Table(bob, "memory", 1)>>
MCOwner == [c \in Calls |-> ann]

\* Any two calls, of two sessions of Ann.
MCOperations ==
    [c \in Calls |-> IF c = c1 THEN {"rebuild", "fanout", "promote"}
                     ELSE {"search", "promote", "dry-run"}]
MCSearches == [c \in Calls |-> IF c = c1 THEN {"rebuild"} ELSE {"search"}]

\* Ann's memory is worth promoting, Bob's only if it is indexed twice.
MCContentOf ==
    [r \in Row |-> IF Tables[r.table].user = ann THEN strong ELSE weak]
MCBaseScore == [x \in Contents |-> IF x = strong THEN 65 ELSE 55]
=============================================================================
