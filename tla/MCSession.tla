----------------------------- MODULE MCSession -----------------------------
(***************************************************************************)
(* Instances of SessionHooks for TLC.                                      *)
(***************************************************************************)
EXTENDS SessionHooks

CONSTANTS s1, s2, e1, e2, e3, e4, r1, n1, n2, n3, n4, q1, a, b, x, y, f, g, h, o

\* Two saves of the same memory, one with a general memory too; edits of three files
\* of the workspace and of one outside; a read of that; four notes; a query.
MCProject == [c \in Calls |-> IF c \in {s1, s2} THEN x ELSE None]
MCGeneral == [c \in Calls |-> IF c = s1 THEN y ELSE None]
MCKind == [c \in Calls |-> CASE c \in {s1, s2} -> "save"
                             [] c \in {e1, e2, e3, e4} -> "edit"
                             [] c = r1 -> "read" [] c = q1 -> "query" [] OTHER -> "note"]
MCTouches == [c \in Calls |-> CASE c = e1 -> f [] c = e2 -> g [] c = e3 -> h
                                [] c \in {e4, r1} -> o [] OTHER -> None]

\* A decision of the user without refs, a plan of the user, another, and progress.
Notice(section, user, names) ==
    [section |-> section, user |-> user, refs |-> FALSE, intent |-> FALSE, names |-> names]
MCNote == [c \in Calls |-> CASE c = n1 -> Notice("DECISIONS", TRUE, {f, g})
                             [] c = n2 -> Notice("PLANS", TRUE, {o})
                             [] c = n3 -> Notice("PLANS", FALSE, {})
                             [] OTHER -> Notice("PROGRESS", TRUE, {f})]

\* The calls made together: saves at once, and what each reminder takes.
MCMixes == {{s1, s2}, {s2, e4, q1}, {e1, e2, e3, n1}, {e1, r1, n2}, {e1, n3}, {e1, e4, n4}}

\* Two saves of two project memories.
MCTwoProjects == [c \in Calls |-> IF c = s1 THEN x ELSE y]
MCNoGeneral == [c \in Calls |-> None]
MCOnlySaves == [c \in Calls |-> "save"]
=============================================================================
