-------------------------- MODULE MCProjectIdentity --------------------------
(***************************************************************************)
(* An instance of ProjectIdentity for TLC.                                 *)
(***************************************************************************)
EXTENDS ProjectIdentity

CONSTANTS c1, c2, c3, h1, h2, old1, old2, git, alice, local1, local2

MCHost == [c \in Calls |-> IF c = c3 THEN h2 ELSE h1]
\* Only c1 and c2 may bootstrap; each draws an id of its own.
MCRandomUser == [c \in Calls |-> IF c = c1 THEN local1 ELSE local2]

Toggle(v) == [kind |-> "toggle", value |-> v]
SetUser(u) == [kind |-> "set", user |-> u]
Plain(k) == [kind |-> k]

\* One process changes the identity while a second call of it and another
\* process bootstrap and write.
MCOperations ==
    [c \in Calls |->
       IF c = c3 THEN {Plain("memory")}
       ELSE IF c = c2 THEN {Toggle(TRUE), Plain("bootstrap")}
       ELSE {SetUser(alice), Plain("auto"), Plain("bootstrap")}]

Nothing == [u \in Users |-> NoFile]
Earlier(r) == {[of |-> r, rowid |-> 1]}
OneDatabase == [Nothing EXCEPT ![local1] = Earlier(old1)]
TwoDatabases == [OneDatabase EXCEPT ![alice] = Earlier(old2)]

UnderRandomId == [enabled |-> TRUE, user |-> local1, source |-> "random-local"]

\* A first use, or a project that runs under a random id, alice's database
\* being there from before or not.
Init ==
    \/ InitWith(Absent, Nothing)
    \/ \E stored \in {OneDatabase, TwoDatabases} : InitWith(UnderRandomId, stored)
Spec == Init /\ [][Next]_vars /\ Fairness
=============================================================================
