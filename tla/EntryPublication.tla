-------------------------- MODULE EntryPublication ---------------------------
(***************************************************************************)
(* What storeContinuityEntryWithVectorConsistency promises its callers     *)
(* ("no silent fallback to lexical-only persistence for this entry"): an   *)
(* entry appears in the searchable store in one step, only while its call  *)
(* is unanswered; the answer "stored" is given for published entries only, *)
(* "refused" for unpublished ones only; nothing published disappears.  A   *)
(* crash loses the answer and nothing else.                                *)
(***************************************************************************)
CONSTANT Writes

VARIABLES published, answer

TypeOK ==
    /\ published \in SUBSET Writes
    /\ answer \in [Writes -> {"pending", "stored", "refused", "lost"}]

Init ==
    /\ published = {}
    /\ answer = [w \in Writes |-> "pending"]

Publish(w) ==
    /\ answer[w] = "pending"
    /\ published' = published \cup {w}
    /\ UNCHANGED answer

Confirm(w) ==
    /\ answer[w] = "pending"
    /\ w \in published
    /\ answer' = [answer EXCEPT ![w] = "stored"]
    /\ UNCHANGED published

Refuse(w) ==
    /\ answer[w] = "pending"
    /\ w \notin published
    /\ answer' = [answer EXCEPT ![w] = "refused"]
    /\ UNCHANGED published

Lose(lost) ==
    /\ \A w \in lost : answer[w] = "pending"
    /\ answer' = [w \in Writes |-> IF w \in lost THEN "lost" ELSE answer[w]]
    /\ UNCHANGED published

Next ==
    \/ \E w \in Writes : Publish(w) \/ Confirm(w) \/ Refuse(w)
    \/ \E lost \in SUBSET Writes : Lose(lost)

Spec == Init /\ [][Next]_<<published, answer>>
=============================================================================
