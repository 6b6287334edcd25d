---------------------------- MODULE MCTelemetry ----------------------------
(***************************************************************************)
(* An instance of ContinuityTelemetry for TLC.                             *)
(***************************************************************************)
EXTENDS ContinuityTelemetry, TLC

CONSTANTS c1, c2, c3, valid_reject, false_reject

\* Tools and queries, a reader and a reviewer of the same database.
MCOperations ==
    [c \in Calls |->
        CASE c = c1 -> {"query", "queue", "status"}
          [] c = c2 -> {"write", "compact", "query"}
          [] c = c3 -> {"briefing", "query", "label"}]

\* Labels are only counted.
MCSymmetry == Permutations({valid_reject, false_reject})
=============================================================================
