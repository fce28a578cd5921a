--------------------------- MODULE MCDecisionRuns ---------------------------
(***************************************************************************)
(* Small instances of DecisionRuns for TLC.                                 *)
(***************************************************************************)
EXTENDS DecisionRuns

CONSTANTS c1, c2, k1, k2, p1, p2
=============================================================================
