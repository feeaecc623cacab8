--------------------------- MODULE MCAnalysisQueue ---------------------------
(* Small instances of AnalysisQueue for TLC.                                *)
EXTENDS AnalysisQueue

CONSTANTS P, Q

MCId == [p \in Pairs |-> IF p = P THEN 1 ELSE 2]

(* P gets evidence from both sides, Q only from the backfill.               *)
MCMaxLive == [p \in Pairs |-> IF p = P THEN 1 ELSE 0]
MCMaxOld  == [p \in Pairs |-> 1]

=============================================================================
