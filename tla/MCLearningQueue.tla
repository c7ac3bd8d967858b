--------------------------- MODULE MCLearningQueue ---------------------------
(* Instances of LearningQueue for TLC.                                       *)
EXTENDS LearningQueue

CONSTANTS t, u, h
MCTasks == {t, u}
MCHosts == {h}
MCTurns == [k \in MCTasks |-> IF k = t THEN 3 ELSE 1]
=============================================================================
