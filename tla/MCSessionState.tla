--------------------------- MODULE MCSessionState ---------------------------
(***************************************************************************)
(* SessionState, with what may happen to a session spread over four sets   *)
(* of bounds.                                                              *)
(***************************************************************************)
EXTENDS SessionState

Budget(t, p, f, s, c, d, o) ==
  [turns |-> t, steps |-> p, faults |-> f, steers |-> s, compactions |-> c, deaths |-> d,
   opens |-> o]

(* Two turns that are killed, and killed again in their recovery.          *)
MCDeaths == Budget(2, 1, 0, 1, 1, 2, 2)
(* Two turns with failing appends, the recovery of the first in between.   *)
MCFaults == Budget(2, 1, 2, 1, 1, 1, 1)
(* Three turns: what the first leaves is compacted in the third.           *)
MCTurns == Budget(3, 1, 2, 0, 1, 0, 0)
(* A turn of two steps, compacted in the second.                           *)
MCSteps == Budget(1, 2, 1, 1, 1, 2, 2)

MCBudgets == {MCDeaths, MCFaults, MCTurns, MCSteps}
=============================================================================
