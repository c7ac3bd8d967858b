------------------------------ MODULE MCRewind ------------------------------
EXTENDS Rewind, TLC

CONSTANTS s1, s2, q1, q2
Symmetric == Permutations(Sessions) \cup Permutations(Requests)

Budget(n, t, c, e, r, k, g, f, d) ==
  [sessions |-> n, turns |-> t, calls |-> c, edits |-> e, rewinds |-> r, ticks |-> k, ages |-> g, faults |-> f,
   deaths |-> d]
(* One session whose second turn finds what the first left in the index,   *)
(* with an edit by the user or with a fault; with two rewinds at the same  *)
(* time; two sessions at the same time, with two calls or with a call and  *)
(* a rewind; the store, with sessions that come and go, for three turns or *)
(* for two and an edit.                                                    *)
MCBudgets ==
  { Budget(1, 2, 1, 1, 1, 1, 0, 0, 0), Budget(1, 2, 2, 0, 1, 0, 0, 1, 0), Budget(1, 2, 2, 0, 2, 0, 0, 0, 0),
    Budget(2, 2, 2, 0, 0, 1, 0, 0, 0),
    Budget(2, 2, 1, 0, 1, 1, 0, 0, 0), Budget(2, 3, 0, 0, 0, 0, 1, 0, 1), Budget(2, 2, 0, 1, 0, 0, 1, 0, 1) }
=============================================================================
