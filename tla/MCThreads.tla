----------------------------- MODULE MCThreads -----------------------------
(* Instances of Threads for TLC.                                           *)
EXTENDS Threads

MCThread == 1..2
MCCalls == 1..2
MCSends == 11..11
=============================================================================
