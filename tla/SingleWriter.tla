---------------------------- MODULE SingleWriter ----------------------------
(***************************************************************************)
(* What the lock file of a session promises: at any time at most one       *)
(* process is the writer of the session.  A process becomes the writer     *)
(* only while there is none, and stops by releasing or by dying.           *)
(* LockFile implements this with files (see Writer there).                 *)
(***************************************************************************)
CONSTANTS Procs, None

VARIABLE writer

Init == writer = None

Take(p) == writer = None /\ writer' = p

Leave == writer # None /\ writer' = None

Next == Leave \/ \E p \in Procs : Take(p)

Spec == Init /\ [][Next]_writer
=============================================================================
