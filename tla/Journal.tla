------------------------------ MODULE Journal ------------------------------
(***************************************************************************)
(* What a session store promises its callers: the session is a sequence of *)
(* records that only grows.  A record that was acknowledged is there for   *)
(* every later holder of the session, at the same place; only a loss of    *)
(* power may take a suffix of it, and never what an fsync covered.         *)
(* SessionLog implements this with a file.                                 *)
(***************************************************************************)
EXTENDS Naturals, Sequences

CONSTANT Bodies

VARIABLES
  log,    \* the bodies of the records, their seq being their index
  safe,   \* how many of them survive a power loss
  lost    \* whether the power went since the last holder opened the session

jvars == <<log, safe, lost>>

Init == log = <<>> /\ safe = 0 /\ lost = FALSE

(* A record is acknowledged, with an fsync or without. *)
Add(body) ==
  /\ ~lost
  /\ log' = Append(log, body)
  /\ safe' \in {safe, Len(log')}
  /\ UNCHANGED lost

PowerLoss == lost' = TRUE /\ UNCHANGED <<log, safe>>

(* A holder opens the session: it finds every record, or one more that was *)
(* on its way when its writer stopped.                                     *)
Open ==
  /\ \/ log' = log
     \/ \E body \in Bodies : log' = Append(log, body)
     \/ lost /\ \E n \in safe..Len(log) : log' = SubSeq(log, 1, n)
  /\ lost' = FALSE
  /\ UNCHANGED safe

Next == PowerLoss \/ Open \/ \E body \in Bodies : Add(body)

Spec == Init /\ [][Next]_jvars
=============================================================================
