---------------------------- MODULE MCSessionLog ----------------------------
(***************************************************************************)
(* SessionLog with a short record, and two of two units, one of which is   *)
(* synced: an overwritten line can leave a tail or mix with another.       *)
(***************************************************************************)
EXTENDS SessionLog

MCBodies == {"start", "error", "short", "message", "turnEnd"}
MCUnits == [body \in MCBodies |-> IF body \in {"message", "turnEnd"} THEN 2 ELSE 1]
MCSynced == {"start", "error", "turnEnd"}
=============================================================================
