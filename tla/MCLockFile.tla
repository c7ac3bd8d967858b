----------------------------- MODULE MCLockFile -----------------------------
(***************************************************************************)
(* LockFile with three processes.  Envs is a set of environments: where    *)
(* the processes run, which of them can share a pid, and which faults may  *)
(* happen (see SoundEnv).                                                  *)
(***************************************************************************)
EXTENDS LockFile, TLC

CONSTANTS p1, p2, p3

MCProcs == {p1, p2, p3}

Everyone(v) == [p \in MCProcs |-> v]
Distinct == p1 :> 1 @@ p2 :> 2 @@ p3 :> 3
Reused   == p1 :> 1 @@ p2 :> 2 @@ p3 :> 1   \* p3 may get p1's pid
TwoHosts == p1 :> 1 @@ p2 :> 1 @@ p3 :> 2
TwoPids  == p1 :> 1 @@ p2 :> 1 @@ p3 :> 2   \* p2 may get p1's pid

(* Places where a death leaves something behind. *)
Deaths == {"write", "held"} \union GuardLabels

Faults(crash, ageing, torn) ==
  [host : {Everyone(1)}, pid : {Distinct}, late : {{}}, crash : {crash}, ageing : {ageing},
   torn : {torn}, started : {TRUE}]

(* The largest fault sets that SoundEnv admits. *)
SoundFaults ==
  Faults(Deaths, {}, TRUE) \union Faults(Deaths \ {"write"}, {"lock"}, FALSE)
    \union Faults(Deaths \ GuardLabels, {"guard"}, TRUE)
    \union Faults(Deaths \ ({"write"} \union GuardLabels), {"lock", "guard"}, FALSE)

(* Reused pids, with and without known start times, and two hosts. *)
Placements ==
  [host : {Everyone(1)}, pid : {Reused}, late : {{p3}}, crash : {{"held"}}, ageing : {{"lock"}},
   torn : {FALSE}, started : BOOLEAN]
    \union [host : {TwoHosts}, pid : {TwoPids}, late : {{p2}}, crash : {{"held"}},
            ageing : {{"lock"}}, torn : {FALSE}, started : BOOLEAN]

(* A guard may be left behind and grow old.  SoundEnv does not hold, but    *)
(* three processes are too few for a second one to get in.                 *)
Leftovers == Faults({"held"} \union GuardLabels, {"lock", "guard"}, FALSE)

MCEnvs == SoundFaults \union Placements \union Leftovers

=============================================================================
