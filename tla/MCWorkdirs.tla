----------------------------- MODULE MCWorkdirs -----------------------------
(* Workdirs with two threads and a member of the first.                    *)
EXTENDS Workdirs

CONSTANTS project, t, u, m
MCCopies == {t, u, m}
MCFrom == [c \in MCCopies |-> IF c = m THEN t ELSE project]
=============================================================================
