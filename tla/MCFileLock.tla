----------------------------- MODULE MCFileLock -----------------------------
(* A lock that a process left empty when it died before it wrote its pid.  *)
EXTENDS FileLock

LeftEmpty == {<<Nobody>>}
=============================================================================
