--------------------------- MODULE MCHealthChecker ---------------------------
(***************************************************************************)
(* HealthChecker with the targets and loops its configurations name.       *)
(***************************************************************************)
EXTENDS HealthChecker
=============================================================================
