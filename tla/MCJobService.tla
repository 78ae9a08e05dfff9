----------------------------- MODULE MCJobService -----------------------------
(***************************************************************************)
(* JobService for TLC: two scans, one object type, one checkpoint position *)
(* and a clock of three instants.  That is enough for a bulk operation to  *)
(* take one job and spare another, and for a stale heartbeat, a fresh one  *)
(* and a start before both to differ.                                      *)
(***************************************************************************)
EXTENDS JobService
===============================================================================
