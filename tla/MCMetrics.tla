----------------------------- MODULE MCMetrics ------------------------------
(****************************************************************************)
(* Metrics for TLC, from a first of January on any day of the week.         *)
(****************************************************************************)
EXTENDS Metrics
=============================================================================
