--------------------------- MODULE MCMetricsSpool ---------------------------
(* An instance of the metrics spool for TLC. *)
EXTENDS MetricsSpool, TLC

Symmetric == Permutations(Procs)
=============================================================================
