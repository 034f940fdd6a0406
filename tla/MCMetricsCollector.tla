------------------------- MODULE MCMetricsCollector -------------------------
(***************************************************************************)
(* MetricsCollector on small instances.                                    *)
(***************************************************************************)
EXTENDS MetricsCollector, TLC

\* No device is singled out by any definition.
Symmetry == Permutations(Devices)
=============================================================================
