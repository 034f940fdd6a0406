---------------------------- MODULE MCCpuMonitor -----------------------------
(***************************************************************************)
(* CpuMonitor on small instances.                                          *)
(***************************************************************************)
EXTENDS CpuMonitor
=============================================================================
