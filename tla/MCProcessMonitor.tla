-------------------------- MODULE MCProcessMonitor --------------------------
(***************************************************************************)
(* ProcessMonitor on small instances.                                      *)
(***************************************************************************)
EXTENDS ProcessMonitor
=============================================================================
