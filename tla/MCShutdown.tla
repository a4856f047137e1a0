----------------------------- MODULE MCShutdown -----------------------------
(***************************************************************************)
(* Instances of Shutdown: the VMs and tables of MCReconciler.              *)
(***************************************************************************)
EXTENDS MCReconciler, Shutdown
=============================================================================
