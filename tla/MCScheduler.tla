---------------------------- MODULE MCScheduler -----------------------------
(***************************************************************************)
(* TLC instance of Scheduler; the configuration gives the bounds.          *)
(***************************************************************************)
EXTENDS Scheduler
=============================================================================
