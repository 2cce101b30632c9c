-------------------------- MODULE MCScheduledTasks --------------------------
(***************************************************************************)
(* Instances of ScheduledTasks for TLC.  Executions and cancellations are  *)
(* interchangeable in Spec; the run of FairSpec may not use that, since    *)
(* symmetry is unsound for liveness.                                       *)
(***************************************************************************)
EXTENDS ScheduledTasks, TLC

Symmetry == Permutations(Slot) \cup Permutations(Canceller)

=============================================================================
