-------------------------- MODULE MCAlertLifecycle --------------------------
(* The alert lifecycle on small instances. *)
EXTENDS AlertLifecycle, TLC

(* Calls and sweep runs are interchangeable; the runs that use this check
   no liveness. *)
Symmetry == Permutations(Calls) \cup Permutations(Sweepers)
=============================================================================
