------------------------------- MODULE MCPool -------------------------------
(* The pool on its own: instances, symmetry and bounds for TLC.            *)
EXTENDS AdaptiveWorkerPool, TLC

CallerSymmetry == Permutations(Callers)

OwnerSymmetry == Permutations(Owners)

BothSymmetry == CallerSymmetry \cup OwnerSymmetry

(* Reporting a queue longer than this changes nothing: the plan is capped. *)
Lengths == 0 .. 2 * max_workers

(* Racing callers can add permits without limit; states with more than     *)
(* twice the maximum are not explored further.                             *)
PermitBound == permits <= 2 * max_workers
=============================================================================
