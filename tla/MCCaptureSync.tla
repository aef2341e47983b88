--------------------------- MODULE MCCaptureSync ---------------------------
(* Instances of CaptureSync for TLC. *)
EXTENDS CaptureSync, TLC

\* Calls, and the runs of synchronize(), are interchangeable.
Symmetry == Permutations(Call) \cup Permutations(Syncer) \cup Permutations(Actor)
=============================================================================
