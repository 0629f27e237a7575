-------------------------- MODULE MCTrackingFilter -------------------------
(* Interchangeable keys for TrackingFilter. *)
EXTENDS TrackingFilter, TLC

Symmetry == Permutations(Keys)

============================================================================
