------------------------ MODULE MCRequestTracking ------------------------
(* Small instances of RequestTracking for TLC. *)
EXTENDS RequestTracking, TLC

\* Callers are interchangeable; used for safety runs only.
Symmetry == Permutations(Callers)
===========================================================================
