-------------------------- MODULE MCRequestExpiry --------------------------
(* Small instances of RequestExpiry and RequestRefinement for TLC.  No     *)
(* symmetry: the run also checks a liveness property.                      *)
EXTENDS RequestExpiry, RequestRefinement
============================================================================
