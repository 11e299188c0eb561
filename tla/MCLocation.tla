----------------------------- MODULE MCLocation -----------------------------
(* Location for TLC: requests and coordinates are interchangeable. *)
EXTENDS Location, TLC

LocationSymmetry == Permutations(Writers) \cup Permutations(Targets)
=============================================================================
