------------------------------- MODULE MCElevation -------------------------------
(***************************************************************************)
(* Elevation with sudo processes that TLC may exchange for one another.    *)
(***************************************************************************)
EXTENDS Elevation, TLC

Symmetry == Permutations(Requests)
=============================================================================
