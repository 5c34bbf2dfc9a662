------------------------ MODULE MCSystemTransaction ------------------------
(* SystemTransaction for TLC: users are interchangeable. *)
EXTENDS SystemTransaction, TLC

UserSymmetry == Permutations(Users)
=============================================================================
