----------------------------- MODULE MCConductor -----------------------------
(* Conductor with the symmetry its safety runs use: invocations and          *)
(* containers are told apart by nothing but their names.                     *)
EXTENDS Conductor, TLC

Symmetry == Permutations(Proc) \cup Permutations(Name)
=============================================================================
