----------------------------- MODULE MCAdoption -----------------------------
(* Adoption for TLC: versions are interchangeable. *)
EXTENDS Adoption, TLC

Symmetry == Permutations(Versions)
=============================================================================
