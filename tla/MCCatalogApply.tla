--------------------------- MODULE MCCatalogApply ---------------------------
(* CatalogApply for TLC: managed names are interchangeable, and so are versions. *)
EXTENDS CatalogApply, TLC

Symmetry == Permutations(Names \ Unmanaged) \cup Permutations(Versions)
=============================================================================
