--------------------------- MODULE MCApplyPipeline ---------------------------
(* ApplyPipeline for TLC: Applies are interchangeable, and so are callers. *)
EXTENDS ApplyPipeline, TLC

Symmetry == Permutations(Applies) \cup Permutations(Clients)
=============================================================================
