--------------------------- MODULE MCFileDelivery ---------------------------
(* FileDelivery for TLC. *)
EXTENDS FileDelivery, TLC

Symmetry == Permutations(RawFiles \ {None})
=============================================================================
