---------------------------- MODULE MCValidation ----------------------------
(* Instances of Validation for TLC.                                         *)
EXTENDS Validation
=============================================================================
