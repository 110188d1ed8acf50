--------------------------- MODULE MCActivations ---------------------------
(* Small instances of Activations for TLC. *)
EXTENDS Activations, TLC

RunSymmetry == Permutations(Runs)
=============================================================================
