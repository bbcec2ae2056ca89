------------------------------ MODULE MCHidIo ------------------------------
(* TLC instance of HidIo: interchangeable calls, so safety runs use symmetry. *)
EXTENDS HidIo, TLC

CallSymmetry == Permutations(Calls)
=============================================================================
