---------------------------- MODULE MCSolisSlots ----------------------------
(* SolisSlots for TLC. Windows are only compared for equality, and numbered  *)
(* slots are not, so permuting the windows is sound.                         *)
EXTENDS SolisSlots, TLC

Symmetry == Permutations(Windows)
=============================================================================
