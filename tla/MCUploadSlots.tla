--------------------------- MODULE MCUploadSlots ---------------------------
(***************************************************************************)
(* Instances of UploadSlots for TLC.                                        *)
(***************************************************************************)
EXTENDS UploadSlots, TLC

Symmetry == Permutations(Conns) \cup Permutations(Users \ (Favorites \cup Granted))
=============================================================================
