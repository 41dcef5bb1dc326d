------------------------- MODULE MCConnectionQueue -------------------------
(***************************************************************************)
(* Instances of ConnectionQueue for TLC.                                    *)
(***************************************************************************)
EXTENDS ConnectionQueue, TLC

Symmetry == Permutations(Conns) \cup Permutations(Users)
=============================================================================
