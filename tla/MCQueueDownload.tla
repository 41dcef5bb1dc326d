-------------------------- MODULE MCQueueDownload --------------------------
(***************************************************************************)
(* Instances of QueueDownload for TLC.                                      *)
(***************************************************************************)
EXTENDS QueueDownload, TLC

Symmetry == Permutations(Conns)
=============================================================================
