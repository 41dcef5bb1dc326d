--------------------------- MODULE MCExpectedNmdc ---------------------------
(***************************************************************************)
(* Instances of ExpectedNmdc for TLC.                                       *)
(***************************************************************************)
EXTENDS ExpectedNmdc, TLC

Symmetry == Permutations(Hubs) \cup Permutations(Tokens) \cup Permutations(SocketThreads)
=============================================================================
