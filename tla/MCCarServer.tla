------------------------------ MODULE MCCarServer ------------------------------
(***************************************************************************)
(* CarServer for TLC: connections are alike, and so are addresses.         *)
(***************************************************************************)
EXTENDS CarServer, TLC

CarSymmetry == Permutations(Conns) \cup Permutations(IPs)
=============================================================================
