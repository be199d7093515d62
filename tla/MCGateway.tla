----------------------------- MODULE MCGateway -----------------------------
(***************************************************************************)
(* Instances of Gateway small enough for TLC.                              *)
(***************************************************************************)
EXTENDS Gateway, TLC

TwoConns == 1..2

Symmetry == Permutations(Call) \cup Permutations(Cmd)
=============================================================================
