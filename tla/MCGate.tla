------------------------------- MODULE MCGate -------------------------------
(***************************************************************************)
(* Instances of Gate for TLC.                                              *)
(***************************************************************************)
EXTENDS Gate, TLC

CONSTANTS i1, i2, s1, q1, q2, r1, r2

GateSymmetry ==
  Permutations(Importers) \union Permutations(Quotes) \union Permutations(Requests)

=============================================================================
