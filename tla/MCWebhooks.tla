----------------------------- MODULE MCWebhooks -----------------------------
(***************************************************************************)
(* Instances of Webhooks for TLC.                                          *)
(***************************************************************************)
EXTENDS Webhooks, TLC

CONSTANTS p1, h1, h2, d1, d2

MCQuote == [p \in Payments |->
              [allInMinorKes |-> 13, sendMinorKes |-> 11, receiveMinorCny |-> 7]]

MCNoMarker == [p \in Payments |-> "none"]

SlotSymmetry == Permutations(Handlers) \union Permutations(Drivers)

=============================================================================
