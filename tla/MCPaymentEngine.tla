--------------------------- MODULE MCPaymentEngine ---------------------------
(***************************************************************************)
(* Instances of PaymentEngine for TLC.                                     *)
(***************************************************************************)
EXTENDS EngineClaims, TLC

CONSTANTS p1, p2, c1, c2

\* Different amounts for every leg, so that no two postings cancel by chance;
\* the all-in amount exceeds the sent one by the fee.
MCQuote == [p \in Payments |->
              [allInMinorKes |-> 13, sendMinorKes |-> 11, receiveMinorCny |-> 7]]

MCNoMarker == [p \in Payments |-> "none"]

CallSymmetry == Permutations(Calls)

=============================================================================
