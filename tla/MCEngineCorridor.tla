-------------------------- MODULE MCEngineCorridor --------------------------
(***************************************************************************)
(* One call slot shared by two payments, and a reconciliation beside it.   *)
(***************************************************************************)
EXTENDS EngineCorridor, Reconciliation

CONSTANTS p1, p2, c1

MCQuote == [p \in Payments |->
              [allInMinorKes |-> 13, sendMinorKes |-> 11, receiveMinorCny |-> 7]]

MCMarker == [p \in Payments |-> IF p = p2 THEN "Bridged" ELSE "none"]

=============================================================================
