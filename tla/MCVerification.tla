--------------------------- MODULE MCVerification ---------------------------
(***************************************************************************)
(* Instances of Suites for TLC: one payment and two calls; every provider  *)
(* with a treasury that is rich, tight, empty, or without gas; and sums.   *)
(***************************************************************************)
EXTENDS Suites, TLC

CONSTANTS p1, c1, c2

MCQuote == [p \in Payments |->
              [allInMinorKes |-> 13, sendMinorKes |-> 11, receiveMinorCny |-> 7]]

MCNoMarker == [p \in Payments |-> "none"]

Setting(mode, provider, funds, gas, sameChain) ==
  [mode |-> mode, provider |-> provider, funds |-> funds, gas |-> gas,
   sameChain |-> sameChain]

MCSettings ==
  {Setting("live", "evm", funds, TRUE, TRUE) : funds \in 0 .. 2} \union
  {Setting("live", "evm", 1, FALSE, TRUE), Setting("live", "evm", 1, TRUE, FALSE),
   Setting("live", "circle", 2, FALSE, TRUE), Setting("live", "mock", 0, TRUE, TRUE),
   Setting("mock", "evm", 2, TRUE, TRUE)}

\* Every sum up to 20 shillings, the sums of the scripts and the seeds, sums a
\* page apart up to the limit of the USDC column, and those around the limit.
MCSendAmounts ==
  1..2000 \union {30000 * 100, 50000 * 100, 125000 * 100} \union
    {27937 * n : n \in 1..995} \union 27809800..27809999

CallSymmetry == Permutations(Calls)

=============================================================================
