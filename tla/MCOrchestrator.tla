--------------------------- MODULE MCOrchestrator ---------------------------
(***************************************************************************)
(* Instances of Orchestrator for TLC.                                      *)
(***************************************************************************)
EXTENDS Orchestrator

CONSTANTS p1, w1, w2, r1, r2

MCQuote == [p \in Payments |->
              [allInMinorKes |-> 13, sendMinorKes |-> 11, receiveMinorCny |-> 7]]

MCNoMarker == [p \in Payments |-> "none"]

Setting(m, s, d, r, c, x) ==
  [mode |-> m, slots |-> s, drives |-> d, refunds |-> r, callbacks |-> c, deaths |-> x]

\* Either mode left alone, except for a second callback; and either mode with
\* two of: processes that die, a retry, a refund (in the inline mode only with
\* processes that die).
MCSettings ==
  {Setting("bullmq", {w1, w2, r1}, 1, 0, 2, FALSE),
   Setting("bullmq", {w1, r1}, 2, 0, 1, TRUE),
   Setting("bullmq", {w1, r1}, 1, 1, 1, TRUE),
   Setting("bullmq", {w1, r1}, 2, 1, 1, FALSE),
   Setting("inline", {r1, r2}, 1, 0, 2, FALSE),
   Setting("inline", {r1, r2}, 2, 0, 1, TRUE),
   Setting("inline", {r1, r2}, 1, 1, 1, TRUE)}

MCOneWorker == {Setting("bullmq", {w1, r1}, 1, 0, 2, FALSE)}

=============================================================================
