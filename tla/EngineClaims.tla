---------------------------- MODULE EngineClaims ----------------------------
(***************************************************************************)
(* What the repository's own texts say of the engine and the code does not *)
(* keep.  Each property has a run in which TLC finds a counterexample.     *)
(***************************************************************************)
EXTENDS PaymentEngine

\* apps/api/src/verification/verification.service.ts: "Refunded: every account
\* nets back to zero."  Two compensations of one payment reverse it twice.
RefundedNetsToZero ==
  \A p \in Payments : pay[p].status = "Refunded" => AllAccountsZero(ledger[p])

\* README.md: "transitions are idempotent (safe to replay on retry or duplicate
\* callback)".  A process that dies between the adapter call and the
\* transaction makes the retry repeat the call: a second transfer is sent.
TransferIsSentOnce == \A p \in Payments : ext[p]["send"] <= 1

=============================================================================
