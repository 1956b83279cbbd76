--------------------------- MODULE EngineCorridor ---------------------------
(***************************************************************************)
(* PaymentEngine implements Corridor when its calls do not overlap.  The   *)
(* place of the value is read off the account balances alone, and the end  *)
(* of the payment off its status, so a status that runs ahead of the       *)
(* ledger, or a posting that skips an account, is not a Corridor step.     *)
(***************************************************************************)
EXTENDS PaymentEngine

\* The accounts that hold the value, the furthest first.
PlaceOf(p) ==
  LET net(a) == Net(ledger[p], a)
  IN  IF net("supplier_paid_cny") # 0 THEN "supplier"
      ELSE IF net("payout_external_usdc") # 0 THEN "partner"
      ELSE IF net("hk_usdc") # 0 THEN "hk"
      ELSE IF net("treasury_usdc") # 0 THEN "treasury"
      ELSE IF net("mpesa_collected") # 0 THEN "collected"
      ELSE "importer"

Promise == INSTANCE Corridor WITH
  place <- [p \in Payments |-> PlaceOf(p)],
  over  <- [p \in Payments |-> pay[p].status \in TERMINAL_STATUSES]

\* Every run of the engine with one call at a time is a run of Corridor: the
\* ledger moves the value one place per transition, a refund brings all of it
\* back to the importer, and nothing moves after the end.
ImplementsCorridor == Promise!Spec

=============================================================================
