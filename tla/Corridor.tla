------------------------------ MODULE Corridor ------------------------------
(***************************************************************************)
(* What the corridor promises for each payment, without statuses, calls,   *)
(* adapters or ledger rows: the value the importer pays in is at one place *)
(* at a time, goes forward place by place, and in the end is with the      *)
(* supplier or back with the importer, for good.                           *)
(***************************************************************************)
EXTENDS Naturals

CONSTANT Payments

VARIABLES
  place,   \* where the value of each payment is
  over     \* whether the payment has come to its end

\* From KES held after collection to USDC in the treasury, USDC in the Hong
\* Kong wallet, and the hands of the payout partner.
Onward == [importer |-> "collected", collected |-> "treasury", treasury |-> "hk",
           hk |-> "partner", partner |-> "supplier"]

Places == DOMAIN Onward \union {"supplier"}

Init ==
  /\ place = [p \in Payments |-> "importer"]
  /\ over = [p \in Payments |-> FALSE]

\* The value reaches the next place; at the supplier the payment is over.
Advance(p) ==
  /\ ~over[p]
  /\ place' = [place EXCEPT ![p] = Onward[@]]
  /\ over' = [over EXCEPT ![p] = place'[p] = "supplier"]

\* The payment ends with the importer: nothing was paid, or all is given back.
GiveBack(p) ==
  /\ ~over[p]
  /\ place' = [place EXCEPT ![p] = "importer"]
  /\ over' = [over EXCEPT ![p] = TRUE]

Next == \E p \in Payments : Advance(p) \/ GiveBack(p)

Spec == Init /\ [][Next]_<<place, over>>

=============================================================================
