---------------------------- MODULE PaymentStates ----------------------------
(***************************************************************************)
(* The status graph of a payment, packages/shared/src/payment-states.ts.   *)
(***************************************************************************)

\* Faulty variant of the next: the status enum was not extended when the
\* compensating path was added.
STATUSES_WITHOUT_REFUNDING ==
  {"Quoted", "AwaitingFunding", "Funded", "OnRamped", "Bridging", "Bridged",
   "PayingOut", "Settled", "Failed", "Refunded"}

PAYMENT_STATUSES ==
  {"Quoted", "AwaitingFunding", "Funded", "OnRamped", "Bridging", "Bridged",
   "PayingOut", "Settled", "Failed", "Refunding", "Refunded"}

TRANSITIONS ==
  [Quoted          |-> {"AwaitingFunding", "Failed"},
   AwaitingFunding |-> {"Funded", "Failed"},
   Funded          |-> {"OnRamped", "Refunding"},
   OnRamped        |-> {"Bridging", "Refunding"},
   Bridging        |-> {"Bridged", "Refunding"},
   Bridged         |-> {"PayingOut", "Refunding"},
   PayingOut       |-> {"Settled", "Refunding"},
   Settled         |-> {},
   Failed          |-> {},
   Refunding       |-> {"Refunded"},
   Refunded        |-> {}]

TERMINAL_STATUSES == {"Settled", "Failed", "Refunded"}

\* canTransition; assertTransition is this predicate used as a guard.
CanTransition(from, to) == to \in TRANSITIONS[from]

=============================================================================
