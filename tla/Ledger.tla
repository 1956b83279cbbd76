------------------------------- MODULE Ledger -------------------------------
(***************************************************************************)
(* The double-entry ledger of one payment, apps/api/src/ledger/            *)
(* ledger.service.ts, and the compensating entries reverseAll writes.      *)
(*                                                                         *)
(* The code keeps one LedgerEntry row per side of a posting and only ever  *)
(* reads them as sums per account (debits minus credits), separating the   *)
(* rows whose memo is "refund-reversal" from the others.  A book is those  *)
(* two sums.  Each account holds a single currency, so the currency of an  *)
(* entry is that of its account.                                           *)
(***************************************************************************)
EXTENDS Integers

KesAccounts  == {"importer_external", "mpesa_collected", "onramp_external_kes"}
UsdcAccounts == {"onramp_external_usdc", "treasury_usdc", "hk_usdc",
                 "payout_external_usdc"}
CnyAccounts  == {"payout_external_cny", "supplier_paid_cny"}

ACCOUNTS == KesAccounts \union UsdcAccounts \union CnyAccounts

Book == [posted : [ACCOUNTS -> Int], reversed : [ACCOUNTS -> Int]]

NoEntries == [a \in ACCOUNTS |-> 0]

EmptyBook == [posted |-> NoEntries, reversed |-> NoEntries]

\* Faulty variant of the next: the credit row is forgotten.
PostDebitOnly(book, debit, credit, amount) ==
  [book EXCEPT !.posted = [a \in ACCOUNTS |-> @[a] + IF a = debit THEN amount ELSE 0]]

\* postPair: one debit row and one credit row of the same amount.
PostPair(book, debit, credit, amount) ==
  [book EXCEPT !.posted = [a \in ACCOUNTS |->
     @[a] + (IF a = debit THEN amount ELSE 0)
          - (IF a = credit THEN amount ELSE 0)]]

\* Faulty variant of the next: the rows in KES are left out.
ReverseUsdcAndCny(book) ==
  [book EXCEPT !.reversed =
     [a \in ACCOUNTS |-> @[a] - IF a \in KesAccounts THEN 0 ELSE book.posted[a]]]

\* reverseAll: one opposite row for every row that is not itself a reversal,
\* whether or not an earlier refund has reversed it already.
ReverseAll(book) ==
  [book EXCEPT !.reversed = [a \in ACCOUNTS |-> @[a] - book.posted[a]]]

\* accountBalance, restricted to one payment.
Net(book, a) == book.posted[a] + book.reversed[a]

Nets(book) == [a \in ACCOUNTS |-> Net(book, a)]

\* isBalanced: in each currency, debits equal credits.
IsBalanced(book) ==
  /\ Net(book, "importer_external") + Net(book, "mpesa_collected")
       + Net(book, "onramp_external_kes") = 0
  /\ Net(book, "onramp_external_usdc") + Net(book, "treasury_usdc")
       + Net(book, "hk_usdc") + Net(book, "payout_external_usdc") = 0
  /\ Net(book, "payout_external_cny") + Net(book, "supplier_paid_cny") = 0

AllAccountsZero(book) == Nets(book) = NoEntries

=============================================================================
