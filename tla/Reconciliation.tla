--------------------------- MODULE Reconciliation ---------------------------
(***************************************************************************)
(* apps/api/src/recon/reconciliation.service.ts, run, while the engine     *)
(* goes on: the payments are listed, each payment's entries are summed in  *)
(* a query of their own, and a last query sums every account over all      *)
(* payments.                                                               *)
(***************************************************************************)
EXTENDS PaymentEngine, FiniteSetsExt

VARIABLE report   \* the run in progress, or the report of the last one

reconciliationVars == <<vars, report>>

Currencies == {"KES", "USDC", "CNY"}

AccountsIn(currency) ==
  CASE currency = "KES" -> KesAccounts
    [] currency = "USDC" -> UsdcAccounts
    [] currency = "CNY" -> CnyAccounts

\* The accounts that stand for money Bandari holds.
Held == {"mpesa_collected", "treasury_usdc", "hk_usdc"}

ReconciliationInit ==
  report = [at |-> "none", left |-> {}, imbalances |-> {}, off |-> {}, overdrawn |-> {}]

\* A run begins with the list of the payments.
ListPayments ==
  /\ report.at \in {"none", "report"}
  /\ report' = [at |-> "payments", left |-> Payments, imbalances |-> {}, off |-> {},
                overdrawn |-> {}]
  /\ UNCHANGED vars

\* balancesByCurrency.
BalancesByCurrency(p) ==
  {cur \in Currencies :
     MapThenSumSet(LAMBDA a : Net(ledger[p], a), AccountsIn(cur)) # 0}

Reconcile(p) ==
  /\ report.at = "payments" /\ p \in report.left
  /\ report' = [report EXCEPT !.left = @ \ {p},
       !.imbalances = @ \union {<<p, cur>> : cur \in BalancesByCurrency(p)}]
  /\ UNCHANGED vars

\* The groupBy over all entries.
AccountPosition(account) == MapThenSumSet(LAMBDA p : Net(ledger[p], account), Payments)

AccountBalances ==
  /\ report.at = "payments" /\ report.left = {}
  /\ report' = [report EXCEPT !.at = "report",
       !.off = {cur \in Currencies : MapThenSumSet(AccountPosition, AccountsIn(cur)) # 0},
       !.overdrawn = {a \in Held : AccountPosition(a) < 0}]
  /\ UNCHANGED vars

ReconciliationNext ==
  \/ ListPayments \/ AccountBalances
  \/ \E p \in Payments : Reconcile(p)
  \/ Next /\ UNCHANGED report

ReconciliationSpec ==
  Init /\ ReconciliationInit /\ [][ReconciliationNext]_reconciliationVars

\* A report that is put together while payments move, fail and are refunded is clean:
\* it names no imbalance, its account balances cancel in every currency, and it shows
\* no account of held money overdrawn.
ReportIsClean ==
  report.at = "report" =>
    report.imbalances = {} /\ report.off = {} /\ report.overdrawn = {}

=============================================================================
