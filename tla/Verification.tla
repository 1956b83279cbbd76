---------------------------- MODULE Verification ----------------------------
(***************************************************************************)
(* apps/api/src/verification/verification.service.ts, verifyPayment, while *)
(* the engine is at work on the same payment.  The suite reads the payment *)
(* with its wallet rows, the events, the ledger entries, and the entries   *)
(* again for the balances, in four queries outside any transaction.        *)
(*                                                                         *)
(* The on-ramp answers the quoted conversion, as the mock does, so that    *)
(* every posting of a leg has the same amount and a row of that amount is  *)
(* there exactly when the leg has been posted.                             *)
(***************************************************************************)
EXTENDS PaymentEngine

CONSTANT ExpectedUsdc   \* the conversion of sendMinorKes at the quoted rate

ASSUME ConversionAssumption == UsdcAmounts = {ExpectedUsdc} /\ ExpectedUsdc > 0

VARIABLES
  suite,   \* the verification in progress: what it has read so far
  moved    \* history: the payment changed since its verification began

verificationVars == <<vars, suite, moved>>

Suite ==
  [at : {"none", "events", "entries", "balances", "verdict"}, on : Payments,
   row : PayRow, attested : BOOLEAN, settled : BOOLEAN, complete : BOOLEAN,
   seen : SUBSET PAYMENT_STATUSES, entries : Book, failing : SUBSET PAYMENT_STATUSES,
   passed : BOOLEAN]

NoSuite(p) ==
  [at |-> "none", on |-> p, row |-> NewPayment, attested |-> FALSE, settled |-> FALSE,
   complete |-> FALSE, seen |-> {}, entries |-> EmptyBook, failing |-> {},
   passed |-> FALSE]

VerificationInit ==
  /\ Init
  /\ \E p \in Payments : suite = NoSuite(p)
  /\ moved = FALSE

(***************************************************************************)
(* The queries.                                                            *)
(***************************************************************************)
\* attestationId is set with Bridged and settlementId with Settled.
ReadPayment(p) ==
  /\ suite.at \in {"none", "verdict"}
  /\ suite' = [NoSuite(p) EXCEPT
       !.at = "events", !.row = pay[p],
       !.attested = Happened(p, "Bridged"), !.settled = Happened(p, "Settled"),
       !.complete = pay[p].walletTxHash # 0
                      /\ wallet[p][pay[p].walletTxHash] = "complete"]
  /\ moved' = FALSE
  /\ UNCHANGED vars

\* The statuses that the payment's events lead to.
ReadEvents ==
  /\ suite.at = "events"
  /\ suite' = [suite EXCEPT
       !.at = "entries", !.seen = {s \in PAYMENT_STATUSES : Happened(suite.on, s)}]
  /\ UNCHANGED <<vars, moved>>

ReadEntries ==
  /\ suite.at = "entries"
  /\ suite' = [suite EXCEPT !.at = "balances", !.entries = ledger[suite.on]]
  /\ UNCHANGED <<vars, moved>>

(***************************************************************************)
(* The checks.                                                             *)
(***************************************************************************)
\* Faulty variant of the next: the events are read again after the entries.
ReachedByNow(status) == Happened(suite.on, status) \/ suite.row.status = status

Reached(status) == status \in suite.seen \union {suite.row.status}

Posted(account) == suite.entries.posted[account] # 0

\* Faulty variant of the next: the refund is taken at its word.
CheckWithoutRefund(status) ==
  CASE status = "Funded"   -> Posted("importer_external")
    [] status = "OnRamped" -> suite.row.usdcMinor = ExpectedUsdc
                                /\ Posted("onramp_external_usdc")
    [] status = "Bridged"  -> suite.attested /\ suite.complete
                                /\ (Posted("hk_usdc") \/ Posted("payout_external_usdc"))
    [] status = "Settled"  -> suite.settled /\ Posted("supplier_paid_cny")
    [] status = "Refunded" -> TRUE

\* hasPosting looks for one side of a leg; the side of the leg's outer account,
\* which later legs do not touch, tells whether the leg has been posted.
Check(status) ==
  CASE status = "Funded"   -> Posted("importer_external")
    [] status = "OnRamped" -> suite.row.usdcMinor = ExpectedUsdc
                                /\ Posted("onramp_external_usdc")
    [] status = "Bridged"  -> suite.attested /\ suite.complete
                                /\ (Posted("hk_usdc") \/ Posted("payout_external_usdc"))
    [] status = "Settled"  -> suite.settled /\ Posted("supplier_paid_cny")
    [] status = "Refunded" -> AllAccountsZero(suite.entries)

Stages == {"Funded", "OnRamped", "Bridged", "Settled", "Refunded"}

\* Faulty variant of the next: a stage that was not reached is checked too.
FailsUnreached == {s \in Stages : ~Check(s)}

\* gate: a check is skipped until its stage is reached.
Fails == {s \in Stages : Reached(s) /\ ~Check(s)}

\* The ledger check on the balances, read last, and the verdict.
Conclude ==
  /\ suite.at = "balances"
  /\ suite' = [NoSuite(suite.on) EXCEPT !.at = "verdict", !.failing = Fails,
       !.passed = Fails = {} /\ IsBalanced(ledger[suite.on])]
  /\ UNCHANGED <<vars, moved>>

EngineMoves ==
  /\ Next
  /\ moved' = (moved \/ <<pay, ledger, wallet, events>>' # <<pay, ledger, wallet, events>>)
  /\ UNCHANGED suite

VerificationNext ==
  \/ \E p \in Payments : ReadPayment(p)
  \/ ReadEvents \/ ReadEntries \/ Conclude
  \/ EngineMoves

VerificationSpec == VerificationInit /\ [][VerificationNext]_verificationVars

(***************************************************************************)
(* Properties                                                              *)
(***************************************************************************)
VerificationTypeOK == suite \in Suite /\ moved \in BOOLEAN

Concluded == suite.at = "verdict" /\ ~moved

\* A payment whose transactions never overwrote each other, and which rests while
\* it is verified, passes at every status, after crashes and refunds as well.
SoundPaymentPasses == Concluded /\ ~stale[suite.on] => suite.passed

\* While transactions commit between its queries the suite may reject a sound
\* payment, for a stage whose event is read after the row it is held against, but
\* never for its collection or its refund: entries are read after events.
NeverMisreadsCollectionOrRefund ==
  suite.at = "verdict" /\ ~stale[suite.on]
    => suite.failing \intersect {"Funded", "Refunded"} = {}

\* Whatever calls raced, a payment at rest that passes and was ever refunded has
\* nothing left in any account: a reversal made twice, or a leg posted after the
\* refund, does not go unnoticed.
PassedRefundIsEmpty ==
  Concluded /\ suite.passed /\ Happened(suite.on, "Refunded")
    => AllAccountsZero(ledger[suite.on])

=============================================================================
