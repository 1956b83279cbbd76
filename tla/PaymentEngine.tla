---------------------------- MODULE PaymentEngine ----------------------------
(***************************************************************************)
(* apps/api/src/payments/payment-engine.service.ts: the state machine that *)
(* moves a payment from quote to settlement or refund.                     *)
(*                                                                         *)
(* Several calls of the engine may be in flight (queue workers, webhook    *)
(* and console requests).  Each reads the payment once, outside any        *)
(* transaction, awaits an adapter, and then commits one transaction whose  *)
(* update selects the row by id alone.  So a call is split where the code  *)
(* awaits: load, adapter, transaction.  The transactions of one payment    *)
(* are serialised by the row lock their update takes, and each appears     *)
(* here as one step.                                                       *)
(***************************************************************************)
EXTENDS Integers, Sequences, PaymentStates, Ledger

CONSTANTS
  Payments,      \* payment ids
  Calls,         \* slots for engine calls that run at the same time
  Quote,         \* Quote[p]: the amounts fixed when p was created
  Marker,        \* Marker[p]: the status at which p's reference injects a failure
  LiveConfirm,   \* whether custody.confirm may answer "not yet"; the mock backend never does
  Outcomes,      \* the results of the funding callbacks: TRUE paid, FALSE declined
  UsdcAmounts,   \* what the on-ramp may answer, in USDC minor units
  MaxExternal,   \* bound: adapter calls of one kind that take effect, per payment
  MaxEffects,    \* bound: the same over all kinds
  MaxEvents      \* bound: no call starts work on a payment with this many events

ASSUME QuoteAssumption ==
  Quote \in [Payments -> [allInMinorKes : Nat, sendMinorKes : Nat,
                          receiveMinorCny : Nat]]

ASSUME ModeAssumption == LiveConfirm \in BOOLEAN /\ Outcomes \subseteq BOOLEAN

ASSUME BoundAssumption ==
  MaxExternal \in Nat /\ MaxEffects \in Nat /\ MaxEvents \in Nat

ASSUME UsdcAssumption == UsdcAmounts \subseteq Nat

VARIABLES
  pay,       \* the Payment rows
  ledger,    \* the LedgerEntry rows of each payment, as a book
  wallet,    \* wallet[p][h]: status of the WalletTransaction row with hash h
  events,    \* the PaymentEvent rows of each payment that carry a status change
  ext,       \* what the outside services have really done for each payment
  call,      \* the engine calls in flight
  stale      \* history: a transaction on p overwrote a status it had not read

vars == <<pay, ledger, wallet, events, ext, call, stale>>

(***************************************************************************)
(* Rows and calls.  A checkout, transfer or payout id is the ordinal of    *)
(* the adapter call that returned it; 0 is the null of the schema.         *)
(***************************************************************************)
Ids == 0..MaxExternal

PayRow == [status : PAYMENT_STATUSES, mpesaCheckoutId : Ids, usdcMinor : Nat,
           walletTxHash : Ids, payoutId : Ids]

NewPayment == [status |-> "Quoted", mpesaCheckoutId |-> 0, usdcMinor |-> 0,
               walletTxHash |-> 0, payoutId |-> 0]

EventRow == [from : PAYMENT_STATUSES, to : PAYMENT_STATUSES]

Effects == {"stkPush", "convert", "send", "payout"}

StepStatuses == {"Quoted", "Funded", "OnRamped", "Bridging", "Bridged", "PayingOut"}

Collected == {"Funded", "OnRamped", "Bridging", "Bridged", "PayingOut"}

Results == {"none", "more", "waiting", "done", "threw"}

CallState ==
  [pc : {"idle", "adapter", "commit", "failing", "returned"},
   op : {"step", "applyFunding", "refund"},
   on : Payments, snap : PayRow, got : Nat, result : Results]

Idle(p) == [pc |-> "idle", op |-> "step", on |-> p, snap |-> NewPayment,
            got |-> 0, result |-> "none"]

FAIL_MARKERS == {"Funded", "OnRamped", "Bridged"}

ASSUME MarkerAssumption == Marker \in [Payments -> FAIL_MARKERS \union {"none"}]

Init ==
  /\ pay = [p \in Payments |-> NewPayment]
  /\ ledger = [p \in Payments |-> EmptyBook]
  /\ wallet = [p \in Payments |-> [h \in 1..MaxExternal |-> "none"]]
  /\ events = [p \in Payments |-> << >>]
  /\ ext = [p \in Payments |-> [e \in Effects |-> 0]]
  /\ \E p \in Payments : call = [c \in Calls |-> Idle(p)]
  /\ stale = [p \in Payments |-> FALSE]

(***************************************************************************)
(* Entering the engine: one read of the payment, and the early returns.    *)
(***************************************************************************)
rows == <<pay, ledger, wallet, events, stale>>

\* The call continues at pc with the row it has just read.
Enter(c, p, op, pc) ==
  call' = [call EXCEPT ![c] = [pc |-> pc, op |-> op, on |-> p, snap |-> pay[p],
                               got |-> 0, result |-> "none"]]

\* The call answers at once, without keeping the row.
Answer(c, p, op, result) ==
  call' = [call EXCEPT ![c] = [pc |-> "returned", op |-> op, on |-> p,
                               snap |-> NewPayment, got |-> 0, result |-> result]]

HasWork(p) == Len(events[p]) < MaxEvents

\* step: load, and the switch on the status.
Step(c, p) ==
  /\ call[c].pc = "idle"
  /\ \/ /\ pay[p].status \in StepStatuses /\ HasWork(p)
        /\ Enter(c, p, "step", "adapter")
     \/ /\ pay[p].status = "AwaitingFunding"
        /\ Answer(c, p, "step", "waiting")
     \/ /\ pay[p].status \in TERMINAL_STATUSES \union {"Refunding"}
        /\ Answer(c, p, "step", "done")
  /\ UNCHANGED <<rows, ext>>

\* Faulty variant of the next: a declined callback is taken for a success.
ApplyAnyFunding(c, p, success) ==
  /\ call[c].pc = "idle"
  /\ pay[p].status = "AwaitingFunding" /\ HasWork(p)
  /\ Enter(c, p, "applyFunding", "commit")
  /\ UNCHANGED <<rows, ext>>

\* applyFunding: only an AwaitingFunding payment takes the callback; a decline
\* goes to handleFailure.  For any other status the result carries that status,
\* which the caller compares with Funded.
ApplyFunding(c, p, success) ==
  /\ call[c].pc = "idle"
  /\ \/ /\ pay[p].status = "AwaitingFunding" /\ HasWork(p)
        /\ Enter(c, p, "applyFunding", IF success THEN "commit" ELSE "failing")
     \/ /\ pay[p].status # "AwaitingFunding"
        /\ Answer(c, p, "applyFunding",
                  IF pay[p].status = "Funded" THEN "more"
                  ELSE IF pay[p].status \in TERMINAL_STATUSES THEN "done"
                  ELSE "waiting")
  /\ UNCHANGED <<rows, ext>>

\* refund: throws for a payment that is over or being refunded.
RefundRequest(c, p) ==
  /\ call[c].pc = "idle"
  /\ \/ /\ pay[p].status \notin TERMINAL_STATUSES \union {"Refunding"} /\ HasWork(p)
        /\ Enter(c, p, "refund", "failing")
     \/ /\ pay[p].status \in TERMINAL_STATUSES \union {"Refunding"}
        /\ Answer(c, p, "refund", "threw")
  /\ UNCHANGED <<rows, ext>>

(***************************************************************************)
(* Awaiting the adapter.                                                   *)
(***************************************************************************)
ShouldFail(c) == Marker[call[c].on] = call[c].snap.status

EffectCount(p) == ext[p]["stkPush"] + ext[p]["convert"] + ext[p]["send"] + ext[p]["payout"]

\* A request from status takes effect outside; the call gets its answer, or the
\* answer is lost and the adapter throws.
Request(c, status, e, answers) ==
  LET p == call[c].on
  IN  /\ call[c].pc = "adapter" /\ call[c].snap.status = status /\ ~ShouldFail(c)
      /\ ext[p][e] < MaxExternal /\ EffectCount(p) < MaxEffects
      /\ ext' = [ext EXCEPT ![p][e] = @ + 1]
      /\ \/ \E answer \in answers :
             call' = [call EXCEPT ![c].pc = "commit", ![c].got = answer]
         \/ call' = [call EXCEPT ![c].pc = "failing"]
      /\ UNCHANGED rows

\* No adapter sends a stable idempotency key: each request makes a new id.
NewId(c, e) == {ext[call[c].on][e] + 1}

\* mpesa.initiateStkPush.
InitiateStkPush(c) == Request(c, "Quoted", "stkPush", NewId(c, "stkPush"))

\* onramp.convertKesToUsdc: at the quoted rate, or what the provider says.
ConvertKesToUsdc(c) == Request(c, "Funded", "convert", UsdcAmounts)

\* custody.send.
Send(c) == Request(c, "OnRamped", "send", NewId(c, "send"))

\* Faulty variant of the next: the payout is ordered while the transfer is out.
CreatePayoutEarly(c) == Request(c, "Bridging", "payout", NewId(c, "payout"))

\* chinaPayout.createPayout.
CreatePayout(c) == Request(c, "Bridged", "payout", NewId(c, "payout"))

CallAdapter(c) == InitiateStkPush(c) \/ ConvertKesToUsdc(c) \/ Send(c) \/ CreatePayout(c)

\* custody.confirm: a transfer that is not mined in time, or reverted, is "not yet".
ConfirmTransfer(c) ==
  /\ call[c].pc = "adapter" /\ call[c].snap.status = "Bridging"
  /\ \/ call' = [call EXCEPT ![c].pc = "commit"]
     \/ LiveConfirm /\ Answer(c, call[c].on, "step", "waiting")
  /\ UNCHANGED <<rows, ext>>

\* chinaPayout.confirmPayout: both modes say settled as soon as they answer.
ConfirmPayout(c) ==
  /\ call[c].pc = "adapter" /\ call[c].snap.status = "PayingOut"
  /\ call' = [call EXCEPT ![c].pc = "commit"]
  /\ UNCHANGED <<rows, ext>>

Poll(c) == ConfirmTransfer(c) \/ ConfirmPayout(c)

\* The injected failure, or an adapter that throws before it had any effect.
AdapterThrows(c) ==
  /\ call[c].pc = "adapter"
  /\ call' = [call EXCEPT ![c].pc = "failing"]
  /\ UNCHANGED <<rows, ext>>

(***************************************************************************)
(* The transactions.                                                       *)
(***************************************************************************)
\* Faulty variant of the next: the two statuses of an event are swapped.
ChangeSwapped(from, to) == [from |-> to, to |-> from]

Change(from, to) == [from |-> from, to |-> to]

\* transition: assertTransition on the status read at load, an update of the
\* row by id alone, and the event.
Transition(c, to, row, result) ==
  /\ CanTransition(call[c].snap.status, to)
  /\ pay' = [pay EXCEPT ![call[c].on] = [row EXCEPT !.status = to]]
  /\ events' = [events EXCEPT ![call[c].on] = Append(@, Change(call[c].snap.status, to))]
  /\ stale' = [stale EXCEPT ![call[c].on] =
                 @ \/ pay[call[c].on].status # call[c].snap.status]
  /\ Answer(c, call[c].on, call[c].op, result)

Committing(c, op, status) ==
  /\ call[c].pc = "commit" /\ call[c].op = op /\ call[c].snap.status = status
  /\ UNCHANGED ext

Post(c, debit, credit, amount) ==
  ledger' = [ledger EXCEPT ![call[c].on] = PostPair(@, debit, credit, amount)]

DoInitiateFunding(c) ==
  /\ Committing(c, "step", "Quoted")
  /\ Transition(c, "AwaitingFunding",
                [pay[call[c].on] EXCEPT !.mpesaCheckoutId = call[c].got], "waiting")
  /\ UNCHANGED <<ledger, wallet>>

CommitFunding(c) ==
  /\ Committing(c, "applyFunding", "AwaitingFunding")
  /\ Post(c, "mpesa_collected", "importer_external", Quote[call[c].on].allInMinorKes)
  /\ Transition(c, "Funded", pay[call[c].on], "more")
  /\ UNCHANGED wallet

DoOnRamp(c) ==
  /\ Committing(c, "step", "Funded")
  /\ ledger' = [ledger EXCEPT ![call[c].on] =
       PostPair(PostPair(@, "onramp_external_kes", "mpesa_collected",
                         Quote[call[c].on].sendMinorKes),
                "treasury_usdc", "onramp_external_usdc", call[c].got)]
  /\ Transition(c, "OnRamped", [pay[call[c].on] EXCEPT !.usdcMinor = call[c].got], "more")
  /\ UNCHANGED wallet

DoBridgeSend(c) ==
  /\ Committing(c, "step", "OnRamped")
  /\ wallet' = [wallet EXCEPT ![call[c].on][call[c].got] = "pending"]
  /\ Transition(c, "Bridging",
                [pay[call[c].on] EXCEPT !.walletTxHash = call[c].got], "more")
  /\ UNCHANGED ledger

\* Faulty variant of the next: the wallet row is not completed.
BridgeConfirmKeepsPending(c) ==
  /\ Committing(c, "step", "Bridging")
  /\ Post(c, "hk_usdc", "treasury_usdc", call[c].snap.usdcMinor)
  /\ Transition(c, "Bridged", pay[call[c].on], "more")
  /\ UNCHANGED wallet

DoBridgeConfirm(c) ==
  /\ Committing(c, "step", "Bridging")
  /\ wallet' = [wallet EXCEPT ![call[c].on] =
                  [h \in 1..MaxExternal |->
                     IF h = call[c].snap.walletTxHash /\ @[h] # "none"
                     THEN "complete" ELSE @[h]]]
  /\ Post(c, "hk_usdc", "treasury_usdc", call[c].snap.usdcMinor)
  /\ Transition(c, "Bridged", pay[call[c].on], "more")

\* Faulty variant of the next: the leg is not posted.
CreatePayoutUnposted(c) ==
  /\ Committing(c, "step", "Bridged")
  /\ Transition(c, "PayingOut", [pay[call[c].on] EXCEPT !.payoutId = call[c].got], "more")
  /\ UNCHANGED <<ledger, wallet>>

DoCreatePayout(c) ==
  /\ Committing(c, "step", "Bridged")
  /\ Post(c, "payout_external_usdc", "hk_usdc", call[c].snap.usdcMinor)
  /\ Transition(c, "PayingOut", [pay[call[c].on] EXCEPT !.payoutId = call[c].got], "more")
  /\ UNCHANGED wallet

DoConfirmPayout(c) ==
  /\ Committing(c, "step", "PayingOut")
  /\ Post(c, "payout_external_cny", "supplier_paid_cny",
          Quote[call[c].on].receiveMinorCny)
  /\ Transition(c, "Settled", pay[call[c].on], "done")
  /\ UNCHANGED wallet

\* handleFailure for a payment that had collected nothing when it was read.
FailUnfunded(c) ==
  /\ call[c].pc = "failing" /\ call[c].snap.status \notin Collected
  /\ Transition(c, "Failed", pay[call[c].on], "done")
  /\ UNCHANGED <<ledger, wallet, ext>>

\* handleFailure for a funded payment: Refunding, the reversal and Refunded in
\* one transaction.
CompensateFunded(c) ==
  /\ call[c].pc = "failing" /\ call[c].snap.status \in Collected
  /\ CanTransition(call[c].snap.status, "Refunding")
  /\ CanTransition("Refunding", "Refunded")
  /\ pay' = [pay EXCEPT ![call[c].on].status = "Refunded"]
  /\ ledger' = [ledger EXCEPT ![call[c].on] = ReverseAll(@)]
  /\ events' = [events EXCEPT ![call[c].on] =
                  Append(Append(@, Change(call[c].snap.status, "Refunding")),
                         Change("Refunding", "Refunded"))]
  /\ stale' = [stale EXCEPT ![call[c].on] =
                 @ \/ pay[call[c].on].status # call[c].snap.status]
  /\ Answer(c, call[c].on, call[c].op, "done")
  /\ UNCHANGED <<wallet, ext>>

\* Faulty variant of the next: the event is written outside the transaction and
\* stays when the rest is rolled back.
TransactionHalfFails(c) ==
  /\ call[c].pc = "failing"
  /\ events' = [events EXCEPT ![call[c].on] =
                  Append(@, Change(call[c].snap.status, "Refunding"))]
  /\ Answer(c, call[c].on, call[c].op, "threw")
  /\ UNCHANGED <<pay, ledger, wallet, stale, ext>>

\* The database rejects the transaction: step's catch turns to handleFailure,
\* while an error of applyFunding or of handleFailure itself reaches the caller.
TransactionFails(c) ==
  /\ \/ /\ call[c].pc = "commit" /\ call[c].op = "step"
        /\ call' = [call EXCEPT ![c].pc = "failing"]
     \/ /\ \/ call[c].pc = "commit" /\ call[c].op = "applyFunding"
           \/ call[c].pc = "failing"
        /\ Answer(c, call[c].on, call[c].op, "threw")
  /\ UNCHANGED <<rows, ext>>

(***************************************************************************)
(* The caller takes the result, or the process dies and the call with it.  *)
(***************************************************************************)
Forget(c) == call' = [call EXCEPT ![c] = Idle(call[c].on)]

Return(c) == call[c].pc = "returned" /\ Forget(c) /\ UNCHANGED <<rows, ext>>

Crash(c) ==
  call[c].pc \in {"adapter", "commit", "failing"} /\ Forget(c) /\ UNCHANGED <<rows, ext>>

Commit(c) ==
  \/ DoInitiateFunding(c) \/ CommitFunding(c) \/ DoOnRamp(c) \/ DoBridgeSend(c)
  \/ DoBridgeConfirm(c) \/ DoCreatePayout(c) \/ DoConfirmPayout(c)
  \/ FailUnfunded(c) \/ CompensateFunded(c)

\* What a call does by itself once it has entered the engine.
Work(c) ==
  CallAdapter(c) \/ Poll(c) \/ AdapterThrows(c) \/ Commit(c) \/ TransactionFails(c)

Next ==
  \E c \in Calls :
    \/ \E p \in Payments :
         \/ Step(c, p)
         \/ \E success \in Outcomes : ApplyFunding(c, p, success)
         \/ RefundRequest(c, p)
    \/ Work(c)
    \/ Return(c)
    \/ Crash(c)

Spec == Init /\ [][Next]_vars

(***************************************************************************)
(* Properties                                                              *)
(***************************************************************************)

TypeOK ==
  /\ pay \in [Payments -> PayRow]
  /\ ledger \in [Payments -> Book]
  /\ wallet \in [Payments -> [1..MaxExternal -> {"none", "pending", "complete"}]]
  /\ events \in [Payments -> Seq(EventRow)]
  /\ ext \in [Payments -> [Effects -> Ids]]
  /\ call \in [Calls -> CallState]
  /\ stale \in [Payments -> BOOLEAN]

\* The accounts after KES were collected, KES sent to the on-ramp, USDC received,
\* moved to Hong Kong and paid out, and CNY delivered, in these amounts.
Holdings(collected, sent, received, moved, paidOut, delivered) ==
  [a \in ACCOUNTS |->
     CASE a = "importer_external"    -> -collected
       [] a = "mpesa_collected"      -> collected - sent
       [] a = "onramp_external_kes"  -> sent
       [] a = "onramp_external_usdc" -> -received
       [] a = "treasury_usdc"        -> received - moved
       [] a = "hk_usdc"              -> moved - paidOut
       [] a = "payout_external_usdc" -> paidOut
       [] a = "payout_external_cny"  -> delivered
       [] a = "supplier_paid_cny"    -> -delivered]

\* What the accounts of p hold at a status when every leg up to it has been
\* posted once and nothing else has: the postings of applyFunding and of the
\* do... handlers, in the order of HAPPY_PATH; nothing is left after a refund.
PositionAt(p, status, usdcMinor) ==
  LET after(statuses, n) == IF status \in statuses THEN n ELSE 0
      converted == {"OnRamped", "Bridging", "Bridged", "PayingOut", "Settled"}
  IN  Holdings(after(converted \union {"Funded"}, Quote[p].allInMinorKes),
               after(converted, Quote[p].sendMinorKes),
               after(converted, usdcMinor),
               after({"Bridged", "PayingOut", "Settled"}, usdcMinor),
               after({"PayingOut", "Settled"}, usdcMinor),
               after({"Settled"}, Quote[p].receiveMinorCny))

Position(p) == PositionAt(p, pay[p].status, pay[p].usdcMinor)

\* As long as no transaction has overwritten a status it had not read, the
\* account balances of a payment are those its status stands for, whatever
\* calls, lost answers, rejected transactions and crashes there were.
LedgerFollowsStatus ==
  \A p \in Payments : ~stale[p] => Nets(ledger[p]) = Position(p)

\* In every currency debits equal credits, even when calls overwrite each
\* other (ledger.service.ts: "each currency sub-ledger always has total debits
\* == total credits").
LedgerBalanced == \A p \in Payments : IsBalanced(ledger[p])

\* The events of a payment are a path of the status graph that starts at
\* Quoted and ends at its status, unless a transaction overwrote a status it
\* had not read.
AuditTrail ==
  \A p \in Payments : ~stale[p] =>
    LET log == events[p]
        last == IF log = << >> THEN "Quoted" ELSE log[Len(log)].to
    IN  /\ last = pay[p].status
        /\ \A i \in 1..Len(log) :
             /\ log[i].from = (IF i = 1 THEN "Quoted" ELSE log[i - 1].to)
             /\ CanTransition(log[i].from, log[i].to)

Happened(p, status) == \E i \in 1..Len(events[p]) : events[p][i].to = status

\* Whatever calls race, nothing is bought, sent on chain or ordered from the
\* payout partner before the leg it spends has been recorded
\* (docs/payments/kenya-leg.md: "only on-ramp confirmed funds").
OutsideMoneyFollowsRecord ==
  \A p \in Payments :
    /\ ext[p]["convert"] > 0 => Happened(p, "Funded")
    /\ ext[p]["send"] > 0 => Happened(p, "OnRamped")
    /\ ext[p]["payout"] > 0 => Happened(p, "Bridged")

\* The WalletTransaction row a payment points at is pending while it bridges,
\* complete from Bridged on, and it is the only row the payment has.
WalletFollowsStatus ==
  \A p \in Payments : ~stale[p] =>
    LET h == pay[p].walletTxHash
        row == IF h = 0 THEN "none" ELSE wallet[p][h]
    IN  /\ pay[p].status = "Bridging" => row = "pending"
        /\ pay[p].status \in {"Bridged", "PayingOut", "Settled"} => row = "complete"
        /\ \A g \in 1..MaxExternal : g # h => wallet[p][g] = "none"

\* A settled, failed or refunded payment changes only when a transaction
\* overwrites a status it had not read: no call that starts then commits.
TerminalIsFinal ==
  [][\A p \in Payments :
       (pay[p].status \in TERMINAL_STATUSES /\ ~stale'[p])
         => UNCHANGED <<pay[p], ledger[p], wallet[p], events[p]>>]_vars

=============================================================================
