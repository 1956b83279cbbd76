# Bandari in TLA+

Bandari moves a payment from a Kenyan importer (KES, M-Pesa) to a Chinese
supplier (CNY) over USDC. This directory holds TLA+ models of the program, TLC
runs over small instances, and proofs that TLAPS checks for every instance.
Paths below are relative to the repository; `engine`, `orchestrator` and so on
stand for `apps/api/src/payments/payment-engine.service.ts`,
`apps/api/src/orchestration/orchestrator.service.ts` and so on.

## 1. Inventory

| Part | State | Operations | Talks to |
| --- | --- | --- | --- |
| Payment engine (`payment-engine.service.ts`, `events.service.ts`) | Payment, PaymentEvent and WalletTransaction rows | `step`, `applyFunding`, `refund` | adapters, ledger, database |
| Status graph (`packages/shared/src/payment-states.ts`) | none | `canTransition`, `assertTransition` | |
| Ledger (`ledger.service.ts`) | LedgerEntry rows | `postPair`, balances, `isBalanced`, the engine's `reverseAll` | database |
| Orchestrator (`orchestrator.service.ts`) | BullMQ queue (external) | `drive`, `onFunding`, worker job, `driveInline` | engine |
| Webhooks (`webhooks.service.ts`) | WebhookEvent rows | `handleMpesaStk`, `handleCircle` | orchestrator |
| Payments, quotes, KYC, customers (`payments.service.ts`, `fx.service.ts`, `kyc.service.ts`, `customers.service.ts`) | Importer, Supplier, KycRecord, Quote, Payment rows | `create`, `retry`, `refund`, `simulateFunding`, `createQuote`, `runKyc`, `ensureVerified`, `createImporter`, `createSupplier` | orchestrator, KYC provider |
| Verification suite (`verification.service.ts`) | none | `verifyPayment`, probes | database, adapters |
| Custody (`adapters/custody*`, `scripts/stablecoin.ts`) | treasury and transfers on a chain | choice of the back end, `send`, `confirm`, balances, `healthCheck`, `probe`, the testbed | a chain, Circle |
| Reconciliation (`reconciliation.service.ts`) | none | `run` | database |
| Other adapters (`adapters/`) | what the partners have done | push, convert, pay out, verify | outside world |
| Amounts (`money.ts`, `fx.service.ts`, the mock adapters, `settlement.ts`) | none | `toMinor`, `convertMinor`, `bpsOf`, quote, conversion, payout, the summary of the send page | engine, pages |
| Screening in the browser (`apps/web/lib/compliance.ts`, `use-profile.ts`, profile and review pages) | profiles in localStorage | `getProfile`, `startVerification`, `decide`, polling | send page |
| Send page and persona (`app/importer/send/page.tsx`, `lib/persona.tsx`) | the form, the acting importer | choose, add a supplier, `send` | screening, API or demo client |
| Demo client (`apps/web/lib/mock-client.ts`) | payments, importers, suppliers, quotes in localStorage | the API imitated, advanced by the wall clock | pages |
| Milestones and status lines (`milestones.ts`, `tracker.tsx`, `pipeline-stepper.tsx`) | none | milestone, label and step of a status | pages |
| Payment pages (`app/payments/[id]`, the trackers) | what the tab has rendered | load, poll, pay, retry, refund | demo client or API |
| New payment form (`app/payments/new/page.tsx`) | the form, its requests | choose, type, save a party, quote, submit | demo client or API |
| Stage playbook, diagnostics, FX chart, home pages, configuration, mobile scaffold | none that others read | | |

How they interact. An HTTP `create` passes KYC, spends a quote and inserts a
payment, then hands its id to the orchestrator. That runs `step` again and again,
through queue jobs or in a loop inside the request. The engine stops at
AwaitingFunding; the M-Pesa webhook (or `simulateFunding`) calls `onFunding`,
which applies the callback and drives again. `retry` and `refund` come from the
console at any time. Every part shares the database, and almost every read in it
is outside the transaction that later depends on it.

What is hard here:

* an engine call reads the payment, awaits a partner, and only then opens a
  transaction that selects the row by id alone, so calls overtake each other;
* partners act before the database records it, and carry no idempotency key;
* jobs are retried, workers die, callbacks are repeated, late or early;
* nothing but the next job, the inline loop or a person moves a payment on;
* the KYC status, the quote and the existing payment are looked up in separate
  statements before the one transaction that spends the quote;
* browser tabs act on what they rendered last, and share one store;
* a page has several requests under way, whose answers come in any order or not
  at all, and puts them into one form or one view;
* several parties move one treasury, and a node may lag behind the chain;
* one sum is converted at several places, each with a rounding and a column width.

What makes each part correct:

* engine: ledger, events, wallet rows and status agree; the end is final; money
  goes out only after the leg it spends was recorded; a refund gives all back;
* ledger: debits equal credits in every currency;
* orchestrator: a payment left to itself is worked on by one caller at a time,
  comes to an end, and is never left half-way with nothing scheduled;
* webhooks: KES are booked only when paid, and once;
* creation: a quote pays for one payment and is not lost; no payment without a
  positive KYC verdict and a supplier of the same importer;
* verification: no false alarm at rest, no pass for what is not empty;
* screening: nobody is verified without a clean name or a decision, and decisions
  stand; a payment is sent only between parties that passed;
* custody: "confirmed" means that the money moved, under enough blocks; the
  testbed passes only if its own transfer did, and fails only for a reason;
* reconciliation: no false alarm while payments move;
* amounts: what is quoted, shown, asked for, booked and delivered agrees;
* pages: what is shown is true, does not go back, and is the end in the end; the
  parts of a form fit together; a click pays once.

`PROJECT.json` lists the components with their status and every hazard with its
line and the properties aimed at it.

## 2. Modules

```
PaymentStates   Ledger
        \        /
       PaymentEngine ---- PaymentEngineProofs ---- PaymentHistoryProofs
      /   |     |    \        \          \
EngineClaims  |  Orchestrator  Webhooks   Verification   Custody   Amounts
        Reconciliation            |                 \       |       /
              |            WebhookDelivery               Suites
       EngineCorridor ---- Corridor (abstract)

EngineCorridor, PaymentHistoryProofs ---- CorridorProofs
Webhooks, PaymentEngineProofs ---- WebhooksProofs
Orchestrator, PaymentHistoryProofs ---- OrchestratorProofs
Suites, PaymentHistoryProofs ---- SuitesProofs

Gate ---- GateProofs

Screening ---- SendPage
PaymentStates ---- DemoClient ---- Milestones ---- PaymentPages
                        \----------------------- NewPayment
SendPage, PaymentPages, NewPayment ---- Browser ---- BrowserProofs
```

An `MC...` module gives the constants of the module it extends their values.
Operators marked "faulty variant" are no part of any specification: each is a
plausible bug, substituted for the operator below it to see that a property
notices.

**PaymentStates, Ledger.** The status graph, and the ledger of one payment as
sums per account: `posted` for ordinary rows, `reversed` for rows whose memo is
`refund-reversal`, which is the distinction `reverseAll` makes. An account that
the code uses with two currencies is two accounts here.

**PaymentEngine.** `pay`, `ledger`, `wallet`, `events` are the tables; `ext`
counts what each partner has really done; `call` holds the calls in flight.

| Code | Actions |
| --- | --- |
| `step`: load and switch | `Step` |
| `applyFunding`: load and early return | `ApplyFunding` |
| `refund`: load and guard | `RefundRequest` |
| adapter awaits | `InitiateStkPush`, `ConvertKesToUsdc`, `Send`, `CreatePayout` (take effect, then answer or throw), `ConfirmTransfer`, `ConfirmPayout`, `AdapterThrows` |
| the handlers' transactions | `DoInitiateFunding`, `CommitFunding`, `DoOnRamp`, `DoBridgeSend`, `DoBridgeConfirm`, `DoCreatePayout`, `DoConfirmPayout` |
| `handleFailure`, `reverseAll` | `FailUnfunded`, `CompensateFunded` |
| a rejected transaction | `TransactionFails` |
| the caller goes on; the process dies | `Return`, `Crash` |

A transaction is one step: each starts by updating the payment's row, so the
database serialises those of one payment. `call[c].snap` is the row as it was
read; a transaction writes from it, as the code does. `stale` is a history
variable: some transaction has overwritten a status it had not read. It guards
nothing. Several properties hold only until it is set, and their negation
afterwards is what the finding about two compensations shows.

**Corridor, EngineCorridor.** What the importer is promised: the value is in one
place, goes on place by place, and ends with the supplier or, whole, with the
importer. The refinement mapping reads the place off the account balances and
nothing else.

**Reconciliation.** `run` beside the engine: `ListPayments`, one `Reconcile` per
payment, `AccountBalances` over all of them; the engine may commit between any two
of these queries. EngineCorridor extends it, so the refinement and the report are
checked in one run; the report never touches the engine's variables.

**EngineClaims.** Two statements of the repository that the code does not keep.

**Orchestrator.** Adds to the engine the queue and its jobs (attempts, stalls),
workers, requests, and the inline loop. BullMQ is external: a job is given to
one worker, put back after a failed attempt or once after a stall, and then kept
as a dead letter. `drive` is `Drive`, `onFunding` is `OnFunding` and
`FundingApplied`, the worker is `Take`, `Stepped`, `AttemptFails`, `WorkerDies`,
`driveInline` is `InlineStep` and `InlineStepped`. `setting`, chosen in the
initial state, is the deployment and its surroundings: the mode, the call slots,
how often the console retries and refunds, how many callbacks come, whether
processes die. `asked` counts the console's requests. `reported` says that somebody
can know of a failure: a dead letter, an error response, a broken connection. The last
includes a process that dies between `applyFunding`'s commit and `queue.add` (lines 86-87):
its caller sees no answer, which is all that is known of a payment nobody then drives.

**Webhooks.** `handleMpesaStk` with its awaits (`Receive`, `Mark`,
`FindPayment` or `NoPayment`, `OnFunding`, `Respond`) in front of the engine and
behind an M-Pesa (external) that delivers the callback of a decided push any
number of times, at any time. `simulateFunding`, which books without a push
being paid by design, is in Orchestrator and not here.

**WebhookDelivery.** The same with an M-Pesa that goes on delivering until a callback
is processed, which is a fairness condition. `wasted` is a history variable: for each
push, how deliveries used its callback up without booking anything.

**Gate.** `createImporter`, `createSupplier`, `createQuote`, `runKyc`,
`ensureVerified` and `payments.create`, one action per database call that
another request can come before. `driven` counts hand-overs to the orchestrator.

**Verification.** `verifyPayment`: four reads (`ReadPayment`, `ReadEvents`,
`ReadEntries`, `Conclude`) beside every action of the engine. `hasPosting` looks
for a row of one side of a leg; the model reads it off the balance of the leg's
outer account, which is the same because every posting of a leg has the same
amount here (see `ConversionAssumption`).

**Custody.** `setting` holds the mode, the provider, the treasury's funds, gas and
whether both wallets are on one chain; `Backend` is the factory's choice. The chain
(external) is `txs` with the block of each transfer, and `height`; a call of a node
may fail or be answered a block late (`Sees`, `trouble`). Payments and probes are
`OtherSends` and `OtherConfirms`, a probe asks once (`ProbeEnds`). The testbed is
`BedScript`, one call after another, each an action that keeps what the code keeps
for the checks that come later. Circle's transfers land in the same chain.

**Amounts.** `ToMinor`-like conversions yield the *set* of integers that rounding in
floating point may give: two at an exact half. Products larger than TLC's integers
are never formed (`Whole`, `Rest`). `sums` runs through the life of one payment:
typed, quoted, asked for, converted or refused by the 32-bit column, paid out.

**Suites.** Verification, Custody and Amounts as the three subjects of the checks
the repository makes stage by stage. They share no state: `subject` is chosen in
the initial state and the other two stay at rest.

**Screening.** The profiles in localStorage (`store`) and what each tab rendered
last (`shown`). `getProfile` is `Profile`, and every render leaves its result in
the store (`Render`, `Poll`); `startVerification` and `decide` are guarded by what
the tab shows, not by what is stored, as their buttons are. A call of these
functions is one step, since one origin runs them one after another; time is one
bit per subject (`ripe`). A name is the set of traits its words suggest.

**SendPage.** The form over Screening: the acting importer of the sidebar, the
chosen supplier, a supplier being saved, the two gates, and the demo client's
`createPayment`, which refuses nothing. Opening the page, its polling and a change
of the importer are one action (`SetImporterId`), because the page's effects do
the same for all three.

**DemoClient.** One payment as `mock-client.ts` keeps it: status, events, and how far
its schedule has run since funding (`steps`, instead of `fundedAt` and the clock).
`Tick` is `read`'s catching up, `AdvanceTo` its walk along the happy path;
`SimulateFunding`, `RetryPayment`, `RefundPayment` write what they read. Each call
reads, changes and writes the store without an await, so it is one step.

**Milestones.** Pure: what the pages make of a status, used by PaymentPages. `Milestone`
is the state of a milestone, `MilestoneSub` the text under it, which for the importer's
first goes by the status. `MilestoneWords` is what of these the tracker says of the
payment: a milestone still to come only names a step, so its label and its fixed text
are left out, but a text chosen by the status is said whatever the milestone's state.

**PaymentPages.** `record` is the payment behind the pages, `rendered` what each tab
shows, `waiting` its requests. `Open`, `PollPayment`, `Act` (a button of the
operations page), `Confirm` (the button of the importer's
tracker) ask; `Serve`, `Answer`, `Lose` are what
becomes of a request. The demo client serves and answers at once and in order; over
HTTP anything may come late, overtake or be lost, and `ApiMoves` takes the payment
along its graph. A load of the operations page is two requests, for the payment and
its ledger, and is rendered when both are answered.

**NewPayment.** The form (`draft`) and its requests (`asked`), each with what its
closure has captured: the importer at the click of "save", the amount of the timer.
`rows` are the lists behind it, oldest first; the API lists newest first, the demo
oldest first (`Listed`). `intent` is history and guards nothing.

**Browser.** The three uses of the web app in one run: `scene` is chosen in the
initial state and also says whether `api()` is the demo client or HTTP.

## 3. Runs

| Run | Question | Bounds |
| --- | --- | --- |
| EngineRaces | Two calls of one payment, every interleaving of their awaits, with throwing adapters, rejected transactions, refunds, crashes | 1 payment, 2 calls, 2 effects of a kind, 5 in all, 7 events |
| EngineSerial | With one call at a time, does the engine implement Corridor, and is a reconciliation beside it clean? | 2 payments, 1 call, 10 events |
| Orchestrator | Both modes, with callbacks, retries, refunds and deaths: one caller at a time, never stranded, an end | 7 settings: 2 workers or 1, 1 or 2 requests, up to 2 drives, 2 callbacks, 1 refund; 3 attempts, 25 steps a loop |
| Webhooks (WebhookDelivery) | Late, repeated, parallel callbacks: never booked without payment, nor twice, but in the end | 2 handlers, 1 other call, 2 deliveries of each callback; or 1 handler, 2 other calls, 1 delivery; 2 pushes, 5 events |
| Gate | Two requests for one quote or one importer | 2 importers, 1 supplier, 1 quote, 2 records |
| Verification (Suites) | Four reads while two calls work; | 1 payment, 2 calls, 1 effect of a kind; |
| | the testbed, a payment and a probe on one treasury; | 9 settings, 4 blocks, 2 confirmations, 2 transfers, 1 failing or late node call; |
| | every conversion of a sum | all sums to KES 20, 995 sums to the limit and beyond it, 200 around it |
| SendPage (Browser) | Screening, review and sending in three tabs; | 2 of 3 importers, 1 supplier and 1 added, 1 payment; |
| | tabs that follow one payment; | demo: 2 tabs, or 1 with 2 requests; HTTP: 1 tab, up to 2 requests, 1 lost; |
| | the form for a new payment | 2 importers, 2 suppliers, amounts none, 1, 2; 2 payments; demo 3 requests, HTTP 2 and 1 lost |
| ClaimRefunded, ClaimIdempotent, Repoll, WebhookDoubleBooking, SendGate | Findings, section 6 | as the runs above, or smaller |

What the passing runs show:

* EngineRaces: `LedgerBalanced` and `OutsideMoneyFollowsRecord` survive any race.
  `LedgerFollowsStatus`, `AuditTrail` and `WalletFollowsStatus` hold until a
  transaction overwrites a status it had not read, and `TerminalIsFinal` says
  that no call that started after the end commits anything.
* EngineSerial: `ImplementsCorridor`. `ReportIsClean`: although the report is put
  together from queries of different moments, it never names an imbalance, and never
  shows an account of held money overdrawn, because every transaction posts pairs
  and the last query sees all accounts at one moment.
* Orchestrator: `QuietPaymentIsSerial`: create's drive and the callback's never
  meet on one payment, so none of the races above happens to a payment that is
  created, funded once and left alone. `NothingStranded`: a payment that was
  driven but not yet asked for its money, or that has collected it, always
  has its next step scheduled or its failure known, whoever dies. `FundedComesToAnEnd`
  is the liveness property; its one way out is a retry or a refund that overtook
  another call, because a retry's step that still initiates funding can put a
  payment that was funded meanwhile back to AwaitingFunding.
* Webhooks: `BookedMeansPaid`, and `BookedOncePerPaidPush` unless two handlers of
  the payment overlapped. `PaidIsBookedOrWasted`: a paid push is booked in the end unless
  a delivery used its callback up: it came before the checkout id was stored or after
  it was replaced, it met a payment that no longer awaited funding, its transaction
  failed, or its process died after marking it. Without any one of the four the
  property fails, so all of them happen; with all four it holds, so there is no fifth.
* Gate: `OnePaymentPerQuote`, `ConsumedMeansPaid`, `PaymentsPassedTheGate`, and
  `StatusIsLatestVerdict` unless two KYC runs of the importer overlapped.
* Verification: `SoundPaymentPasses` at rest; `NeverMisreadsCollectionOrRefund`
  even while transactions commit between the reads (the other stages can be
  misread); `PassedRefundIsEmpty` also for payments that races damaged.
  `ConfirmedMeansMoved`: whatever a lagging node answers, a transfer counted as
  confirmed is mined, successful and deep enough (the mock moves nothing and says
  so of everything). `TransferChecksAreSound`: a testbed that passes has sent once
  and moved its amount, although others debit and credit the same wallets between
  its balances; one that fails has one of the stated reasons, of which "others used
  the treasury" is one. `SumsAgree`: the margins by which the quote, the summary, the
  STK push, the USDC and the Hong Kong dollars may differ are exactly those stated,
  and a payment is refused midway exactly above KES 278,099.13.
* SendPage: `VerifiedIsEarned` and `DecisionStands` hold although no function checks
  the stored status: a name that can be decided on never shows the button that
  would start it again. `OwnPaymentsAreScreened` is what the gates achieve; SendGate
  shows what they leave out. Of the pages that follow a payment, `StoppedPagesAreFinal`
  (a page stops polling only when what it shows is the end, and in the demo its ledger
  is complete too), `PagesTellTheTruth`, about every word in the pill, the cards and the milestones of a
  tracker, however far it is behind: what it says of the supplier being paid, or not being
  paid, and of nothing being collected, is always so; what it says of money collected or
  returned is so with two exceptions, both of payments that ended with nothing collected
  (`EndedUnpaid`): one that failed and, in the demo, one that
  was refunded before it was funded. Without either the property fails, so both happen;
  with both it holds, so there is no third.
  `ProgressIsKept` (in the demo no page takes a finished step back) and
  `PagesReachTheEnd` (liveness). Of the form, `RestingFormFits`: when all answers are
  in, supplier, importer, amount and quote belong together. It is stated for the demo,
  whose answers keep their order, and for an importer that stays while a supplier is
  being saved: over HTTP neither is so, and section 5 says what happens then.
  `ClickPaysOnce`: every payment made was opened, is on its way, or lost its answer.

Why the bounds are enough. Two calls are what a race on one row needs; a third
adds no new pair of read and write. Two effects of a kind let a step be repeated
once, which is when a second push, transfer or payout appears. Seven events are a
whole life of a payment, from Quoted to Settled, and
`HasWork` stops only calls that would start after that. Two on-ramp answers tell
a repeated conversion from the first, and the quote amounts (13 all-in, 11 sent, 7
delivered) differ wherever two of them meet in one account, so no two postings
cancel by chance. Payments do not share rows, so one payment is enough, except for
Corridor, where two exercise the frame. `LiveConfirm` is the difference between
the mock custody, which confirms at once, and the EVM and Circle back ends.
For callbacks, two handlers are what an overlap needs, and two other calls what
replaces a checkout id; neither needs the other, and the proofs of section 4 cover
all numbers of both. Five events are more than any order of two initiations can use
up before a callback is applied, and the last delivery that is counted is one that
is not lost before it is marked, because M-Pesa would deliver once more.
Bounds named `Max...` are guards on the environment or on starting work, never on
a call that is under way, except `MaxExternal` and `MaxEffects`: a call whose
effect would exceed them can still throw, so it never hangs. In SendPage one
payment is enough, because each is judged by itself. Two tabs are what a stale view
needs, two requests of a tab what an overtaking answer needs; the demo form needs
three, because a save, a choice and a quote can meet. Two transfers and two
confirmations in four blocks let a transfer of others fall before, between and
after the testbed's balances and stay unconfirmed at its end; the treasury holds
enough for none, one or both. Sums below KES 20 meet every residue of the rounding
many times over; the rest cover the range up to the column's limit and the limit
itself. Deadlock is checked in
EngineRaces, EngineSerial, Gate, Verification and SendPage; in the others the
system really may stop, when every request was made and the queue is empty.

Fairness. Weak fairness of `Take` and `WorkerProgress` for each worker: a BullMQ
worker polls for ever, and a call that has begun goes on. Weak fairness of
`RequestProgress`: so does a request. Nobody has to pay, retry or refund, and no
process has to die; where processes do, `reported` must hold in the end. Where the
code waits for something outside its control (`LiveConfirm`), Repoll shows what
happens. In the browser (`TrackFairness`) the polling timer of every tab
fires again, what is asked is at last served and answered (a lost request counts as
answered, and there are finitely many), and the demo's schedule, which is the clock,
goes on. Nobody has to press a button. In `DeliveryFairness` a callback is delivered
until it is processed, as M-Pesa repeats what is not answered, and a request that
serves one goes on; calls of step beside it may stop anywhere. The other specifications need no fairness.

## 4. Proofs

`PaymentEngineProofs` proves, for any payments, calls, quotes and bounds that
satisfy the named assumptions of PaymentEngine:

* `TypeCorrect`: `Spec => []TypeOK`. `TypeInv` adds to the types that a call
  about to commit a new checkout, transfer or payout holds an id that a row can
  store, which the type of `call` alone does not say.
* `BooksBalance`: `Spec => []LedgerBalanced`. `IsBalanced` of the net amounts is
  not inductive, because `reverseAll` reverses `posted` alone; `SidesBalanced`
  says that posted and reversed sums balance each.
* `LedgerFollows`: `Spec => []LedgerFollowsStatus`. The strengthening has two
  parts. `SnapInv` relates calls to rows: while p is not stale, a call whose
  snapshot has the status of the row has the same amounts and hash as the row,
  and statuses only move up a rank, so a snapshot that is behind cannot catch up.
  `LedgerInv` says more than the balances: until a refund nothing has been reversed,
  so the posted rows alone make up the position, and a reversal of them empties
  every account. `Postings` then shows, leg by leg,
  that each transaction takes the position of one status to that of the next.

`PaymentHistoryProofs` proves, under the same assumptions, what the engine leaves behind:

* `Writes` is what all nine transactions have in common: they change the row, books,
  wallet and events of one payment, and append to its events the edge from the status
  *read* to the status written, or the two edges of a refund (`Moved`).
* `TerminalStays` (`TerminalIsFinal`): no edge leaves a final status, so a transaction
  that meets one has read another and sets `stale`.
* `TrailHolds` (`AuditTrail`): `TrailInv` says that the events are a path that ends at
  the status; what is appended starts at the status read, which is the stored one
  unless the transaction sets `stale`.
* `MoneyFollows` (`OutsideMoneyFollowsRecord`), which holds of stale payments too: what
  happened stays in the events, every status a row has (`StatusRecorded`) or a call
  has read (`ReadRecorded`) is in them, and a partner is called from a status read.
* `WalletFollows` (`WalletFollowsStatus`): a confirmed transfer completes the row of the
  hash that was *read*; `SnapInv` makes that the hash of the row, and `AnsweredOK`
  bounds what an adapter answered to the calls about to commit.

`CorridorProofs` proves `SerialEngineImplements`: `Spec => ImplementsCorridor`, if there
is one call at a time (`OneCall`) and no amount is zero (`AmountsCount`; zero amounts
leave no trace in the accounts from which the mapping reads the place). A single call
never writes from a row that has changed (`SerialInv`), so `LedgerInv` gives every
balance and the place is a function of the status (`PlacesAreFollowed`); every edge of
the graph is then a step of Corridor or a stutter (`EdgeIsStep`). With two calls the
refinement is false: ClaimRefunded shows it.

It also proves, for any finite set of payments, what a reconciliation beside the engine
reports:

* `ReportsBalance`, for any number of calls that overwrite each other: no imbalance is
  named and the balances cancel in every currency. `SidesBalanced` makes the accounts
  of each payment cancel at the moment its query reads them, and the order of summation
  does not matter (`SumOverIsSum`, and the lemmas on sums of PaymentHistoryProofs).
* `ReportsAreClean` (`ReportIsClean`), with one call (`OneCall`) and fees that are not
  negative (`FeesAreCollected`; with a negative fee an account is overdrawn by it): no
  account of held money is overdrawn either, because every position a status stands for
  holds nothing below zero.

`WebhooksProofs` proves, for any number of handlers, drivers, pushes and deliveries:

* `WebhooksTypeCorrect` and `BookingsArePaid` (`BookedMeansPaid`). `CallbacksInv` ties a
  handler's callback to the push that was decided, and its engine call to the handler,
  so only a call that carries a success can book, and a paid push stays paid.
* `PushIsBookedOnce` (`BookedOncePerPaidPush`). A push is spent (`Spent`) when its
  callback is marked and no handler that could still book it has it in hand. While
  handlers of a payment do not overlap, a callback in hand that is not yet marked has
  not been marked by anyone (`AloneInv`), a booking spends one more push, and nothing
  unspends one, so the books hold the price at most once per spent push (`SpentInv`).

`OrchestratorProofs` proves, for any payments, workers, request slots, settings and bounds:

* `TypesOfOrchestrator` (`OrchestratorTypeOK`). Its strengthening `OrchestratorInv` says
  what a slot is doing: a worker holds one job, on the payment of its call, as long as
  the call lasts; a request steps exactly while it has runs of `driveInline` to make, and
  its loop is below the bound between two steps. The `...Puts` lemmas say what the engine
  leaves in a slot (`StepLeaves`, `CommitLeaves`, ...), the `...Keeps` lemmas that each
  action keeps the invariant, so the later proofs never open the engine again.
* `NobodyIsStranded` (`NothingStranded`), if adapters confirm at once (`~LiveConfirm`:
  otherwise Repoll is the counterexample) and the log of a payment stays shorter than the
  loop's bound (`LoopsSuffice`: a loop that stops at `MAX_INLINE_STEPS` does strand a
  payment, so nothing is claimed of one that has made as many transitions; the longest
  path of the status graph has eight). `CarriedInv` names the carrier of
  every payment that must go on: a job in the queue, a call in flight, one that returned
  with more to do or threw, or a request with steps left. Each action that ends a carrier
  hands over to the next or reports. `LoopInv` ties the loop's counter to the events.
* `QuietIsSerial` (`QuietPaymentIsSerial`). An undisturbed payment has at most one token,
  a job or a call with something left to do (`OneToken`), none at all before its first
  drive and while it awaits its callback (`NoToken`), and whoever is in flight has read
  the status the payment still has (`ReadFresh`). The callback finds no token because the
  payment has a checkout id only after its first step is over (`UnaskedInv`), and the
  second run of `driveInline` belongs to a callback (`UncalledInv`).

`SuitesProofs` proves, for any payments, calls, transfers, depths and settings:

* `SoundIsPassed`, `CollectionAndRefundReadWell`, `PassedRefundHasNothingLeft` (the three
  properties of verifyPayment). What the suite has read has happened and cannot be undone,
  so a later query can only find more of it (`ReadInv`): events are appended, and what a
  leg has put on its outer account only grows, since no later leg and no reversal touches
  these postings (`LegsInv`). At rest the four reads are of one state (`FreshInv`). Assumed
  is `QuotesCount`: a payment collects and delivers more than nothing. The schema
  (`schemas.ts:70`) asks only for a positive amount, so a send of a fraction of a shilling
  may be quoted at 0 CNY; the claim is about every payment that is not.
* `ConfirmedHasMoved`, `TestbedIsSound`, `TypesOfTheSuites`. What a block has decided about a
  transfer stays (`ChainInv`, `TransfersKept`), so a confirmation stays true (`FollowInv`).
  For the testbed `ScriptInv` says what has been sent at each of its eleven calls and
  `SoundInv` what its kept balances prove as long as nothing has gone wrong (`Clean`).
* `SumsOfAPaymentAgree` (`SumsAgree`), for every sum sent. `SumsInv` says from which sum each
  one known so far was converted. Dividing by a fixed denominator, the solver bounds what a
  conversion is off by (`Conversions`, `Fees`, `Shillings`), and the stated margins are what
  these halves add up to (`SumsFollow`). That a smaller margin never costs more and that the
  limit of the column is 27809913, no less and no more (`LimitOfColumn`), come from the same
  remainders. That one sum at least is sent is assumed.

`GateProofs` proves, for any number of importers, suppliers, quotes and requests:

* `QuotePaysOnce`: `Spec => []OnePaymentPerQuote`. Needs `DriveInv`: a request
  that is about to drive has its payment in the table, the only such request for
  its quote, and the quote has not been driven.
* `QuoteIsNeverLost`: `Spec => []ConsumedMeansPaid`.
* `GateTypeCorrect` (`GateTypeOK`) and `GatePassed` (`PaymentsPassedTheGate`): `PassInv`
  says that a status "verified" and every request that is past the gate have a
  positive verdict on record; verdicts are only appended and a supplier never changes
  hands, so what was checked still holds at the insert.
* `StatusIsLatest` (`StatusIsLatestVerdict`): runs of an importer that do not overlap
  (`RunsInTurn`) keep the status pending from their start until the last one writes
  the verdict it has recorded.

`BrowserProofs` proves of `BrowserSpec`, for any names, listings, tabs, amounts, scenes and
bounds, every safety property the run SendPage checks. Each part of the browser has its own
invariant. For the send form and the screening beneath it (`SendPageTypeCorrect`,
`StatusEarned`, `DecisionsStand`, `OwnPaid`):

* None of the properties is inductive, because a tab may show any older status and
  its buttons look at nothing else. What makes them hold is `Fits`: no status is
  stored or still shown that the name cannot come to, so a tab that can start a
  screening and one that can decide never concern the same subject (`StoreInv`,
  `ShownInv`), and a decision is only ever made on a flagged name (`DecisionInv`).
* `ShownInv` also says that a tab shows "verified" only for a name that is clean or
  was once approved, which is what the two gates of the form rest on.
* `ProfileFits` is about `getProfile`, `RenderKeeps` about any page that reads and
  renders; the lemmas of the form's actions rest on these two.

For the form that makes a payment:

* `ClicksPayOnce` (`ClickPaysOnce`): the form has at most one payment under way, and is busy
  as long as it has (`PayingInv`); then what was made is counted by what was opened, what
  was lost and that one request.
* `RestingFormsFit` (`RestingFormFits`): at rest nothing is asked, so the invariant has to say
  what is still to come. `SuppliersFit` says of the last request that concerns the
  suppliers that its answer will make supplier and list fit, and that a save is never
  followed by another such request; `QuoteFits` says the same of the last quote, or the
  timer, and the amount. That the demo answers in the order of the calls is why the last
  one decides; over HTTP both are false.

For the pages that follow a payment (`StoppedPagesShowTheEnd`, `TrackersTellTheTruth`, and the
action property `ProgressStays`, which is `ProgressIsKept`):

* `SoundPayments`: what a payment has reached is the beginning of the happy path up to its
  status, or up to the point where it left it (`Shape`). Every call of the demo client,
  every step of its schedule and every move of the API keeps that and only adds to what
  was reached, nothing once it is over (`CalledIsLater`, `ApiMoveIsLater`).
* `TrackInv`: what a tab shows, and what each waiting request was answered, is a payment that
  is `Later`-before the one there is; in the demo the answers that wait are ordered in the
  same way, and one that shows an end brings the ledger of the end. What a page says of a
  part of the path is then true of the whole (`WhatWasShown`), and the order of the answers
  gives `LaterShowsMore`. For the words of a tracker, `CollectedInv` adds that outside the
  demo a payment in its refund was collected, and `WordsOfMilestones` and `WordsOfTrackers`
  say at which statuses each class of words appears.

`TypesOfBrowser` (`BrowserTypeOK`) follows from these. Assumed are the named assumptions of
the modules: importers and suppliers are different subjects, each tab shows one page, every
list the API may start with holds exactly the suppliers that have an owner, and a form for
new payments has room for its first request.

Sums over finite sets are needed for reports, and the library's induction theorems cannot
be instantiated, so PaymentHistoryProofs proves induction over finite sets from the least
element of a set of numbers (`LeastNat`, `SetInduction`, `SubsetInduction`) and with it
that a fold over a set is a sum (`SumOfSet`).

Only model-checked: the liveness properties (`FundedComesToAnEnd`, `PaidIsBookedOrWasted`,
`PagesReachTheEnd`), which stay with TLC for good: TLAPS has no fairness reasoning and no
ENABLED.

## 5. Not modelled

* `handleCircle` stores its payload under a random key and calls nothing.
* Back-off times, HTTP payloads, tokens, memos and messages: nothing the
  properties tell apart depends on them.
* Health checks and probes of adapters other than custody: calls whose answer
  nothing keeps.
* Of the demo client: `submitKyc`, which no page calls, and the answers that are
  always the same (health, probes, verification, reconciliation). Its ledger is
  the list of what was booked, not sums: at OnRamped it books USDC against USD
  (`mock-client.ts:218-222`), so it does not balance per currency, and the
  constant "balanced" it reports is not computed from it.
* Of the send page: the timer of the live quote (the same lines of the form for new
  payments are modelled) and the preference of `settlement.ts` in localStorage.
* The stage playbook, the types of the diagnostics, and the seeded series of
  `fx.ts`: constants and a chart.
* Home pages, lists, layout, NestJS wiring, the other scripts, the mobile scaffold.
* The risk tier: `resolve` computes it and decides without it, although
  `compliance.ts:8-10` makes "verified" depend on all four layers.
* README.md:30 says that a transition "is gated by a deterministic stage verifier
  before it commits". The engine calls no verifier; the suite runs when asked, and
  that is how Verification has it.
* Hazards without a property, each with its reason in `PROJECT.json`: a refund after
  the payout was ordered; a payment committed but never driven; a rate used after its
  expiry; the order of the send page's quotes over HTTP; an importer left pending by a
  KYC provider that threw; a transfer that Circle failed and that is reported as pending
  for ever.
* Hazards that a property names as its exception, so that it shows only that nothing else
  breaks it: a status overwritten unread (`stale`), a retry that overtakes a callback
  (`ConsoleRaced`), KYC runs that overlap, a payment whose answer was lost. The notes in
  `PROJECT.json` say what covers the case itself, if anything does.

Observed, and allowed by the properties as exceptions they name:

* The importer's first milestone reads "Paid via M-Pesa" for every status but Quoted and
  AwaitingFunding (`milestones.ts:63`), and the tracker shows it whatever the milestone's
  state (`tracker.tsx:50`). A payment that failed with nothing collected shows it below
  the banner "No money left your account" (`importer/payments/[id]/page.tsx:93-94`),
  although `milestones.ts:54` leaves failed payments to that banner. With the first
  disjunct of `EndedUnpaid` taken away, SendPage finds it: AwaitingFunding, Failed, opened.
* The demo refunds a payment that was never funded (`mock-client.ts:503-515`), and the
  pages then say that it was paid and that the shillings are on their way back. The API
  marks such a payment Failed. The second disjunct of `EndedUnpaid` is this case.

Observations that contradict no text of the repository, so they are no findings:

* The summary of the send page charges the margin of the chosen settlement (70 basis
  points for its default), while the payment it makes is quoted at 120 (`Summary`,
  `SumsAgree`).
* Over HTTP the form for new payments takes the last of a list that is sorted newest
  first (`customers.service.ts:62`) for the supplier it has just saved, and a late list
  or quote may replace a newer one. `RestingFormFits` fails there.
* `probe` of the custody adapter moves 10 USDC each time and passes whatever
  `confirm` answers.

## 6. Findings

* **ClaimRefunded.** Two compensations of one payment (a manual refund while a
  step fails) both reverse every posting: a Refunded payment with accounts at
  minus their balance. `verification.service.ts:159` says every account nets to
  zero; the suite itself does notice (`PassedRefundIsEmpty`).
* **ClaimIdempotent.** A process that dies between `custody.send` and its
  transaction leaves OnRamped behind, and the next step sends again. README.md:28
  calls transitions safe to replay.
* **Repoll.** "Stay in Bridging; caller will re-poll" (`engine:223`): no caller
  does. The worker adds no job for a waiting step and the inline loop ends.
* **WebhookDoubleBooking.** Two deliveries of one callback both pass the look-up
  before either marks it, and the collection is booked twice;
  `webhooks.service.ts:17` says "idempotent + deduped".
* **SendGate.** The form keeps its supplier when the sidebar changes the importer;
  its gate then sees no supplier and counts that as cleared, while the select shows
  another one. In the demo the payment goes out (`send/page.tsx:57-62`).

## 7. Plan

Done: every module of section 2 and the proofs of section 4. Left: the order of the send
page's quotes over HTTP, and a refund after the payout was ordered, as properties of their
own; and the modules that are still partly modelled (`PROJECT.json`, "components").
