----------------------------- MODULE PaymentPages -----------------------------
(***************************************************************************)
(* The pages that follow one payment: app/payments/[id]/page.tsx for       *)
(* operations, with its stepper and its buttons, and the trackers of the   *)
(* importer and of the exporter.  Each is a tab that asks for the payment, *)
(* shows the answer, and asks again on a timer while what it shows is in   *)
(* flight.  The demo client answers at once, in the order of the calls;    *)
(* over HTTP requests are served at any time, answers arrive in any order  *)
(* and some are lost, and the API moves the payment along its graph.       *)
(***************************************************************************)
EXTENDS Milestones, FiniteSets, SequencesExt

CONSTANTS
  OpsTabs,       \* payments/[id]/page.tsx
  ImporterTabs,  \* importer/payments/[id]/page.tsx
  ExporterTabs,  \* exporter/payments/[id]/page.tsx
  MaxLost        \* requests that fail over HTTP

Tabs == OpsTabs \union ImporterTabs \union ExporterTabs

ASSUME PaymentPagesAssumption == MaxLost \in Nat

VARIABLES
  record,   \* the payment, in localStorage or behind the API
  rendered, \* per tab: the payment and the ledger that it renders
  waiting,  \* per tab: its requests, in the order they were made
  lost      \* requests that failed

trackVars == <<record, rendered, waiting, lost>>

Unread == [status |-> "none", reached |-> {}]
UnreadLedger == {"unread"}

\* strip: the payment as the pages see it.
View(p) == [status |-> p.status, reached |-> Reached(p)]

Views == [status : PAYMENT_STATUSES, reached : SUBSET PAYMENT_STATUSES] \union {Unread}

Bookings == {"Funded", "OnRamped", "Bridged", "Settled", "Refunded"}

\* A request: the call; whether the tab's buttons are off until it is answered; and
\* what the answer is, once the call, and for a load the ledger, has been served.
Request(call, busy) ==
  [call |-> call, busy |-> busy, payment |-> Unread, ledger |-> UnreadLedger]

Busy(t) == \E i \in DOMAIN waiting[t] : waiting[t][i].busy

\* The cards of the importer's tracker that are there for some statuses only: its
\* two banners and the receipt; and those of the exporter's.
ImporterCards(status) ==
  {card \in {"No money left your account", "refunded you in full", "Supplier paid"} :
     CASE card = "No money left your account" -> status = "Failed"
       [] card = "refunded you in full" -> IsRefundFlow(status)
       [] card = "Supplier paid" -> status = "Settled"}

ExporterCards(status) ==
  {card \in {"was returned to the buyer", "Nothing was paid out to you",
             "Paid out to your account"} :
     CASE card \in {"was returned to the buyer", "Nothing was paid out to you"} ->
            status = "Failed" \/ IsRefundFlow(status)
       [] card = "Paid out to your account" -> status = "Settled"}

\* Faulty variant of the next: a refund is taken for an end.
InFlightForward(t) ==
  rendered[t].payment # Unread /\ ~IsTerminal(rendered[t].payment.status)
    /\ ~IsRefundFlow(rendered[t].payment.status)

\* The effect that sets the timer: a payment is rendered and is not over.
InFlight(t) == rendered[t].payment # Unread /\ ~IsTerminal(rendered[t].payment.status)

\* load of the operations page waits for both answers; the trackers read no ledger.
ReadsLedger(t, r) == t \in OpsTabs /\ r.call = "getPayment"

Answered(t, r) == r.payment # Unread /\ (ReadsLedger(t, r) => r.ledger # UnreadLedger)

\* Faulty variant of the next: getLedger does not bring the payment up to date.
ServedStaleLedger(t, r, p) ==
  [r EXCEPT !.payment = View(Called(r.call, p)),
            !.ledger = IF ReadsLedger(t, r) THEN LedgerFor(p) ELSE @]

\* Both reads of the demo client, which run before anything else does.
Served(t, r, p) ==
  LET now == Called(r.call, p)
  IN [r EXCEPT !.payment = View(now),
               !.ledger = IF ReadsLedger(t, r) THEN LedgerFor(now) ELSE @]

\* A tab makes a request.
Ask(t, r, before) ==
  /\ Len(before) < scene.ahead
  /\ IF http
     THEN /\ waiting' = [waiting EXCEPT ![t] = Append(before, r)]
          /\ UNCHANGED record
     ELSE /\ waiting' = [waiting EXCEPT ![t] = Append(before, Served(t, r, record))]
          /\ record' = Called(r.call, record)

\* The page is opened, or opened again: load.  Nothing is left of the page before.
Open(t) ==
  /\ t \in scene.open
  /\ Ask(t, Request("getPayment", FALSE), <<>>)
  /\ rendered' = [rendered EXCEPT ![t] = [payment |-> Unread, ledger |-> UnreadLedger]]
  /\ UNCHANGED lost

\* The timer of 1500 ms, which is set while the payment rendered is in flight.
PollPayment(t) ==
  /\ InFlight(t)
  /\ Ask(t, Request("getPayment", FALSE), waiting[t])
  /\ UNCHANGED <<rendered, lost>>

\* The buttons of the operations page, and that of its stepper, which funds too.
Buttons(view) ==
  IF view = Unread \/ IsTerminal(view.status) THEN {}
  ELSE {"retryPayment", "refundPayment"} \union
       {c \in {"simulateFunding"} : StepState(view, "AwaitingFunding") = "current"}

\* act: a button is pressed.
Act(t, call) ==
  /\ t \in OpsTabs /\ ~Busy(t)
  /\ call \in Buttons(rendered[t].payment)
  /\ Ask(t, Request(call, TRUE), waiting[t])
  /\ UNCHANGED <<rendered, lost>>

\* confirm of the importer's tracker, under the first milestone.
Confirm(t) ==
  /\ t \in ImporterTabs /\ rendered[t].payment # Unread /\ ~Busy(t)
  /\ Actionable(rendered[t].payment.status, "importer", 0)
  /\ Ask(t, Request("simulateFunding", TRUE), waiting[t])
  /\ UNCHANGED <<rendered, lost>>

\* Over HTTP: the API serves a call on the payment, or a reading of its ledger.
\* What the call changes there is a step of the API.
Serve(t, i) ==
  /\ http /\ i \in DOMAIN waiting[t]
  /\ \/ /\ waiting[t][i].payment = Unread
        /\ waiting' = [waiting EXCEPT ![t][i].payment = View(record)]
     \/ /\ ReadsLedger(t, waiting[t][i]) /\ waiting[t][i].ledger = UnreadLedger
        /\ waiting' = [waiting EXCEPT ![t][i].ledger = LedgerFor(record)]
  /\ UNCHANGED <<record, rendered, lost>>

\* An answer arrives.  A load is rendered, all of it; after a button's call the tab
\* loads again, and its buttons stay off until that is rendered.
Answer(t, i) ==
  /\ i \in DOMAIN waiting[t] /\ (~http => i = 1)
  /\ Answered(t, waiting[t][i])
  /\ LET r == waiting[t][i]
         rest == RemoveAt(waiting[t], i)
     IN IF r.call = "getPayment"
        THEN /\ rendered' = [rendered EXCEPT ![t] =
                            [payment |-> r.payment, ledger |-> r.ledger]]
             /\ waiting' = [waiting EXCEPT ![t] = rest]
             /\ UNCHANGED record
        ELSE Ask(t, Request("getPayment", TRUE), rest) /\ UNCHANGED rendered
  /\ UNCHANGED lost

\* A request fails.  A failed poll is dropped without a word, any other is reported.
Lose(t, i) ==
  /\ http /\ i \in DOMAIN waiting[t] /\ lost < MaxLost
  /\ waiting' = [waiting EXCEPT ![t] = RemoveAt(@, i)]
  /\ lost' = lost + 1
  /\ UNCHANGED <<record, rendered>>

\* Faulty variant of the next: the schedule does not stop at its last stage.
ScheduleMovesOn ==
  /\ ~http /\ record.steps # Unset
  /\ record' = [record EXCEPT !.steps = @ + 1]
  /\ UNCHANGED <<rendered, waiting, lost>>

\* A step of the schedule passes (STEP_MS).
ScheduleMoves ==
  /\ ~http /\ record.steps # Unset /\ record.steps < Len(STAGES_AFTER_FUNDED)
  /\ record' = [record EXCEPT !.steps = @ + 1]
  /\ UNCHANGED <<rendered, waiting, lost>>

\* The API moves the payment.
ApiMoves ==
  /\ http
  /\ \E to \in TRANSITIONS[record.status] : record' = ApplyStage(record, to)
  /\ UNCHANGED <<rendered, waiting, lost>>

TrackInit ==
  /\ record \in IF http THEN {MakePayment("AwaitingFunding")} ELSE Seed
  /\ rendered = [t \in Tabs |-> [payment |-> Unread, ledger |-> UnreadLedger]]
  /\ waiting = [t \in Tabs |-> <<>>]
  /\ lost = 0

TrackNext ==
  \/ \E t \in Tabs :
       \/ Open(t) \/ PollPayment(t) \/ Confirm(t)
       \/ \E call \in Calls \ {"getPayment"} : Act(t, call)
       \/ \E i \in 1 .. scene.ahead : Serve(t, i) \/ Answer(t, i) \/ Lose(t, i)
  \/ ScheduleMoves \/ ApiMoves

(***************************************************************************)
(* Fairness: timers fire, and what is asked is served and answered.        *)
(***************************************************************************)
TrackFairness ==
  /\ WF_trackVars(ScheduleMoves)
  /\ \A t \in Tabs :
       /\ WF_trackVars(PollPayment(t))
       /\ WF_trackVars(\E i \in 1 .. scene.ahead : Serve(t, i))
       /\ WF_trackVars(\E i \in 1 .. scene.ahead : Answer(t, i))

(***************************************************************************)
(* Properties                                                              *)
(***************************************************************************)
TrackTypeOK ==
  /\ record \in DemoPayments
  /\ \A t \in Tabs :
       /\ rendered[t].payment \in Views /\ rendered[t].ledger \in {UnreadLedger} \union SUBSET Bookings
       /\ Len(waiting[t]) <= scene.ahead
       /\ \A i \in DOMAIN waiting[t] :
            /\ waiting[t][i].call \in Calls /\ waiting[t][i].busy \in BOOLEAN
            /\ waiting[t][i].payment \in Views
            /\ waiting[t][i].ledger \in {UnreadLedger} \union SUBSET Bookings
  /\ lost \in 0 .. MaxLost

\* A page asks no more once it shows a payment that is over.  From then on it shows
\* the payment as it is, and in the demo its ledger as it is, although buttons,
\* timers and the schedule of other tabs went on between its last call and then.
StoppedPagesAreFinal ==
  \A t \in Tabs :
    rendered[t].payment # Unread /\ ~InFlight(t) /\ waiting[t] = <<>> =>
      /\ rendered[t].payment = View(record)
      /\ ~http /\ t \in OpsTabs => rendered[t].ledger = LedgerFor(record)

\* What the page of a tracker says of the status it renders: in its pill, in its cards
\* and under its milestones.
Says(t) ==
  LET status == rendered[t].payment.status
  IN IF t \in ImporterTabs
     THEN {CustomerStatus(status, "importer")} \union ImporterCards(status)
            \union MilestoneWords(status, "importer")
     ELSE {CustomerStatus(status, "exporter")} \union ExporterCards(status)
            \union MilestoneWords(status, "exporter")

\* What the words mean for the payment.
OfDelivery == {"Paid", "Supplier paid", "Delivered to your supplier", "Received",
               "Paid out to your account"}
OfReturn == {"Refunded", "refunded you in full", "Returned to buyer", "was returned to the buyer"}
OfNoDelivery == OfReturn \union {"Nothing was paid out to you"}
OfCollection == OfReturn \union
  {"Paid via M-Pesa", "Payment received", "We've got your shillings", "Buyer paid",
   "Funds collected from your buyer"}
OfNoCollection == {"Failed", "No money left your account", "Cancelled"}

\* Ended with nothing collected: the texts do not tell this from a payment that was paid.
EndedUnpaid ==
  /\ "Funded" \notin LedgerFor(record)
  /\ record.status = "Failed" \/ (~http /\ IsRefundFlow(record.status))

\* What the trackers say, at any moment, although what they render may be old: that the
\* supplier was paid, or was not, that nothing was collected from the importer, or that
\* something was.  Only of the last is it not always so: the pages speak of money paid
\* or returned also when a payment failed, "Paid via M-Pesa" beside "No money left your
\* account", and, in the demo, when one was refunded that nobody had paid.  There is no
\* third such case.
PagesTellTheTruth ==
  \A t \in ImporterTabs \union ExporterTabs :
    rendered[t].payment # Unread =>
      /\ Says(t) \intersect OfDelivery # {} => "Settled" \in LedgerFor(record)
      /\ Says(t) \intersect OfNoDelivery # {} => "Settled" \notin LedgerFor(record)
      /\ Says(t) \intersect OfNoCollection # {} => "Funded" \notin LedgerFor(record)
      /\ Says(t) \intersect OfCollection # {} => "Funded" \in LedgerFor(record) \/ EndedUnpaid

DoneSteps(view) == {s \in Range(HAPPY_PATH) : StepState(view, s) = "done"}

DoneMilestones(view) == {i \in 0 .. 3 : Milestone(view.status, i) = "done"}

\* In the demo no page ever takes back progress it has rendered: a finished step stays
\* finished, a finished milestone too unless the page shows the money coming back.
ProgressIsKept ==
  [][~http => \A t \in Tabs :
       Unread \notin {rendered[t].payment, rendered'[t].payment} =>
         /\ DoneSteps(rendered[t].payment) \subseteq DoneSteps(rendered'[t].payment)
         /\ \/ IsRefundFlow(rendered'[t].payment.status)
            \/ DoneMilestones(rendered[t].payment) \subseteq DoneMilestones(rendered'[t].payment)
    ]_trackVars

\* How every page ends that has rendered anything: with the payment as it ended, and
\* nothing more to come.
PagesAtTheEnd ==
  /\ IsTerminal(record.status)
  /\ \A t \in Tabs :
       rendered[t].payment # Unread => rendered[t].payment = View(record) /\ waiting[t] = <<>>

\* Once a payment is over, every page that shows anything comes to show how it ended,
\* however late or lost some answers are.  In the demo a funded payment does end if
\* a page shows it, since it is the pages that move it.
PagesReachTheEnd ==
  (/\ \E t \in Tabs : rendered[t].payment # Unread
   /\ IsTerminal(record.status) \/ (~http /\ record.steps # Unset))
  ~> PagesAtTheEnd

=============================================================================
