------------------------------ MODULE Milestones ------------------------------
(***************************************************************************)
(* What the pages make of a status: the four milestones and the status     *)
(* line for customers (apps/web/lib/milestones.ts, tracker.tsx) and the    *)
(* eight steps for operations (pipeline-stepper.tsx).                      *)
(***************************************************************************)
EXTENDS DemoClient

MILESTONE_INDEX ==
  [Quoted |-> 0, AwaitingFunding |-> 0, Funded |-> 1, OnRamped |-> 2, Bridging |-> 2,
   Bridged |-> 2, PayingOut |-> 2, Settled |-> 3,
   Failed |-> Unset, Refunding |-> Unset, Refunded |-> Unset]

\* The state of milestone i, 0 .. 3.
Milestone(status, i) ==
  LET current == MILESTONE_INDEX[status]
  IN IF status = "Settled" \/ i < current THEN "done"
     ELSE IF i = current THEN "current" ELSE "upcoming"

\* The label of each milestone and the text under it.
LABELS ==
  [importer |->
     <<[label |-> "Confirm & pay", sub |-> "Approve the payment with M-Pesa"],
       [label |-> "Payment received", sub |-> "We've got your shillings"],
       [label |-> "On its way", sub |-> "Converting and sending to your supplier"],
       [label |-> "Supplier paid", sub |-> "Delivered to your supplier"]>>,
   exporter |->
     <<[label |-> "Buyer confirming", sub |-> "Your buyer is approving the payment"],
       [label |-> "Buyer paid", sub |-> "Funds collected from your buyer"],
       [label |-> "In transit", sub |-> "On its way to your account"],
       [label |-> "Received", sub |-> "Paid out to your account"]>>]

\* The text under milestone i.  That of the importer's first goes by the status alone,
\* whatever the state of the milestone: also when the payment has failed.
MilestoneSub(status, perspective, i) ==
  IF i = 0 /\ perspective = "importer"
  THEN CASE status = "Quoted" -> "Preparing your quote"
         [] status = "AwaitingFunding" -> "Approve the M-Pesa prompt on your phone"
         [] OTHER -> "Paid via M-Pesa"
  ELSE LABELS[perspective][i + 1].sub

\* What the tracker says of the payment.  A milestone to come only names a step, but a
\* text that is chosen by the status speaks of the payment.
MilestoneWords(status, perspective) ==
  LET said == {i \in 0 .. 3 : \/ Milestone(status, i) # "upcoming"
                              \/ i = 0 /\ perspective = "importer"}
  IN {LABELS[perspective][i + 1].label : i \in said}
       \union {MilestoneSub(status, perspective, i) : i \in said}

\* The button of the tracker.
Actionable(status, perspective, i) ==
  perspective = "importer" /\ status = "AwaitingFunding" /\ i = 0

IsRefundFlow(status) == status \in {"Refunding", "Refunded"}

CustomerStatus(status, perspective) ==
  LET label(importer, exporter) == IF perspective = "importer" THEN importer ELSE exporter
  IN CASE status = "Settled" -> label("Paid", "Received")
       [] status = "Failed" -> label("Failed", "Cancelled")
       [] IsRefundFlow(status) -> label("Refunded", "Returned to buyer")
       [] status = "Quoted" -> label("Preparing", "Pending")
       [] status = "AwaitingFunding" -> label("Action needed", "Pending")
       [] OTHER -> label("In progress", "On its way")

\* Faulty variant of the next: the events are not asked on the way back.
StepStateByIndex(view, stage) ==
  IF stage = view.status THEN IF IsTerminal(stage) THEN "done" ELSE "current"
  ELSE IF IndexOf(stage) < IndexOf(view.status) THEN "done" ELSE "upcoming"

\* The state of a step, for the payment shown: by its place on the happy path, and
\* off the happy path by whether an event led to it.
StepState(view, stage) ==
  LET currentIndex == IndexOf(view.status)
  IN IF stage = view.status THEN IF IsTerminal(stage) THEN "done" ELSE "current"
     ELSE IF currentIndex > 0
          THEN IF IndexOf(stage) < currentIndex THEN "done" ELSE "upcoming"
     ELSE IF stage \in view.reached THEN "done" ELSE "upcoming"

=============================================================================
