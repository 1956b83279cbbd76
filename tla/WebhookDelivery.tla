--------------------------- MODULE WebhookDelivery ---------------------------
(***************************************************************************)
(* What handleMpesaStk makes of a callback in the end, when M-Pesa goes on *)
(* delivering it until it has been processed.  The code marks a callback   *)
(* before it applies it, so a delivery may use it up without booking the   *)
(* money; this module records, for each push, every way in which that      *)
(* happens, and shows that there are no others.                            *)
(***************************************************************************)
EXTENDS Webhooks

CONSTANT Settings  \* bound: the slots in use, and the deliveries of a callback

ASSUME SettingsAssumption ==
  Settings \subseteq [slots : SUBSET Calls, deliveries : 1..MaxDeliveries]

VARIABLES
  setting,  \* one of Settings, chosen at the start
  wasted    \* history: wasted[p][k], how deliveries used the callback up in vain

deliveryVars == <<webhookVars, setting, wasted>>

DeliveryInit ==
  /\ WebhooksInit
  /\ setting \in Settings
  /\ wasted = [p \in Payments |-> [k \in Checkouts |-> {}]]

\* The ways: no payment had this checkout id ("unmatched"); the payment did not await
\* funding; the transaction failed and threw; the process died after the mark.
Waste(h, if, way) ==
  wasted' = [wasted EXCEPT ![handler[h].on][handler[h].checkout] =
               IF if THEN @ \union {way} ELSE @]

\* The transaction of a handler commits, or fails and throws to M-Pesa.
Apply(h) == Work(h) /\ UNCHANGED webhooks /\ Waste(h, call'[h].result = "threw", "threw")

\* Bound: the last delivery that is counted does not die before it is marked, for
\* M-Pesa would deliver again.
Dies(h) ==
  /\ HandlerDies(h)
  /\ handler[h].at = "unseen" =>
       deliveries[handler[h].on][handler[h].checkout] < setting.deliveries
  /\ Waste(h, handler[h].at # "unseen", "died")

HandlerGoesOn(h) ==
  \/ /\ Mark(h) \/ FindPayment(h) \/ Respond(h)
     /\ UNCHANGED wasted
  \/ /\ NoPayment(h)
     /\ Waste(h, TRUE, "unmatched")
  \/ /\ OnFunding(h)
     /\ Waste(h, call'[h].pc = "returned", "not_awaiting")
  \/ Apply(h)

Deliver(p, k) ==
  /\ deliveries[p][k] < setting.deliveries
  /\ \E h \in Handlers \intersect setting.slots : Receive(h, p, k)
  /\ UNCHANGED wasted

DeliveryNext ==
  /\ \/ \E p \in Payments, k \in Checkouts :
          \/ \E outcome \in {"paid", "declined"} : Decide(p, k, outcome) /\ UNCHANGED wasted
          \/ Deliver(p, k)
     \/ \E h \in Handlers : HandlerGoesOn(h) \/ Dies(h)
     \/ \E d \in Drivers \intersect setting.slots :
          (Drive(d) \/ (Work(d) /\ UNCHANGED webhooks)) /\ UNCHANGED wasted
  /\ UNCHANGED setting

\* M-Pesa delivers a callback until it is answered, and a request that is being
\* handled goes on.  Nothing is assumed of the calls of step beside it.
DeliveryFairness ==
  /\ \A p \in Payments, k \in Checkouts : WF_deliveryVars(Deliver(p, k) /\ UNCHANGED setting)
  /\ \A h \in Handlers : WF_deliveryVars(HandlerGoesOn(h) /\ UNCHANGED setting)

DeliverySpec == DeliveryInit /\ [][DeliveryNext]_deliveryVars /\ DeliveryFairness

(***************************************************************************)
(* Properties                                                              *)
(***************************************************************************)

IsBooked(p) == ledger[p].posted["importer_external"] # 0

\* What an importer pays is booked in the end, unless a delivery of its callback
\* used it up in one of the four ways: no payment is lost in another way, in
\* whatever order callbacks, their repetitions and calls of step run.
PaidIsBookedOrWasted ==
  \A p \in Payments, k \in Checkouts :
    push[p][k] = "paid" ~> (IsBooked(p) \/ wasted[p][k] # {})

=============================================================================
