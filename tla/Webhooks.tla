------------------------------ MODULE Webhooks ------------------------------
(***************************************************************************)
(* apps/api/src/webhooks/webhooks.service.ts, handleMpesaStk, with the     *)
(* engine behind it and M-Pesa in front of it.  A handler awaits three     *)
(* times before it reaches the engine: it looks the callback up, marks it  *)
(* processed, and looks for the payment.                                   *)
(*                                                                         *)
(* M-Pesa is external: every STK push is in the end paid or declined, and  *)
(* from then on its callback may be delivered any number of times, before  *)
(* the API has stored the checkout id as well as after.                    *)
(***************************************************************************)
EXTENDS PaymentEngine, FiniteSets

CONSTANTS
  Handlers,      \* slots for webhook requests
  Drivers,       \* slots for calls of step, by workers or requests
  MaxDeliveries  \* bound: deliveries of one callback that find it unprocessed

ASSUME HandlerAssumption ==
  /\ Calls = Handlers \union Drivers /\ Handlers \intersect Drivers = {}
  /\ MaxDeliveries \in Nat

VARIABLES
  push,       \* push[p][k]: what became of the k-th STK push of p
  processed,  \* processed[p]: checkout ids whose WebhookEvent has processedAt set
  handler,    \* where each webhook request is, and with which callback
  overlap,    \* history: two handlers had callbacks of p in hand at once
  deliveries  \* deliveries[p][k]: handlers that found the callback unprocessed

webhooks == <<push, processed, handler, overlap, deliveries>>
webhookVars == <<vars, webhooks>>

Checkouts == 1..MaxExternal

HandlerState == [at : {"free", "unseen", "marked", "engine"}, on : Payments,
                 checkout : Ids, success : BOOLEAN]

FreeHandler(p) == [at |-> "free", on |-> p, checkout |-> 0, success |-> FALSE]

WebhooksInit ==
  /\ Init
  /\ push = [p \in Payments |-> [k \in Checkouts |-> "open"]]
  /\ processed = [p \in Payments |-> {}]
  /\ \E p \in Payments : handler = [h \in Handlers |-> FreeHandler(p)]
  /\ overlap = [p \in Payments |-> FALSE]
  /\ deliveries = [p \in Payments |-> [k \in Checkouts |-> 0]]

\* The importer answers the prompt of a push that was sent.
Decide(p, k, outcome) ==
  /\ k <= ext[p]["stkPush"] /\ push[p][k] = "open"
  /\ push' = [push EXCEPT ![p][k] = outcome]
  /\ UNCHANGED <<vars, processed, handler, overlap, deliveries>>

\* Faulty variant of the next: deduped by payment, not by checkout id.
ReceiveFirst(h, p, k) ==
  /\ handler[h].at = "free" /\ push[p][k] # "open"
  /\ processed[p] = {} /\ deliveries[p][k] < MaxDeliveries
  /\ handler' = [handler EXCEPT ![h] = [at |-> "unseen", on |-> p, checkout |-> k,
                                        success |-> push[p][k] = "paid"]]
  /\ deliveries' = [deliveries EXCEPT ![p][k] = @ + 1]
  /\ overlap' = [overlap EXCEPT ![p] =
        @ \/ \E g \in Handlers : handler[g].at # "free" /\ handler[g].on = p]
  /\ UNCHANGED <<vars, push, processed>>

\* A callback that has not been processed comes in; a processed one is answered
\* "Duplicate ignored" and changes nothing.
Receive(h, p, k) ==
  /\ handler[h].at = "free" /\ push[p][k] # "open"
  /\ k \notin processed[p] /\ deliveries[p][k] < MaxDeliveries
  /\ handler' = [handler EXCEPT ![h] = [at |-> "unseen", on |-> p, checkout |-> k,
                                        success |-> push[p][k] = "paid"]]
  /\ deliveries' = [deliveries EXCEPT ![p][k] = @ + 1]
  /\ overlap' = [overlap EXCEPT ![p] =
        @ \/ \E g \in Handlers : handler[g].at # "free" /\ handler[g].on = p]
  /\ UNCHANGED <<vars, push, processed>>

\* The upsert: processedAt is set whatever happens next.
Mark(h) ==
  /\ handler[h].at = "unseen"
  /\ processed' = [processed EXCEPT ![handler[h].on] = @ \union {handler[h].checkout}]
  /\ handler' = [handler EXCEPT ![h].at = "marked"]
  /\ UNCHANGED <<vars, push, overlap, deliveries>>

\* The payment is found by its current checkout id, and onFunding called.
FindPayment(h) ==
  /\ handler[h].at = "marked"
  /\ pay[handler[h].on].mpesaCheckoutId = handler[h].checkout
  /\ handler' = [handler EXCEPT ![h].at = "engine"]
  /\ UNCHANGED <<vars, push, processed, overlap, deliveries>>

\* "Accepted (no matching payment)".
NoPayment(h) ==
  /\ handler[h].at = "marked"
  /\ pay[handler[h].on].mpesaCheckoutId # handler[h].checkout
  /\ handler' = [handler EXCEPT ![h] = FreeHandler(@.on)]
  /\ UNCHANGED <<vars, push, processed, overlap, deliveries>>

OnFunding(h) ==
  /\ handler[h].at = "engine" /\ call[h].pc = "idle"
  /\ ApplyFunding(h, handler[h].on, handler[h].success)
  /\ UNCHANGED webhooks

Respond(h) ==
  /\ handler[h].at = "engine" /\ Return(h)
  /\ handler' = [handler EXCEPT ![h] = FreeHandler(@.on)]
  /\ UNCHANGED <<push, processed, overlap, deliveries>>

\* Requests other than webhooks.
Drive(d) ==
  /\ \/ \E p \in Payments : Step(d, p) \/ RefundRequest(d, p)
     \/ Return(d)
     \/ Crash(d)
  /\ UNCHANGED webhooks

HandlerDies(h) ==
  /\ handler[h].at # "free"
  /\ handler' = [handler EXCEPT ![h] = FreeHandler(@.on)]
  /\ Forget(h)
  /\ UNCHANGED <<rows, ext, push, processed, overlap, deliveries>>

WebhooksNext ==
  \/ \E p \in Payments, k \in Checkouts :
       \/ \E outcome \in {"paid", "declined"} : Decide(p, k, outcome)
       \/ \E h \in Handlers : Receive(h, p, k)
  \/ \E h \in Handlers :
       Mark(h) \/ FindPayment(h) \/ NoPayment(h) \/ OnFunding(h) \/ Respond(h) \/ HandlerDies(h)
  \/ \E d \in Drivers : Drive(d)
  \/ \E c \in Calls : Work(c) /\ UNCHANGED webhooks

WebhooksSpec == WebhooksInit /\ [][WebhooksNext]_webhookVars

(***************************************************************************)
(* Properties                                                              *)
(***************************************************************************)
WebhooksTypeOK ==
  /\ TypeOK
  /\ push \in [Payments -> [Checkouts -> {"open", "paid", "declined"}]]
  /\ processed \in [Payments -> SUBSET Checkouts]
  /\ handler \in [Handlers -> HandlerState]
  /\ overlap \in [Payments -> BOOLEAN]
  /\ deliveries \in [Payments -> [Checkouts -> 0..MaxDeliveries]]

PaidPushes(p) == {k \in Checkouts : push[p][k] = "paid"}

\* However callbacks are delayed, repeated and interleaved with other calls,
\* KES are booked as collected only for a payment whose importer has paid.
BookedMeansPaid ==
  \A p \in Payments :
    ledger[p].posted["importer_external"] # 0 => PaidPushes(p) # {}

BookedAtMostPaid(p) ==
  -ledger[p].posted["importer_external"]
    <= Quote[p].allInMinorKes * Cardinality(PaidPushes(p))

\* A paid push is booked at most once, however often its callback is delivered,
\* also when calls of step overwrite the status or the checkout id: handlers of
\* the same payment that run one after the other never book it again.
BookedOncePerPaidPush == \A p \in Payments : ~overlap[p] => BookedAtMostPaid(p)

\* webhooks.service.ts: "Handle an inbound M-Pesa STK callback (idempotent +
\* deduped)."  The same, also for handlers that run at the same time.
CallbacksAreDeduped == \A p \in Payments : BookedAtMostPaid(p)

=============================================================================
