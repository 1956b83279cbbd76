--------------------------- MODULE WebhooksProofs ---------------------------
(***************************************************************************)
(* Theorems of Webhooks, for every set of payments, handlers and drivers,  *)
(* every quote and every bound: what M-Pesa callbacks book as collected is *)
(* what importers have paid.                                               *)
(***************************************************************************)
EXTENDS Webhooks, PaymentEngineProofs, FiniteSetTheorems

USE HandlerAssumption

(***************************************************************************)
(* Type correctness, on top of that of the engine.  A callback that is in  *)
(* hand has a checkout id that is not null.                                *)
(***************************************************************************)
WebhooksTypes ==
  /\ push \in [Payments -> [Checkouts -> {"open", "paid", "declined"}]]
  /\ processed \in [Payments -> SUBSET Checkouts]
  /\ handler \in [Handlers -> HandlerState]
  /\ overlap \in [Payments -> BOOLEAN]
  /\ deliveries \in [Payments -> [Checkouts -> 0..MaxDeliveries]]
  /\ \A h \in Handlers : handler[h].at # "free" => handler[h].checkout \in Checkouts

LEMMA FreeHandlerType ==
  ASSUME NEW p \in Payments
  PROVE  FreeHandler(p) \in HandlerState /\ FreeHandler(p).at = "free"
<1>1. 0 \in Ids
  BY BoundAssumption DEF Ids
<1> QED BY <1>1 DEF FreeHandler, HandlerState

LEMMA OnFundingTypeInv ==
  ASSUME TypeInv, WebhooksTypes, NEW h \in Handlers, OnFunding(h)
  PROVE  TypeInv'
<1> DEFINE p == handler[h].on
<1>0. h \in Calls /\ p \in Payments
  BY DEF WebhooksTypes, HandlerState
<1>1. CASE pay[p].status = "AwaitingFunding"
  BY <1>0, <1>1, EnterTypeInv DEF OnFunding, ApplyFunding
<1>2. CASE pay[p].status # "AwaitingFunding"
  <2>1. \E result \in Results : Answer(h, p, "applyFunding", result)
    BY <1>2 DEF OnFunding, ApplyFunding, Results
  <2> QED BY <1>0, <2>1, AnswerTypeInv DEF OnFunding, ApplyFunding, TypeInv, TypeOK, rows
<1> QED BY <1>1, <1>2

\* Every step but these two is a step of the engine, or none.
LEMMA EngineStep ==
  ASSUME [WebhooksNext]_webhookVars,
         ~\E h \in Handlers : OnFunding(h) \/ HandlerDies(h)
  PROVE  [Next]_vars
<1>1. CASE WebhooksNext
  BY <1>1 DEF WebhooksNext, Decide, Receive, Mark, FindPayment, NoPayment, Respond, Drive, Next
<1> QED BY <1>1 DEF webhookVars, vars

LEMMA WebhooksTypeInv ==
  TypeInv /\ WebhooksTypes /\ [WebhooksNext]_webhookVars => TypeInv' /\ WebhooksTypes'
<1> SUFFICES ASSUME TypeInv, WebhooksTypes, [WebhooksNext]_webhookVars
             PROVE  TypeInv' /\ WebhooksTypes'
  OBVIOUS
<1>1. TypeInv'
  <2>1. ASSUME NEW h \in Handlers, HandlerDies(h) PROVE TypeInv'
    BY <2>1, ForgetTypeInv DEF HandlerDies, TypeInv, TypeOK, rows
  <2> QED BY <2>1, OnFundingTypeInv, EngineStep, NextTypeInv
<1>2. WebhooksTypes'
  <2>1. ASSUME NEW p \in Payments, NEW k \in Checkouts, NEW outcome \in {"paid", "declined"},
               Decide(p, k, outcome)
        PROVE  WebhooksTypes'
    BY <2>1 DEF Decide, WebhooksTypes
  <2>2. ASSUME NEW p \in Payments, NEW k \in Checkouts, NEW h \in Handlers, Receive(h, p, k)
        PROVE  WebhooksTypes'
    <3>1. [at |-> "unseen", on |-> p, checkout |-> k, success |-> push[p][k] = "paid"]
            \in HandlerState
      BY DEF HandlerState, Checkouts, Ids
    <3>2. handler' \in [Handlers -> HandlerState]
      BY <2>2, <3>1 DEF Receive, WebhooksTypes
    <3>3. deliveries[p][k] + 1 \in 0..MaxDeliveries
      <4>1. PICK n \in 0..MaxDeliveries : n = deliveries[p][k]
        BY DEF WebhooksTypes
      <4>2. n < MaxDeliveries
        BY <2>2, <4>1 DEF Receive
      <4> QED BY <4>1, <4>2
    <3>4. deliveries' \in [Payments -> [Checkouts -> 0..MaxDeliveries]]
      BY <2>2, <3>3 DEF Receive, WebhooksTypes
    <3> QED BY <2>2, <3>2, <3>4 DEF Receive, WebhooksTypes
  <2>3. ASSUME NEW h \in Handlers, Mark(h) PROVE WebhooksTypes'
    <3>1. handler[h].checkout \in Checkouts /\ handler[h].on \in Payments
      BY <2>3 DEF Mark, WebhooksTypes, HandlerState
    <3>2. processed' \in [Payments -> SUBSET Checkouts]
      BY <2>3, <3>1 DEF Mark, WebhooksTypes
    <3>3. handler' \in [Handlers -> HandlerState]
      BY <2>3 DEF Mark, WebhooksTypes, HandlerState
    <3>4. \A g \in Handlers : handler'[g].checkout = handler[g].checkout
                               /\ (handler'[g].at # "free" => handler[g].at # "free")
      BY <2>3 DEF Mark, WebhooksTypes, HandlerState
    <3> QED BY <2>3, <3>2, <3>3, <3>4 DEF Mark, WebhooksTypes
  <2>f. ASSUME NEW h \in Handlers, handler' = [handler EXCEPT ![h] = FreeHandler(@.on)]
        PROVE  /\ handler' \in [Handlers -> HandlerState]
               /\ \A g \in Handlers :
                    handler'[g].at # "free" => handler'[g].checkout \in Checkouts
    <3>1. PICK new : new = FreeHandler(handler[h].on)
      OBVIOUS
    <3>2. handler[h].on \in Payments
      BY DEF WebhooksTypes, HandlerState
    <3>3. new \in HandlerState /\ new.at = "free" /\ handler' = [handler EXCEPT ![h] = new]
      BY <2>f, <3>1, <3>2, FreeHandlerType
    <3> QED BY <3>3 DEF WebhooksTypes
  <2>4. ASSUME NEW h \in Handlers, FindPayment(h) \/ NoPayment(h) PROVE WebhooksTypes'
    <3>1. CASE FindPayment(h)
      BY <3>1 DEF FindPayment, WebhooksTypes, HandlerState
    <3>2. CASE NoPayment(h)
      BY <2>f, <3>2 DEF NoPayment, WebhooksTypes
    <3> QED BY <2>4, <3>1, <3>2
  <2>5. ASSUME NEW h \in Handlers, Respond(h) \/ HandlerDies(h) PROVE WebhooksTypes'
    BY <2>5, <2>f DEF Respond, HandlerDies, WebhooksTypes
  <2>6. ASSUME UNCHANGED webhooks PROVE WebhooksTypes'
    BY <2>6 DEF webhooks, WebhooksTypes
  <2>7. \A h \in Handlers : OnFunding(h) => UNCHANGED webhooks
    BY DEF OnFunding
  <2>8. \A d \in Drivers : Drive(d) => UNCHANGED webhooks
    BY DEF Drive
  <2>9. UNCHANGED webhookVars => UNCHANGED webhooks
    BY DEF webhookVars, webhooks
  <2> QED BY <2>1, <2>2, <2>3, <2>4, <2>5, <2>6, <2>7, <2>8, <2>9 DEF WebhooksNext
<1> QED BY <1>1, <1>2

LEMMA WebhooksInitTypes == WebhooksInit => TypeInv /\ WebhooksTypes
<1> SUFFICES ASSUME WebhooksInit PROVE TypeInv /\ WebhooksTypes
  OBVIOUS
<1>1. PICK p \in Payments : handler = [h \in Handlers |-> FreeHandler(p)]
  BY DEF WebhooksInit
<1>2. PICK new : new = FreeHandler(p)
  OBVIOUS
<1>3. new \in HandlerState /\ new.at = "free" /\ handler = [h \in Handlers |-> new]
  BY <1>1, <1>2, FreeHandlerType
<1> QED BY <1>3, InitTypeInv DEF WebhooksInit, WebhooksTypes

\* The state of the handlers and of what M-Pesa and the API remember is
\* well-formed, beside a well-formed engine.
THEOREM WebhooksTypeCorrect == WebhooksSpec => []WebhooksTypeOK
<1>1. TypeInv /\ WebhooksTypes => WebhooksTypeOK
  BY DEF TypeInv, WebhooksTypes, WebhooksTypeOK
<1> QED BY <1>1, WebhooksInitTypes, WebhooksTypeInv, PTL DEF WebhooksSpec

(***************************************************************************)
(* Handlers and their calls.                                               *)
(***************************************************************************)
\* A callback in hand tells the truth; from Mark on it counts as processed.
CallbackOK(h) ==
  handler[h].at # "free" =>
    /\ handler[h].checkout \in Checkouts
    /\ push[handler[h].on][handler[h].checkout]
         = IF handler[h].success THEN "paid" ELSE "declined"
    /\ handler[h].at # "unseen" => handler[h].checkout \in processed[handler[h].on]

\* A handler has a call only while it is in the engine, on its payment, and that
\* call never waits for an adapter; it commits only a success.
HandlerCallOK(h) ==
  call[h].pc # "idle" =>
    /\ handler[h].at = "engine" /\ call[h].on = handler[h].on
    /\ call[h].pc \in {"commit", "failing", "returned"}
    /\ call[h].pc = "commit" => handler[h].success

CallbacksInv ==
  /\ \A h \in Handlers : CallbackOK(h) /\ HandlerCallOK(h)
  /\ \A d \in Drivers : call[d].op # "applyFunding"
  /\ \A p \in Payments : \A k \in processed[p] : push[p][k] # "open"

\* What a step of Work does to the call that takes it.
LEMMA WorkCall ==
  ASSUME TypeInv, NEW c \in Calls, Work(c)
  PROVE  /\ \A d \in Calls : d # c => call'[d] = call[d]
         /\ call'[c].on = call[c].on /\ call'[c].op \in {call[c].op, "step"}
         /\ call[c].pc \in {"adapter", "commit", "failing"}
         /\ call'[c].pc \in {"commit", "failing", "returned"}
         /\ call'[c].pc = "commit" => call[c].pc = "adapter"
<1>t. call \in [Calls -> CallState] /\ call[c] \in CallState
  BY DEF TypeInv, TypeOK
<1>1. ASSUME NEW op, NEW result, Answer(c, call[c].on, op, result)
      PROVE  /\ \A d \in Calls : d # c => call'[d] = call[d]
             /\ call'[c].on = call[c].on /\ call'[c].op = op /\ call'[c].pc = "returned"
  BY <1>1, <1>t DEF Answer
<1>2. ASSUME NEW pc \in {"commit", "failing"},
             \/ call' = [call EXCEPT ![c].pc = pc]
             \/ \E got : call' = [call EXCEPT ![c].pc = pc, ![c].got = got]
      PROVE  /\ \A d \in Calls : d # c => call'[d] = call[d]
             /\ call'[c].on = call[c].on /\ call'[c].op = call[c].op /\ call'[c].pc = pc
  BY <1>2, <1>t DEF CallState
<1>3. CASE CallAdapter(c)
  <2>1. call[c].pc = "adapter"
    BY <1>3 DEF CallAdapter, InitiateStkPush, ConvertKesToUsdc, Send, CreatePayout, Request
  <2>2. \/ call' = [call EXCEPT ![c].pc = "failing"]
        \/ \E got : call' = [call EXCEPT ![c].pc = "commit", ![c].got = got]
    BY <1>3 DEF CallAdapter, InitiateStkPush, ConvertKesToUsdc, Send, CreatePayout, Request
  <2>3. CASE call' = [call EXCEPT ![c].pc = "failing"]
    BY <1>2, <2>1, <2>3
  <2>4. CASE \E got : call' = [call EXCEPT ![c].pc = "commit", ![c].got = got]
    BY <1>2, <2>1, <2>4
  <2> QED BY <2>2, <2>3, <2>4
<1>4. CASE Poll(c)
  <2>1. call[c].pc = "adapter"
    BY <1>4 DEF Poll, ConfirmTransfer, ConfirmPayout
  <2>2. \/ call' = [call EXCEPT ![c].pc = "commit"]
        \/ Answer(c, call[c].on, "step", "waiting")
    BY <1>4 DEF Poll, ConfirmTransfer, ConfirmPayout
  <2>3. CASE call' = [call EXCEPT ![c].pc = "commit"]
    BY <1>2, <2>1, <2>3
  <2>4. CASE Answer(c, call[c].on, "step", "waiting")
    BY <1>1, <2>1, <2>4
  <2> QED BY <2>2, <2>3, <2>4
<1>5. CASE AdapterThrows(c)
  <2>1. call' = [call EXCEPT ![c].pc = "failing"] /\ call[c].pc = "adapter"
    BY <1>5 DEF AdapterThrows
  <2> QED BY <1>2, <2>1
<1>6. CASE TransactionFails(c)
  <2>1. /\ call[c].pc \in {"commit", "failing"}
        /\ \/ call' = [call EXCEPT ![c].pc = "failing"]
           \/ Answer(c, call[c].on, call[c].op, "threw")
    BY <1>6 DEF TransactionFails
  <2>2. CASE call' = [call EXCEPT ![c].pc = "failing"]
    BY <1>2, <2>1, <2>2
  <2>3. CASE Answer(c, call[c].on, call[c].op, "threw")
    BY <1>1, <2>1, <2>3
  <2> QED BY <2>1, <2>2, <2>3
<1>7. CASE Commit(c)
  <2>1. /\ call[c].pc \in {"commit", "failing"}
        /\ \E result : Answer(c, call[c].on, call[c].op, result)
    BY <1>7 DEF Commit, DoInitiateFunding, CommitFunding, DoOnRamp, DoBridgeSend,
       DoBridgeConfirm, DoCreatePayout, DoConfirmPayout, FailUnfunded, CompensateFunded,
       Transition, Committing
  <2> QED BY <1>1, <2>1
<1> QED BY <1>3, <1>4, <1>5, <1>6, <1>7 DEF Work

\* Entering the engine or answering from it, as seen by another call.
LEMMA StepCall ==
  ASSUME TypeInv, NEW d \in Drivers, Drive(d)
  PROVE  /\ \A c \in Calls : c # d => call'[c] = call[c]
         /\ call[d].op # "applyFunding" => call'[d].op # "applyFunding"
<1>t. call \in [Calls -> CallState] /\ d \in Calls
  BY DEF TypeInv, TypeOK
<1>1. ASSUME NEW new, call' = [call EXCEPT ![d] = new], new.op # "applyFunding"
      PROVE  /\ \A c \in Calls : c # d => call'[c] = call[c]
             /\ call'[d].op # "applyFunding"
  BY <1>1, <1>t
<1>2. CASE \E p \in Payments : Step(d, p) \/ RefundRequest(d, p)
  <2>1. \E p \in Payments, op \in {"step", "refund"} : \E pc, result :
          Enter(d, p, op, pc) \/ Answer(d, p, op, result)
    BY <1>2 DEF Step, RefundRequest
  <2>2. ASSUME NEW p, NEW op \in {"step", "refund"}, NEW pc, Enter(d, p, op, pc)
        PROVE  \E new : call' = [call EXCEPT ![d] = new] /\ new.op # "applyFunding"
    <3>1. PICK new : new = [pc |-> pc, op |-> op, on |-> p, snap |-> pay[p],
                            got |-> 0, result |-> "none"]
      OBVIOUS
    <3>2. call' = [call EXCEPT ![d] = new]
      BY <2>2, <3>1 DEF Enter
    <3>3. new.op # "applyFunding"
      BY <3>1
    <3> QED BY <3>2, <3>3
  <2>3. ASSUME NEW p, NEW op \in {"step", "refund"}, NEW result, Answer(d, p, op, result)
        PROVE  \E new : call' = [call EXCEPT ![d] = new] /\ new.op # "applyFunding"
    <3>1. PICK new : new = [pc |-> "returned", op |-> op, on |-> p, snap |-> NewPayment,
                            got |-> 0, result |-> result]
      OBVIOUS
    <3>2. call' = [call EXCEPT ![d] = new]
      BY <2>3, <3>1 DEF Answer
    <3>3. new.op # "applyFunding"
      BY <3>1
    <3> QED BY <3>2, <3>3
  <2>4. \E new : call' = [call EXCEPT ![d] = new] /\ new.op # "applyFunding"
    BY <2>1, <2>2, <2>3
  <2> QED BY <1>1, <2>4
<1>3. CASE Return(d) \/ Crash(d)
  <2>1. Forget(d)
    BY <1>3 DEF Return, Crash
  <2> QED BY <1>1, <2>1 DEF Forget, Idle
<1> QED BY <1>2, <1>3 DEF Drive

LEMMA NextCallbacksInv ==
  TypeInv /\ WebhooksTypes /\ CallbacksInv /\ [WebhooksNext]_webhookVars => CallbacksInv'
<1> SUFFICES ASSUME TypeInv, WebhooksTypes, CallbacksInv, [WebhooksNext]_webhookVars
             PROVE  CallbacksInv'
  OBVIOUS
<1>t. /\ push \in [Payments -> [Checkouts -> {"open", "paid", "declined"}]]
      /\ processed \in [Payments -> SUBSET Checkouts]
      /\ handler \in [Handlers -> HandlerState]
      /\ call \in [Calls -> CallState]
      /\ \A h \in Handlers : handler[h].on \in Payments
  BY DEF TypeInv, TypeOK, WebhooksTypes, HandlerState
\* It is enough to look at each of the parts a step can disturb.
<1>c. ASSUME UNCHANGED <<push, processed>>,
             \A h \in Handlers : \/ handler'[h] = handler[h]
                                 \/ handler'[h].at = "free"
                                 \/ CallbackOK(h)'
      PROVE  /\ \A h \in Handlers : CallbackOK(h)'
             /\ \A p \in Payments : \A k \in processed'[p] : push'[p][k] # "open"
  BY <1>c DEF CallbacksInv, CallbackOK
<1>h. ASSUME UNCHANGED call
      PROVE  /\ \A d \in Drivers : call'[d].op # "applyFunding"
             /\ \A h \in Handlers : \/ handler'[h] = handler[h] => HandlerCallOK(h)'
                                    \/ call[h].pc = "idle" => HandlerCallOK(h)'
  BY <1>h DEF CallbacksInv, HandlerCallOK
<1>1. ASSUME NEW p \in Payments, NEW k \in Checkouts, NEW outcome \in {"paid", "declined"},
             Decide(p, k, outcome)
      PROVE  CallbacksInv'
  <2>1. /\ push[p][k] = "open" /\ push' = [push EXCEPT ![p][k] = outcome]
        /\ UNCHANGED <<call, processed, handler>>
    BY <1>1 DEF Decide, vars
  <2>2. ASSUME NEW q \in Payments, NEW j \in Checkouts, push[q][j] # "open"
        PROVE  push'[q][j] = push[q][j]
    BY <1>t, <2>1, <2>2
  <2>3. ASSUME NEW h \in Handlers PROVE CallbackOK(h)'
    BY <1>t, <2>1, <2>2 DEF CallbacksInv, CallbackOK
  <2>4. ASSUME NEW h \in Handlers PROVE HandlerCallOK(h)'
    BY <2>1 DEF CallbacksInv, HandlerCallOK
  <2>5. ASSUME NEW q \in Payments, NEW j \in processed'[q] PROVE push'[q][j] # "open"
    BY <1>t, <2>1, <2>2 DEF CallbacksInv
  <2>6. \A d \in Drivers : call'[d].op # "applyFunding"
    BY <2>1 DEF CallbacksInv
  <2> QED BY <2>3, <2>4, <2>5, <2>6 DEF CallbacksInv
<1>2. ASSUME NEW p \in Payments, NEW k \in Checkouts, NEW h \in Handlers, Receive(h, p, k)
      PROVE  CallbacksInv'
  <2>1. /\ handler[h].at = "free" /\ push[p][k] # "open" /\ UNCHANGED <<call, push, processed>>
        /\ handler' = [handler EXCEPT ![h] = [at |-> "unseen", on |-> p, checkout |-> k,
                                              success |-> push[p][k] = "paid"]]
    BY <1>2 DEF Receive, vars
  <2>2. /\ handler'[h].at = "unseen" /\ handler'[h].on = p /\ handler'[h].checkout = k
        /\ handler'[h].success <=> push[p][k] = "paid"
        /\ \A g \in Handlers : g # h => handler'[g] = handler[g]
    BY <1>t, <2>1
  <2>3. CallbackOK(h)'
    BY <1>t, <2>1, <2>2 DEF CallbackOK
  <2>4. call[h].pc = "idle"
    BY <2>1 DEF CallbacksInv, HandlerCallOK
  <2>5. ASSUME NEW g \in Handlers PROVE HandlerCallOK(g)'
    BY <2>1, <2>2, <2>4 DEF CallbacksInv, HandlerCallOK
  <2> QED BY <1>c, <1>h, <2>1, <2>2, <2>3, <2>5 DEF CallbacksInv
<1>3. ASSUME NEW h \in Handlers, Mark(h) PROVE CallbacksInv'
  <2>1. /\ handler[h].at = "unseen" /\ UNCHANGED <<call, push>>
        /\ processed' = [processed EXCEPT ![handler[h].on] = @ \union {handler[h].checkout}]
        /\ handler' = [handler EXCEPT ![h].at = "marked"]
    BY <1>3 DEF Mark, vars
  <2>2. /\ handler'[h].at = "marked" /\ handler'[h].on = handler[h].on
        /\ handler'[h].checkout = handler[h].checkout
        /\ handler'[h].success = handler[h].success
        /\ \A g \in Handlers : g # h => handler'[g] = handler[g]
    BY <1>t, <2>1 DEF HandlerState
  <2>3. \A q \in Payments : processed[q] \subseteq processed'[q]
    BY <1>t, <2>1
  <2>4. handler[h].checkout \in processed'[handler[h].on]
    BY <1>t, <2>1
  <2>5. ASSUME NEW g \in Handlers PROVE CallbackOK(g)'
    <3>1. CASE g = h
      BY <2>1, <2>2, <2>4, <3>1 DEF CallbacksInv, CallbackOK
    <3>2. CASE g # h
      BY <1>t, <2>1, <2>2, <2>3, <3>2 DEF CallbacksInv, CallbackOK
    <3> QED BY <3>1, <3>2
  <2>6. call[h].pc = "idle"
    BY <2>1 DEF CallbacksInv, HandlerCallOK
  <2>7. ASSUME NEW g \in Handlers PROVE HandlerCallOK(g)'
    BY <2>1, <2>2, <2>6 DEF CallbacksInv, HandlerCallOK
  <2>8. ASSUME NEW q \in Payments, NEW j \in processed'[q] PROVE push'[q][j] # "open"
    <3>1. j \in processed[q] \/ (q = handler[h].on /\ j = handler[h].checkout)
      BY <1>t, <2>1
    <3>2. push[handler[h].on][handler[h].checkout] # "open"
      BY <2>1 DEF CallbacksInv, CallbackOK
    <3> QED BY <2>1, <3>1, <3>2 DEF CallbacksInv
  <2>9. \A d \in Drivers : call'[d].op # "applyFunding"
    BY <2>1 DEF CallbacksInv
  <2> QED BY <2>5, <2>7, <2>8, <2>9 DEF CallbacksInv
<1>4. ASSUME NEW h \in Handlers, FindPayment(h) PROVE CallbacksInv'
  <2>1. /\ handler[h].at = "marked" /\ UNCHANGED <<call, push, processed>>
        /\ handler' = [handler EXCEPT ![h].at = "engine"]
    BY <1>4 DEF FindPayment, vars
  <2>2. /\ handler'[h].at = "engine" /\ handler'[h].on = handler[h].on
        /\ handler'[h].checkout = handler[h].checkout
        /\ handler'[h].success = handler[h].success
        /\ \A g \in Handlers : g # h => handler'[g] = handler[g]
    BY <1>t, <2>1 DEF HandlerState
  <2>3. CallbackOK(h)'
    BY <2>1, <2>2 DEF CallbacksInv, CallbackOK
  <2>6. call[h].pc = "idle"
    BY <2>1 DEF CallbacksInv, HandlerCallOK
  <2>7. ASSUME NEW g \in Handlers PROVE HandlerCallOK(g)'
    BY <2>1, <2>2, <2>6 DEF CallbacksInv, HandlerCallOK
  <2> QED BY <1>c, <1>h, <2>1, <2>2, <2>3, <2>7 DEF CallbacksInv
<1>f. ASSUME NEW h \in Handlers, handler' = [handler EXCEPT ![h] = FreeHandler(@.on)]
      PROVE  handler'[h].at = "free" /\ \A g \in Handlers : g # h => handler'[g] = handler[g]
  <2>1. PICK new : new = FreeHandler(handler[h].on)
    OBVIOUS
  <2>2. new.at = "free" /\ handler' = [handler EXCEPT ![h] = new]
    BY <1>f, <1>t, <2>1, FreeHandlerType
  <2> QED BY <1>t, <2>2
<1>5. ASSUME NEW h \in Handlers, NoPayment(h) PROVE CallbacksInv'
  <2>1. handler[h].at = "marked" /\ UNCHANGED <<call, push, processed>>
    BY <1>5 DEF NoPayment, vars
  <2>2. handler'[h].at = "free" /\ \A g \in Handlers : g # h => handler'[g] = handler[g]
    BY <1>5, <1>f DEF NoPayment
  <2>6. call[h].pc = "idle"
    BY <2>1 DEF CallbacksInv, HandlerCallOK
  <2>7. ASSUME NEW g \in Handlers PROVE HandlerCallOK(g)'
    BY <2>1, <2>2, <2>6 DEF CallbacksInv, HandlerCallOK
  <2> QED BY <1>c, <1>h, <2>1, <2>2, <2>7 DEF CallbacksInv
<1>6. ASSUME NEW h \in Handlers, Respond(h) \/ HandlerDies(h) PROVE CallbacksInv'
  <2>1. Forget(h) /\ UNCHANGED <<push, processed>>
    BY <1>6 DEF Respond, HandlerDies, Return
  <2>2. handler'[h].at = "free" /\ \A g \in Handlers : g # h => handler'[g] = handler[g]
    BY <1>6, <1>f DEF Respond, HandlerDies
  <2>3. call'[h].pc = "idle" /\ \A c \in Calls : c # h => call'[c] = call[c]
    BY <1>t, <2>1 DEF Forget, Idle
  <2>4. ASSUME NEW g \in Handlers PROVE HandlerCallOK(g)'
    BY <2>2, <2>3 DEF CallbacksInv, HandlerCallOK
  <2>5. \A d \in Drivers : call'[d].op # "applyFunding"
    BY <2>3 DEF CallbacksInv
  <2> QED BY <1>c, <2>1, <2>2, <2>4, <2>5 DEF CallbacksInv
<1>7. ASSUME NEW h \in Handlers, OnFunding(h) PROVE CallbacksInv'
  <2>1. handler[h].at = "engine" /\ UNCHANGED <<push, processed, handler>>
    BY <1>7 DEF OnFunding, webhooks
  <2>2. \/ Enter(h, handler[h].on, "applyFunding",
                 IF handler[h].success THEN "commit" ELSE "failing")
        \/ \E result : Answer(h, handler[h].on, "applyFunding", result)
    BY <1>7 DEF OnFunding, ApplyFunding
  <2>3. /\ call'[h].on = handler[h].on /\ call'[h].pc \in {"commit", "failing", "returned"}
        /\ call'[h].pc = "commit" => handler[h].success
        /\ \A c \in Calls : c # h => call'[c] = call[c]
    BY <1>t, <2>2 DEF Enter, Answer
  <2>4. ASSUME NEW g \in Handlers PROVE HandlerCallOK(g)'
    BY <2>1, <2>3 DEF CallbacksInv, HandlerCallOK
  <2>5. \A d \in Drivers : call'[d].op # "applyFunding"
    BY <2>3 DEF CallbacksInv
  <2> QED BY <1>c, <2>1, <2>4, <2>5 DEF CallbacksInv
<1>8. ASSUME NEW d \in Drivers, Drive(d) PROVE CallbacksInv'
  <2>1. UNCHANGED <<push, processed, handler>>
    BY <1>8 DEF Drive, webhooks
  <2>2. /\ \A c \in Calls : c # d => call'[c] = call[c]
        /\ call[d].op # "applyFunding" => call'[d].op # "applyFunding"
    BY <1>8, StepCall
  <2>3. ASSUME NEW g \in Handlers PROVE HandlerCallOK(g)'
    BY <2>1, <2>2 DEF CallbacksInv, HandlerCallOK
  <2>4. \A e \in Drivers : call'[e].op # "applyFunding"
    BY <2>2 DEF CallbacksInv
  <2> QED BY <1>c, <2>1, <2>3, <2>4 DEF CallbacksInv
<1>9. ASSUME NEW c \in Calls, Work(c), UNCHANGED webhooks PROVE CallbacksInv'
  <2>1. UNCHANGED <<push, processed, handler>>
    BY <1>9 DEF webhooks
  <2>2. /\ \A d \in Calls : d # c => call'[d] = call[d]
        /\ call'[c].on = call[c].on /\ call'[c].op \in {call[c].op, "step"}
        /\ call[c].pc \in {"adapter", "commit", "failing"}
        /\ call'[c].pc \in {"commit", "failing", "returned"}
        /\ call'[c].pc = "commit" => call[c].pc = "adapter"
    BY <1>9, WorkCall
  <2>3. ASSUME NEW g \in Handlers PROVE HandlerCallOK(g)'
    BY <2>1, <2>2 DEF CallbacksInv, HandlerCallOK
  <2>4. \A e \in Drivers : call'[e].op # "applyFunding"
    BY <2>2 DEF CallbacksInv
  <2> QED BY <1>c, <2>1, <2>3, <2>4 DEF CallbacksInv
<1>10. ASSUME UNCHANGED webhookVars PROVE CallbacksInv'
  BY <1>10 DEF webhookVars, webhooks, vars, CallbacksInv, CallbackOK, HandlerCallOK
<1> QED
  BY <1>1, <1>2, <1>3, <1>4, <1>5, <1>6, <1>7, <1>8, <1>9, <1>10 DEF WebhooksNext

(***************************************************************************)
(* The books.  Only a funding transaction touches importer_external.       *)
(***************************************************************************)
Booked(p) == ledger[p].posted["importer_external"]

LEMMA PostPairElsewhere ==
  ASSUME NEW book \in Book, NEW debit, NEW credit, NEW amount \in Int
  PROVE  /\ debit # "importer_external" /\ credit # "importer_external" =>
              PostPair(book, debit, credit, amount).posted["importer_external"]
                = book.posted["importer_external"]
         /\ PostPair(book, "mpesa_collected", "importer_external", amount)
              .posted["importer_external"] = book.posted["importer_external"] - amount
<1>1. "importer_external" \in ACCOUNTS /\ book.posted["importer_external"] \in Int
  BY DEF ACCOUNTS, KesAccounts, Book
<1>2. PICK n \in Int : n = book.posted["importer_external"]
  BY <1>1
<1>3. n + 0 - 0 = n /\ n + 0 - amount = n - amount
  OBVIOUS
<1> QED BY <1>1, <1>2, <1>3 DEF PostPair, Book

LEMMA WorkBooks ==
  ASSUME TypeInv, NEW c \in Calls, Work(c), NEW p \in Payments, Booked(p)' # Booked(p)
  PROVE  /\ CommitFunding(c) /\ call[c].on = p
         /\ Booked(p)' = Booked(p) - Quote[p].allInMinorKes
<1>1. /\ call[c].on \in Payments /\ ledger \in [Payments -> Book]
      /\ call[c].got \in Int /\ call[c].snap.usdcMinor \in Int
  BY DEF TypeInv, TypeOK, CallState, PayRow
<1>q. /\ Quote[p].allInMinorKes \in Int /\ Quote[p].sendMinorKes \in Int
      /\ Quote[p].receiveMinorCny \in Int
  BY QuoteAssumption
<1>2. PICK book \in Book : book = ledger[p]
  BY <1>1
\* A transaction of p that leaves the account alone.
<1>3. ASSUME NEW after, ledger' = [ledger EXCEPT ![call[c].on] = after],
             call[c].on = p => after.posted["importer_external"]
                                 = book.posted["importer_external"]
      PROVE  FALSE
  BY <1>1, <1>2, <1>3 DEF Booked
<1>4. Commit(c)
  <2>1. CASE CallAdapter(c)
    BY <2>1 DEF CallAdapter, InitiateStkPush, ConvertKesToUsdc, Send, CreatePayout, Request,
       rows, Booked
  <2>2. CASE Poll(c) \/ AdapterThrows(c) \/ TransactionFails(c)
    BY <2>2 DEF Poll, ConfirmTransfer, ConfirmPayout, AdapterThrows, TransactionFails, rows,
       Booked
  <2> QED BY <2>1, <2>2 DEF Work
<1>5. CASE DoInitiateFunding(c) \/ DoBridgeSend(c) \/ FailUnfunded(c)
  BY <1>5 DEF DoInitiateFunding, DoBridgeSend, FailUnfunded, Booked
<1>6. CASE DoOnRamp(c)
  <2>1. PICK one : one = PostPair(book, "onramp_external_kes", "mpesa_collected",
                                  Quote[p].sendMinorKes)
    OBVIOUS
  <2>2. one \in Book /\ one.posted["importer_external"] = book.posted["importer_external"]
    BY <1>q, <2>1, PostPairIsBook, PostPairElsewhere
  <2>3. PICK two : two = PostPair(one, "treasury_usdc", "onramp_external_usdc", call[c].got)
    OBVIOUS
  <2>4. two.posted["importer_external"] = book.posted["importer_external"]
    BY <1>1, <2>2, <2>3, PostPairElsewhere
  <2>5. CASE call[c].on = p
    <3>1. ledger' = [ledger EXCEPT ![call[c].on] = two]
      BY <1>2, <1>6, <2>1, <2>3, <2>5 DEF DoOnRamp
    <3> QED BY <1>3, <2>4, <3>1
  <2>6. CASE call[c].on # p
    BY <1>3, <1>6, <2>6 DEF DoOnRamp
  <2> QED BY <2>5, <2>6
<1>7. CASE \E debit, credit, amount :
             /\ debit # "importer_external" /\ credit # "importer_external"
             /\ call[c].on = p => amount \in Int
             /\ Post(c, debit, credit, amount)
  <2>1. PICK debit, credit, amount :
          /\ debit # "importer_external" /\ credit # "importer_external"
          /\ call[c].on = p => amount \in Int
          /\ Post(c, debit, credit, amount)
    BY <1>7
  <2>2. CASE call[c].on = p
    <3>1. PICK after : after = PostPair(book, debit, credit, amount)
      OBVIOUS
    <3>2. after.posted["importer_external"] = book.posted["importer_external"]
      BY <2>1, <2>2, <3>1, PostPairElsewhere
    <3>3. ledger' = [ledger EXCEPT ![call[c].on] = after]
      BY <1>2, <2>1, <2>2, <3>1 DEF Post
    <3> QED BY <1>3, <3>2, <3>3
  <2>3. CASE call[c].on # p
    BY <1>3, <2>1, <2>3 DEF Post
  <2> QED BY <2>2, <2>3
<1>8. CASE DoBridgeConfirm(c)
  BY <1>1, <1>7, <1>8 DEF DoBridgeConfirm
<1>9. CASE DoCreatePayout(c)
  BY <1>1, <1>7, <1>9 DEF DoCreatePayout
<1>10. CASE DoConfirmPayout(c)
  BY <1>q, <1>7, <1>10 DEF DoConfirmPayout
<1>11. CASE CompensateFunded(c)
  <2>1. PICK after : after = ReverseAll(ledger[call[c].on])
    OBVIOUS
  <2>2. call[c].on = p => after.posted["importer_external"] = book.posted["importer_external"]
    BY <1>2, <2>1 DEF ReverseAll, Book
  <2>3. ledger' = [ledger EXCEPT ![call[c].on] = after]
    BY <1>1, <1>11, <2>1 DEF CompensateFunded
  <2> QED BY <1>3, <2>2, <2>3
<1>12. CASE CommitFunding(c)
  <2>1. call[c].on = p
    BY <1>3, <1>12 DEF CommitFunding, Post
  <2>2. PICK after : after = PostPair(book, "mpesa_collected", "importer_external",
                                      Quote[p].allInMinorKes)
    OBVIOUS
  <2>3. after.posted["importer_external"]
          = book.posted["importer_external"] - Quote[p].allInMinorKes
    BY <1>q, <2>2, PostPairElsewhere
  <2>4. ledger'[p] = after
    BY <1>1, <1>2, <1>12, <2>1, <2>2 DEF CommitFunding, Post
  <2> QED BY <1>2, <1>12, <2>1, <2>3, <2>4 DEF Booked
<1> QED
  BY <1>4, <1>5, <1>6, <1>8, <1>9, <1>10, <1>11, <1>12 DEF Commit

\* The steps of the webhooks themselves book nothing.
LEMMA OtherBooks ==
  ASSUME [WebhooksNext]_webhookVars, ~\E c \in Calls : Work(c) /\ UNCHANGED webhooks
  PROVE  UNCHANGED ledger
<1>1. ASSUME NEW d \in Drivers, Drive(d) PROVE UNCHANGED ledger
  BY <1>1 DEF Drive, Step, RefundRequest, Return, Crash, rows
<1>2. ASSUME NEW h \in Handlers,
             Mark(h) \/ FindPayment(h) \/ NoPayment(h) \/ OnFunding(h) \/ Respond(h)
               \/ HandlerDies(h)
      PROVE  UNCHANGED ledger
  BY <1>2 DEF Mark, FindPayment, NoPayment, OnFunding, ApplyFunding, Respond, Return,
     HandlerDies, rows, vars
<1>3. ASSUME NEW p \in Payments, NEW k \in Checkouts,
             \/ \E outcome \in {"paid", "declined"} : Decide(p, k, outcome)
             \/ \E h \in Handlers : Receive(h, p, k)
      PROVE  UNCHANGED ledger
  BY <1>3 DEF Decide, Receive, vars
<1>4. UNCHANGED webhookVars => UNCHANGED ledger
  BY DEF webhookVars, vars
<1> QED BY <1>1, <1>2, <1>3, <1>4 DEF WebhooksNext

\* A transaction that books is one of a handler whose callback is of a paid push.
LEMMA FundingIsPaid ==
  ASSUME TypeInv, WebhooksTypes, CallbacksInv, NEW c \in Calls, CommitFunding(c)
  PROVE  /\ c \in Handlers /\ handler[c].at = "engine" /\ handler[c].on = call[c].on
         /\ call[c].pc = "commit" /\ handler[c].success
         /\ handler[c].checkout \in Checkouts
         /\ push[call[c].on][handler[c].checkout] = "paid"
<1>1. call[c].pc = "commit" /\ call[c].op = "applyFunding"
  BY DEF CommitFunding, Committing
<1>2. c \in Handlers
  BY <1>1 DEF CallbacksInv
<1>3. handler[c].at = "engine" /\ handler[c].on = call[c].on /\ handler[c].success
  BY <1>1, <1>2 DEF CallbacksInv, HandlerCallOK
<1> QED BY <1>1, <1>2, <1>3 DEF CallbacksInv, CallbackOK

LEMMA PaidStays ==
  ASSUME TypeInv, WebhooksTypes, [WebhooksNext]_webhookVars, NEW p \in Payments
  PROVE  /\ PaidPushes(p) \subseteq PaidPushes(p)'
         /\ \A k \in Checkouts : push[p][k] # "open" => push'[p][k] = push[p][k]
<1>1. ASSUME NEW q \in Payments, NEW j \in Checkouts, NEW outcome, Decide(q, j, outcome)
      PROVE  \A k \in Checkouts : push[p][k] # "open" => push'[p][k] = push[p][k]
  BY <1>1 DEF Decide, WebhooksTypes
<1>2. (~\E q \in Payments, j \in Checkouts, outcome \in {"paid", "declined"} :
          Decide(q, j, outcome)) => UNCHANGED push
  BY DEF WebhooksNext, Receive, Mark, FindPayment, NoPayment, OnFunding, Respond, Drive,
     HandlerDies, webhooks, webhookVars
<1>3. \A k \in Checkouts : push[p][k] # "open" => push'[p][k] = push[p][k]
  BY <1>1, <1>2
<1> QED BY <1>3 DEF PaidPushes

LEMMA NextBookedMeansPaid ==
  TypeInv /\ WebhooksTypes /\ CallbacksInv /\ BookedMeansPaid /\ [WebhooksNext]_webhookVars
    => BookedMeansPaid'
<1> SUFFICES ASSUME TypeInv, WebhooksTypes, CallbacksInv, BookedMeansPaid,
                    [WebhooksNext]_webhookVars, NEW p \in Payments, Booked(p)' # 0
             PROVE  PaidPushes(p)' # {}
  BY DEF BookedMeansPaid, Booked
<1>1. CASE Booked(p)' = Booked(p)
  BY <1>1, PaidStays DEF BookedMeansPaid, Booked
<1>2. ASSUME NEW c \in Calls, Work(c), Booked(p)' # Booked(p)
      PROVE  PaidPushes(p)' # {}
  <2>1. CommitFunding(c) /\ call[c].on = p
    BY <1>2, WorkBooks
  <2>2. handler[c].checkout \in PaidPushes(p)
    BY <2>1, FundingIsPaid DEF PaidPushes
  <2> QED BY <2>2, PaidStays
<1> QED BY <1>1, <1>2, OtherBooks DEF Booked

LEMMA WebhooksInitInv == WebhooksInit => CallbacksInv /\ BookedMeansPaid
<1> SUFFICES ASSUME WebhooksInit PROVE CallbacksInv /\ BookedMeansPaid
  OBVIOUS
<1>1. PICK p \in Payments : handler = [h \in Handlers |-> FreeHandler(p)]
  BY DEF WebhooksInit
<1>2. \A h \in Handlers : handler[h].at = "free"
  BY <1>1, FreeHandlerType
<1>3. \A c \in Calls : call[c].pc = "idle" /\ call[c].op = "step"
  BY DEF WebhooksInit, Init, Idle
<1>4. \A q \in Payments : processed[q] = {}
  BY DEF WebhooksInit
<1>5. \A q \in Payments : ledger[q].posted["importer_external"] = 0
  BY DEF WebhooksInit, Init, EmptyBook, NoEntries, ACCOUNTS, KesAccounts
<1> QED BY <1>2, <1>3, <1>4, <1>5 DEF CallbacksInv, CallbackOK, HandlerCallOK, BookedMeansPaid

\* KES are booked as collected only for a payment of which a push was paid, in
\* whatever order callbacks are delivered, repeated, lost or overtaken.
THEOREM BookingsArePaid == WebhooksSpec => []BookedMeansPaid
  BY WebhooksInitTypes, WebhooksInitInv, WebhooksTypeInv, NextCallbacksInv,
     NextBookedMeansPaid, PTL DEF WebhooksSpec

(***************************************************************************)
(* Each paid push is booked at most once.  A push is spent when its        *)
(* callback has been marked and no handler that could still book it has it *)
(* in hand.  As long as handlers of a payment do not overlap, the books    *)
(* hold the price at most once per spent push: Mark cannot find the push   *)
(* already marked, and a booking is followed by no second one of the same  *)
(* handler.                                                                *)
(***************************************************************************)
Unbooked(h) ==
  handler[h].at = "marked" \/ (handler[h].at = "engine" /\ call[h].pc \in {"idle", "commit"})

Pending(p, k) ==
  \E h \in Handlers : Unbooked(h) /\ handler[h].on = p /\ handler[h].checkout = k

Spent(p) == {k \in processed[p] : push[p][k] = "paid" /\ ~Pending(p, k)}

AloneInv ==
  \A p \in Payments : ~overlap[p] =>
    /\ \A g, h \in Handlers : handler[g].at # "free" /\ handler[g].on = p
                              /\ handler[h].at # "free" /\ handler[h].on = p => g = h
    /\ \A h \in Handlers : handler[h].at = "unseen" /\ handler[h].on = p
                             => handler[h].checkout \notin processed[p]

SpentInv ==
  \A p \in Payments : ~overlap[p] =>
    \E n \in Nat : n <= Cardinality(Spent(p)) /\ -Booked(p) = Quote[p].allInMinorKes * n

\* What a step may do to a handler: only Receive gives it a callback, and only
\* Mark makes it one that may book.
HandlerStep(h) ==
  /\ handler'[h].at # "free" =>
       \/ /\ handler[h].at # "free" /\ handler'[h].on = handler[h].on
          /\ handler'[h].checkout = handler[h].checkout
       \/ \E p \in Payments, k \in Checkouts : Receive(h, p, k)
  /\ handler'[h].at = "unseen" =>
       \/ handler[h].at = "unseen"
       \/ \E p \in Payments, k \in Checkouts : Receive(h, p, k)
  /\ Unbooked(h)' =>
       /\ handler'[h].on = handler[h].on /\ handler'[h].checkout = handler[h].checkout
       /\ Unbooked(h) \/ Mark(h)

LEMMA HandlerSteps ==
  ASSUME TypeInv, WebhooksTypes, CallbacksInv, [WebhooksNext]_webhookVars, NEW h \in Handlers
  PROVE  HandlerStep(h)
<1>t. /\ handler \in [Handlers -> HandlerState] /\ call \in [Calls -> CallState]
      /\ h \in Calls
  BY DEF TypeInv, TypeOK, WebhooksTypes
<1>u. ASSUME handler'[h] = handler[h],
             call'[h].pc \in {"idle", "commit"} /\ handler[h].at = "engine"
               => call[h].pc \in {"idle", "commit"}
      PROVE  HandlerStep(h)
  BY <1>u DEF HandlerStep, Unbooked
<1>f. ASSUME NEW g \in Handlers, handler' = [handler EXCEPT ![g] = FreeHandler(@.on)],
             UNCHANGED call \/ Forget(g)
      PROVE  HandlerStep(h)
  <2>1. PICK new : new = FreeHandler(handler[g].on)
    OBVIOUS
  <2>2. new.at = "free" /\ handler' = [handler EXCEPT ![g] = new]
    BY <1>f, <2>1, FreeHandlerType DEF WebhooksTypes, HandlerState
  <2>3. CASE g = h
    <3>1. handler'[h].at = "free"
      BY <1>t, <2>2, <2>3
    <3> QED BY <3>1 DEF HandlerStep, Unbooked
  <2>4. CASE g # h
    <3>1. handler'[h] = handler[h] /\ call'[h] = call[h]
      BY <1>f, <1>t, <2>2, <2>4 DEF Forget
    <3> QED BY <1>u, <3>1
  <2> QED BY <2>3, <2>4
<1>1. ASSUME NEW p \in Payments, NEW k \in Checkouts, NEW outcome, Decide(p, k, outcome)
      PROVE  HandlerStep(h)
  BY <1>u, <1>1 DEF Decide, vars
<1>2. ASSUME NEW p \in Payments, NEW k \in Checkouts, NEW g \in Handlers, Receive(g, p, k)
      PROVE  HandlerStep(h)
  <2>1. CASE g = h
    <3>1. handler'[h].at = "unseen"
      BY <1>2, <1>t, <2>1 DEF Receive
    <3> QED BY <1>2, <2>1, <3>1 DEF HandlerStep, Unbooked
  <2>2. CASE g # h
    BY <1>2, <1>t, <1>u, <2>2 DEF Receive, vars
  <2> QED BY <2>1, <2>2
<1>3. ASSUME NEW g \in Handlers, Mark(g) \/ FindPayment(g) PROVE HandlerStep(h)
  <2>1. CASE g = h
    <3>1. /\ handler[h].at \in {"unseen", "marked"}
          /\ handler'[h].at \in {"marked", "engine"}
          /\ handler'[h].on = handler[h].on /\ handler'[h].checkout = handler[h].checkout
          /\ Mark(h) \/ handler[h].at = "marked"
      BY <1>3, <1>t, <2>1 DEF Mark, FindPayment, HandlerState
    <3> QED BY <3>1 DEF HandlerStep, Unbooked
  <2>2. CASE g # h
    <3>1. handler'[h] = handler[h] /\ UNCHANGED call
      BY <1>3, <1>t, <2>2 DEF Mark, FindPayment, vars
    <3> QED BY <1>u, <3>1
  <2> QED BY <2>1, <2>2
<1>4. ASSUME NEW g \in Handlers, NoPayment(g) \/ Respond(g) \/ HandlerDies(g)
      PROVE  HandlerStep(h)
  BY <1>f, <1>4 DEF NoPayment, Respond, Return, HandlerDies, vars
<1>5. ASSUME NEW g \in Handlers, OnFunding(g) PROVE HandlerStep(h)
  <2>1. /\ UNCHANGED handler /\ call[g].pc = "idle"
        /\ \E new : call' = [call EXCEPT ![g] = new]
    BY <1>5 DEF OnFunding, ApplyFunding, Enter, Answer, webhooks
  <2>2. CASE g = h
    BY <1>u, <2>1, <2>2
  <2>3. CASE g # h
    BY <1>t, <1>u, <2>1, <2>3
  <2> QED BY <2>2, <2>3
<1>6. ASSUME NEW d \in Drivers, Drive(d) PROVE HandlerStep(h)
  <2>1. UNCHANGED handler /\ d # h
    BY <1>6 DEF Drive, webhooks
  <2>2. call'[h] = call[h]
    BY <1>6, <1>t, <2>1, StepCall
  <2> QED BY <1>u, <2>1, <2>2
<1>7. ASSUME NEW c \in Calls, Work(c), UNCHANGED webhooks PROVE HandlerStep(h)
  <2>1. UNCHANGED handler
    BY <1>7 DEF webhooks
  <2>2. call'[h] = call[h] \/ call'[h].pc \in {"failing", "returned"}
    <3>1. c = h => call[c].pc # "adapter"
      BY DEF CallbacksInv, HandlerCallOK
    <3> QED BY <1>7, <1>t, <3>1, WorkCall
  <2> QED BY <1>u, <2>1, <2>2
<1>8. CASE UNCHANGED webhookVars
  BY <1>u, <1>8 DEF webhookVars, webhooks, vars
<1> QED BY <1>1, <1>2, <1>3, <1>4, <1>5, <1>6, <1>7, <1>8 DEF WebhooksNext

LEMMA MemoryStep ==
  ASSUME TypeInv, WebhooksTypes, [WebhooksNext]_webhookVars, NEW p \in Payments
  PROVE  /\ overlap[p] => overlap'[p]
         /\ \/ processed'[p] = processed[p]
            \/ \E h \in Handlers :
                 /\ Mark(h) /\ handler[h].on = p
                 /\ processed'[p] = processed[p] \union {handler[h].checkout}
<1>t. /\ processed \in [Payments -> SUBSET Checkouts] /\ overlap \in [Payments -> BOOLEAN]
      /\ \A h \in Handlers : handler[h].on \in Payments
  BY DEF WebhooksTypes, HandlerState
<1>1. ASSUME NEW h \in Handlers, Mark(h)
      PROVE  /\ overlap[p] => overlap'[p]
             /\ \/ processed'[p] = processed[p]
                \/ /\ handler[h].on = p
                   /\ processed'[p] = processed[p] \union {handler[h].checkout}
  BY <1>1, <1>t DEF Mark
<1>2. ASSUME NEW q \in Payments, NEW k \in Checkouts, NEW h \in Handlers, Receive(h, q, k)
      PROVE  (overlap[p] => overlap'[p]) /\ processed'[p] = processed[p]
  BY <1>2, <1>t DEF Receive
<1>3. ASSUME ~\E h \in Handlers : Mark(h),
             ~\E q \in Payments, k \in Checkouts, h \in Handlers : Receive(h, q, k)
      PROVE  UNCHANGED <<processed, overlap>>
  BY <1>3 DEF WebhooksNext, Decide, FindPayment, NoPayment, OnFunding, Respond, Drive,
     HandlerDies, webhooks, webhookVars
<1> QED BY <1>1, <1>2, <1>3

LEMMA NextAloneInv ==
  TypeInv /\ WebhooksTypes /\ CallbacksInv /\ AloneInv /\ [WebhooksNext]_webhookVars
    => AloneInv'
<1> SUFFICES ASSUME TypeInv, WebhooksTypes, CallbacksInv, AloneInv, [WebhooksNext]_webhookVars,
                    NEW p \in Payments, ~overlap'[p]
             PROVE  /\ \A g, h \in Handlers :
                         handler'[g].at # "free" /\ handler'[g].on = p
                         /\ handler'[h].at # "free" /\ handler'[h].on = p => g = h
                    /\ \A h \in Handlers : handler'[h].at = "unseen" /\ handler'[h].on = p
                                             => handler'[h].checkout \notin processed'[p]
  BY DEF AloneInv
<1>t. handler \in [Handlers -> HandlerState] /\ overlap \in [Payments -> BOOLEAN]
  BY DEF WebhooksTypes
<1>0. ~overlap[p]
  BY MemoryStep
<1>1. CASE \E h \in Handlers, q \in Payments, k \in Checkouts : Receive(h, q, k)
  <2>1. PICK h \in Handlers, q \in Payments, k \in Checkouts : Receive(h, q, k)
    BY <1>1
  <2>2. /\ handler'[h].on = q /\ handler'[h].checkout = k /\ k \notin processed[q]
        /\ UNCHANGED processed
        /\ \A g \in Handlers : g # h => handler'[g] = handler[g]
        /\ handler[h].at = "free"
        /\ q = p => ~\E g \in Handlers : handler[g].at # "free" /\ handler[g].on = p
    BY <1>t, <2>1 DEF Receive
  <2> QED BY <1>0, <2>2 DEF AloneInv
<1>2. CASE ~\E h \in Handlers, q \in Payments, k \in Checkouts : Receive(h, q, k)
  <2>1. ASSUME NEW h \in Handlers, handler'[h].at # "free"
        PROVE  /\ handler[h].at # "free" /\ handler'[h].on = handler[h].on
               /\ handler'[h].checkout = handler[h].checkout
               /\ handler'[h].at = "unseen" => handler[h].at = "unseen"
    BY <1>2, <2>1, HandlerSteps DEF HandlerStep
  <2>2. ASSUME NEW g \in Handlers, NEW h \in Handlers,
               handler'[g].at # "free", handler'[g].on = p,
               handler'[h].at # "free", handler'[h].on = p
        PROVE  g = h
    BY <1>0, <2>1, <2>2 DEF AloneInv
  <2>3. ASSUME NEW h \in Handlers, handler'[h].at = "unseen", handler'[h].on = p
        PROVE  handler'[h].checkout \notin processed'[p]
    <3>1. /\ handler[h].at = "unseen" /\ handler[h].on = p
          /\ handler'[h].checkout = handler[h].checkout
          /\ handler[h].checkout \notin processed[p]
      BY <1>0, <2>1, <2>3 DEF AloneInv
    <3>2. ASSUME NEW g \in Handlers, Mark(g), handler[g].on = p PROVE FALSE
      <4>1. handler[g].at = "unseen" /\ handler'[g].at = "marked"
        BY <1>t, <3>2 DEF Mark, HandlerState
      <4> QED BY <1>0, <2>3, <3>1, <3>2, <4>1 DEF AloneInv
    <3> QED BY <3>1, <3>2, MemoryStep
  <2> QED BY <2>2, <2>3
<1> QED BY <1>1, <1>2

LEMMA SpentFinite ==
  ASSUME WebhooksTypes, NEW p \in Payments
  PROVE  Spent(p) \subseteq Checkouts /\ IsFiniteSet(Spent(p)) /\ Cardinality(Spent(p)) \in Nat
<1>1. Spent(p) \subseteq Checkouts
  BY DEF Spent, WebhooksTypes
<1>2. IsFiniteSet(Checkouts)
  BY FS_Interval, BoundAssumption DEF Checkouts
<1> QED BY <1>1, <1>2, FS_Subset, FS_CardinalityType

LEMMA SpentGrows ==
  ASSUME TypeInv, WebhooksTypes, CallbacksInv, AloneInv, [WebhooksNext]_webhookVars,
         NEW p \in Payments, ~overlap[p]
  PROVE  Spent(p) \subseteq Spent(p)'
<1> SUFFICES ASSUME NEW k \in Spent(p)
             PROVE  k \in processed'[p] /\ push'[p][k] = "paid" /\ ~Pending(p, k)'
  BY DEF Spent
<1>1. k \in processed[p] /\ k \in Checkouts /\ push[p][k] = "paid" /\ ~Pending(p, k)
  BY SpentFinite DEF Spent
<1>2. k \in processed'[p] /\ push'[p][k] = "paid"
  BY <1>1, MemoryStep, PaidStays
<1>3. ASSUME NEW h \in Handlers, Unbooked(h)', handler'[h].on = p, handler'[h].checkout = k
      PROVE  FALSE
  <2>1. /\ handler[h].on = p /\ handler[h].checkout = k
        /\ Unbooked(h) \/ Mark(h)
    BY <1>3, HandlerSteps DEF HandlerStep
  <2>2. CASE Unbooked(h)
    BY <1>1, <2>1, <2>2 DEF Pending
  <2>3. CASE Mark(h)
    BY <1>1, <2>1, <2>3 DEF Mark, AloneInv
  <2> QED BY <2>1, <2>2, <2>3
<1>4. ~Pending(p, k)'
  BY <1>3 DEF Pending
<1> QED BY <1>2, <1>4

\* A booking spends the push of its callback.
LEMMA BookingSpends ==
  ASSUME TypeInv, WebhooksTypes, CallbacksInv, AloneInv, [WebhooksNext]_webhookVars,
         NEW p \in Payments, ~overlap[p], NEW c \in Calls, CommitFunding(c), call[c].on = p,
         UNCHANGED webhooks
  PROVE  \E k : k \notin Spent(p) /\ k \in Spent(p)'
<1>1. /\ c \in Handlers /\ handler[c].at = "engine" /\ handler[c].on = p
      /\ call[c].pc = "commit"
      /\ handler[c].checkout \in Checkouts /\ push[p][handler[c].checkout] = "paid"
      /\ handler[c].checkout \in processed[p]
  BY FundingIsPaid DEF CallbacksInv, CallbackOK
<1>2. PICK k \in Checkouts : k = handler[c].checkout
  BY <1>1
<1>3. k \notin Spent(p)
  BY <1>1, <1>2 DEF Spent, Pending, Unbooked
<1>4. call'[c].pc = "returned"
  <2>1. \E op, result : Answer(c, call[c].on, op, result)
    BY DEF CommitFunding, Transition
  <2> QED BY <2>1 DEF Answer, TypeInv, TypeOK
<1>5. ~Pending(p, k)'
  <2>1. ASSUME NEW h \in Handlers, Unbooked(h)', handler'[h].on = p PROVE FALSE
    <3>1. handler[h].at # "free" /\ handler[h].on = p
      BY <2>1 DEF Unbooked, webhooks
    <3>2. h = c
      BY <1>1, <3>1 DEF AloneInv
    <3> QED BY <1>1, <1>4, <2>1, <3>2 DEF Unbooked, webhooks
  <2> QED BY <2>1 DEF Pending
<1>6. k \in processed'[p] /\ push'[p][k] = "paid"
  BY <1>1, <1>2 DEF webhooks
<1> QED BY <1>3, <1>5, <1>6 DEF Spent

LEMMA OneMore ==
  ASSUME NEW price \in Nat, NEW n \in Nat
  PROVE  price * (n + 1) = price * n + price /\ price * n \in Int
  OBVIOUS

LEMMA NextSpentInv ==
  TypeInv /\ WebhooksTypes /\ WebhooksTypes' /\ CallbacksInv /\ AloneInv /\ SpentInv
    /\ [WebhooksNext]_webhookVars => SpentInv'
<1> SUFFICES ASSUME TypeInv, WebhooksTypes, WebhooksTypes', CallbacksInv, AloneInv, SpentInv,
                    [WebhooksNext]_webhookVars, NEW p \in Payments, ~overlap'[p]
             PROVE  \E n \in Nat : n <= Cardinality(Spent(p)')
                                   /\ -Booked(p)' = Quote[p].allInMinorKes * n
  BY DEF SpentInv
<1>0. ~overlap[p]
  BY MemoryStep
<1>1. PICK n \in Nat : n <= Cardinality(Spent(p)) /\ -Booked(p) = Quote[p].allInMinorKes * n
  BY <1>0 DEF SpentInv
<1>2. /\ IsFiniteSet(Spent(p)) /\ Cardinality(Spent(p)) \in Nat
      /\ IsFiniteSet(Spent(p)') /\ Cardinality(Spent(p)') \in Nat
      /\ Spent(p) \subseteq Spent(p)'
  <2>1. Spent(p)' \subseteq Checkouts
    BY DEF Spent, WebhooksTypes
  <2>2. IsFiniteSet(Checkouts)
    BY FS_Interval, BoundAssumption DEF Checkouts
  <2>3. IsFiniteSet(Spent(p)') /\ Cardinality(Spent(p)') \in Nat
    BY <2>1, <2>2, FS_Subset, FS_CardinalityType
  <2> QED BY <1>0, <2>3, SpentFinite, SpentGrows
<1>3. CASE Booked(p)' = Booked(p)
  <2>1. Cardinality(Spent(p)) <= Cardinality(Spent(p)')
    BY <1>2, FS_Subset
  <2>2. n <= Cardinality(Spent(p)')
    BY <1>1, <1>2, <2>1
  <2> QED BY <1>1, <1>3, <2>2
<1>4. CASE Booked(p)' # Booked(p)
  <2>1. PICK c \in Calls : Work(c) /\ UNCHANGED webhooks
    BY <1>4, OtherBooks DEF Booked
  <2>2. /\ CommitFunding(c) /\ call[c].on = p
        /\ Booked(p)' = Booked(p) - Quote[p].allInMinorKes
    BY <1>4, <2>1, WorkBooks
  <2>3. PICK k : k \notin Spent(p) /\ k \in Spent(p)'
    BY <1>0, <2>1, <2>2, BookingSpends
  <2>4. Cardinality(Spent(p) \union {k}) = Cardinality(Spent(p)) + 1
    BY <1>2, <2>3, FS_AddElement
  <2>5. Cardinality(Spent(p) \union {k}) <= Cardinality(Spent(p)')
    <3>1. Spent(p) \union {k} \subseteq Spent(p)'
      BY <1>2, <2>3
    <3> QED BY <1>2, <3>1, FS_Subset
  <2>6. n + 1 <= Cardinality(Spent(p)')
    BY <1>1, <1>2, <2>4, <2>5
  <2>7. PICK price \in Nat : price = Quote[p].allInMinorKes
    BY QuoteAssumption
  <2>8. Booked(p) \in Int
    BY DEF Booked, TypeInv, TypeOK, Book, ACCOUNTS, KesAccounts
  <2>9. PICK before \in Int : before = Booked(p)
    BY <2>8
  <2>10. -(before - price) = -before + price
    OBVIOUS
  <2>11. -Booked(p)' = price * (n + 1)
    BY <1>1, <2>2, <2>7, <2>9, <2>10, OneMore
  <2> QED BY <2>6, <2>7, <2>11
<1> QED BY <1>3, <1>4

LEMMA ProductGrows ==
  ASSUME NEW price \in Nat, NEW n \in Nat, NEW m \in Nat, n <= m
  PROVE  price * n <= price * m
<1>1. PICK d \in Nat : m = n + d
  <2>1. m - n \in Nat /\ m = n + (m - n)
    OBVIOUS
  <2> QED BY <2>1
<1>2. price * (n + d) = price * n + price * d
  OBVIOUS
<1>3. price * d \in Nat /\ price * n \in Nat
  OBVIOUS
<1>4. \A a, b \in Nat : a <= a + b
  OBVIOUS
<1> QED BY <1>1, <1>2, <1>3, <1>4

LEMMA TimesZero ==
  ASSUME NEW price \in Nat
  PROVE  price * 0 = 0
  OBVIOUS

LEMMA MinusIsSubtraction ==
  ASSUME NEW n \in Int
  PROVE  -n = 0 - n
  OBVIOUS

LEMMA SpentInvSuffices ==
  TypeInv /\ WebhooksTypes /\ SpentInv => BookedOncePerPaidPush
<1> SUFFICES ASSUME TypeInv, WebhooksTypes, SpentInv, NEW p \in Payments, ~overlap[p]
             PROVE  -Booked(p) <= Quote[p].allInMinorKes * Cardinality(PaidPushes(p))
  BY DEF BookedOncePerPaidPush, BookedAtMostPaid, Booked
<1>1. PICK n \in Nat : n <= Cardinality(Spent(p)) /\ -Booked(p) = Quote[p].allInMinorKes * n
  BY DEF SpentInv
<1>2. PaidPushes(p) \subseteq Checkouts /\ Spent(p) \subseteq PaidPushes(p)
  BY SpentFinite DEF PaidPushes, Spent
<1>3. IsFiniteSet(PaidPushes(p)) /\ Cardinality(PaidPushes(p)) \in Nat
  <2>1. IsFiniteSet(Checkouts)
    BY FS_Interval, BoundAssumption DEF Checkouts
  <2> QED BY <1>2, <2>1, FS_Subset, FS_CardinalityType
<1>4. Cardinality(Spent(p)) <= Cardinality(PaidPushes(p))
  BY <1>2, <1>3, FS_Subset
<1>5. n <= Cardinality(PaidPushes(p))
  BY <1>1, <1>3, <1>4, SpentFinite
<1>6. PICK price \in Nat : price = Quote[p].allInMinorKes
  BY QuoteAssumption
<1> QED BY <1>1, <1>3, <1>5, <1>6, ProductGrows

LEMMA WebhooksInitSpent == WebhooksInit => AloneInv /\ SpentInv
<1> SUFFICES ASSUME WebhooksInit PROVE AloneInv /\ SpentInv
  OBVIOUS
<1>1. PICK p \in Payments : handler = [h \in Handlers |-> FreeHandler(p)]
  BY DEF WebhooksInit
<1>2. \A h \in Handlers : handler[h].at = "free"
  BY <1>1, FreeHandlerType
<1>3. ASSUME NEW q \in Payments
      PROVE  0 <= Cardinality(Spent(q)) /\ -Booked(q) = Quote[q].allInMinorKes * 0
  <2>1. Booked(q) = 0
    BY DEF WebhooksInit, Init, EmptyBook, NoEntries, ACCOUNTS, KesAccounts, Booked
  <2>2. Cardinality(Spent(q)) \in Nat
    BY WebhooksInitTypes, SpentFinite
  <2>3. PICK price \in Nat : price = Quote[q].allInMinorKes
    BY QuoteAssumption
  <2>4. price * 0 = 0
    BY TimesZero
  <2>5. -Booked(q) = 0
    <3>1. Booked(q) \in Int
      BY <2>1
    <3>2. -Booked(q) = 0 - Booked(q)
      BY <3>1, MinusIsSubtraction
    <3>3. 0 - 0 = 0
      OBVIOUS
    <3> QED BY <2>1, <3>2, <3>3
  <2> QED BY <2>2, <2>3, <2>4, <2>5
<1>4. 0 \in Nat
  OBVIOUS
<1> QED BY <1>2, <1>3, <1>4 DEF AloneInv, SpentInv

\* However often the callback of a paid push is delivered, and whatever calls of
\* step race with it, it is booked at most once, unless two handlers of one
\* payment have been at work at the same time.
THEOREM PushIsBookedOnce == WebhooksSpec => []BookedOncePerPaidPush
  BY WebhooksInitTypes, WebhooksInitInv, WebhooksInitSpent, WebhooksTypeInv,
     NextCallbacksInv, NextAloneInv, NextSpentInv, SpentInvSuffices, PTL DEF WebhooksSpec

=============================================================================
