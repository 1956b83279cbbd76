-------------------------- MODULE MCWebhookDelivery --------------------------
(***************************************************************************)
(* An instance of WebhookDelivery for TLC.                                 *)
(***************************************************************************)
EXTENDS WebhookDelivery

CONSTANTS p1, h1, h2, d1, d2

MCQuote == [p \in Payments |->
              [allInMinorKes |-> 13, sendMinorKes |-> 11, receiveMinorCny |-> 7]]

MCNoMarker == [p \in Payments |-> "none"]

\* Two handlers beside one other call, with repeated deliveries; and one handler
\* beside two other calls, which can race for the checkout id.
MCSettings == {[slots |-> {h1, h2, d1}, deliveries |-> 2],
               [slots |-> {h1, d1, d2}, deliveries |-> 1]}

=============================================================================
