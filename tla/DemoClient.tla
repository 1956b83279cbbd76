------------------------------ MODULE DemoClient ------------------------------
(***************************************************************************)
(* A payment as apps/web/lib/mock-client.ts keeps it in localStorage when  *)
(* there is no API: its stages follow a schedule, and are filled in        *)
(* whenever somebody reads.  Every call reads, changes and writes the      *)
(* store in one go.                                                        *)
(***************************************************************************)
EXTENDS PaymentStates, Integers, Sequences

\* What the browser is used for, chosen once: page, "send", "track" or "create"; http,
\* whether api() is the HTTP client or the demo client; open, the tabs that follow a
\* payment; and ahead, a bound on the requests of a tab that wait at a time.
VARIABLE scene

http == scene.http

HAPPY_PATH ==
  <<"Quoted", "AwaitingFunding", "Funded", "OnRamped", "Bridging", "Bridged",
    "PayingOut", "Settled">>

IndexOf(s) == IF \E i \in DOMAIN HAPPY_PATH : HAPPY_PATH[i] = s
              THEN CHOOSE i \in DOMAIN HAPPY_PATH : HAPPY_PATH[i] = s ELSE 0

STAGES_AFTER_FUNDED == <<"OnRamped", "Bridging", "Bridged", "PayingOut", "Settled">>

Unset == 0 - 1

\* status; the statuses its events lead to; and how many steps of the schedule have
\* passed since fundedAt.
DemoPayments ==
  [status : PAYMENT_STATUSES, events : Seq(PAYMENT_STATUSES),
   steps : {Unset} \union 0 .. Len(STAGES_AFTER_FUNDED)]

IsTerminal(s) == s \in TERMINAL_STATUSES

ApplyStage(p, to) == [p EXCEPT !.status = to, !.events = Append(@, to)]

\* The happy path after p.status, up to and including final.
AdvanceTo(p, final) ==
  LET ci == IndexOf(p.status)
      ti == IndexOf(final)
  IN IF ci = 0 \/ ti <= ci THEN p
     ELSE [p EXCEPT !.status = final, !.events = @ \o SubSeq(HAPPY_PATH, ci + 1, ti)]

\* The payment as the schedule has it by now, which the first call that reads finds out.
Tick(p) ==
  IF p.steps = Unset \/ IsTerminal(p.status) THEN p
  ELSE AdvanceTo(p, IF p.steps = 0 THEN "Funded" ELSE STAGES_AFTER_FUNDED[p.steps])

Reached(p) == {p.events[i] : i \in DOMAIN p.events}

HasReached(p, stage) ==
  \/ p.status = stage \/ stage \in Reached(p)
  \/ IndexOf(p.status) > IndexOf(stage)

\* The bookings listed for p, by what makes them.
LedgerFor(p) ==
  {s \in {"Funded", "OnRamped", "Bridged", "Settled"} : HasReached(p, s)}
    \union ({"Refunded"} \intersect {p.status})

\* A payment that is already at status.
MakePayment(status) ==
  LET new == [status |-> "AwaitingFunding", events |-> <<"Quoted", "AwaitingFunding">>,
              steps |-> Unset]
  IN IF status = "AwaitingFunding" THEN new
     ELSE IF status = "Refunded"
          THEN ApplyStage(ApplyStage(AdvanceTo(new, "Bridged"), "Refunding"), "Refunded")
     ELSE IF status = "Failed" THEN ApplyStage(new, "Failed")
     ELSE AdvanceTo([new EXCEPT !.steps = Len(STAGES_AFTER_FUNDED)], status)

\* What the demo starts with.
Seed == {MakePayment(s) : s \in {"Settled", "AwaitingFunding", "Refunded"}}

SimulateFunding(p) ==
  IF p.status = "AwaitingFunding" THEN ApplyStage([p EXCEPT !.steps = 0], "Funded") ELSE p

RetryPayment(p) ==
  IF ~IsTerminal(p.status) /\ p.steps = Unset /\ p.status # "AwaitingFunding"
  THEN [p EXCEPT !.steps = 0] ELSE p

\* Faulty variant of the next: the guard on payments that are over is missing.
RefundAnything(p) ==
  ApplyStage(ApplyStage([p EXCEPT !.steps = Unset], "Refunding"), "Refunded")

RefundPayment(p) ==
  IF IsTerminal(p.status) THEN p
  ELSE ApplyStage(ApplyStage([p EXCEPT !.steps = Unset], "Refunding"), "Refunded")

\* A call of the demo client on the payment, after read has brought it up to date.
Calls == {"getPayment", "simulateFunding", "retryPayment", "refundPayment"}

Called(call, p) ==
  LET now == Tick(p) IN
    CASE call = "getPayment" -> now
      [] call = "simulateFunding" -> SimulateFunding(now)
      [] call = "retryPayment" -> RetryPayment(now)
      [] call = "refundPayment" -> RefundPayment(now)

=============================================================================
