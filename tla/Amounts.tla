------------------------------ MODULE Amounts ------------------------------
(***************************************************************************)
(* The amounts of a payment as they are computed, one after another, from  *)
(* the shillings sent: the quote (fx.service, and the browser's own copy), *)
(* the on-ramped USDC, the Hong Kong dollars of the payout, the shillings  *)
(* an STK push asks for, and what the summary of the send page and the     *)
(* payment pages show (settlement.ts).                                     *)
(*                                                                         *)
(* Amounts are integers of minor units, as in packages/shared/src/money.ts *)
(* A rate is the fraction its decimal stands for.  The code multiplies in  *)
(* floating point and rounds, so an exact half may go to either side: a    *)
(* conversion is the set of results it can have.  The columns a step       *)
(* stores its sum in are 32 bits wide; the database refuses what is wider. *)
(***************************************************************************)
EXTENDS Integers, FiniteSetsExt

CONSTANT SendAmounts   \* sums to send, in minor units of KES

ASSUME SendAmountsArePositive == SendAmounts \subseteq Nat \ {0} /\ SendAmounts # {}

\* The largest value of a Prisma Int column (and of TLC's integers).
IntMax == 2147483647

VARIABLE sums   \* the sums of a payment, as far as they are known (0 where not)

Sums ==
  [at : {"typed", "quoted", "asked", "onRamped", "refused", "paidOut"},
   sendMinorKes : Nat, usdMinor : Nat, receiveMinorCny : Nat, feeMinorKes : Nat,
   allInMinorKes : Nat, shillings : Nat, usdcMinor : Nat, hkdMinor : Nat]

Distance(a, b) == IF a < b THEN b - a ELSE a - b

(***************************************************************************)
(* money.ts                                                                *)
(***************************************************************************)
\* n * p \div q and what is left of it, without forming n * p.
Whole(n, p, q) == (n \div q) * p
Rest(n, p, q) == (n % q) * p

\* The integers nearest to n * p / q: one of them, or two at an exact half.
toMinor(n, p, q) ==
  LET down == Rest(n, p, q) \div q
  IN {Whole(n, p, q) + k :
        k \in {k \in {down, down + 1} : 2 * Distance(k * q, Rest(n, p, q)) <= q}}

\* n minor units of one currency in minor units of another: the rate is the
\* fraction that also carries the difference of their decimals.
convertMinor(n, rate) == toMinor(n, rate[1], rate[2])

\* A product of integers, exact in floating point: Math.round takes a half up.
bpsOf(n, bps) == Max(toMinor(n, bps, 10000))

\* 1 USD = 129.5 KES = 7.18 CNY = 7.8 HKD, and a USDC has six decimals.
KesToUsd == <<2, 259>>
KesToUsdc == <<20000, 259>>
UsdTo == [CNY |-> <<718, 100>>, CNH |-> <<719, 100>>, HKD |-> <<78, 10>>,
          USD |-> <<1, 1>>, USDC |-> <<1, 1>>]
UsdcToHkd == <<78, 100000>>

(***************************************************************************)
(* A payment's sums, step by step.                                         *)
(***************************************************************************)
MarginBps == 120

Typed(send) ==
  [at |-> "typed", sendMinorKes |-> send, usdMinor |-> 0, receiveMinorCny |-> 0,
   feeMinorKes |-> 0, allInMinorKes |-> 0, shillings |-> 0, usdcMinor |-> 0, hkdMinor |-> 0]

AmountsInit == \E send \in SendAmounts : sums = Typed(send)

\* The sums of a quote, which the API and the demo client compute alike.
buildQuote(send) ==
  LET fee == bpsOf(send, MarginBps)
      quoteOf(usd, cny) ==
        [Typed(send) EXCEPT !.at = "quoted", !.usdMinor = usd, !.receiveMinorCny = cny,
                            !.feeMinorKes = fee, !.allInMinorKes = send + fee]
  IN UNION {{quoteOf(usd, cny) : cny \in convertMinor(usd, UsdTo.CNY)} :
              usd \in convertMinor(send, KesToUsd)}

\* A quote; the payment made from it copies its sums.
createQuote ==
  /\ sums.at = "typed"
  /\ sums' \in buildQuote(sums.sendMinorKes)

\* A live STK push asks for whole shillings, at least one.
StkPush ==
  /\ sums.at = "quoted"
  /\ sums' = [sums EXCEPT !.at = "asked",
                !.shillings = Max({1} \union toMinor(sums.allInMinorKes, 1, 100))]

\* The column usdcMinor can hold what the sum converts to.
UsdcFits(send) ==
  LET p == KesToUsdc[1]
      q == KesToUsdc[2]
  IN /\ send \div q <= IntMax \div p
     /\ (2 * Rest(send, p, q) + q) \div (2 * q) <= IntMax - Whole(send, p, q)

\* Faulty: on-ramps the sum collected, the fee included.
convertAllIn ==
  /\ sums.at = "asked" /\ UsdcFits(sums.allInMinorKes)
  /\ \E usdc \in convertMinor(sums.allInMinorKes, KesToUsdc) :
       sums' = [sums EXCEPT !.at = "onRamped", !.usdcMinor = usdc]

\* The on-ramp converts the shillings themselves, not the quote's dollars.
convertKesToUsdc ==
  /\ sums.at = "asked" /\ UsdcFits(sums.sendMinorKes)
  /\ \E usdc \in convertMinor(sums.sendMinorKes, KesToUsdc) :
       sums' = [sums EXCEPT !.at = "onRamped", !.usdcMinor = usdc]

\* The step cannot store what the on-ramp answered; no later one runs.
RefusedByColumn ==
  /\ sums.at = "asked" /\ ~UsdcFits(sums.sendMinorKes)
  /\ sums' = [sums EXCEPT !.at = "refused"]

hkFxQuote ==
  /\ sums.at = "onRamped"
  /\ \E hkd \in convertMinor(sums.usdcMinor, UsdcToHkd) :
       sums' = [sums EXCEPT !.at = "paidOut", !.hkdMinor = hkd]

\* Another payment of the same sum.
NextPayment ==
  /\ sums.at \in {"refused", "paidOut"}
  /\ sums' = Typed(sums.sendMinorKes)

AmountsNext ==
  createQuote \/ StkPush \/ convertKesToUsdc \/ RefusedByColumn \/ hkFxQuote \/ NextPayment

(***************************************************************************)
(* settlement.ts                                                           *)
(***************************************************************************)
\* From the dearest to the cheapest.
SettlementOptions == <<"CNY", "CNH", "HKD", "USD", "USDC">>

Margin == [CNY |-> 120, CNH |-> 85, HKD |-> 70, USD |-> 55, USDC |-> 30]

BaselineBps == 120

receiveMinorFor(usd, currency) == convertMinor(usd, UsdTo[currency])

\* What the summary shows for the quote when the supplier accepts the currency.
settlementQuote(currency) ==
  LET fee == bpsOf(sums.sendMinorKes, Margin[currency])
  IN [feeMinorKes |-> fee,
      allInMinorKes |-> sums.sendMinorKes + fee,
      receives |-> receiveMinorFor(sums.usdMinor, currency),
      savingsMinorKes |-> Max({0, bpsOf(sums.sendMinorKes, BaselineBps) - fee})]

\* The summary of the send page, for a supplier who accepts the nth currency.
Summary(n) == settlementQuote(SettlementOptions[n])

(***************************************************************************)
(* Properties                                                              *)
(***************************************************************************)
\* The greatest sum whose USDC fits its column: KES 278,099.13.
OnRampLimit == 27809913

\* The summary for onshore yuan is the quote; no currency further down the
\* list costs more, and what the summary calls a saving is exactly the part of
\* the quote's fee that it does not show.
SummaryAddsUp ==
  /\ Summary(1).allInMinorKes = sums.allInMinorKes
  /\ sums.receiveMinorCny \in Summary(1).receives
  /\ \A n \in 2..5 : Summary(n).feeMinorKes <= Summary(n - 1).feeMinorKes
  /\ \A n \in 1..5 :
       Summary(n).allInMinorKes + Summary(n).savingsMinorKes = sums.allInMinorKes

\* The sums of a payment are computed at several places, from different
\* sources and with a rounding each, and agree to the stated cents: the summary
\* with the quote; the shillings asked for with the sum booked, to half a
\* shilling; the USDC bridged with the dollars booked, to half a cent; and the
\* Hong Kong dollars paid out with those on the exporter's page, to four cents.
\* A payment is refused midway exactly if it is above the limit
\* (fx.service.ts:22, onramp.adapter.ts:37, china-payout.adapter.ts:36,
\* mpesa.adapter.ts:61, settlement.ts:102, schema.prisma:127).
SumsAgree ==
  /\ sums \in Sums
  /\ sums.at # "typed" => SummaryAddsUp
  /\ sums.at = "asked" /\ sums.allInMinorKes >= 50 =>
       Distance(100 * sums.shillings, sums.allInMinorKes) <= 50
  /\ sums.at \in {"onRamped", "paidOut"} =>
       Distance(sums.usdcMinor, 10000 * sums.usdMinor) <= 5000
  /\ sums.at = "paidOut" =>
       \A shown \in receiveMinorFor(sums.usdMinor, "HKD") : Distance(sums.hkdMinor, shown) <= 4
  /\ sums.at = "refused" => sums.sendMinorKes > OnRampLimit
  /\ sums.at = "onRamped" => sums.sendMinorKes <= OnRampLimit

=============================================================================
