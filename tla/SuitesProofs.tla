----------------------------- MODULE SuitesProofs -----------------------------
(***************************************************************************)
(* Theorems of Suites: what the verification suite concludes about a       *)
(* payment while the engine moves it, what the testbed and the others may  *)
(* conclude about a transfer, and how far apart the sums of a payment are. *)
(***************************************************************************)
EXTENDS Suites, PaymentHistoryProofs

USE ConversionAssumption

(***************************************************************************)
(* The engine, as the suite sees it.  What a leg has put on the outer      *)
(* account of its side only grows: no later leg and no reversal touches    *)
(* the postings of that account.  This holds whatever transactions race.   *)
(***************************************************************************)
\* A quote of nothing would leave no posting to look for.
QuotesCount ==
  \A p \in Payments : Quote[p].allInMinorKes > 0 /\ Quote[p].receiveMinorCny > 0

Legged == {"Funded", "OnRamped", "Bridged", "Settled"}

\* What the leg that a status stands for has moved.
LegOf(f, status) ==
  CASE status = "Funded"   -> 0 - f["importer_external"]
    [] status = "OnRamped" -> 0 - f["onramp_external_usdc"]
    [] status = "Bridged"  -> f["hk_usdc"] + f["payout_external_usdc"]
    [] status = "Settled"  -> 0 - f["supplier_paid_cny"]

LegsInv ==
  \A p \in Payments, s \in Legged :
    /\ LegOf(ledger[p].posted, s) \in Nat
    /\ Happened(p, s) => LegOf(ledger[p].posted, s) > 0

Converted == {"OnRamped", "Bridging", "Bridged", "PayingOut", "Settled"}

\* Every conversion answers the same, so no row and no call holds another sum.
UsdcInv ==
  /\ \A p \in Payments, s \in Converted : Happened(p, s) => pay[p].usdcMinor = ExpectedUsdc
  /\ \A c \in Calls : InFlight(c) /\ call[c].snap.status \in Converted
                        => call[c].snap.usdcMinor = ExpectedUsdc

\* What a transaction adds to the legs.
LEMMA LegGrows ==
  ASSUME NEW f \in [ACCOUNTS -> Int], NEW n \in Nat
  PROVE  /\ \A s \in Legged :
              LegOf(Leg(f, "mpesa_collected", "importer_external", n), s)
                = IF s = "Funded" THEN LegOf(f, s) + n ELSE LegOf(f, s)
         /\ \A s \in Legged :
              LegOf(Leg(f, "onramp_external_kes", "mpesa_collected", n), s)
                = LegOf(f, s)
         /\ \A s \in Legged :
              LegOf(Leg(f, "treasury_usdc", "onramp_external_usdc", n), s)
                = IF s = "OnRamped" THEN LegOf(f, s) + n ELSE LegOf(f, s)
         /\ \A s \in Legged :
              LegOf(Leg(f, "hk_usdc", "treasury_usdc", n), s)
                = IF s = "Bridged" THEN LegOf(f, s) + n ELSE LegOf(f, s)
         /\ \A s \in Legged :
              LegOf(Leg(f, "payout_external_usdc", "hk_usdc", n), s)
                = LegOf(f, s)
         /\ \A s \in Legged :
              LegOf(Leg(f, "payout_external_cny", "supplier_paid_cny", n), s)
                = IF s = "Settled" THEN LegOf(f, s) + n ELSE LegOf(f, s)
<1> USE DEF Leg, LegOf, Legged, ACCOUNTS, KesAccounts, UsdcAccounts, CnyAccounts
<1>1. \A s \in Legged :
        LegOf(Leg(f, "mpesa_collected", "importer_external", n), s)
                = IF s = "Funded" THEN LegOf(f, s) + n ELSE LegOf(f, s)
  OBVIOUS
<1>2. \A s \in Legged :
        LegOf(Leg(f, "onramp_external_kes", "mpesa_collected", n), s)
                = LegOf(f, s)
  OBVIOUS
<1>3. \A s \in Legged :
        LegOf(Leg(f, "treasury_usdc", "onramp_external_usdc", n), s)
                = IF s = "OnRamped" THEN LegOf(f, s) + n ELSE LegOf(f, s)
  OBVIOUS
<1>4. \A s \in Legged :
        LegOf(Leg(f, "hk_usdc", "treasury_usdc", n), s)
                = IF s = "Bridged" THEN LegOf(f, s) + n ELSE LegOf(f, s)
  OBVIOUS
<1>5. \A s \in Legged :
        LegOf(Leg(f, "payout_external_usdc", "hk_usdc", n), s)
                = LegOf(f, s)
  OBVIOUS
<1>6. \A s \in Legged :
        LegOf(Leg(f, "payout_external_cny", "supplier_paid_cny", n), s)
                = IF s = "Settled" THEN LegOf(f, s) + n ELSE LegOf(f, s)
  OBVIOUS
<1> HIDE DEF Leg, LegOf
<1> QED BY <1>1, <1>2, <1>3, <1>4, <1>5, <1>6

\* The transaction of a call adds to a leg, or leaves it, and has added when the status
\* it writes is the one the leg stands for.
LEMMA CommitLegs ==
  ASSUME TypeInv, LegsInv, UsdcInv, AnsweredOK, QuotesCount, NEW c \in Calls, Commit(c),
         NEW p \in Payments, call[c].on = p, NEW s \in Legged
  PROVE  /\ LegOf(ledger'[p].posted, s) \in Nat
         /\ LegOf(ledger'[p].posted, s) >= LegOf(ledger[p].posted, s)
         /\ pay'[p].status = s => LegOf(ledger'[p].posted, s) > 0
<1>1. PICK book \in Book : book = ledger[p]
  BY DEF TypeInv, TypeOK
<1>2. PICK f \in [ACCOUNTS -> Int] : f = book.posted
  BY DEF Book
<1>3. /\ LegOf(f, s) \in Nat
      /\ ledger \in [Payments -> Book] /\ pay \in [Payments -> PayRow]
      /\ call[c].got \in Nat /\ call[c].snap.usdcMinor \in Nat /\ pay[p] \in PayRow
      /\ Quote[p].sendMinorKes \in Nat
      /\ Quote[p].allInMinorKes \in Nat /\ Quote[p].allInMinorKes > 0
      /\ Quote[p].receiveMinorCny \in Nat /\ Quote[p].receiveMinorCny > 0
  BY <1>1, <1>2, QuoteAssumption DEF LegsInv, TypeInv, TypeOK, CallState, PayRow, QuotesCount
<1>w. ASSUME NEW to, NEW row \in PayRow, NEW result, Transition(c, to, row, result)
      PROVE  pay'[p].status = to
  <2>1. pay'[p] = [row EXCEPT !.status = to]
    BY <1>3, <1>w DEF Transition
  <2> QED BY <2>1 DEF PayRow
<1>4. CASE DoInitiateFunding(c)
  <2>1. call[c].got \in Ids
    BY <1>4 DEF DoInitiateFunding, Committing, TypeInv, AnswersOK
  <2>2. [pay[p] EXCEPT !.mpesaCheckoutId = call[c].got] \in PayRow
    BY <1>3, <2>1 DEF PayRow
  <2>3. pay'[p].status = "AwaitingFunding" /\ ledger'[p] = book
    BY <1>1, <1>w, <1>4, <2>2 DEF DoInitiateFunding
  <2> QED BY <1>2, <1>1, <1>3, <2>3 DEF Legged
<1>5. CASE CommitFunding(c)
  <2>1. PICK n \in Nat : n = Quote[p].allInMinorKes /\ n > 0
    BY <1>3
  <2>2. ledger'[p] = PostPair(book, "mpesa_collected", "importer_external", n)
    BY <1>1, <1>3, <1>5, <2>1 DEF CommitFunding, Post
  <2>3. ledger'[p].posted = Leg(f, "mpesa_collected", "importer_external", n)
    BY <1>2, <2>2, PostPairIsLeg
  <2>4. LegOf(ledger'[p].posted, s) = IF s = "Funded" THEN LegOf(f, s) + n ELSE LegOf(f, s)
    BY <2>3, LegGrows
  <2>5. pay'[p].status = "Funded"
    BY <1>3, <1>w, <1>5 DEF CommitFunding
  <2> QED BY <1>1, <1>2, <1>3, <2>1, <2>4, <2>5
<1>6. CASE DoOnRamp(c)
  <2>1. PICK n \in Nat : n = call[c].got
    BY <1>3
  <2>2. n > 0
    BY <1>6, <2>1, UsdcAssumption
       DEF DoOnRamp, Committing, AnsweredOK, AnswersAt
  <2>3. PICK one \in Book : one = PostPair(book, "onramp_external_kes", "mpesa_collected",
                                          Quote[p].sendMinorKes)
    BY <1>3, PostPairIsBook
  <2>4. PICK g \in [ACCOUNTS -> Int] : g = one.posted
    BY DEF Book
  <2>5. g = Leg(f, "onramp_external_kes", "mpesa_collected", Quote[p].sendMinorKes)
    BY <1>2, <1>3, <2>3, <2>4, PostPairIsLeg
  <2>6. LegOf(g, s) = LegOf(f, s)
    BY <1>3, <2>5, LegGrows
  <2>7. ledger'[p] = PostPair(one, "treasury_usdc", "onramp_external_usdc", n)
    BY <1>1, <1>3, <1>6, <2>1, <2>3 DEF DoOnRamp
  <2>8. ledger'[p].posted = Leg(g, "treasury_usdc", "onramp_external_usdc", n)
    BY <2>4, <2>7, PostPairIsLeg
  <2>9. LegOf(ledger'[p].posted, s) = IF s = "OnRamped" THEN LegOf(g, s) + n ELSE LegOf(g, s)
    BY <2>8, LegGrows
  <2>10. [pay[p] EXCEPT !.usdcMinor = call[c].got] \in PayRow
    BY <1>3 DEF PayRow
  <2>11. pay'[p].status = "OnRamped"
    BY <1>w, <1>6, <2>10 DEF DoOnRamp
  <2> QED BY <1>1, <1>2, <1>3, <2>1, <2>2, <2>6, <2>9, <2>11
<1>7. CASE DoBridgeSend(c)
  <2>1. call[c].got \in Ids
    BY <1>7 DEF DoBridgeSend, Committing, TypeInv, AnswersOK
  <2>2. [pay[p] EXCEPT !.walletTxHash = call[c].got] \in PayRow
    BY <1>3, <2>1 DEF PayRow
  <2>3. pay'[p].status = "Bridging" /\ ledger'[p] = book
    BY <1>1, <1>w, <1>7, <2>2 DEF DoBridgeSend
  <2> QED BY <1>1, <1>2, <1>3, <2>3 DEF Legged
<1>8. CASE DoBridgeConfirm(c)
  <2>1. PICK n \in Nat : n = call[c].snap.usdcMinor
    BY <1>3
  <2>2. n > 0
    <3>1. InFlight(c) /\ call[c].snap.status \in Converted
      BY <1>8 DEF DoBridgeConfirm, Committing, InFlight, Converted
    <3> QED BY <2>1, <3>1 DEF UsdcInv
  <2>3. ledger'[p] = PostPair(book, "hk_usdc", "treasury_usdc", n)
    BY <1>1, <1>3, <1>8, <2>1 DEF DoBridgeConfirm, Post
  <2>4. ledger'[p].posted = Leg(f, "hk_usdc", "treasury_usdc", n)
    BY <1>2, <2>3, PostPairIsLeg
  <2>5. LegOf(ledger'[p].posted, s) = IF s = "Bridged" THEN LegOf(f, s) + n ELSE LegOf(f, s)
    BY <2>4, LegGrows
  <2>6. pay'[p].status = "Bridged"
    BY <1>3, <1>w, <1>8 DEF DoBridgeConfirm
  <2> QED BY <1>1, <1>2, <1>3, <2>1, <2>2, <2>5, <2>6
<1>9. CASE DoCreatePayout(c)
  <2>1. PICK n \in Nat : n = call[c].snap.usdcMinor
    BY <1>3
  <2>2. ledger'[p] = PostPair(book, "payout_external_usdc", "hk_usdc", n)
    BY <1>1, <1>3, <1>9, <2>1 DEF DoCreatePayout, Post
  <2>3. ledger'[p].posted = Leg(f, "payout_external_usdc", "hk_usdc", n)
    BY <1>2, <2>2, PostPairIsLeg
  <2>4. LegOf(ledger'[p].posted, s) = LegOf(f, s)
    BY <2>3, LegGrows
  <2>5. call[c].got \in Ids
    BY <1>9 DEF DoCreatePayout, Committing, TypeInv, AnswersOK
  <2>6. [pay[p] EXCEPT !.payoutId = call[c].got] \in PayRow
    BY <1>3, <2>5 DEF PayRow
  <2>7. pay'[p].status = "PayingOut"
    BY <1>w, <1>9, <2>6 DEF DoCreatePayout
  <2> QED BY <1>1, <1>2, <1>3, <2>4, <2>7 DEF Legged
<1>10. CASE DoConfirmPayout(c)
  <2>1. PICK n \in Nat : n = Quote[p].receiveMinorCny /\ n > 0
    BY <1>3
  <2>2. ledger'[p] = PostPair(book, "payout_external_cny", "supplier_paid_cny", n)
    BY <1>1, <1>3, <1>10, <2>1 DEF DoConfirmPayout, Post
  <2>3. ledger'[p].posted = Leg(f, "payout_external_cny", "supplier_paid_cny", n)
    BY <1>2, <2>2, PostPairIsLeg
  <2>4. LegOf(ledger'[p].posted, s) = IF s = "Settled" THEN LegOf(f, s) + n ELSE LegOf(f, s)
    BY <2>3, LegGrows
  <2>5. pay'[p].status = "Settled"
    BY <1>3, <1>w, <1>10 DEF DoConfirmPayout
  <2> QED BY <1>1, <1>2, <1>3, <2>1, <2>4, <2>5
<1>11. CASE FailUnfunded(c)
  <2>1. pay'[p].status = "Failed" /\ ledger'[p] = book
    BY <1>1, <1>3, <1>w, <1>11 DEF FailUnfunded
  <2> QED BY <1>1, <1>2, <1>3, <2>1 DEF Legged
<1>12. CASE CompensateFunded(c)
  <2>1. pay'[p].status = "Refunded" /\ ledger'[p] = ReverseAll(book)
    BY <1>1, <1>3, <1>12 DEF CompensateFunded, PayRow
  <2>2. ledger'[p].posted = f
    BY <1>2, <2>1 DEF ReverseAll, Book
  <2> QED BY <1>1, <1>2, <1>3, <2>1, <2>2 DEF Legged
<1> QED
  BY <1>4, <1>5, <1>6, <1>7, <1>8, <1>9, <1>10, <1>11, <1>12 DEF Commit

\* An event that is new says what the transaction has written.
LEMMA NewEvent ==
  ASSUME TypeInv, NEW c \in Calls, Writes(c), NEW p \in Payments, NEW s,
         Happened(p, s)', ~Happened(p, s)
  PROVE  /\ call[c].on = p
         /\ s = pay'[p].status \/ (s = "Refunding" /\ pay'[p].status = "Refunded")
<1>1. PICK row, log :
        /\ pay' = [pay EXCEPT ![call[c].on] = row]
        /\ events' = [events EXCEPT ![call[c].on] = log]
        /\ row.status \in PAYMENT_STATUSES /\ Moved(c, row.status, log)
  BY DEF Writes
<1>t. /\ pay \in [Payments -> PayRow] /\ events \in [Payments -> Seq(EventRow)]
      /\ call[c].snap.status \in PAYMENT_STATUSES
      /\ "Refunding" \in PAYMENT_STATUSES /\ "Refunded" \in PAYMENT_STATUSES
  BY DEF TypeInv, TypeOK, CallState, PayRow, PAYMENT_STATUSES
<1>2. call[c].on = p
  <2>1. call[c].on # p => events'[p] = events[p]
    BY <1>1, <1>t
  <2> QED BY <2>1 DEF Happened
<1>3. events'[p] = log /\ pay'[p] = row
  BY <1>1, <1>2, <1>t
<1>4. PICK i \in 1..Len(log) : log[i].to = s
  BY <1>3 DEF Happened
<1>5. PICK old \in Seq(EventRow) : old = events[p]
  BY <1>t
<1>6. \A j \in 1..Len(old) : old[j].to # s
  BY <1>5 DEF Happened
<1>7. ASSUME NEW base \in Seq(EventRow), NEW from \in PAYMENT_STATUSES,
             NEW to \in PAYMENT_STATUSES, NEW j \in 1..Len(Append(base, Change(from, to)))
      PROVE  \/ j \in 1..Len(base) /\ Append(base, Change(from, to))[j] = base[j]
             \/ Append(base, Change(from, to))[j].to = to
  <2>0. Change(from, to) \in EventRow /\ Change(from, to).to = to
    BY DEF Change, EventRow
  <2>1. PICK e \in EventRow : e = Change(from, to) /\ e.to = to
    BY <2>0
  <2>2. /\ Len(Append(base, e)) = Len(base) + 1 /\ Append(base, e)[Len(base) + 1] = e
        /\ \A k \in 1..Len(base) : Append(base, e)[k] = base[k]
    <3> HIDE DEF EventRow
    <3> QED OBVIOUS
  <2>3. Len(base) \in Nat
    OBVIOUS
  <2> QED BY <2>1, <2>2, <2>3
<1>8. CASE log = Append(old, Change(call[c].snap.status, row.status))
  <2>1. row.status = s
    BY <1>1, <1>4, <1>6, <1>7, <1>8, <1>t
  <2> QED BY <1>2, <1>3, <2>1
<1>9. CASE /\ row.status = "Refunded"
           /\ log = Append(Append(old, Change(call[c].snap.status, "Refunding")),
                           Change("Refunding", "Refunded"))
  <2>1. PICK half \in Seq(EventRow) : half = Append(old, Change(call[c].snap.status, "Refunding"))
    BY <1>t, AppendKeeps DEF Change, EventRow
  <2>2. log = Append(half, Change("Refunding", "Refunded"))
    BY <1>9, <2>1
  <2>3. (i \in 1..Len(half) /\ log[i] = half[i]) \/ log[i].to = "Refunded"
    BY <1>4, <1>7, <1>t, <2>2
  <2>4. s \in {"Refunding", "Refunded"}
    <3>1. CASE i \in 1..Len(half) /\ log[i] = half[i]
      <4>1. (i \in 1..Len(old) /\ half[i] = old[i]) \/ half[i].to = "Refunding"
        BY <1>7, <1>t, <2>1, <3>1
      <4> QED BY <1>4, <1>6, <3>1, <4>1
    <3> QED BY <1>4, <2>3, <3>1
  <2> QED BY <1>2, <1>3, <1>9, <2>4
<1> QED BY <1>1, <1>2, <1>5, <1>8, <1>9 DEF Moved

LEMMA NextLegsInv ==
  ASSUME QuotesCount
  PROVE  TypeInv /\ LegsInv /\ UsdcInv /\ AnsweredOK /\ [Next]_vars => LegsInv'
<1> SUFFICES ASSUME TypeInv, LegsInv, UsdcInv, AnsweredOK, [Next]_vars,
                    NEW p \in Payments, NEW s \in Legged
             PROVE  /\ LegOf(ledger'[p].posted, s) \in Nat
                    /\ Happened(p, s)' => LegOf(ledger'[p].posted, s) > 0
  BY DEF LegsInv, LegOf
<1>t. /\ ledger \in [Payments -> Book]
      /\ LegOf(ledger[p].posted, s) \in Nat
      /\ Happened(p, s) => LegOf(ledger[p].posted, s) > 0
  BY DEF TypeInv, TypeOK, LegsInv
<1>1. CASE UNCHANGED rows
  <2>1. ledger'[p] = ledger[p] /\ (Happened(p, s)' => Happened(p, s))
    BY <1>1 DEF rows, Happened
  <2> QED BY <1>t, <2>1
<1>2. ASSUME NEW c \in Calls, Commit(c)
      PROVE  /\ LegOf(ledger'[p].posted, s) \in Nat
             /\ Happened(p, s)' => LegOf(ledger'[p].posted, s) > 0
  <2>1. Writes(c)
    BY <1>2, CommitWrites
  <2>2. CASE call[c].on # p
    <3>1. ledger'[p] = ledger[p] /\ (Happened(p, s)' => Happened(p, s))
      BY <1>t, <2>1, <2>2, NewEvent DEF Writes
    <3> QED BY <1>t, <3>1
  <2>3. CASE call[c].on = p
    <3>1. Happened(p, s)' => Happened(p, s) \/ s = pay'[p].status
      BY <2>1, NewEvent DEF Legged
    <3>2. /\ LegOf(ledger'[p].posted, s) \in Nat
          /\ LegOf(ledger'[p].posted, s) >= LegOf(ledger[p].posted, s)
          /\ pay'[p].status = s => LegOf(ledger'[p].posted, s) > 0
      BY <1>2, <2>3, CommitLegs
    <3> QED BY <1>t, <3>1, <3>2
  <2> QED BY <2>2, <2>3
<1> QED BY <1>1, <1>2, RowsStep

\* A transaction writes the sum that its row holds already, or the one answered.
LEMMA CommitUsdc ==
  ASSUME TypeInv, AnsweredOK, NEW c \in Calls, Commit(c), NEW p \in Payments, call[c].on = p
  PROVE  \/ pay'[p].usdcMinor = ExpectedUsdc
         \/ /\ pay'[p].usdcMinor = pay[p].usdcMinor
            /\ pay'[p].status \in Converted => call[c].snap.status \in Converted
<1>1. PICK row \in PayRow : row = pay[p]
  BY DEF TypeInv, TypeOK
<1>2. PICK got \in Nat : got = call[c].got
  BY DEF TypeInv, TypeOK, CallState
<1>t. pay \in [Payments -> PayRow]
  BY DEF TypeInv, TypeOK
<1>w. ASSUME NEW to, NEW patched \in PayRow, NEW result, Transition(c, to, patched, result)
      PROVE  pay'[p].status = to /\ pay'[p].usdcMinor = patched.usdcMinor
  <2>1. pay'[p] = [patched EXCEPT !.status = to]
    BY <1>t, <1>w DEF Transition
  <2> QED BY <2>1 DEF PayRow
<1>3. CASE DoInitiateFunding(c)
  <2>1. got \in Ids
    BY <1>2, <1>3 DEF DoInitiateFunding, Committing, TypeInv, AnswersOK
  <2>2. PICK patched \in PayRow : /\ patched = [row EXCEPT !.mpesaCheckoutId = got]
                                 /\ patched.usdcMinor = row.usdcMinor
    <3>1. /\ [row EXCEPT !.mpesaCheckoutId = got] \in PayRow
          /\ [row EXCEPT !.mpesaCheckoutId = got].usdcMinor = row.usdcMinor
      BY <2>1 DEF PayRow
    <3> QED BY <3>1
  <2>3. Transition(c, "AwaitingFunding", patched, "waiting")
    BY <1>1, <1>2, <1>3, <2>2 DEF DoInitiateFunding
  <2>4. pay'[p].status = "AwaitingFunding" /\ pay'[p].usdcMinor = row.usdcMinor
    BY <1>w, <2>2, <2>3
  <2> QED BY <1>1, <2>4 DEF Converted
<1>4. CASE CommitFunding(c)
  <2>1. pay'[p].status = "Funded" /\ pay'[p].usdcMinor = row.usdcMinor
    BY <1>1, <1>w, <1>4 DEF CommitFunding
  <2> QED BY <1>1, <2>1 DEF Converted
<1>5. CASE DoOnRamp(c)
  <2>1. got = ExpectedUsdc
    BY <1>2, <1>5 DEF DoOnRamp, Committing, AnsweredOK, AnswersAt
  <2>2. PICK patched \in PayRow : patched = [row EXCEPT !.usdcMinor = got] /\ patched.usdcMinor = got
    <3>1. /\ [row EXCEPT !.usdcMinor = got] \in PayRow
          /\ [row EXCEPT !.usdcMinor = got].usdcMinor = got
      BY DEF PayRow
    <3> QED BY <3>1
  <2>3. Transition(c, "OnRamped", patched, "more")
    BY <1>1, <1>2, <1>5, <2>2 DEF DoOnRamp
  <2> QED BY <1>w, <2>1, <2>2, <2>3
<1>6. CASE DoBridgeSend(c)
  <2>1. got \in Ids /\ call[c].snap.status = "OnRamped"
    BY <1>2, <1>6 DEF DoBridgeSend, Committing, TypeInv, AnswersOK
  <2>2. PICK patched \in PayRow : /\ patched = [row EXCEPT !.walletTxHash = got]
                                 /\ patched.usdcMinor = row.usdcMinor
    <3>1. /\ [row EXCEPT !.walletTxHash = got] \in PayRow
          /\ [row EXCEPT !.walletTxHash = got].usdcMinor = row.usdcMinor
      BY <2>1 DEF PayRow
    <3> QED BY <3>1
  <2>3. Transition(c, "Bridging", patched, "more")
    BY <1>1, <1>2, <1>6, <2>2 DEF DoBridgeSend
  <2> QED BY <1>1, <1>w, <2>1, <2>2, <2>3 DEF Converted
<1>7. CASE DoBridgeConfirm(c)
  <2>1. pay'[p].usdcMinor = row.usdcMinor /\ call[c].snap.status = "Bridging"
    BY <1>1, <1>w, <1>7 DEF DoBridgeConfirm, Committing
  <2> QED BY <1>1, <2>1 DEF Converted
<1>8. CASE DoCreatePayout(c)
  <2>1. got \in Ids /\ call[c].snap.status = "Bridged"
    BY <1>2, <1>8 DEF DoCreatePayout, Committing, TypeInv, AnswersOK
  <2>2. PICK patched \in PayRow : /\ patched = [row EXCEPT !.payoutId = got]
                                 /\ patched.usdcMinor = row.usdcMinor
    <3>1. /\ [row EXCEPT !.payoutId = got] \in PayRow
          /\ [row EXCEPT !.payoutId = got].usdcMinor = row.usdcMinor
      BY <2>1 DEF PayRow
    <3> QED BY <3>1
  <2>3. Transition(c, "PayingOut", patched, "more")
    BY <1>1, <1>2, <1>8, <2>2 DEF DoCreatePayout
  <2> QED BY <1>1, <1>w, <2>1, <2>2, <2>3 DEF Converted
<1>9. CASE DoConfirmPayout(c)
  <2>1. pay'[p].usdcMinor = row.usdcMinor /\ call[c].snap.status = "PayingOut"
    BY <1>1, <1>w, <1>9 DEF DoConfirmPayout, Committing
  <2> QED BY <1>1, <2>1 DEF Converted
<1>10. CASE FailUnfunded(c)
  <2>1. pay'[p].status = "Failed" /\ pay'[p].usdcMinor = row.usdcMinor
    BY <1>1, <1>w, <1>10 DEF FailUnfunded
  <2> QED BY <1>1, <2>1 DEF Converted
<1>11. CASE CompensateFunded(c)
  <2>1. pay'[p] = [row EXCEPT !.status = "Refunded"]
    BY <1>1, <1>t, <1>11 DEF CompensateFunded
  <2>2. pay'[p].status = "Refunded" /\ pay'[p].usdcMinor = row.usdcMinor
    BY <2>1 DEF PayRow
  <2> QED BY <1>1, <2>2 DEF Converted
<1> QED
  BY <1>3, <1>4, <1>5, <1>6, <1>7, <1>8, <1>9, <1>10, <1>11 DEF Commit

LEMMA NextUsdcInv ==
  /\ TypeInv /\ AnsweredOK /\ StatusRecorded /\ ReadRecorded /\ UsdcInv /\ [Next]_vars
  => UsdcInv'
<1> SUFFICES ASSUME TypeInv, AnsweredOK, StatusRecorded, ReadRecorded, UsdcInv, [Next]_vars
             PROVE  UsdcInv'
  OBVIOUS
<1>t. pay \in [Payments -> PayRow]
  BY DEF TypeInv, TypeOK
<1>c. Converted \subseteq Later /\ "Refunding" \notin Converted
  BY DEF Converted, Later, PAYMENT_STATUSES
<1>1. ASSUME NEW p \in Payments, NEW s \in Converted, Happened(p, s)'
      PROVE  pay'[p].usdcMinor = ExpectedUsdc
  <2>1. CASE UNCHANGED rows
    <3>1. Happened(p, s) /\ pay'[p] = pay[p]
      BY <1>1, <2>1 DEF rows, Happened
    <3> QED BY <3>1 DEF UsdcInv
  <2>2. ASSUME NEW c \in Calls, Commit(c) PROVE pay'[p].usdcMinor = ExpectedUsdc
    <3>1. Writes(c)
      BY <2>2, CommitWrites
    <3>2. CASE call[c].on # p
      <4>1. Happened(p, s) /\ pay'[p] = pay[p]
        BY <1>1, <1>t, <3>1, <3>2, NewEvent DEF Writes
      <4> QED BY <4>1 DEF UsdcInv
    <3>3. CASE call[c].on = p
      <4>1. CASE Happened(p, s)
        <5>1. pay[p].usdcMinor = ExpectedUsdc
          BY <4>1 DEF UsdcInv
        <5> QED BY <2>2, <3>3, <5>1, CommitUsdc
      <4>2. CASE s = pay'[p].status
        <5>1. ASSUME call[c].snap.status \in Converted PROVE pay[p].usdcMinor = ExpectedUsdc
          <6>1. Happened(p, call[c].snap.status)
            BY <1>c, <3>1, <3>3, <5>1 DEF ReadRecorded, Writes
          <6> QED BY <5>1, <6>1 DEF UsdcInv
        <5> QED BY <2>2, <3>3, <4>2, <5>1, CommitUsdc
      <4> QED BY <1>1, <1>c, <3>1, <4>1, <4>2, NewEvent
    <3> QED BY <3>2, <3>3
  <2> QED BY <2>1, <2>2, RowsStep
<1>2. ASSUME NEW c \in Calls, InFlight(c)', call'[c].snap.status \in Converted
      PROVE  call'[c].snap.usdcMinor = ExpectedUsdc
  <2>1. CASE InFlight(c) /\ call'[c].snap = call[c].snap
    BY <1>2, <2>1 DEF UsdcInv
  <2>2. CASE call'[c].on \in Payments /\ call'[c].snap = pay[call'[c].on]
    <3>1. PICK p \in Payments : p = call'[c].on
      BY <2>2
    <3>2. Happened(p, pay[p].status)
      BY <1>2, <1>c, <2>2, <3>1 DEF StatusRecorded
    <3> QED BY <1>2, <2>2, <3>1, <3>2 DEF UsdcInv
  <2> QED BY <1>2, <2>1, <2>2, CallsStep
<1> QED BY <1>1, <1>2 DEF UsdcInv

(***************************************************************************)
(* As long as nothing is overwritten, a payment has not gone back behind   *)
(* any of its events, and the transfer of a bridged one is complete.       *)
(***************************************************************************)
RankInv ==
  \A p \in Payments, s \in PAYMENT_STATUSES :
    ~stale[p] /\ Happened(p, s) => Rank[s] <= Rank[pay[p].status]

Complete(row, sent) == row.walletTxHash # 0 /\ sent[row.walletTxHash] = "complete"

CompleteInv ==
  \A p \in Payments :
    ~stale[p] /\ Happened(p, "Bridged") => Complete(pay[p], wallet[p])

LEMMA NextRankInv == TypeInv /\ RankInv /\ [Next]_vars => RankInv'
<1> SUFFICES ASSUME TypeInv, RankInv, [Next]_vars, NEW p \in Payments,
                    NEW s \in PAYMENT_STATUSES, ~stale'[p], Happened(p, s)'
             PROVE  Rank[s] <= Rank[pay'[p].status]
  BY DEF RankInv
<1>t. /\ pay \in [Payments -> PayRow] /\ stale \in [Payments -> BOOLEAN]
      /\ pay[p].status \in PAYMENT_STATUSES /\ Rank[s] \in Int
      /\ Rank["Refunding"] \in Int /\ Rank["Refunded"] \in Int
      /\ Rank["Refunding"] <= Rank["Refunded"]
  BY DEF TypeInv, TypeOK, PayRow, Rank, PAYMENT_STATUSES
<1>1. CASE UNCHANGED rows
  <2>1. Happened(p, s) /\ pay'[p] = pay[p] /\ ~stale[p]
    BY <1>1 DEF rows, Happened
  <2> QED BY <2>1 DEF RankInv
<1>2. ASSUME NEW c \in Calls, Writes(c) PROVE Rank[s] <= Rank[pay'[p].status]
  <2>1. PICK row, log :
          /\ pay' = [pay EXCEPT ![call[c].on] = row]
          /\ row.status \in PAYMENT_STATUSES /\ Moved(c, row.status, log)
    BY <1>2 DEF Writes
  <2>2. CASE call[c].on # p
    <3>1. Happened(p, s) /\ pay'[p] = pay[p] /\ ~stale[p]
      BY <1>2, <1>t, <2>2, NewEvent DEF Writes
    <3> QED BY <3>1 DEF RankInv
  <2>3. CASE call[c].on = p
    <3>1. ~stale[p] /\ call[c].snap.status = pay[p].status /\ pay'[p] = row
      BY <1>2, <1>t, <2>1, <2>3 DEF Writes
    <3>2. Rank[pay[p].status] < Rank[row.status]
      <4>1. CASE CanTransition(pay[p].status, row.status)
        BY <1>t, <2>1, <4>1, RankGrows
      <4>2. CASE CanTransition(pay[p].status, "Refunding") /\ row.status = "Refunded"
        <5>1. Rank[pay[p].status] < Rank["Refunding"]
          BY <1>t, <4>2, RankGrows DEF PAYMENT_STATUSES
        <5> QED BY <1>t, <4>2, <5>1, RankType
      <4> QED BY <2>1, <3>1, <4>1, <4>2 DEF Moved
    <3>3. Rank[pay[p].status] \in Int /\ Rank[row.status] \in Int
      BY <1>t, <2>1, RankType
    <3>4. CASE Happened(p, s)
      BY <1>t, <3>1, <3>2, <3>3, <3>4 DEF RankInv
    <3>5. CASE ~Happened(p, s)
      BY <1>2, <1>t, <3>1, <3>3, <3>5, NewEvent
    <3> QED BY <3>4, <3>5
  <2> QED BY <2>2, <2>3
<1> QED BY <1>1, <1>2, RowsStep, CommitWrites

\* The transaction of a call keeps the hash and does not take a transfer's completion
\* back, unless it sends.
LEMMA CommitComplete ==
  ASSUME TypeInv, NEW c \in Calls, Commit(c), NEW p \in Payments, call[c].on = p,
         call[c].snap.status # "OnRamped", Complete(pay[p], wallet[p])
  PROVE  Complete(pay'[p], wallet'[p])
<1>1. PICK row \in PayRow : row = pay[p]
  BY DEF TypeInv, TypeOK
<1>2. PICK sent \in [1..MaxExternal -> {"none", "pending", "complete"}] : sent = wallet[p]
  BY DEF TypeInv, TypeOK
<1>3. PICK got \in Nat : got = call[c].got
  BY DEF TypeInv, TypeOK, CallState
<1>t. /\ pay \in [Payments -> PayRow] /\ DOMAIN wallet = Payments
      /\ row.walletTxHash # 0 /\ sent[row.walletTxHash] = "complete"
      /\ row.walletTxHash \in 1..MaxExternal
  BY <1>1, <1>2 DEF Complete, TypeInv, TypeOK, PayRow, Ids
<1>w. ASSUME NEW to, NEW patched \in PayRow, NEW result, Transition(c, to, patched, result)
      PROVE  pay'[p].walletTxHash = patched.walletTxHash
  <2>1. pay'[p] = [patched EXCEPT !.status = to]
    BY <1>t, <1>w DEF Transition
  <2> QED BY <2>1 DEF PayRow
<1>4. /\ DoInitiateFunding(c) \/ DoCreatePayout(c) => got \in Ids
      /\ ~DoBridgeSend(c)
  BY <1>3 DEF DoInitiateFunding, DoCreatePayout, DoBridgeSend, Committing, TypeInv, AnswersOK
<1>5. pay'[p].walletTxHash = row.walletTxHash
  <2>1. CASE DoInitiateFunding(c)
    <3>1. /\ [row EXCEPT !.mpesaCheckoutId = got] \in PayRow
          /\ [row EXCEPT !.mpesaCheckoutId = got].walletTxHash = row.walletTxHash
      BY <1>4, <2>1 DEF PayRow
    <3> QED BY <1>1, <1>3, <1>w, <2>1, <3>1 DEF DoInitiateFunding
  <2>2. CASE DoOnRamp(c)
    <3>1. /\ [row EXCEPT !.usdcMinor = got] \in PayRow
          /\ [row EXCEPT !.usdcMinor = got].walletTxHash = row.walletTxHash
      BY DEF PayRow
    <3> QED BY <1>1, <1>3, <1>w, <2>2, <3>1 DEF DoOnRamp
  <2>3. CASE DoCreatePayout(c)
    <3>1. /\ [row EXCEPT !.payoutId = got] \in PayRow
          /\ [row EXCEPT !.payoutId = got].walletTxHash = row.walletTxHash
      BY <1>4, <2>3 DEF PayRow
    <3> QED BY <1>1, <1>3, <1>w, <2>3, <3>1 DEF DoCreatePayout
  <2>4. CASE CompensateFunded(c)
    <3>1. pay'[p] = [row EXCEPT !.status = "Refunded"]
      BY <1>1, <1>t, <2>4 DEF CompensateFunded
    <3> QED BY <3>1 DEF PayRow
  <2>5. CASE CommitFunding(c) \/ DoBridgeConfirm(c) \/ DoConfirmPayout(c) \/ FailUnfunded(c)
    BY <1>1, <1>w, <2>5 DEF CommitFunding, DoBridgeConfirm, DoConfirmPayout, FailUnfunded
  <2> QED BY <1>4, <2>1, <2>2, <2>3, <2>4, <2>5 DEF Commit
<1>6. wallet'[p][row.walletTxHash] = "complete"
  <2>1. CASE DoBridgeConfirm(c)
    <3>1. wallet'[p] = [h \in 1..MaxExternal |->
                          IF h = call[c].snap.walletTxHash /\ sent[h] # "none"
                          THEN "complete" ELSE sent[h]]
      BY <1>2, <1>t, <2>1 DEF DoBridgeConfirm
    <3> QED BY <1>t, <3>1
  <2>2. CASE UNCHANGED wallet
    BY <1>2, <1>t, <2>2
  <2> QED BY <1>4, <2>1, <2>2 DEF Commit, DoInitiateFunding, CommitFunding, DoOnRamp,
        DoCreatePayout, DoConfirmPayout, FailUnfunded, CompensateFunded
<1> QED BY <1>t, <1>5, <1>6 DEF Complete

LEMMA NextCompleteInv ==
  /\ TypeInv /\ SnapInv /\ AnsweredOK /\ WalletInv /\ RankInv /\ CompleteInv /\ [Next]_vars
  => CompleteInv'
<1> SUFFICES ASSUME TypeInv, SnapInv, AnsweredOK, WalletInv, RankInv, CompleteInv, [Next]_vars,
                    NEW p \in Payments, ~stale'[p], Happened(p, "Bridged")'
             PROVE  Complete(pay'[p], wallet'[p])
  BY DEF CompleteInv
<1>t. /\ pay \in [Payments -> PayRow] /\ stale \in [Payments -> BOOLEAN]
      /\ DOMAIN wallet = Payments
  BY DEF TypeInv, TypeOK
<1>1. CASE UNCHANGED rows
  <2>1. Happened(p, "Bridged") /\ pay'[p] = pay[p] /\ wallet'[p] = wallet[p] /\ ~stale[p]
    BY <1>1 DEF rows, Happened
  <2> QED BY <2>1 DEF CompleteInv
<1>2. ASSUME NEW c \in Calls, Commit(c) PROVE Complete(pay'[p], wallet'[p])
  <2>w. Writes(c)
    BY <1>2, CommitWrites
  <2>2. CASE call[c].on # p
    <3>1. Happened(p, "Bridged") /\ pay'[p] = pay[p] /\ wallet'[p] = wallet[p] /\ ~stale[p]
      BY <1>t, <2>w, <2>2, NewEvent DEF Writes
    <3> QED BY <3>1 DEF CompleteInv
  <2>3. CASE call[c].on = p
    <3>1. ~stale[p] /\ call[c].snap.status = pay[p].status
      BY <1>t, <2>w, <2>3 DEF Writes
    <3>2. CASE Happened(p, "Bridged")
      <4>1. Rank["Bridged"] <= Rank[pay[p].status]
        BY <3>1, <3>2 DEF RankInv, PAYMENT_STATUSES
      <4>2. pay[p].status # "OnRamped"
        BY <4>1 DEF Rank
      <4>3. Complete(pay[p], wallet[p])
        BY <3>1, <3>2 DEF CompleteInv
      <4> QED BY <1>2, <2>3, <3>1, <4>2, <4>3, CommitComplete
    <3>3. CASE ~Happened(p, "Bridged")
      <4>1. pay'[p].status = "Bridged"
        BY <2>w, <3>3, NewEvent
      <4>2. WalletOf(pay'[p], wallet'[p])
        BY NextWalletInv DEF WalletInv
      <4> QED BY <4>1, <4>2 DEF WalletOf, Complete
    <3> QED BY <3>2, <3>3
  <2> QED BY <2>2, <2>3
<1> QED BY <1>1, <1>2, RowsStep

(***************************************************************************)
(* The suite, while the engine goes on.  What it has read has happened and *)
(* cannot be undone, so what it reads later can only have more of it.      *)
(***************************************************************************)
\* What the suite has read of a payment is still so or has been overtaken.
ReadInv ==
  \A p \in Payments : suite.on = p =>
      /\ suite.at \in {"events", "entries", "balances"} =>
           (suite.row.status \in Later => Happened(p, suite.row.status))
      /\ suite.at \in {"entries", "balances"} => \A s \in suite.seen : Happened(p, s)
      /\ suite.at = "balances" =>
           /\ Reached("Funded") => Posted("importer_external")
           /\ Reached("Refunded") /\ ~stale[p] => AllAccountsZero(suite.entries)
      /\ suite.at = "verdict" /\ ~stale[p] =>
           suite.failing \intersect {"Funded", "Refunded"} = {}

\* What the suite has read of a payment that rests is what there is.
FreshInv ==
  \A p \in Payments : suite.on = p /\ ~moved =>
      /\ suite.at \in {"events", "entries", "balances"} =>
           /\ suite.row = pay[p]
           /\ suite.attested = Happened(p, "Bridged")
           /\ suite.settled = Happened(p, "Settled")
           /\ suite.complete = Complete(pay[p], wallet[p])
      /\ suite.at \in {"entries", "balances"} =>
           suite.seen = {s \in PAYMENT_STATUSES : Happened(p, s)}
      /\ suite.at = "balances" => suite.entries = ledger[p]
      /\ suite.at = "verdict" =>
           /\ ~stale[p] => suite.passed
           /\ suite.passed /\ Happened(p, "Refunded") => AllAccountsZero(ledger[p])

EngineInv ==
  /\ TypeInv /\ SidesBalanced /\ SnapInv /\ LedgerInv /\ AnsweredOK /\ WalletInv
  /\ StatusRecorded /\ ReadRecorded /\ LegsInv /\ UsdcInv /\ RankInv /\ CompleteInv

LEMMA InitEngineInv == Init => EngineInv
<1> SUFFICES ASSUME Init PROVE EngineInv
  OBVIOUS
<1>1. /\ \A p \in Payments : /\ pay[p] = NewPayment /\ ledger[p] = EmptyBook
                             /\ events[p] = << >>
      /\ \A c \in Calls : ~InFlight(c) /\ call[c].pc # "commit"
  BY DEF Init, InFlight, Idle
<1>2. \A p \in Payments : \A s : ~Happened(p, s)
  BY <1>1 DEF Happened
<1>3. SidesBalanced
  BY InitSidesBalanced
<1>4. AnsweredOK /\ StatusRecorded /\ ReadRecorded
  BY <1>1 DEF AnsweredOK, StatusRecorded, ReadRecorded, NewPayment, Later
<1>5. WalletInv
  BY DEF Init, WalletInv, WalletOf, NewPayment
<1>6. LegsInv
  <2>1. \A s \in Legged : LegOf(NoEntries, s) \in Nat
    BY DEF Legged, LegOf, NoEntries, ACCOUNTS, KesAccounts, UsdcAccounts, CnyAccounts
  <2>2. EmptyBook.posted = NoEntries
    BY DEF EmptyBook
  <2> QED BY <1>1, <1>2, <2>1, <2>2 DEF LegsInv
<1>7. UsdcInv /\ RankInv /\ CompleteInv
  BY <1>1, <1>2 DEF UsdcInv, RankInv, CompleteInv
<1> QED BY <1>3, <1>4, <1>5, <1>6, <1>7, InitTypeInv, InitLedgerInv DEF EngineInv

LEMMA NextEngineInv ==
  ASSUME QuotesCount
  PROVE  EngineInv /\ [Next]_vars => EngineInv'
  BY NextTypeInv, NextSidesBalanced, NextSnapInv, NextLedgerInv, NextAnsweredOK, NextWalletInv,
     NextStatusRecorded, NextReadRecorded, NextLegsInv, NextUsdcInv, NextRankInv,
     NextCompleteInv DEF EngineInv

\* What was refunded is empty, until a status is overwritten.
LEMMA RefundedIsEmpty ==
  ASSUME EngineInv, NEW p \in Payments, ~stale[p], Happened(p, "Refunded")
  PROVE  AllAccountsZero(ledger[p])
<1>1. Rank["Refunded"] <= Rank[pay[p].status]
  BY DEF EngineInv, RankInv, PAYMENT_STATUSES
<1>2. pay[p].status = "Refunded"
  BY <1>1 DEF EngineInv, TypeInv, TypeOK, PayRow, PAYMENT_STATUSES, Rank
<1>3. \A a \in ACCOUNTS : Net(ledger[p], a) = 0
  BY <1>2 DEF EngineInv, LedgerInv, BooksFollow
<1> QED BY <1>3 DEF AllAccountsZero, Nets, NoEntries

LEMMA FundedIsPosted ==
  ASSUME EngineInv, NEW p \in Payments, Happened(p, "Funded")
  PROVE  ledger[p].posted["importer_external"] # 0
<1>1. PICK n \in Int : n = ledger[p].posted["importer_external"]
  BY DEF EngineInv, TypeInv, TypeOK, Book, ACCOUNTS, KesAccounts
<1>2. 0 - n > 0
  BY <1>1 DEF EngineInv, LegsInv, Legged, LegOf
<1> QED BY <1>1, <1>2

LEMMA NextSuiteType ==
  ASSUME TypeInv, VerificationTypeOK, [VerificationNext]_verificationVars
  PROVE  VerificationTypeOK'
<1>t. /\ suite.on \in Payments /\ suite \in Suite /\ moved \in BOOLEAN
      /\ pay \in [Payments -> PayRow] /\ ledger \in [Payments -> Book]
  BY DEF VerificationTypeOK, Suite, TypeInv, TypeOK
<1>n. ASSUME NEW p \in Payments PROVE NoSuite(p) \in Suite
  <2>1. NewPayment \in PayRow
    BY BoundAssumption DEF NewPayment, PayRow, PAYMENT_STATUSES, Ids
  <2>2. EmptyBook \in Book
    BY DEF EmptyBook, NoEntries, Book
  <2> QED BY <2>1, <2>2 DEF NoSuite, Suite
<1>1. ASSUME NEW p \in Payments, ReadPayment(p) PROVE VerificationTypeOK'
  <2>1. Happened(p, "Bridged") \in BOOLEAN /\ Happened(p, "Settled") \in BOOLEAN
    BY DEF Happened
  <2>2. pay[p] \in PayRow
    BY <1>t
  <2> HIDE DEF PayRow
  <2> QED BY <1>1, <1>n, <2>1, <2>2 DEF ReadPayment, VerificationTypeOK, Suite
<1>2. ASSUME ReadEvents PROVE VerificationTypeOK'
  BY <1>2, <1>t DEF ReadEvents, VerificationTypeOK, Suite
<1>3. ASSUME ReadEntries PROVE VerificationTypeOK'
  BY <1>3, <1>t DEF ReadEntries, VerificationTypeOK, Suite
<1>4. ASSUME Conclude PROVE VerificationTypeOK'
  <2>1. Fails \in SUBSET PAYMENT_STATUSES
    BY DEF Fails, Stages, PAYMENT_STATUSES
  <2>2. (Fails = {} /\ IsBalanced(ledger[suite.on])) \in BOOLEAN
    OBVIOUS
  <2> QED BY <1>4, <1>n, <1>t, <2>1, <2>2 DEF Conclude, VerificationTypeOK, Suite
<1>5. ASSUME EngineMoves \/ UNCHANGED verificationVars PROVE VerificationTypeOK'
  BY <1>5, <1>t DEF EngineMoves, verificationVars, VerificationTypeOK
<1> QED BY <1>1, <1>2, <1>3, <1>4, <1>5 DEF VerificationNext

LEMMA VerificationSteps ==
  [VerificationNext]_verificationVars => [Next]_vars
  BY DEF VerificationNext, ReadPayment, ReadEvents, ReadEntries, Conclude, EngineMoves,
         verificationVars

LEMMA StaleStays ==
  ASSUME TypeInv, [Next]_vars, NEW p \in Payments, stale[p]
  PROVE  stale'[p]
<1>1. CASE UNCHANGED rows
  BY <1>1 DEF rows
<1>2. ASSUME NEW c \in Calls, Commit(c) PROVE stale'[p]
  <2>1. Writes(c)
    BY <1>2, CommitWrites
  <2> QED BY <2>1 DEF Writes, TypeInv, TypeOK
<1> QED BY <1>1, <1>2, RowsStep

LEMMA NextReadInv ==
  /\ EngineInv /\ VerificationTypeOK /\ ReadInv /\ [VerificationNext]_verificationVars
  => ReadInv'
<1> SUFFICES ASSUME EngineInv, VerificationTypeOK, ReadInv,
                    [VerificationNext]_verificationVars, NEW p \in Payments, suite'.on = p
             PROVE  (/\ suite.at \in {"events", "entries", "balances"} =>
                          (suite.row.status \in Later => Happened(p, suite.row.status))
                     /\ suite.at \in {"entries", "balances"} =>
                          \A s \in suite.seen : Happened(p, s)
                     /\ suite.at = "balances" =>
                          /\ Reached("Funded") => Posted("importer_external")
                          /\ Reached("Refunded") /\ ~stale[p] => AllAccountsZero(suite.entries)
                     /\ suite.at = "verdict" /\ ~stale[p] =>
                          suite.failing \intersect {"Funded", "Refunded"} = {})'
  BY DEF ReadInv
<1> DEFINE Goal == (/\ suite.at \in {"events", "entries", "balances"} =>
                          (suite.row.status \in Later => Happened(p, suite.row.status))
                    /\ suite.at \in {"entries", "balances"} =>
                          \A s \in suite.seen : Happened(p, s)
                    /\ suite.at = "balances" =>
                          /\ Reached("Funded") => Posted("importer_external")
                          /\ Reached("Refunded") /\ ~stale[p] => AllAccountsZero(suite.entries)
                    /\ suite.at = "verdict" /\ ~stale[p] =>
                          suite.failing \intersect {"Funded", "Refunded"} = {})'
<1>t. suite.on \in Payments /\ suite \in Suite
  BY DEF VerificationTypeOK, Suite
<1>h. \A s : UNCHANGED events /\ Happened(p, s) => Happened(p, s)'
  BY DEF Happened
<1>1. ASSUME NEW q \in Payments, ReadPayment(q) PROVE Goal
  <2>1. q = p /\ suite'.at = "events" /\ suite'.row = pay[p] /\ UNCHANGED events
    BY <1>1 DEF ReadPayment, NoSuite, vars
  <2>2. pay[p].status \in Later => Happened(p, pay[p].status)
    BY DEF EngineInv, StatusRecorded
  <2> QED BY <1>h, <2>1, <2>2
<1>2. ASSUME ReadEvents PROVE Goal
  <2>1. /\ suite.on = p /\ suite.at = "events" /\ suite'.at = "entries"
        /\ suite'.row = suite.row /\ UNCHANGED events
        /\ suite'.seen = {s \in PAYMENT_STATUSES : Happened(p, s)}
    BY <1>2, <1>t DEF ReadEvents, Suite, vars
  <2>2. suite.row.status \in Later => Happened(p, suite.row.status)
    BY <2>1 DEF ReadInv
  <2> QED BY <1>h, <2>1, <2>2
<1>3. ASSUME ReadEntries PROVE Goal
  <2>1. /\ suite.on = p /\ suite.at = "entries" /\ suite'.at = "balances"
        /\ suite'.row = suite.row /\ suite'.seen = suite.seen
        /\ suite'.entries = ledger[p] /\ UNCHANGED <<events, stale>>
    BY <1>3, <1>t DEF ReadEntries, Suite, vars
  <2>2. /\ suite.row.status \in Later => Happened(p, suite.row.status)
        /\ \A s \in suite.seen : Happened(p, s)
    BY <2>1 DEF ReadInv
  <2>3. \A s \in Later : s \in suite'.seen \union {suite'.row.status} => Happened(p, s)
    BY <2>1, <2>2
  <2>4. "Funded" \in Later /\ "Refunded" \in Later
    BY DEF Later, PAYMENT_STATUSES
  <2>5. Reached("Funded")' => Posted("importer_external")'
    BY <2>1, <2>3, <2>4, FundedIsPosted DEF Reached, Posted
  <2>6. Reached("Refunded")' /\ ~stale'[p] => AllAccountsZero(suite'.entries)
    <3>1. Reached("Refunded")' /\ ~stale'[p] => AllAccountsZero(ledger[p])
      BY <2>1, <2>3, <2>4, RefundedIsEmpty DEF Reached
    <3> QED BY <2>1, <3>1
  <2> QED BY <1>h, <2>1, <2>2, <2>5, <2>6
<1>4. ASSUME Conclude PROVE Goal
  <2>1. /\ suite.on = p /\ suite.at = "balances" /\ suite'.at = "verdict"
        /\ suite'.failing = Fails /\ UNCHANGED stale
    BY <1>4, <1>t DEF Conclude, NoSuite, vars
  <2>2. /\ Reached("Funded") => Posted("importer_external")
        /\ Reached("Refunded") /\ ~stale[p] => AllAccountsZero(suite.entries)
    BY <2>1 DEF ReadInv
  <2>3. ~stale[p] => "Funded" \notin Fails /\ "Refunded" \notin Fails
    BY <2>2 DEF Fails, Check
  <2> QED BY <2>1, <2>3
<1>5. ASSUME EngineMoves \/ UNCHANGED verificationVars PROVE Goal
  <2>1. suite' = suite /\ suite.on = p /\ [Next]_vars
    BY <1>5 DEF EngineMoves, verificationVars
  <2>2. \A s : Happened(p, s) => Happened(p, s)'
    BY <2>1, HappenedStays DEF EngineInv
  <2>3. stale[p] => stale'[p]
    BY <2>1, StaleStays DEF EngineInv
  <2>4. /\ suite.at \in {"events", "entries", "balances"} =>
             (suite.row.status \in Later => Happened(p, suite.row.status))
        /\ suite.at \in {"entries", "balances"} => \A s \in suite.seen : Happened(p, s)
        /\ suite.at = "balances" =>
             /\ Reached("Funded") => Posted("importer_external")
             /\ Reached("Refunded") /\ ~stale[p] => AllAccountsZero(suite.entries)
        /\ suite.at = "verdict" /\ ~stale[p] =>
             suite.failing \intersect {"Funded", "Refunded"} = {}
    BY <2>1 DEF ReadInv
  <2>5. /\ Reached("Funded")' = Reached("Funded") /\ Reached("Refunded")' = Reached("Refunded")
        /\ Posted("importer_external")' = Posted("importer_external")
    BY <2>1 DEF Reached, Posted
  <2>6. AllAccountsZero(suite.entries)' = AllAccountsZero(suite.entries)
    BY <2>1 DEF AllAccountsZero, Nets, Net
  <2> QED BY <2>1, <2>2, <2>3, <2>4, <2>5, <2>6
<1> QED BY <1>1, <1>2, <1>3, <1>4, <1>5 DEF VerificationNext

\* A status that a payment at rest has reached passes its check.
LEMMA SoundChecks ==
  ASSUME EngineInv, NEW p \in Payments, suite.row = pay[p], suite.entries = ledger[p],
         suite.attested = Happened(p, "Bridged"), suite.settled = Happened(p, "Settled"),
         suite.complete = Complete(pay[p], wallet[p]), ~stale[p],
         NEW s \in Stages, Happened(p, s)
  PROVE  Check(s)
<1>1. PICK f \in [ACCOUNTS -> Int] : f = ledger[p].posted
  BY DEF EngineInv, TypeInv, TypeOK, Book
<1>2. s \in Legged => LegOf(f, s) > 0
  BY <1>1 DEF EngineInv, LegsInv
<1>3. CASE s = "Funded"
  <2>1. f["importer_external"] # 0
    BY <1>2, <1>3 DEF LegOf, Legged, ACCOUNTS, KesAccounts
  <2> QED BY <1>1, <1>3, <2>1 DEF Check, Posted
<1>4. CASE s = "OnRamped"
  <2>1. f["onramp_external_usdc"] # 0
    BY <1>2, <1>4 DEF LegOf, Legged, ACCOUNTS, UsdcAccounts
  <2>2. pay[p].usdcMinor = ExpectedUsdc
    BY <1>4 DEF EngineInv, UsdcInv, Converted
  <2> QED BY <1>1, <1>4, <2>1, <2>2 DEF Check, Posted
<1>5. CASE s = "Bridged"
  <2>1. f["hk_usdc"] # 0 \/ f["payout_external_usdc"] # 0
    BY <1>2, <1>5 DEF LegOf, Legged, ACCOUNTS, UsdcAccounts
  <2>2. Complete(pay[p], wallet[p])
    BY <1>5 DEF EngineInv, CompleteInv
  <2> QED BY <1>1, <1>5, <2>1, <2>2 DEF Check, Posted
<1>6. CASE s = "Settled"
  <2>1. f["supplier_paid_cny"] # 0
    BY <1>2, <1>6 DEF LegOf, Legged, ACCOUNTS, CnyAccounts
  <2> QED BY <1>1, <1>6, <2>1 DEF Check, Posted
<1>7. CASE s = "Refunded"
  <2>1. AllAccountsZero(ledger[p])
    BY <1>7, RefundedIsEmpty
  <2> QED BY <1>7, <2>1 DEF Check
<1> QED BY <1>3, <1>4, <1>5, <1>6, <1>7 DEF Stages

LEMMA NextFreshInv ==
  /\ EngineInv /\ VerificationTypeOK /\ FreshInv /\ [VerificationNext]_verificationVars
  => FreshInv'
<1> SUFFICES ASSUME EngineInv, VerificationTypeOK, FreshInv,
                    [VerificationNext]_verificationVars, NEW p \in Payments,
                    suite'.on = p, ~moved'
             PROVE  /\ suite'.at \in {"events", "entries", "balances"} =>
                         /\ suite'.row = pay'[p]
                         /\ suite'.attested = Happened(p, "Bridged")'
                         /\ suite'.settled = Happened(p, "Settled")'
                         /\ suite'.complete = Complete(pay'[p], wallet'[p])
                    /\ suite'.at \in {"entries", "balances"} =>
                         suite'.seen = {s \in PAYMENT_STATUSES : Happened(p, s)'}
                    /\ suite'.at = "balances" => suite'.entries = ledger'[p]
                    /\ suite'.at = "verdict" =>
                         /\ ~stale'[p] => suite'.passed
                         /\ suite'.passed /\ Happened(p, "Refunded")'
                              => AllAccountsZero(ledger'[p])
  BY DEF FreshInv, Complete, AllAccountsZero, Nets, Net
<1>t. suite.on \in Payments /\ suite \in Suite /\ moved \in BOOLEAN
  BY DEF VerificationTypeOK, Suite
<1>h. \A s : UNCHANGED events => Happened(p, s)' = Happened(p, s)
  BY DEF Happened
<1>1. ASSUME NEW q \in Payments, ReadPayment(q)
      PROVE  /\ suite'.at = "events" /\ UNCHANGED <<pay, wallet, events>>
             /\ suite'.row = pay[p]
             /\ suite'.attested = Happened(p, "Bridged")
             /\ suite'.settled = Happened(p, "Settled")
             /\ suite'.complete = Complete(pay[p], wallet[p])
  <2>1. q = p
    BY <1>1 DEF ReadPayment, NoSuite
  <2> QED BY <1>1, <2>1 DEF ReadPayment, NoSuite, vars, Complete
<1>2. ASSUME ReadEvents
      PROVE  /\ suite.on = p /\ ~moved /\ suite.at = "events" /\ suite'.at = "entries"
             /\ suite'.row = suite.row /\ suite'.attested = suite.attested
             /\ suite'.settled = suite.settled /\ suite'.complete = suite.complete
             /\ suite'.seen = {s \in PAYMENT_STATUSES : Happened(p, s)}
             /\ UNCHANGED <<pay, wallet, events>>
  BY <1>2, <1>t DEF ReadEvents, Suite, vars
<1>3. ASSUME ReadEntries
      PROVE  /\ suite.on = p /\ ~moved /\ suite.at = "entries" /\ suite'.at = "balances"
             /\ suite'.row = suite.row /\ suite'.attested = suite.attested
             /\ suite'.settled = suite.settled /\ suite'.complete = suite.complete
             /\ suite'.seen = suite.seen /\ suite'.entries = ledger[p]
             /\ UNCHANGED <<pay, wallet, events, ledger>>
  BY <1>3, <1>t DEF ReadEntries, Suite, vars
<1>4. ASSUME Conclude
      PROVE  /\ suite'.at = "verdict" /\ UNCHANGED <<ledger, events, stale>>
             /\ ~stale[p] => suite'.passed
             /\ suite'.passed /\ Happened(p, "Refunded") => AllAccountsZero(ledger[p])
  <2>1. /\ suite.on = p /\ ~moved /\ suite.at = "balances" /\ suite'.at = "verdict"
        /\ suite'.passed = (Fails = {} /\ IsBalanced(ledger[p]))
        /\ UNCHANGED <<ledger, events, stale>>
    BY <1>4, <1>t DEF Conclude, NoSuite, vars
  <2>2. /\ suite.row = pay[p] /\ suite.entries = ledger[p]
        /\ suite.attested = Happened(p, "Bridged") /\ suite.settled = Happened(p, "Settled")
        /\ suite.complete = Complete(pay[p], wallet[p])
        /\ suite.seen = {s \in PAYMENT_STATUSES : Happened(p, s)}
    BY <2>1 DEF FreshInv
  <2>3. ASSUME NEW s \in Stages, Reached(s) PROVE Happened(p, s)
    <3>1. s \in Later
      BY DEF Stages, Later, PAYMENT_STATUSES
    <3> QED BY <2>2, <2>3, <3>1 DEF Reached, EngineInv, StatusRecorded
  <2>4. IsBalanced(ledger[p])
    BY SidesBalancedSuffices DEF EngineInv, LedgerBalanced
  <2>5. ~stale[p] => Fails = {}
    BY <2>2, <2>3, SoundChecks DEF Fails
  <2>6. ASSUME Fails = {}, Happened(p, "Refunded") PROVE AllAccountsZero(ledger[p])
    <3>1. "Refunded" \in Stages /\ Reached("Refunded")
      BY <2>2, <2>6 DEF Stages, Reached, PAYMENT_STATUSES
    <3>2. Check("Refunded")
      BY <2>6, <3>1 DEF Fails
    <3> QED BY <2>2, <3>2 DEF Check
  <2> QED BY <2>1, <2>4, <2>5, <2>6
<1>5. ASSUME EngineMoves \/ UNCHANGED verificationVars
      PROVE  /\ suite' = suite /\ UNCHANGED <<pay, wallet, events, ledger>> /\ ~moved
             /\ stale[p] => stale'[p]
  <2>1. suite' = suite /\ [Next]_vars /\ ~moved /\ UNCHANGED <<pay, wallet, events, ledger>>
    BY <1>5, <1>t DEF EngineMoves, verificationVars, vars
  <2> QED BY <2>1, StaleStays DEF EngineInv
<1>6. suite.on = p /\ ~moved =>
        /\ suite.at \in {"events", "entries", "balances"} =>
             /\ suite.row = pay[p]
             /\ suite.attested = Happened(p, "Bridged")
             /\ suite.settled = Happened(p, "Settled")
             /\ suite.complete = Complete(pay[p], wallet[p])
        /\ suite.at \in {"entries", "balances"} =>
             suite.seen = {s \in PAYMENT_STATUSES : Happened(p, s)}
        /\ suite.at = "balances" => suite.entries = ledger[p]
        /\ suite.at = "verdict" =>
             /\ ~stale[p] => suite.passed
             /\ suite.passed /\ Happened(p, "Refunded") => AllAccountsZero(ledger[p])
  BY DEF FreshInv
<1>a. CASE \E q \in Payments : ReadPayment(q)
  BY <1>1, <1>a, <1>h
<1>b. CASE ReadEvents
  BY <1>2, <1>6, <1>b, <1>h
<1>c. CASE ReadEntries
  BY <1>3, <1>6, <1>c, <1>h
<1>d. CASE Conclude
  BY <1>4, <1>d, <1>h
<1>e. CASE EngineMoves \/ UNCHANGED verificationVars
  BY <1>5, <1>6, <1>e, <1>h
<1> QED BY <1>a, <1>b, <1>c, <1>d, <1>e DEF VerificationNext

(***************************************************************************)
(* Custody.  A transfer keeps its sender, and what a block has decided     *)
(* about it; so what a chain has once confirmed stays confirmed.           *)
(***************************************************************************)
Transfer ==
  [by : Others \union {Testbed}, state : {"pending", "success", "reverted"}, block : Nat]

ChainInv ==
  /\ setting \in Settings /\ height \in 1 .. MaxHeight /\ trouble \in 0 .. MaxTrouble
  /\ txs \in Seq(Transfer)
  /\ \A i \in 1 .. Len(txs) :
       /\ txs[i].state = "pending" <=> txs[i].block = 0
       /\ txs[i].block <= height
  /\ Backend = "mock" => txs = <<>>

\* What a step does to the transfers there are.
TransfersKept ==
  /\ setting' = setting /\ Backend' = Backend
  /\ height' \in Nat /\ height' >= height /\ trouble' >= trouble /\ trouble' \in Nat
  /\ Len(txs') \in Nat /\ Len(txs') >= Len(txs)
  /\ \A i \in 1 .. Len(txs) : /\ txs'[i].by = txs[i].by
                              /\ txs[i].state # "pending" => txs'[i] = txs[i]

LEMMA CustodySettings ==
  ASSUME setting \in Settings
  PROVE  /\ setting.mode \in {"mock", "live"} /\ setting.provider \in {"mock", "evm", "circle"}
         /\ setting.funds \in Nat /\ setting.gas \in BOOLEAN /\ setting.sameChain \in BOOLEAN
  BY CustodyAssumption

LEMMA SubmittedKeeps ==
  ASSUME NEW old \in Seq(Transfer), NEW sender \in Others \union {Testbed}
  PROVE  LET new == Append(old, [by |-> sender, state |-> "pending", block |-> 0])
         IN  /\ new \in Seq(Transfer) /\ Len(new) = Len(old) + 1
             /\ \A i \in 1 .. Len(old) : new[i] = old[i]
             /\ new[Len(old) + 1] = [by |-> sender, state |-> "pending", block |-> 0]
<1>1. PICK tx \in Transfer : tx = [by |-> sender, state |-> "pending", block |-> 0]
  <2>1. [by |-> sender, state |-> "pending", block |-> 0] \in Transfer
    BY DEF Transfer
  <2> QED BY <2>1
<1> HIDE DEF Transfer
<1> QED BY <1>1

\* A transfer of the sender is taken, or none.
Takes(sender) == UNCHANGED txs \/ Submitted(sender)

LEMMA ChainUnderTransfers ==
  ASSUME ChainInv, NEW sender \in Others \union {Testbed}, Takes(sender),
         Backend = "mock" => UNCHANGED txs,
         UNCHANGED <<setting, height>>, trouble' \in 0 .. MaxTrouble, trouble' >= trouble
  PROVE  ChainInv' /\ TransfersKept
<1>0. Backend' = Backend
  BY DEF Backend
<1>t. /\ setting \in Settings /\ height \in Nat /\ height' \in 1 .. MaxHeight /\ trouble' \in Nat
      /\ height' >= height
  BY CustodyAssumption DEF ChainInv
<1>1. CASE UNCHANGED txs
  <2>1. Len(txs') \in Nat
    BY <1>1 DEF ChainInv
  <2> QED BY <1>0, <1>1, <1>t, <2>1 DEF ChainInv, TransfersKept
<1>2. CASE Submitted(sender) /\ Backend # "mock"
  <2>1. PICK old \in Seq(Transfer) : old = txs
    BY DEF ChainInv
  <2>2. /\ txs' \in Seq(Transfer) /\ Len(txs') = Len(old) + 1
        /\ \A i \in 1 .. Len(old) : txs'[i] = old[i]
        /\ txs'[Len(old) + 1] = [by |-> sender, state |-> "pending", block |-> 0]
    BY <1>2, <2>1, SubmittedKeeps DEF Submitted
  <2>3. ASSUME NEW i \in 1 .. Len(txs')
        PROVE  (txs'[i].state = "pending" <=> txs'[i].block = 0) /\ txs'[i].block <= height'
    <3>1. Len(old) \in Nat
      BY <2>1
    <3>2. CASE i \in 1 .. Len(old)
      BY <2>1, <2>2, <3>2 DEF ChainInv
    <3>3. CASE i = Len(old) + 1
      BY <1>t, <2>2, <3>3
    <3> QED BY <2>2, <3>1, <3>2, <3>3
  <2>4. ChainInv'
    BY <1>0, <1>2, <1>t, <2>2, <2>3 DEF ChainInv
  <2>5. Len(old) \in Nat /\ Len(txs') \in Nat
    BY <2>2
  <2> QED BY <1>0, <1>t, <2>1, <2>2, <2>4, <2>5 DEF TransfersKept
<1> QED BY <1>1, <1>2 DEF Takes

MinedAs(tx, state, block) == [tx EXCEPT !.state = state, !.block = block]

LEMMA MinedTransfer ==
  ASSUME NEW old \in Transfer, NEW state \in {"success", "reverted"}, NEW n \in Nat
  PROVE  /\ MinedAs(old, state, n + 1) \in Transfer
         /\ MinedAs(old, state, n + 1).by = old.by
         /\ MinedAs(old, state, n + 1).state = state
         /\ MinedAs(old, state, n + 1).block = n + 1
<1>1. PICK m \in Nat : m = n + 1
  OBVIOUS
<1>2. [old EXCEPT !.state = state, !.block = m]
        = [by |-> old.by, state |-> state, block |-> m]
  <2>1. PICK half \in Transfer : /\ half = [old EXCEPT !.state = state]
                                /\ half.by = old.by /\ half.state = state
    <3>1. /\ [old EXCEPT !.state = state] \in Transfer
          /\ [old EXCEPT !.state = state].by = old.by
          /\ [old EXCEPT !.state = state].state = state
      BY DEF Transfer
    <3> QED BY <3>1
  <2>2. PICK full \in Transfer : /\ full = [half EXCEPT !.block = m]
                                /\ full.by = half.by /\ full.state = half.state /\ full.block = m
    <3>1. /\ [half EXCEPT !.block = m] \in Transfer
          /\ [half EXCEPT !.block = m].by = half.by
          /\ [half EXCEPT !.block = m].state = half.state
          /\ [half EXCEPT !.block = m].block = m
      BY DEF Transfer
    <3> QED BY <3>1
  <2>3. full = [by |-> full.by, state |-> full.state, block |-> full.block]
    BY DEF Transfer
  <2> QED BY <2>1, <2>2, <2>3
<1>3. old.by \in Others \union {Testbed}
  BY DEF Transfer
<1>4. [by |-> old.by, state |-> state, block |-> m] \in Transfer
  BY <1>3 DEF Transfer
<1> QED BY <1>1, <1>2, <1>4 DEF MinedAs

LEMMA ChainStep ==
  ASSUME ChainInv, [CustodyNext]_custodyVars
  PROVE  ChainInv' /\ TransfersKept
<1>t. /\ trouble \in 0 .. MaxTrouble /\ MaxTrouble \in Nat /\ trouble \in Nat
      /\ Testbed \in Others \union {Testbed}
  BY CustodyAssumption DEF ChainInv
<1>1. ASSUME Mine PROVE ChainInv' /\ TransfersKept
  <2>1. PICK old \in Seq(Transfer) : old = txs
    BY DEF ChainInv
  <2>2. /\ Backend # "mock" /\ Backend' = Backend /\ setting' = setting /\ setting \in Settings
        /\ height \in Nat /\ height' = height + 1 /\ height' \in 1 .. MaxHeight
        /\ trouble' = trouble
    BY <1>1, CustodyAssumption DEF Mine, ChainInv, Backend
  <2>3. \A i \in 1 .. Len(old) : /\ old[i].state = "pending" <=> old[i].block = 0
                                 /\ old[i].block <= height /\ old[i] \in Transfer
    BY <2>1 DEF ChainInv
  <2>4. CASE UNCHANGED txs
    <3>1. Len(old) \in Nat /\ \A i \in 1 .. Len(old) : old[i].block \in Nat
      BY <2>3 DEF Transfer
    <3>2. \A i \in 1 .. Len(old) : old[i].block <= height'
      BY <2>2, <2>3, <3>1
    <3> QED BY <1>t, <2>1, <2>2, <2>3, <2>4, <3>1, <3>2 DEF ChainInv, TransfersKept
  <2>5. ASSUME NEW k \in DOMAIN txs, NEW state \in {"success", "reverted"},
               txs[k].state = "pending",
               txs' = [txs EXCEPT ![k].state = state, ![k].block = height + 1]
        PROVE  ChainInv' /\ TransfersKept
    <3>1. k \in 1 .. Len(old) /\ Len(old) \in Nat
      BY <2>1, <2>5
    <3>2. PICK tx \in Transfer : /\ tx = MinedAs(old[k], state, height + 1)
                               /\ tx.by = old[k].by /\ tx.state = state
                               /\ tx.block = height + 1
      <4>1. PICK was \in Transfer : was = old[k]
        BY <2>3, <3>1
      <4> HIDE DEF Transfer
      <4> QED BY <2>2, <4>1, MinedTransfer
    <3>3. txs' = [old EXCEPT ![k] = tx]
      BY <2>1, <2>5, <3>2 DEF MinedAs
    <3>4. /\ txs' \in Seq(Transfer) /\ Len(txs') = Len(old) /\ txs'[k] = tx
          /\ \A j \in 1 .. Len(old) : j # k => txs'[j] = old[j]
      <4> HIDE DEF Transfer
      <4> QED BY <3>1, <3>3
    <3>5. ASSUME NEW j \in 1 .. Len(txs')
          PROVE  (txs'[j].state = "pending" <=> txs'[j].block = 0) /\ txs'[j].block <= height'
      <4>1. CASE j = k
        <5>1. height + 1 # 0 /\ state # "pending"
          BY <2>2, <2>5
        <5>2. txs'[j].state = state /\ txs'[j].block = height'
          BY <2>2, <3>2, <3>4, <4>1
        <5> QED BY <2>2, <5>1, <5>2
      <4>2. CASE j # k
        <5>1. txs'[j] = old[j] /\ j \in 1 .. Len(old)
          BY <3>4, <4>2
        <5>2. old[j].block \in Nat
          BY <2>3, <5>1 DEF Transfer
        <5> QED BY <2>2, <2>3, <5>1, <5>2
      <4> QED BY <4>1, <4>2
    <3>6. ChainInv'
      BY <1>t, <2>2, <3>4, <3>5 DEF ChainInv
    <3>7. \A i \in 1 .. Len(txs) :
            /\ txs'[i].by = txs[i].by
            /\ txs[i].state # "pending" => txs'[i] = txs[i]
      BY <2>1, <2>5, <3>2, <3>4
    <3>8. /\ Len(txs) = Len(old) /\ height' \in Nat /\ height' >= height
          /\ trouble' >= trouble /\ trouble' \in Nat
      BY <1>t, <2>1, <2>2
    <3>9. Len(txs') \in Nat /\ Len(txs') >= Len(txs)
      BY <3>1, <3>4, <3>8
    <3>10. TransfersKept
      BY <2>2, <3>7, <3>8, <3>9 DEF TransfersKept
    <3> QED BY <3>6, <3>10
  <2> QED BY <1>1, <2>4, <2>5 DEF Mine
<1>2. ASSUME NEW c \in Others, OtherSends(c) \/ OtherConfirms(c) \/ ProbeEnds(c)
      PROVE  ChainInv' /\ TransfersKept
  <2>1. /\ Takes(c) /\ UNCHANGED <<setting, height>> /\ (Backend = "mock" => UNCHANGED txs)
        /\ trouble' \in {trouble, trouble + 1} /\ (trouble' = trouble \/ trouble < MaxTrouble)
    BY <1>2 DEF OtherSends, OtherConfirms, ProbeEnds, Takes, Sees
  <2> QED BY <1>t, <2>1, ChainUnderTransfers
<1>3. ASSUME setting.mode = "live" /\ setting.provider = "evm",
             \/ ConnectivityProbe \/ ReadsTreasury \/ FundingProbe \/ ReadsHk \/ BedSends
             \/ BedConfirms \/ ReadsTreasuryAgain \/ ReadsHkAgain \/ BedCallFails
      PROVE  ChainInv' /\ TransfersKept
  <2>1. /\ Takes(Testbed) /\ UNCHANGED <<setting, height>>
        /\ trouble' \in {trouble, trouble + 1} /\ (trouble' = trouble \/ trouble < MaxTrouble)
    BY <1>3 DEF ConnectivityProbe, ReadsTreasury, FundingProbe, ReadsHk, BedSends, BedConfirms,
         ReadsTreasuryAgain, ReadsHkAgain, BedCallFails, Takes, Sees
  <2>2. Backend # "mock"
    BY <1>3 DEF Backend
  <2> QED BY <1>t, <2>1, <2>2, ChainUnderTransfers
<1>4. ASSUME UNCHANGED custodyVars PROVE ChainInv' /\ TransfersKept
  <2>1. Takes(Testbed) /\ UNCHANGED <<setting, height, txs>> /\ trouble' = trouble
    BY <1>4 DEF custodyVars, Takes
  <2> QED BY <1>t, <2>1, ChainUnderTransfers
<1> QED BY <1>1, <1>2, <1>3, <1>4 DEF CustodyNext, HealthCheck

\* The transfers that make up the balance at a block.
Paid(block) == {i \in DOMAIN txs : txs[i].state = "success" /\ txs[i].block <= block}

LEMMA HkIsSum ==
  ASSUME ChainInv, NEW block
  PROVE  /\ HkAt(block) = SumOver([i \in Paid(block) |-> AmountOf(txs[i].by)], Paid(block))
         /\ IsFiniteSet(Paid(block))
         /\ [i \in Paid(block) |-> AmountOf(txs[i].by)] \in [Paid(block) -> Nat]
<1> DEFINE T == Paid(block)
           f == [i \in T |-> AmountOf(txs[i].by)]
           Sum(g) == g = [s \in SUBSET T |-> IF s = {} THEN 0
                                             ELSE AmountOf(txs[Any(s)].by) + g[s \ {Any(s)}]]
           It == CHOOSE g : Sum(g)
<1>1. IsFiniteSet(T)
  <2>1. PICK n \in Nat : n = Len(txs) /\ T \in SUBSET (1 .. n)
    BY DEF ChainInv, Paid
  <2>2. IsFiniteSet(1 .. n)
    BY FS_Interval
  <2> HIDE DEF T
  <2> QED BY <2>1, <2>2, FS_Subset
<1>2. f \in [T -> Nat]
  <2>1. \A i : AmountOf(txs[i].by) \in Nat
    BY CustodyAssumption DEF AmountOf
  <2> QED BY <2>1
<1>3. \A g : Tallies(g, f, T) <=> Sum(g)
  <2> HIDE DEF T
  <2>1. \A s \in SUBSET T : s # {} => f[Any(s)] = AmountOf(txs[Any(s)].by)
    BY DEF Any
  <2> HIDE DEF f
  <2>2. \A g : [s \in SUBSET T |-> IF s = {} THEN 0 ELSE f[Any(s)] + g[s \ {Any(s)}]]
                 = [s \in SUBSET T |-> IF s = {} THEN 0
                                       ELSE AmountOf(txs[Any(s)].by) + g[s \ {Any(s)}]]
    BY <2>1
  <2> QED BY <2>2 DEF Tallies
<1>4. PICK g : Tallies(g, f, T)
  <2>1. f \in [T -> Int]
    BY <1>2
  <2> HIDE DEF f, T
  <2> QED BY <1>1, <2>1, TalliesExist
<1>5. Sum(It)
  <2> HIDE DEF Sum
  <2> QED BY <1>3, <1>4
<1>6. HkAt(block) = It[T]
  BY DEF HkAt, MapThenSumSet, MapThenFoldSet, Any, Paid
<1>7. SumOver(f, T) = It[T]
  <2> HIDE DEF It, f, T, Sum
  <2> QED BY <1>1, <1>3, <1>5, SumOverIsSum
<1> QED BY <1>1, <1>2, <1>6, <1>7

LEMMA HkAmounts ==
  ASSUME ChainInv, NEW block
  PROVE  /\ HkAt(block) \in Nat
         /\ Paid(block) = {} => HkAt(block) = 0
         /\ \A i : Paid(block) = {i} => HkAt(block) = AmountOf(txs[i].by)
<1>1. PICK T, f : /\ T = Paid(block) /\ IsFiniteSet(T)
                  /\ f = [i \in T |-> AmountOf(txs[i].by)] /\ f \in [T -> Nat]
                  /\ HkAt(block) = SumOver(f, T)
  BY HkIsSum
<1>2. f \in [T -> Int] /\ T \in SUBSET T
  BY <1>1
<1>3. SumOver(f, T) \in Nat
  BY <1>1, <1>2, SumIsNat
<1>4. T = {} => SumOver(f, T) = 0
  <2>1. \A t \in SUBSET T : t = {} => SumOver(f, t) = 0
    BY <1>1, <1>2, SumOfSet
  <2> QED BY <1>2, <2>1
<1>5. ASSUME NEW i, T = {i} PROVE SumOver(f, T) = AmountOf(txs[i].by)
  <2>1. SumOver(f, T) = f[i] + SumOver(f, T \ {i})
    BY <1>1, <1>2, <1>5, SumOfSet
  <2>2. T \ {i} = {} /\ T \ {i} \in SUBSET T
    BY <1>5
  <2>3. SumOver(f, T \ {i}) = 0
    BY <1>1, <1>2, <2>2, SumOfSet
  <2>4. f[i] = AmountOf(txs[i].by) /\ f[i] \in Nat
    BY <1>1, <1>5
  <2> QED BY <2>1, <2>3, <2>4
<1> QED BY <1>1, <1>3, <1>4, <1>5

\* An other follows its own transfer, and is told that it is confirmed only when it has
\* moved the money, under as many blocks as asked for.
Followed(c, f) ==
  /\ f.tx <= Len(txs)
  /\ f.confirmed => f.sent
  /\ Backend # "mock" =>
       /\ f.sent => f.tx # 0 /\ txs[f.tx].by = c
       /\ f.confirmed => txs[f.tx].state = "success" /\ (Backend = "evm" => Deep(f.tx))

FollowRow == [sent : BOOLEAN, tx : Nat, confirmed : BOOLEAN]

FollowInv ==
  /\ follow \in [Others -> FollowRow]
  /\ \A c \in Others, f \in FollowRow : follow[c] = f => Followed(c, f)

LEMMA DeepStays ==
  ASSUME ChainInv, TransfersKept, NEW i \in 1 .. Len(txs), Deep(i)
  PROVE  Deep(i)'
<1>1. txs'[i] = txs[i] /\ height' \in Nat /\ height' >= height /\ height \in Nat
  BY DEF Deep, TransfersKept, ChainInv
<1>2. txs[i].block \in Nat
  <2>1. txs[i] \in Transfer
    BY DEF ChainInv
  <2> QED BY <2>1 DEF Transfer
<1>3. Confirmations \in Nat
  BY CustodyAssumption
<1> QED BY <1>1, <1>2, <1>3 DEF Deep

LEMMA FollowedStays ==
  ASSUME ChainInv, TransfersKept, NEW c \in Others, NEW f \in FollowRow, Followed(c, f)
  PROVE  Followed(c, f)'
<1>1. /\ Len(txs) \in Nat /\ Len(txs') \in Nat /\ Len(txs') >= Len(txs) /\ Backend' = Backend
      /\ f.tx \in Nat
  BY DEF ChainInv, TransfersKept, FollowRow
<1>2. ASSUME Backend # "mock", f.sent
      PROVE  /\ f.tx # 0 /\ txs'[f.tx].by = c
             /\ f.confirmed => txs'[f.tx].state = "success" /\ (Backend = "evm" => Deep(f.tx)')
  <2>1. PICK i \in 1 .. Len(txs) : i = f.tx /\ txs[i].by = c
    BY <1>1, <1>2 DEF Followed
  <2>2. f.confirmed => txs[i].state = "success" /\ (Backend = "evm" => Deep(i))
    BY <1>2, <2>1 DEF Followed
  <2>3. txs'[i].by = c /\ (txs[i].state = "success" => txs'[i] = txs[i])
    BY <2>1 DEF TransfersKept
  <2>4. Deep(i) => Deep(i)'
    BY DeepStays
  <2>5. Deep(f.tx)' = Deep(i)'
    BY <2>1 DEF Deep
  <2> QED BY <1>1, <2>1, <2>2, <2>3, <2>4, <2>5
<1> QED BY <1>1, <1>2 DEF Followed

LEMMA NextFollowInv ==
  ASSUME ChainInv, FollowInv, [CustodyNext]_custodyVars
  PROVE  FollowInv'
<1>0. ChainInv' /\ TransfersKept
  BY ChainStep
<1>t. /\ follow \in [Others -> FollowRow] /\ Len(txs) \in Nat
      /\ \A c \in Others, f \in FollowRow : follow[c] = f => Followed(c, f)
      /\ Backend \in {"mock", "evm", "circle"}
  BY CustodySettings DEF FollowInv, ChainInv, Backend
<1>1. ASSUME NEW c \in Others, NEW row \in FollowRow, Followed(c, row)',
             follow' = [follow EXCEPT ![c] = row]
      PROVE  FollowInv'
  <2>1. ASSUME NEW d \in Others, NEW f \in FollowRow, follow'[d] = f PROVE Followed(d, f)'
    <3>1. CASE d = c
      <4>1. f = row
        BY <1>1, <1>t, <2>1, <3>1
      <4> QED BY <1>1, <3>1, <4>1
    <3>2. CASE d # c
      <4>1. Followed(d, f)
        BY <1>1, <1>t, <2>1, <3>2
      <4> QED BY <1>0, <4>1, FollowedStays
    <3> QED BY <3>1, <3>2
  <2> QED BY <1>1, <1>t, <2>1 DEF FollowInv
<1>2. CASE UNCHANGED follow
  <2>1. ASSUME NEW c \in Others, NEW f \in FollowRow, follow'[c] = f PROVE Followed(c, f)'
    <3>1. Followed(c, f)
      BY <1>2, <1>t, <2>1
    <3> QED BY <1>0, <3>1, FollowedStays
  <2> QED BY <1>2, <1>t, <2>1 DEF FollowInv
<1>3. ASSUME NEW c \in Others, OtherSends(c) PROVE FollowInv'
  <2>1. PICK f \in FollowRow : f = follow[c] /\ Followed(c, f)
    BY <1>t
  <2>2. PICK n \in Nat : n = Len(txs')
    BY <1>0 DEF TransfersKept
  <2>3. PICK row \in FollowRow : /\ row = [f EXCEPT !.sent = TRUE, !.tx = n]
                                 /\ row.sent /\ row.tx = n /\ row.confirmed = f.confirmed
    <3>1. PICK half \in FollowRow : /\ half = [f EXCEPT !.sent = TRUE]
                                    /\ half.sent /\ half.confirmed = f.confirmed
      <4>1. /\ [f EXCEPT !.sent = TRUE] \in FollowRow
            /\ [f EXCEPT !.sent = TRUE].sent
            /\ [f EXCEPT !.sent = TRUE].confirmed = f.confirmed
        BY DEF FollowRow
      <4> QED BY <4>1
    <3>2. /\ [half EXCEPT !.tx = n] \in FollowRow
          /\ [half EXCEPT !.tx = n].tx = n
          /\ [half EXCEPT !.tx = n].sent = half.sent
          /\ [half EXCEPT !.tx = n].confirmed = half.confirmed
      BY DEF FollowRow
    <3> QED BY <3>1, <3>2
  <2>4. follow' = [follow EXCEPT ![c] = row]
    BY <1>3, <2>1, <2>2, <2>3 DEF OtherSends
  <2>5. ~row.confirmed
    BY <1>3, <2>1, <2>3 DEF OtherSends, Followed, FollowRow
  <2>6. Backend # "mock" => row.tx # 0 /\ txs'[row.tx].by = c
    <3>1. CASE Backend # "mock"
      <4>1. Submitted(c)
        BY <1>3, <3>1 DEF OtherSends
      <4>2. PICK old \in Seq(Transfer) : old = txs
        BY DEF ChainInv
      <4>3. Len(txs') = Len(old) + 1 /\ txs'[Len(old) + 1].by = c
        BY <4>1, <4>2, SubmittedKeeps DEF Submitted
      <4>4. Len(old) \in Nat
        OBVIOUS
      <4> QED BY <2>2, <2>3, <4>3, <4>4
    <3> QED BY <3>1
  <2>7. Followed(c, row)'
    BY <1>0, <2>2, <2>3, <2>5, <2>6 DEF Followed, TransfersKept
  <2> QED BY <1>1, <2>4, <2>7
<1>4. ASSUME NEW c \in Others, OtherConfirms(c) PROVE FollowInv'
  <2>1. PICK f \in FollowRow : f = follow[c] /\ Followed(c, f) /\ f.sent
    BY <1>4, <1>t DEF OtherConfirms
  <2>2. PICK head \in 0 .. height :
          follow' = [follow EXCEPT ![c].confirmed =
                       CASE Backend = "mock" -> MockConfirm.confirmed
                         [] Backend = "circle" -> CircleConfirm(follow[c].tx).confirmed
                         [] Backend = "evm" -> EvmConfirm(follow[c].tx, head).confirmed]
    BY <1>4, <1>t DEF OtherConfirms
  <2>3. PICK b \in BOOLEAN :
          /\ follow' = [follow EXCEPT ![c].confirmed = b]
          /\ b /\ Backend # "mock" =>
               txs[f.tx].state = "success" /\ (Backend = "evm" => Deep(f.tx))
    <3>1. CASE Backend = "mock"
      <4>1. MockConfirm.confirmed = TRUE
        BY DEF MockConfirm
      <4>2. follow' = [follow EXCEPT ![c].confirmed = TRUE]
        BY <2>2, <3>1, <4>1
      <4> QED BY <3>1, <4>2
    <3>2. CASE Backend = "circle"
      <4>1. PICK b \in BOOLEAN : b = CircleConfirm(f.tx).confirmed
        BY DEF CircleConfirm, Unconfirmed
      <4>2. b => txs[f.tx].state = "success"
        BY <4>1 DEF CircleConfirm, Unconfirmed
      <4>3. follow' = [follow EXCEPT ![c].confirmed = b]
        BY <2>1, <2>2, <3>2, <4>1
      <4> QED BY <3>2, <4>2, <4>3
    <3>3. CASE Backend = "evm"
      <4>1. PICK b \in BOOLEAN : b = EvmConfirm(f.tx, head).confirmed
        BY DEF EvmConfirm, Unconfirmed
      <4>2. b => txs[f.tx].state = "success" /\ Deep(f.tx)
        BY <4>1 DEF EvmConfirm, Unconfirmed
      <4>3. follow' = [follow EXCEPT ![c].confirmed = b]
        BY <2>1, <2>2, <3>3, <4>1
      <4> QED BY <4>2, <4>3
    <3> QED BY <1>t, <3>1, <3>2, <3>3
  <2>4. PICK row \in FollowRow : /\ row = [f EXCEPT !.confirmed = b]
                                 /\ row.sent /\ row.tx = f.tx /\ row.confirmed = b
    <3>1. /\ [f EXCEPT !.confirmed = b] \in FollowRow
          /\ [f EXCEPT !.confirmed = b].sent = f.sent
          /\ [f EXCEPT !.confirmed = b].tx = f.tx
          /\ [f EXCEPT !.confirmed = b].confirmed = b
      BY DEF FollowRow
    <3> QED BY <2>1, <3>1
  <2>5. follow' = [follow EXCEPT ![c] = row]
    BY <2>1, <2>3, <2>4
  <2>6. Followed(c, row)
    BY <2>1, <2>3, <2>4 DEF Followed
  <2>7. Followed(c, row)'
    BY <1>0, <2>6, FollowedStays
  <2> QED BY <1>1, <2>5, <2>7
<1>5. ASSUME NEW c \in Others, ProbeEnds(c) PROVE FollowInv'
  <2>1. NotSent \in FollowRow /\ Followed(c, NotSent)'
    BY <1>0 DEF NotSent, FollowRow, Followed, TransfersKept
  <2>2. follow' = [follow EXCEPT ![c] = NotSent]
    BY <1>5 DEF ProbeEnds
  <2> QED BY <1>1, <2>1, <2>2
<1>6. CASE \/ Mine \/ ConnectivityProbe \/ ReadsTreasury \/ FundingProbe \/ ReadsHk \/ BedSends
           \/ BedConfirms \/ ReadsTreasuryAgain \/ ReadsHkAgain \/ BedCallFails
           \/ UNCHANGED custodyVars
  BY <1>2, <1>6 DEF Mine, ConnectivityProbe, ReadsTreasury, FundingProbe, ReadsHk, BedSends,
     BedConfirms, ReadsTreasuryAgain, ReadsHkAgain, BedCallFails, custodyVars
<1> QED BY <1>3, <1>4, <1>5, <1>6 DEF CustodyNext, HealthCheck

(***************************************************************************)
(* The testbed.  Its script has eleven calls; the one that sends is the    *)
(* sixth, and nothing of its own is on the chain before.                   *)
(***************************************************************************)
BedState ==
  [at : 1 .. 12, from : Int, to : Nat, answer : Answers, late : BOOLEAN,
   failing : SUBSET Checks]

Proven == \A i \in Own : txs[i].state = "success" /\ Deep(i)

ScriptInv ==
  /\ bed \in BedState
  /\ bed.at > 1 => Backend = "evm"
  /\ bed.at < 7 => Own = {}
  /\ bed.at \in 7 .. 11 => Own # {}
  /\ \A i, j \in Own : i = j
  /\ bed.at \in 8 .. 11 /\ ("txConfirmed" \notin bed.failing \/ ~bed.late) => Proven
  /\ bed.at = 12 /\ bed.failing = {} => Own # {} /\ Proven

\* Nothing has happened that the testbed might stumble over.
Clean ==
  /\ setting.gas /\ setting.sameChain /\ setting.funds >= TestbedAmount
  /\ trouble = 0 /\ ~OthersMoved /\ ~bed.late

\* What the script keeps of its calls then.
Kept(b) ==
  /\ b.failing = {}
  /\ b.at \in 3 .. 8 => b.from = setting.funds
  /\ b.at = 9 => b.from = TestbedAmount
  /\ b.at \in 6 .. 9 => b.to = 0
  /\ b.at \in 8 .. 11 => b.answer.confirmed /\ b.answer.status = "success"

SoundInv == Clean => \A b \in BedState : bed = b => Kept(b)

LEMMA CallsInOrder ==
  \A n \in 1 .. 12 :
    /\ BedScript[n] = "status" <=> n = 1
    /\ BedScript[n] = "funds" <=> n = 2
    /\ BedScript[n] = "gas" <=> n = 3
    /\ BedScript[n] = "beforeFrom" <=> n = 4
    /\ BedScript[n] = "beforeTo" <=> n = 5
    /\ BedScript[n] = "send" <=> n = 6
    /\ BedScript[n] = "confirm" <=> n = 7
    /\ BedScript[n] = "afterFrom" <=> n = 8
    /\ BedScript[n] = "afterTo" <=> n = 9
    /\ BedScript[n] = "again" <=> n = 10
    /\ BedScript[n] = "onceMore" <=> n = 11
    /\ BedScript[n] = "exit" <=> n = 12
  BY DEF BedScript

\* What the script keeps from its calls, field by field.
LEMMA GoesOn ==
  ASSUME NEW kept \in BedState, kept.at <= 11, Goes(kept)
  PROVE  /\ bed' \in BedState /\ bed'.at = kept.at + 1 /\ bed'.from = kept.from
         /\ bed'.to = kept.to /\ bed'.answer = kept.answer /\ bed'.late = kept.late
         /\ bed'.failing = kept.failing
<1>1. PICK n \in 1 .. 12 : n = kept.at + 1
  BY DEF BedState
<1>2. bed' = [kept EXCEPT !.at = n]
  BY <1>1 DEF Goes
<1> QED BY <1>1, <1>2 DEF BedState

LEMMA ExitsWith ==
  ASSUME NEW kept \in BedState, bed = kept, NEW failing \in SUBSET Checks, Exits(failing)
  PROVE  /\ bed' \in BedState /\ bed'.at = 12 /\ bed'.late = kept.late
         /\ bed'.failing = kept.failing \union failing
<1>1. Len(BedScript) = 12
  BY DEF BedScript
<1>2. PICK half \in BedState : half = [kept EXCEPT !.at = 12] /\ half.late = kept.late
                             /\ half.at = 12 /\ half.failing = kept.failing
  <2>1. /\ [kept EXCEPT !.at = 12] \in BedState
        /\ [kept EXCEPT !.at = 12].late = kept.late
        /\ [kept EXCEPT !.at = 12].at = 12
        /\ [kept EXCEPT !.at = 12].failing = kept.failing
    BY DEF BedState
  <2> QED BY <2>1
<1>3. PICK all \in SUBSET Checks : all = kept.failing \union failing
  BY DEF BedState
<1>4. bed' = [half EXCEPT !.failing = all]
  BY <1>1, <1>2, <1>3 DEF Exits
<1> QED BY <1>2, <1>3, <1>4 DEF BedState

LEMMA EvmAnswer ==
  ASSUME ChainInv, NEW i \in 1 .. Len(txs), NEW head \in 0 .. height, head >= height - 1
  PROVE  /\ EvmConfirm(i, head) \in Answers
         /\ EvmConfirm(i, head).confirmed =>
              /\ txs[i].state = "success" /\ Deep(i)
              /\ EvmConfirm(i, head).status = "success"
              /\ EvmConfirm(i, head).confirmations >= Confirmations
<1>1. txs[i] \in Transfer /\ height \in Nat
  BY DEF ChainInv
<1>2. PICK m \in Nat : m = txs[i].block
  BY <1>1 DEF Transfer
<1>3. Confirmations \in Nat \ {0} /\ txs[i].state \in {"pending", "success", "reverted"}
  BY <1>1, CustodyAssumption DEF Transfer
<1>4. CASE ~Deep(i)
  BY <1>4 DEF EvmConfirm, Unconfirmed, Answers
<1>5. CASE Deep(i)
  <2>1. PICK n \in Nat : n = head - m + 1
    BY <1>1, <1>2, <1>3, <1>5 DEF Deep
  <2>2. PICK ok \in BOOLEAN : ok = (txs[i].state = "success" /\ n >= Confirmations)
    OBVIOUS
  <2>3. PICK state \in {"pending", "success", "reverted"} : state = txs[i].state
    BY <1>3
  <2>4. state # "pending"
    BY <1>5, <2>3 DEF Deep
  <2>5. EvmConfirm(i, head) = [confirmed |-> ok, status |-> state, confirmations |-> n]
    BY <1>2, <1>5, <2>1, <2>2, <2>3 DEF EvmConfirm
  <2>6. EvmConfirm(i, head) \in Answers
    BY <2>1, <2>3, <2>5 DEF Answers
  <2>7. /\ EvmConfirm(i, head).confirmed = ok
        /\ EvmConfirm(i, head).status = state /\ EvmConfirm(i, head).confirmations = n
    BY <2>5
  <2>8. ok => state = "success" /\ n >= Confirmations
    BY <2>2, <2>3
  <2> QED BY <1>5, <2>3, <2>6, <2>7, <2>8
<1> QED BY <1>4, <1>5

\* The balance of the HK wallet while no other has moved anything.
LEMMA OwnBalance ==
  ASSUME ChainInv, ~OthersMoved
  PROVE  /\ Own = {} => \A block : HkAt(block) = 0
         /\ \A i : Own = {i} /\ Proven => HkAt(height) = TestbedAmount
<1>1. \A block : Paid(block) \subseteq Own
  BY DEF Paid, OthersMoved, Own
<1>2. ASSUME Own = {}, NEW block PROVE HkAt(block) = 0
  <2>1. Paid(block) = {}
    BY <1>1, <1>2
  <2> QED BY <2>1, HkAmounts
<1>3. ASSUME NEW i, Own = {i}, Proven PROVE HkAt(height) = TestbedAmount
  <2>1. i \in Own /\ i \in 1 .. Len(txs)
    BY <1>3 DEF Own, ChainInv
  <2>2. txs[i] \in Transfer /\ height \in Nat
    BY <2>1 DEF ChainInv
  <2>3. Confirmations \in Nat \ {0} /\ txs[i].block \in Nat
    BY <2>2, CustodyAssumption DEF Transfer
  <2>4. height >= txs[i].block + Confirmations - 1 /\ txs[i].state = "success"
    BY <1>3, <2>1 DEF Proven, Deep
  <2>5. txs[i].block <= height
    BY <2>2, <2>3, <2>4
  <2>6. i \in Paid(height)
    BY <2>1, <2>4, <2>5 DEF Paid, Own
  <2>7. Paid(height) = {i}
    BY <1>1, <1>3, <2>6
  <2>8. txs[i].by = Testbed
    BY <2>1 DEF Own
  <2> QED BY <2>7, <2>8, HkAmounts DEF AmountOf
<1> QED BY <1>2, <1>3

\* The transfers of the testbed's own, after a step.
LEMMA OwnStep ==
  ASSUME ChainInv, ChainInv', TransfersKept
  PROVE  /\ UNCHANGED txs => Own' = Own
         /\ Len(txs') = Len(txs) => Own' = Own
         /\ \A sender \in Others \union {Testbed} : Submitted(sender) =>
              Own' = IF sender = Testbed THEN Own \union {Len(txs')} ELSE Own
         /\ Own' = Own /\ Proven => Proven'
         /\ OthersMoved => OthersMoved'
<1>1. PICK n \in Nat : n = Len(txs) /\ DOMAIN txs = 1 .. n
  BY DEF ChainInv
<1>2. PICK m \in Nat : m = Len(txs') /\ DOMAIN txs' = 1 .. m /\ m >= n
  BY <1>1 DEF ChainInv, TransfersKept
<1>3. \A i \in 1 .. n : /\ txs'[i].by = txs[i].by
                        /\ txs[i].state # "pending" => txs'[i] = txs[i]
  BY <1>1 DEF TransfersKept
<1>4. UNCHANGED txs => Own' = Own
  BY DEF Own
<1>5. m = n => Own' = Own
  BY <1>1, <1>2, <1>3 DEF Own
<1>6. ASSUME NEW sender \in Others \union {Testbed}, Submitted(sender)
      PROVE  Own' = IF sender = Testbed THEN Own \union {Len(txs')} ELSE Own
  <2>1. PICK old \in Seq(Transfer) : old = txs
    BY DEF ChainInv
  <2>2. m = n + 1 /\ txs'[m].by = sender
    BY <1>1, <1>2, <1>6, <2>1, SubmittedKeeps DEF Submitted
  <2>3. DOMAIN txs' = DOMAIN txs \union {m} /\ m \notin DOMAIN txs
    BY <1>1, <1>2, <2>2
  <2>4. \A i \in DOMAIN txs : txs'[i].by = txs[i].by
    BY <1>1, <1>3
  <2> QED BY <1>2, <2>2, <2>3, <2>4 DEF Own
<1>7. ASSUME Own' = Own, Proven PROVE Proven'
  <2>1. ASSUME NEW i \in Own PROVE txs'[i].state = "success" /\ Deep(i)'
    <3>1. i \in 1 .. n /\ txs[i].state = "success" /\ Deep(i)
      BY <1>1, <1>7 DEF Own, Proven
    <3>2. txs'[i] = txs[i]
      BY <1>3, <3>1
    <3>3. Deep(i)'
      BY <1>1, <3>1, DeepStays
    <3> QED BY <3>1, <3>2, <3>3
  <2> QED BY <1>7, <2>1 DEF Proven
<1>8. OthersMoved => OthersMoved'
  <2>1. ASSUME NEW i \in DOMAIN txs, txs[i].by # Testbed, txs[i].state = "success"
        PROVE  OthersMoved'
    <3>1. i \in DOMAIN txs' /\ txs'[i] = txs[i]
      BY <1>1, <1>2, <1>3, <2>1
    <3> QED BY <2>1, <3>1 DEF OthersMoved
  <2> QED BY <2>1 DEF OthersMoved
<1> QED BY <1>1, <1>2, <1>4, <1>5, <1>6, <1>7, <1>8

\* A step of the script keeps ScriptInv and SoundInv if what it leaves is in order.
LEMMA BedLeaves ==
  ASSUME ChainInv, ScriptInv, SoundInv, ChainInv', TransfersKept, Backend = "evm",
         NEW new \in BedState, bed' = new, bed.late => new.late,
         new.at < 7 => Own' = {}, new.at \in 7 .. 11 => Own' # {},
         \A i, j \in Own' : i = j,
         new.at \in 8 .. 11 /\ ("txConfirmed" \notin new.failing \/ ~new.late) => Proven',
         new.at = 12 /\ new.failing = {} => Own' # {} /\ Proven',
         Clean /\ Clean' /\ Kept(bed) => Kept(new)
  PROVE  ScriptInv' /\ SoundInv'
<1>1. Backend' = Backend /\ setting' = setting /\ bed \in BedState /\ trouble' >= trouble
      /\ trouble \in Nat /\ trouble' \in Nat
  BY DEF TransfersKept, ScriptInv, ChainInv
<1>2. ScriptInv'
  BY <1>1 DEF ScriptInv
<1>3. Clean' => Clean
  BY <1>1, OwnStep DEF Clean
<1>4. Kept(new) => Kept(new)'
  BY <1>1 DEF Kept
<1>5. Clean => Kept(bed)
  BY <1>1 DEF SoundInv
<1>6. SoundInv'
  BY <1>3, <1>4, <1>5 DEF SoundInv
<1> QED BY <1>2, <1>6

LEMMA BedRests ==
  ASSUME ChainInv, ScriptInv, SoundInv, ChainInv', TransfersKept, UNCHANGED bed, Own' = Own
  PROVE  ScriptInv' /\ SoundInv'
<1>1. Backend' = Backend /\ setting' = setting /\ bed \in BedState /\ trouble' >= trouble
      /\ trouble \in Nat /\ trouble' \in Nat
  BY DEF TransfersKept, ScriptInv, ChainInv
<1>2. Proven => Proven'
  BY OwnStep
<1>3. ScriptInv'
  BY <1>1, <1>2 DEF ScriptInv
<1>4. Clean' => Clean
  BY <1>1, OwnStep DEF Clean
<1>5. \A b \in BedState : Kept(b) => Kept(b)'
  BY <1>1 DEF Kept
<1>6. SoundInv'
  BY <1>4, <1>5 DEF SoundInv
<1> QED BY <1>3, <1>6

LEMMA BedSendsKeeps ==
  ASSUME ChainInv, ScriptInv, SoundInv, ChainInv', TransfersKept, Backend = "evm",
         NEW b \in BedState, b = bed, BedSends
  PROVE  ScriptInv' /\ SoundInv'
<1>1. b.at = 6 /\ UNCHANGED <<setting, height, trouble>>
  BY CallsInOrder DEF BedSends, AtCall, BedState
<1>2. Own = {}
  BY <1>1 DEF ScriptInv
<1>3. CASE Submitted(Testbed) /\ Goes(bed)
  <2>1. PICK new \in BedState :
          /\ bed' = new /\ new.at = 7 /\ new.from = b.from /\ new.to = b.to
          /\ new.failing = b.failing /\ new.late = b.late
    BY <1>1, <1>3, GoesOn
  <2>2. Own' = {Len(txs')}
    BY <1>2, <1>3, OwnStep
  <2>3. Clean /\ Kept(bed) => Kept(new)
    BY <1>1, <2>1 DEF Kept
  <2> QED BY <2>1, <2>2, <2>3, BedLeaves
<1>4. CASE UNCHANGED txs /\ Exits({"submit"}) /\ ~Accepted(Testbed)
  <2>1. PICK new \in BedState :
          bed' = new /\ new.at = 12 /\ new.late = b.late /\ "submit" \in new.failing
    <3>1. {"submit"} \in SUBSET Checks
      BY DEF Checks
    <3> QED BY <1>4, <3>1, ExitsWith
  <2>2. Own' = {}
    BY <1>2, <1>4, OwnStep
  <2>3. ~Clean
    <3>1. ~setting.gas \/ ~(TreasuryAt(height) >= TestbedAmount)
      BY <1>4 DEF Accepted, AmountOf
    <3>2. ASSUME Clean PROVE TreasuryAt(height) >= TestbedAmount
      <4>1. HkAt(height) = 0 /\ setting.funds >= TestbedAmount
        BY <1>2, <3>2, OwnBalance DEF Clean
      <4>2. setting.funds \in Nat
        BY CustodySettings DEF ChainInv
      <4> QED BY <4>1, <4>2 DEF TreasuryAt
    <3> QED BY <3>1, <3>2 DEF Clean
  <2> QED BY <2>1, <2>2, <2>3, BedLeaves
<1> QED BY <1>3, <1>4 DEF BedSends

LEMMA OwnTransferIsThere ==
  ASSUME ChainInv, ScriptInv, bed.at \in 7 .. 11
  PROVE  OwnTransfer \in 1 .. Len(txs) /\ Own = {OwnTransfer}
<1>1. PICK i : i \in Own
  BY DEF ScriptInv
<1>2. OwnTransfer \in DOMAIN txs /\ txs[OwnTransfer].by = Testbed
  BY <1>1 DEF OwnTransfer, Own
<1>3. OwnTransfer \in Own /\ \A j, k \in Own : j = k
  BY <1>2 DEF Own, ScriptInv
<1> QED BY <1>2, <1>3 DEF ChainInv

\* An answer of confirm, or of a node that fails, for which there is trouble.
LEMMA BedAnsweredKeeps ==
  ASSUME ChainInv, ScriptInv, SoundInv, ChainInv', TransfersKept, Backend = "evm",
         NEW b \in BedState, b = bed, b.at \in {7, 10, 11},
         NEW answer \in Answers, BedAnswered(answer), UNCHANGED txs,
         answer.confirmed => /\ Proven /\ answer.status = "success"
                             /\ answer.confirmations >= Confirmations
  PROVE  ScriptInv' /\ SoundInv'
<1>1. PICK judged \in SUBSET Checks : judged = Judged(answer)
  BY DEF Judged, Checks
<1>2. PICK late \in BOOLEAN : late = (b.late \/ ~answer.confirmed)
  OBVIOUS
<1>3. PICK failing \in SUBSET Checks : failing = b.failing \union judged
  BY DEF BedState
<1>4. PICK kept \in BedState :
        /\ kept = [b EXCEPT !.answer = answer, !.late = late, !.failing = failing]
        /\ kept.at = b.at /\ kept.from = b.from /\ kept.to = b.to /\ kept.answer = answer
        /\ kept.late = late /\ kept.failing = failing
  <2>1. PICK one \in BedState :
          /\ one = [b EXCEPT !.answer = answer]
          /\ one.at = b.at /\ one.from = b.from /\ one.to = b.to /\ one.answer = answer
    <3>1. /\ [b EXCEPT !.answer = answer] \in BedState
          /\ [b EXCEPT !.answer = answer].at = b.at
          /\ [b EXCEPT !.answer = answer].from = b.from
          /\ [b EXCEPT !.answer = answer].to = b.to
          /\ [b EXCEPT !.answer = answer].answer = answer
      BY DEF BedState
    <3> QED BY <3>1
  <2>2. PICK two \in BedState :
          /\ two = [one EXCEPT !.late = late] /\ two.late = late
          /\ two.at = b.at /\ two.from = b.from /\ two.to = b.to /\ two.answer = answer
    <3>1. /\ [one EXCEPT !.late = late] \in BedState
          /\ [one EXCEPT !.late = late].at = one.at
          /\ [one EXCEPT !.late = late].from = one.from
          /\ [one EXCEPT !.late = late].to = one.to
          /\ [one EXCEPT !.late = late].answer = one.answer
          /\ [one EXCEPT !.late = late].late = late
      BY DEF BedState
    <3> QED BY <2>1, <3>1
  <2>3. /\ [two EXCEPT !.failing = failing] \in BedState
        /\ [two EXCEPT !.failing = failing].at = two.at
        /\ [two EXCEPT !.failing = failing].from = two.from
        /\ [two EXCEPT !.failing = failing].to = two.to
        /\ [two EXCEPT !.failing = failing].answer = two.answer
        /\ [two EXCEPT !.failing = failing].late = two.late
        /\ [two EXCEPT !.failing = failing].failing = failing
    BY DEF BedState
  <2>4. [two EXCEPT !.failing = failing]
          = [b EXCEPT !.answer = answer, !.late = late, !.failing = failing]
    BY <2>1, <2>2
  <2> QED BY <2>2, <2>3, <2>4
<1>5. Goes(kept)
  BY <1>1, <1>2, <1>3, <1>4 DEF BedAnswered
<1>6. PICK new \in BedState :
        /\ bed' = new /\ new.at = b.at + 1 /\ new.from = b.from /\ new.to = b.to
        /\ new.answer = answer /\ new.late = late /\ new.failing = failing
  <2>1. kept.at <= 11
    BY <1>4
  <2> QED BY <1>4, <1>5, <2>1, GoesOn
<1>7. Own' = Own /\ Own # {} /\ (Proven => Proven') /\ \A i, j \in Own : i = j
  BY OwnStep DEF ScriptInv
<1>8. b.at = 7 /\ ~answer.confirmed => "txConfirmed" \in failing
  BY <1>1, <1>3, CallsInOrder DEF Judged, AtCall
<1>9. ~late => Proven
  BY <1>2
<1>10. b.at \in {10, 11} /\ "txConfirmed" \notin failing => Proven
  BY <1>3 DEF ScriptInv
<1>11. "txConfirmed" \notin failing => Proven
  BY <1>8, <1>10
<1>12. ~late /\ Kept(b) => judged = {}
  <2>1. CASE b.at = 7
    <3>1. AtCall("confirm")
      BY <2>1, CallsInOrder DEF AtCall
    <3> QED BY <1>1, <1>2, <3>1 DEF Judged
  <2>2. CASE b.at \in {10, 11}
    <3>1. ~AtCall("confirm")
      BY <2>2, CallsInOrder DEF AtCall, BedState
    <3>2. Kept(b) => b.answer.confirmed /\ b.answer.status = "success"
      BY <2>2 DEF Kept
    <3>3. b.answer.confirmed \in BOOLEAN /\ answer.confirmed \in BOOLEAN
      BY DEF BedState, Answers
    <3> QED BY <1>1, <1>2, <3>1, <3>2, <3>3 DEF Judged
  <2> QED BY <2>1, <2>2
<1>13. Clean /\ Clean' /\ Kept(b) => Kept(new)
  <2>1. Clean' => ~late
    BY <1>6 DEF Clean
  <2>2. ASSUME ~late, Kept(b) PROVE Kept(new)
    <3>1. new.failing = {} /\ answer.confirmed /\ answer.status = "success"
      BY <1>2, <1>3, <1>6, <1>12, <2>2 DEF Kept
    <3> QED BY <1>6, <2>2, <3>1 DEF Kept
  <2> QED BY <2>1, <2>2
<1>14. new.at \in {8, 11, 12} /\ (b.late => new.late)
  <2>1. new.at \in {8, 11, 12}
    BY <1>6
  <2>2. b.late => late
    BY <1>2
  <2> QED BY <1>6, <2>1, <2>2
<1>15. "txConfirmed" \notin new.failing \/ ~new.late => Proven'
  BY <1>6, <1>7, <1>9, <1>11
<1>16. \A i, j \in Own' : i = j
  BY <1>7
<1>17. new.failing = {} => Proven'
  BY <1>15
<1> QED BY <1>6, <1>7, <1>13, <1>14, <1>15, <1>16, <1>17, BedLeaves

\* What a read of the chain sees, and what there is to see of its own.
LEMMA SeenBlock ==
  ASSUME ChainInv, ChainInv', NEW block \in 0 .. height, Sees(block)
  PROVE  /\ block >= height - 1
         /\ Clean' => block = height
         /\ TreasuryAt(block) \in Int /\ HkAt(block) \in Nat
<1>1. trouble \in Nat /\ height \in Nat
  BY CustodyAssumption DEF ChainInv
<1>2. setting.funds \in Nat /\ HkAt(block) \in Nat
  BY CustodySettings, HkAmounts DEF ChainInv
<1> QED BY <1>1, <1>2 DEF Sees, Clean, TreasuryAt

\* The testbed's state with one of its fields written.
LEMMA BedWrites ==
  ASSUME NEW b \in BedState
  PROVE  /\ \A x \in Int : \E kept \in BedState :
              /\ kept = [b EXCEPT !.from = x] /\ kept.from = x
              /\ kept.at = b.at /\ kept.to = b.to /\ kept.answer = b.answer
              /\ kept.late = b.late /\ kept.failing = b.failing
         /\ \A x \in Nat : \E kept \in BedState :
              /\ kept = [b EXCEPT !.to = x] /\ kept.to = x
              /\ kept.at = b.at /\ kept.from = b.from /\ kept.answer = b.answer
              /\ kept.late = b.late /\ kept.failing = b.failing
         /\ \A x \in SUBSET Checks : \E kept \in BedState :
              /\ kept = [b EXCEPT !.failing = x] /\ kept.failing = x
              /\ kept.at = b.at /\ kept.from = b.from /\ kept.to = b.to
              /\ kept.answer = b.answer /\ kept.late = b.late
<1>1. ASSUME NEW x \in Int
      PROVE  \E kept \in BedState :
               /\ kept = [b EXCEPT !.from = x] /\ kept.from = x
               /\ kept.at = b.at /\ kept.to = b.to /\ kept.answer = b.answer
               /\ kept.late = b.late /\ kept.failing = b.failing
  <2>1. /\ [b EXCEPT !.from = x] \in BedState /\ [b EXCEPT !.from = x].from = x
        /\ [b EXCEPT !.from = x].at = b.at /\ [b EXCEPT !.from = x].to = b.to
        /\ [b EXCEPT !.from = x].answer = b.answer
        /\ [b EXCEPT !.from = x].late = b.late
        /\ [b EXCEPT !.from = x].failing = b.failing
    BY DEF BedState
  <2> QED BY <2>1
<1>2. ASSUME NEW x \in Nat
      PROVE  \E kept \in BedState :
               /\ kept = [b EXCEPT !.to = x] /\ kept.to = x
               /\ kept.at = b.at /\ kept.from = b.from /\ kept.answer = b.answer
               /\ kept.late = b.late /\ kept.failing = b.failing
  <2>1. /\ [b EXCEPT !.to = x] \in BedState /\ [b EXCEPT !.to = x].to = x
        /\ [b EXCEPT !.to = x].at = b.at /\ [b EXCEPT !.to = x].from = b.from
        /\ [b EXCEPT !.to = x].answer = b.answer
        /\ [b EXCEPT !.to = x].late = b.late
        /\ [b EXCEPT !.to = x].failing = b.failing
    BY DEF BedState
  <2> QED BY <2>1
<1>3. ASSUME NEW x \in SUBSET Checks
      PROVE  \E kept \in BedState :
               /\ kept = [b EXCEPT !.failing = x] /\ kept.failing = x
               /\ kept.at = b.at /\ kept.from = b.from /\ kept.to = b.to
               /\ kept.answer = b.answer /\ kept.late = b.late
  <2>1. /\ [b EXCEPT !.failing = x] \in BedState /\ [b EXCEPT !.failing = x].failing = x
        /\ [b EXCEPT !.failing = x].at = b.at /\ [b EXCEPT !.failing = x].from = b.from
        /\ [b EXCEPT !.failing = x].to = b.to
        /\ [b EXCEPT !.failing = x].answer = b.answer
        /\ [b EXCEPT !.failing = x].late = b.late
    BY DEF BedState
  <2> QED BY <2>1
<1> QED BY <1>1, <1>2, <1>3

LEMMA BedProbesKeep ==
  ASSUME ChainInv, ScriptInv, SoundInv, ChainInv', TransfersKept, Backend = "evm",
         NEW b \in BedState, b = bed, ConnectivityProbe \/ FundingProbe
  PROVE  ScriptInv' /\ SoundInv'
<1>1. UNCHANGED <<setting, height, txs, trouble>> /\ b.at \in {1, 3}
  BY CallsInOrder DEF ConnectivityProbe, FundingProbe, AtCall, BedState
<1>2. Own = {} /\ Own' = {}
  BY <1>1, OwnStep DEF ScriptInv
<1>3. CASE ConnectivityProbe
  <2>1. b.at = 1
    BY <1>1, <1>3, CallsInOrder DEF ConnectivityProbe, AtCall
  <2>2. PICK kept \in BedState :
          /\ Goes(kept) /\ kept.at = 1 /\ kept.late = b.late
          /\ setting.sameChain => kept.failing = b.failing
    <3>1. CASE setting.sameChain
      BY <1>3, <2>1, <3>1 DEF ConnectivityProbe
    <3>2. CASE ~setting.sameChain
      <4>1. PICK failing \in SUBSET Checks : failing = {"connectivity"}
        <5>1. {"connectivity"} \in SUBSET Checks
          BY DEF Checks
        <5> QED BY <5>1
      <4>2. PICK kept \in BedState :
              /\ kept = [b EXCEPT !.failing = failing] /\ kept.failing = failing
              /\ kept.at = b.at /\ kept.from = b.from /\ kept.to = b.to
              /\ kept.answer = b.answer /\ kept.late = b.late
        BY BedWrites
      <4> QED BY <1>3, <2>1, <3>2, <4>1, <4>2 DEF ConnectivityProbe
    <3> QED BY <3>1, <3>2
  <2>3. PICK new \in BedState :
          bed' = new /\ new.at = 2 /\ new.late = b.late /\ new.failing = kept.failing
    BY <2>2, GoesOn
  <2>4. Clean /\ Kept(b) => Kept(new)
    BY <2>2, <2>3 DEF Clean, Kept
  <2> QED BY <1>2, <2>3, <2>4, BedLeaves
<1>4. CASE FundingProbe
  <2>1. b.at = 3 /\ AtCall("gas")
    BY <1>1, <1>4, CallsInOrder DEF FundingProbe, AtCall
  <2>2. CASE (bed.from < TestbedAmount \/ ~setting.gas) /\ Exits({"funding"})
    <3>1. {"funding"} \in SUBSET Checks
      BY DEF Checks
    <3>2. PICK new \in BedState :
            bed' = new /\ new.at = 12 /\ new.late = b.late /\ "funding" \in new.failing
      BY <2>2, <3>1, ExitsWith
    <3>3. ~(Clean /\ Kept(b))
      <4>1. setting.funds \in Nat /\ TestbedAmount \in Nat /\ b.from \in Int
        BY CustodySettings, CustodyAssumption DEF ChainInv, BedState
      <4> QED BY <2>1, <2>2, <4>1 DEF Clean, Kept
    <3> QED BY <1>2, <3>2, <3>3, BedLeaves
  <2>3. CASE bed.failing # {} /\ Exits({})
    <3>1. {} \in SUBSET Checks
      OBVIOUS
    <3>2. PICK new \in BedState :
            bed' = new /\ new.at = 12 /\ new.late = b.late /\ new.failing = b.failing \union {}
      BY <2>3, <3>1, ExitsWith
    <3>3. ~Kept(b) /\ new.failing # {}
      BY <2>3, <3>2 DEF Kept
    <3> QED BY <1>2, <3>2, <3>3, BedLeaves
  <2>4. CASE Goes(bed)
    <3>1. PICK new \in BedState :
            /\ bed' = new /\ new.at = 4 /\ new.from = b.from /\ new.failing = b.failing
            /\ new.late = b.late
      BY <2>1, <2>4, GoesOn
    <3>2. Kept(b) => Kept(new)
      BY <2>1, <3>1 DEF Kept
    <3> QED BY <1>2, <3>1, <3>2, BedLeaves
  <2> QED BY <1>4, <2>2, <2>3, <2>4 DEF FundingProbe
<1> QED BY <1>3, <1>4

LEMMA BedReadsKeep ==
  ASSUME ChainInv, ScriptInv, SoundInv, ChainInv', TransfersKept, Backend = "evm",
         NEW b \in BedState, b = bed, ReadsTreasury \/ ReadsHk
  PROVE  ScriptInv' /\ SoundInv'
<1>1. UNCHANGED <<setting, height, txs>> /\ b.at \in {2, 4, 5}
  BY CallsInOrder DEF ReadsTreasury, ReadsHk, AtCall, BedState
<1>2. Own = {} /\ Own' = {}
  BY <1>1, OwnStep DEF ScriptInv
<1>3. Clean => \A block : HkAt(block) = 0
  BY <1>2, OwnBalance DEF Clean
<1>4. CASE ReadsTreasury
  <2>1. b.at \in {2, 4}
    BY <1>1, <1>4, CallsInOrder DEF ReadsTreasury, AtCall
  <2>2. PICK block \in 0 .. height :
          Sees(block) /\ Goes([bed EXCEPT !.from = TreasuryAt(block)])
    BY <1>4 DEF ReadsTreasury
  <2>3. PICK from \in Int : from = TreasuryAt(block)
    BY <2>2, SeenBlock
  <2>4. PICK kept \in BedState :
          /\ kept = [b EXCEPT !.from = from] /\ kept.from = from
          /\ kept.at = b.at /\ kept.late = b.late /\ kept.failing = b.failing
    BY BedWrites
  <2>5. Goes(kept) /\ kept.at <= 11
    BY <2>1, <2>2, <2>3, <2>4
  <2>6. PICK new \in BedState :
          /\ bed' = new /\ new.at = b.at + 1 /\ new.from = from /\ new.late = b.late
          /\ new.failing = b.failing
    BY <2>4, <2>5, GoesOn
  <2>7. Clean => from = setting.funds
    <3>1. setting.funds \in Nat
      BY CustodySettings DEF ChainInv
    <3> QED BY <1>3, <2>3, <3>1 DEF TreasuryAt
  <2>8. new.at \in {3, 5}
    BY <2>1, <2>6
  <2>9. Clean /\ Kept(b) => Kept(new)
    BY <2>6, <2>7, <2>8 DEF Kept
  <2> QED BY <1>2, <2>6, <2>8, <2>9, BedLeaves
<1>5. CASE ReadsHk
  <2>1. b.at = 5
    BY <1>1, <1>5, CallsInOrder DEF ReadsHk, AtCall
  <2>2. PICK block \in 0 .. height :
          Sees(block) /\ Goes([bed EXCEPT !.to = HkAt(block)])
    BY <1>5 DEF ReadsHk
  <2>3. PICK to \in Nat : to = HkAt(block)
    BY <2>2, SeenBlock
  <2>4. PICK kept \in BedState :
          /\ kept = [b EXCEPT !.to = to] /\ kept.to = to
          /\ kept.at = b.at /\ kept.from = b.from /\ kept.late = b.late
          /\ kept.failing = b.failing
    BY BedWrites
  <2>5. Goes(kept) /\ kept.at <= 11
    BY <2>1, <2>2, <2>3, <2>4
  <2>6. PICK new \in BedState :
          /\ bed' = new /\ new.at = 6 /\ new.from = b.from /\ new.to = to
          /\ new.late = b.late /\ new.failing = b.failing
    <3>1. kept.at + 1 = 6
      BY <2>1, <2>4
    <3> QED BY <2>4, <2>5, <3>1, GoesOn
  <2>7. Clean => to = 0
    BY <1>3, <2>3
  <2>8. Clean /\ Kept(b) => Kept(new)
    BY <2>1, <2>6, <2>7 DEF Kept
  <2> QED BY <1>2, <2>6, <2>8, BedLeaves
<1> QED BY <1>4, <1>5

LEMMA BedReadsAgainKeep ==
  ASSUME ChainInv, ScriptInv, SoundInv, ChainInv', TransfersKept, Backend = "evm",
         NEW b \in BedState, b = bed, ReadsTreasuryAgain \/ ReadsHkAgain
  PROVE  ScriptInv' /\ SoundInv'
<1>1. UNCHANGED <<setting, height, txs>> /\ b.at \in {8, 9}
  BY CallsInOrder DEF ReadsTreasuryAgain, ReadsHkAgain, AtCall, BedState
<1>2. Own' = Own /\ Own # {} /\ (Proven => Proven') /\ \A i, j \in Own : i = j
  BY <1>1, OwnStep DEF ScriptInv
<1>3. "txConfirmed" \notin b.failing \/ ~b.late => Proven
  BY <1>1 DEF ScriptInv
<1>4. Clean => HkAt(height) = TestbedAmount
  <2>1. PICK i : Own = {i}
    BY <1>2
  <2>2. Clean => Proven /\ ~OthersMoved
    BY <1>3 DEF Clean
  <2> QED BY <2>1, <2>2, OwnBalance
<1>5. TestbedAmount \in Nat /\ setting.funds \in Nat
  BY CustodyAssumption, CustodySettings DEF ChainInv
<1>6. \A i, j \in Own' : i = j
  BY <1>2
<1>7. CASE ReadsTreasuryAgain
  <2>1. b.at = 8
    BY <1>1, <1>7, CallsInOrder DEF ReadsTreasuryAgain, AtCall
  <2>2. PICK block \in 0 .. height :
          Sees(block) /\ Goes([bed EXCEPT !.from = @ - TreasuryAt(block)])
    BY <1>7 DEF ReadsTreasuryAgain
  <2>3. PICK from \in Int : from = b.from - TreasuryAt(block)
    <3>1. b.from \in Int /\ TreasuryAt(block) \in Int
      BY <2>2, SeenBlock DEF BedState
    <3> QED BY <3>1
  <2>4. PICK kept \in BedState :
          /\ kept = [b EXCEPT !.from = from] /\ kept.from = from
          /\ kept.at = b.at /\ kept.to = b.to /\ kept.answer = b.answer
          /\ kept.late = b.late /\ kept.failing = b.failing
    BY BedWrites
  <2>5. Goes(kept) /\ kept.at <= 11 /\ kept.at + 1 = 9
    BY <2>1, <2>2, <2>3, <2>4
  <2>6. PICK new \in BedState :
          /\ bed' = new /\ new.at = 9 /\ new.from = from /\ new.to = b.to
          /\ new.answer = b.answer /\ new.late = b.late /\ new.failing = b.failing
    BY <2>4, <2>5, GoesOn
  <2>7. ASSUME Clean, Clean', Kept(b) PROVE Kept(new)
    <3>1. block = height /\ b.from = setting.funds
      BY <2>1, <2>2, <2>7, SeenBlock DEF Kept
    <3>2. from = TestbedAmount
      BY <1>4, <1>5, <2>3, <2>7, <3>1 DEF TreasuryAt
    <3> QED BY <2>1, <2>6, <2>7, <3>2 DEF Kept
  <2>8. "txConfirmed" \notin new.failing \/ ~new.late => Proven'
    BY <1>2, <1>3, <2>6
  <2> QED BY <1>2, <1>6, <2>6, <2>7, <2>8, BedLeaves
<1>8. CASE ReadsHkAgain
  <2>1. b.at = 9
    <3>1. AtCall("afterTo")
      BY <1>8 DEF ReadsHkAgain
    <3> QED BY <1>1, <3>1, CallsInOrder DEF AtCall
  <2>2. PICK block \in 0 .. height, debited \in SUBSET Checks, credited \in SUBSET Checks :
          /\ Sees(block)
          /\ debited = IF bed.from = TestbedAmount THEN {} ELSE {"senderDebited"}
          /\ credited = IF HkAt(block) - bed.to = TestbedAmount THEN {}
                        ELSE {"recipientCredited"}
          /\ Goes([bed EXCEPT !.failing = @ \union debited \union credited,
                              !.from = 0, !.to = 0])
    <3>1. PICK block \in 0 .. height :
            /\ Sees(block)
            /\ LET debited == IF bed.from = TestbedAmount THEN {} ELSE {"senderDebited"}
                   credited == IF HkAt(block) - bed.to = TestbedAmount THEN {}
                               ELSE {"recipientCredited"}
               IN Goes([bed EXCEPT !.failing = @ \union debited \union credited,
                                   !.from = 0, !.to = 0])
      BY <1>8 DEF ReadsHkAgain
    <3>2. PICK debited \in SUBSET Checks :
            debited = IF bed.from = TestbedAmount THEN {} ELSE {"senderDebited"}
      BY DEF Checks
    <3>3. PICK credited \in SUBSET Checks :
            credited = IF HkAt(block) - bed.to = TestbedAmount THEN {}
                       ELSE {"recipientCredited"}
      BY DEF Checks
    <3> QED BY <3>1, <3>2, <3>3
  <2>3. PICK failing \in SUBSET Checks : failing = b.failing \union debited \union credited
    BY DEF BedState
  <2>4. PICK one \in BedState :
          /\ one = [b EXCEPT !.failing = failing] /\ one.failing = failing
          /\ one.at = b.at /\ one.from = b.from /\ one.to = b.to
          /\ one.answer = b.answer /\ one.late = b.late
    BY BedWrites
  <2>z. PICK zero \in Nat : zero = 0 /\ zero \in Int
    OBVIOUS
  <2>5. PICK two \in BedState :
          /\ two = [one EXCEPT !.from = zero] /\ two.from = zero
          /\ two.at = one.at /\ two.to = one.to /\ two.answer = one.answer
          /\ two.late = one.late /\ two.failing = one.failing
    BY <2>z, BedWrites
  <2>6. PICK kept \in BedState :
          /\ kept = [two EXCEPT !.to = zero] /\ kept.to = zero
          /\ kept.at = two.at /\ kept.from = two.from /\ kept.answer = two.answer
          /\ kept.late = two.late /\ kept.failing = two.failing
    BY BedWrites
  <2>7. kept = [b EXCEPT !.failing = failing, !.from = 0, !.to = 0]
    BY <2>4, <2>5, <2>6, <2>z
  <2>8. Goes(kept) /\ kept.at <= 11 /\ kept.at + 1 = 10
    BY <2>1, <2>2, <2>3, <2>4, <2>5, <2>6, <2>7
  <2>9. PICK new \in BedState :
          /\ bed' = new /\ new.at = 10 /\ new.answer = b.answer /\ new.late = b.late
          /\ new.failing = failing
    <3>1. kept.answer = b.answer /\ kept.late = b.late /\ kept.failing = failing
      BY <2>4, <2>5, <2>6
    <3> QED BY <2>8, <3>1, GoesOn
  <2>10. ASSUME Clean, Clean', Kept(b) PROVE Kept(new)
    <3>1. block = height /\ b.from = TestbedAmount /\ b.to = 0
      BY <2>1, <2>2, <2>10, SeenBlock DEF Kept
    <3>2. HkAt(block) - bed.to = TestbedAmount
      BY <1>4, <1>5, <2>10, <3>1
    <3>3. failing = {}
      BY <2>2, <2>3, <2>10, <3>1, <3>2 DEF Kept
    <3> QED BY <2>1, <2>9, <2>10, <3>3 DEF Kept
  <2>11. "txConfirmed" \notin new.failing \/ ~new.late => Proven'
    BY <1>2, <1>3, <2>3, <2>9
  <2> QED BY <1>2, <1>6, <2>9, <2>10, <2>11, BedLeaves
<1> QED BY <1>7, <1>8

LEMMA BedConfirmsKeeps ==
  ASSUME ChainInv, ScriptInv, SoundInv, ChainInv', TransfersKept, Backend = "evm",
         NEW b \in BedState, b = bed, BedConfirms
  PROVE  ScriptInv' /\ SoundInv'
<1>1. UNCHANGED txs /\ b.at \in {7, 10, 11}
  BY CallsInOrder DEF BedConfirms, AtCall, BedState
<1>2. PICK head \in 0 .. height : Sees(head) /\ BedAnswered(EvmConfirm(OwnTransfer, head))
  BY DEF BedConfirms
<1>3. OwnTransfer \in 1 .. Len(txs) /\ Own = {OwnTransfer}
  BY <1>1, OwnTransferIsThere
<1>4. head >= height - 1
  BY <1>2, SeenBlock
<1>5. PICK answer \in Answers :
        /\ answer = EvmConfirm(OwnTransfer, head)
        /\ answer.confirmed => /\ txs[OwnTransfer].state = "success" /\ Deep(OwnTransfer)
                               /\ answer.status = "success"
                               /\ answer.confirmations >= Confirmations
  BY <1>3, <1>4, EvmAnswer
<1>6. answer.confirmed => Proven
  BY <1>3, <1>5 DEF Proven
<1> QED BY <1>1, <1>2, <1>5, <1>6, BedAnsweredKeeps

\* Whatever fails, a call that failed is trouble enough.
LEMMA BedCallFailsKeeps ==
  ASSUME ChainInv, ScriptInv, SoundInv, ChainInv', TransfersKept, Backend = "evm",
         NEW b \in BedState, b = bed, BedCallFails
  PROVE  ScriptInv' /\ SoundInv'
<1>1. ~Clean'
  BY CustodyAssumption DEF BedCallFails, Clean, ChainInv
<1>2. CASE AtCall("status") /\ Goes([bed EXCEPT !.failing = {"connectivity"}]) /\ UNCHANGED txs
  <2>1. b.at = 1
    BY <1>2, CallsInOrder DEF AtCall, BedState
  <2>2. PICK failing \in SUBSET Checks : failing = {"connectivity"}
    <3>1. {"connectivity"} \in SUBSET Checks
      BY DEF Checks
    <3> QED BY <3>1
  <2>3. PICK kept \in BedState :
          /\ kept = [b EXCEPT !.failing = failing] /\ kept.failing = failing
          /\ kept.at = b.at /\ kept.from = b.from /\ kept.to = b.to
          /\ kept.answer = b.answer /\ kept.late = b.late
    BY BedWrites
  <2>4. Goes(kept) /\ kept.at <= 11 /\ kept.at + 1 = 2
    BY <1>2, <2>1, <2>2, <2>3
  <2>5. PICK new \in BedState : bed' = new /\ new.at = 2 /\ new.late = b.late
    BY <2>3, <2>4, GoesOn
  <2>6. Own' = {}
    BY <1>2, <2>1, OwnStep DEF ScriptInv
  <2> QED BY <1>1, <2>5, <2>6, BedLeaves
<1>3. CASE (AtCall("funds") \/ AtCall("gas")) /\ Exits({"funding"}) /\ UNCHANGED txs
  <2>1. b.at \in {2, 3}
    BY <1>3, CallsInOrder DEF AtCall, BedState
  <2>2. {"funding"} \in SUBSET Checks
    BY DEF Checks
  <2>3. PICK new \in BedState :
          bed' = new /\ new.at = 12 /\ new.late = b.late /\ "funding" \in new.failing
    BY <1>3, <2>2, ExitsWith
  <2>4. Own' = {}
    BY <1>3, <2>1, OwnStep DEF ScriptInv
  <2> QED BY <1>1, <2>3, <2>4, BedLeaves
<1>4. CASE /\ AtCall("send") /\ Exits({"submit"})
           /\ UNCHANGED txs \/ (Accepted(Testbed) /\ Submitted(Testbed))
  <2>1. b.at = 6
    BY <1>4, CallsInOrder DEF AtCall, BedState
  <2>2. {"submit"} \in SUBSET Checks
    BY DEF Checks
  <2>3. PICK new \in BedState :
          bed' = new /\ new.at = 12 /\ new.late = b.late /\ "submit" \in new.failing
    BY <1>4, <2>2, ExitsWith
  <2>4. Own = {}
    BY <2>1 DEF ScriptInv
  <2>5. Own' = {} \/ Own' = {Len(txs')}
    BY <1>4, <2>4, OwnStep
  <2>6. \A i, j \in Own' : i = j
    BY <2>5
  <2> QED BY <1>1, <2>3, <2>6, BedLeaves
<1>5. CASE /\ AtCall("confirm") \/ AtCall("again") \/ AtCall("onceMore")
           /\ BedAnswered(Unconfirmed) /\ UNCHANGED txs
  <2>1. b.at \in {7, 10, 11}
    BY <1>5, CallsInOrder DEF AtCall, BedState
  <2>2. PICK answer \in Answers : answer = Unconfirmed /\ answer.confirmed = FALSE
    <3>1. Unconfirmed \in Answers /\ Unconfirmed.confirmed = FALSE
      BY DEF Unconfirmed, Answers
    <3> QED BY <3>1
  <2> QED BY <1>5, <2>1, <2>2, BedAnsweredKeeps
<1>6. CASE /\ \E name \in {"beforeFrom", "beforeTo", "afterFrom", "afterTo"} : AtCall(name)
           /\ Exits({"crash"}) /\ UNCHANGED txs
  <2>1. {"crash"} \in SUBSET Checks
    BY DEF Checks
  <2>2. PICK new \in BedState :
          bed' = new /\ new.at = 12 /\ new.late = b.late /\ "crash" \in new.failing
    BY <1>6, <2>1, ExitsWith
  <2>3. Own' = Own
    BY <1>6, OwnStep
  <2>4. \A i, j \in Own' : i = j
    BY <2>3 DEF ScriptInv
  <2> QED BY <1>1, <2>2, <2>4, BedLeaves
<1> QED BY <1>2, <1>3, <1>4, <1>5, <1>6 DEF BedCallFails

LEMMA NextBed ==
  ASSUME ChainInv, ScriptInv, SoundInv, [CustodyNext]_custodyVars
  PROVE  ScriptInv' /\ SoundInv'
<1>0. ChainInv' /\ TransfersKept /\ bed \in BedState
  BY ChainStep DEF ScriptInv
<1>1. CASE Mine
  <2>1. DOMAIN txs' = DOMAIN txs /\ UNCHANGED bed
    BY <1>1 DEF Mine
  <2>2. Len(txs') = Len(txs)
    BY <1>0, <2>1 DEF ChainInv
  <2> QED BY <1>0, <2>1, <2>2, OwnStep, BedRests
<1>2. CASE \E c \in Others : OtherSends(c) \/ OtherConfirms(c) \/ ProbeEnds(c)
  <2>1. PICK c \in Others : OtherSends(c) \/ OtherConfirms(c) \/ ProbeEnds(c)
    BY <1>2
  <2>2. c # Testbed /\ c \in Others \union {Testbed}
    BY CustodyAssumption
  <2>3. Takes(c) /\ UNCHANGED bed
    BY <2>1 DEF OtherSends, OtherConfirms, ProbeEnds, Takes
  <2>4. Own' = Own
    BY <1>0, <2>2, <2>3, OwnStep DEF Takes
  <2> QED BY <1>0, <2>3, <2>4, BedRests
<1>3. CASE UNCHANGED custodyVars
  <2>1. UNCHANGED <<txs, bed>>
    BY <1>3 DEF custodyVars
  <2> QED BY <1>0, <2>1, OwnStep, BedRests
<1>4. CASE /\ setting.mode = "live" /\ setting.provider = "evm"
           /\ \/ ConnectivityProbe \/ ReadsTreasury \/ FundingProbe \/ ReadsHk \/ BedSends
              \/ BedConfirms \/ ReadsTreasuryAgain \/ ReadsHkAgain \/ BedCallFails
  <2>1. Backend = "evm"
    BY <1>4 DEF Backend
  <2> QED BY <1>0, <1>4, <2>1, BedProbesKeep, BedReadsKeep, BedSendsKeeps, BedConfirmsKeeps,
             BedReadsAgainKeep, BedCallFailsKeeps
<1> QED BY <1>1, <1>2, <1>3, <1>4 DEF CustodyNext, HealthCheck

(***************************************************************************)
(* The theorems.                                                           *)
(***************************************************************************)
CustodyInv == ChainInv /\ FollowInv /\ ScriptInv /\ SoundInv

ReadsInv == EngineInv /\ VerificationTypeOK /\ ReadInv /\ FreshInv

LEMMA InitCustodyInv == CustodyInit => CustodyInv
<1> SUFFICES ASSUME CustodyInit PROVE CustodyInv
  OBVIOUS
<1>1. txs = <<>> /\ Len(txs) = 0 /\ DOMAIN txs = {} /\ txs \in Seq(Transfer) /\ Own = {}
  <2> HIDE DEF Transfer
  <2> QED BY DEF CustodyInit, Own
<1>2. ChainInv
  BY <1>1, CustodyAssumption DEF CustodyInit, ChainInv
<1>3. FollowInv
  <2>1. NotSent \in FollowRow /\ \A c \in Others : Followed(c, NotSent)
    BY <1>1 DEF NotSent, FollowRow, Followed
  <2>2. \A c \in Others : follow[c] = NotSent
    BY DEF CustodyInit
  <2>3. follow \in [Others -> FollowRow]
    BY <2>1 DEF CustodyInit
  <2> QED BY <2>1, <2>2, <2>3 DEF FollowInv
<1>4. PICK b \in BedState :
        bed = b /\ b.at = 1 /\ b.failing = {} /\ b.late = FALSE
  <2>1. Unconfirmed \in Answers
    BY DEF Unconfirmed, Answers
  <2>2. /\ bed \in BedState /\ bed.at = 1 /\ bed.failing = {} /\ bed.late = FALSE
    BY <2>1 DEF CustodyInit, BedState
  <2> QED BY <2>2
<1>5. ScriptInv
  BY <1>1, <1>4 DEF ScriptInv
<1>6. SoundInv
  BY <1>4 DEF SoundInv, Kept
<1> QED BY <1>2, <1>3, <1>5, <1>6 DEF CustodyInv

LEMMA NextCustodyInv == CustodyInv /\ [CustodyNext]_custodyVars => CustodyInv'
  BY ChainStep, NextFollowInv, NextBed DEF CustodyInv

LEMMA InitReadsInv == VerificationInit => ReadsInv
<1> SUFFICES ASSUME VerificationInit PROVE ReadsInv
  OBVIOUS
<1>1. EngineInv
  BY InitEngineInv DEF VerificationInit
<1>2. PICK q \in Payments : suite = NoSuite(q) /\ NoSuite(q) \in Suite /\ suite.at = "none"
  <2>1. PICK q \in Payments : suite = NoSuite(q)
    BY DEF VerificationInit
  <2>2. NewPayment \in PayRow
    BY BoundAssumption DEF NewPayment, PayRow, PAYMENT_STATUSES, Ids
  <2>3. EmptyBook \in Book
    BY DEF EmptyBook, NoEntries, Book
  <2>4. NoSuite(q) \in Suite /\ NoSuite(q).at = "none"
    BY <2>2, <2>3 DEF NoSuite, Suite
  <2> QED BY <2>1, <2>4
<1>3. VerificationTypeOK
  BY <1>2 DEF VerificationInit, VerificationTypeOK
<1>4. ReadInv /\ FreshInv
  BY <1>2 DEF ReadInv, FreshInv
<1> QED BY <1>1, <1>3, <1>4 DEF ReadsInv

LEMMA NextReadsInv ==
  ASSUME QuotesCount
  PROVE  ReadsInv /\ [VerificationNext]_verificationVars => ReadsInv'
<1> SUFFICES ASSUME ReadsInv, [VerificationNext]_verificationVars PROVE ReadsInv'
  OBVIOUS
<1>1. EngineInv'
  BY VerificationSteps, NextEngineInv DEF ReadsInv
<1>2. VerificationTypeOK'
  BY NextSuiteType DEF ReadsInv, EngineInv
<1>3. ReadInv' /\ FreshInv'
  BY NextReadInv, NextFreshInv DEF ReadsInv
<1> QED BY <1>1, <1>2, <1>3 DEF ReadsInv

\* A step of Suites is a step, or none, of each of its parts.
LEMMA SuitesSteps ==
  [SuitesNext]_suitesVars =>
    [VerificationNext]_verificationVars /\ [CustodyNext]_custodyVars
  BY DEF SuitesNext, suitesVars

\* SuitesTypeOK: the reads of the verification suite, the transfers with their blocks,
\* what the others follow and what the testbed keeps have their types throughout.
THEOREM TypesOfTheSuites == SuitesSpec => []SuitesTypeOK
<1> DEFINE Inv == TypeInv /\ VerificationTypeOK /\ CustodyInv
<1>1. SuitesInit => Inv
  BY InitReadsInv, InitCustodyInv DEF SuitesInit, ReadsInv, EngineInv
<1>2. Inv /\ [SuitesNext]_suitesVars => Inv'
  BY SuitesSteps, VerificationSteps, NextTypeInv, NextSuiteType, NextCustodyInv
<1>3. Inv => SuitesTypeOK
  <2> SUFFICES ASSUME Inv PROVE CustodyTypeOK
    BY DEF SuitesTypeOK
  <2>1. \A i \in DOMAIN txs : /\ txs[i].by \in Others \union {Testbed}
                              /\ txs[i].state = "pending" <=> txs[i].block = 0
                              /\ txs[i].block \in 0 .. height
    <3>1. ASSUME NEW i \in DOMAIN txs
          PROVE  /\ txs[i].by \in Others \union {Testbed}
                 /\ txs[i].state = "pending" <=> txs[i].block = 0
                 /\ txs[i].block \in 0 .. height
      <4>1. i \in 1 .. Len(txs) /\ txs[i] \in Transfer /\ height \in Nat
        BY DEF CustodyInv, ChainInv
      <4>2. txs[i].by \in Others \union {Testbed} /\ txs[i].block \in Nat
        BY <4>1 DEF Transfer
      <4> QED BY <4>1, <4>2 DEF CustodyInv, ChainInv
    <3> QED BY <3>1
  <2>2. \A c \in Others : follow[c].tx \in 0 .. Len(txs) /\ follow[c].confirmed \in BOOLEAN
    <3>1. ASSUME NEW c \in Others
          PROVE  follow[c].tx \in 0 .. Len(txs) /\ follow[c].confirmed \in BOOLEAN
      <4>1. PICK f \in FollowRow : f = follow[c]
        BY DEF CustodyInv, FollowInv
      <4>2. f.tx <= Len(txs) /\ Len(txs) \in Nat
        BY <4>1 DEF CustodyInv, FollowInv, Followed, ChainInv
      <4> QED BY <4>1, <4>2 DEF FollowRow
    <3> QED BY <3>1
  <2>3. PICK b \in BedState : b = bed
    BY DEF CustodyInv, ScriptInv
  <2>4. /\ bed.at \in DOMAIN BedScript /\ bed.failing \subseteq Checks
        /\ bed.from \in Int /\ bed.to \in Nat /\ bed.answer \in Answers
        /\ bed.late \in BOOLEAN
    <3>1. DOMAIN BedScript = 1 .. 12
      BY DEF BedScript
    <3> QED BY <2>3, <3>1 DEF BedState
  <2> QED BY <2>1, <2>2, <2>4 DEF CustodyInv, ChainInv, CustodyTypeOK
<1> HIDE DEF Inv
<1> QED BY <1>1, <1>2, <1>3, PTL DEF SuitesSpec

\* ConfirmedMeansMoved: whoever is told by the EVM or the Circle backend that its
\* transfer is confirmed has had it mined, and successfully, and by the EVM backend
\* under EVM_CONFIRMATIONS blocks, however far behind the node that was asked for the
\* head may be; the mock says so of a transfer that there is not.
THEOREM ConfirmedHasMoved == SuitesSpec => []ConfirmedMeansMoved
<1>1. SuitesInit => CustodyInv
  BY InitCustodyInv DEF SuitesInit
<1>2. CustodyInv /\ [SuitesNext]_suitesVars => CustodyInv'
  BY SuitesSteps, NextCustodyInv
<1>3. CustodyInv => ConfirmedMeansMoved
  <2> SUFFICES ASSUME CustodyInv, NEW c \in Others, follow[c].confirmed
               PROVE  IF Backend = "mock" THEN txs = <<>>
                      ELSE LET tx == txs[follow[c].tx]
                           IN /\ tx.by = c /\ tx.state = "success"
                              /\ Backend = "evm" => height >= tx.block + Confirmations - 1
    BY DEF ConfirmedMeansMoved
  <2>1. PICK f \in FollowRow : f = follow[c] /\ Followed(c, f)
    BY DEF CustodyInv, FollowInv
  <2> QED BY <2>1 DEF CustodyInv, ChainInv, Followed, Deep
<1> QED BY <1>1, <1>2, <1>3, PTL DEF SuitesSpec

\* TransferChecksAreSound: when scripts/stablecoin.ts passes, it has sent one transfer,
\* which moved its amount and is deep enough, whatever the others did with the same
\* wallets meanwhile; when it fails, there was a reason for it.
THEOREM TestbedIsSound == SuitesSpec => []TransferChecksAreSound
<1>1. SuitesInit => CustodyInv
  BY InitCustodyInv DEF SuitesInit
<1>2. CustodyInv /\ [SuitesNext]_suitesVars => CustodyInv'
  BY SuitesSteps, NextCustodyInv
<1>3. CustodyInv => TransferChecksAreSound
  <2> SUFFICES ASSUME CustodyInv, AtCall("exit") PROVE
        /\ bed.failing = {} =>
             Cardinality(Own) = 1 /\ \A i \in Own : txs[i].state = "success" /\ Deep(i)
        /\ bed.failing # {} =>
             \/ ~setting.gas \/ ~setting.sameChain \/ setting.funds < TestbedAmount
             \/ trouble > 0 \/ OthersMoved
             \/ \E i \in Own : txs[i].state # "success"
             \/ bed.late
    BY DEF TransferChecksAreSound
  <2>1. PICK b \in BedState : b = bed /\ b.at = 12
    <3>1. bed \in BedState
      BY DEF CustodyInv, ScriptInv
    <3> QED BY <3>1, CallsInOrder DEF AtCall, BedState
  <2>2. ASSUME bed.failing = {} PROVE Cardinality(Own) = 1 /\ Proven
    <3>1. Own # {} /\ Proven /\ \A i, j \in Own : i = j
      BY <2>1, <2>2 DEF CustodyInv, ScriptInv
    <3>2. PICK i : Own = {i}
      BY <3>1
    <3> QED BY <3>1, <3>2, FS_Singleton
  <2>3. bed.failing # {} => ~Clean
    BY <2>1 DEF CustodyInv, SoundInv, Kept
  <2>4. ~Clean => \/ ~setting.gas \/ ~setting.sameChain \/ setting.funds < TestbedAmount
                  \/ trouble > 0 \/ OthersMoved \/ bed.late
    <3>1. /\ trouble \in Nat /\ setting.funds \in Nat /\ TestbedAmount \in Nat
      BY CustodyAssumption, CustodySettings DEF CustodyInv, ChainInv
    <3> QED BY <3>1 DEF Clean
  <2> QED BY <2>2, <2>3, <2>4 DEF Proven
<1> QED BY <1>1, <1>2, <1>3, PTL DEF SuitesSpec

\* SoundPaymentPasses: verifyPayment passes a payment at rest, at every status and
\* after any failures, if none of its transactions overwrote another.
THEOREM SoundIsPassed == ASSUME QuotesCount PROVE SuitesSpec => []SoundPaymentPasses
<1>1. SuitesInit => ReadsInv
  BY InitReadsInv DEF SuitesInit
<1>2. ReadsInv /\ [SuitesNext]_suitesVars => ReadsInv'
  BY SuitesSteps, NextReadsInv
<1>3. ReadsInv => SoundPaymentPasses
  BY DEF ReadsInv, VerificationTypeOK, Suite, FreshInv, SoundPaymentPasses, Concluded
<1> QED BY <1>1, <1>2, <1>3, PTL DEF SuitesSpec

\* NeverMisreadsCollectionOrRefund: whatever commits between the four queries of
\* verifyPayment, it does not reject a sound payment for its collection or its refund.
THEOREM CollectionAndRefundReadWell ==
  ASSUME QuotesCount PROVE SuitesSpec => []NeverMisreadsCollectionOrRefund
<1>1. SuitesInit => ReadsInv
  BY InitReadsInv DEF SuitesInit
<1>2. ReadsInv /\ [SuitesNext]_suitesVars => ReadsInv'
  BY SuitesSteps, NextReadsInv
<1>3. ReadsInv => NeverMisreadsCollectionOrRefund
  BY DEF ReadsInv, VerificationTypeOK, Suite, ReadInv, NeverMisreadsCollectionOrRefund
<1> QED BY <1>1, <1>2, <1>3, PTL DEF SuitesSpec

\* PassedRefundIsEmpty: whatever calls of PaymentEngineService raced, verifyPayment
\* does not pass a refunded payment at rest that has anything left in an account.
THEOREM PassedRefundHasNothingLeft ==
  ASSUME QuotesCount PROVE SuitesSpec => []PassedRefundIsEmpty
<1>1. SuitesInit => ReadsInv
  BY InitReadsInv DEF SuitesInit
<1>2. ReadsInv /\ [SuitesNext]_suitesVars => ReadsInv'
  BY SuitesSteps, NextReadsInv
<1>3. ReadsInv => PassedRefundIsEmpty
  BY DEF ReadsInv, VerificationTypeOK, Suite, FreshInv, PassedRefundIsEmpty, Concluded
<1> QED BY <1>1, <1>2, <1>3, PTL DEF SuitesSpec

\* The engine's conversions play no part in what follows.
HIDE ConversionAssumption

(***************************************************************************)
(* The sums of a payment.  Every conversion is off by at most half a unit, *)
(* so what two of them make of one sum differs by what the halves come to  *)
(* after the conversions that follow.                                      *)
(***************************************************************************)
SumsInv ==
  /\ sums \in Sums
  /\ sums.at # "typed" =>
       /\ sums.usdMinor \in convertMinor(sums.sendMinorKes, KesToUsd)
       /\ sums.receiveMinorCny \in convertMinor(sums.usdMinor, UsdTo.CNY)
       /\ sums.feeMinorKes = bpsOf(sums.sendMinorKes, MarginBps)
       /\ sums.allInMinorKes = sums.sendMinorKes + sums.feeMinorKes
  /\ sums.at = "asked" =>
       sums.shillings = Max({1} \union toMinor(sums.allInMinorKes, 1, 100))
  /\ sums.at \in {"onRamped", "paidOut"} =>
       sums.usdcMinor \in convertMinor(sums.sendMinorKes, KesToUsdc)
  /\ sums.at = "onRamped" => UsdcFits(sums.sendMinorKes)
  /\ sums.at = "refused" => ~UsdcFits(sums.sendMinorKes)
  /\ sums.at = "paidOut" => sums.hkdMinor \in convertMinor(sums.usdcMinor, UsdcToHkd)

\* The greatest of one or two numbers is one of them.
LEMMA GreaterOfTwo ==
  ASSUME NEW a \in Nat, NEW b \in Nat
  PROVE  \A S \in SUBSET {a, b} : S # {} => Max(S) \in S /\ \A x \in S : x <= Max(S)
<1> SUFFICES ASSUME NEW S \in SUBSET {a, b}, S # {}
             PROVE  Max(S) \in S /\ \A x \in S : x <= Max(S)
  OBVIOUS
<1>1. PICK x \in S : \A y \in S : x >= y
  <2>1. CASE a \in S /\ (b \in S => b <= a)
    <3>1. \A y \in S : a >= y
      BY <2>1
    <3> QED BY <2>1, <3>1
  <2>2. CASE b \in S /\ (a \in S => a <= b)
    <3>1. \A y \in S : b >= y
      BY <2>2
    <3> QED BY <2>2, <3>1
  <2>3. a \in S \/ b \in S
    OBVIOUS
  <2>4. a <= b \/ b <= a
    OBVIOUS
  <2> QED BY <2>1, <2>2, <2>3, <2>4
<1>2. PICK P : P = Max(S)
  OBVIOUS
<1>3. P \in S /\ \A y \in S : P >= y
  BY <1>1, <1>2 DEF Max
<1>4. \A y \in S : y \in Nat
  OBVIOUS
<1> QED BY <1>2, <1>3, <1>4

\* What a conversion at each of the rates gives, and that it gives something.
LEMMA Conversions ==
  ASSUME NEW n \in Nat
  PROVE  /\ \A r \in convertMinor(n, KesToUsd) :
              r \in Nat /\ 518 * r <= 4 * n + 259 /\ 4 * n <= 518 * r + 259
         /\ \A r \in convertMinor(n, KesToUsdc) :
              r \in Nat /\ 518 * r <= 40000 * n + 259 /\ 40000 * n <= 518 * r + 259
         /\ \A r \in convertMinor(n, UsdTo.CNY) : r \in Nat
         /\ \A r \in convertMinor(n, UsdTo.HKD) :
              r \in Nat /\ 20 * r <= 156 * n + 10 /\ 156 * n <= 20 * r + 10
         /\ \A r \in convertMinor(n, UsdcToHkd) :
              r \in Nat /\ 200000 * r <= 156 * n + 100000 /\ 156 * n <= 200000 * r + 100000
         /\ \A r \in toMinor(n, 1, 100) :
              r \in Nat /\ 200 * r <= 2 * n + 100 /\ 2 * n <= 200 * r + 100
         /\ toMinor(n, 1, 100) # {}
<1> USE DEF convertMinor, toMinor, Whole, Rest, Distance
<1>1. \A r \in convertMinor(n, KesToUsd) :
        r \in Nat /\ 518 * r <= 4 * n + 259 /\ 4 * n <= 518 * r + 259
  BY DEF KesToUsd
<1>2. \A r \in convertMinor(n, KesToUsdc) :
        r \in Nat /\ 518 * r <= 40000 * n + 259 /\ 40000 * n <= 518 * r + 259
  BY DEF KesToUsdc
<1>3. \A r \in convertMinor(n, UsdTo.CNY) : r \in Nat
  BY DEF UsdTo
<1>4. \A r \in convertMinor(n, UsdTo.HKD) :
        r \in Nat /\ 20 * r <= 156 * n + 10 /\ 156 * n <= 20 * r + 10
  BY DEF UsdTo
<1>5. \A r \in convertMinor(n, UsdcToHkd) :
        r \in Nat /\ 200000 * r <= 156 * n + 100000 /\ 156 * n <= 200000 * r + 100000
  BY DEF UsdcToHkd
<1>6. \A r \in toMinor(n, 1, 100) :
        r \in Nat /\ 200 * r <= 2 * n + 100 /\ 2 * n <= 200 * r + 100
  OBVIOUS
<1>7. toMinor(n, 1, 100) # {}
  <2>1. PICK d \in Nat, r \in 0 .. 99 : d = (n % 100) \div 100 /\ n % 100 = 100 * d + r
    BY n % 100 \in Nat
  <2>2. \E k \in {d, d + 1} : 2 * Distance(k * 100, Rest(n, 1, 100)) <= 100
    BY <2>1
  <2> QED BY <2>1, <2>2
<1> QED BY <1>1, <1>2, <1>3, <1>4, <1>5, <1>6, <1>7

\* A fee, of which an exact half is rounded up.
FeeFits(n, bps, fee) ==
  /\ fee \in Nat
  /\ 20000 * fee <= 2 * bps * n + 10000 /\ 2 * bps * n < 20000 * fee + 10000

LEMMA HalfUp ==
  ASSUME NEW n, NEW bps, NEW w \in Nat, NEW r \in Nat,
         w = Whole(n, bps, 10000), r = Rest(n, bps, 10000)
  PROVE  /\ bpsOf(n, bps) \in Nat
         /\ 20000 * (bpsOf(n, bps) - w) <= 2 * r + 10000
         /\ 2 * r < 20000 * (bpsOf(n, bps) - w) + 10000
<1>1. PICK d \in Nat : d = r \div 10000 /\ 10000 * d <= r /\ r < 10000 * d + 10000
  OBVIOUS
<1>2. PICK S : S = toMinor(n, bps, 10000)
  OBVIOUS
<1>3. S = {w + k : k \in {k \in {d, d + 1} : 2 * Distance(k * 10000, r) <= 10000}}
  BY <1>1, <1>2 DEF toMinor
<1>4. /\ w + d \in S <=> 2 * Distance(d * 10000, r) <= 10000
      /\ w + d + 1 \in S <=> 2 * Distance((d + 1) * 10000, r) <= 10000
      /\ S \subseteq {w + d, w + d + 1} /\ \A x \in S : x = w + d \/ x = w + d + 1
  BY <1>1, <1>3
<1>5. /\ w + d \in S <=> 2 * r <= 20000 * d + 10000
      /\ w + d + 1 \in S <=> 20000 * d + 10000 <= 2 * r
  BY <1>1, <1>4 DEF Distance
<1>6. S # {}
  BY <1>1, <1>5
<1>7. Max(S) \in S /\ \A x \in S : x <= Max(S)
  <2>1. PICK a \in Nat, b \in Nat : a = w + d /\ b = w + d + 1
    BY <1>1
  <2>2. S \in SUBSET {a, b}
    BY <1>4, <2>1
  <2>3. \A T \in SUBSET {a, b} : T # {} => Max(T) \in T /\ \A x \in T : x <= Max(T)
    BY GreaterOfTwo
  <2> QED BY <1>6, <2>2, <2>3
<1>8. CASE Max(S) = w + d
  BY <1>1, <1>2, <1>5, <1>7, <1>8 DEF bpsOf
<1>9. CASE Max(S) = w + d + 1
  BY <1>1, <1>2, <1>5, <1>7, <1>9 DEF bpsOf
<1> QED
  <2>1. Max(S) = w + d \/ Max(S) = w + d + 1
    <3>1. PICK m \in S : m = Max(S)
      BY <1>7
    <3>2. m = w + d \/ m = w + d + 1
      BY <1>4
    <3> QED BY <3>1, <3>2
  <2> QED BY <1>8, <1>9, <2>1

LEMMA Fees ==
  ASSUME NEW n \in Nat
  PROVE  /\ FeeFits(n, 120, bpsOf(n, 120)) /\ FeeFits(n, 85, bpsOf(n, 85))
         /\ FeeFits(n, 70, bpsOf(n, 70)) /\ FeeFits(n, 55, bpsOf(n, 55))
         /\ FeeFits(n, 30, bpsOf(n, 30))
<1>1. PICK h \in Nat, l \in Nat : h = n \div 10000 /\ l = n % 10000 /\ n = 10000 * h + l
  OBVIOUS
<1>2. \A bps : Whole(n, bps, 10000) = h * bps /\ Rest(n, bps, 10000) = l * bps
  BY <1>1 DEF Whole, Rest
<1>3. FeeFits(n, 120, bpsOf(n, 120))
  <2>1. PICK w \in Nat, r \in Nat : w = h * 120 /\ r = l * 120
    OBVIOUS
  <2>2. /\ bpsOf(n, 120) \in Nat /\ 20000 * (bpsOf(n, 120) - w) <= 2 * r + 10000
        /\ 2 * r < 20000 * (bpsOf(n, 120) - w) + 10000
    BY <1>2, <2>1, HalfUp
  <2> QED BY <1>1, <2>1, <2>2 DEF FeeFits
<1>4. FeeFits(n, 85, bpsOf(n, 85))
  <2>1. PICK w \in Nat, r \in Nat : w = h * 85 /\ r = l * 85
    OBVIOUS
  <2>2. /\ bpsOf(n, 85) \in Nat /\ 20000 * (bpsOf(n, 85) - w) <= 2 * r + 10000
        /\ 2 * r < 20000 * (bpsOf(n, 85) - w) + 10000
    BY <1>2, <2>1, HalfUp
  <2> QED BY <1>1, <2>1, <2>2 DEF FeeFits
<1>5. FeeFits(n, 70, bpsOf(n, 70))
  <2>1. PICK w \in Nat, r \in Nat : w = h * 70 /\ r = l * 70
    OBVIOUS
  <2>2. /\ bpsOf(n, 70) \in Nat /\ 20000 * (bpsOf(n, 70) - w) <= 2 * r + 10000
        /\ 2 * r < 20000 * (bpsOf(n, 70) - w) + 10000
    BY <1>2, <2>1, HalfUp
  <2> QED BY <1>1, <2>1, <2>2 DEF FeeFits
<1>6. FeeFits(n, 55, bpsOf(n, 55))
  <2>1. PICK w \in Nat, r \in Nat : w = h * 55 /\ r = l * 55
    OBVIOUS
  <2>2. /\ bpsOf(n, 55) \in Nat /\ 20000 * (bpsOf(n, 55) - w) <= 2 * r + 10000
        /\ 2 * r < 20000 * (bpsOf(n, 55) - w) + 10000
    BY <1>2, <2>1, HalfUp
  <2> QED BY <1>1, <2>1, <2>2 DEF FeeFits
<1>7. FeeFits(n, 30, bpsOf(n, 30))
  <2>1. PICK w \in Nat, r \in Nat : w = h * 30 /\ r = l * 30
    OBVIOUS
  <2>2. /\ bpsOf(n, 30) \in Nat /\ 20000 * (bpsOf(n, 30) - w) <= 2 * r + 10000
        /\ 2 * r < 20000 * (bpsOf(n, 30) - w) + 10000
    BY <1>2, <2>1, HalfUp
  <2> QED BY <1>1, <2>1, <2>2 DEF FeeFits
<1> QED BY <1>3, <1>4, <1>5, <1>6, <1>7

\* The whole shillings nearest to n, at least one.
LEMMA Shillings ==
  ASSUME NEW n \in Nat
  PROVE  LET S == {1} \union toMinor(n, 1, 100)
         IN /\ \E x \in S : \A y \in S : x >= y
            /\ n >= 50 => Distance(100 * Max(S), n) <= 50
<1>1. PICK T : T = toMinor(n, 1, 100)
  OBVIOUS
<1>2. PICK S : S = {1} \union T
  OBVIOUS
<1>3. PICK d \in Nat, l \in 0 .. 99 : n = 100 * d + l /\ d = n \div 100
  <2>1. n \div 100 \in Nat /\ n - 100 * (n \div 100) \in 0 .. 99
    OBVIOUS
  <2>2. n = 100 * (n \div 100) + (n - 100 * (n \div 100))
    BY <2>1
  <2> QED BY <2>1, <2>2
<1>4. /\ d \in T <=> l <= 50
      /\ d + 1 \in T <=> 50 <= l
      /\ T \subseteq {d, d + 1}
  <2>1. n \div 100 = d /\ n % 100 = l /\ l \div 100 = 0
    BY <1>3
  <2>2. T = {d + k : k \in {k \in {0, 1} : 2 * Distance(k * 100, l) <= 100}}
    BY <1>1, <2>1 DEF toMinor, Whole, Rest
  <2>3. /\ 2 * Distance(0 * 100, l) <= 100 <=> l <= 50
        /\ 2 * Distance(1 * 100, l) <= 100 <=> 50 <= l
    BY DEF Distance
  <2> QED BY <2>2, <2>3
<1>5. PICK a \in Nat, b \in Nat : a = d /\ b = d + 1
  OBVIOUS
<1>6. \A y \in S : y = 1 \/ y = a \/ y = b
  BY <1>2, <1>4, <1>5
<1>7. PICK x \in S : /\ \A y \in S : x >= y
                     /\ IF 50 <= l THEN x = b ELSE x = a \/ (a = 0 /\ x = 1)
  <2>1. CASE 50 <= l
    <3>1. b \in S /\ b >= 1 /\ b >= a /\ b >= b
      BY <1>2, <1>4, <1>5, <2>1
    <3> QED BY <1>6, <2>1, <3>1
  <2>2. CASE ~(50 <= l)
    <3>1. l <= 50 /\ a \in S /\ 1 \in S
      BY <1>2, <1>4, <1>5, <2>2
    <3>2. b \notin T
      BY <1>4, <1>5, <2>2
    <3>3. \A y \in S : y = 1 \/ y = a
      BY <1>2, <1>6, <3>2
    <3>4. a >= 1 \/ a = 0
      OBVIOUS
    <3> QED BY <2>2, <3>1, <3>3, <3>4
  <2> QED BY <2>1, <2>2
<1>8. Max(S) = x
  <2>1. PICK m : m = Max(S)
    OBVIOUS
  <2>2. m \in S /\ \A y \in S : m >= y
    BY <1>7, <2>1 DEF Max
  <2>3. m >= x /\ x >= m /\ m \in Nat /\ x \in Nat
    BY <1>6, <1>7, <2>2
  <2> QED BY <2>1, <2>3
<1>9. n >= 50 => Distance(100 * x, n) <= 50
  <2>1. n >= 50 /\ ~(50 <= l) => a # 0
    BY <1>3, <1>5
  <2>2. n >= 50 => x = IF 50 <= l THEN b ELSE a
    BY <1>7, <2>1
  <2> QED BY <1>3, <1>5, <2>2 DEF Distance
<1> QED BY <1>1, <1>2, <1>7, <1>8, <1>9

\* Every step of a payment's sums is a conversion of those before.
LEMMA SumsStep == SumsInv /\ AmountsNext => SumsInv'
<1> SUFFICES ASSUME SumsInv, AmountsNext PROVE SumsInv'
  OBVIOUS
<1>1. PICK s \in Sums : s = sums
  BY DEF SumsInv
<1>t. \A x \in Sums : x.sendMinorKes \in Nat /\ x.usdMinor \in Nat /\ x.usdcMinor \in Nat
                      /\ x.allInMinorKes \in Nat
  BY DEF Sums
<1>2. ASSUME NEW x \in Sums, sums' = x,
             x.at # "typed" =>
               /\ x.usdMinor \in convertMinor(x.sendMinorKes, KesToUsd)
               /\ x.receiveMinorCny \in convertMinor(x.usdMinor, UsdTo.CNY)
               /\ x.feeMinorKes = bpsOf(x.sendMinorKes, MarginBps)
               /\ x.allInMinorKes = x.sendMinorKes + x.feeMinorKes,
             x.at = "asked" => x.shillings = Max({1} \union toMinor(x.allInMinorKes, 1, 100)),
             x.at \in {"onRamped", "paidOut"} =>
               x.usdcMinor \in convertMinor(x.sendMinorKes, KesToUsdc),
             x.at = "onRamped" => UsdcFits(x.sendMinorKes),
             x.at = "refused" => ~UsdcFits(x.sendMinorKes),
             x.at = "paidOut" => x.hkdMinor \in convertMinor(x.usdcMinor, UsdcToHkd)
      PROVE  SumsInv'
  <2>1. /\ sums' \in Sums
        /\ sums'.at # "typed" =>
             /\ sums'.usdMinor \in convertMinor(sums'.sendMinorKes, KesToUsd)
             /\ sums'.receiveMinorCny \in convertMinor(sums'.usdMinor, UsdTo.CNY)
             /\ sums'.feeMinorKes = bpsOf(sums'.sendMinorKes, MarginBps)
             /\ sums'.allInMinorKes = sums'.sendMinorKes + sums'.feeMinorKes
    BY <1>2
  <2>2. /\ sums'.at = "asked" =>
             sums'.shillings = Max({1} \union toMinor(sums'.allInMinorKes, 1, 100))
        /\ sums'.at \in {"onRamped", "paidOut"} =>
             sums'.usdcMinor \in convertMinor(sums'.sendMinorKes, KesToUsdc)
    BY <1>2
  <2>3. /\ sums'.at = "onRamped" => UsdcFits(sums'.sendMinorKes)
        /\ sums'.at = "refused" => ~UsdcFits(sums'.sendMinorKes)
        /\ sums'.at = "paidOut" => sums'.hkdMinor \in convertMinor(sums'.usdcMinor, UsdcToHkd)
    BY <1>2
  <2> QED BY <2>1, <2>2, <2>3 DEF SumsInv
<1>3. CASE createQuote
  <2>0. PICK n \in Nat, fee \in Nat : n = s.sendMinorKes /\ fee = bpsOf(n, MarginBps)
    <3>1. PICK n \in Nat : n = s.sendMinorKes
      BY <1>t
    <3>2. bpsOf(n, 120) \in Nat
      BY Fees DEF FeeFits
    <3> QED BY <3>1, <3>2 DEF MarginBps
  <2>1. PICK y : y \in buildQuote(n) /\ sums' = y
    BY <1>1, <1>3, <2>0 DEF createQuote
  <2>p. PICK usd \in convertMinor(n, KesToUsd) : \E cny \in convertMinor(usd, UsdTo.CNY) :
          y = [Typed(s.sendMinorKes) EXCEPT !.at = "quoted", !.usdMinor = usd,
                       !.receiveMinorCny = cny, !.feeMinorKes = fee,
                       !.allInMinorKes = s.sendMinorKes + fee]
    <3>1. \E usd \in convertMinor(n, KesToUsd) : \E cny \in convertMinor(usd, UsdTo.CNY) :
            y = [Typed(n) EXCEPT !.at = "quoted", !.usdMinor = usd, !.receiveMinorCny = cny,
                                 !.feeMinorKes = bpsOf(n, MarginBps),
                                 !.allInMinorKes = n + bpsOf(n, MarginBps)]
      BY <2>1 DEF buildQuote
    <3> QED BY <2>0, <3>1
  <2>2. PICK cny \in convertMinor(usd, UsdTo.CNY) :
          y = [Typed(s.sendMinorKes) EXCEPT !.at = "quoted", !.usdMinor = usd,
                       !.receiveMinorCny = cny, !.feeMinorKes = fee,
                       !.allInMinorKes = s.sendMinorKes + fee]
    BY <2>p
  <2>3. usd \in Nat /\ s.sendMinorKes \in Nat
    BY <2>0, Conversions
  <2>4. cny \in Nat /\ s.sendMinorKes + fee \in Nat
    <3>1. cny \in Nat
      BY <2>3, Conversions
    <3> QED BY <2>3, <3>1
  <2>5. PICK x : x = [Typed(s.sendMinorKes) EXCEPT !.at = "quoted", !.usdMinor = usd,
                       !.receiveMinorCny = cny, !.feeMinorKes = fee,
                       !.allInMinorKes = s.sendMinorKes + fee]
    OBVIOUS
  <2>6. /\ x \in Sums /\ x.at = "quoted" /\ x.sendMinorKes = s.sendMinorKes /\ x.usdMinor = usd
        /\ x.receiveMinorCny = cny /\ x.feeMinorKes = fee /\ x.allInMinorKes = s.sendMinorKes + fee
    BY <2>3, <2>4, <2>5 DEF Typed, Sums
  <2> QED BY <1>2, <2>0, <2>1, <2>2, <2>5, <2>6
<1>4. CASE StkPush
  <2>1. PICK m \in Nat : m = Max({1} \union toMinor(s.allInMinorKes, 1, 100))
    <3>1. PICK S : S = {1} \union toMinor(s.allInMinorKes, 1, 100)
      OBVIOUS
    <3>2. S \subseteq Nat /\ S # {}
      BY <1>t, <3>1, Conversions
    <3>3. \E x \in S : \A y \in S : x >= y
      BY <3>1, <1>t, Shillings
    <3>4. Max(S) \in S
      BY <3>3 DEF Max
    <3> QED BY <3>1, <3>2, <3>4
  <2>2. PICK x : x = [s EXCEPT !.at = "asked", !.shillings = m]
    OBVIOUS
  <2>3. /\ x \in Sums /\ x.at = "asked" /\ x.sendMinorKes = s.sendMinorKes
        /\ x.usdMinor = s.usdMinor /\ x.receiveMinorCny = s.receiveMinorCny
        /\ x.feeMinorKes = s.feeMinorKes /\ x.allInMinorKes = s.allInMinorKes /\ x.shillings = m
    BY <2>2 DEF Sums
  <2>4. sums' = x
    BY <1>1, <1>4, <2>1, <2>2 DEF StkPush
  <2>5. s.at = "quoted"
    BY <1>1, <1>4 DEF StkPush
  <2> QED BY <1>1, <1>2, <2>1, <2>3, <2>4, <2>5 DEF SumsInv
<1>5. CASE convertKesToUsdc
  <2>1. PICK usdc \in convertMinor(s.sendMinorKes, KesToUsdc) :
          sums' = [s EXCEPT !.at = "onRamped", !.usdcMinor = usdc]
    BY <1>1, <1>5 DEF convertKesToUsdc
  <2>2. usdc \in Nat
    BY <1>t, Conversions
  <2>3. PICK x : x = [s EXCEPT !.at = "onRamped", !.usdcMinor = usdc]
    OBVIOUS
  <2>4. /\ x \in Sums /\ x.at = "onRamped" /\ x.sendMinorKes = s.sendMinorKes
        /\ x.usdMinor = s.usdMinor /\ x.receiveMinorCny = s.receiveMinorCny
        /\ x.feeMinorKes = s.feeMinorKes /\ x.allInMinorKes = s.allInMinorKes /\ x.usdcMinor = usdc
    BY <2>2, <2>3 DEF Sums
  <2>5. s.at = "asked" /\ UsdcFits(s.sendMinorKes)
    BY <1>1, <1>5 DEF convertKesToUsdc
  <2> QED BY <1>1, <1>2, <2>1, <2>3, <2>4, <2>5 DEF SumsInv
<1>6. CASE RefusedByColumn
  <2>1. PICK x : x = [s EXCEPT !.at = "refused"]
    OBVIOUS
  <2>2. /\ x \in Sums /\ x.at = "refused" /\ x.sendMinorKes = s.sendMinorKes
        /\ x.usdMinor = s.usdMinor /\ x.receiveMinorCny = s.receiveMinorCny
        /\ x.feeMinorKes = s.feeMinorKes /\ x.allInMinorKes = s.allInMinorKes
    BY <2>1 DEF Sums
  <2>3. s.at = "asked" /\ ~UsdcFits(s.sendMinorKes) /\ sums' = x
    BY <1>1, <1>6, <2>1 DEF RefusedByColumn
  <2> QED BY <1>1, <1>2, <2>2, <2>3 DEF SumsInv
<1>7. CASE hkFxQuote
  <2>1. PICK hkd \in convertMinor(s.usdcMinor, UsdcToHkd) :
          sums' = [s EXCEPT !.at = "paidOut", !.hkdMinor = hkd]
    BY <1>1, <1>7 DEF hkFxQuote
  <2>2. hkd \in Nat
    BY <1>t, Conversions
  <2>3. PICK x : x = [s EXCEPT !.at = "paidOut", !.hkdMinor = hkd]
    OBVIOUS
  <2>4. /\ x \in Sums /\ x.at = "paidOut" /\ x.sendMinorKes = s.sendMinorKes
        /\ x.usdMinor = s.usdMinor /\ x.receiveMinorCny = s.receiveMinorCny
        /\ x.feeMinorKes = s.feeMinorKes /\ x.allInMinorKes = s.allInMinorKes
        /\ x.usdcMinor = s.usdcMinor /\ x.hkdMinor = hkd
    BY <2>2, <2>3 DEF Sums
  <2>5. s.at = "onRamped"
    BY <1>1, <1>7 DEF hkFxQuote
  <2> QED BY <1>1, <1>2, <2>1, <2>3, <2>4, <2>5 DEF SumsInv
<1>8. CASE NextPayment
  <2>1. PICK x : x = Typed(s.sendMinorKes)
    OBVIOUS
  <2>2. x \in Sums /\ x.at = "typed"
    BY <1>t, <2>1 DEF Typed, Sums
  <2> QED BY <1>1, <1>2, <1>8, <2>1, <2>2 DEF NextPayment
<1> QED BY <1>3, <1>4, <1>5, <1>6, <1>7, <1>8 DEF AmountsNext

\* The summary for each of the five currencies, by its fee.
LEMMA SummaryOf ==
  ASSUME sums \in Sums
  PROVE  \A n \in 1 .. 5 : \E bps \in {120, 85, 70, 55, 30} :
           /\ bps = IF n = 1 THEN 120 ELSE IF n = 2 THEN 85 ELSE IF n = 3 THEN 70
                    ELSE IF n = 4 THEN 55 ELSE 30
           /\ Summary(n).feeMinorKes = bpsOf(sums.sendMinorKes, bps)
           /\ Summary(n).allInMinorKes = sums.sendMinorKes + bpsOf(sums.sendMinorKes, bps)
           /\ Summary(n).savingsMinorKes =
                Max({0, bpsOf(sums.sendMinorKes, 120) - bpsOf(sums.sendMinorKes, bps)})
<1>1. ASSUME NEW n \in 1 .. 5, NEW bps,
             bps = IF n = 1 THEN 120 ELSE IF n = 2 THEN 85 ELSE IF n = 3 THEN 70
                   ELSE IF n = 4 THEN 55 ELSE 30
      PROVE  /\ Summary(n).feeMinorKes = bpsOf(sums.sendMinorKes, bps)
             /\ Summary(n).allInMinorKes = sums.sendMinorKes + bpsOf(sums.sendMinorKes, bps)
             /\ Summary(n).savingsMinorKes =
                  Max({0, bpsOf(sums.sendMinorKes, 120) - bpsOf(sums.sendMinorKes, bps)})
  <2>1. n \in {1, 2, 3, 4, 5}
    OBVIOUS
  <2>2. Margin[SettlementOptions[n]] = bps
    BY <1>1, <2>1 DEF Margin, SettlementOptions
  <2> QED BY <2>2 DEF Summary, settlementQuote, BaselineBps
<1> QED BY <1>1

\* The summary against the quote: the fees of smaller margins are no greater.
LEMMA SummaryIsTheQuote == SumsInv /\ sums.at # "typed" => SummaryAddsUp
<1> SUFFICES ASSUME SumsInv, sums.at # "typed" PROVE SummaryAddsUp
  OBVIOUS
<1>1. PICK n \in Nat, f1 \in Nat, f2 \in Nat, f3 \in Nat, f4 \in Nat, f5 \in Nat :
        /\ n = sums.sendMinorKes
        /\ f1 = bpsOf(n, 120) /\ f2 = bpsOf(n, 85) /\ f3 = bpsOf(n, 70) /\ f4 = bpsOf(n, 55)
        /\ f5 = bpsOf(n, 30)
        /\ FeeFits(n, 120, f1) /\ FeeFits(n, 85, f2) /\ FeeFits(n, 70, f3) /\ FeeFits(n, 55, f4)
        /\ FeeFits(n, 30, f5)
  <2>1. PICK n \in Nat : n = sums.sendMinorKes
    BY DEF SumsInv, Sums
  <2>2. /\ FeeFits(n, 120, bpsOf(n, 120)) /\ FeeFits(n, 85, bpsOf(n, 85))
        /\ FeeFits(n, 70, bpsOf(n, 70)) /\ FeeFits(n, 55, bpsOf(n, 55))
        /\ FeeFits(n, 30, bpsOf(n, 30))
    BY Fees
  <2>3. /\ bpsOf(n, 120) \in Nat /\ bpsOf(n, 85) \in Nat /\ bpsOf(n, 70) \in Nat
        /\ bpsOf(n, 55) \in Nat /\ bpsOf(n, 30) \in Nat
    BY <2>2 DEF FeeFits
  <2> QED BY <2>1, <2>2, <2>3
<1>2. f5 <= f4 /\ f4 <= f3 /\ f3 <= f2 /\ f2 <= f1
  BY <1>1 DEF FeeFits
<1>3. /\ sums.receiveMinorCny \in convertMinor(sums.usdMinor, UsdTo.CNY)
      /\ sums.allInMinorKes = n + f1 /\ sums \in Sums
  BY <1>1 DEF SumsInv, MarginBps
<1>4. /\ Summary(1).feeMinorKes = f1 /\ Summary(2).feeMinorKes = f2
      /\ Summary(3).feeMinorKes = f3 /\ Summary(4).feeMinorKes = f4 /\ Summary(5).feeMinorKes = f5
      /\ Summary(1).allInMinorKes = n + f1 /\ Summary(2).allInMinorKes = n + f2
      /\ Summary(3).allInMinorKes = n + f3 /\ Summary(4).allInMinorKes = n + f4
      /\ Summary(5).allInMinorKes = n + f5
      /\ Summary(1).savingsMinorKes = Max({0, f1 - f1})
      /\ Summary(2).savingsMinorKes = Max({0, f1 - f2})
      /\ Summary(3).savingsMinorKes = Max({0, f1 - f3})
      /\ Summary(4).savingsMinorKes = Max({0, f1 - f4})
      /\ Summary(5).savingsMinorKes = Max({0, f1 - f5})
  <2>1. 1 \in 1 .. 5 /\ 2 \in 1 .. 5 /\ 3 \in 1 .. 5 /\ 4 \in 1 .. 5 /\ 5 \in 1 .. 5
    OBVIOUS
  <2> QED BY <1>1, <1>3, <2>1, SummaryOf
<1>5. ASSUME NEW g \in Nat, g <= f1 PROVE (n + g) + Max({0, f1 - g}) = n + f1
  <2>1. PICK d \in Nat : d = f1 - g
    BY <1>5
  <2>2. PICK m : m = Max({0, d})
    OBVIOUS
  <2>3. {0, d} \in SUBSET {0, d} /\ {0, d} # {} /\ 0 \in Nat
    OBVIOUS
  <2>4. m \in {0, d} /\ \A x \in {0, d} : x <= m
    BY <2>2, <2>3, GreaterOfTwo
  <2>5. m = d
    BY <2>4
  <2> QED BY <2>1, <2>2, <2>5
<1>6. \A k \in 1 .. 5 : k \in {1, 2, 3, 4, 5}
  OBVIOUS
<1>7. ASSUME NEW k \in 1 .. 5
      PROVE  Summary(k).allInMinorKes + Summary(k).savingsMinorKes = sums.allInMinorKes
  <2>1. f1 <= f1 /\ f2 <= f1 /\ f3 <= f1 /\ f4 <= f1 /\ f5 <= f1
    BY <1>2
  <2> QED BY <1>3, <1>4, <1>5, <1>6, <2>1
<1>8. ASSUME NEW k \in 2 .. 5 PROVE Summary(k).feeMinorKes <= Summary(k - 1).feeMinorKes
  <2>1. k \in {2, 3, 4, 5} /\ 2 - 1 = 1 /\ 3 - 1 = 2 /\ 4 - 1 = 3 /\ 5 - 1 = 4
    OBVIOUS
  <2> QED BY <1>2, <1>4, <2>1
<1>9. sums.receiveMinorCny \in Summary(1).receives
  <2>1. SettlementOptions[1] = "CNY"
    BY DEF SettlementOptions
  <2> QED BY <1>3, <2>1 DEF Summary, settlementQuote, receiveMinorFor
<1>10. Summary(1).allInMinorKes = sums.allInMinorKes
  BY <1>3, <1>4
<1> QED BY <1>7, <1>8, <1>9, <1>10 DEF SummaryAddsUp

\* The limit is where the column ends.
LEMMA LimitOfColumn ==
  ASSUME NEW n \in Nat
  PROVE  UsdcFits(n) <=> n <= OnRampLimit
<1>1. PICK d \in Nat, l \in 0 .. 258 : d = n \div 259 /\ l = n % 259 /\ n = 259 * d + l
  OBVIOUS
<1>2. IntMax \div 20000 = 107374
  BY DEF IntMax
<1>3. PICK r \in Nat : r = (2 * (l * 20000) + 259) \div 518
  BY <1>1
<1>4. UsdcFits(n) <=> d <= 107374 /\ r <= 2147483647 - d * 20000
  BY <1>1, <1>2, <1>3 DEF UsdcFits, KesToUsdc, Whole, Rest, IntMax
<1>5. 518 * r <= 40000 * l + 259 /\ 40000 * l + 259 < 518 * r + 518
  BY <1>3
<1> QED BY <1>1, <1>4, <1>5 DEF OnRampLimit

\* The sums are near each other because each is near the sum it was converted from.
LEMMA SumsFollow == SumsInv => SumsAgree
<1> SUFFICES ASSUME SumsInv PROVE SumsAgree
  OBVIOUS
<1>1. PICK n \in Nat, usd \in Nat, usdc \in Nat, hkd \in Nat, all \in Nat :
        /\ n = sums.sendMinorKes /\ usd = sums.usdMinor /\ usdc = sums.usdcMinor
        /\ hkd = sums.hkdMinor /\ all = sums.allInMinorKes
  BY DEF SumsInv, Sums
<1>2. sums.at # "typed" => SummaryAddsUp
  BY SummaryIsTheQuote
<1>3. sums.at = "asked" /\ sums.allInMinorKes >= 50 =>
        Distance(100 * sums.shillings, sums.allInMinorKes) <= 50
  BY <1>1, Shillings DEF SumsInv
<1>4. sums.at # "typed" => 518 * usd <= 4 * n + 259 /\ 4 * n <= 518 * usd + 259
  <2>1. \A x \in convertMinor(n, KesToUsd) : 518 * x <= 4 * n + 259 /\ 4 * n <= 518 * x + 259
    BY Conversions
  <2>2. sums.at # "typed" => usd \in convertMinor(n, KesToUsd)
    BY <1>1 DEF SumsInv
  <2> QED BY <2>1, <2>2
<1>5. sums.at \in {"onRamped", "paidOut"} =>
        518 * usdc <= 40000 * n + 259 /\ 40000 * n <= 518 * usdc + 259
  <2>1. \A x \in convertMinor(n, KesToUsdc) :
          518 * x <= 40000 * n + 259 /\ 40000 * n <= 518 * x + 259
    BY Conversions
  <2>2. sums.at \in {"onRamped", "paidOut"} => usdc \in convertMinor(n, KesToUsdc)
    BY <1>1 DEF SumsInv
  <2> QED BY <2>1, <2>2
<1>6. sums.at \in {"onRamped", "paidOut"} =>
        usdc - 10000 * usd <= 5000 /\ 10000 * usd - usdc <= 5000
  BY <1>4, <1>5
<1>7. sums.at \in {"onRamped", "paidOut"} => Distance(usdc, 10000 * usd) <= 5000
  BY <1>6 DEF Distance
<1>8. ASSUME sums.at = "paidOut", NEW shown \in receiveMinorFor(sums.usdMinor, "HKD")
      PROVE  Distance(sums.hkdMinor, shown) <= 4
  <2>1. hkd \in convertMinor(usdc, UsdcToHkd) /\ shown \in convertMinor(usd, UsdTo.HKD)
    BY <1>1, <1>8 DEF SumsInv, receiveMinorFor
  <2>a. \A x \in convertMinor(usdc, UsdcToHkd) :
          200000 * x <= 156 * usdc + 100000 /\ 156 * usdc <= 200000 * x + 100000
    BY Conversions
  <2>b. \A x \in convertMinor(usd, UsdTo.HKD) :
          x \in Nat /\ 20 * x <= 156 * usd + 10 /\ 156 * usd <= 20 * x + 10
    BY Conversions
  <2>2. 200000 * hkd <= 156 * usdc + 100000 /\ 156 * usdc <= 200000 * hkd + 100000
    BY <2>1, <2>a
  <2>3. shown \in Nat /\ 20 * shown <= 156 * usd + 10 /\ 156 * usd <= 20 * shown + 10
    BY <2>1, <2>b
  <2>4. hkd - shown <= 4 /\ shown - hkd <= 4
    BY <1>6, <1>8, <2>2, <2>3
  <2> QED BY <1>1, <2>3, <2>4 DEF Distance
<1>9. /\ sums.at = "refused" => sums.sendMinorKes > OnRampLimit
      /\ sums.at = "onRamped" => sums.sendMinorKes <= OnRampLimit
  <2>1. OnRampLimit \in Nat
    BY DEF OnRampLimit
  <2> QED BY <1>1, <2>1, LimitOfColumn DEF SumsInv
<1>10. sums \in Sums
  BY DEF SumsInv
<1> QED BY <1>1, <1>2, <1>3, <1>7, <1>8, <1>9, <1>10 DEF SumsAgree

\* SumsAgree: whatever the sum sent, the sums that the quote, the summary, the STK
\* push, the on-ramp and the payout compute from it agree to the stated cents, and
\* the on-ramp is refused exactly above the limit of its column.
THEOREM SumsOfAPaymentAgree == SuitesSpec => []SumsAgree
<1>1. SuitesInit => SumsInv
  <2>1. ASSUME NEW send \in SendAmounts, sums = Typed(send) PROVE SumsInv
    BY <2>1, SendAmountsArePositive DEF SumsInv, Typed, Sums
  <2>2. (CHOOSE send \in SendAmounts : TRUE) \in SendAmounts
    BY SendAmountsArePositive
  <2> QED BY <2>1, <2>2 DEF SuitesInit, AmountsInit
<1>2. SumsInv /\ [SuitesNext]_suitesVars => SumsInv'
  <2>1. SumsInv /\ sums' = sums => SumsInv'
    BY DEF SumsInv
  <2> QED BY <2>1, SumsStep DEF SuitesNext, suitesVars
<1>3. SumsInv => SumsAgree
  BY SumsFollow
<1> QED BY <1>1, <1>2, <1>3, PTL DEF SuitesSpec

=============================================================================
