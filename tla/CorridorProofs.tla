--------------------------- MODULE CorridorProofs ---------------------------
(***************************************************************************)
(* PaymentEngine implements Corridor, for every set of payments and every  *)
(* quote, marker and bound, when one call runs at a time and no amount is  *)
(* zero.  The ledger of a payment follows its status (LedgerFollowsStatus, *)
(* proved in PaymentEngineProofs), so the place of its value is that of    *)
(* its status, and each edge of the status graph is a step of Corridor or  *)
(* none.  And what ReconciliationService.run reports, from queries between *)
(* which the engine goes on, balances whatever calls race, and is clean    *)
(* when one call runs at a time.                                           *)
(***************************************************************************)
EXTENDS EngineCorridor, Reconciliation, PaymentHistoryProofs

OneCall == \A c, d \in Calls : c = d

\* The amounts a payment collects, converts and delivers are not zero.
AmountsCount ==
  /\ 0 \notin UsdcAmounts
  /\ \A p \in Payments : /\ Quote[p].allInMinorKes # 0
                         /\ Quote[p].receiveMinorCny # 0

(***************************************************************************)
(* A call that is alone never overwrites what it has not read.             *)
(***************************************************************************)
SerialInv ==
  /\ \A p \in Payments : ~stale[p]
  /\ \A c \in Calls : InFlight(c) => call[c].snap = pay[call[c].on]

LEMMA CommitReturns ==
  ASSUME TypeInv, NEW c \in Calls, Commit(c)
  PROVE  ~InFlight(c)'
<1>1. call \in [Calls -> CallState]
  BY DEF TypeInv, TypeOK
<1>2. \E op, result : Answer(c, call[c].on, op, result)
  BY DEF Commit, DoInitiateFunding, CommitFunding, DoOnRamp, DoBridgeSend, DoBridgeConfirm,
     DoCreatePayout, DoConfirmPayout, FailUnfunded, CompensateFunded, Transition
<1>3. call'[c].pc = "returned"
  BY <1>1, <1>2 DEF Answer
<1> QED BY <1>3 DEF InFlight

LEMMA NextSerialInv ==
  ASSUME OneCall
  PROVE  TypeInv /\ SerialInv /\ [Next]_vars => SerialInv'
<1> SUFFICES ASSUME TypeInv, SerialInv, [Next]_vars PROVE SerialInv'
  OBVIOUS
<1>t. stale \in [Payments -> BOOLEAN] /\ \A c \in Calls : call[c].on \in Payments
  BY DEF TypeInv, TypeOK, CallState
<1>1. ASSUME NEW p \in Payments PROVE ~stale'[p]
  <2>1. CASE UNCHANGED stale
    BY <2>1 DEF SerialInv
  <2>2. ASSUME NEW c \in Calls, Writes(c) PROVE ~stale'[p]
    <3>1. pay[call[c].on].status = call[c].snap.status
      BY <2>2 DEF Writes, SerialInv
    <3> QED BY <1>t, <2>2, <3>1 DEF Writes, SerialInv
  <2> QED BY <2>1, <2>2, RowsStep, CommitWrites DEF rows
<1>2. ASSUME NEW d \in Calls, InFlight(d)' PROVE call'[d].snap = pay'[call'[d].on]
  <2>1. UNCHANGED pay
    <3>1. ~\E c \in Calls : Commit(c)
      BY <1>2, CommitReturns DEF OneCall
    <3> QED BY <3>1, RowsStep DEF rows
  <2>2. CASE InFlight(d) /\ call'[d].on = call[d].on /\ call'[d].snap = call[d].snap
    BY <2>1, <2>2 DEF SerialInv
  <2>3. CASE call'[d].snap = pay[call'[d].on]
    BY <2>1, <2>3
  <2> QED BY <1>2, <2>2, <2>3, CallsStep
<1> QED BY <1>1, <1>2 DEF SerialInv

(***************************************************************************)
(* Once converted, a payment is worth what the on-ramp answered.           *)
(***************************************************************************)
Converted == {"OnRamped", "Bridging", "Bridged", "PayingOut", "Settled"}

WorthInv == \A p \in Payments : pay[p].status \in Converted => pay[p].usdcMinor \in UsdcAmounts

LEMMA CommitWorth ==
  ASSUME TypeInv, AnsweredOK, WorthInv, NEW c \in Calls, Commit(c), NEW p \in Payments,
         call[c].on = p, call[c].snap = pay[p], pay'[p].status \in Converted
  PROVE  pay'[p].usdcMinor \in UsdcAmounts
<1>1. PICK row \in PayRow : row = pay[p]
  BY DEF TypeInv, TypeOK
<1>2. pay \in [Payments -> PayRow] /\ row.status \in PAYMENT_STATUSES
  BY DEF TypeInv, TypeOK, PayRow
<1>3. CASE DoOnRamp(c)
  <2>1. call[c].got \in UsdcAmounts
    BY <1>3 DEF DoOnRamp, Committing, AnsweredOK, AnswersAt
  <2>2. pay'[p] = [[row EXCEPT !.usdcMinor = call[c].got] EXCEPT !.status = "OnRamped"]
    BY <1>1, <1>2, <1>3 DEF DoOnRamp, Transition
  <2> QED BY <2>1, <2>2 DEF PayRow
<1>4. CASE ~DoOnRamp(c)
  <2>1. pay'[p].usdcMinor = row.usdcMinor
    <3>1. \/ \E to : pay'[p] = [row EXCEPT !.status = to]
          \/ \E to, id : pay'[p] = [[row EXCEPT !.mpesaCheckoutId = id] EXCEPT !.status = to]
          \/ \E to, id : pay'[p] = [[row EXCEPT !.walletTxHash = id] EXCEPT !.status = to]
          \/ \E to, id : pay'[p] = [[row EXCEPT !.payoutId = id] EXCEPT !.status = to]
      <4>1. CASE CommitFunding(c) \/ DoBridgeConfirm(c) \/ DoConfirmPayout(c)
                   \/ FailUnfunded(c) \/ CompensateFunded(c)
        BY <1>1, <1>2, <4>1 DEF CommitFunding, DoBridgeConfirm, DoConfirmPayout,
           FailUnfunded, CompensateFunded, Transition
      <4>2. CASE DoInitiateFunding(c)
        BY <1>1, <1>2, <4>2 DEF DoInitiateFunding, Transition
      <4>3. CASE DoBridgeSend(c)
        BY <1>1, <1>2, <4>3 DEF DoBridgeSend, Transition
      <4>4. CASE DoCreatePayout(c)
        BY <1>1, <1>2, <4>4 DEF DoCreatePayout, Transition
      <4> QED BY <1>4, <4>1, <4>2, <4>3, <4>4 DEF Commit
    <3> QED BY <3>1 DEF PayRow
  <2>2. row.status \in Converted
    <3>1. \/ row.status \in {"OnRamped", "Bridging", "Bridged", "PayingOut"}
          \/ \E to \in {"AwaitingFunding", "Funded", "Failed", "Refunded"} :
               \E any \in PayRow : pay'[p] = [any EXCEPT !.status = to]
      <4>1. CASE DoBridgeSend(c) \/ DoBridgeConfirm(c) \/ DoCreatePayout(c) \/ DoConfirmPayout(c)
        BY <1>1, <4>1 DEF DoBridgeSend, DoBridgeConfirm, DoCreatePayout, DoConfirmPayout,
           Committing
      <4>2. CASE CommitFunding(c) \/ FailUnfunded(c) \/ CompensateFunded(c)
        BY <1>1, <1>2, <4>2 DEF CommitFunding, FailUnfunded, CompensateFunded, Transition
      <4>3. CASE DoInitiateFunding(c)
        <5>1. call[c].got \in Ids
          BY <4>3 DEF DoInitiateFunding, Committing, TypeInv, AnswersOK
        <5>2. [row EXCEPT !.mpesaCheckoutId = call[c].got] \in PayRow
          BY <5>1 DEF PayRow
        <5>3. pay'[p] = [[row EXCEPT !.mpesaCheckoutId = call[c].got]
                            EXCEPT !.status = "AwaitingFunding"]
          BY <1>1, <1>2, <4>3 DEF DoInitiateFunding, Transition
        <5> QED BY <5>2, <5>3
      <4> QED BY <1>4, <4>1, <4>2, <4>3 DEF Commit
    <3>2. ASSUME NEW to \in {"AwaitingFunding", "Funded", "Failed", "Refunded"},
                 NEW any \in PayRow, pay'[p] = [any EXCEPT !.status = to]
          PROVE  FALSE
      BY <3>2 DEF PayRow, Converted
    <3> QED BY <3>1, <3>2 DEF Converted
  <2> QED BY <1>1, <2>1, <2>2 DEF WorthInv
<1> QED BY <1>3, <1>4

LEMMA NextWorthInv ==
  TypeInv /\ SerialInv /\ AnsweredOK /\ WorthInv /\ [Next]_vars => WorthInv'
<1> SUFFICES ASSUME TypeInv, SerialInv, AnsweredOK, WorthInv, [Next]_vars,
                    NEW p \in Payments, pay'[p].status \in Converted
             PROVE  pay'[p].usdcMinor \in UsdcAmounts
  BY DEF WorthInv
<1>t. DOMAIN pay = Payments
  BY DEF TypeInv, TypeOK
<1>1. CASE UNCHANGED pay
  BY <1>1 DEF WorthInv
<1>2. ASSUME NEW c \in Calls, Commit(c) PROVE pay'[p].usdcMinor \in UsdcAmounts
  <2>1. InFlight(c) /\ \E row : pay' = [pay EXCEPT ![call[c].on] = row]
    BY <1>2, CommitWrites DEF Writes
  <2>2. CASE call[c].on # p
    <3>1. pay'[p] = pay[p]
      BY <1>t, <2>1, <2>2
    <3> QED BY <3>1 DEF WorthInv
  <2>3. CASE call[c].on = p
    BY <1>2, <2>1, <2>3, CommitWorth DEF SerialInv
  <2> QED BY <2>2, <2>3
<1> QED BY <1>1, <1>2, RowsStep DEF rows

(***************************************************************************)
(* The place of the value is that of the status.                           *)
(***************************************************************************)
PlaceAt == [Quoted |-> "importer", AwaitingFunding |-> "importer", Failed |-> "importer",
            Refunding |-> "importer", Refunded |-> "importer", Funded |-> "collected",
            OnRamped |-> "treasury", Bridging |-> "treasury", Bridged |-> "hk",
            PayingOut |-> "partner", Settled |-> "supplier"]

NeverRefunding == \A p \in Payments : pay[p].status # "Refunding"

PlacesFollow == \A p \in Payments : PlaceOf(p) = PlaceAt[pay[p].status]

\* The account that holds the value, in terms of the legs.
LEMMA PlaceOfHoldings ==
  ASSUME NEW p \in Payments, NEW kes \in Int, NEW sent \in Int, NEW usdc \in Int,
         NEW hk \in Int, NEW out \in Int, NEW cny \in Int,
         Nets(ledger[p]) = Holdings(kes, sent, usdc, hk, out, cny)
  PROVE  PlaceOf(p) = IF cny # 0 THEN "supplier"
                      ELSE IF out # 0 THEN "partner"
                      ELSE IF hk - out # 0 THEN "hk"
                      ELSE IF usdc - hk # 0 THEN "treasury"
                      ELSE IF kes - sent # 0 THEN "collected"
                      ELSE "importer"
<1>1. ASSUME NEW a \in ACCOUNTS
      PROVE  Net(ledger[p], a) = Holdings(kes, sent, usdc, hk, out, cny)[a]
  BY DEF Nets
<1>2. {"supplier_paid_cny", "payout_external_usdc", "hk_usdc", "treasury_usdc",
       "mpesa_collected"} \subseteq ACCOUNTS
  BY DEF ACCOUNTS, KesAccounts, UsdcAccounts, CnyAccounts
<1>3. /\ Net(ledger[p], "supplier_paid_cny") = -cny
      /\ Net(ledger[p], "payout_external_usdc") = out
      /\ Net(ledger[p], "hk_usdc") = hk - out
      /\ Net(ledger[p], "treasury_usdc") = usdc - hk
      /\ Net(ledger[p], "mpesa_collected") = kes - sent
  BY <1>1, <1>2 DEF Holdings
<1>4. -cny # 0 <=> cny # 0
  OBVIOUS
<1> QED BY <1>3, <1>4 DEF PlaceOf

LEMMA PlacesAreFollowed ==
  ASSUME AmountsCount
  PROVE  TypeInv /\ LedgerInv /\ SerialInv /\ WorthInv /\ NeverRefunding => PlacesFollow
<1> SUFFICES ASSUME TypeInv, LedgerInv, SerialInv, WorthInv, NeverRefunding, NEW p \in Payments
             PROVE  PlaceOf(p) = PlaceAt[pay[p].status]
  BY DEF PlacesFollow
<1>1. /\ pay[p].status \in PAYMENT_STATUSES /\ pay[p].usdcMinor \in Nat
      /\ pay[p].status # "Refunding"
  BY DEF TypeInv, TypeOK, PayRow, NeverRefunding
<1>2. Nets(ledger[p]) = PositionAt(p, pay[p].status, pay[p].usdcMinor)
  BY LedgerInvSuffices DEF LedgerFollowsStatus, SerialInv, Position
<1>q. /\ Quote[p].allInMinorKes \in Int /\ Quote[p].sendMinorKes \in Int
      /\ Quote[p].receiveMinorCny \in Int
  BY QuoteAssumption
<1>3. PICK kes \in Int : kes = Quote[p].allInMinorKes /\ kes # 0
  BY <1>q DEF AmountsCount
<1>4. PICK sent \in Int : sent = Quote[p].sendMinorKes
  BY <1>q
<1>5. PICK cny \in Int : cny = Quote[p].receiveMinorCny /\ cny # 0
  BY <1>q DEF AmountsCount
<1>6. PICK usdc \in Int : usdc = pay[p].usdcMinor
  BY <1>1
<1>7. pay[p].status \in Converted => usdc # 0
  BY <1>6 DEF WorthInv, AmountsCount
<1>p. /\ \A s \in {"Quoted", "AwaitingFunding", "Failed", "Refunded"} :
            PositionAt(p, s, usdc) = Holdings(0, 0, 0, 0, 0, 0)
      /\ PositionAt(p, "Funded", usdc) = Holdings(kes, 0, 0, 0, 0, 0)
      /\ \A s \in {"OnRamped", "Bridging"} :
            PositionAt(p, s, usdc) = Holdings(kes, sent, usdc, 0, 0, 0)
      /\ PositionAt(p, "Bridged", usdc) = Holdings(kes, sent, usdc, usdc, 0, 0)
      /\ PositionAt(p, "PayingOut", usdc) = Holdings(kes, sent, usdc, usdc, usdc, 0)
      /\ PositionAt(p, "Settled", usdc) = Holdings(kes, sent, usdc, usdc, usdc, cny)
  BY <1>3, <1>4, <1>5, Positions
<1>0. 0 \in Int /\ 0 - 0 = 0 /\ usdc - usdc = 0 /\ usdc - 0 = usdc /\ kes - 0 = kes
  OBVIOUS
<1>8. CASE pay[p].status \in {"Quoted", "AwaitingFunding", "Failed", "Refunded"}
  <2>1. Nets(ledger[p]) = Holdings(0, 0, 0, 0, 0, 0)
    BY <1>2, <1>6, <1>8, <1>p
  <2>2. PlaceOf(p) = "importer"
    BY <1>0, <2>1, PlaceOfHoldings
  <2> QED BY <1>8, <2>2 DEF PlaceAt
<1>9. CASE pay[p].status = "Funded"
  <2>1. Nets(ledger[p]) = Holdings(kes, 0, 0, 0, 0, 0)
    BY <1>2, <1>6, <1>9, <1>p
  <2>i. PlaceOf(p) = IF 0 # 0 THEN "supplier"
                     ELSE IF 0 # 0 THEN "partner"
                     ELSE IF 0 - 0 # 0 THEN "hk"
                     ELSE IF 0 - 0 # 0 THEN "treasury"
                     ELSE IF kes - 0 # 0 THEN "collected"
                     ELSE "importer"
    BY <1>0, <2>1, PlaceOfHoldings
  <2>2. PlaceOf(p) = "collected"
    BY <1>0, <1>3, <2>i
  <2> QED BY <1>9, <2>2 DEF PlaceAt
<1>10. CASE pay[p].status \in {"OnRamped", "Bridging"}
  <2>1. Nets(ledger[p]) = Holdings(kes, sent, usdc, 0, 0, 0)
    BY <1>2, <1>6, <1>10, <1>p
  <2>2. PlaceOf(p) = "treasury"
    BY <1>0, <1>7, <1>10, <2>1, PlaceOfHoldings DEF Converted
  <2> QED BY <1>10, <2>2 DEF PlaceAt
<1>11. CASE pay[p].status = "Bridged"
  <2>1. Nets(ledger[p]) = Holdings(kes, sent, usdc, usdc, 0, 0)
    BY <1>2, <1>6, <1>11, <1>p
  <2>2. PlaceOf(p) = "hk"
    BY <1>0, <1>7, <1>11, <2>1, PlaceOfHoldings DEF Converted
  <2> QED BY <1>11, <2>2 DEF PlaceAt
<1>12. CASE pay[p].status = "PayingOut"
  <2>1. Nets(ledger[p]) = Holdings(kes, sent, usdc, usdc, usdc, 0)
    BY <1>2, <1>6, <1>12, <1>p
  <2>2. PlaceOf(p) = "partner"
    BY <1>0, <1>7, <1>12, <2>1, PlaceOfHoldings DEF Converted
  <2> QED BY <1>12, <2>2 DEF PlaceAt
<1>13. CASE pay[p].status = "Settled"
  <2>1. Nets(ledger[p]) = Holdings(kes, sent, usdc, usdc, usdc, cny)
    BY <1>2, <1>6, <1>13, <1>p
  <2>2. PlaceOf(p) = "supplier"
    BY <1>0, <1>5, <2>1, PlaceOfHoldings
  <2> QED BY <1>13, <2>2 DEF PlaceAt
<1> QED BY <1>1, <1>8, <1>9, <1>10, <1>11, <1>12, <1>13 DEF PAYMENT_STATUSES

LEMMA NextNeverRefunding == TypeInv /\ NeverRefunding /\ [Next]_vars => NeverRefunding'
<1> SUFFICES ASSUME TypeInv, NeverRefunding, [Next]_vars, NEW p \in Payments
             PROVE  pay'[p].status # "Refunding"
  BY DEF NeverRefunding
<1>t. DOMAIN pay = Payments
  BY DEF TypeInv, TypeOK
<1>1. CASE UNCHANGED pay
  BY <1>1 DEF NeverRefunding
<1>2. ASSUME NEW c \in Calls, Writes(c) PROVE pay'[p].status # "Refunding"
  BY <1>2, <1>t DEF Writes, NeverRefunding
<1> QED BY <1>1, <1>2, RowsStep, CommitWrites DEF rows

(***************************************************************************)
(* The simulation.                                                         *)
(***************************************************************************)
Placement == [p \in Payments |-> PlaceOf(p)]

Endings == [p \in Payments |-> pay[p].status \in TERMINAL_STATUSES]

\* An edge of the graph is one step of Corridor, or none.
LEMMA EdgeIsStep ==
  ASSUME NEW from \in PAYMENT_STATUSES, NEW to \in PAYMENT_STATUSES,
         \/ CanTransition(from, to)
         \/ CanTransition(from, "Refunding") /\ to = "Refunded",
         from # "Refunding", to # "Refunding"
  PROVE  /\ from \notin TERMINAL_STATUSES
         /\ \/ PlaceAt[to] = PlaceAt[from] /\ to \notin TERMINAL_STATUSES
            \/ /\ PlaceAt[to] = Promise!Onward[PlaceAt[from]]
               /\ to \in TERMINAL_STATUSES <=> PlaceAt[to] = "supplier"
            \/ PlaceAt[to] = "importer" /\ to \in TERMINAL_STATUSES
  BY DEF CanTransition, TRANSITIONS, PAYMENT_STATUSES, TERMINAL_STATUSES, PlaceAt,
         Promise!Onward

LEMMA StepIsPromised ==
  TypeInv /\ SerialInv /\ NeverRefunding /\ PlacesFollow /\ [Next]_vars
    /\ PlacesFollow' /\ NeverRefunding'
    => [Promise!Next]_<<Placement, Endings>>
<1> SUFFICES ASSUME TypeInv, SerialInv, NeverRefunding, PlacesFollow, [Next]_vars,
                    PlacesFollow', NeverRefunding'
             PROVE  Promise!Next \/ UNCHANGED <<Placement, Endings>>
  OBVIOUS
<1>t. pay \in [Payments -> PayRow] /\ \A p \in Payments : pay[p].status \in PAYMENT_STATUSES
  BY DEF TypeInv, TypeOK, PayRow
<1>p. /\ Placement = [p \in Payments |-> PlaceAt[pay[p].status]]
      /\ Placement' = [p \in Payments |-> PlaceAt[pay'[p].status]]
      /\ Endings' = [p \in Payments |-> pay'[p].status \in TERMINAL_STATUSES]
  BY DEF PlacesFollow, Placement, Endings
<1>1. CASE UNCHANGED pay
  BY <1>1, <1>p DEF Endings
<1>2. ASSUME NEW c \in Calls, Writes(c)
      PROVE  Promise!Next \/ UNCHANGED <<Placement, Endings>>
  <2>1. PICK p \in Payments : p = call[c].on
    BY DEF TypeInv, TypeOK, CallState
  <2>2. PICK row, log : /\ pay' = [pay EXCEPT ![p] = row]
                        /\ row.status \in PAYMENT_STATUSES /\ row.status # "Refunding"
                        /\ Moved(c, row.status, log)
    BY <1>2, <2>1 DEF Writes
  <2>3. PICK from \in PAYMENT_STATUSES : from = pay[p].status
    BY <1>t
  <2>4. PICK to \in PAYMENT_STATUSES : to = row.status
    BY <2>2
  <2>5. call[c].snap.status = from
    BY <1>2, <2>1, <2>3 DEF Writes, SerialInv
  <2>6. /\ from \notin TERMINAL_STATUSES
        /\ \/ PlaceAt[to] = PlaceAt[from] /\ to \notin TERMINAL_STATUSES
           \/ /\ PlaceAt[to] = Promise!Onward[PlaceAt[from]]
              /\ to \in TERMINAL_STATUSES <=> PlaceAt[to] = "supplier"
           \/ PlaceAt[to] = "importer" /\ to \in TERMINAL_STATUSES
    BY <2>2, <2>3, <2>4, <2>5, EdgeIsStep DEF Moved, NeverRefunding
  <2>7. \A q \in Payments : pay'[q].status = IF q = p THEN to ELSE pay[q].status
    BY <1>t, <2>2, <2>4
  <2>8. /\ Placement' = [Placement EXCEPT ![p] = PlaceAt[to]]
        /\ Endings' = [Endings EXCEPT ![p] = to \in TERMINAL_STATUSES]
        /\ Placement[p] = PlaceAt[from] /\ Placement'[p] = PlaceAt[to]
        /\ ~Endings[p]
    BY <1>p, <2>3, <2>6, <2>7 DEF Endings
  <2>9. CASE PlaceAt[to] = PlaceAt[from] /\ to \notin TERMINAL_STATUSES
    BY <1>p, <2>3, <2>6, <2>7, <2>9 DEF Endings
  <2>10. CASE /\ PlaceAt[to] = Promise!Onward[PlaceAt[from]]
              /\ to \in TERMINAL_STATUSES <=> PlaceAt[to] = "supplier"
    <3>1. /\ Placement' = [Placement EXCEPT ![p] = Promise!Onward[@]]
          /\ Placement'[p] = PlaceAt[to]
      BY <2>8, <2>10
    <3>2. (to \in TERMINAL_STATUSES) = (Placement'[p] = "supplier")
      BY <2>10, <3>1
    <3>3. Endings' = [Endings EXCEPT ![p] = Placement'[p] = "supplier"]
      BY <2>8, <3>2, Zenon
    <3>4. Promise!Advance(p)
      BY <2>8, <3>1, <3>3 DEF Promise!Advance, Placement, Endings
    <3> QED BY <3>4 DEF Promise!Next
  <2>11. CASE PlaceAt[to] = "importer" /\ to \in TERMINAL_STATUSES
    <3>1. Promise!GiveBack(p)
      BY <2>8, <2>11 DEF Promise!GiveBack, Placement, Endings
    <3> QED BY <3>1 DEF Promise!Next
  <2> QED BY <2>6, <2>9, <2>10, <2>11
<1> QED BY <1>1, <1>2, RowsStep, CommitWrites DEF rows

LEMMA InitIsPromised ==
  ASSUME AmountsCount
  PROVE  Init => Promise!Init /\ SerialInv /\ AnsweredOK /\ WorthInv /\ NeverRefunding
<1> SUFFICES ASSUME Init
             PROVE  Promise!Init /\ SerialInv /\ AnsweredOK /\ WorthInv /\ NeverRefunding
  OBVIOUS
<1>1. SerialInv /\ AnsweredOK /\ WorthInv /\ NeverRefunding
  BY DEF Init, SerialInv, AnsweredOK, WorthInv, NeverRefunding, InFlight, Idle, NewPayment,
         Converted
<1>2. \A p \in Payments : PlaceOf(p) = "importer"
  BY <1>1, InitTypeInv, InitLedgerInv, PlacesAreFollowed
     DEF Init, NewPayment, PlacesFollow, PlaceAt
<1>3. \A p \in Payments : (pay[p].status \in TERMINAL_STATUSES) = FALSE
  BY DEF Init, NewPayment, TERMINAL_STATUSES
<1>4. [p \in Payments |-> PlaceOf(p)] = [p \in Payments |-> "importer"]
  BY <1>2
<1>5. [p \in Payments |-> pay[p].status \in TERMINAL_STATUSES] = [p \in Payments |-> FALSE]
  BY <1>3
<1> QED BY <1>1, <1>4, <1>5 DEF Promise!Init

\* With one call at a time and amounts that are not zero, the engine keeps the
\* promise of the corridor: read off the accounts alone, the value of a payment
\* moves one place per transition or all the way back, and not after the end.
THEOREM SerialEngineImplements ==
  ASSUME OneCall, AmountsCount
  PROVE  Spec => ImplementsCorridor
<1> DEFINE IInv == /\ TypeInv /\ SnapInv /\ LedgerInv /\ SerialInv /\ AnsweredOK
                   /\ WorthInv /\ NeverRefunding
<1>1. Init => IInv /\ Promise!Init
  BY InitTypeInv, InitLedgerInv, InitIsPromised
<1>2. IInv /\ [Next]_vars => IInv'
  BY NextTypeInv, NextSnapInv, NextLedgerInv, NextSerialInv, NextAnsweredOK, NextWorthInv,
     NextNeverRefunding
<1>3. IInv => PlacesFollow /\ TypeInv /\ SerialInv /\ NeverRefunding
  BY PlacesAreFollowed
<1>4. TypeInv /\ SerialInv /\ NeverRefunding /\ PlacesFollow /\ [Next]_vars
        /\ PlacesFollow' /\ NeverRefunding'
        => [Promise!Next]_<<Placement, Endings>>
  BY StepIsPromised
<1> HIDE DEF IInv
<1> QED BY <1>1, <1>2, <1>3, <1>4, PTL
           DEF Spec, ImplementsCorridor, Promise!Spec, Placement, Endings

(***************************************************************************)
(* Reconciliation.  The report sums the books account by account, over all *)
(* payments; as the accounts of a currency cancel for each payment, and in *)
(* each of its two sums, they cancel in the total too.  Whatever moves     *)
(* between the queries of a run, this holds at each of them.               *)
(***************************************************************************)
LEMMA SumOfZeros ==
  ASSUME NEW S, IsFiniteSet(S), NEW f \in [S -> Int], \A x \in S : f[x] = 0
  PROVE  SumOver(f, S) = 0
<1> DEFINE P == {t \in SUBSET S : SumOver(f, t) = 0}
<1>1. ASSUME NEW t \in SUBSET S, \A x \in t : t \ {x} \in P PROVE t \in P
  <2>1. CASE t = {}
    BY <2>1, SumOfSet
  <2>2. ASSUME NEW x \in t PROVE t \in P
    <3>1. SumOver(f, t) = f[x] + SumOver(f, t \ {x}) /\ f[x] = 0
      BY SumOfSet
    <3> QED BY <1>1, <3>1
  <2> QED BY <2>1, <2>2
<1>2. \A t \in SUBSET S : t \in P
  <2> HIDE DEF P
  <2> QED BY <1>1, SubsetInduction
<1> QED BY <1>2

LEMMA SumAdds ==
  ASSUME NEW S, IsFiniteSet(S), NEW f \in [S -> Int], NEW g \in [S -> Int],
         NEW h \in [S -> Int], \A x \in S : h[x] = f[x] + g[x]
  PROVE  SumOver(h, S) = SumOver(f, S) + SumOver(g, S)
<1> DEFINE P == {t \in SUBSET S : SumOver(h, t) = SumOver(f, t) + SumOver(g, t)}
<1>1. ASSUME NEW t \in SUBSET S, \A x \in t : t \ {x} \in P PROVE t \in P
  <2>1. CASE t = {}
    BY <2>1, SumOfSet
  <2>2. ASSUME NEW x \in t PROVE t \in P
    <3>1. PICK m \in Int, n \in Int : m = SumOver(f, t \ {x}) /\ n = SumOver(g, t \ {x})
      BY SumOfSet
    <3>2. SumOver(h, t \ {x}) = m + n
      BY <1>1, <3>1
    <3>3. /\ SumOver(f, t) = f[x] + m /\ SumOver(g, t) = g[x] + n
          /\ SumOver(h, t) = h[x] + (m + n)
      BY <3>1, <3>2, SumOfSet
    <3>4. f[x] \in Int /\ g[x] \in Int /\ h[x] = f[x] + g[x]
      OBVIOUS
    <3>5. f[x] + g[x] + (m + n) = (f[x] + m) + (g[x] + n)
      BY <3>4
    <3> QED BY <3>3, <3>4, <3>5
  <2> QED BY <2>1, <2>2
<1>2. \A t \in SUBSET S : t \in P
  <2> HIDE DEF P
  <2> QED BY <1>1, SubsetInduction
<1> QED BY <1>2

LEMMA AccountsAreFinite ==
  ASSUME NEW cur \in Currencies
  PROVE  AccountsIn(cur) \in SUBSET ACCOUNTS /\ IsFiniteSet(AccountsIn(cur))
<1>1. AccountsIn(cur) \in SUBSET ACCOUNTS
  BY DEF AccountsIn, Currencies, ACCOUNTS
<1>2. IsFiniteSet(KesAccounts)
  <2>1. IsFiniteSet({"importer_external"} \union {"mpesa_collected"})
    BY FS_Singleton, FS_AddElement
  <2>2. KesAccounts = ({"importer_external"} \union {"mpesa_collected"})
                         \union {"onramp_external_kes"}
    BY DEF KesAccounts
  <2> QED BY <2>1, <2>2, FS_AddElement
<1>3. IsFiniteSet(UsdcAccounts)
  <2>1. IsFiniteSet({"onramp_external_usdc"} \union {"treasury_usdc"})
    BY FS_Singleton, FS_AddElement
  <2>2. IsFiniteSet(({"onramp_external_usdc"} \union {"treasury_usdc"}) \union {"hk_usdc"})
    BY <2>1, FS_AddElement
  <2>3. UsdcAccounts = (({"onramp_external_usdc"} \union {"treasury_usdc"}) \union {"hk_usdc"})
                          \union {"payout_external_usdc"}
    BY DEF UsdcAccounts
  <2> QED BY <2>2, <2>3, FS_AddElement
<1>4. IsFiniteSet(CnyAccounts)
  <2>1. CnyAccounts = {"payout_external_cny"} \union {"supplier_paid_cny"}
    BY DEF CnyAccounts
  <2> QED BY <2>1, FS_Singleton, FS_AddElement
<1> QED BY <1>1, <1>2, <1>3, <1>4 DEF AccountsIn, Currencies

LEMMA AllAccountsAreFinite == IsFiniteSet(ACCOUNTS)
<1>1. /\ IsFiniteSet(KesAccounts) /\ IsFiniteSet(UsdcAccounts)
      /\ IsFiniteSet(CnyAccounts)
  BY AccountsAreFinite DEF AccountsIn, Currencies
<1> QED BY <1>1, FS_Union DEF ACCOUNTS

\* The sums over the accounts of each currency.
LEMMA SumOfAccounts ==
  ASSUME NEW f \in [ACCOUNTS -> Int]
  PROVE  /\ SumOver(f, KesAccounts)
              = f["importer_external"] + f["mpesa_collected"] + f["onramp_external_kes"]
         /\ SumOver(f, UsdcAccounts)
              = f["onramp_external_usdc"] + f["treasury_usdc"] + f["hk_usdc"]
                  + f["payout_external_usdc"]
         /\ SumOver(f, CnyAccounts) = f["payout_external_cny"] + f["supplier_paid_cny"]
<1>1. IsFiniteSet(ACCOUNTS)
  BY AllAccountsAreFinite
<1>2. ASSUME NEW t \in SUBSET ACCOUNTS, NEW x \in t
      PROVE  SumOver(f, t) = f[x] + SumOver(f, t \ {x})
  BY <1>1, SumOfSet
<1>3. ASSUME NEW a \in ACCOUNTS PROVE SumOver(f, {a}) = f[a]
  <2>1. \A t \in SUBSET ACCOUNTS : t = {} => SumOver(f, t) = 0
    BY <1>1, SumOfSet
  <2>2. {a} \ {a} = {} /\ {a} \in SUBSET ACCOUNTS
    OBVIOUS
  <2>3. SumOver(f, {a}) = f[a] + SumOver(f, {a} \ {a})
    BY <1>2, <2>2
  <2> QED BY <2>1, <2>2, <2>3
<1>4. ASSUME NEW a \in ACCOUNTS, NEW b \in ACCOUNTS, a # b
      PROVE  SumOver(f, {a, b}) = f[a] + f[b]
  <2>1. {a, b} \ {a} = {b} /\ {a, b} \in SUBSET ACCOUNTS
    BY <1>4
  <2>2. SumOver(f, {a, b}) = f[a] + SumOver(f, {a, b} \ {a})
    BY <1>2, <2>1
  <2> QED BY <1>3, <2>1, <2>2
<1>5. ASSUME NEW a \in ACCOUNTS, NEW b \in ACCOUNTS, NEW c \in ACCOUNTS,
             a # b, a # c, b # c
      PROVE  SumOver(f, {a, b, c}) = f[a] + f[b] + f[c]
  <2>1. {a, b, c} \ {a} = {b, c} /\ {a, b, c} \in SUBSET ACCOUNTS
    BY <1>5
  <2>2. SumOver(f, {a, b, c}) = f[a] + SumOver(f, {a, b, c} \ {a})
    BY <1>2, <2>1
  <2>3. SumOver(f, {b, c}) = f[b] + f[c]
    BY <1>4, <1>5
  <2>4. f[a] \in Int /\ f[b] \in Int /\ f[c] \in Int
    OBVIOUS
  <2>5. f[a] + (f[b] + f[c]) = f[a] + f[b] + f[c]
    BY <2>4
  <2> QED BY <2>1, <2>2, <2>3, <2>5
<1>6. ASSUME NEW a \in ACCOUNTS, NEW b \in ACCOUNTS, NEW c \in ACCOUNTS, NEW d \in ACCOUNTS,
             a # b, a # c, a # d, b # c, b # d, c # d
      PROVE  SumOver(f, {a, b, c, d}) = f[a] + f[b] + f[c] + f[d]
  <2>1. {a, b, c, d} \ {a} = {b, c, d} /\ {a, b, c, d} \in SUBSET ACCOUNTS
    BY <1>6
  <2>2. SumOver(f, {a, b, c, d}) = f[a] + SumOver(f, {a, b, c, d} \ {a})
    BY <1>2, <2>1
  <2>3. SumOver(f, {b, c, d}) = f[b] + f[c] + f[d]
    BY <1>5, <1>6
  <2>4. f[a] \in Int /\ f[b] \in Int /\ f[c] \in Int /\ f[d] \in Int
    OBVIOUS
  <2>5. f[a] + (f[b] + f[c] + f[d]) = f[a] + f[b] + f[c] + f[d]
    BY <2>4
  <2> QED BY <2>1, <2>2, <2>3, <2>5
<1>7. SumOver(f, CnyAccounts) = f["payout_external_cny"] + f["supplier_paid_cny"]
  BY <1>4 DEF ACCOUNTS, CnyAccounts
<1>8. SumOver(f, KesAccounts)
        = f["importer_external"] + f["mpesa_collected"] + f["onramp_external_kes"]
  BY <1>5 DEF ACCOUNTS, KesAccounts
<1>9. SumOver(f, UsdcAccounts)
        = f["onramp_external_usdc"] + f["treasury_usdc"] + f["hk_usdc"]
            + f["payout_external_usdc"]
  <2>1. UsdcAccounts \subseteq ACCOUNTS
    BY DEF ACCOUNTS
  <2> QED BY <1>6, <2>1 DEF UsdcAccounts
<1> QED BY <1>7, <1>8, <1>9

LEMMA SumRestricts ==
  ASSUME NEW S, IsFiniteSet(S), NEW f \in [S -> Int], NEW T \in SUBSET S,
         NEW g \in [T -> Int], \A x \in T : g[x] = f[x]
  PROVE  SumOver(g, T) = SumOver(f, T)
<1> DEFINE P == {t \in SUBSET T : SumOver(g, t) = SumOver(f, t)}
<1>0. IsFiniteSet(T) /\ \A t \in SUBSET T : t \in SUBSET S
  BY FS_Subset
<1>1. ASSUME NEW t \in SUBSET T, \A x \in t : t \ {x} \in P PROVE t \in P
  <2>1. CASE t = {}
    BY <1>0, <2>1, SumOfSet
  <2>2. ASSUME NEW x \in t PROVE t \in P
    <3>1. SumOver(f, t) = f[x] + SumOver(f, t \ {x})
      BY <1>0, SumOfSet
    <3>2. SumOver(g, t) = g[x] + SumOver(g, t \ {x})
      BY <1>0, SumOfSet
    <3> QED BY <1>1, <3>1, <3>2
  <2> QED BY <2>1, <2>2
<1>2. \A t \in SUBSET T : t \in P
  <2> HIDE DEF P
  <2> QED BY <1>0, <1>1, SubsetInduction
<1> QED BY <1>2

LEMMA NetsAreIntegers ==
  ASSUME TypeInv, NEW p \in Payments, NEW a \in ACCOUNTS
  PROVE  Net(ledger[p], a) \in Int
<1>1. ledger[p] \in Book
  BY DEF TypeInv, TypeOK
<1>2. ledger[p].posted[a] \in Int /\ ledger[p].reversed[a] \in Int
  BY <1>1 DEF Book
<1> QED BY <1>2 DEF Net

\* The sum of a payment's accounts in a currency, which run holds against zero.
LEMMA CurrencyIsSum ==
  ASSUME TypeInv, NEW p \in Payments, NEW cur \in Currencies
  PROVE  MapThenSumSet(LAMBDA a : Net(ledger[p], a), AccountsIn(cur))
           = SumOver([a \in ACCOUNTS |-> Net(ledger[p], a)], AccountsIn(cur))
<1> DEFINE T == AccountsIn(cur)
           f == [a \in T |-> Net(ledger[p], a)]
           all == [a \in ACCOUNTS |-> Net(ledger[p], a)]
           Sum(g) == g = [s \in SUBSET T |-> IF s = {} THEN 0
                                             ELSE Net(ledger[p], Any(s)) + g[s \ {Any(s)}]]
           It == CHOOSE g : Sum(g)
<1>1. T \in SUBSET ACCOUNTS /\ IsFiniteSet(T)
  BY AccountsAreFinite
<1>2. f \in [T -> Int] /\ all \in [ACCOUNTS -> Int] /\ \A a \in T : f[a] = all[a]
  <2> HIDE DEF T
  <2> QED BY <1>1, NetsAreIntegers
<1>3. \A g : Tallies(g, f, T) <=> Sum(g)
  <2> HIDE DEF T
  <2>1. \A s \in SUBSET T : s # {} => f[Any(s)] = Net(ledger[p], Any(s))
    BY DEF Any
  <2> HIDE DEF f
  <2>2. \A g : [s \in SUBSET T |-> IF s = {} THEN 0 ELSE f[Any(s)] + g[s \ {Any(s)}]]
                 = [s \in SUBSET T |-> IF s = {} THEN 0
                                       ELSE Net(ledger[p], Any(s)) + g[s \ {Any(s)}]]
    BY <2>1
  <2> QED BY <2>2 DEF Tallies
<1>4. PICK g : Tallies(g, f, T)
  <2> HIDE DEF f, T
  <2> QED BY <1>1, <1>2, TalliesExist
<1>5. Sum(It)
  <2> HIDE DEF Sum
  <2> QED BY <1>3, <1>4
<1>6. MapThenSumSet(LAMBDA a : Net(ledger[p], a), T) = It[T]
  BY DEF MapThenSumSet, MapThenFoldSet, Any
<1>7. SumOver(f, T) = It[T]
  <2> HIDE DEF It, f, T, Sum
  <2> QED BY <1>1, <1>3, <1>5, SumOverIsSum
<1>8. IsFiniteSet(ACCOUNTS)
  BY AllAccountsAreFinite
<1>9. SumOver(f, T) = SumOver(all, T)
  <2> HIDE DEF f, T, all
  <2> QED BY <1>1, <1>2, <1>8, SumRestricts
<1> QED BY <1>6, <1>7, <1>9

\* The sum of an account over all payments.
LEMMA PositionIsSum ==
  ASSUME TypeInv, IsFiniteSet(Payments), NEW a \in ACCOUNTS
  PROVE  AccountPosition(a) = SumOver([p \in Payments |-> Net(ledger[p], a)], Payments)
<1> DEFINE f == [p \in Payments |-> Net(ledger[p], a)]
           Sum(g) == g = [s \in SUBSET Payments |->
                            IF s = {} THEN 0
                            ELSE Net(ledger[Any(s)], a) + g[s \ {Any(s)}]]
           It == CHOOSE g : Sum(g)
<1>2. f \in [Payments -> Int]
  BY NetsAreIntegers
<1>3. \A g : Tallies(g, f, Payments) <=> Sum(g)
  <2>1. \A s \in SUBSET Payments : s # {} => f[Any(s)] = Net(ledger[Any(s)], a)
    BY DEF Any
  <2> HIDE DEF f
  <2>2. \A g : [s \in SUBSET Payments |-> IF s = {} THEN 0 ELSE f[Any(s)] + g[s \ {Any(s)}]]
                 = [s \in SUBSET Payments |->
                      IF s = {} THEN 0 ELSE Net(ledger[Any(s)], a) + g[s \ {Any(s)}]]
    BY <2>1
  <2> QED BY <2>2 DEF Tallies
<1>4. PICK g : Tallies(g, f, Payments)
  <2> HIDE DEF f
  <2> QED BY <1>2, TalliesExist
<1>5. Sum(It)
  <2> HIDE DEF Sum
  <2> QED BY <1>3, <1>4
<1>6. AccountPosition(a) = It[Payments]
  BY DEF AccountPosition, MapThenSumSet, MapThenFoldSet, Any
<1>7. SumOver(f, Payments) = It[Payments]
  <2> HIDE DEF It, f, Sum
  <2> QED BY <1>3, <1>5, SumOverIsSum
<1> QED BY <1>6, <1>7

LEMMA PositionsAreIntegers ==
  ASSUME TypeInv, IsFiniteSet(Payments), NEW a \in ACCOUNTS
  PROVE  AccountPosition(a) \in Int
<1>1. PICK f \in [Payments -> Int] : AccountPosition(a) = SumOver(f, Payments)
  <2>1. [p \in Payments |-> Net(ledger[p], a)] \in [Payments -> Int]
    BY NetsAreIntegers
  <2> QED BY <2>1, PositionIsSum
<1>2. \A t \in SUBSET Payments : SumOver(f, t) \in Int
  BY SumOfSet
<1> QED BY <1>1, <1>2

\* The accounts of a currency cancel, for each payment and for all of them.
LEMMA NoImbalance ==
  ASSUME TypeInv, SidesBalanced, NEW p \in Payments
  PROVE  BalancesByCurrency(p) = {}
<1>1. PICK f \in [ACCOUNTS -> Int] : f = [a \in ACCOUNTS |-> Net(ledger[p], a)]
  BY NetsAreIntegers
<1>2. IsBalanced(ledger[p])
  BY SidesBalancedSuffices DEF LedgerBalanced
<1>3. SumsToZero(f)
  BY <1>1, <1>2 DEF IsBalanced, SumsToZero, ACCOUNTS, KesAccounts, UsdcAccounts, CnyAccounts
<1>4. \A cur \in Currencies : SumOver(f, AccountsIn(cur)) = 0
  BY <1>3, SumOfAccounts DEF SumsToZero, AccountsIn, Currencies
<1>5. \A cur \in Currencies :
        MapThenSumSet(LAMBDA a : Net(ledger[p], a), AccountsIn(cur)) = 0
  BY <1>1, <1>4, CurrencyIsSum
<1> QED BY <1>5 DEF BalancesByCurrency

LEMMA PositionsIsSum ==
  ASSUME TypeInv, IsFiniteSet(Payments), NEW cur \in Currencies
  PROVE  MapThenSumSet(AccountPosition, AccountsIn(cur))
           = SumOver([a \in ACCOUNTS |-> AccountPosition(a)], AccountsIn(cur))
<1> DEFINE T == AccountsIn(cur)
           f == [a \in T |-> AccountPosition(a)]
           all == [a \in ACCOUNTS |-> AccountPosition(a)]
           Sum(g) == g = [s \in SUBSET T |-> IF s = {} THEN 0
                                             ELSE AccountPosition(Any(s)) + g[s \ {Any(s)}]]
           It == CHOOSE g : Sum(g)
<1>1. T \in SUBSET ACCOUNTS /\ IsFiniteSet(T)
  BY AccountsAreFinite
<1>2. f \in [T -> Int] /\ all \in [ACCOUNTS -> Int] /\ \A a \in T : f[a] = all[a]
  <2> HIDE DEF T
  <2> QED BY <1>1, PositionsAreIntegers
<1>3. \A g : Tallies(g, f, T) <=> Sum(g)
  <2> HIDE DEF T
  <2>1. \A s \in SUBSET T : s # {} => f[Any(s)] = AccountPosition(Any(s))
    BY DEF Any
  <2> HIDE DEF f
  <2>2. \A g : [s \in SUBSET T |-> IF s = {} THEN 0 ELSE f[Any(s)] + g[s \ {Any(s)}]]
                 = [s \in SUBSET T |-> IF s = {} THEN 0
                                       ELSE AccountPosition(Any(s)) + g[s \ {Any(s)}]]
    BY <2>1
  <2> QED BY <2>2 DEF Tallies
<1>4. PICK g : Tallies(g, f, T)
  <2> HIDE DEF f, T
  <2> QED BY <1>1, <1>2, TalliesExist
<1>5. Sum(It)
  <2> HIDE DEF Sum
  <2> QED BY <1>3, <1>4
<1>6. MapThenSumSet(AccountPosition, T) = It[T]
  BY DEF MapThenSumSet, MapThenFoldSet, Any
<1>7. SumOver(f, T) = It[T]
  <2> HIDE DEF It, f, T, Sum
  <2> QED BY <1>1, <1>3, <1>5, SumOverIsSum
<1>8. SumOver(f, T) = SumOver(all, T)
  <2> HIDE DEF f, T, all
  <2> QED BY <1>1, <1>2, AllAccountsAreFinite, SumRestricts
<1> QED BY <1>6, <1>7, <1>8

\* Four accounts, some of which may be none, that cancel for every payment.
LEMMA PositionsCancel ==
  ASSUME IsFiniteSet(Payments), NEW f \in [Payments -> Int], NEW g \in [Payments -> Int],
         NEW h \in [Payments -> Int], NEW k \in [Payments -> Int],
         \A p \in Payments : f[p] + g[p] + h[p] + k[p] = 0
  PROVE  SumOver(f, Payments) + SumOver(g, Payments) + SumOver(h, Payments)
           + SumOver(k, Payments) = 0
<1>1. PICK fg \in [Payments -> Int] : \A p \in Payments : fg[p] = f[p] + g[p]
  <2>1. [p \in Payments |-> f[p] + g[p]] \in [Payments -> Int]
    OBVIOUS
  <2> QED BY <2>1
<1>2. PICK hk \in [Payments -> Int] : \A p \in Payments : hk[p] = h[p] + k[p]
  <2>1. [p \in Payments |-> h[p] + k[p]] \in [Payments -> Int]
    OBVIOUS
  <2> QED BY <2>1
<1>3. PICK none \in [Payments -> Int] : \A p \in Payments : none[p] = 0
  <2>1. [p \in Payments |-> 0] \in [Payments -> Int]
    OBVIOUS
  <2> QED BY <2>1
<1>4. \A p \in Payments : none[p] = fg[p] + hk[p]
  <2>1. ASSUME NEW p \in Payments PROVE none[p] = fg[p] + hk[p]
    <3>1. f[p] \in Int /\ g[p] \in Int /\ h[p] \in Int /\ k[p] \in Int
      OBVIOUS
    <3>2. f[p] + g[p] + h[p] + k[p] = 0
      OBVIOUS
    <3> QED BY <1>1, <1>2, <1>3, <3>1, <3>2
  <2> QED BY <2>1
<1>5. SumOver(none, Payments) = SumOver(fg, Payments) + SumOver(hk, Payments)
  BY <1>4, SumAdds
<1>6. /\ SumOver(fg, Payments) = SumOver(f, Payments) + SumOver(g, Payments)
      /\ SumOver(hk, Payments) = SumOver(h, Payments) + SumOver(k, Payments)
  BY <1>1, <1>2, SumAdds
<1>7. SumOver(none, Payments) = 0
  BY <1>3, SumOfZeros
<1>8. ASSUME NEW e \in [Payments -> Int] PROVE SumOver(e, Payments) \in Int
  <2>1. \A t \in SUBSET Payments : SumOver(e, t) \in Int
    BY SumOfSet
  <2> QED BY <2>1
<1>9. PICK a \in Int, b \in Int, c \in Int, d \in Int :
        /\ a = SumOver(f, Payments) /\ b = SumOver(g, Payments)
        /\ c = SumOver(h, Payments) /\ d = SumOver(k, Payments)
  BY <1>8
<1>10. (a + b) + (c + d) = 0
  BY <1>5, <1>6, <1>7, <1>9
<1>11. a + b + c + d = 0
  BY <1>10
<1> QED BY <1>9, <1>11

LEMMA NothingOff ==
  ASSUME TypeInv, SidesBalanced, IsFiniteSet(Payments), NEW cur \in Currencies
  PROVE  MapThenSumSet(AccountPosition, AccountsIn(cur)) = 0
<1> DEFINE Of(a) == [p \in Payments |-> Net(ledger[p], a)]
<1>1. \A a \in ACCOUNTS : Of(a) \in [Payments -> Int]
  BY NetsAreIntegers
<1>2. PICK none \in [Payments -> Int] : \A p \in Payments : none[p] = 0
  <2>1. [p \in Payments |-> 0] \in [Payments -> Int]
    OBVIOUS
  <2> QED BY <2>1
<1>3. SumOver(none, Payments) = 0
  BY <1>2, SumOfZeros
<1>4. \A a \in ACCOUNTS : /\ AccountPosition(a) = SumOver(Of(a), Payments)
                          /\ AccountPosition(a) \in Int
  BY PositionIsSum, PositionsAreIntegers
<1>5. ASSUME NEW p \in Payments PROVE IsBalanced(ledger[p])
  BY SidesBalancedSuffices DEF LedgerBalanced
<1>6. ASSUME NEW p \in Payments, NEW a \in ACCOUNTS
      PROVE  Of(a)[p] = Net(ledger[p], a) /\ Net(ledger[p], a) \in Int
  BY NetsAreIntegers
<1> HIDE DEF Of
<1>7. PICK all \in [ACCOUNTS -> Int] : all = [a \in ACCOUNTS |-> AccountPosition(a)]
  BY <1>4
<1>8. CASE cur = "KES"
  <2>1. {"importer_external", "mpesa_collected", "onramp_external_kes"} \subseteq ACCOUNTS
    BY DEF ACCOUNTS, KesAccounts
  <2>2. \A p \in Payments : Of("importer_external")[p] + Of("mpesa_collected")[p]
                              + Of("onramp_external_kes")[p] + none[p] = 0
    BY <1>2, <1>5, <1>6, <2>1 DEF IsBalanced
  <2>3. SumOver(Of("importer_external"), Payments) + SumOver(Of("mpesa_collected"), Payments)
          + SumOver(Of("onramp_external_kes"), Payments) + SumOver(none, Payments) = 0
    BY <1>1, <2>1, <2>2, PositionsCancel
  <2>4. all["importer_external"] + all["mpesa_collected"] + all["onramp_external_kes"] = 0
    BY <1>3, <1>4, <1>7, <2>1, <2>3
  <2> QED BY <1>7, <1>8, <2>4, PositionsIsSum, SumOfAccounts DEF AccountsIn
<1>9. CASE cur = "USDC"
  <2>1. {"onramp_external_usdc", "treasury_usdc", "hk_usdc", "payout_external_usdc"}
          \subseteq ACCOUNTS
    BY DEF ACCOUNTS, UsdcAccounts
  <2>2. \A p \in Payments : Of("onramp_external_usdc")[p] + Of("treasury_usdc")[p]
                              + Of("hk_usdc")[p] + Of("payout_external_usdc")[p] = 0
    BY <1>5, <1>6, <2>1 DEF IsBalanced
  <2>3. SumOver(Of("onramp_external_usdc"), Payments) + SumOver(Of("treasury_usdc"), Payments)
          + SumOver(Of("hk_usdc"), Payments)
          + SumOver(Of("payout_external_usdc"), Payments) = 0
    BY <1>1, <2>1, <2>2, PositionsCancel
  <2>4. all["onramp_external_usdc"] + all["treasury_usdc"] + all["hk_usdc"]
          + all["payout_external_usdc"] = 0
    BY <1>4, <1>7, <2>1, <2>3
  <2> QED BY <1>7, <1>9, <2>4, PositionsIsSum, SumOfAccounts DEF AccountsIn
<1>10. CASE cur = "CNY"
  <2>1. {"payout_external_cny", "supplier_paid_cny"} \subseteq ACCOUNTS
    BY DEF ACCOUNTS, CnyAccounts
  <2>2. \A p \in Payments : Of("payout_external_cny")[p] + Of("supplier_paid_cny")[p]
                              + none[p] + none[p] = 0
    BY <1>2, <1>5, <1>6, <2>1 DEF IsBalanced
  <2>3. SumOver(Of("payout_external_cny"), Payments) + SumOver(Of("supplier_paid_cny"), Payments)
          + SumOver(none, Payments) + SumOver(none, Payments) = 0
    BY <1>1, <2>1, <2>2, PositionsCancel
  <2>4. all["payout_external_cny"] + all["supplier_paid_cny"] = 0
    BY <1>3, <1>4, <1>7, <2>1, <2>3
  <2> QED BY <1>7, <1>10, <2>4, PositionsIsSum, SumOfAccounts DEF AccountsIn
<1> QED BY <1>8, <1>9, <1>10 DEF Currencies

\* What a payment holds is never less than nothing, if it collects what it converts.
FeesAreCollected == \A p \in Payments : Quote[p].allInMinorKes >= Quote[p].sendMinorKes

LEMMA NothingOverdrawn ==
  ASSUME FeesAreCollected, TypeInv, LedgerInv, SerialInv, NeverRefunding,
         IsFiniteSet(Payments), NEW a \in Held
  PROVE  AccountPosition(a) \in Nat
<1>1. a \in ACCOUNTS
  BY DEF Held, ACCOUNTS, KesAccounts, UsdcAccounts
<1>2. ASSUME NEW p \in Payments PROVE Net(ledger[p], a) \in Nat
  <2>1. /\ pay[p].status \in PAYMENT_STATUSES /\ pay[p].usdcMinor \in Nat
        /\ pay[p].status # "Refunding"
    BY DEF TypeInv, TypeOK, PayRow, NeverRefunding
  <2>2. Nets(ledger[p]) = PositionAt(p, pay[p].status, pay[p].usdcMinor)
    BY LedgerInvSuffices DEF LedgerFollowsStatus, SerialInv, Position
  <2>q. /\ Quote[p].allInMinorKes \in Int /\ Quote[p].sendMinorKes \in Int
        /\ Quote[p].allInMinorKes \in Nat /\ Quote[p].receiveMinorCny \in Int
    BY QuoteAssumption
  <2>3. PICK kes \in Int, sent \in Int :
          kes = Quote[p].allInMinorKes /\ sent = Quote[p].sendMinorKes
    BY <2>q
  <2>4. kes \in Nat /\ kes - sent \in Nat
    BY <2>3, <2>q DEF FeesAreCollected
  <2>5. PICK cny \in Int : cny = Quote[p].receiveMinorCny
    BY <2>q
  <2>6. PICK usdc \in Int : usdc = pay[p].usdcMinor /\ usdc \in Nat
    BY <2>1
  <2>p. /\ \A s \in {"Quoted", "AwaitingFunding", "Failed", "Refunded"} :
              PositionAt(p, s, usdc) = Holdings(0, 0, 0, 0, 0, 0)
        /\ PositionAt(p, "Funded", usdc) = Holdings(kes, 0, 0, 0, 0, 0)
        /\ \A s \in {"OnRamped", "Bridging"} :
              PositionAt(p, s, usdc) = Holdings(kes, sent, usdc, 0, 0, 0)
        /\ PositionAt(p, "Bridged", usdc) = Holdings(kes, sent, usdc, usdc, 0, 0)
        /\ PositionAt(p, "PayingOut", usdc) = Holdings(kes, sent, usdc, usdc, usdc, 0)
        /\ PositionAt(p, "Settled", usdc) = Holdings(kes, sent, usdc, usdc, usdc, cny)
    BY <2>3, <2>5, Positions
  <2>7. PICK k \in Int, s \in Int, u \in Int, h \in Int, o \in Int, c \in Int :
          /\ Nets(ledger[p]) = Holdings(k, s, u, h, o, c)
          /\ k - s >= 0 /\ u - h >= 0 /\ h - o >= 0
    <3>0. 0 \in Int /\ 0 - 0 >= 0 /\ usdc - usdc >= 0 /\ usdc - 0 >= 0 /\ kes - 0 >= 0
            /\ kes - sent >= 0
      BY <2>4, <2>6
    <3>1. CASE pay[p].status \in {"Quoted", "AwaitingFunding", "Failed", "Refunded"}
      <4>1. Nets(ledger[p]) = Holdings(0, 0, 0, 0, 0, 0)
        BY <2>2, <2>6, <2>p, <3>1
      <4> QED BY <3>0, <4>1
    <3>2. CASE pay[p].status = "Funded"
      <4>1. Nets(ledger[p]) = Holdings(kes, 0, 0, 0, 0, 0)
        BY <2>2, <2>6, <2>p, <3>2
      <4> QED BY <3>0, <4>1
    <3>3. CASE pay[p].status \in {"OnRamped", "Bridging"}
      <4>1. Nets(ledger[p]) = Holdings(kes, sent, usdc, 0, 0, 0)
        BY <2>2, <2>6, <2>p, <3>3
      <4> QED BY <3>0, <4>1
    <3>4. CASE pay[p].status = "Bridged"
      <4>1. Nets(ledger[p]) = Holdings(kes, sent, usdc, usdc, 0, 0)
        BY <2>2, <2>6, <2>p, <3>4
      <4> QED BY <3>0, <4>1
    <3>5. CASE pay[p].status = "PayingOut"
      <4>1. Nets(ledger[p]) = Holdings(kes, sent, usdc, usdc, usdc, 0)
        BY <2>2, <2>6, <2>p, <3>5
      <4> QED BY <3>0, <4>1
    <3>6. CASE pay[p].status = "Settled"
      <4>1. Nets(ledger[p]) = Holdings(kes, sent, usdc, usdc, usdc, cny)
        BY <2>2, <2>6, <2>p, <3>6
      <4> QED BY <3>0, <4>1
    <3> QED BY <2>1, <3>1, <3>2, <3>3, <3>4, <3>5, <3>6 DEF PAYMENT_STATUSES
  <2>8. Net(ledger[p], a) = Holdings(k, s, u, h, o, c)[a]
    BY <1>1, <2>7 DEF Nets
  <2>9. Holdings(k, s, u, h, o, c)[a] \in {k - s, u - h, h - o}
    BY <1>1 DEF Held, Holdings
  <2> QED BY <2>7, <2>8, <2>9
<1>3. PICK f \in [Payments -> Nat] : AccountPosition(a) = SumOver(f, Payments)
  <2>1. [p \in Payments |-> Net(ledger[p], a)] \in [Payments -> Nat]
    BY <1>2
  <2> QED BY <1>1, <2>1, PositionIsSum
<1> QED BY <1>3, SumIsNat

\* The report, as far as it has got, names nothing.
Report ==
  [at : {"none", "payments", "report"}, left : SUBSET Payments,
   imbalances : SUBSET (Payments \X Currencies), off : SUBSET Currencies,
   overdrawn : SUBSET Held]

Balanced(r) == r.imbalances = {} /\ r.off = {}

ReportInv == report \in Report /\ \A r \in Report : report = r => Balanced(r)

SolventInv == \A r \in Report : report = r => r.overdrawn = {}

LEMMA ReconciliationSteps == [ReconciliationNext]_reconciliationVars => [Next]_vars
  BY DEF ReconciliationNext, reconciliationVars, ListPayments, Reconcile, AccountBalances

LEMMA NextReportInv ==
  ASSUME IsFiniteSet(Payments), TypeInv, SidesBalanced, ReportInv,
         [ReconciliationNext]_reconciliationVars
  PROVE  /\ ReportInv'
         /\ (\A a \in Held : AccountPosition(a) \in Nat) /\ SolventInv => SolventInv'
<1>1. PICK r \in Report : r = report /\ Balanced(r)
  BY DEF ReportInv
<1>2. ASSUME NEW new \in Report, report' = new, Balanced(new),
             SolventInv /\ (\A a \in Held : AccountPosition(a) \in Nat) => new.overdrawn = {}
      PROVE  /\ ReportInv'
             /\ (\A a \in Held : AccountPosition(a) \in Nat) /\ SolventInv => SolventInv'
  BY <1>2 DEF ReportInv, SolventInv, Balanced
<1>3. SolventInv => r.overdrawn = {}
  BY <1>1 DEF SolventInv
<1>4. CASE UNCHANGED report
  BY <1>1, <1>2, <1>3, <1>4
<1>5. CASE ListPayments
  <2>1. PICK new \in Report :
          /\ report' = new /\ new.imbalances = {} /\ new.off = {} /\ new.overdrawn = {}
    <3>1. /\ report' \in Report /\ report'.imbalances = {} /\ report'.off = {}
          /\ report'.overdrawn = {}
      BY <1>5 DEF ListPayments, Report
    <3> QED BY <3>1
  <2> QED BY <1>2, <2>1 DEF Balanced
<1>6. ASSUME NEW p \in Payments, Reconcile(p)
      PROVE  /\ ReportInv'
             /\ (\A a \in Held : AccountPosition(a) \in Nat) /\ SolventInv => SolventInv'
  <2>1. {<<p, cur>> : cur \in BalancesByCurrency(p)} = {}
    BY NoImbalance
  <2>2. PICK left \in SUBSET Payments : left = r.left \ {p}
    BY DEF Report
  <2>3. report' = [r EXCEPT !.left = left, !.imbalances = r.imbalances]
    BY <1>1, <1>6, <2>1, <2>2 DEF Reconcile
  <2>4. PICK half \in Report :
          /\ half = [r EXCEPT !.left = left] /\ half.imbalances = r.imbalances
          /\ half.off = r.off /\ half.overdrawn = r.overdrawn
    <3>1. /\ [r EXCEPT !.left = left] \in Report
          /\ [r EXCEPT !.left = left].imbalances = r.imbalances
          /\ [r EXCEPT !.left = left].off = r.off
          /\ [r EXCEPT !.left = left].overdrawn = r.overdrawn
      BY DEF Report
    <3> QED BY <3>1
  <2>5. report' = [half EXCEPT !.imbalances = half.imbalances]
    BY <2>3, <2>4
  <2>6. report' = half
    BY <2>5 DEF Report
  <2> QED BY <1>1, <1>2, <1>3, <2>4, <2>6 DEF Balanced
<1>7. CASE AccountBalances
  <2>1. {cur \in Currencies : MapThenSumSet(AccountPosition, AccountsIn(cur)) # 0} = {}
    BY NothingOff
  <2>2. PICK over \in SUBSET Held : over = {a \in Held : AccountPosition(a) < 0}
    OBVIOUS
  <2>3. report' = [r EXCEPT !.at = "report", !.off = {}, !.overdrawn = over]
    BY <1>1, <1>7, <2>1, <2>2 DEF AccountBalances
  <2>4. PICK one \in Report :
          /\ one = [r EXCEPT !.at = "report"] /\ one.imbalances = r.imbalances
    <3>1. /\ [r EXCEPT !.at = "report"] \in Report
          /\ [r EXCEPT !.at = "report"].imbalances = r.imbalances
      BY DEF Report
    <3> QED BY <3>1
  <2>5. PICK two \in Report :
          /\ two = [one EXCEPT !.off = {}] /\ two.imbalances = r.imbalances /\ two.off = {}
    <3>1. /\ [one EXCEPT !.off = {}] \in Report
          /\ [one EXCEPT !.off = {}].imbalances = one.imbalances
          /\ [one EXCEPT !.off = {}].off = {}
      BY DEF Report
    <3> QED BY <2>4, <3>1
  <2>6. PICK new \in Report :
          /\ new = [two EXCEPT !.overdrawn = over] /\ new.imbalances = r.imbalances
          /\ new.off = {} /\ new.overdrawn = over
    <3>1. /\ [two EXCEPT !.overdrawn = over] \in Report
          /\ [two EXCEPT !.overdrawn = over].imbalances = two.imbalances
          /\ [two EXCEPT !.overdrawn = over].off = two.off
          /\ [two EXCEPT !.overdrawn = over].overdrawn = over
      BY DEF Report
    <3> QED BY <2>5, <3>1
  <2>7. report' = new
    BY <2>3, <2>4, <2>5, <2>6
  <2>8. (\A a \in Held : AccountPosition(a) \in Nat) => over = {}
    BY <2>2
  <2> QED BY <1>1, <1>2, <2>6, <2>7, <2>8 DEF Balanced
<1> QED BY <1>4, <1>5, <1>6, <1>7 DEF ReconciliationNext, reconciliationVars

LEMMA InitReport == ReconciliationInit => ReportInv /\ SolventInv
<1> SUFFICES ASSUME ReconciliationInit PROVE ReportInv /\ SolventInv
  OBVIOUS
<1>1. /\ report \in Report /\ report.imbalances = {} /\ report.off = {}
      /\ report.overdrawn = {}
  BY DEF ReconciliationInit, Report
<1> QED BY <1>1 DEF ReportInv, SolventInv, Balanced

\* However many calls of the engine go on while ReconciliationService.run makes its
\* queries, and however they overwrite each other, the report names no imbalance and
\* its account balances cancel in every currency.
THEOREM ReportsBalance ==
  ASSUME IsFiniteSet(Payments)
  PROVE  ReconciliationSpec => [](report.imbalances = {} /\ report.off = {})
<1> DEFINE Inv == TypeInv /\ SidesBalanced /\ ReportInv
<1>1. Init /\ ReconciliationInit => Inv
  BY InitTypeInv, InitSidesBalanced, InitReport
<1>2. Inv /\ [ReconciliationNext]_reconciliationVars => Inv'
  BY ReconciliationSteps, NextTypeInv, NextSidesBalanced, NextReportInv
<1>3. Inv => report.imbalances = {} /\ report.off = {}
  BY DEF ReportInv, Balanced
<1> HIDE DEF Inv
<1> QED BY <1>1, <1>2, <1>3, PTL DEF ReconciliationSpec

\* ReportIsClean: with one call at a time, and fees that are not negative, the report
\* of ReconciliationService.run shows no account of held money overdrawn either.
THEOREM ReportsAreClean ==
  ASSUME OneCall, FeesAreCollected, IsFiniteSet(Payments)
  PROVE  ReconciliationSpec => []ReportIsClean
<1> DEFINE Engine == /\ TypeInv /\ SidesBalanced /\ SnapInv /\ LedgerInv /\ SerialInv
                     /\ NeverRefunding
           Inv == Engine /\ ReportInv /\ SolventInv
<1>1. Init /\ ReconciliationInit => Inv
  <2>1. Init => SerialInv /\ NeverRefunding
    BY DEF Init, SerialInv, NeverRefunding, InFlight, Idle, NewPayment
  <2> QED BY <2>1, InitTypeInv, InitSidesBalanced, InitLedgerInv, InitReport
<1>2. Engine /\ [Next]_vars => Engine'
  BY NextTypeInv, NextSidesBalanced, NextSnapInv, NextLedgerInv, NextSerialInv,
     NextNeverRefunding
<1>3. Inv /\ [ReconciliationNext]_reconciliationVars => Inv'
  <2>1. Engine => \A a \in Held : AccountPosition(a) \in Nat
    BY NothingOverdrawn
  <2> HIDE DEF Engine
  <2>2. Engine => TypeInv /\ SidesBalanced
    BY DEF Engine
  <2> QED BY <1>2, <2>1, <2>2, ReconciliationSteps, NextReportInv
<1>4. Inv => ReportIsClean
  BY DEF ReportInv, SolventInv, Balanced, ReportIsClean
<1> HIDE DEF Inv
<1> QED BY <1>1, <1>3, <1>4, PTL DEF ReconciliationSpec

=============================================================================
