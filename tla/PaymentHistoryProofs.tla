------------------------ MODULE PaymentHistoryProofs ------------------------
(***************************************************************************)
(* Theorems of PaymentEngine about what it leaves behind: the events, the  *)
(* wallet rows and the traces outside.  They rest on the type invariant    *)
(* and on the invariant about the rows that calls in flight hold           *)
(* (SnapInv), both of PaymentEngineProofs.                                 *)
(***************************************************************************)
EXTENDS PaymentEngineProofs, FiniteSetsExt, FiniteSetTheorems, WellFoundedInduction

(***************************************************************************)
(* What the transactions have in common.                                   *)
(***************************************************************************)
\* One edge of the graph, or, for a funded payment, the two of a refund: no
\* transaction leaves a payment in Refunding.
Moved(c, to, log) ==
  LET from == call[c].snap.status
  IN  \/ CanTransition(from, to) /\ log = Append(events[call[c].on], Change(from, to))
      \/ /\ CanTransition(from, "Refunding") /\ to = "Refunded"
         /\ log = Append(Append(events[call[c].on], Change(from, "Refunding")),
                         Change("Refunding", "Refunded"))

Writes(c) ==
  /\ InFlight(c)
  /\ UNCHANGED ext
  /\ stale' = [stale EXCEPT ![call[c].on] =
                 @ \/ pay[call[c].on].status # call[c].snap.status]
  /\ \E book : ledger' = [ledger EXCEPT ![call[c].on] = book]
  /\ \E txs : wallet' = [wallet EXCEPT ![call[c].on] = txs]
  /\ \E row, log : /\ pay' = [pay EXCEPT ![call[c].on] = row]
                   /\ events' = [events EXCEPT ![call[c].on] = log]
                   /\ row.status \in PAYMENT_STATUSES /\ row.status # "Refunding"
                   /\ Moved(c, row.status, log)

LEMMA TransitionWrites ==
  ASSUME TypeInv, NEW c \in Calls, NEW to \in PAYMENT_STATUSES \ {"Refunding"},
         NEW row \in PayRow, NEW result, Transition(c, to, row, result), InFlight(c),
         UNCHANGED ext,
         \E book : ledger' = [ledger EXCEPT ![call[c].on] = book],
         \E txs : wallet' = [wallet EXCEPT ![call[c].on] = txs]
  PROVE  Writes(c)
<1>1. [row EXCEPT !.status = to].status = to
  BY DEF PayRow
<1>2. PICK new : new = [row EXCEPT !.status = to]
  OBVIOUS
<1>3. PICK log : log = Append(events[call[c].on], Change(call[c].snap.status, to))
  OBVIOUS
<1>4. Moved(c, new.status, log)
  BY <1>1, <1>2, <1>3 DEF Moved, Transition
<1>5. /\ pay' = [pay EXCEPT ![call[c].on] = new]
      /\ events' = [events EXCEPT ![call[c].on] = log]
      /\ stale' = [stale EXCEPT ![call[c].on] =
                     @ \/ pay[call[c].on].status # call[c].snap.status]
  BY <1>2, <1>3 DEF Transition
<1> QED BY <1>1, <1>2, <1>4, <1>5 DEF Writes

LEMMA CommitWrites ==
  ASSUME TypeInv, NEW c \in Calls, Commit(c)
  PROVE  Writes(c)
<1> DEFINE p == call[c].on
<1>1. /\ p \in Payments /\ pay[p] \in PayRow /\ call[c].snap.status \in PAYMENT_STATUSES
      /\ call[c].got \in Nat /\ pay \in [Payments -> PayRow]
      /\ ledger = [ledger EXCEPT ![p] = ledger[p]]
      /\ wallet = [wallet EXCEPT ![p] = wallet[p]]
  BY DEF TypeInv, TypeOK, CallState, PayRow
<1>2. InFlight(c) /\ UNCHANGED ext
  BY DEF Commit, DoInitiateFunding, CommitFunding, DoOnRamp, DoBridgeSend,
         DoBridgeConfirm, DoCreatePayout, DoConfirmPayout, FailUnfunded,
         CompensateFunded, Committing, InFlight
<1>3. /\ \E book : ledger' = [ledger EXCEPT ![p] = book]
      /\ \E txs : wallet' = [wallet EXCEPT ![p] = txs]
  <2>1. \E book : ledger' = [ledger EXCEPT ![p] = book]
    BY <1>1 DEF Commit, DoInitiateFunding, CommitFunding, DoOnRamp, DoBridgeSend,
       DoBridgeConfirm, DoCreatePayout, DoConfirmPayout, FailUnfunded, CompensateFunded, Post
  <2>2. DoBridgeSend(c) => \E txs : wallet' = [wallet EXCEPT ![p] = txs]
    <3>1. ASSUME DoBridgeSend(c)
          PROVE  wallet' = [wallet EXCEPT ![p] = [wallet[p] EXCEPT ![call[c].got] = "pending"]]
      BY <1>1, <3>1 DEF DoBridgeSend
    <3> QED BY <3>1
  <2>3. DoBridgeConfirm(c) => \E txs : wallet' = [wallet EXCEPT ![p] = txs]
    BY DEF DoBridgeConfirm
  <2>4. DoBridgeSend(c) \/ DoBridgeConfirm(c) \/ UNCHANGED wallet
    BY DEF Commit, DoInitiateFunding, CommitFunding, DoOnRamp,
       DoCreatePayout, DoConfirmPayout, FailUnfunded, CompensateFunded
  <2> QED BY <1>1, <2>1, <2>2, <2>3, <2>4
<1>s. {"AwaitingFunding", "Funded", "OnRamped", "Bridging", "Bridged", "PayingOut",
       "Settled", "Failed", "Refunded"} \subseteq PAYMENT_STATUSES \ {"Refunding"}
  BY DEF PAYMENT_STATUSES
<1>4. CASE CompensateFunded(c)
  <2>1. PICK row : row = [pay[p] EXCEPT !.status = "Refunded"]
    OBVIOUS
  <2>2. PICK log : log = Append(Append(events[p], Change(call[c].snap.status, "Refunding")),
                                Change("Refunding", "Refunded"))
    OBVIOUS
  <2>3. row.status = "Refunded"
    BY <1>1, <2>1 DEF PayRow
  <2>4. Moved(c, row.status, log)
    BY <1>4, <2>2, <2>3 DEF Moved, CompensateFunded
  <2>5. /\ pay' = [pay EXCEPT ![p] = row] /\ events' = [events EXCEPT ![p] = log]
        /\ stale' = [stale EXCEPT ![p] = @ \/ pay[p].status # call[c].snap.status]
    BY <1>1, <1>4, <2>1, <2>2 DEF CompensateFunded
  <2> QED BY <1>2, <1>3, <1>s, <2>3, <2>4, <2>5 DEF Writes
<1>5. CASE \E to \in PAYMENT_STATUSES \ {"Refunding"}, row \in PayRow : \E result :
             Transition(c, to, row, result)
  BY <1>2, <1>3, <1>5, TransitionWrites
<1>6. /\ DoInitiateFunding(c) => [pay[p] EXCEPT !.mpesaCheckoutId = call[c].got] \in PayRow
      /\ DoOnRamp(c) => [pay[p] EXCEPT !.usdcMinor = call[c].got] \in PayRow
      /\ DoBridgeSend(c) => [pay[p] EXCEPT !.walletTxHash = call[c].got] \in PayRow
      /\ DoCreatePayout(c) => [pay[p] EXCEPT !.payoutId = call[c].got] \in PayRow
  BY <1>1 DEF DoInitiateFunding, DoOnRamp, DoBridgeSend, DoCreatePayout, Committing, TypeInv,
              AnswersOK, PayRow
<1>7. ASSUME ~CompensateFunded(c)
      PROVE  \E to \in PAYMENT_STATUSES \ {"Refunding"}, row \in PayRow : \E result :
               Transition(c, to, row, result)
  BY <1>1, <1>6, <1>7, <1>s DEF Commit, DoInitiateFunding, CommitFunding, DoOnRamp,
     DoBridgeSend, DoBridgeConfirm, DoCreatePayout, DoConfirmPayout, FailUnfunded
<1> QED BY <1>4, <1>5, <1>7

\* Every other step leaves the rows alone.
LEMMA RowsStep ==
  ASSUME [Next]_vars
  PROVE  UNCHANGED rows \/ \E c \in Calls : Commit(c)
<1>1. CASE ~\E c \in Calls : Commit(c)
  BY <1>1, ZenonT(30) DEF Next, vars, rows, Step, ApplyFunding, RefundRequest, Work,
     CallAdapter, Request, InitiateStkPush, ConvertKesToUsdc, Send, CreatePayout, Poll,
     ConfirmTransfer, ConfirmPayout, AdapterThrows, TransactionFails, Return, Crash
<1> QED BY <1>1

(***************************************************************************)
(* A payment that is over.                                                 *)
(***************************************************************************)
LEMMA TerminalStep ==
  ASSUME TypeInv, [Next]_vars, NEW p \in Payments, pay[p].status \in TERMINAL_STATUSES,
         ~stale'[p]
  PROVE  UNCHANGED <<pay[p], ledger[p], wallet[p], events[p]>>
<1>t. /\ pay \in [Payments -> PayRow] /\ ledger \in [Payments -> Book]
      /\ DOMAIN wallet = Payments /\ DOMAIN events = Payments
      /\ stale \in [Payments -> BOOLEAN] /\ DOMAIN pay = Payments /\ DOMAIN ledger = Payments
  BY DEF TypeInv, TypeOK
<1>1. CASE UNCHANGED rows
  BY <1>1 DEF rows
<1>2. ASSUME NEW c \in Calls, Writes(c)
      PROVE  UNCHANGED <<pay[p], ledger[p], wallet[p], events[p]>>
  <2>1. PICK row, log, book, txs :
          /\ pay' = [pay EXCEPT ![call[c].on] = row]
          /\ events' = [events EXCEPT ![call[c].on] = log]
          /\ ledger' = [ledger EXCEPT ![call[c].on] = book]
          /\ wallet' = [wallet EXCEPT ![call[c].on] = txs]
          /\ Moved(c, row.status, log)
    BY <1>2 DEF Writes
  <2>2. CASE call[c].on # p
    BY <1>t, <2>1, <2>2
  <2>3. CASE call[c].on = p
    <3>1. call[c].snap.status = pay[p].status
      BY <1>2, <1>t, <2>3 DEF Writes
    <3>2. TRANSITIONS[pay[p].status] = {}
      BY DEF TERMINAL_STATUSES, TRANSITIONS
    <3> QED BY <2>1, <3>1, <3>2 DEF Moved, CanTransition
  <2> QED BY <2>2, <2>3
<1> QED BY <1>1, <1>2, RowsStep, CommitWrites

\* A payment that is settled, failed or refunded keeps its row, books, wallet
\* rows and events, unless a transaction overwrites a status it had not read:
\* no call that starts after the end ever commits.
THEOREM TerminalStays == Spec => TerminalIsFinal
<1>1. TypeInv /\ [Next]_vars =>
        [\A p \in Payments :
           (pay[p].status \in TERMINAL_STATUSES /\ ~stale'[p])
             => UNCHANGED <<pay[p], ledger[p], wallet[p], events[p]>>]_vars
  BY TerminalStep
<1> QED BY <1>1, InitTypeInv, NextTypeInv, PTL DEF Spec, TerminalIsFinal

(***************************************************************************)
(* The audit trail.  A transaction appends edges that start at the status  *)
(* it read, and that status is the end of the log while nothing is stale.  *)
(***************************************************************************)
End(log) == IF log = << >> THEN "Quoted" ELSE log[Len(log)].to

Path(log) ==
  \A i \in 1..Len(log) :
    /\ log[i].from = (IF i = 1 THEN "Quoted" ELSE log[i - 1].to)
    /\ CanTransition(log[i].from, log[i].to)

TrailInv ==
  \A p \in Payments : ~stale[p] => Path(events[p]) /\ End(events[p]) = pay[p].status

LEMMA TrailIsAudit == TrailInv => AuditTrail
  BY DEF TrailInv, AuditTrail, Path, End

\* An edge from the end of a path makes a longer path.
LEMMA PathGrows ==
  ASSUME NEW log \in Seq(EventRow), NEW from \in PAYMENT_STATUSES, NEW to \in PAYMENT_STATUSES,
         Path(log), End(log) = from, CanTransition(from, to)
  PROVE  /\ Path(Append(log, Change(from, to))) /\ End(Append(log, Change(from, to))) = to
         /\ Append(log, Change(from, to)) \in Seq(EventRow)
<1>1. PICK e : e = Change(from, to)
  OBVIOUS
<1>2. e \in EventRow /\ e.from = from /\ e.to = to
  BY <1>1 DEF Change, EventRow
<1>a. Append(log, e) \in Seq(EventRow)
  BY <1>2
<1>3. PICK longer \in Seq(EventRow) : longer = Append(log, e)
  BY <1>a, Zenon
<1>4. /\ Len(log) \in Nat /\ Len(longer) = Len(log) + 1
      /\ longer[Len(log) + 1] = e
      /\ \A i \in 1..Len(log) : longer[i] = log[i]
  BY <1>2, <1>3
<1>5. End(longer) = to
  BY <1>2, <1>4 DEF End
<1>6. from = (IF Len(log) + 1 = 1 THEN "Quoted" ELSE log[Len(log)].to)
  <2>1. log = << >> <=> Len(log) = 0
    OBVIOUS
  <2> QED BY <1>4, <2>1 DEF End
<1>7. ASSUME NEW i \in 1..Len(longer)
      PROVE  /\ longer[i].from = (IF i = 1 THEN "Quoted" ELSE longer[i - 1].to)
             /\ CanTransition(longer[i].from, longer[i].to)
  <2>1. CASE i \in 1..Len(log)
    <3>1. longer[i] = log[i] /\ (i # 1 => longer[i - 1] = log[i - 1])
      BY <1>4, <2>1
    <3> QED BY <2>1, <3>1 DEF Path
  <2>2. CASE i = Len(log) + 1
    <3>1. longer[i] = e /\ (i # 1 => longer[i - 1] = log[Len(log)])
      BY <1>4, <2>2
    <3> QED BY <1>2, <1>6, <2>2, <3>1
  <2> QED BY <1>4, <2>1, <2>2
<1>8. Path(longer)
  BY <1>7 DEF Path
<1> QED BY <1>1, <1>3, <1>5, <1>8

LEMMA NextTrailInv == TypeInv /\ TrailInv /\ [Next]_vars => TrailInv'
<1> SUFFICES ASSUME TypeInv, TrailInv, [Next]_vars, NEW p \in Payments, ~stale'[p]
             PROVE  Path(events'[p]) /\ End(events'[p]) = pay'[p].status
  BY DEF TrailInv, Path, End
<1>t. /\ pay \in [Payments -> PayRow] /\ events \in [Payments -> Seq(EventRow)]
      /\ stale \in [Payments -> BOOLEAN] /\ pay[p].status \in PAYMENT_STATUSES
  BY DEF TypeInv, TypeOK, PayRow
<1>1. CASE UNCHANGED rows
  BY <1>1 DEF rows, TrailInv
<1>2. ASSUME NEW c \in Calls, Writes(c)
      PROVE  Path(events'[p]) /\ End(events'[p]) = pay'[p].status
  <2>1. PICK row, log :
          /\ pay' = [pay EXCEPT ![call[c].on] = row]
          /\ events' = [events EXCEPT ![call[c].on] = log]
          /\ row.status \in PAYMENT_STATUSES /\ Moved(c, row.status, log)
    BY <1>2 DEF Writes
  <2>2. CASE call[c].on # p
    <3>1. pay'[p] = pay[p] /\ events'[p] = events[p] /\ ~stale[p]
      BY <1>2, <1>t, <2>1, <2>2 DEF Writes
    <3> QED BY <3>1 DEF TrailInv
  <2>3. CASE call[c].on = p
    <3>1. ~stale[p] /\ call[c].snap.status = pay[p].status
      BY <1>2, <1>t, <2>3 DEF Writes
    <3>2. pay'[p] = row /\ events'[p] = log
      BY <1>t, <2>1, <2>3
    <3>3. /\ Path(events[p]) /\ End(events[p]) = pay[p].status
          /\ events[p] \in Seq(EventRow)
      BY <1>t, <3>1 DEF TrailInv
    <3>4. CASE /\ CanTransition(pay[p].status, row.status)
               /\ log = Append(events[p], Change(pay[p].status, row.status))
      BY <1>t, <2>1, <3>2, <3>3, <3>4, PathGrows
    <3>5. CASE /\ CanTransition(pay[p].status, "Refunding") /\ row.status = "Refunded"
               /\ log = Append(Append(events[p], Change(pay[p].status, "Refunding")),
                               Change("Refunding", "Refunded"))
      <4>1. "Refunding" \in PAYMENT_STATUSES /\ "Refunded" \in PAYMENT_STATUSES
            /\ CanTransition("Refunding", "Refunded")
        BY DEF PAYMENT_STATUSES, CanTransition, TRANSITIONS
      <4>2. PICK half : half = Append(events[p], Change(pay[p].status, "Refunding"))
        OBVIOUS
      <4>3. Path(half) /\ End(half) = "Refunding" /\ half \in Seq(EventRow)
        BY <1>t, <3>3, <3>5, <4>1, <4>2, PathGrows
      <4>4. /\ Path(Append(half, Change("Refunding", "Refunded")))
            /\ End(Append(half, Change("Refunding", "Refunded"))) = "Refunded"
        BY <4>1, <4>3, PathGrows
      <4>5. events'[p] = Append(half, Change("Refunding", "Refunded"))
            /\ pay'[p].status = "Refunded"
        BY <3>2, <3>5, <4>2
      <4> QED BY <4>4, <4>5
    <3> QED BY <2>1, <2>3, <3>1, <3>4, <3>5 DEF Moved
  <2> QED BY <2>2, <2>3
<1> QED BY <1>1, <1>2, RowsStep, CommitWrites

\* The events of a payment are a path of the status graph from Quoted to its
\* status, unless a transaction overwrote a status it had not read: no event is
\* lost, doubled or out of order.
THEOREM TrailHolds == Spec => []AuditTrail
<1>1. Init => TrailInv
  BY DEF Init, TrailInv, Path, End, NewPayment
<1> QED BY <1>1, InitTypeInv, NextTypeInv, NextTrailInv, TrailIsAudit, PTL DEF Spec

(***************************************************************************)
(* Money outside.  Races may overwrite a status, but never an event: the   *)
(* status a call has read has been recorded before it asks a partner.      *)
(***************************************************************************)
Later == PAYMENT_STATUSES \ {"Quoted"}

StatusRecorded ==
  \A p \in Payments, s \in Later : pay[p].status = s => Happened(p, s)

ReadRecorded ==
  \A c \in Calls, p \in Payments, s \in Later :
    InFlight(c) /\ call[c].on = p /\ call[c].snap.status = s => Happened(p, s)

MoneyInv == StatusRecorded /\ ReadRecorded /\ OutsideMoneyFollowsRecord

LEMMA AppendKeeps ==
  ASSUME NEW log \in Seq(EventRow), NEW e \in EventRow
  PROVE  /\ Append(log, e) \in Seq(EventRow)
         /\ \A i \in 1..Len(log) :
              i \in 1..Len(Append(log, e)) /\ Append(log, e)[i] = log[i]
         /\ Len(Append(log, e)) \in 1..Len(Append(log, e))
         /\ Append(log, e)[Len(Append(log, e))] = e
<1>1. PICK x : x \in EventRow /\ x = e
  OBVIOUS
<1> HIDE DEF EventRow
<1> QED BY <1>1

\* A log that a transaction writes holds the old events and the new status.
LEMMA MovedRecords ==
  ASSUME TypeInv, NEW c \in Calls, NEW to \in PAYMENT_STATUSES, NEW log, Moved(c, to, log)
  PROVE  /\ \E i \in 1..Len(log) : log[i].to = to
         /\ \A i \in 1..Len(events[call[c].on]) :
              i \in 1..Len(log) /\ log[i] = events[call[c].on][i]
<1>1. /\ events[call[c].on] \in Seq(EventRow) /\ call[c].snap.status \in PAYMENT_STATUSES
      /\ "Refunding" \in PAYMENT_STATUSES /\ "Refunded" \in PAYMENT_STATUSES
  BY DEF TypeInv, TypeOK, CallState, PayRow, PAYMENT_STATUSES
<1>2. PICK old \in Seq(EventRow) : old = events[call[c].on]
  BY <1>1
<1>3. PICK from \in PAYMENT_STATUSES : from = call[c].snap.status
  BY <1>1
<1>4. ASSUME NEW a \in PAYMENT_STATUSES, NEW b \in PAYMENT_STATUSES
      PROVE  Change(a, b) \in EventRow /\ Change(a, b).to = b
  BY DEF Change, EventRow
<1>5. CASE log = Append(old, Change(from, to))
  BY <1>2, <1>4, <1>5, AppendKeeps
<1>6. CASE /\ to = "Refunded"
           /\ log = Append(Append(old, Change(from, "Refunding")),
                           Change("Refunding", "Refunded"))
  <2>1. PICK half : half = Append(old, Change(from, "Refunding"))
    OBVIOUS
  <2>2. /\ half \in Seq(EventRow)
        /\ \A i \in 1..Len(old) : i \in 1..Len(half) /\ half[i] = old[i]
    BY <1>1, <1>4, <2>1, AppendKeeps
  <2>3. /\ \A i \in 1..Len(half) : i \in 1..Len(log) /\ log[i] = half[i]
        /\ Len(log) \in 1..Len(log) /\ log[Len(log)] = Change("Refunding", "Refunded")
    BY <1>1, <1>4, <1>6, <2>1, <2>2, AppendKeeps
  <2>4. log[Len(log)].to = to
    BY <1>1, <1>4, <1>6, <2>3
  <2>5. \A i \in 1..Len(old) : i \in 1..Len(log) /\ log[i] = old[i]
    BY <2>2, <2>3
  <2> QED BY <1>2, <2>3, <2>4, <2>5
<1> QED BY <1>2, <1>3, <1>5, <1>6 DEF Moved

LEMMA HappenedStays ==
  ASSUME TypeInv, [Next]_vars, NEW p \in Payments, NEW s, Happened(p, s)
  PROVE  Happened(p, s)'
<1>t. events \in [Payments -> Seq(EventRow)]
  BY DEF TypeInv, TypeOK
<1>0. PICK i \in 1..Len(events[p]) : events[p][i].to = s
  BY DEF Happened
<1>1. CASE UNCHANGED rows
  BY <1>1 DEF rows, Happened
<1>2. ASSUME NEW c \in Calls, Writes(c) PROVE Happened(p, s)'
  <2>1. PICK row, log : /\ events' = [events EXCEPT ![call[c].on] = log]
                        /\ row.status \in PAYMENT_STATUSES /\ Moved(c, row.status, log)
    BY <1>2 DEF Writes
  <2>2. \A j \in 1..Len(events[call[c].on]) :
          j \in 1..Len(log) /\ log[j] = events[call[c].on][j]
    BY <2>1, MovedRecords
  <2>3. i \in 1..Len(events'[p]) /\ events'[p][i].to = s
    BY <1>0, <1>t, <2>1, <2>2
  <2> QED BY <2>3 DEF Happened
<1> QED BY <1>1, <1>2, RowsStep, CommitWrites

LEMMA NextStatusRecorded ==
  TypeInv /\ StatusRecorded /\ [Next]_vars => StatusRecorded'
<1> SUFFICES ASSUME TypeInv, StatusRecorded, [Next]_vars, NEW p \in Payments,
                    NEW s \in Later, pay'[p].status = s
             PROVE  Happened(p, s)'
  BY DEF StatusRecorded
<1>t. pay \in [Payments -> PayRow] /\ events \in [Payments -> Seq(EventRow)]
  BY DEF TypeInv, TypeOK
<1>1. CASE pay'[p] = pay[p]
  BY <1>1, HappenedStays DEF StatusRecorded
<1>2. ASSUME NEW c \in Calls, Writes(c), call[c].on = p
      PROVE  Happened(p, s)'
  <2>1. PICK row, log : /\ pay' = [pay EXCEPT ![p] = row]
                        /\ events' = [events EXCEPT ![p] = log]
                        /\ row.status \in PAYMENT_STATUSES /\ Moved(c, row.status, log)
    BY <1>2 DEF Writes
  <2>2. \E i \in 1..Len(log) : log[i].to = row.status
    BY <2>1, MovedRecords
  <2>3. pay'[p] = row /\ events'[p] = log
    BY <1>t, <2>1
  <2> QED BY <2>2, <2>3 DEF Happened
<1>3. UNCHANGED pay \/ \E c \in Calls : Writes(c)
  BY RowsStep, CommitWrites DEF rows
<1>4. ASSUME NEW c \in Calls, Writes(c), call[c].on # p PROVE pay'[p] = pay[p]
  BY <1>4, <1>t DEF Writes
<1> QED BY <1>1, <1>2, <1>3, <1>4

LEMMA NextReadRecorded ==
  TypeInv /\ StatusRecorded /\ ReadRecorded /\ [Next]_vars => ReadRecorded'
<1> SUFFICES ASSUME TypeInv, StatusRecorded, ReadRecorded, [Next]_vars, NEW c \in Calls,
                    NEW p \in Payments, NEW s \in Later,
                    InFlight(c)', call'[c].on = p, call'[c].snap.status = s
             PROVE  Happened(p, s)'
  BY DEF ReadRecorded
<1>1. CASE InFlight(c) /\ call'[c].on = call[c].on /\ call'[c].snap = call[c].snap
  BY <1>1, HappenedStays DEF ReadRecorded
<1>2. CASE call'[c].on \in Payments /\ call'[c].snap = pay[call'[c].on]
  BY <1>2, HappenedStays DEF StatusRecorded
<1> QED BY <1>1, <1>2, CallsStep

\* What a request adds outside, and from which status it is made.
LEMMA ExtStep ==
  ASSUME TypeInv, [Next]_vars
  PROVE  \/ UNCHANGED ext
         \/ \E c \in Calls, e \in Effects :
              /\ InFlight(c) /\ ext' = [ext EXCEPT ![call[c].on][e] = @ + 1]
              /\ call[c].snap.status = CASE e = "stkPush" -> "Quoted"
                                         [] e = "convert" -> "Funded"
                                         [] e = "send" -> "OnRamped"
                                         [] e = "payout" -> "Bridged"
<1>1. ASSUME NEW c \in Calls, CallAdapter(c)
      PROVE  \E e \in Effects :
               /\ InFlight(c) /\ ext' = [ext EXCEPT ![call[c].on][e] = @ + 1]
               /\ call[c].snap.status = CASE e = "stkPush" -> "Quoted"
                                          [] e = "convert" -> "Funded"
                                          [] e = "send" -> "OnRamped"
                                          [] e = "payout" -> "Bridged"
  BY <1>1 DEF CallAdapter, InitiateStkPush, ConvertKesToUsdc, Send, CreatePayout, Request,
              InFlight, Effects
<1>2. CASE ~\E c \in Calls : CallAdapter(c)
  BY <1>2, ZenonT(30) DEF Next, vars, rows, Step, ApplyFunding, RefundRequest, Work, Commit,
     DoInitiateFunding, CommitFunding, DoOnRamp, DoBridgeSend, DoBridgeConfirm,
     DoCreatePayout, DoConfirmPayout, FailUnfunded, CompensateFunded, Committing, Poll,
     ConfirmTransfer, ConfirmPayout, AdapterThrows, TransactionFails, Return, Crash
<1> QED BY <1>1, <1>2

LEMMA NextOutside == TypeInv /\ MoneyInv /\ [Next]_vars => OutsideMoneyFollowsRecord'
<1> SUFFICES ASSUME TypeInv, MoneyInv, [Next]_vars, NEW p \in Payments,
                    NEW e \in Effects, NEW s,
                    <<e, s>> \in {<<"convert", "Funded">>, <<"send", "OnRamped">>,
                                  <<"payout", "Bridged">>},
                    ext'[p][e] > 0
             PROVE  Happened(p, s)'
  BY DEF OutsideMoneyFollowsRecord, Happened, Effects
<1>t. ext \in [Payments -> [Effects -> Ids]]
  BY DEF TypeInv, TypeOK
<1>1. CASE ext'[p][e] = ext[p][e]
  <2>1. Happened(p, s)
    BY <1>1 DEF MoneyInv, OutsideMoneyFollowsRecord
  <2> QED BY <2>1, HappenedStays
<1>2. CASE ext'[p][e] # ext[p][e]
  <2>1. PICK c \in Calls, f \in Effects :
          /\ InFlight(c) /\ ext' = [ext EXCEPT ![call[c].on][f] = @ + 1]
          /\ call[c].snap.status = CASE f = "stkPush" -> "Quoted"
                                     [] f = "convert" -> "Funded"
                                     [] f = "send" -> "OnRamped"
                                     [] f = "payout" -> "Bridged"
    BY <1>2, ExtStep
  <2>2. call[c].on = p /\ f = e
    BY <1>2, <1>t, <2>1
  <2>3. call[c].snap.status = s /\ s \in Later
    BY <2>1, <2>2 DEF Later, PAYMENT_STATUSES
  <2>4. Happened(p, s)
    BY <2>1, <2>2, <2>3 DEF MoneyInv, ReadRecorded
  <2> QED BY <2>4, HappenedStays
<1> QED BY <1>1, <1>2

\* Whatever calls race, and even where they overwrite a status, USDC is bought,
\* sent and paid out only for a payment whose history holds the status that
\* stands for the money spent.
THEOREM MoneyFollows == Spec => []OutsideMoneyFollowsRecord
<1>1. Init => MoneyInv
  BY DEF Init, MoneyInv, StatusRecorded, ReadRecorded, Later, OutsideMoneyFollowsRecord, NewPayment,
         InFlight, Idle, Effects
<1>2. TypeInv /\ MoneyInv /\ [Next]_vars => MoneyInv'
  BY NextStatusRecorded, NextReadRecorded, NextOutside DEF MoneyInv
<1>3. MoneyInv => OutsideMoneyFollowsRecord
  BY DEF MoneyInv
<1> QED BY <1>1, <1>2, <1>3, InitTypeInv, NextTypeInv, PTL DEF Spec

(***************************************************************************)
(* The wallet rows.  A transfer completes the row of the hash it read at   *)
(* load, so SnapInv is needed: while nothing is stale, that is the hash    *)
(* the payment points at.                                                  *)
(***************************************************************************)
\* What an adapter may have answered a call that has read this status.
AnswersAt(s) == IF s = "OnRamped" THEN 1..MaxExternal ELSE UsdcAmounts

AnsweredOK ==
  \A c \in Calls, s \in {"Funded", "OnRamped"} :
    call[c].pc = "commit" /\ call[c].snap.status = s => call[c].got \in AnswersAt(s)

Unsent == {"Quoted", "AwaitingFunding", "Funded", "OnRamped", "Failed"}

WalletOf(row, txs) ==
  LET h == row.walletTxHash
  IN  /\ row.status \in Unsent => h = 0
      /\ row.status = "Bridging" => h # 0 /\ txs[h] = "pending"
      /\ row.status \in {"Bridged", "PayingOut", "Settled"} => h # 0 /\ txs[h] = "complete"
      /\ \A g \in 1..MaxExternal : g # h => txs[g] = "none"

WalletInv == \A p \in Payments : ~stale[p] => WalletOf(pay[p], wallet[p])

LEMMA WalletInvSuffices == WalletInv => WalletFollowsStatus
  BY DEF WalletInv, WalletOf, WalletFollowsStatus

LEMMA NextIdFits == \A m \in Nat : \A n \in 0..m : n < m => n + 1 \in 1..m
  OBVIOUS

LEMMA NextAnsweredOK == TypeInv /\ AnsweredOK /\ [Next]_vars => AnsweredOK'
<1> SUFFICES ASSUME TypeInv, AnsweredOK, [Next]_vars, NEW d \in Calls,
                    NEW s \in {"Funded", "OnRamped"},
                    call'[d].pc = "commit", call'[d].snap.status = s
             PROVE  call'[d].got \in AnswersAt(s)
  BY DEF AnsweredOK
<1>t. /\ call \in [Calls -> CallState] /\ ext \in [Payments -> [Effects -> Ids]]
      /\ \A c \in Calls : call[c].on \in Payments
  BY DEF TypeInv, TypeOK, CallState
<1>1. CASE call'[d] = call[d]
  BY <1>1 DEF AnsweredOK
<1>2. ASSUME NEW c \in Calls, NEW new, call' = [call EXCEPT ![c] = new],
             new.pc # "commit" \/ new.snap.status \notin {"Funded", "OnRamped"}
      PROVE  call'[d] = call[d]
  BY <1>2, <1>t
<1>3. ASSUME NEW c \in Calls, NEW p \in Payments, NEW op, NEW result, Answer(c, p, op, result)
      PROVE  call'[d] = call[d]
  BY <1>2, <1>3 DEF Answer
<1>4. ASSUME NEW c \in Calls, Forget(c)
      PROVE  call'[d] = call[d]
  BY <1>2, <1>4 DEF Forget, Idle
<1>5. ASSUME NEW c \in Calls, call' = [call EXCEPT ![c].pc = "failing"]
      PROVE  call'[d] = call[d]
  BY <1>5, <1>t DEF CallState
<1>6. ASSUME NEW c \in Calls, NEW p \in Payments, Step(c, p) \/ RefundRequest(c, p)
      PROVE  call'[d] = call[d]
  BY <1>2, <1>3, <1>6 DEF Step, RefundRequest, Enter
<1>7. ASSUME NEW c \in Calls, NEW p \in Payments, NEW success \in Outcomes,
             ApplyFunding(c, p, success)
      PROVE  call'[d] = call[d]
  <2>1. pay[p].status = "AwaitingFunding" => pay[p].status \notin {"Funded", "OnRamped"}
    OBVIOUS
  <2> QED BY <1>2, <1>3, <1>7, <2>1 DEF ApplyFunding, Enter
<1>8. ASSUME NEW c \in Calls, CallAdapter(c)
      PROVE  call'[d].got \in AnswersAt(s)
  <2>1. CASE call'[d] = call[d]
    BY <1>1, <2>1
  <2>2. CASE call' = [call EXCEPT ![c].pc = "failing"]
    BY <1>1, <1>5, <2>2
  <2>3. CASE Send(c)
    <3>1. CASE \E got \in NewId(c, "send") :
                 call' = [call EXCEPT ![c].pc = "commit", ![c].got = got]
      <4>1. PICK got \in NewId(c, "send") :
              call' = [call EXCEPT ![c].pc = "commit", ![c].got = got]
        BY <3>1
      <4>2. got = ext[call[c].on]["send"] + 1 /\ ext[call[c].on]["send"] < MaxExternal
        BY <2>3 DEF NewId, Send, Request
      <4>3. ext[call[c].on]["send"] \in 0..MaxExternal
        BY <1>t DEF Effects, Ids
      <4>4. got \in 1..MaxExternal
        <5>1. PICK n \in 0..MaxExternal : n = ext[call[c].on]["send"]
          BY <4>3
        <5>2. got = n + 1 /\ n < MaxExternal
          BY <4>2, <5>1
        <5>3. n + 1 \in 1..MaxExternal
          BY <5>2, NextIdFits, BoundAssumption
        <5> QED BY <5>2, <5>3
      <4>5. call'[d] = call[d] \/ call'[d].got = got
        BY <1>t, <4>1 DEF CallState
      <4>6. call'[d] = call[d] \/ s = "OnRamped"
        BY <1>t, <2>3, <4>1 DEF CallState, Send, Request
      <4> QED BY <2>1, <4>4, <4>5, <4>6 DEF AnswersAt
    <3> QED BY <2>2, <2>3, <3>1 DEF Send, Request
  <2>4. CASE ConvertKesToUsdc(c)
    <3>1. CASE \E got \in UsdcAmounts :
                 call' = [call EXCEPT ![c].pc = "commit", ![c].got = got]
      <4>1. call'[d] = call[d] \/ (call'[d].got \in UsdcAmounts /\ s = "Funded")
        BY <1>t, <2>4, <3>1 DEF CallState, ConvertKesToUsdc, Request
      <4> QED BY <2>1, <4>1 DEF AnswersAt
    <3> QED BY <2>2, <2>4, <3>1 DEF ConvertKesToUsdc, Request
  <2>5. CASE InitiateStkPush(c) \/ CreatePayout(c)
    <3>1. call[c].snap.status \notin {"Funded", "OnRamped"}
      BY <2>5 DEF InitiateStkPush, CreatePayout, Request
    <3>2. \/ call' = [call EXCEPT ![c].pc = "failing"]
          \/ \E got : call' = [call EXCEPT ![c].pc = "commit", ![c].got = got]
      BY <2>5 DEF InitiateStkPush, CreatePayout, Request
    <3>3. ASSUME NEW got, call' = [call EXCEPT ![c].pc = "commit", ![c].got = got]
          PROVE  call'[d] = call[d]
      BY <1>t, <3>1, <3>3 DEF CallState
    <3> QED BY <2>1, <2>2, <3>2, <3>3
  <2> QED BY <1>8, <2>3, <2>4, <2>5 DEF CallAdapter
<1>9. ASSUME NEW c \in Calls, Poll(c) \/ AdapterThrows(c) \/ TransactionFails(c)
      PROVE  call'[d] = call[d]
  <2>1. CASE Poll(c) /\ call' = [call EXCEPT ![c].pc = "commit"]
    <3>1. call[c].snap.status \notin {"Funded", "OnRamped"}
      BY <2>1 DEF Poll, ConfirmTransfer, ConfirmPayout
    <3> QED BY <1>t, <2>1, <3>1 DEF CallState
  <2>2. CASE call' = [call EXCEPT ![c].pc = "failing"]
    BY <1>5, <2>2
  <2>3. CASE \E op, result : Answer(c, call[c].on, op, result)
    BY <1>3, <1>t, <2>3
  <2> QED BY <1>9, <2>1, <2>2, <2>3 DEF Poll, ConfirmTransfer, ConfirmPayout, AdapterThrows,
                                        TransactionFails
<1>10. ASSUME NEW c \in Calls, Commit(c)
       PROVE  call'[d] = call[d]
  <2>1. \E op, result : Answer(c, call[c].on, op, result)
    BY <1>10 DEF Commit, DoInitiateFunding, CommitFunding, DoOnRamp, DoBridgeSend,
       DoBridgeConfirm, DoCreatePayout, DoConfirmPayout, FailUnfunded, CompensateFunded,
       Transition
  <2> QED BY <1>3, <1>t, <2>1
<1>11. ASSUME NEW c \in Calls, Return(c) \/ Crash(c)
       PROVE  call'[d] = call[d]
  BY <1>4, <1>11 DEF Return, Crash
<1>12. ASSUME Next PROVE call'[d] = call[d] \/ call'[d].got \in AnswersAt(s)
  <2> PICK c \in Calls :
        \/ \E p \in Payments :
             \/ Step(c, p)
             \/ \E success \in Outcomes : ApplyFunding(c, p, success)
             \/ RefundRequest(c, p)
        \/ Work(c) \/ Return(c) \/ Crash(c)
    BY <1>12 DEF Next
  <2>1. CASE \E p \in Payments : Step(c, p) \/ RefundRequest(c, p)
    BY <2>1, <1>6
  <2>2. CASE \E p \in Payments : \E success \in Outcomes : ApplyFunding(c, p, success)
    BY <2>2, <1>7
  <2>3. CASE Work(c)
    BY <2>3, <1>8, <1>9, <1>10 DEF Work
  <2>4. CASE Return(c) \/ Crash(c)
    BY <2>4, <1>11
  <2> QED BY <2>1, <2>2, <2>3, <2>4
<1>13. UNCHANGED vars => call'[d] = call[d]
  BY DEF vars
<1> QED BY <1>1, <1>12, <1>13

\* The transaction of a call whose row is still current.
LEMMA CommitWallet ==
  ASSUME TypeInv, AnsweredOK, NEW c \in Calls, Commit(c), NEW p \in Payments, call[c].on = p,
         call[c].snap = pay[p], WalletOf(pay[p], wallet[p])
  PROVE  WalletOf(pay'[p], wallet'[p])
<1>1. PICK row \in PayRow : row = pay[p]
  BY DEF TypeInv, TypeOK
<1>2. PICK txs \in [1..MaxExternal -> {"none", "pending", "complete"}] : txs = wallet[p]
  BY DEF TypeInv, TypeOK
<1>3. PICK got \in Nat : got = call[c].got
  BY DEF TypeInv, TypeOK, CallState
<1>4. /\ call[c].snap = row /\ pay \in [Payments -> PayRow] /\ DOMAIN wallet = Payments
      /\ WalletOf(row, txs) /\ row.walletTxHash \in 0..MaxExternal
  BY <1>1, <1>2 DEF TypeInv, TypeOK, PayRow, Ids
\* What transition writes, for a patch that leaves the hash alone.
<1>5. ASSUME NEW to, NEW patched \in PayRow, NEW result,
             Transition(c, to, patched, result)
      PROVE  pay'[p].status = to /\ pay'[p].walletTxHash = patched.walletTxHash
  <2>1. pay'[p] = [patched EXCEPT !.status = to]
    BY <1>4, <1>5 DEF Transition
  <2> QED BY <2>1 DEF PayRow
<1>6. CASE DoInitiateFunding(c)
  <2>1. got \in Ids
    BY <1>3, <1>4, <1>6 DEF DoInitiateFunding, Committing, TypeInv, AnswersOK
  <2>2. PICK patched \in PayRow : patched = [row EXCEPT !.mpesaCheckoutId = got]
    BY <2>1 DEF PayRow
  <2>3. patched.walletTxHash = row.walletTxHash
    BY <2>2 DEF PayRow
  <2>4. /\ row.status = "Quoted" /\ wallet'[p] = txs
        /\ Transition(c, "AwaitingFunding", patched, "waiting")
    BY <1>1, <1>2, <1>3, <1>4, <1>6, <2>2 DEF DoInitiateFunding, Committing
  <2>5. pay'[p].status = "AwaitingFunding" /\ pay'[p].walletTxHash = row.walletTxHash
    BY <1>5, <2>3, <2>4
  <2> QED BY <1>4, <2>4, <2>5 DEF WalletOf, Unsent
<1>7. CASE CommitFunding(c)
  <2>1. /\ row.status = "AwaitingFunding" /\ wallet'[p] = txs
        /\ Transition(c, "Funded", row, "more")
    BY <1>1, <1>2, <1>4, <1>7 DEF CommitFunding, Committing
  <2>2. pay'[p].status = "Funded" /\ pay'[p].walletTxHash = row.walletTxHash
    BY <1>5, <2>1
  <2> QED BY <1>4, <2>1, <2>2 DEF WalletOf, Unsent
<1>8. CASE DoOnRamp(c)
  <2>1. PICK patched \in PayRow : patched = [row EXCEPT !.usdcMinor = got]
    BY DEF PayRow
  <2>2. patched.walletTxHash = row.walletTxHash
    BY <2>1 DEF PayRow
  <2>3. row.status = "Funded" /\ wallet'[p] = txs /\ Transition(c, "OnRamped", patched, "more")
    BY <1>1, <1>2, <1>3, <1>4, <1>8, <2>1 DEF DoOnRamp, Committing
  <2>4. pay'[p].status = "OnRamped" /\ pay'[p].walletTxHash = row.walletTxHash
    BY <1>5, <2>2, <2>3
  <2> QED BY <1>4, <2>3, <2>4 DEF WalletOf, Unsent
<1>9. CASE DoBridgeSend(c)
  <2>1. row.status = "OnRamped" /\ call[c].pc = "commit"
    BY <1>4, <1>9 DEF DoBridgeSend, Committing
  <2>2. got \in 1..MaxExternal
    BY <1>3, <1>4, <2>1 DEF AnsweredOK, AnswersAt
  <2>i. got \in Ids
    BY <2>2 DEF Ids
  <2>3. PICK patched \in PayRow : patched = [row EXCEPT !.walletTxHash = got]
    BY <2>i DEF PayRow
  <2>4. patched.walletTxHash = got
    BY <2>3 DEF PayRow
  <2>5. /\ Transition(c, "Bridging", patched, "more")
        /\ wallet'[p] = [txs EXCEPT ![got] = "pending"]
    BY <1>1, <1>2, <1>3, <1>4, <1>9, <2>3 DEF DoBridgeSend
  <2>6. pay'[p].status = "Bridging" /\ pay'[p].walletTxHash = got
    BY <1>5, <2>4, <2>5
  <2>7. \A g \in 1..MaxExternal : txs[g] = "none"
    BY <1>4, <2>1 DEF WalletOf, Unsent
  <2> QED BY <2>2, <2>5, <2>6, <2>7 DEF WalletOf, Unsent
<1>10. CASE DoBridgeConfirm(c)
  <2>1. row.status = "Bridging" /\ Transition(c, "Bridged", row, "more")
    BY <1>1, <1>4, <1>10 DEF DoBridgeConfirm, Committing
  <2>2. wallet'[p] = [h \in 1..MaxExternal |->
                        IF h = row.walletTxHash /\ txs[h] # "none" THEN "complete" ELSE txs[h]]
    BY <1>2, <1>4, <1>10 DEF DoBridgeConfirm
  <2>3. pay'[p].status = "Bridged" /\ pay'[p].walletTxHash = row.walletTxHash
    BY <1>5, <2>1
  <2>4. row.walletTxHash \in 1..MaxExternal /\ txs[row.walletTxHash] = "pending"
    BY <1>4, <2>1 DEF WalletOf
  <2> QED BY <1>4, <2>2, <2>3, <2>4 DEF WalletOf, Unsent
<1>11. CASE DoCreatePayout(c)
  <2>0. row.status = "Bridged" /\ call[c].pc = "commit"
    BY <1>4, <1>11 DEF DoCreatePayout, Committing
  <2>1. got \in Ids
    BY <1>3, <1>4, <2>0 DEF TypeInv, AnswersOK
  <2>2. PICK patched \in PayRow : patched = [row EXCEPT !.payoutId = got]
    BY <2>1 DEF PayRow
  <2>3. patched.walletTxHash = row.walletTxHash
    BY <2>2 DEF PayRow
  <2>4. wallet'[p] = txs /\ Transition(c, "PayingOut", patched, "more")
    BY <1>1, <1>2, <1>3, <1>4, <1>11, <2>2 DEF DoCreatePayout
  <2>5. pay'[p].status = "PayingOut" /\ pay'[p].walletTxHash = row.walletTxHash
    BY <1>5, <2>3, <2>4
  <2> QED BY <1>4, <2>0, <2>4, <2>5 DEF WalletOf, Unsent
<1>12. CASE DoConfirmPayout(c)
  <2>1. /\ row.status = "PayingOut" /\ wallet'[p] = txs
        /\ Transition(c, "Settled", row, "done")
    BY <1>1, <1>2, <1>4, <1>12 DEF DoConfirmPayout, Committing
  <2>2. pay'[p].status = "Settled" /\ pay'[p].walletTxHash = row.walletTxHash
    BY <1>5, <2>1
  <2> QED BY <1>4, <2>1, <2>2 DEF WalletOf, Unsent
<1>13. CASE FailUnfunded(c)
  <2>1. wallet'[p] = txs /\ Transition(c, "Failed", row, "done")
    BY <1>1, <1>2, <1>4, <1>13 DEF FailUnfunded
  <2>2. pay'[p].status = "Failed" /\ pay'[p].walletTxHash = row.walletTxHash
    BY <1>5, <2>1
  <2>3. row.status \in PAYMENT_STATUSES /\ CanTransition(row.status, "Failed")
    BY <1>4, <2>1 DEF Transition, PayRow
  <2>4. row.status \in Unsent
    BY <2>3 DEF CanTransition, TRANSITIONS, PAYMENT_STATUSES, Unsent
  <2> QED BY <1>4, <2>1, <2>2, <2>4 DEF WalletOf, Unsent
<1>14. CASE CompensateFunded(c)
  <2>1. wallet'[p] = txs /\ pay'[p] = [row EXCEPT !.status = "Refunded"]
    BY <1>1, <1>2, <1>4, <1>14 DEF CompensateFunded
  <2>2. pay'[p].status = "Refunded" /\ pay'[p].walletTxHash = row.walletTxHash
    BY <2>1 DEF PayRow
  <2> QED BY <1>4, <2>1, <2>2 DEF WalletOf, Unsent
<1> QED
  BY <1>6, <1>7, <1>8, <1>9, <1>10, <1>11, <1>12, <1>13, <1>14 DEF Commit

LEMMA NextWalletInv == TypeInv /\ SnapInv /\ AnsweredOK /\ WalletInv /\ [Next]_vars => WalletInv'
<1> SUFFICES ASSUME TypeInv, SnapInv, AnsweredOK, WalletInv, [Next]_vars,
                    NEW p \in Payments, ~stale'[p]
             PROVE  WalletOf(pay'[p], wallet'[p])
  BY DEF WalletInv
<1>t. /\ DOMAIN pay = Payments /\ DOMAIN wallet = Payments
      /\ stale \in [Payments -> BOOLEAN]
  BY DEF TypeInv, TypeOK
<1>1. CASE UNCHANGED rows
  BY <1>1 DEF rows, WalletInv
<1>2. ASSUME NEW c \in Calls, Commit(c) PROVE WalletOf(pay'[p], wallet'[p])
  <2>1. /\ InFlight(c)
        /\ stale' = [stale EXCEPT ![call[c].on] =
                       @ \/ pay[call[c].on].status # call[c].snap.status]
        /\ \E row : pay' = [pay EXCEPT ![call[c].on] = row]
        /\ \E txs : wallet' = [wallet EXCEPT ![call[c].on] = txs]
    BY <1>2, CommitWrites DEF Writes
  <2>2. CASE call[c].on # p
    <3>1. pay'[p] = pay[p] /\ wallet'[p] = wallet[p] /\ ~stale[p]
      BY <1>t, <2>1, <2>2
    <3> QED BY <3>1 DEF WalletInv
  <2>3. CASE call[c].on = p
    <3>1. ~stale[p] /\ call[c].snap.status = pay[p].status
      BY <1>t, <2>1, <2>3
    <3>2. call[c].snap = pay[p]
      BY <2>1, <2>3, <3>1 DEF SnapInv
    <3>3. WalletOf(pay[p], wallet[p])
      BY <3>1 DEF WalletInv
    <3> QED BY <1>2, <2>3, <3>2, <3>3, CommitWallet
  <2> QED BY <2>2, <2>3
<1> QED BY <1>1, <1>2, RowsStep

\* Until a status is overwritten, a payment has one wallet row at most, the one
\* it points at, pending while it bridges and complete from Bridged on.
THEOREM WalletFollows == Spec => []WalletFollowsStatus
<1>1. Init => AnsweredOK /\ WalletInv
  BY DEF Init, AnsweredOK, Idle, WalletInv, WalletOf, NewPayment
<1> QED BY <1>1, InitTypeInv, NextTypeInv, InitLedgerInv, NextSnapInv, NextAnsweredOK,
           NextWalletInv, WalletInvSuffices, PTL DEF Spec

(***************************************************************************)
(* Sums over a finite set, MapThenSumSet of the library, on which the      *)
(* reports and the balances of the treasury rest.  The library's operator  *)
(* is defined by recursion over the subsets of the set, so its facts are   *)
(* proved by induction over them.                                          *)
(***************************************************************************)
Below == {ss \in Nat \X Nat : ss[1] < ss[2]}

LEMMA LeastNat ==
  ASSUME NEW T, T \subseteq Nat, T # {}
  PROVE  \E n \in T : \A m \in T : n <= m
<1>1. IsWellFoundedOn(Below, Nat)
  BY NatLessThanWellFounded DEF OpToRel, Below
<1>2. PICK n \in T : \A m \in T : ~(<<m, n>> \in Below)
  BY <1>1, WFMin
<1>3. \A m \in T : ~(m < n)
  BY <1>2 DEF Below
<1>4. \A m \in T : m \in Int
  OBVIOUS
<1> QED BY <1>3, <1>4

\* Induction over the naturals, for a set that is closed under adding one.
LEMMA SetInduction ==
  ASSUME NEW S, 0 \in S, \A n \in Nat : n \in S => n + 1 \in S
  PROVE  \A n \in Nat : n \in S
<1>1. SUFFICES ASSUME Nat \ S # {} PROVE FALSE
  OBVIOUS
<1>2. PICK n \in Nat \ S : \A m \in Nat \ S : n <= m
  <2> DEFINE T == Nat \ S
  <2>1. T \subseteq Nat /\ T # {}
    BY <1>1
  <2> HIDE DEF T
  <2>2. \E x \in T : \A m \in T : x <= m
    BY <2>1, LeastNat
  <2> QED BY <2>2 DEF T
<1>3. n - 1 \in Nat /\ n - 1 \notin Nat \ S
  BY <1>2
<1> QED BY <1>2, <1>3

\* Induction over the subsets of a finite set, for a set of them that has each subset
\* if it has all that are smaller by an element.
LEMMA SubsetInduction ==
  ASSUME NEW S, IsFiniteSet(S), NEW P,
         \A s \in SUBSET S : (\A x \in s : s \ {x} \in P) => s \in P
  PROVE  \A s \in SUBSET S : s \in P
<1>1. SUFFICES ASSUME NEW other \in SUBSET S, other \notin P PROVE FALSE
  OBVIOUS
<1>2. \A s \in SUBSET S : IsFiniteSet(s) /\ Cardinality(s) \in Nat
  BY FS_Subset, FS_CardinalityType
<1> DEFINE Sizes == {Cardinality(s) : s \in (SUBSET S) \ P}
<1>3. Sizes \subseteq Nat /\ Sizes # {}
  BY <1>1, <1>2
<1>4. PICK n \in Sizes : \A m \in Sizes : n <= m
  <2> HIDE DEF Sizes
  <2> QED BY <1>3, LeastNat
<1>5. PICK s \in (SUBSET S) \ P : n = Cardinality(s)
  BY <1>4
<1>6. \A x \in s : s \ {x} \in SUBSET S /\ Cardinality(s \ {x}) = n - 1
  BY <1>2, <1>5, FS_RemoveElement
<1>7. n \in Nat
  BY <1>3
<1>8. \A x \in s : s \ {x} \in P
  BY <1>4, <1>6, <1>7
<1> QED BY <1>5, <1>8

\* The element that the library takes first.
Any(s) == CHOOSE x \in s : TRUE

\* g sums f over every subset of S.
Tallies(g, f, S) ==
  g = [s \in SUBSET S |-> IF s = {} THEN 0 ELSE f[Any(s)] + g[s \ {Any(s)}]]

SumOver(f, S) == MapThenSumSet(LAMBDA x : f[x], S)

LEMMA AnyOfSet ==
  ASSUME NEW S, IsFiniteSet(S), S # {}
  PROVE  /\ Any(S) \in S
         /\ IsFiniteSet(S \ {Any(S)})
         /\ Cardinality(S \ {Any(S)}) = Cardinality(S) - 1
<1>1. Any(S) \in S
  BY DEF Any
<1> QED BY <1>1, FS_RemoveElement

\* There is a function that sums f over every subset of S.
LEMMA TalliesExist ==
  ASSUME NEW S, IsFiniteSet(S), NEW f \in [S -> Int]
  PROVE  \E g \in [SUBSET S -> Int] : Tallies(g, f, S)
<1> DEFINE Small(n) == {s \in SUBSET S : Cardinality(s) <= n}
           Sum(g, s) == IF s = {} THEN 0 ELSE f[Any(s)] + g[s \ {Any(s)}]
           Reach == {n \in Nat : \E g \in [Small(n) -> Int] : \A s \in Small(n) : g[s] = Sum(g, s)}
<1>1. \A s \in SUBSET S : IsFiniteSet(s) /\ Cardinality(s) \in Nat
  BY FS_Subset, FS_CardinalityType
<1>2. \A s \in SUBSET S : s # {} => /\ f[Any(s)] \in Int /\ s \ {Any(s)} \in SUBSET S
                                    /\ Cardinality(s \ {Any(s)}) = Cardinality(s) - 1
  BY <1>1, AnyOfSet
<1>3. 0 \in Reach
  <2> DEFINE g == [s \in Small(0) |-> 0]
  <2>1. \A s \in Small(0) : s = {}
    BY <1>1, FS_EmptySet
  <2>2. g \in [Small(0) -> Int] /\ \A s \in Small(0) : g[s] = Sum(g, s)
    BY <2>1
  <2> QED BY <2>2
<1>4. ASSUME NEW n \in Nat, n \in Reach PROVE n + 1 \in Reach
  <2>1. PICK g \in [Small(n) -> Int] : \A s \in Small(n) : g[s] = Sum(g, s)
    BY <1>4
  <2> DEFINE h == [s \in Small(n + 1) |-> Sum(g, s)]
  <2>2. \A s \in Small(n + 1) : s # {} => s \ {Any(s)} \in Small(n)
    BY <1>1, <1>2
  <2>3. h \in [Small(n + 1) -> Int]
    BY <1>2, <2>2
  <2>4. \A s \in Small(n) : s \in Small(n + 1) /\ h[s] = g[s]
    BY <1>1, <2>1
  <2>5. \A s \in Small(n + 1) : h[s] = Sum(h, s)
    BY <2>2, <2>4
  <2> HIDE DEF h, Small, Sum
  <2> QED BY <2>3, <2>5
<1>5. \A n \in Nat : n \in Reach
  <2> HIDE DEF Reach
  <2> QED BY <1>3, <1>4, SetInduction
<1>6. Cardinality(S) \in Nat /\ Small(Cardinality(S)) = SUBSET S
  BY <1>1, FS_Subset, FS_CardinalityType
<1>7. PICK g \in [SUBSET S -> Int] : \A s \in SUBSET S : g[s] = Sum(g, s)
  BY <1>5, <1>6
<1> QED BY <1>7 DEF Tallies

LEMMA TalliesUnique ==
  ASSUME NEW S, IsFiniteSet(S), NEW f, NEW g, NEW h, Tallies(g, f, S), Tallies(h, f, S)
  PROVE  g = h
<1> DEFINE P == {s \in SUBSET S : g[s] = h[s]}
<1>1. ASSUME NEW s \in SUBSET S, \A x \in s : s \ {x} \in P PROVE s \in P
  <2>1. /\ g[s] = IF s = {} THEN 0 ELSE f[Any(s)] + g[s \ {Any(s)}]
        /\ h[s] = IF s = {} THEN 0 ELSE f[Any(s)] + h[s \ {Any(s)}]
    BY DEF Tallies
  <2>2. s # {} => Any(s) \in s
    BY DEF Any
  <2> QED BY <1>1, <2>1, <2>2
<1>2. \A s \in SUBSET S : s \in P
  <2> HIDE DEF P
  <2> QED BY <1>1, SubsetInduction
<1>3. g = [s \in SUBSET S |-> g[s]] /\ h = [s \in SUBSET S |-> h[s]]
  BY DEF Tallies
<1> QED BY <1>2, <1>3

\* The sum does not depend on the order in which the elements are taken.
Removes(g, f, S) == \A s \in SUBSET S : \A x \in s : g[s] = f[x] + g[s \ {x}]

LEMMA TalliesRemove ==
  ASSUME NEW S, IsFiniteSet(S), NEW f, f \in [S -> Int],
         NEW g, g \in [SUBSET S -> Int], Tallies(g, f, S)
  PROVE  Removes(g, f, S)
<1> DEFINE P == {s \in SUBSET S : \A y \in s : g[s] = f[y] + g[s \ {y}]}
<1>1. ASSUME NEW s \in SUBSET S, \A y \in s : s \ {y} \in P PROVE s \in P
  <2>1. ASSUME NEW y \in s PROVE g[s] = f[y] + g[s \ {y}]
    <3>1. PICK z \in s : z = Any(s)
      BY DEF Any
    <3>2. g[s] = f[z] + g[s \ {z}]
      BY <3>1 DEF Tallies
    <3>3. CASE y # z
      <4>1. g[s \ {z}] = f[y] + g[(s \ {z}) \ {y}]
        BY <1>1, <3>3
      <4>2. g[s \ {y}] = f[z] + g[(s \ {y}) \ {z}]
        BY <1>1, <3>3
      <4>3. PICK rest \in Int : rest = g[(s \ {y}) \ {z}]
        OBVIOUS
      <4>4. (s \ {z}) \ {y} = (s \ {y}) \ {z}
        OBVIOUS
      <4>5. f[y] \in Int /\ f[z] \in Int
        OBVIOUS
      <4>6. g[s] = f[z] + (f[y] + rest) /\ g[s \ {y}] = f[z] + rest
        BY <3>2, <4>1, <4>2, <4>3, <4>4
      <4> HIDE DEF P
      <4> QED BY <4>5, <4>6
    <3> QED BY <3>2, <3>3
  <2> QED BY <2>1
<1>2. \A s \in SUBSET S : s \in P
  <2> HIDE DEF P
  <2> QED BY <1>1, SubsetInduction
<1> QED BY <1>2 DEF Removes

\* The library's sum is that function's value.
LEMMA SumOverIsSum ==
  ASSUME NEW S, IsFiniteSet(S), NEW f, NEW g, Tallies(g, f, S)
  PROVE  SumOver(f, S) = g[S]
<1> DEFINE It == CHOOSE it : Tallies(it, f, S)
<1>1. Tallies(It, f, S)
  OBVIOUS
<1>2. SumOver(f, S) = It[S]
  BY DEF SumOver, MapThenSumSet, MapThenFoldSet, Tallies, Any
<1> HIDE DEF It
<1> QED BY <1>1, <1>2, TalliesUnique

\* The sums over nothing, over one element more, and over subsets.
LEMMA SumOfSet ==
  ASSUME NEW S, IsFiniteSet(S), NEW f \in [S -> Int], NEW t \in SUBSET S
  PROVE  /\ SumOver(f, t) \in Int
         /\ t = {} => SumOver(f, t) = 0
         /\ \A x \in t : SumOver(f, t) = f[x] + SumOver(f, t \ {x})
<1>1. PICK g \in [SUBSET S -> Int] : Tallies(g, f, S)
  BY TalliesExist
<1>2. ASSUME NEW s \in SUBSET S PROVE SumOver(f, s) = g[s]
  <2> DEFINE h == [r \in SUBSET s |-> g[r]]
  <2>1. \A r \in SUBSET s : r # {} => Any(r) \in r
    BY DEF Any
  <2>2. \A r \in SUBSET s : g[r] = IF r = {} THEN 0 ELSE f[Any(r)] + g[r \ {Any(r)}]
    BY <1>1 DEF Tallies
  <2>3. Tallies(h, f, s)
    BY <2>1, <2>2 DEF Tallies
  <2>4. h[s] = g[s]
    OBVIOUS
  <2>5. IsFiniteSet(s)
    BY FS_Subset
  <2> HIDE DEF h
  <2> QED BY <2>3, <2>4, <2>5, SumOverIsSum
<1>3. t = {} => g[t] = 0
  BY <1>1 DEF Tallies
<1>4. \A s \in SUBSET S : \A x \in s : g[s] = f[x] + g[s \ {x}]
  <2>1. Removes(g, f, S)
    BY <1>1, TalliesRemove
  <2> QED BY <2>1 DEF Removes
<1> QED BY <1>2, <1>3, <1>4

LEMMA SumIsNat ==
  ASSUME NEW S, IsFiniteSet(S), NEW f \in [S -> Nat]
  PROVE  \A t \in SUBSET S : SumOver(f, t) \in Nat
<1> DEFINE P == {t \in SUBSET S : SumOver(f, t) \in Nat}
<1>0. f \in [S -> Int]
  OBVIOUS
<1>1. ASSUME NEW t \in SUBSET S, \A x \in t : t \ {x} \in P PROVE t \in P
  <2>1. CASE t = {}
    BY <1>0, <2>1, SumOfSet
  <2>2. ASSUME NEW x \in t PROVE t \in P
    <3>1. SumOver(f, t) = f[x] + SumOver(f, t \ {x})
      BY <1>0, SumOfSet
    <3> QED BY <1>1, <3>1
  <2> QED BY <2>1, <2>2
<1>2. \A t \in SUBSET S : t \in P
  <2> HIDE DEF P
  <2> QED BY <1>1, SubsetInduction
<1> QED BY <1>2

=============================================================================
