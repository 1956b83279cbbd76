------------------------- MODULE PaymentEngineProofs -------------------------
(***************************************************************************)
(* Theorems of PaymentEngine, for every set of payments and calls, every   *)
(* quote, marker and bound.                                                *)
(***************************************************************************)
EXTENDS PaymentEngine, TLAPS

(***************************************************************************)
(* Type correctness.  It needs to know that the id an adapter returned is  *)
(* one a row can hold.                                                     *)
(***************************************************************************)
AnswersOK ==
  \A c \in Calls :
    call[c].pc = "commit" /\ call[c].snap.status \in {"Quoted", "OnRamped", "Bridged"}
      => call[c].got \in Ids

TypeInv == TypeOK /\ AnswersOK

USE QuoteAssumption, ModeAssumption, BoundAssumption, UsdcAssumption, MarkerAssumption

LEMMA InitTypeInv == Init => TypeInv
  BY DEF Init, TypeInv, TypeOK, AnswersOK, NewPayment, PayRow, PAYMENT_STATUSES, Ids,
         EmptyBook, NoEntries, Book, Idle, CallState, Results, Effects

\* Entering the engine, or answering, keeps the call well-formed.
LEMMA EnterTypeInv ==
  ASSUME TypeInv, NEW c \in Calls, NEW p \in Payments,
         NEW op \in {"step", "applyFunding", "refund"},
         NEW pc \in {"adapter", "commit", "failing"},
         pc = "commit" => pay[p].status = "AwaitingFunding",
         Enter(c, p, op, pc), UNCHANGED <<rows, ext>>
  PROVE  TypeInv'
  BY DEF TypeInv, TypeOK, AnswersOK, Enter, rows, CallState, Results, PayRow, Ids

LEMMA AnswerTypeInv ==
  ASSUME TypeInv, NEW c \in Calls, NEW p \in Payments,
         NEW op \in {"step", "applyFunding", "refund"}, NEW result \in Results,
         Answer(c, p, op, result)
  PROVE  call' \in [Calls -> CallState] /\ AnswersOK'
  BY SMTT(30) DEF TypeInv, TypeOK, AnswersOK, Answer, CallState, NewPayment, PayRow,
         PAYMENT_STATUSES, Ids

LEMMA TransitionTypeInv ==
  ASSUME TypeInv, NEW c \in Calls, NEW to \in PAYMENT_STATUSES, NEW row \in PayRow,
         NEW result \in Results, Transition(c, to, row, result), UNCHANGED ext
  PROVE  /\ pay' \in [Payments -> PayRow]
         /\ events' \in [Payments -> Seq(EventRow)]
         /\ stale' \in [Payments -> BOOLEAN]
         /\ call' \in [Calls -> CallState]
         /\ AnswersOK'
<1>1. /\ call[c].on \in Payments
      /\ call[c].op \in {"step", "applyFunding", "refund"}
      /\ call[c].snap.status \in PAYMENT_STATUSES
  BY DEF TypeInv, TypeOK, CallState, PayRow
<1>2. call' \in [Calls -> CallState] /\ AnswersOK'
  BY <1>1, AnswerTypeInv DEF Transition
<1>r. [row EXCEPT !.status = to] \in PayRow
  BY DEF PayRow
<1>3. pay' \in [Payments -> PayRow]
  BY <1>1, <1>r DEF Transition, TypeInv, TypeOK
<1> DEFINE e == Change(call[c].snap.status, to)
           log == events[call[c].on]
<1>4. e \in EventRow
  BY <1>1 DEF Change, EventRow
<1>e. events' = [events EXCEPT ![call[c].on] = Append(log, e)]
  BY DEF Transition
<1>l. log \in Seq(EventRow) /\ events \in [Payments -> Seq(EventRow)]
  BY <1>1 DEF TypeInv, TypeOK
<1> HIDE DEF e, log
<1>a. Append(log, e) \in Seq(EventRow)
  BY <1>4, <1>l
<1>5. events' \in [Payments -> Seq(EventRow)]
  BY <1>a, <1>e, <1>l
<1>6. stale' \in [Payments -> BOOLEAN]
  BY <1>1 DEF Transition, TypeInv, TypeOK
<1> QED BY <1>2, <1>3, <1>5, <1>6

LEMMA PostPairIsBook ==
  ASSUME NEW book \in Book, NEW debit, NEW credit, NEW amount \in Int
  PROVE  PostPair(book, debit, credit, amount) \in Book
  BY DEF Book, PostPair

LEMMA ReverseAllIsBook ==
  ASSUME NEW book \in Book
  PROVE  ReverseAll(book) \in Book
  BY DEF Book, ReverseAll

\* One transaction each: the row written is well-formed, and so are the book and
\* the wallet rows.
LEMMA CommitTypeInv ==
  ASSUME TypeInv, NEW c \in Calls, Commit(c)
  PROVE  TypeInv'
<1> DEFINE p == call[c].on
<1>1. /\ p \in Payments /\ call[c].snap \in PayRow /\ call[c].got \in Nat
      /\ pay[p] \in PayRow /\ ledger[p] \in Book
      /\ Quote[p].allInMinorKes \in Int /\ Quote[p].sendMinorKes \in Int
      /\ Quote[p].receiveMinorCny \in Int /\ call[c].snap.usdcMinor \in Int
  BY DEF TypeInv, TypeOK, CallState, PayRow
<1>2. CASE DoInitiateFunding(c)
  <2> DEFINE row == [pay[p] EXCEPT !.mpesaCheckoutId = call[c].got]
  <2>1. call[c].got \in Ids
    BY <1>2 DEF DoInitiateFunding, Committing, TypeInv, AnswersOK
  <2>2. row \in PayRow
    BY <1>1, <2>1 DEF PayRow
  <2>3. Transition(c, "AwaitingFunding", row, "waiting") /\ UNCHANGED <<ext, ledger, wallet>>
    BY <1>2 DEF DoInitiateFunding, Committing
  <2> HIDE DEF row
  <2> QED BY <2>2, <2>3, TransitionTypeInv DEF TypeInv, TypeOK, PAYMENT_STATUSES, Results
<1>3. CASE CommitFunding(c)
  <2>1. Transition(c, "Funded", pay[p], "more") /\ UNCHANGED <<ext, wallet>>
    BY <1>3 DEF CommitFunding, Committing
  <2>2. ledger' \in [Payments -> Book]
    BY <1>1, <1>3, PostPairIsBook DEF CommitFunding, Post, TypeInv, TypeOK
  <2> QED BY <1>1, <2>1, <2>2, TransitionTypeInv DEF TypeInv, TypeOK, PAYMENT_STATUSES, Results
<1>4. CASE DoOnRamp(c)
  <2> DEFINE row == [pay[p] EXCEPT !.usdcMinor = call[c].got]
             one == PostPair(ledger[p], "onramp_external_kes", "mpesa_collected",
                             Quote[p].sendMinorKes)
             two == PostPair(one, "treasury_usdc", "onramp_external_usdc", call[c].got)
  <2>1. row \in PayRow
    BY <1>1 DEF PayRow
  <2>2. Transition(c, "OnRamped", row, "more") /\ UNCHANGED <<ext, wallet>>
    BY <1>4 DEF DoOnRamp, Committing
  <2>3. one \in Book
    BY <1>1, PostPairIsBook
  <2>4. two \in Book
    <3> HIDE DEF one
    <3> QED BY <1>1, <2>3, PostPairIsBook
  <2>5. ledger' = [ledger EXCEPT ![p] = two]
    BY <1>4 DEF DoOnRamp
  <2> HIDE DEF row, two
  <2>6. ledger' \in [Payments -> Book]
    BY <1>1, <2>4, <2>5 DEF TypeInv, TypeOK
  <2> QED BY <2>1, <2>2, <2>6, TransitionTypeInv DEF TypeInv, TypeOK, PAYMENT_STATUSES, Results
<1>5. CASE DoBridgeSend(c)
  <2> DEFINE row == [pay[p] EXCEPT !.walletTxHash = call[c].got]
  <2>1. call[c].got \in Ids
    BY <1>5 DEF DoBridgeSend, Committing, TypeInv, AnswersOK
  <2>2. row \in PayRow
    BY <1>1, <2>1 DEF PayRow
  <2>3. Transition(c, "Bridging", row, "more") /\ UNCHANGED <<ext, ledger>>
    BY <1>5 DEF DoBridgeSend, Committing
  <2>4. wallet' \in [Payments -> [1..MaxExternal -> {"none", "pending", "complete"}]]
    BY <1>1, <1>5 DEF DoBridgeSend, TypeInv, TypeOK
  <2> HIDE DEF row
  <2> QED BY <2>2, <2>3, <2>4, TransitionTypeInv DEF TypeInv, TypeOK, PAYMENT_STATUSES, Results
<1>6. CASE DoBridgeConfirm(c)
  <2>1. Transition(c, "Bridged", pay[p], "more") /\ UNCHANGED ext
    BY <1>6 DEF DoBridgeConfirm, Committing
  <2>2. ledger' \in [Payments -> Book]
    BY <1>1, <1>6, PostPairIsBook DEF DoBridgeConfirm, Post, TypeInv, TypeOK
  <2>3. wallet' \in [Payments -> [1..MaxExternal -> {"none", "pending", "complete"}]]
    BY <1>1, <1>6 DEF DoBridgeConfirm, TypeInv, TypeOK
  <2> QED BY <1>1, <2>1, <2>2, <2>3, TransitionTypeInv
         DEF TypeInv, TypeOK, PAYMENT_STATUSES, Results
<1>7. CASE DoCreatePayout(c)
  <2> DEFINE row == [pay[p] EXCEPT !.payoutId = call[c].got]
  <2>1. call[c].got \in Ids
    BY <1>7 DEF DoCreatePayout, Committing, TypeInv, AnswersOK
  <2>2. row \in PayRow
    BY <1>1, <2>1 DEF PayRow
  <2>3. Transition(c, "PayingOut", row, "more") /\ UNCHANGED <<ext, wallet>>
    BY <1>7 DEF DoCreatePayout, Committing
  <2>4. ledger' \in [Payments -> Book]
    BY <1>1, <1>7, PostPairIsBook DEF DoCreatePayout, Post, TypeInv, TypeOK
  <2> HIDE DEF row
  <2> QED BY <2>2, <2>3, <2>4, TransitionTypeInv DEF TypeInv, TypeOK, PAYMENT_STATUSES, Results
<1>8. CASE DoConfirmPayout(c)
  <2>1. Transition(c, "Settled", pay[p], "done") /\ UNCHANGED <<ext, wallet>>
    BY <1>8 DEF DoConfirmPayout, Committing
  <2>2. ledger' \in [Payments -> Book]
    BY <1>1, <1>8, PostPairIsBook DEF DoConfirmPayout, Post, TypeInv, TypeOK
  <2> QED BY <1>1, <2>1, <2>2, TransitionTypeInv DEF TypeInv, TypeOK, PAYMENT_STATUSES, Results
<1>9. CASE FailUnfunded(c)
  <2>1. Transition(c, "Failed", pay[p], "done") /\ UNCHANGED <<ext, ledger, wallet>>
    BY <1>9 DEF FailUnfunded
  <2> QED BY <1>1, <2>1, TransitionTypeInv DEF TypeInv, TypeOK, PAYMENT_STATUSES, Results
<1>10. CASE CompensateFunded(c)
  <2> DEFINE first == Change(call[c].snap.status, "Refunding")
             second == Change("Refunding", "Refunded")
             log == events[p]
  <2>1. pay' \in [Payments -> PayRow]
    <3>1. [pay[p] EXCEPT !.status = "Refunded"] \in PayRow
      BY <1>1 DEF PayRow, PAYMENT_STATUSES
    <3>2. pay' = [pay EXCEPT ![p] = [pay[p] EXCEPT !.status = "Refunded"]]
      BY <1>10 DEF CompensateFunded
    <3> QED BY <1>1, <3>1, <3>2 DEF TypeInv, TypeOK
  <2>2. ledger' \in [Payments -> Book]
    BY <1>1, <1>10, ReverseAllIsBook DEF CompensateFunded, TypeInv, TypeOK
  <2>3. first \in EventRow /\ second \in EventRow
    BY <1>1 DEF Change, EventRow, PayRow, PAYMENT_STATUSES
  <2>4. log \in Seq(EventRow) /\ events \in [Payments -> Seq(EventRow)]
    BY <1>1 DEF TypeInv, TypeOK
  <2>5. events' = [events EXCEPT ![p] = Append(Append(log, first), second)]
    BY <1>10 DEF CompensateFunded
  <2> HIDE DEF first, second, log
  <2>6. Append(Append(log, first), second) \in Seq(EventRow)
    BY <2>3, <2>4
  <2>7. events' \in [Payments -> Seq(EventRow)]
    BY <2>4, <2>5, <2>6
  <2>8. call' \in [Calls -> CallState] /\ AnswersOK'
    <3>1. Answer(c, p, call[c].op, "done")
      BY <1>10 DEF CompensateFunded
    <3>2. call[c].op \in {"step", "applyFunding", "refund"} /\ "done" \in Results
      BY DEF TypeInv, TypeOK, CallState, Results
    <3> QED BY <1>1, <3>1, <3>2, AnswerTypeInv
  <2>9. stale' \in [Payments -> BOOLEAN] /\ UNCHANGED <<wallet, ext>>
    BY <1>1, <1>10 DEF CompensateFunded, TypeInv, TypeOK
  <2> QED BY <2>1, <2>2, <2>7, <2>8, <2>9 DEF TypeInv, TypeOK
<1> QED
  BY <1>2, <1>3, <1>4, <1>5, <1>6, <1>7, <1>8, <1>9, <1>10 DEF Commit

\* A call that moves to another pc, with a new answer or not.
LEMMA MoveTypeInv ==
  ASSUME TypeInv, NEW c \in Calls, NEW s \in CallState, call' = [call EXCEPT ![c] = s],
         s.pc = "commit" /\ s.snap.status \in {"Quoted", "OnRamped", "Bridged"}
           => s.got \in Ids
  PROVE  call' \in [Calls -> CallState] /\ AnswersOK'
<1>1. call' \in [Calls -> CallState]
  BY DEF TypeInv, TypeOK
<1>2. ASSUME NEW d \in Calls PROVE call'[d] = (IF d = c THEN s ELSE call[d])
  BY DEF TypeInv, TypeOK
<1>3. AnswersOK'
  BY <1>2 DEF TypeInv, AnswersOK, Ids
<1> QED BY <1>1, <1>3

LEMMA SetPcTypeInv ==
  ASSUME TypeInv, NEW c \in Calls, NEW pc \in {"commit", "failing"},
         NEW got \in Nat, call' = [call EXCEPT ![c].pc = pc, ![c].got = got],
         pc = "commit" /\ call[c].snap.status \in {"Quoted", "OnRamped", "Bridged"}
           => got \in Ids
  PROVE  call' \in [Calls -> CallState] /\ AnswersOK'
<1> DEFINE s == [call[c] EXCEPT !.pc = pc, !.got = got]
<1>1. call[c] \in CallState
  BY DEF TypeInv, TypeOK
<1>2. s \in CallState /\ s.pc = pc /\ s.got = got /\ s.snap = call[c].snap
  BY <1>1 DEF CallState
<1>3. call' = [call EXCEPT ![c] = s]
  BY DEF TypeInv, TypeOK
<1> HIDE DEF s
<1> QED BY <1>2, <1>3, MoveTypeInv

LEMMA ForgetTypeInv ==
  ASSUME TypeInv, NEW c \in Calls, Forget(c)
  PROVE  call' \in [Calls -> CallState] /\ AnswersOK'
<1>1. call[c].on \in Payments
  BY DEF TypeInv, TypeOK, CallState
<1>2. Idle(call[c].on) \in CallState /\ Idle(call[c].on).pc = "idle"
  BY <1>1 DEF Idle, CallState, NewPayment, PayRow, PAYMENT_STATUSES, Ids, Results
<1> QED BY <1>2, MoveTypeInv DEF Forget

LEMMA NextTypeInv == TypeInv /\ [Next]_vars => TypeInv'
<1> SUFFICES ASSUME TypeInv, [Next]_vars PROVE TypeInv'
  OBVIOUS
<1>f. ASSUME NEW c \in Calls, call' = [call EXCEPT ![c].pc = "failing"]
      PROVE  call' \in [Calls -> CallState] /\ AnswersOK'
  <2>1. call[c] \in CallState
    BY DEF TypeInv, TypeOK
  <2>2. [call[c] EXCEPT !.pc = "failing"] \in CallState
    BY <2>1 DEF CallState
  <2>3. call' = [call EXCEPT ![c] = [call[c] EXCEPT !.pc = "failing"]]
    BY <1>f
  <2>4. [call[c] EXCEPT !.pc = "failing"].pc = "failing"
    BY <2>1 DEF CallState
  <2> QED BY <2>2, <2>3, <2>4, MoveTypeInv
<1>g. ASSUME NEW c \in Calls, call' = [call EXCEPT ![c].pc = "commit"],
             call[c].snap.status \notin {"Quoted", "OnRamped", "Bridged"}
      PROVE  call' \in [Calls -> CallState] /\ AnswersOK'
  <2>1. call[c] \in CallState
    BY DEF TypeInv, TypeOK
  <2>2. [call[c] EXCEPT !.pc = "commit"] \in CallState
    BY <2>1 DEF CallState
  <2>3. call' = [call EXCEPT ![c] = [call[c] EXCEPT !.pc = "commit"]]
    BY <1>g
  <2>4. [call[c] EXCEPT !.pc = "commit"].snap = call[c].snap
    BY <2>1 DEF CallState
  <2> QED BY <1>g, <2>2, <2>3, <2>4, MoveTypeInv
<1>h. ASSUME NEW c \in Calls
      PROVE  /\ call[c].on \in Payments
             /\ call[c].op \in {"step", "applyFunding", "refund"}
             /\ {"step"} \subseteq {"step", "applyFunding", "refund"}
             /\ {"waiting", "threw"} \subseteq Results
  BY DEF TypeInv, TypeOK, CallState, Results
<1>1. ASSUME NEW c \in Calls, NEW p \in Payments, Step(c, p) PROVE TypeInv'
  <2>1. CASE Enter(c, p, "step", "adapter")
    BY <1>1, <2>1, EnterTypeInv DEF Step
  <2>2. CASE \E result \in {"waiting", "done"} : Answer(c, p, "step", result)
    BY <1>1, <2>2, AnswerTypeInv DEF Step, Results, TypeInv, TypeOK, rows
  <2> QED BY <1>1, <2>1, <2>2 DEF Step
<1>2. ASSUME NEW c \in Calls, NEW p \in Payments, NEW success \in Outcomes,
             ApplyFunding(c, p, success)
      PROVE  TypeInv'
  <2>1. CASE pay[p].status = "AwaitingFunding"
    BY <1>2, <2>1, EnterTypeInv DEF ApplyFunding
  <2>2. CASE pay[p].status # "AwaitingFunding"
    <3>1. \E result \in Results : Answer(c, p, "applyFunding", result)
      BY <1>2, <2>2 DEF ApplyFunding, Results
    <3> QED BY <1>2, <3>1, AnswerTypeInv DEF ApplyFunding, TypeInv, TypeOK, rows
  <2> QED BY <2>1, <2>2
<1>3. ASSUME NEW c \in Calls, NEW p \in Payments, RefundRequest(c, p) PROVE TypeInv'
  <2>1. CASE Enter(c, p, "refund", "failing")
    BY <1>3, <2>1, EnterTypeInv DEF RefundRequest
  <2>2. CASE Answer(c, p, "refund", "threw")
    BY <1>3, <2>2, AnswerTypeInv DEF RefundRequest, Results, TypeInv, TypeOK, rows
  <2> QED BY <1>3, <2>1, <2>2 DEF RefundRequest
<1>r. ASSUME NEW c \in Calls, NEW status, NEW e \in Effects, NEW answers \in SUBSET Nat,
             Request(c, status, e, answers),
             status # "Funded" => answers = NewId(c, e)
      PROVE  TypeInv'
  <2> DEFINE p == call[c].on
  <2>1. p \in Payments /\ ext[p][e] \in Ids
    BY DEF TypeInv, TypeOK, CallState
  <2>2. ext[p][e] + 1 \in Ids /\ ext' = [ext EXCEPT ![p][e] = @ + 1]
    BY <1>r, <2>1 DEF Request, Ids
  <2>3. ext' \in [Payments -> [Effects -> Ids]]
    <3> HIDE DEF p
    <3> QED BY <2>1, <2>2 DEF TypeInv, TypeOK
  <2>4. \/ call' = [call EXCEPT ![c].pc = "failing"]
        \/ \E answer \in answers :
             call' = [call EXCEPT ![c].pc = "commit", ![c].got = answer]
    BY <1>r DEF Request
  <2>5. call' \in [Calls -> CallState] /\ AnswersOK'
    <3>1. CASE call' = [call EXCEPT ![c].pc = "failing"]
      BY <1>f, <3>1
    <3>2. ASSUME NEW answer \in answers,
                 call' = [call EXCEPT ![c].pc = "commit", ![c].got = answer]
          PROVE  call' \in [Calls -> CallState] /\ AnswersOK'
      <4>1. call[c].snap.status \in {"Quoted", "OnRamped", "Bridged"} => answer \in Ids
        BY <1>r, <2>2 DEF Request, NewId
      <4> QED BY <3>2, <4>1, SetPcTypeInv
    <3> QED BY <2>4, <3>1, <3>2
  <2>6. UNCHANGED rows
    BY <1>r DEF Request
  <2> QED BY <2>3, <2>5, <2>6 DEF TypeInv, TypeOK, rows
<1>i. ASSUME NEW c \in Calls, NEW e \in Effects PROVE NewId(c, e) \in SUBSET Nat
  BY <1>h DEF NewId, TypeInv, TypeOK, Ids
<1>4. ASSUME NEW c \in Calls, CallAdapter(c) PROVE TypeInv'
  <2>1. CASE InitiateStkPush(c)
    BY <2>1, <1>r, <1>i DEF InitiateStkPush, Effects
  <2>2. CASE ConvertKesToUsdc(c)
    BY <2>2, <1>r DEF ConvertKesToUsdc, Effects
  <2>3. CASE Send(c)
    BY <2>3, <1>r, <1>i DEF Send, Effects
  <2>4. CASE CreatePayout(c)
    BY <2>4, <1>r, <1>i DEF CreatePayout, Effects
  <2> QED BY <1>4, <2>1, <2>2, <2>3, <2>4 DEF CallAdapter
<1>5. ASSUME NEW c \in Calls, Poll(c) PROVE TypeInv'
  <2>1. CASE call' = [call EXCEPT ![c].pc = "commit"]
    <3>1. call[c].snap.status \notin {"Quoted", "OnRamped", "Bridged"}
      BY <1>5 DEF Poll, ConfirmTransfer, ConfirmPayout
    <3>2. call' \in [Calls -> CallState] /\ AnswersOK'
      BY <1>g, <2>1, <3>1
    <3> QED BY <1>5, <3>2 DEF Poll, ConfirmTransfer, ConfirmPayout, TypeInv, TypeOK, rows
  <2>2. CASE Answer(c, call[c].on, "step", "waiting")
    <3>1. call' \in [Calls -> CallState] /\ AnswersOK'
      BY <1>h, <2>2, AnswerTypeInv
    <3> QED BY <1>5, <3>1 DEF Poll, ConfirmTransfer, ConfirmPayout, TypeInv, TypeOK, rows
  <2> QED BY <1>5, <2>1, <2>2 DEF Poll, ConfirmTransfer, ConfirmPayout
<1>6. ASSUME NEW c \in Calls, AdapterThrows(c) PROVE TypeInv'
  <2>1. call' \in [Calls -> CallState] /\ AnswersOK'
    BY <1>6, <1>f DEF AdapterThrows
  <2> QED BY <1>6, <2>1 DEF AdapterThrows, TypeInv, TypeOK, rows
<1>7. ASSUME NEW c \in Calls, TransactionFails(c) PROVE TypeInv'
  <2>1. call' \in [Calls -> CallState] /\ AnswersOK'
    <3>1. CASE call' = [call EXCEPT ![c].pc = "failing"]
      BY <1>f, <3>1
    <3>2. CASE Answer(c, call[c].on, call[c].op, "threw")
      BY <1>h, <3>2, AnswerTypeInv
    <3> QED BY <1>7, <3>1, <3>2 DEF TransactionFails
  <2> QED BY <1>7, <2>1 DEF TransactionFails, TypeInv, TypeOK, rows
<1>8. ASSUME NEW c \in Calls, Return(c) \/ Crash(c) PROVE TypeInv'
  <2>1. Forget(c) /\ UNCHANGED <<rows, ext>>
    BY <1>8 DEF Return, Crash
  <2> QED BY <2>1, ForgetTypeInv DEF TypeInv, TypeOK, rows
<1>9. CASE UNCHANGED vars
  BY <1>9 DEF vars, TypeInv, TypeOK, AnswersOK
<1> QED
  BY <1>1, <1>2, <1>3, <1>4, <1>5, <1>6, <1>7, <1>8, <1>9, CommitTypeInv DEF Next, Work

\* Every variable keeps its type in every run.
THEOREM TypeCorrect == Spec => []TypeOK
<1>1. TypeInv => TypeOK
  BY DEF TypeInv
<1> QED
  BY <1>1, InitTypeInv, NextTypeInv, PTL DEF Spec

(***************************************************************************)
(* Double entry.  IsBalanced is not inductive: ReverseAll turns the        *)
(* balance of an account into its sum of reversals, so the two sums have   *)
(* to be balanced on their own.                                            *)
(***************************************************************************)
SumsToZero(f) ==
  /\ f["importer_external"] + f["mpesa_collected"] + f["onramp_external_kes"] = 0
  /\ f["onramp_external_usdc"] + f["treasury_usdc"] + f["hk_usdc"]
       + f["payout_external_usdc"] = 0
  /\ f["payout_external_cny"] + f["supplier_paid_cny"] = 0

BothSumsZero(book) == SumsToZero(book.posted) /\ SumsToZero(book.reversed)

SidesBalanced == \A p \in Payments : BothSumsZero(ledger[p])

LEMMA PostPairBalanced ==
  ASSUME NEW book \in Book, BothSumsZero(book), NEW debit, NEW credit, NEW amount \in Int,
         \E accounts \in {KesAccounts, UsdcAccounts, CnyAccounts} :
           debit \in accounts /\ credit \in accounts
  PROVE  BothSumsZero(PostPair(book, debit, credit, amount))
<1> DEFINE after == PostPair(book, debit, credit, amount)
           delta(a) == (IF a = debit THEN amount ELSE 0) - (IF a = credit THEN amount ELSE 0)
<1>1. after.reversed = book.reversed
  BY DEF PostPair, Book
<1>2. \A a \in ACCOUNTS : after.posted[a] = book.posted[a] + delta(a) /\ book.posted[a] \in Int
  BY DEF PostPair, Book
<1>3. /\ delta("importer_external") + delta("mpesa_collected")
           + delta("onramp_external_kes") = 0
      /\ delta("onramp_external_usdc") + delta("treasury_usdc") + delta("hk_usdc")
           + delta("payout_external_usdc") = 0
      /\ delta("payout_external_cny") + delta("supplier_paid_cny") = 0
  <2>1. CASE debit \in KesAccounts /\ credit \in KesAccounts
    BY <2>1 DEF KesAccounts
  <2>2. CASE debit \in UsdcAccounts /\ credit \in UsdcAccounts
    BY <2>2 DEF UsdcAccounts
  <2>3. CASE debit \in CnyAccounts /\ credit \in CnyAccounts
    BY <2>3 DEF CnyAccounts
  <2> QED BY <2>1, <2>2, <2>3
<1>4. \A a \in ACCOUNTS : delta(a) \in Int
  OBVIOUS
<1>5. SumsToZero(book.posted)
  BY DEF BothSumsZero
<1>6. SumsToZero(after.posted)
  <2> HIDE DEF after, delta
  <2>t. \A a \in {"importer_external", "mpesa_collected", "onramp_external_kes",
                 "onramp_external_usdc", "treasury_usdc", "hk_usdc",
                 "payout_external_usdc", "payout_external_cny", "supplier_paid_cny"} :
          a \in ACCOUNTS
    BY DEF ACCOUNTS, KesAccounts, UsdcAccounts, CnyAccounts
  <2>1. after.posted["importer_external"] + after.posted["mpesa_collected"]
          + after.posted["onramp_external_kes"] = 0
    <3>1. /\ after.posted["importer_external"] =
               book.posted["importer_external"] + delta("importer_external")
          /\ after.posted["mpesa_collected"] =
               book.posted["mpesa_collected"] + delta("mpesa_collected")
          /\ after.posted["onramp_external_kes"] =
               book.posted["onramp_external_kes"] + delta("onramp_external_kes")
          /\ {book.posted["importer_external"], book.posted["mpesa_collected"],
              book.posted["onramp_external_kes"], delta("importer_external"),
              delta("mpesa_collected"), delta("onramp_external_kes")} \subseteq Int
      BY <2>t, <1>2, <1>4
    <3> QED BY <3>1, <1>3, <1>5 DEF SumsToZero
  <2>2. after.posted["onramp_external_usdc"] + after.posted["treasury_usdc"]
          + after.posted["hk_usdc"] + after.posted["payout_external_usdc"] = 0
    <3>1. /\ after.posted["onramp_external_usdc"] =
               book.posted["onramp_external_usdc"] + delta("onramp_external_usdc")
          /\ after.posted["treasury_usdc"] =
               book.posted["treasury_usdc"] + delta("treasury_usdc")
          /\ after.posted["hk_usdc"] = book.posted["hk_usdc"] + delta("hk_usdc")
          /\ after.posted["payout_external_usdc"] =
               book.posted["payout_external_usdc"] + delta("payout_external_usdc")
          /\ {book.posted["onramp_external_usdc"], book.posted["treasury_usdc"],
              book.posted["hk_usdc"], book.posted["payout_external_usdc"],
              delta("onramp_external_usdc"), delta("treasury_usdc"), delta("hk_usdc"),
              delta("payout_external_usdc")} \subseteq Int
      BY <2>t, <1>2, <1>4
    <3> QED BY <3>1, <1>3, <1>5 DEF SumsToZero
  <2>3. after.posted["payout_external_cny"] + after.posted["supplier_paid_cny"] = 0
    <3>1. /\ after.posted["payout_external_cny"] =
               book.posted["payout_external_cny"] + delta("payout_external_cny")
          /\ after.posted["supplier_paid_cny"] =
               book.posted["supplier_paid_cny"] + delta("supplier_paid_cny")
          /\ {book.posted["payout_external_cny"], book.posted["supplier_paid_cny"],
              delta("payout_external_cny"), delta("supplier_paid_cny")} \subseteq Int
      BY <2>t, <1>2, <1>4
    <3> QED BY <3>1, <1>3, <1>5 DEF SumsToZero
  <2> QED BY <2>1, <2>2, <2>3 DEF SumsToZero
<1>7. BothSumsZero(after)
  <2> HIDE DEF after
  <2> QED BY <1>1, <1>6 DEF BothSumsZero
<1> QED BY <1>7

LEMMA ReverseAllBalanced ==
  ASSUME NEW book \in Book, BothSumsZero(book)
  PROVE  BothSumsZero(ReverseAll(book))
<1>1. ReverseAll(book).posted = book.posted
  BY DEF ReverseAll, Book
<1>2. \A a \in ACCOUNTS : /\ ReverseAll(book).reversed[a] = book.reversed[a] - book.posted[a]
                          /\ book.reversed[a] \in Int /\ book.posted[a] \in Int
  BY DEF ReverseAll, Book
<1>3. SumsToZero(ReverseAll(book).reversed)
  BY <1>2 DEF BothSumsZero, SumsToZero, ACCOUNTS, KesAccounts, UsdcAccounts, CnyAccounts
<1> QED BY <1>1, <1>3 DEF BothSumsZero

\* What each action does to the books.
LEMMA LedgerStep ==
  ASSUME TypeInv, [Next]_vars
  PROVE  \/ UNCHANGED ledger
         \/ \E c \in Calls : CommitFunding(c) \/ DoOnRamp(c) \/ DoBridgeConfirm(c)
                               \/ DoCreatePayout(c) \/ DoConfirmPayout(c)
                               \/ CompensateFunded(c)
  BY ZenonT(30) DEF Next, vars, rows, Step, ApplyFunding, RefundRequest, Work, CallAdapter, Request,
         InitiateStkPush, ConvertKesToUsdc, Send, CreatePayout, Poll, ConfirmTransfer,
         ConfirmPayout, AdapterThrows, TransactionFails, Commit, Return, Crash, DoInitiateFunding,
         DoBridgeSend, FailUnfunded

LEMMA NextSidesBalanced == TypeInv /\ SidesBalanced /\ [Next]_vars => SidesBalanced'
<1> SUFFICES ASSUME TypeInv, SidesBalanced, [Next]_vars PROVE SidesBalanced'
  OBVIOUS
<1>1. CASE UNCHANGED ledger
  BY <1>1 DEF SidesBalanced
<1>2. ASSUME NEW c \in Calls, NEW book, BothSumsZero(book),
             ledger' = [ledger EXCEPT ![call[c].on] = book]
      PROVE  SidesBalanced'
  BY <1>2 DEF SidesBalanced, TypeInv, TypeOK
<1>3. ASSUME NEW c \in Calls
      PROVE  /\ ledger[call[c].on] \in Book /\ BothSumsZero(ledger[call[c].on])
             /\ Quote[call[c].on].allInMinorKes \in Int
             /\ Quote[call[c].on].sendMinorKes \in Int
             /\ Quote[call[c].on].receiveMinorCny \in Int
             /\ call[c].snap.usdcMinor \in Int /\ call[c].got \in Int
  BY DEF SidesBalanced, TypeInv, TypeOK, CallState, PayRow
<1>4. ASSUME NEW c \in Calls, NEW debit, NEW credit, NEW amount \in Int,
             Post(c, debit, credit, amount),
             \E accounts \in {KesAccounts, UsdcAccounts, CnyAccounts} :
               debit \in accounts /\ credit \in accounts
      PROVE  SidesBalanced'
  BY <1>2, <1>3, <1>4, PostPairBalanced DEF Post
<1>5. ASSUME NEW c \in Calls, CommitFunding(c) PROVE SidesBalanced'
  BY <1>3, <1>4, <1>5 DEF CommitFunding, KesAccounts
<1>6. ASSUME NEW c \in Calls, DoOnRamp(c) PROVE SidesBalanced'
  <2> DEFINE one == PostPair(ledger[call[c].on], "onramp_external_kes", "mpesa_collected",
                             Quote[call[c].on].sendMinorKes)
             two == PostPair(one, "treasury_usdc", "onramp_external_usdc", call[c].got)
  <2>1. one \in Book /\ BothSumsZero(one)
    BY <1>3, PostPairIsBook, PostPairBalanced DEF KesAccounts
  <2>2. BothSumsZero(two)
    <3> HIDE DEF one
    <3> QED BY <1>3, <2>1, PostPairBalanced DEF UsdcAccounts
  <2>3. ledger' = [ledger EXCEPT ![call[c].on] = two]
    BY <1>6 DEF DoOnRamp
  <2> HIDE DEF two
  <2> QED BY <1>2, <2>2, <2>3
<1>7. ASSUME NEW c \in Calls, DoBridgeConfirm(c) PROVE SidesBalanced'
  BY <1>3, <1>4, <1>7 DEF DoBridgeConfirm, UsdcAccounts
<1>8. ASSUME NEW c \in Calls, DoCreatePayout(c) PROVE SidesBalanced'
  BY <1>3, <1>4, <1>8 DEF DoCreatePayout, UsdcAccounts
<1>9. ASSUME NEW c \in Calls, DoConfirmPayout(c) PROVE SidesBalanced'
  BY <1>3, <1>4, <1>9 DEF DoConfirmPayout, CnyAccounts
<1>10. ASSUME NEW c \in Calls, CompensateFunded(c) PROVE SidesBalanced'
  BY <1>2, <1>3, <1>10, ReverseAllBalanced DEF CompensateFunded
<1> QED
  BY <1>1, <1>5, <1>6, <1>7, <1>8, <1>9, <1>10, LedgerStep

LEMMA SidesBalancedSuffices == TypeInv /\ SidesBalanced => LedgerBalanced
<1> SUFFICES ASSUME TypeInv, SidesBalanced, NEW p \in Payments PROVE IsBalanced(ledger[p])
  BY DEF LedgerBalanced
<1>1. ledger[p] \in Book /\ BothSumsZero(ledger[p])
  BY DEF TypeInv, TypeOK, SidesBalanced
<1>2. \A a \in ACCOUNTS : ledger[p].posted[a] \in Int /\ ledger[p].reversed[a] \in Int
  BY <1>1 DEF Book
<1> QED
  BY <1>1, <1>2 DEF IsBalanced, Net, BothSumsZero, SumsToZero, ACCOUNTS, KesAccounts,
                    UsdcAccounts, CnyAccounts

LEMMA InitSidesBalanced == Init => SidesBalanced
  BY DEF Init, SidesBalanced, BothSumsZero, SumsToZero, EmptyBook, NoEntries, ACCOUNTS,
         KesAccounts, UsdcAccounts, CnyAccounts

\* Debits equal credits in every currency, in every run, whatever calls overlap.
THEOREM BooksBalance == Spec => []LedgerBalanced
  BY InitSidesBalanced, InitTypeInv, NextTypeInv, NextSidesBalanced, SidesBalancedSuffices,
     PTL DEF Spec

(***************************************************************************)
(* The ledger follows the status.  A call posts amounts of the row it read *)
(* at load, so the invariant has to say what that row still is worth: it   *)
(* never runs ahead of the payment, and if the payment still has the       *)
(* status that was read then nothing of the row has changed.               *)
(***************************************************************************)
Rank == [Quoted |-> 0, AwaitingFunding |-> 1, Funded |-> 2, OnRamped |-> 3, Bridging |-> 4,
         Bridged |-> 5, PayingOut |-> 6, Settled |-> 7, Failed |-> 7, Refunding |-> 7,
         Refunded |-> 8]

InFlight(c) == call[c].pc \in {"adapter", "commit", "failing"}

SnapInv ==
  \A c \in Calls : InFlight(c) /\ ~stale[call[c].on] =>
    LET p == call[c].on
    IN  /\ Rank[call[c].snap.status] <= Rank[pay[p].status]
        /\ call[c].snap.status = pay[p].status => call[c].snap = pay[p]

\* Before a refund nothing has been reversed; after it every account is at zero.
BooksFollow(p) ==
  IF pay[p].status = "Refunded"
  THEN \A a \in ACCOUNTS : Net(ledger[p], a) = 0
  ELSE /\ ledger[p].posted = Position(p)
       /\ \A a \in ACCOUNTS : ledger[p].reversed[a] = 0

LedgerInv == \A p \in Payments : ~stale[p] => BooksFollow(p)

LEMMA RankGrows ==
  ASSUME NEW from \in PAYMENT_STATUSES, NEW to \in PAYMENT_STATUSES, CanTransition(from, to)
  PROVE  Rank[from] < Rank[to]
  BY DEF CanTransition, TRANSITIONS, PAYMENT_STATUSES, Rank

LEMMA RankType == \A s \in PAYMENT_STATUSES : Rank[s] \in Int
  BY DEF PAYMENT_STATUSES, Rank

\* A call in flight was in flight with the same row, or has just read it.
LEMMA CallsStep ==
  ASSUME TypeInv, [Next]_vars, NEW d \in Calls, InFlight(d)'
  PROVE  \/ InFlight(d) /\ call'[d].on = call[d].on /\ call'[d].snap = call[d].snap
         \/ /\ call'[d].on \in Payments /\ call'[d].snap = pay[call'[d].on]
            /\ UNCHANGED <<pay, stale>>
<1> DEFINE Goal(c) == \/ InFlight(c) /\ call'[c].on = call[c].on /\ call'[c].snap = call[c].snap
                      \/ /\ call'[c].on \in Payments /\ call'[c].snap = pay[call'[c].on]
                         /\ UNCHANGED <<pay, stale>>
<1>t. call \in [Calls -> CallState]
  BY DEF TypeInv, TypeOK
<1>0. ASSUME NEW c \in Calls, c # d,
             \/ \E s : call' = [call EXCEPT ![c] = s]
             \/ \E pc : call' = [call EXCEPT ![c].pc = pc]
             \/ \E pc, got : call' = [call EXCEPT ![c].pc = pc, ![c].got = got]
      PROVE  Goal(d)
  <2>1. call'[d] = call[d]
    BY <1>0, <1>t
  <2> QED BY <2>1 DEF InFlight
<1>1. ASSUME NEW c \in Calls, NEW p \in Payments, NEW op, NEW pc, Enter(c, p, op, pc),
             UNCHANGED rows
      PROVE  Goal(d)
  <2>1. CASE c = d
    BY <1>1, <1>t, <2>1 DEF Enter, rows
  <2>2. CASE c # d
    BY <1>0, <1>1, <2>2 DEF Enter
  <2> QED BY <2>1, <2>2
<1>2. ASSUME NEW c \in Calls, NEW p, NEW op, NEW result, Answer(c, p, op, result)
      PROVE  Goal(d)
  <2>1. CASE c = d
    <3>1. call'[d].pc = "returned"
      BY <1>2, <1>t, <2>1 DEF Answer
    <3> QED BY <3>1 DEF InFlight
  <2>2. CASE c # d
    BY <1>0, <1>2, <2>2 DEF Answer
  <2> QED BY <2>1, <2>2
<1>3. ASSUME NEW c \in Calls, Forget(c) PROVE Goal(d)
  <2>1. CASE c = d
    <3>1. call'[d].pc = "idle"
      BY <1>3, <1>t, <2>1 DEF Forget, Idle
    <3> QED BY <3>1 DEF InFlight
  <2>2. CASE c # d
    BY <1>0, <1>3, <2>2 DEF Forget
  <2> QED BY <2>1, <2>2
<1>4. ASSUME NEW c \in Calls, InFlight(c),
             \/ \E pc : call' = [call EXCEPT ![c].pc = pc]
             \/ \E pc, got : call' = [call EXCEPT ![c].pc = pc, ![c].got = got]
      PROVE  Goal(d)
  <2>1. CASE c = d
    <3>1. ASSUME NEW pc, call' = [call EXCEPT ![c].pc = pc]
          PROVE  call'[d].on = call[d].on /\ call'[d].snap = call[d].snap
      BY <3>1, <1>t, <2>1 DEF CallState
    <3>2. ASSUME NEW pc, NEW got, call' = [call EXCEPT ![c].pc = pc, ![c].got = got]
          PROVE  call'[d].on = call[d].on /\ call'[d].snap = call[d].snap
      BY <3>2, <1>t, <2>1 DEF CallState
    <3> QED BY <1>4, <2>1, <3>1, <3>2, ZenonT(30)
  <2>2. CASE c # d
    BY <1>0, <1>4, <2>2
  <2> QED BY <2>1, <2>2
<1>5. ASSUME NEW c \in Calls, NEW p \in Payments, Step(c, p) PROVE Goal(d)
  BY <1>1, <1>2, <1>5 DEF Step
<1>6. ASSUME NEW c \in Calls, NEW p \in Payments, NEW success \in Outcomes,
             ApplyFunding(c, p, success)
      PROVE  Goal(d)
  BY <1>1, <1>2, <1>6 DEF ApplyFunding
<1>7. ASSUME NEW c \in Calls, NEW p \in Payments, RefundRequest(c, p) PROVE Goal(d)
  BY <1>1, <1>2, <1>7 DEF RefundRequest
<1>8. ASSUME NEW c \in Calls, CallAdapter(c) PROVE Goal(d)
  <2>1. InFlight(c)
    BY <1>8 DEF CallAdapter, InitiateStkPush, ConvertKesToUsdc, Send, CreatePayout,
                Request, InFlight
  <2>2. \/ call' = [call EXCEPT ![c].pc = "failing"]
        \/ \E got : call' = [call EXCEPT ![c].pc = "commit", ![c].got = got]
    BY <1>8 DEF CallAdapter, InitiateStkPush, ConvertKesToUsdc, Send, CreatePayout, Request
  <2> HIDE DEF Goal
  <2> QED BY <1>4, <2>1, <2>2
<1>9. ASSUME NEW c \in Calls, Poll(c) \/ AdapterThrows(c) \/ TransactionFails(c) PROVE Goal(d)
  BY <1>2, <1>4, <1>9 DEF Poll, ConfirmTransfer, ConfirmPayout, AdapterThrows,
                          TransactionFails, InFlight
<1>10. ASSUME NEW c \in Calls, Commit(c) PROVE Goal(d)
  BY <1>2, <1>10 DEF Commit, DoInitiateFunding, CommitFunding, DoOnRamp, DoBridgeSend,
                     DoBridgeConfirm, DoCreatePayout, DoConfirmPayout, FailUnfunded,
                     CompensateFunded, Transition
<1>11. ASSUME NEW c \in Calls, Return(c) \/ Crash(c) PROVE Goal(d)
  BY <1>3, <1>11 DEF Return, Crash
<1>12. ASSUME UNCHANGED vars PROVE Goal(d)
  BY <1>12 DEF vars, InFlight
<1> HIDE DEF Goal
<1>13. ASSUME Next PROVE Goal(d)
  <2> PICK c \in Calls :
        \/ \E p \in Payments :
             \/ Step(c, p)
             \/ \E success \in Outcomes : ApplyFunding(c, p, success)
             \/ RefundRequest(c, p)
        \/ Work(c) \/ Return(c) \/ Crash(c)
    BY <1>13 DEF Next
  <2>1. CASE \E p \in Payments : Step(c, p) \/ RefundRequest(c, p)
    BY <2>1, <1>5, <1>7
  <2>2. CASE \E p \in Payments : \E success \in Outcomes : ApplyFunding(c, p, success)
    BY <2>2, <1>6
  <2>3. CASE Work(c)
    BY <2>3, <1>8, <1>9, <1>10 DEF Work
  <2>4. CASE Return(c) \/ Crash(c)
    BY <2>4, <1>11
  <2> QED BY <2>1, <2>2, <2>3, <2>4
<1>14. Goal(d)
  BY <1>12, <1>13
<1> QED BY <1>14 DEF Goal

\* A transaction moves one payment up the ranks, and says so in stale when the
\* payment no longer had the status that was read.
Moves(c) ==
  \E row \in PayRow :
    /\ pay' = [pay EXCEPT ![call[c].on] = row]
    /\ Rank[call[c].snap.status] < Rank[row.status]
    /\ stale' = [stale EXCEPT ![call[c].on] =
                   @ \/ pay[call[c].on].status # call[c].snap.status]
    /\ InFlight(c)

LEMMA PayStep ==
  ASSUME TypeInv, [Next]_vars
  PROVE  UNCHANGED <<pay, stale, ledger>> \/ \E c \in Calls : Commit(c) /\ Moves(c)
<1>1. ASSUME NEW c \in Calls, Commit(c) PROVE Moves(c)
  <2>1. /\ pay[call[c].on] \in PayRow /\ call[c].snap.status \in PAYMENT_STATUSES
        /\ call[c].got \in Nat
    BY DEF TypeInv, TypeOK, CallState, PayRow
  <2>2. ASSUME NEW row \in PayRow, NEW to \in PAYMENT_STATUSES, NEW result,
               Transition(c, to, row, result), InFlight(c)
        PROVE  Moves(c)
    <3>1. [row EXCEPT !.status = to] \in PayRow /\ [row EXCEPT !.status = to].status = to
      BY DEF PayRow
    <3> HIDE DEF PayRow
    <3>2. /\ pay' = [pay EXCEPT ![call[c].on] = [row EXCEPT !.status = to]]
          /\ CanTransition(call[c].snap.status, to)
          /\ stale' = [stale EXCEPT ![call[c].on] =
                         @ \/ pay[call[c].on].status # call[c].snap.status]
      BY <2>2 DEF Transition
    <3> QED BY <2>1, <2>2, <3>1, <3>2, RankGrows DEF Moves
  <2>i. InFlight(c)
    BY <1>1 DEF Commit, DoInitiateFunding, CommitFunding, DoOnRamp, DoBridgeSend,
                DoBridgeConfirm, DoCreatePayout, DoConfirmPayout, FailUnfunded,
                CompensateFunded, Committing, InFlight
  <2>s. {"AwaitingFunding", "Funded", "OnRamped", "Bridging", "Bridged", "PayingOut",
         "Settled", "Failed", "Refunding", "Refunded"} \subseteq PAYMENT_STATUSES
    BY DEF PAYMENT_STATUSES
  <2>3. CASE DoInitiateFunding(c)
    <3>1. [pay[call[c].on] EXCEPT !.mpesaCheckoutId = call[c].got] \in PayRow
      BY <2>1, <2>3 DEF DoInitiateFunding, Committing, TypeInv, AnswersOK, PayRow
    <3> QED BY <2>2, <2>3, <2>i, <2>s, <3>1 DEF DoInitiateFunding
  <2>4. CASE CommitFunding(c)
    BY <2>1, <2>2, <2>4, <2>i, <2>s DEF CommitFunding
  <2>5. CASE DoOnRamp(c)
    <3>1. [pay[call[c].on] EXCEPT !.usdcMinor = call[c].got] \in PayRow
      BY <2>1 DEF PayRow
    <3> QED BY <2>2, <2>5, <2>i, <2>s, <3>1 DEF DoOnRamp
  <2>6. CASE DoBridgeSend(c)
    <3>1. [pay[call[c].on] EXCEPT !.walletTxHash = call[c].got] \in PayRow
      BY <2>1, <2>6 DEF DoBridgeSend, Committing, TypeInv, AnswersOK, PayRow
    <3> QED BY <2>2, <2>6, <2>i, <2>s, <3>1 DEF DoBridgeSend
  <2>7. CASE DoBridgeConfirm(c)
    BY <2>1, <2>2, <2>7, <2>i, <2>s DEF DoBridgeConfirm
  <2>8. CASE DoCreatePayout(c)
    <3>1. [pay[call[c].on] EXCEPT !.payoutId = call[c].got] \in PayRow
      BY <2>1, <2>8 DEF DoCreatePayout, Committing, TypeInv, AnswersOK, PayRow
    <3> QED BY <2>2, <2>8, <2>i, <2>s, <3>1 DEF DoCreatePayout
  <2>9. CASE DoConfirmPayout(c)
    BY <2>1, <2>2, <2>9, <2>i, <2>s DEF DoConfirmPayout
  <2>10. CASE FailUnfunded(c)
    BY <2>1, <2>2, <2>10, <2>i, <2>s DEF FailUnfunded
  <2>11. CASE CompensateFunded(c)
    <3> DEFINE row == [pay[call[c].on] EXCEPT !.status = "Refunded"]
    <3>1. row \in PayRow /\ row.status = "Refunded"
      BY <2>1, <2>s DEF PayRow
    <3>2. Rank[call[c].snap.status] < Rank["Refunding"] /\ Rank["Refunding"] < Rank["Refunded"]
      BY <2>1, <2>11, <2>s, RankGrows DEF CompensateFunded
    <3>3. /\ pay' = [pay EXCEPT ![call[c].on] = row]
          /\ stale' = [stale EXCEPT ![call[c].on] =
                         @ \/ pay[call[c].on].status # call[c].snap.status]
      BY <2>11 DEF CompensateFunded
    <3>4. Rank[call[c].snap.status] < Rank["Refunded"]
      BY <2>1, <2>s, <3>2, RankType
    <3> HIDE DEF row
    <3> QED BY <3>1, <3>3, <3>4, <2>i DEF Moves
  <2> QED
    BY <1>1, <2>3, <2>4, <2>5, <2>6, <2>7, <2>8, <2>9, <2>10, <2>11 DEF Commit
<1>2. CASE \E c \in Calls : Commit(c)
  BY <1>1, <1>2
<1>3. CASE ~\E c \in Calls : Commit(c)
  BY <1>3, ZenonT(30) DEF Next, vars, rows, Step, ApplyFunding, RefundRequest, Work, CallAdapter,
              Request, InitiateStkPush, ConvertKesToUsdc, Send, CreatePayout, Poll,
              ConfirmTransfer, ConfirmPayout, AdapterThrows, TransactionFails, Return, Crash
<1> QED BY <1>2, <1>3

LEMMA NextSnapInv == TypeInv /\ SnapInv /\ [Next]_vars => SnapInv'
<1> SUFFICES ASSUME TypeInv, SnapInv, [Next]_vars, NEW d \in Calls,
                    InFlight(d)', ~stale'[call'[d].on]
             PROVE  /\ Rank[call'[d].snap.status] <= Rank[pay'[call'[d].on].status]
                    /\ call'[d].snap.status = pay'[call'[d].on].status
                         => call'[d].snap = pay'[call'[d].on]
  BY DEF SnapInv
<1> DEFINE p == call'[d].on
<1>t. /\ pay \in [Payments -> PayRow] /\ stale \in [Payments -> BOOLEAN]
      /\ \A c \in Calls : call[c].on \in Payments /\ call[c].snap.status \in PAYMENT_STATUSES
      /\ \A q \in Payments : pay[q].status \in PAYMENT_STATUSES
  BY DEF TypeInv, TypeOK, CallState, PayRow
<1>1. CASE call'[d].snap = pay[p] /\ p \in Payments /\ UNCHANGED <<pay, stale>>
  BY <1>t, <1>1, RankType
<1>2. CASE InFlight(d) /\ p = call[d].on /\ call'[d].snap = call[d].snap
  <2>1. CASE UNCHANGED <<pay, stale, ledger>>
    BY <1>2, <2>1 DEF SnapInv
  <2>2. ASSUME NEW c \in Calls, Moves(c)
        PROVE  /\ Rank[call[d].snap.status] <= Rank[pay'[p].status]
               /\ call[d].snap.status = pay'[p].status => call[d].snap = pay'[p]
    <3> PICK row \in PayRow :
          /\ pay' = [pay EXCEPT ![call[c].on] = row]
          /\ Rank[call[c].snap.status] < Rank[row.status]
          /\ stale' = [stale EXCEPT ![call[c].on] =
                         @ \/ pay[call[c].on].status # call[c].snap.status]
      BY <2>2 DEF Moves
    <3>0. row.status \in PAYMENT_STATUSES
      BY DEF PayRow
    <3>1. ~stale[p]
      BY <1>t, <1>2
    <3>2. /\ Rank[call[d].snap.status] <= Rank[pay[p].status]
          /\ call[d].snap.status = pay[p].status => call[d].snap = pay[p]
      BY <1>2, <3>1 DEF SnapInv
    <3>3. CASE call[c].on # p
      <4>1. pay'[p] = pay[p]
        BY <1>t, <1>2, <3>3
      <4> QED BY <3>2, <4>1
    <3>4. CASE call[c].on = p
      <4>1. pay'[p] = row /\ pay[p].status = call[c].snap.status
        BY <1>t, <1>2, <3>4
      <4>2. Rank[call[d].snap.status] < Rank[row.status]
        BY <1>t, <1>2, <3>0, <3>2, <4>1, RankType
      <4> QED BY <1>t, <1>2, <3>0, <4>1, <4>2, RankType
    <3> QED BY <3>3, <3>4
  <2>3. UNCHANGED <<pay, stale, ledger>> \/ \E c \in Calls : Moves(c)
    BY PayStep
  <2> HIDE DEF p
  <2> QED BY <1>2, <2>1, <2>2, <2>3 DEF p
<1> QED
  BY <1>1, <1>2, CallsStep

\* What one posting does to the sums of an account book.
Leg(f, debit, credit, amount) ==
  [a \in ACCOUNTS |-> f[a] + (IF a = debit THEN amount ELSE 0)
                           - (IF a = credit THEN amount ELSE 0)]

LEMMA PostPairIsLeg ==
  ASSUME NEW book \in Book, NEW debit, NEW credit, NEW amount \in Int
  PROVE  /\ PostPair(book, debit, credit, amount).posted
               = Leg(book.posted, debit, credit, amount)
         /\ PostPair(book, debit, credit, amount).reversed = book.reversed
  BY DEF Book, PostPair, Leg

LEMMA HoldingsType ==
  ASSUME NEW kes \in Int, NEW sent \in Int, NEW usdc \in Int, NEW hk \in Int,
         NEW out \in Int, NEW cny \in Int
  PROVE  Holdings(kes, sent, usdc, hk, out, cny) \in [ACCOUNTS -> Int]
  BY DEF Holdings, ACCOUNTS, KesAccounts, UsdcAccounts, CnyAccounts

\* Each posting of the engine makes one leg longer.
LEMMA Legs ==
  ASSUME NEW kes \in Int, NEW sent \in Int, NEW usdc \in Int, NEW hk \in Int,
         NEW out \in Int, NEW cny \in Int, NEW n \in Int
  PROVE  /\ Leg(Holdings(kes, sent, usdc, hk, out, cny), "mpesa_collected",
                 "importer_external", n) = Holdings(kes + n, sent, usdc, hk, out, cny)
         /\ Leg(Holdings(kes, sent, usdc, hk, out, cny), "onramp_external_kes",
                 "mpesa_collected", n) = Holdings(kes, sent + n, usdc, hk, out, cny)
         /\ Leg(Holdings(kes, sent, usdc, hk, out, cny), "treasury_usdc",
                 "onramp_external_usdc", n) = Holdings(kes, sent, usdc + n, hk, out, cny)
         /\ Leg(Holdings(kes, sent, usdc, hk, out, cny), "hk_usdc",
                 "treasury_usdc", n) = Holdings(kes, sent, usdc, hk + n, out, cny)
         /\ Leg(Holdings(kes, sent, usdc, hk, out, cny), "payout_external_usdc",
                 "hk_usdc", n) = Holdings(kes, sent, usdc, hk, out + n, cny)
         /\ Leg(Holdings(kes, sent, usdc, hk, out, cny), "payout_external_cny",
                 "supplier_paid_cny", n) = Holdings(kes, sent, usdc, hk, out, cny + n)
<1> USE DEF Leg, Holdings, ACCOUNTS, KesAccounts, UsdcAccounts, CnyAccounts
<1>1. Leg(Holdings(kes, sent, usdc, hk, out, cny), "mpesa_collected",
          "importer_external", n) = Holdings(kes + n, sent, usdc, hk, out, cny)
  OBVIOUS
<1>2. Leg(Holdings(kes, sent, usdc, hk, out, cny), "onramp_external_kes",
          "mpesa_collected", n) = Holdings(kes, sent + n, usdc, hk, out, cny)
  OBVIOUS
<1>3. Leg(Holdings(kes, sent, usdc, hk, out, cny), "treasury_usdc",
          "onramp_external_usdc", n) = Holdings(kes, sent, usdc + n, hk, out, cny)
  OBVIOUS
<1>4. Leg(Holdings(kes, sent, usdc, hk, out, cny), "hk_usdc",
          "treasury_usdc", n) = Holdings(kes, sent, usdc, hk + n, out, cny)
  OBVIOUS
<1>5. Leg(Holdings(kes, sent, usdc, hk, out, cny), "payout_external_usdc",
          "hk_usdc", n) = Holdings(kes, sent, usdc, hk, out + n, cny)
  OBVIOUS
<1>6. Leg(Holdings(kes, sent, usdc, hk, out, cny), "payout_external_cny",
          "supplier_paid_cny", n) = Holdings(kes, sent, usdc, hk, out, cny + n)
  OBVIOUS
<1> HIDE DEF Leg, Holdings, ACCOUNTS, KesAccounts, UsdcAccounts, CnyAccounts
<1> QED BY <1>1, <1>2, <1>3, <1>4, <1>5, <1>6

\* The legs a status stands for.
LEMMA Positions ==
  ASSUME NEW p \in Payments, NEW usdc
  PROVE  LET kes == Quote[p].allInMinorKes
             sent == Quote[p].sendMinorKes
             cny == Quote[p].receiveMinorCny
         IN  /\ \A s \in {"Quoted", "AwaitingFunding", "Failed", "Refunded"} :
                   PositionAt(p, s, usdc) = Holdings(0, 0, 0, 0, 0, 0)
             /\ PositionAt(p, "Funded", usdc) = Holdings(kes, 0, 0, 0, 0, 0)
             /\ \A s \in {"OnRamped", "Bridging"} :
                   PositionAt(p, s, usdc) = Holdings(kes, sent, usdc, 0, 0, 0)
             /\ PositionAt(p, "Bridged", usdc) = Holdings(kes, sent, usdc, usdc, 0, 0)
             /\ PositionAt(p, "PayingOut", usdc) = Holdings(kes, sent, usdc, usdc, usdc, 0)
             /\ PositionAt(p, "Settled", usdc) = Holdings(kes, sent, usdc, usdc, usdc, cny)
  BY DEF PositionAt

\* Every posting of the engine takes the books from the position of the status read
\* to that of the status written.
LEMMA Postings ==
  ASSUME NEW p \in Payments, NEW book \in Book, NEW usdc \in Int, NEW got \in Int
  PROVE  /\ book.posted = PositionAt(p, "AwaitingFunding", usdc) =>
              PostPair(book, "mpesa_collected", "importer_external",
                       Quote[p].allInMinorKes).posted = PositionAt(p, "Funded", usdc)
         /\ book.posted = PositionAt(p, "Funded", usdc) =>
              PostPair(PostPair(book, "onramp_external_kes", "mpesa_collected",
                                Quote[p].sendMinorKes),
                       "treasury_usdc", "onramp_external_usdc", got).posted
                = PositionAt(p, "OnRamped", got)
         /\ book.posted = PositionAt(p, "Bridging", usdc) =>
              PostPair(book, "hk_usdc", "treasury_usdc", usdc).posted
                = PositionAt(p, "Bridged", usdc)
         /\ book.posted = PositionAt(p, "Bridged", usdc) =>
              PostPair(book, "payout_external_usdc", "hk_usdc", usdc).posted
                = PositionAt(p, "PayingOut", usdc)
         /\ book.posted = PositionAt(p, "PayingOut", usdc) =>
              PostPair(book, "payout_external_cny", "supplier_paid_cny",
                       Quote[p].receiveMinorCny).posted = PositionAt(p, "Settled", usdc)
<1> DEFINE kes == Quote[p].allInMinorKes
           sent == Quote[p].sendMinorKes
           cny == Quote[p].receiveMinorCny
<1>1. kes \in Int /\ sent \in Int /\ cny \in Int
  BY QuoteAssumption
<1>0. \A n \in Int : 0 + n = n
  OBVIOUS
<1>p. /\ PositionAt(p, "AwaitingFunding", usdc) = Holdings(0, 0, 0, 0, 0, 0)
      /\ PositionAt(p, "Funded", usdc) = Holdings(kes, 0, 0, 0, 0, 0)
      /\ PositionAt(p, "OnRamped", got) = Holdings(kes, sent, got, 0, 0, 0)
      /\ PositionAt(p, "Bridging", usdc) = Holdings(kes, sent, usdc, 0, 0, 0)
      /\ PositionAt(p, "Bridged", usdc) = Holdings(kes, sent, usdc, usdc, 0, 0)
      /\ PositionAt(p, "PayingOut", usdc) = Holdings(kes, sent, usdc, usdc, usdc, 0)
      /\ PositionAt(p, "Settled", usdc) = Holdings(kes, sent, usdc, usdc, usdc, cny)
  BY Positions
<1>b. \A debit, credit : \A n \in Int :
        PostPair(book, debit, credit, n).posted = Leg(book.posted, debit, credit, n)
  BY PostPairIsLeg
<1>2. book.posted = Holdings(0, 0, 0, 0, 0, 0) =>
        PostPair(book, "mpesa_collected", "importer_external", kes).posted
          = Holdings(kes, 0, 0, 0, 0, 0)
  <2> HIDE DEF kes
  <2>1. Leg(Holdings(0, 0, 0, 0, 0, 0), "mpesa_collected", "importer_external", kes)
          = Holdings(0 + kes, 0, 0, 0, 0, 0)
    BY <1>1, Legs
  <2> QED BY <1>0, <1>1, <1>b, <2>1
<1>3. book.posted = Holdings(kes, 0, 0, 0, 0, 0) =>
        PostPair(PostPair(book, "onramp_external_kes", "mpesa_collected", sent),
                 "treasury_usdc", "onramp_external_usdc", got).posted
          = Holdings(kes, sent, got, 0, 0, 0)
  <2> HIDE DEF kes, sent
  <2> DEFINE one == PostPair(book, "onramp_external_kes", "mpesa_collected", sent)
  <2>1. Leg(Holdings(kes, 0, 0, 0, 0, 0), "onramp_external_kes", "mpesa_collected", sent)
          = Holdings(kes, 0 + sent, 0, 0, 0, 0)
    BY <1>1, Legs
  <2>2. Leg(Holdings(kes, sent, 0, 0, 0, 0), "treasury_usdc", "onramp_external_usdc", got)
          = Holdings(kes, sent, 0 + got, 0, 0, 0)
    BY <1>1, Legs
  <2>3. one \in Book
    BY <1>1, PostPairIsBook
  <2>4. book.posted = Holdings(kes, 0, 0, 0, 0, 0) =>
          one.posted = Holdings(kes, sent, 0, 0, 0, 0)
    BY <1>0, <1>1, <1>b, <2>1
  <2> HIDE DEF one
  <2>5. PostPair(one, "treasury_usdc", "onramp_external_usdc", got).posted
          = Leg(one.posted, "treasury_usdc", "onramp_external_usdc", got)
    BY <2>3, PostPairIsLeg
  <2>6. book.posted = Holdings(kes, 0, 0, 0, 0, 0) =>
          PostPair(one, "treasury_usdc", "onramp_external_usdc", got).posted
            = Holdings(kes, sent, got, 0, 0, 0)
    BY <1>0, <2>2, <2>4, <2>5
  <2> QED BY <2>6 DEF one
<1>4. book.posted = Holdings(kes, sent, usdc, 0, 0, 0) =>
        PostPair(book, "hk_usdc", "treasury_usdc", usdc).posted
          = Holdings(kes, sent, usdc, usdc, 0, 0)
  <2> HIDE DEF kes, sent
  <2>1. Leg(Holdings(kes, sent, usdc, 0, 0, 0), "hk_usdc", "treasury_usdc", usdc)
          = Holdings(kes, sent, usdc, 0 + usdc, 0, 0)
    BY <1>1, Legs
  <2> QED BY <1>0, <1>b, <2>1
<1>5. book.posted = Holdings(kes, sent, usdc, usdc, 0, 0) =>
        PostPair(book, "payout_external_usdc", "hk_usdc", usdc).posted
          = Holdings(kes, sent, usdc, usdc, usdc, 0)
  <2> HIDE DEF kes, sent
  <2>1. Leg(Holdings(kes, sent, usdc, usdc, 0, 0), "payout_external_usdc", "hk_usdc", usdc)
          = Holdings(kes, sent, usdc, usdc, 0 + usdc, 0)
    BY <1>1, Legs
  <2> QED BY <1>0, <1>b, <2>1
<1>6. book.posted = Holdings(kes, sent, usdc, usdc, usdc, 0) =>
        PostPair(book, "payout_external_cny", "supplier_paid_cny", cny).posted
          = Holdings(kes, sent, usdc, usdc, usdc, cny)
  <2> HIDE DEF kes, sent, cny
  <2>1. ASSUME NEW a \in Int, NEW b \in Int, NEW n \in Int
        PROVE  Leg(Holdings(a, b, usdc, usdc, usdc, 0), "payout_external_cny",
                   "supplier_paid_cny", n) = Holdings(a, b, usdc, usdc, usdc, n)
    BY DEF Leg, Holdings, ACCOUNTS, KesAccounts, UsdcAccounts, CnyAccounts
  <2> QED BY <1>1, <1>b, <2>1
<1> QED BY <1>p, <1>2, <1>3, <1>4, <1>5, <1>6

\* The transaction of a call whose row is still current, on books that follow the
\* status.
LEMMA CommitFollows ==
  ASSUME TypeInv, NEW c \in Calls, Commit(c), NEW p \in Payments, call[c].on = p,
         call[c].snap = pay[p], BooksFollow(p)
  PROVE  BooksFollow(p)'
<1>1. PICK row \in PayRow : row = pay[p]
  BY DEF TypeInv, TypeOK
<1>2. PICK book \in Book : book = ledger[p]
  BY DEF TypeInv, TypeOK
<1>3. PICK got \in Nat : got = call[c].got
  BY DEF TypeInv, TypeOK, CallState
<1>4. /\ call[c].snap = row /\ pay \in [Payments -> PayRow] /\ ledger \in [Payments -> Book]
      /\ got \in Int
  BY <1>1, <1>3 DEF TypeInv, TypeOK
<1>5. row.usdcMinor \in Int
  BY DEF PayRow
<1>6. row.status # "Refunded" =>
        /\ book.posted = PositionAt(p, row.status, row.usdcMinor)
        /\ \A a \in ACCOUNTS : book.reversed[a] = 0
  BY <1>1, <1>2 DEF BooksFollow, Position
\* It is enough to know the new book and the new row.
<1>7. ASSUME NEW status, NEW usdc, NEW after,
             pay'[p].status = status, pay'[p].usdcMinor = usdc, ledger'[p] = after,
             status # "Refunded", row.status # "Refunded",
             after.posted = PositionAt(p, status, usdc), after.reversed = book.reversed
      PROVE  BooksFollow(p)'
  BY <1>6, <1>7 DEF BooksFollow, Position
\* What transition writes.
<1>8. ASSUME NEW to \in PAYMENT_STATUSES, NEW patched \in PayRow, NEW result,
             Transition(c, to, patched, result)
      PROVE  pay'[p].status = to /\ pay'[p].usdcMinor = patched.usdcMinor
  <2>1. pay'[p] = [patched EXCEPT !.status = to]
    BY <1>4, <1>8 DEF Transition
  <2> QED BY <2>1 DEF PayRow
\* What postPair leaves alone.
<1>9. ASSUME NEW debit, NEW credit, NEW n \in Int
      PROVE  PostPair(book, debit, credit, n).reversed = book.reversed
  BY PostPairIsLeg
<1>s. {"AwaitingFunding", "Funded", "OnRamped", "Bridging", "Bridged", "PayingOut",
       "Settled", "Failed"} \subseteq PAYMENT_STATUSES
  BY DEF PAYMENT_STATUSES
<1>q. Quote[p].allInMinorKes \in Int /\ Quote[p].sendMinorKes \in Int
      /\ Quote[p].receiveMinorCny \in Int
  BY QuoteAssumption
<1>10. CASE DoInitiateFunding(c)
  <2> DEFINE patched == [row EXCEPT !.mpesaCheckoutId = got]
  <2>1. /\ row.status = "Quoted" /\ ledger'[p] = book
        /\ Transition(c, "AwaitingFunding", patched, "waiting")
    BY <1>1, <1>2, <1>3, <1>4, <1>10 DEF DoInitiateFunding, Committing
  <2>2. got \in Ids
    BY <1>3, <1>4, <1>10, <2>1 DEF DoInitiateFunding, Committing, TypeInv, AnswersOK
  <2>3. patched \in PayRow /\ patched.usdcMinor = row.usdcMinor
    BY <2>2 DEF PayRow
  <2> HIDE DEF patched
  <2>4. pay'[p].status = "AwaitingFunding" /\ pay'[p].usdcMinor = row.usdcMinor
    BY <1>8, <1>s, <2>1, <2>3
  <2>5. book.posted = PositionAt(p, "AwaitingFunding", row.usdcMinor)
    BY <1>6, <2>1, Positions
  <2> QED BY <1>7, <2>1, <2>4, <2>5
<1>11. CASE CommitFunding(c)
  <2> DEFINE after == PostPair(book, "mpesa_collected", "importer_external",
                               Quote[p].allInMinorKes)
  <2>1. row.status = "AwaitingFunding" /\ Transition(c, "Funded", row, "more")
    BY <1>1, <1>4, <1>11 DEF CommitFunding, Committing
  <2>2. ledger'[p] = after
    BY <1>2, <1>4, <1>11 DEF CommitFunding, Post
  <2>3. pay'[p].status = "Funded" /\ pay'[p].usdcMinor = row.usdcMinor
    BY <1>8, <1>s, <2>1
  <2>4. after.posted = PositionAt(p, "Funded", row.usdcMinor)
    BY <1>5, <1>6, <2>1, Postings
  <2>5. after.reversed = book.reversed
    BY <1>9, <1>q
  <2> HIDE DEF after
  <2> QED BY <1>7, <2>1, <2>2, <2>3, <2>4, <2>5
<1>12. CASE DoOnRamp(c)
  <2> DEFINE one == PostPair(book, "onramp_external_kes", "mpesa_collected",
                             Quote[p].sendMinorKes)
             after == PostPair(one, "treasury_usdc", "onramp_external_usdc", got)
             patched == [row EXCEPT !.usdcMinor = got]
  <2>1. row.status = "Funded" /\ Transition(c, "OnRamped", patched, "more")
    BY <1>1, <1>3, <1>4, <1>12 DEF DoOnRamp, Committing
  <2>2. ledger'[p] = after
    BY <1>2, <1>3, <1>4, <1>12 DEF DoOnRamp
  <2>3. patched \in PayRow /\ patched.usdcMinor = got
    BY DEF PayRow
  <2> HIDE DEF patched
  <2>4. pay'[p].status = "OnRamped" /\ pay'[p].usdcMinor = got
    BY <1>8, <1>s, <2>1, <2>3
  <2>5. after.posted = PositionAt(p, "OnRamped", got)
    BY <1>4, <1>5, <1>6, <2>1, Postings
  <2>6. one \in Book /\ one.reversed = book.reversed
    BY <1>9, <1>q, PostPairIsBook
  <2> HIDE DEF one
  <2>7. after.reversed = book.reversed
    BY <1>4, <2>6, PostPairIsLeg
  <2> HIDE DEF after
  <2> QED BY <1>7, <2>1, <2>2, <2>4, <2>5, <2>7
<1>13. CASE DoBridgeSend(c)
  <2> DEFINE patched == [row EXCEPT !.walletTxHash = got]
  <2>1. /\ row.status = "OnRamped" /\ ledger'[p] = book
        /\ Transition(c, "Bridging", patched, "more")
    BY <1>1, <1>2, <1>3, <1>4, <1>13 DEF DoBridgeSend, Committing
  <2>2. got \in Ids
    BY <1>3, <1>4, <1>13, <2>1 DEF DoBridgeSend, Committing, TypeInv, AnswersOK
  <2>3. patched \in PayRow /\ patched.usdcMinor = row.usdcMinor
    BY <2>2 DEF PayRow
  <2> HIDE DEF patched
  <2>4. pay'[p].status = "Bridging" /\ pay'[p].usdcMinor = row.usdcMinor
    BY <1>8, <1>s, <2>1, <2>3
  <2>5. book.posted = PositionAt(p, "Bridging", row.usdcMinor)
    BY <1>6, <2>1, Positions
  <2> QED BY <1>7, <2>1, <2>4, <2>5
<1>14. CASE DoBridgeConfirm(c)
  <2> DEFINE after == PostPair(book, "hk_usdc", "treasury_usdc", row.usdcMinor)
  <2>1. row.status = "Bridging" /\ Transition(c, "Bridged", row, "more")
    BY <1>1, <1>4, <1>14 DEF DoBridgeConfirm, Committing
  <2>2. ledger'[p] = after
    BY <1>2, <1>4, <1>14 DEF DoBridgeConfirm, Post
  <2>3. pay'[p].status = "Bridged" /\ pay'[p].usdcMinor = row.usdcMinor
    BY <1>8, <1>s, <2>1
  <2>4. after.posted = PositionAt(p, "Bridged", row.usdcMinor)
    BY <1>5, <1>6, <2>1, Postings
  <2>5. after.reversed = book.reversed
    BY <1>5, <1>9
  <2> HIDE DEF after
  <2> QED BY <1>7, <2>1, <2>2, <2>3, <2>4, <2>5
<1>15. CASE DoCreatePayout(c)
  <2> DEFINE after == PostPair(book, "payout_external_usdc", "hk_usdc", row.usdcMinor)
             patched == [row EXCEPT !.payoutId = got]
  <2>1. row.status = "Bridged" /\ Transition(c, "PayingOut", patched, "more")
    BY <1>1, <1>3, <1>4, <1>15 DEF DoCreatePayout, Committing
  <2>2. ledger'[p] = after
    BY <1>2, <1>4, <1>15 DEF DoCreatePayout, Post
  <2>g. got \in Ids
    BY <1>3, <1>4, <1>15, <2>1 DEF DoCreatePayout, Committing, TypeInv, AnswersOK
  <2>3. patched \in PayRow /\ patched.usdcMinor = row.usdcMinor
    BY <2>g DEF PayRow
  <2> HIDE DEF patched
  <2>4. pay'[p].status = "PayingOut" /\ pay'[p].usdcMinor = row.usdcMinor
    BY <1>8, <1>s, <2>1, <2>3
  <2>5. after.posted = PositionAt(p, "PayingOut", row.usdcMinor)
    BY <1>5, <1>6, <2>1, Postings
  <2>6. after.reversed = book.reversed
    BY <1>5, <1>9
  <2> HIDE DEF after
  <2> QED BY <1>7, <2>1, <2>2, <2>4, <2>5, <2>6
<1>16. CASE DoConfirmPayout(c)
  <2> DEFINE after == PostPair(book, "payout_external_cny", "supplier_paid_cny",
                               Quote[p].receiveMinorCny)
  <2>1. row.status = "PayingOut" /\ Transition(c, "Settled", row, "done")
    BY <1>1, <1>4, <1>16 DEF DoConfirmPayout, Committing
  <2>2. ledger'[p] = after
    BY <1>2, <1>4, <1>16 DEF DoConfirmPayout, Post
  <2>3. pay'[p].status = "Settled" /\ pay'[p].usdcMinor = row.usdcMinor
    BY <1>8, <1>s, <2>1
  <2>4. after.posted = PositionAt(p, "Settled", row.usdcMinor)
    BY <1>5, <1>6, <2>1, Postings
  <2>5. after.reversed = book.reversed
    BY <1>9, <1>q
  <2> HIDE DEF after
  <2> QED BY <1>7, <2>1, <2>2, <2>3, <2>4, <2>5
<1>17. CASE FailUnfunded(c)
  <2>1. ledger'[p] = book /\ Transition(c, "Failed", row, "done")
    BY <1>1, <1>2, <1>17 DEF FailUnfunded
  <2>2. CanTransition(row.status, "Failed") /\ row.status \in PAYMENT_STATUSES
    BY <1>4, <2>1 DEF Transition, PayRow
  <2>3. row.status \in {"Quoted", "AwaitingFunding"}
    BY <2>2 DEF CanTransition, TRANSITIONS, PAYMENT_STATUSES
  <2>4. pay'[p].status = "Failed" /\ pay'[p].usdcMinor = row.usdcMinor
    BY <1>8, <1>s, <2>1
  <2>5. book.posted = PositionAt(p, "Failed", row.usdcMinor)
    BY <1>6, <2>3, Positions
  <2> QED BY <1>7, <2>1, <2>3, <2>4, <2>5
<1>18. CASE CompensateFunded(c)
  <2>1. row.status # "Refunded"
    BY <1>4, <1>18 DEF CompensateFunded, Collected
  <2>2. pay'[p].status = "Refunded"
    BY <1>4, <1>18 DEF CompensateFunded, PayRow
  <2>3. ledger'[p] = ReverseAll(book)
    BY <1>2, <1>4, <1>18 DEF CompensateFunded
  <2>4. \A a \in ACCOUNTS : Net(ReverseAll(book), a) = 0
    BY <1>6, <2>1 DEF Net, ReverseAll, Book
  <2> QED BY <2>2, <2>3, <2>4 DEF BooksFollow
<1> QED
  BY <1>10, <1>11, <1>12, <1>13, <1>14, <1>15, <1>16, <1>17, <1>18 DEF Commit

LEMMA NothingHeld == Holdings(0, 0, 0, 0, 0, 0) = NoEntries
<1>1. ASSUME NEW z \in Int, z = 0
      PROVE  Holdings(z, z, z, z, z, z) = NoEntries
  <2>0. \A n \in Int : n + n = n => n - n = n /\ -n = n
    OBVIOUS
  <2>p. z + z = z
    BY <1>1
  <2>1. z - z = z /\ -z = z
    BY <2>0, <2>p, Zenon
  <2>2. \A a \in ACCOUNTS : Holdings(z, z, z, z, z, z)[a] = z
    BY <2>1 DEF Holdings, ACCOUNTS, KesAccounts, UsdcAccounts, CnyAccounts
  <2>3. Holdings(z, z, z, z, z, z) \in [ACCOUNTS -> Int]
    BY HoldingsType
  <2> QED BY <1>1, <2>2, <2>3 DEF NoEntries
<1>2. 0 \in Int /\ 0 = 0
  OBVIOUS
<1> QED BY <1>1, <1>2, Zenon

LEMMA NextLedgerInv == TypeInv /\ SnapInv /\ LedgerInv /\ [Next]_vars => LedgerInv'
<1> SUFFICES ASSUME TypeInv, SnapInv, LedgerInv, [Next]_vars, NEW p \in Payments, ~stale'[p]
             PROVE  BooksFollow(p)'
  BY DEF LedgerInv
<1>t. /\ pay \in [Payments -> PayRow] /\ ledger \in [Payments -> Book]
      /\ stale \in [Payments -> BOOLEAN] /\ \A c \in Calls : call[c].on \in Payments
  BY DEF TypeInv, TypeOK, CallState
<1>1. CASE UNCHANGED <<pay, stale, ledger>>
  <2>1. BooksFollow(p)
    BY <1>1 DEF LedgerInv
  <2> QED BY <1>1, <2>1 DEF BooksFollow, Position
<1>2. ASSUME NEW c \in Calls, Commit(c), Moves(c)
      PROVE  BooksFollow(p)'
  <2>1. PICK row \in PayRow :
          /\ pay' = [pay EXCEPT ![call[c].on] = row]
          /\ stale' = [stale EXCEPT ![call[c].on] =
                         @ \/ pay[call[c].on].status # call[c].snap.status]
          /\ InFlight(c)
    BY <1>2 DEF Moves
  <2>2. CASE call[c].on # p
    <3>1. pay'[p] = pay[p] /\ stale'[p] = stale[p]
      BY <1>t, <2>1, <2>2
    <3>2. \E book : ledger' = [ledger EXCEPT ![call[c].on] = book]
      BY <1>2, <1>t DEF Commit, DoInitiateFunding, CommitFunding, DoOnRamp, DoBridgeSend,
         DoBridgeConfirm, DoCreatePayout, DoConfirmPayout, FailUnfunded, CompensateFunded, Post
    <3>3. ledger'[p] = ledger[p]
      BY <1>t, <2>2, <3>2
    <3>4. BooksFollow(p)
      BY <3>1 DEF LedgerInv
    <3> QED BY <3>1, <3>3, <3>4 DEF BooksFollow, Position
  <2>3. CASE call[c].on = p
    <3>1. ~stale[p] /\ pay[p].status = call[c].snap.status
      BY <1>t, <2>1, <2>3
    <3>2. call[c].snap = pay[p]
      BY <2>1, <2>3, <3>1 DEF SnapInv
    <3>3. BooksFollow(p)
      BY <3>1 DEF LedgerInv
    <3> QED BY <1>2, <2>3, <3>2, <3>3, CommitFollows
  <2> QED BY <2>2, <2>3
<1> QED BY <1>1, <1>2, PayStep

LEMMA LedgerInvSuffices == TypeInv /\ LedgerInv => LedgerFollowsStatus
<1> SUFFICES ASSUME TypeInv, LedgerInv, NEW p \in Payments, ~stale[p]
             PROVE  Nets(ledger[p]) = Position(p)
  BY DEF LedgerFollowsStatus
<1>1. ledger[p] \in Book /\ pay[p] \in PayRow /\ BooksFollow(p)
  BY DEF TypeInv, TypeOK, LedgerInv
<1>2. CASE pay[p].status = "Refunded"
  <2>0. \A usdc : PositionAt(p, "Refunded", usdc) = Holdings(0, 0, 0, 0, 0, 0)
    BY Positions
  <2>1. Position(p) = Holdings(0, 0, 0, 0, 0, 0)
    BY <1>2, <2>0, Zenon DEF Position
  <2>2. Holdings(0, 0, 0, 0, 0, 0) = NoEntries
    BY NothingHeld
  <2>3. Nets(ledger[p]) = NoEntries
    BY <1>1, <1>2 DEF BooksFollow, Nets, NoEntries
  <2> QED BY <2>1, <2>2, <2>3
<1>3. CASE pay[p].status # "Refunded"
  <2>1. ledger[p].posted = Position(p) /\ \A a \in ACCOUNTS : ledger[p].reversed[a] = 0
    BY <1>1, <1>3 DEF BooksFollow
  <2>2. ledger[p].posted \in [ACCOUNTS -> Int]
    BY <1>1 DEF Book
  <2>3. Nets(ledger[p]) = ledger[p].posted
    BY <2>1, <2>2 DEF Nets, Net
  <2> QED BY <2>1, <2>3
<1> QED BY <1>2, <1>3

LEMMA InitLedgerInv == Init => SnapInv /\ LedgerInv
<1> SUFFICES ASSUME Init PROVE SnapInv /\ LedgerInv
  OBVIOUS
<1>1. SnapInv
  BY DEF Init, SnapInv, InFlight, Idle
<1>2. ASSUME NEW p \in Payments PROVE BooksFollow(p)
  <2>1. pay[p].status = "Quoted" /\ ledger[p] = EmptyBook
    BY DEF Init, NewPayment
  <2>0. \A usdc : PositionAt(p, "Quoted", usdc) = Holdings(0, 0, 0, 0, 0, 0)
    BY Positions
  <2>2. Position(p) = Holdings(0, 0, 0, 0, 0, 0)
    BY <2>0, <2>1, Zenon DEF Position
  <2>3. Holdings(0, 0, 0, 0, 0, 0) = NoEntries
    BY NothingHeld
  <2> QED BY <2>1, <2>2, <2>3 DEF BooksFollow, EmptyBook, NoEntries
<1> QED BY <1>1, <1>2 DEF LedgerInv

\* As long as no transaction of a payment has overwritten a status it had not
\* read, its accounts hold what its status stands for: every leg once, and
\* nothing after a refund.
THEOREM LedgerFollows == Spec => []LedgerFollowsStatus
  BY InitTypeInv, NextTypeInv, InitLedgerInv, NextSnapInv, NextLedgerInv,
     LedgerInvSuffices, PTL DEF Spec

=============================================================================
