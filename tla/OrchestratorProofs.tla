------------------------- MODULE OrchestratorProofs -------------------------
(***************************************************************************)
(* Theorems of Orchestrator, for any payments, workers, request slots,     *)
(* settings and bounds: what the queue and the inline loop keep of a       *)
(* payment between two steps, and who may be at work on it.                *)
(***************************************************************************)
EXTENDS Orchestrator, PaymentHistoryProofs

(***************************************************************************)
(* What the engine leaves in the slot of a call.                           *)
(***************************************************************************)
OtherCalls(c) == \A d \in Calls \ {c} : call'[d] = call[d]

\* step: the call goes on with the row it read, or the payment wants no step.
StepLeaves(s, p) ==
  /\ s.op = "step" /\ s.on = p
  /\ \/ s.pc = "adapter" /\ s.snap = pay[p] /\ HasWork(p)
     \/ /\ s.pc = "returned" /\ s.result \in {"waiting", "done"}
        /\ pay[p].status \notin Collected \union {"Quoted"}

FundingLeaves(s, p) ==
  /\ s.op = "applyFunding" /\ s.on = p
  /\ \/ s.pc \in {"commit", "failing"} /\ s.snap = pay[p]
     \/ s.pc = "returned" /\ s.result # "threw"

RefundLeaves(s, p) ==
  /\ s.op = "refund" /\ s.on = p
  /\ \/ s.pc = "failing" /\ s.result = "none"
     \/ s.pc = "returned" /\ s.result = "threw"

LEMMA EnterPuts ==
  ASSUME TypeInv, NEW c \in Calls, NEW p, NEW op, NEW pc, Enter(c, p, op, pc)
  PROVE  /\ OtherCalls(c)
         /\ call'[c].pc = pc /\ call'[c].op = op /\ call'[c].on = p
         /\ call'[c].snap = pay[p] /\ call'[c].result = "none"
<1>1. PICK s : s = [pc |-> pc, op |-> op, on |-> p, snap |-> pay[p], got |-> 0,
                    result |-> "none"]
  OBVIOUS
<1>2. call' = [call EXCEPT ![c] = s] /\ call \in [Calls -> CallState]
  BY <1>1 DEF Enter, TypeInv, TypeOK
<1>3. call'[c] = s /\ OtherCalls(c)
  BY <1>2 DEF OtherCalls
<1> QED BY <1>1, <1>3

LEMMA AnswerPuts ==
  ASSUME TypeInv, NEW c \in Calls, NEW p, NEW op, NEW result, Answer(c, p, op, result)
  PROVE  /\ OtherCalls(c)
         /\ call'[c].pc = "returned" /\ call'[c].op = op /\ call'[c].on = p
         /\ call'[c].result = result
<1>1. PICK s : s = [pc |-> "returned", op |-> op, on |-> p, snap |-> NewPayment,
                    got |-> 0, result |-> result]
  OBVIOUS
<1>2. call' = [call EXCEPT ![c] = s] /\ call \in [Calls -> CallState]
  BY <1>1 DEF Answer, TypeInv, TypeOK
<1>3. call'[c] = s /\ OtherCalls(c)
  BY <1>2 DEF OtherCalls
<1> QED BY <1>1, <1>3

LEMMA ForgetPuts ==
  ASSUME TypeInv, NEW c \in Calls, Forget(c)
  PROVE  /\ OtherCalls(c)
         /\ call'[c].pc = "idle" /\ call'[c].op = "step" /\ call'[c].on = call[c].on
<1>1. PICK s : s = Idle(call[c].on)
  OBVIOUS
<1>2. call' = [call EXCEPT ![c] = s] /\ call \in [Calls -> CallState]
  BY <1>1 DEF Forget, TypeInv, TypeOK
<1>3. call'[c] = s /\ OtherCalls(c)
  BY <1>2 DEF OtherCalls
<1> QED BY <1>1, <1>3 DEF Idle

LEMMA StepPuts ==
  ASSUME TypeInv, NEW c \in Calls, NEW p \in Payments, Step(c, p)
  PROVE  /\ TypeInv'
         /\ call[c].pc = "idle" /\ UNCHANGED rows
         /\ OtherCalls(c) /\ StepLeaves(call'[c], p)
<1>1. [Next]_vars
  BY DEF Next
<1>2. CASE Enter(c, p, "step", "adapter") /\ HasWork(p)
  BY <1>1, <1>2, EnterPuts, NextTypeInv DEF StepLeaves, Step
<1>3. CASE \E result \in {"waiting", "done"} :
             /\ Answer(c, p, "step", result)
             /\ pay[p].status \in TERMINAL_STATUSES \union {"Refunding", "AwaitingFunding"}
  <2>1. pay[p].status \notin Collected \union {"Quoted"}
    BY <1>3 DEF TERMINAL_STATUSES, Collected
  <2> QED BY <1>1, <1>3, <2>1, AnswerPuts, NextTypeInv DEF StepLeaves, Step
<1> QED BY <1>2, <1>3 DEF Step

LEMMA FundingPuts ==
  ASSUME TypeInv, NEW c \in Calls, NEW p \in Payments, NEW success \in BOOLEAN,
         ApplyFunding(c, p, success)
  PROVE  /\ TypeInv'
         /\ call[c].pc = "idle" /\ UNCHANGED rows
         /\ OtherCalls(c) /\ FundingLeaves(call'[c], p)
<1>1. call[c].pc = "idle" /\ UNCHANGED rows /\ UNCHANGED ext
  BY DEF ApplyFunding
<1>2. CASE \E pc \in {"commit", "failing"} :
             Enter(c, p, "applyFunding", pc) /\ pay[p].status = "AwaitingFunding"
  <2> PICK pc \in {"commit", "failing"} :
             Enter(c, p, "applyFunding", pc) /\ pay[p].status = "AwaitingFunding"
    BY <1>2
  <2>1. TypeInv'
    BY <1>1, EnterTypeInv
  <2> QED BY <1>1, <2>1, EnterPuts DEF FundingLeaves
<1>3. CASE \E result \in Results : Answer(c, p, "applyFunding", result) /\ result # "threw"
  <2> PICK result \in Results : Answer(c, p, "applyFunding", result) /\ result # "threw"
    BY <1>3
  <2>1. call' \in [Calls -> CallState] /\ AnswersOK'
    BY AnswerTypeInv
  <2>2. TypeInv'
    BY <1>1, <2>1 DEF TypeInv, TypeOK, rows
  <2> QED BY <1>1, <2>2, AnswerPuts DEF FundingLeaves
<1> QED BY <1>2, <1>3 DEF ApplyFunding, Results

LEMMA RefundPuts ==
  ASSUME TypeInv, NEW c \in Calls, NEW p \in Payments, RefundRequest(c, p)
  PROVE  /\ TypeInv'
         /\ call[c].pc = "idle" /\ UNCHANGED rows
         /\ OtherCalls(c) /\ RefundLeaves(call'[c], p)
<1>1. [Next]_vars
  BY DEF Next
<1>2. CASE Enter(c, p, "refund", "failing")
  BY <1>1, <1>2, EnterPuts, NextTypeInv DEF RefundLeaves, RefundRequest
<1>3. CASE Answer(c, p, "refund", "threw")
  BY <1>1, <1>3, AnswerPuts, NextTypeInv DEF RefundLeaves, RefundRequest
<1> QED BY <1>2, <1>3 DEF RefundRequest

\* A transaction: the call asks for a next step exactly if the payment has
\* collected money and is not over.
CommitLeaves(c, s) ==
  /\ s.pc = "returned" /\ s.op = call[c].op /\ s.on = call[c].on
  /\ s.result # "threw" /\ (call[c].pc = "failing" => s.result = "done")
  /\ \E row \in PayRow :
       /\ pay' = [pay EXCEPT ![call[c].on] = row]
       /\ row.status # "Quoted"
       /\ s.result = "more" <=> row.status \in Collected
       /\ call[c].snap.status = "Quoted" => row.status \in {"AwaitingFunding", "Failed"}

LEMMA TransitionLeaves ==
  ASSUME TypeInv, NEW c \in Calls, NEW to \in PAYMENT_STATUSES \ {"Quoted"},
         NEW row \in PayRow, NEW result, Transition(c, to, row, result),
         result = "more" <=> to \in Collected, result # "threw",
         call[c].pc = "failing" => result = "done"
  PROVE  OtherCalls(c) /\ CommitLeaves(c, call'[c])
<1>1. PICK new : new = [row EXCEPT !.status = to]
  OBVIOUS
<1>2. new \in PayRow /\ new.status = to
  BY <1>1 DEF PayRow
<1>3. pay' = [pay EXCEPT ![call[c].on] = new]
  BY <1>1 DEF Transition
<1>4. call[c].snap.status = "Quoted" => to \in {"AwaitingFunding", "Failed"}
  BY DEF Transition, CanTransition, TRANSITIONS
<1>5. /\ OtherCalls(c)
      /\ call'[c].pc = "returned" /\ call'[c].op = call[c].op
      /\ call'[c].on = call[c].on /\ call'[c].result = result
  BY AnswerPuts DEF Transition
<1> QED BY <1>2, <1>3, <1>4, <1>5 DEF CommitLeaves

LEMMA CommitPuts ==
  ASSUME TypeInv, NEW c \in Calls, Commit(c)
  PROVE  OtherCalls(c) /\ CommitLeaves(c, call'[c])
<1> DEFINE p == call[c].on
<1>1. /\ p \in Payments /\ pay[p] \in PayRow /\ call[c].got \in Nat
      /\ call[c].snap.status \in PAYMENT_STATUSES
  BY DEF TypeInv, TypeOK, CallState, PayRow
<1>s. {"AwaitingFunding", "Funded", "OnRamped", "Bridging", "Bridged", "PayingOut",
       "Settled", "Failed", "Refunded"} \subseteq PAYMENT_STATUSES \ {"Quoted"}
  BY DEF PAYMENT_STATUSES
<1>2. /\ DoInitiateFunding(c) => [pay[p] EXCEPT !.mpesaCheckoutId = call[c].got] \in PayRow
      /\ DoOnRamp(c) => [pay[p] EXCEPT !.usdcMinor = call[c].got] \in PayRow
      /\ DoBridgeSend(c) => [pay[p] EXCEPT !.walletTxHash = call[c].got] \in PayRow
      /\ DoCreatePayout(c) => [pay[p] EXCEPT !.payoutId = call[c].got] \in PayRow
  BY <1>1 DEF DoInitiateFunding, DoOnRamp, DoBridgeSend, DoCreatePayout, Committing, TypeInv,
              AnswersOK, PayRow
<1>3. CASE CompensateFunded(c)
  <2>1. PICK row : row = [pay[p] EXCEPT !.status = "Refunded"]
    OBVIOUS
  <2>2. row \in PayRow /\ row.status = "Refunded"
    BY <1>1, <1>s, <2>1 DEF PayRow
  <2>3. pay' = [pay EXCEPT ![p] = row]
    BY <1>1, <1>3, <2>1 DEF CompensateFunded, TypeInv, TypeOK
  <2>4. call[c].snap.status # "Quoted"
    BY <1>3 DEF CompensateFunded, Collected
  <2>5. /\ OtherCalls(c)
        /\ call'[c].pc = "returned" /\ call'[c].op = call[c].op
        /\ call'[c].on = call[c].on /\ call'[c].result = "done"
    BY <1>3, AnswerPuts DEF CompensateFunded
  <2> QED BY <2>2, <2>3, <2>4, <2>5 DEF CommitLeaves, Collected
<1>4. CASE FailUnfunded(c)
  BY <1>1, <1>4, <1>s, TransitionLeaves DEF FailUnfunded, Collected
<1>5. CASE DoInitiateFunding(c)
  BY <1>1, <1>2, <1>5, <1>s, TransitionLeaves DEF DoInitiateFunding, Committing, Collected
<1>6. CASE CommitFunding(c)
  BY <1>1, <1>2, <1>6, <1>s, TransitionLeaves DEF CommitFunding, Committing, Collected
<1>7. CASE DoOnRamp(c)
  BY <1>1, <1>2, <1>7, <1>s, TransitionLeaves DEF DoOnRamp, Committing, Collected
<1>8. CASE DoBridgeSend(c)
  BY <1>1, <1>2, <1>8, <1>s, TransitionLeaves DEF DoBridgeSend, Committing, Collected
<1>9. CASE DoBridgeConfirm(c)
  BY <1>1, <1>2, <1>9, <1>s, TransitionLeaves DEF DoBridgeConfirm, Committing, Collected
<1>10. CASE DoCreatePayout(c)
  BY <1>1, <1>2, <1>10, <1>s, TransitionLeaves DEF DoCreatePayout, Committing, Collected
<1>11. CASE DoConfirmPayout(c)
  BY <1>1, <1>2, <1>11, <1>s, TransitionLeaves DEF DoConfirmPayout, Committing, Collected
<1> QED
  BY <1>3, <1>4, <1>5, <1>6, <1>7, <1>8, <1>9, <1>10, <1>11 DEF Commit

\* Everything else a call in flight may do by itself leaves the rows alone.
WaitsOrThrows(c, s) ==
  /\ UNCHANGED rows
  /\ s.op = call[c].op /\ s.on = call[c].on
  /\ \/ /\ s.pc \in {"commit", "failing"} /\ s.snap = call[c].snap
        /\ s.result = call[c].result /\ call[c].pc # "failing"
     \/ s.pc = "returned" /\ (s.result = "threw" \/ (s.result = "waiting" /\ LiveConfirm))

LEMMA GoesOnPuts ==
  ASSUME TypeInv, NEW c \in Calls,
         \/ \E pc \in {"commit", "failing"} : call' = [call EXCEPT ![c].pc = pc]
         \/ \E got : call' = [call EXCEPT ![c].pc = "commit", ![c].got = got]
  PROVE  /\ OtherCalls(c)
         /\ call'[c].pc \in {"commit", "failing"} /\ call'[c].op = call[c].op
         /\ call'[c].on = call[c].on /\ call'[c].snap = call[c].snap
         /\ call'[c].result = call[c].result
<1>1. call \in [Calls -> CallState]
  BY DEF TypeInv, TypeOK
<1>2. CASE \E pc \in {"commit", "failing"} : call' = [call EXCEPT ![c].pc = pc]
  BY <1>1, <1>2 DEF OtherCalls, CallState
<1>3. CASE \E got : call' = [call EXCEPT ![c].pc = "commit", ![c].got = got]
  BY <1>1, <1>3 DEF OtherCalls, CallState
<1> QED BY <1>2, <1>3

LEMMA WorkPuts ==
  ASSUME TypeInv, NEW c \in Calls, Work(c), call[c].pc = "adapter" => call[c].op = "step"
  PROVE  /\ TypeInv'
         /\ InFlight(c) /\ OtherCalls(c)
         /\ WaitsOrThrows(c, call'[c]) \/ (Commit(c) /\ CommitLeaves(c, call'[c]))
<1>1. TypeInv'
  <2>1. [Next]_vars
    BY DEF Next
  <2> QED BY <2>1, NextTypeInv
<1>2. CASE Commit(c)
  <2>1. InFlight(c)
    BY <1>2, CommitWrites DEF Writes
  <2> QED BY <1>1, <1>2, <2>1, CommitPuts
<1>3. ASSUME InFlight(c), UNCHANGED rows, call[c].pc # "failing",
             \/ \E pc \in {"commit", "failing"} : call' = [call EXCEPT ![c].pc = pc]
             \/ \E got : call' = [call EXCEPT ![c].pc = "commit", ![c].got = got]
      PROVE  OtherCalls(c) /\ WaitsOrThrows(c, call'[c])
  BY <1>3, GoesOnPuts DEF WaitsOrThrows
<1>4. CASE CallAdapter(c)
  <2>1. InFlight(c) /\ UNCHANGED rows /\ call[c].pc # "failing"
    BY <1>4 DEF CallAdapter, InitiateStkPush, ConvertKesToUsdc, Send, CreatePayout,
                Request, InFlight
  <2>2. \/ call' = [call EXCEPT ![c].pc = "failing"]
        \/ \E got : call' = [call EXCEPT ![c].pc = "commit", ![c].got = got]
    BY <1>4 DEF CallAdapter, InitiateStkPush, ConvertKesToUsdc, Send, CreatePayout, Request
  <2> QED BY <1>1, <1>3, <2>1, <2>2
<1>5. CASE Poll(c) \/ AdapterThrows(c) \/ TransactionFails(c)
  <2>1. InFlight(c) /\ UNCHANGED rows
    BY <1>5 DEF Poll, ConfirmTransfer, ConfirmPayout, AdapterThrows, TransactionFails, InFlight
  <2>2. \/ /\ \E pc \in {"commit", "failing"} : call' = [call EXCEPT ![c].pc = pc]
           /\ call[c].pc # "failing"
        \/ Answer(c, call[c].on, call[c].op, "threw")
        \/ LiveConfirm /\ Answer(c, call[c].on, call[c].op, "waiting")
    BY <1>5 DEF Poll, ConfirmTransfer, ConfirmPayout, AdapterThrows, TransactionFails
  <2>3. CASE \E result \in {"threw", "waiting"} :
               /\ Answer(c, call[c].on, call[c].op, result)
               /\ result = "waiting" => LiveConfirm
    BY <1>1, <2>1, <2>3, AnswerPuts DEF WaitsOrThrows
  <2> QED BY <1>1, <1>3, <2>1, <2>2, <2>3
<1> QED BY <1>2, <1>4, <1>5 DEF Work

(***************************************************************************)
(* The slots.  A worker holds a job on the payment its call is about for   *)
(* as long as the call lasts; a request steps exactly while it has runs of *)
(* driveInline to make, and its loop never reaches the bound between two   *)
(* steps.                                                                  *)
(***************************************************************************)
RequestSlot(r) ==
  /\ runs[r] = 0 => loops[r] = 0
  /\ call[r].pc = "idle" /\ runs[r] > 0 => loops[r] < MAX_INLINE_STEPS
  /\ call[r].pc # "idle" => (call[r].op = "step" <=> runs[r] > 0)
  /\ call[r].pc = "adapter" => call[r].op = "step"
  /\ call[r].op = "refund" => /\ call[r].pc \in {"failing", "returned"}
                              /\ call[r].result # "more"

WorkerSlot(w) ==
  IF call[w].pc = "idle" THEN active[w] = {}
  ELSE /\ call[w].op = "step"
       /\ \E j \in Jobs : active[w] = {j} /\ j.on = call[w].on

SlotsInv ==
  /\ \A r \in Requests : RequestSlot(r)
  /\ \A w \in Workers : WorkerSlot(w)

OrchestrationOK ==
  /\ setting \in Settings
  /\ queue \in [Jobs -> Nat]
  /\ active \in [Workers -> SUBSET Jobs]
  /\ runs \in [Requests -> 0..2]
  /\ loops \in [Requests -> 0..MAX_INLINE_STEPS]
  /\ asked \in [Payments -> [drives : 0..setting.drives, refunds : 0..setting.refunds]]
  /\ callbacks \in [Payments -> 0..setting.callbacks]
  /\ reported \in [Payments -> BOOLEAN]
  /\ disturbed \in [Payments -> BOOLEAN]

OrchestratorInv == TypeInv /\ OrchestrationOK /\ SlotsInv

\* A step of the system is about one slot, c.
OtherSlots(c) ==
  /\ OtherCalls(c)
  /\ \A d \in Requests \ {c} : runs'[d] = runs[d] /\ loops'[d] = loops[d]
  /\ \A d \in Workers \ {c} : active'[d] = active[d]

Bounded ==
  /\ MaxAttempts \in Nat \ {0} /\ MAX_INLINE_STEPS \in Nat \ {0}
  /\ \A s \in Settings : s.drives \in Nat /\ s.refunds \in Nat /\ s.callbacks \in Nat

LEMMA BoundsOK == Bounded
  BY OrchestratorAssumption DEF Bounded

LEMMA SlotKinds ==
  /\ Workers \subseteq Calls /\ Requests \subseteq Calls
  /\ \A r \in Requests : r \notin Workers
  /\ \A c \in Calls : c \in Workers \/ c \in Requests
  BY SlotAssumption

LEMMA RequestMoves ==
  ASSUME SlotsInv, NEW r \in Requests, OtherSlots(r), RequestSlot(r)'
  PROVE  SlotsInv'
<1>1. ASSUME NEW d \in Requests PROVE RequestSlot(d)'
  <2>1. CASE d = r
    BY <2>1
  <2>2. CASE d # r
    <3>1. call'[d] = call[d] /\ runs'[d] = runs[d] /\ loops'[d] = loops[d]
      BY <2>2, SlotKinds DEF OtherSlots, OtherCalls
    <3> QED BY <3>1 DEF SlotsInv, RequestSlot
  <2> QED BY <2>1, <2>2
<1>2. ASSUME NEW w \in Workers PROVE WorkerSlot(w)'
  <2>1. call'[w] = call[w] /\ active'[w] = active[w]
    BY SlotKinds DEF OtherSlots, OtherCalls
  <2> QED BY <2>1 DEF SlotsInv, WorkerSlot
<1> QED BY <1>1, <1>2 DEF SlotsInv

LEMMA WorkerMoves ==
  ASSUME SlotsInv, NEW w \in Workers, OtherSlots(w), WorkerSlot(w)'
  PROVE  SlotsInv'
<1>1. ASSUME NEW d \in Requests PROVE RequestSlot(d)'
  <2>1. call'[d] = call[d] /\ runs'[d] = runs[d] /\ loops'[d] = loops[d]
    BY SlotKinds DEF OtherSlots, OtherCalls
  <2> QED BY <2>1 DEF SlotsInv, RequestSlot
<1>2. ASSUME NEW d \in Workers PROVE WorkerSlot(d)'
  <2>1. CASE d = w
    BY <2>1
  <2>2. CASE d # w
    <3>1. call'[d] = call[d] /\ active'[d] = active[d]
      BY <2>2, SlotKinds DEF OtherSlots, OtherCalls
    <3> QED BY <3>1 DEF SlotsInv, WorkerSlot
  <2> QED BY <2>1, <2>2
<1> QED BY <1>1, <1>2 DEF SlotsInv

LEMMA CountsOn ==
  /\ \A n \in Nat : \A k \in 0..n : k < n => k + 1 \in 0..n
  /\ \A k \in 0..2 : k > 0 => k - 1 \in 0..2
  OBVIOUS

LEMMA DriveTypes ==
  ASSUME OrchestratorInv, NEW p \in Payments, Drive(p)
  PROVE  asked' \in [Payments -> [drives : 0..setting.drives, refunds : 0..setting.refunds]]
<1>1. PICK n : n = asked[p].drives + 1
  OBVIOUS
<1>2. asked[p].drives \in 0..setting.drives /\ asked[p].drives < setting.drives
      /\ setting.drives \in Nat
  BY BoundsOK DEF OrchestratorInv, OrchestrationOK, Bounded, Drive
<1>3. n \in 0..setting.drives
  BY <1>1, <1>2, CountsOn
<1>4. PICK row : row = [asked[p] EXCEPT !.drives = n]
  OBVIOUS
<1>5. row \in [drives : 0..setting.drives, refunds : 0..setting.refunds]
  BY <1>3, <1>4 DEF OrchestratorInv, OrchestrationOK
<1>6. asked' = [asked EXCEPT ![p] = row]
  BY <1>1, <1>4 DEF Drive
<1> QED BY <1>5, <1>6 DEF OrchestratorInv, OrchestrationOK

LEMMA NewJobIsJob ==
  ASSUME NEW p \in Payments
  PROVE  NewJob(p) \in Jobs /\ NewJob(p).on = p
<1>1. MaxAttempts \in Nat \ {0}
  BY BoundsOK DEF Bounded
<1>2. 0 \in 0..(MaxAttempts - 1) /\ 0 \in 0..1
  BY <1>1
<1> QED BY <1>2 DEF NewJob, Jobs

LEMMA AddPuts ==
  ASSUME queue \in [Jobs -> Nat], NEW j \in Jobs, Add(j)
  PROVE  /\ queue' \in [Jobs -> Nat]
         /\ queue'[j] = queue[j] + 1
         /\ \A k \in Jobs \ {j} : queue'[k] = queue[k]
  BY DEF Add

\* Drive.
LEMMA DriveKeeps ==
  ASSUME OrchestratorInv, NEW p \in Payments, Drive(p)
  PROVE  /\ OrchestratorInv' /\ UNCHANGED rows
         /\ \/ UNCHANGED <<vars, runs, loops, active>> /\ Add(NewJob(p))
            \/ /\ UNCHANGED queue
               /\ \E r \in Requests : /\ Free(r) /\ OtherSlots(r) /\ StepLeaves(call'[r], p)
                                      /\ call[r].pc = "idle"
                                      /\ runs'[r] = 1 /\ loops'[r] = 1
<1>1. /\ asked' \in [Payments -> [drives : 0..setting.drives, refunds : 0..setting.refunds]]
      /\ UNCHANGED <<setting, active, callbacks, reported>>
      /\ disturbed' \in [Payments -> BOOLEAN]
      /\ TypeInv /\ OrchestrationOK /\ SlotsInv
  BY DriveTypes DEF Drive, Disturb, OrchestratorInv, OrchestrationOK
<1>2. CASE UNCHANGED <<vars, runs, loops>> /\ Add(NewJob(p))
  <2>1. TypeInv' /\ UNCHANGED rows
    BY <1>1, <1>2 DEF vars, rows, TypeInv, TypeOK, AnswersOK
  <2>2. queue' \in [Jobs -> Nat]
    BY <1>1, <1>2, NewJobIsJob, AddPuts DEF OrchestrationOK
  <2>3. SlotsInv'
    BY <1>1, <1>2 DEF SlotsInv, RequestSlot, WorkerSlot, vars
  <2>4. OrchestrationOK'
    BY <1>1, <1>2, <2>2 DEF OrchestrationOK
  <2> QED BY <1>1, <1>2, <2>1, <2>3, <2>4 DEF OrchestratorInv
<1>3. CASE /\ UNCHANGED queue
           /\ \E r \in Requests : /\ Available(r) /\ Step(r, p)
                                  /\ runs' = [runs EXCEPT ![r] = 1]
                                  /\ loops' = [loops EXCEPT ![r] = 1]
  <2> PICK r \in Requests : /\ Available(r) /\ Step(r, p)
                            /\ runs' = [runs EXCEPT ![r] = 1]
                            /\ loops' = [loops EXCEPT ![r] = 1]
    BY <1>3
  <2>1. TypeInv' /\ UNCHANGED rows /\ OtherCalls(r) /\ StepLeaves(call'[r], p)
        /\ Free(r) /\ call[r].pc = "idle"
    BY <1>1, StepPuts, SlotKinds DEF Available
  <2>2. /\ runs'[r] = 1 /\ loops'[r] = 1 /\ OtherSlots(r)
        /\ runs' \in [Requests -> 0..2]
    BY <1>1, <2>1 DEF OrchestrationOK, OtherSlots
  <2>3. loops' \in [Requests -> 0..MAX_INLINE_STEPS]
    <3>1. 1 \in 0..MAX_INLINE_STEPS
      BY BoundsOK DEF Bounded
    <3> QED BY <1>1, <3>1 DEF OrchestrationOK
  <2>4. RequestSlot(r)'
    <3>1. call'[r].op = "step" /\ call'[r].pc \in {"adapter", "returned"}
      BY <2>1 DEF StepLeaves
    <3> QED BY <2>2, <3>1 DEF RequestSlot
  <2>5. SlotsInv'
    BY <1>1, <2>2, <2>4, RequestMoves
  <2>6. OrchestrationOK'
    BY <1>1, <1>3, <2>2, <2>3 DEF OrchestrationOK
  <2> QED BY <1>3, <2>1, <2>2, <2>5, <2>6 DEF OrchestratorInv
<1> QED BY <1>1, <1>2, <1>3 DEF Drive

\* onFunding's first half, for a delivery or for simulateFunding.
LEMMA FundingKeeps ==
  ASSUME OrchestratorInv, NEW r \in Requests, NEW p \in Payments, NEW success \in BOOLEAN,
         OnFunding(r, p, success)
  PROVE  /\ OrchestratorInv' /\ UNCHANGED rows
         /\ Free(r) /\ OtherSlots(r) /\ FundingLeaves(call'[r], p)
         /\ runs'[r] = 0 /\ loops'[r] = 0
<1>1. /\ TypeInv /\ OrchestrationOK /\ SlotsInv
      /\ UNCHANGED <<setting, queue, active, runs, loops, asked, reported>>
      /\ disturbed' \in [Payments -> BOOLEAN]
      /\ Free(r)
  BY DEF OnFunding, Disturb, OrchestratorInv, OrchestrationOK, Available
<1>2. callbacks' \in [Payments -> 0..setting.callbacks]
  <2>1. /\ callbacks[p] \in 0..setting.callbacks /\ callbacks[p] < setting.callbacks
        /\ setting.callbacks \in Nat
    BY <1>1, BoundsOK DEF OnFunding, OrchestrationOK, Bounded
  <2>2. callbacks[p] + 1 \in 0..setting.callbacks
    BY <2>1, CountsOn
  <2> QED BY <1>1, <2>2 DEF OnFunding, OrchestrationOK
<1>3. TypeInv' /\ UNCHANGED rows /\ OtherCalls(r) /\ FundingLeaves(call'[r], p)
  BY <1>1, FundingPuts, SlotKinds DEF OnFunding
<1>4. OtherSlots(r) /\ runs'[r] = 0 /\ loops'[r] = 0
  BY <1>1, <1>3 DEF OtherSlots, Free, SlotsInv, RequestSlot
<1>5. RequestSlot(r)'
  <2>1. call'[r].op = "applyFunding" /\ call'[r].pc \in {"commit", "failing", "returned"}
    BY <1>3 DEF FundingLeaves
  <2> QED BY <1>4, <2>1 DEF RequestSlot
<1>6. OrchestrationOK'
  BY <1>1, <1>2 DEF OrchestrationOK
<1> QED BY <1>1, <1>3, <1>4, <1>5, <1>6, RequestMoves DEF OrchestratorInv

LEMMA RefundKeeps ==
  ASSUME OrchestratorInv, NEW r \in Requests, NEW p \in Payments, Refund(r, p)
  PROVE  /\ OrchestratorInv' /\ UNCHANGED rows
         /\ Free(r) /\ OtherSlots(r) /\ RefundLeaves(call'[r], p)
         /\ runs'[r] = 0 /\ loops'[r] = 0
<1>1. /\ TypeInv /\ OrchestrationOK /\ SlotsInv
      /\ UNCHANGED <<setting, queue, active, runs, loops, callbacks, reported>>
      /\ disturbed' \in [Payments -> BOOLEAN]
      /\ Free(r)
  BY DEF Refund, Disturb, OrchestratorInv, OrchestrationOK, Available
<1>2. asked' \in [Payments -> [drives : 0..setting.drives, refunds : 0..setting.refunds]]
  <2>1. PICK n : n = asked[p].refunds + 1
    OBVIOUS
  <2>2. asked[p].refunds \in 0..setting.refunds /\ asked[p].refunds < setting.refunds
        /\ setting.refunds \in Nat
    BY <1>1, BoundsOK DEF Refund, OrchestrationOK, Bounded
  <2>3. n \in 0..setting.refunds
    BY <2>1, <2>2, CountsOn
  <2>4. PICK row : row = [asked[p] EXCEPT !.refunds = n]
    OBVIOUS
  <2>5. row \in [drives : 0..setting.drives, refunds : 0..setting.refunds]
    BY <1>1, <2>3, <2>4 DEF OrchestrationOK
  <2>6. asked' = [asked EXCEPT ![p] = row]
    BY <2>1, <2>4 DEF Refund
  <2> QED BY <1>1, <2>5, <2>6 DEF OrchestrationOK
<1>3. TypeInv' /\ UNCHANGED rows /\ OtherCalls(r) /\ RefundLeaves(call'[r], p)
  BY <1>1, RefundPuts, SlotKinds DEF Refund
<1>4. OtherSlots(r) /\ runs'[r] = 0 /\ loops'[r] = 0
  BY <1>1, <1>3 DEF OtherSlots, Free, SlotsInv, RequestSlot
<1>5. RequestSlot(r)'
  <2>1. call'[r].op = "refund" /\ call'[r].pc \in {"failing", "returned"}
        /\ call'[r].result # "more"
    BY <1>3 DEF RefundLeaves
  <2> QED BY <1>4, <2>1 DEF RequestSlot
<1>6. OrchestrationOK'
  BY <1>1, <1>2 DEF OrchestrationOK
<1> QED BY <1>1, <1>3, <1>4, <1>5, <1>6, RequestMoves DEF OrchestratorInv

LEMMA OnPayment ==
  ASSUME TypeInv
  PROVE  /\ \A c \in Calls : call[c].on \in Payments
         /\ \A r \in Requests : call[r].on \in Payments
  BY SlotKinds DEF TypeInv, TypeOK, CallState

LEMMA ReturnPuts ==
  ASSUME TypeInv, NEW c \in Calls, Return(c)
  PROVE  /\ TypeInv' /\ UNCHANGED rows
         /\ OtherCalls(c) /\ call'[c].pc = "idle" /\ call'[c].op = "step"
         /\ call'[c].on = call[c].on
<1>1. [Next]_vars /\ Forget(c) /\ UNCHANGED rows
  BY DEF Next, Return
<1> QED BY <1>1, NextTypeInv, ForgetPuts

\* onFunding's second half.
LEMMA AppliedKeeps ==
  ASSUME OrchestratorInv, NEW r \in Requests, FundingApplied(r)
  PROVE  /\ OrchestratorInv' /\ UNCHANGED rows
         /\ OtherSlots(r) /\ call'[r].pc = "idle" /\ call'[r].op = "step"
         /\ call'[r].on = call[r].on
         /\ call[r].on \in Payments
         /\ \/ /\ call[r].result = "more" /\ Add(NewJob(call[r].on))
               /\ runs'[r] = 0
            \/ UNCHANGED queue /\ runs'[r] = 0 /\ call[r].result # "more"
            \/ /\ UNCHANGED queue
               /\ runs'[r] \in {1, 2} /\ (call[r].result = "more" => runs'[r] = 2)
<1>1. /\ TypeInv /\ OrchestrationOK /\ SlotsInv
      /\ UNCHANGED <<setting, active, loops, asked, callbacks, reported, disturbed>>
      /\ runs[r] = 0 /\ loops[r] = 0 /\ call[r].on \in Payments
  <2>1. /\ TypeInv /\ OrchestrationOK /\ SlotsInv
        /\ UNCHANGED <<setting, active, loops, asked, callbacks, reported, disturbed>>
        /\ call[r].pc = "returned" /\ call[r].op = "applyFunding"
    BY DEF FundingApplied, OrchestratorInv
  <2>2. RequestSlot(r) /\ runs[r] \in 0..2
    BY <2>1 DEF SlotsInv, OrchestrationOK
  <2>3. call[r].on \in Payments
    BY <2>1, OnPayment
  <2> QED BY <2>1, <2>2, <2>3 DEF RequestSlot
<1>2. /\ TypeInv' /\ UNCHANGED rows
      /\ OtherCalls(r) /\ call'[r].pc = "idle" /\ call'[r].op = "step"
      /\ call'[r].on = call[r].on
  BY <1>1, ReturnPuts, SlotKinds DEF FundingApplied
<1>3. \/ /\ call[r].result = "more" /\ Add(NewJob(call[r].on)) /\ UNCHANGED runs
      \/ UNCHANGED <<queue, runs>> /\ call[r].result # "more"
      \/ /\ UNCHANGED queue
         /\ \E n \in {1, 2} : /\ runs' = [runs EXCEPT ![r] = n]
                              /\ call[r].result = "more" => n = 2
  BY DEF FundingApplied
<1>4. queue' \in [Jobs -> Nat]
  BY <1>1, <1>3, AddPuts, NewJobIsJob DEF OrchestrationOK
<1>5. /\ runs' \in [Requests -> 0..2] /\ OtherSlots(r)
      /\ \/ runs'[r] = 0 /\ UNCHANGED runs
         \/ \E n \in {1, 2} : runs'[r] = n /\ runs' = [runs EXCEPT ![r] = n]
  BY <1>1, <1>2, <1>3 DEF OrchestrationOK, OtherSlots
<1>6. RequestSlot(r)'
  <2>1. loops'[r] = 0 /\ 0 < MAX_INLINE_STEPS
    BY <1>1, BoundsOK DEF Bounded
  <2> QED BY <1>2, <2>1 DEF RequestSlot
<1>7. OrchestrationOK'
  BY <1>1, <1>4, <1>5 DEF OrchestrationOK
<1>8. \/ /\ call[r].result = "more" /\ Add(NewJob(call[r].on)) /\ runs'[r] = 0
      \/ UNCHANGED queue /\ runs'[r] = 0 /\ call[r].result # "more"
      \/ /\ UNCHANGED queue
         /\ runs'[r] \in {1, 2} /\ (call[r].result = "more" => runs'[r] = 2)
  <2>1. CASE UNCHANGED runs /\ (\/ call[r].result = "more" /\ Add(NewJob(call[r].on))
                                \/ UNCHANGED queue /\ call[r].result # "more")
    <3>1. runs'[r] = 0
      BY <1>1, <2>1
    <3> QED BY <2>1, <3>1
  <2>2. ASSUME NEW n \in {1, 2}, UNCHANGED queue, runs' = [runs EXCEPT ![r] = n],
               call[r].result = "more" => n = 2
        PROVE  runs'[r] \in {1, 2} /\ (call[r].result = "more" => runs'[r] = 2)
    BY <1>1, <2>2 DEF OrchestrationOK
  <2> QED BY <1>3, <2>1, <2>2
<1> QED BY <1>1, <1>2, <1>5, <1>6, <1>7, <1>8, RequestMoves DEF OrchestratorInv

\* driveInline: one more step.
LEMMA InlineStepKeeps ==
  ASSUME OrchestratorInv, NEW r \in Requests, InlineStep(r)
  PROVE  /\ OrchestratorInv' /\ UNCHANGED <<rows, queue>>
         /\ OtherSlots(r) /\ call[r].pc = "idle" /\ runs[r] > 0
         /\ StepLeaves(call'[r], call[r].on)
         /\ runs'[r] = runs[r] /\ loops'[r] = loops[r] + 1
         /\ call[r].on \in Payments
<1>1. /\ TypeInv /\ OrchestrationOK /\ SlotsInv
      /\ UNCHANGED <<setting, queue, active, runs, asked, callbacks, reported, disturbed>>
      /\ call[r].pc = "idle" /\ runs[r] > 0 /\ call[r].on \in Payments
      /\ loops[r] < MAX_INLINE_STEPS
      /\ loops' = [loops EXCEPT ![r] = loops[r] + 1]
  <2>1. /\ TypeInv /\ OrchestrationOK /\ SlotsInv
        /\ UNCHANGED <<setting, queue, active, runs, asked, callbacks, reported, disturbed>>
        /\ call[r].pc = "idle" /\ runs[r] > 0
        /\ loops' = [loops EXCEPT ![r] = loops[r] + 1]
    BY DEF InlineStep, OrchestratorInv
  <2>2. RequestSlot(r) /\ call[r].on \in Payments
    BY <2>1, OnPayment DEF SlotsInv
  <2> QED BY <2>1, <2>2 DEF RequestSlot
<1>2. TypeInv' /\ UNCHANGED rows /\ OtherCalls(r) /\ StepLeaves(call'[r], call[r].on)
  BY <1>1, StepPuts, SlotKinds DEF InlineStep
<1>3. loops[r] + 1 \in 0..MAX_INLINE_STEPS
  <2>1. loops[r] \in 0..MAX_INLINE_STEPS /\ MAX_INLINE_STEPS \in Nat
    BY <1>1, BoundsOK DEF OrchestrationOK, Bounded
  <2> QED BY <1>1, <2>1, CountsOn
<1>4. /\ loops' \in [Requests -> 0..MAX_INLINE_STEPS] /\ loops'[r] = loops[r] + 1
      /\ OtherSlots(r) /\ runs'[r] = runs[r]
  BY <1>1, <1>2, <1>3 DEF OrchestrationOK, OtherSlots
<1>5. RequestSlot(r)'
  <2>1. call'[r].op = "step" /\ call'[r].pc \in {"adapter", "returned"}
    BY <1>2 DEF StepLeaves
  <2>2. runs[r] # 0
    BY <1>1 DEF OrchestrationOK
  <2> QED BY <1>1, <1>4, <2>1, <2>2 DEF RequestSlot
<1>6. OrchestrationOK'
  BY <1>1, <1>4 DEF OrchestrationOK
<1> QED BY <1>1, <1>2, <1>4, <1>5, <1>6, RequestMoves DEF OrchestratorInv

\* driveInline: after a step.
LEMMA InlineSteppedKeeps ==
  ASSUME OrchestratorInv, NEW r \in Requests, InlineStepped(r)
  PROVE  /\ OrchestratorInv' /\ UNCHANGED <<rows, queue>>
         /\ OtherSlots(r) /\ call'[r].pc = "idle" /\ call'[r].op = "step"
         /\ call'[r].on = call[r].on
         /\ call[r].pc = "returned" /\ call[r].op = "step" /\ call[r].result # "threw"
         /\ runs[r] \in {1, 2}
         /\ \/ /\ call[r].result = "more" /\ loops[r] < MAX_INLINE_STEPS
               /\ runs'[r] = runs[r] /\ loops'[r] = loops[r]
            \/ /\ ~(call[r].result = "more" /\ loops[r] < MAX_INLINE_STEPS)
               /\ runs'[r] = runs[r] - 1 /\ loops'[r] = 0
<1>1. /\ TypeInv /\ OrchestrationOK /\ SlotsInv
      /\ UNCHANGED <<setting, queue, active, asked, callbacks, reported, disturbed>>
      /\ call[r].pc = "returned" /\ call[r].op = "step" /\ call[r].result # "threw"
      /\ runs[r] > 0 /\ runs[r] \in 0..2
  BY DEF InlineStepped, OrchestratorInv, SlotsInv, RequestSlot, OrchestrationOK
<1>2. /\ TypeInv' /\ UNCHANGED rows
      /\ OtherCalls(r) /\ call'[r].pc = "idle" /\ call'[r].op = "step"
      /\ call'[r].on = call[r].on
  BY <1>1, ReturnPuts, SlotKinds DEF InlineStepped
<1>b. 0 < MAX_INLINE_STEPS /\ 0 \in 0..MAX_INLINE_STEPS
  BY BoundsOK DEF Bounded
<1>3. CASE /\ call[r].result = "more" /\ loops[r] < MAX_INLINE_STEPS
           /\ UNCHANGED <<runs, loops>>
  <2>1. OtherSlots(r) /\ OrchestrationOK'
    BY <1>1, <1>2, <1>3 DEF OtherSlots, OrchestrationOK
  <2>2. RequestSlot(r)'
    BY <1>1, <1>2, <1>3 DEF RequestSlot
  <2> QED BY <1>1, <1>2, <1>3, <2>1, <2>2, RequestMoves DEF OrchestratorInv
<1>4. CASE /\ ~(call[r].result = "more" /\ loops[r] < MAX_INLINE_STEPS)
           /\ runs' = [runs EXCEPT ![r] = runs[r] - 1] /\ loops' = [loops EXCEPT ![r] = 0]
  <2>1. runs[r] - 1 \in 0..2
    BY <1>1, CountsOn
  <2>2. /\ OtherSlots(r) /\ runs'[r] = runs[r] - 1 /\ loops'[r] = 0
        /\ runs' \in [Requests -> 0..2] /\ loops' \in [Requests -> 0..MAX_INLINE_STEPS]
    BY <1>1, <1>2, <1>4, <1>b, <2>1 DEF OtherSlots, OrchestrationOK
  <2>3. OrchestrationOK'
    BY <1>1, <2>2 DEF OrchestrationOK
  <2>4. RequestSlot(r)'
    BY <1>2, <1>b, <2>2 DEF RequestSlot
  <2> QED BY <1>1, <1>2, <1>4, <2>2, <2>3, <2>4, RequestMoves DEF OrchestratorInv
<1> QED BY <1>3, <1>4 DEF InlineStepped

\* The request is over, by its end or by its process's.
LEMMA RequestEndsKeeps ==
  ASSUME OrchestratorInv, NEW r \in Requests, RequestEnds(r) \/ RequestDies(r)
  PROVE  /\ OrchestratorInv' /\ UNCHANGED <<rows, queue>>
         /\ OtherSlots(r) /\ call'[r].pc = "idle" /\ call'[r].op = "step"
         /\ call'[r].on = call[r].on
         /\ runs'[r] = 0 /\ loops'[r] = 0
         /\ call[r].on \in Payments
         /\ \/ Report(call[r].on)
            \/ /\ call[r].pc = "returned" /\ call[r].op = "refund"
               /\ call[r].result # "threw" /\ UNCHANGED reported
<1>1. /\ TypeInv /\ OrchestrationOK /\ SlotsInv
      /\ UNCHANGED <<setting, queue, active, asked, callbacks, rows, ext>>
      /\ call[r].on \in Payments
      /\ Forget(r)
      /\ runs' = [runs EXCEPT ![r] = 0] /\ loops' = [loops EXCEPT ![r] = 0]
  BY OnPayment DEF RequestEnds, RequestDies, Return, OrchestratorInv
<1>2. TypeInv'
  BY <1>1, ForgetTypeInv, SlotKinds DEF TypeInv, TypeOK, rows
<1>3. /\ OtherCalls(r) /\ call'[r].pc = "idle" /\ call'[r].op = "step"
      /\ call'[r].on = call[r].on
  BY <1>1, ForgetPuts, SlotKinds
<1>b. 0 \in 0..MAX_INLINE_STEPS /\ 0 \in 0..2
  BY BoundsOK DEF Bounded
<1>4. /\ OtherSlots(r) /\ runs'[r] = 0 /\ loops'[r] = 0
      /\ runs' \in [Requests -> 0..2] /\ loops' \in [Requests -> 0..MAX_INLINE_STEPS]
  BY <1>1, <1>3, <1>b DEF OtherSlots, OrchestrationOK
<1>5. reported' \in [Payments -> BOOLEAN] /\ disturbed' \in [Payments -> BOOLEAN]
  BY <1>1 DEF RequestEnds, RequestDies, Report, Disturb, OrchestrationOK
<1>6. OrchestrationOK'
  BY <1>1, <1>4, <1>5 DEF OrchestrationOK
<1>7. RequestSlot(r)'
  BY <1>3, <1>4 DEF RequestSlot
<1>8. \/ Report(call[r].on)
      \/ /\ call[r].pc = "returned" /\ call[r].op = "refund"
         /\ call[r].result # "threw" /\ UNCHANGED reported
  BY DEF RequestEnds, RequestDies
<1> QED BY <1>1, <1>2, <1>3, <1>4, <1>6, <1>7, <1>8, RequestMoves DEF OrchestratorInv

\* A worker takes a job.
LEMMA TakeKeeps ==
  ASSUME OrchestratorInv, NEW w \in Workers, Take(w)
  PROVE  /\ OrchestratorInv' /\ UNCHANGED rows
         /\ OtherSlots(w) /\ call[w].pc = "idle"
         /\ \E j \in Jobs : /\ queue[j] > 0
                            /\ queue' = [queue EXCEPT ![j] = queue[j] - 1]
                            /\ StepLeaves(call'[w], j.on)
                            /\ j.on \in Payments
<1>1. /\ TypeInv /\ OrchestrationOK /\ SlotsInv
      /\ UNCHANGED <<setting, runs, loops, asked, callbacks, reported, disturbed>>
  BY DEF Take, OrchestratorInv
<1>2. PICK j \in Jobs : /\ queue[j] > 0
                        /\ Step(w, j.on)
                        /\ queue' = [queue EXCEPT ![j] = queue[j] - 1]
                        /\ active' = [active EXCEPT ![w] = {j}]
  BY DEF Take
<1>3. j.on \in Payments
  BY DEF Jobs
<1>4. /\ TypeInv' /\ UNCHANGED rows /\ OtherCalls(w) /\ StepLeaves(call'[w], j.on)
      /\ call[w].pc = "idle"
  BY <1>1, <1>2, <1>3, StepPuts, SlotKinds
<1>5. queue' \in [Jobs -> Nat]
  <2>1. queue[j] \in Nat /\ queue[j] > 0
    BY <1>1, <1>2 DEF OrchestrationOK
  <2>2. queue[j] - 1 \in Nat
    BY <2>1
  <2> QED BY <1>1, <1>2, <2>2 DEF OrchestrationOK
<1>6. active'[w] = {j} /\ active' \in [Workers -> SUBSET Jobs] /\ OtherSlots(w)
  BY <1>1, <1>2, <1>4 DEF OrchestrationOK, OtherSlots
<1>7. WorkerSlot(w)'
  BY <1>4, <1>6 DEF WorkerSlot, StepLeaves
<1>8. OrchestrationOK'
  BY <1>1, <1>5, <1>6 DEF OrchestrationOK
<1> QED BY <1>1, <1>2, <1>3, <1>4, <1>6, <1>7, <1>8, WorkerMoves DEF OrchestratorInv

LEMMA Retried ==
  ASSUME NEW j \in Jobs
  PROVE  /\ j.tries + 1 < MaxAttempts =>
              [j EXCEPT !.tries = @ + 1] \in Jobs /\ [j EXCEPT !.tries = @ + 1].on = j.on
         /\ [j EXCEPT !.stalls = 1] \in Jobs /\ [j EXCEPT !.stalls = 1].on = j.on
<1>1. MaxAttempts \in Nat \ {0} /\ j.tries \in 0..(MaxAttempts - 1)
  BY BoundsOK DEF Bounded, Jobs
<1>2. j.tries + 1 < MaxAttempts => j.tries + 1 \in 0..(MaxAttempts - 1)
  BY <1>1
<1> QED BY <1>2 DEF Jobs

\* The job is over, by its end or by its worker's: another one for the same
\* payment is in the queue, or its failure is known, or no step was wanted.
LEMMA WorkerEndsKeeps ==
  ASSUME OrchestratorInv, NEW w \in Workers, Stepped(w) \/ AttemptFails(w) \/ WorkerDies(w)
  PROVE  /\ OrchestratorInv' /\ UNCHANGED rows
         /\ OtherSlots(w) /\ call'[w].pc = "idle" /\ call'[w].op = "step"
         /\ call'[w].on = call[w].on
         /\ call[w].pc # "idle" /\ call[w].on \in Payments
         /\ \/ /\ UNCHANGED reported
               /\ \E j \in Jobs : Add(j) /\ j.on = call[w].on
               /\ \/ call[w].pc = "returned" /\ call[w].result \in {"more", "threw"}
                  \/ disturbed'[call[w].on] = TRUE
            \/ Report(call[w].on) /\ UNCHANGED queue
            \/ /\ UNCHANGED <<queue, reported>>
               /\ call[w].pc = "returned" /\ call[w].result \notin {"more", "threw"}
<1> DEFINE p == call[w].on
<1>1. /\ TypeInv /\ OrchestrationOK /\ SlotsInv
      /\ UNCHANGED <<setting, runs, loops, asked, callbacks, rows, ext>>
      /\ active' = [active EXCEPT ![w] = {}]
      /\ Forget(w)
      /\ call[w].pc = "returned" \/ active[w] # {}
  BY DEF Stepped, AttemptFails, WorkerDies, Return, OrchestratorInv
<1>2. /\ call[w].pc # "idle" /\ p \in Payments /\ w \in Calls
      /\ \E j \in Jobs : active[w] = {j} /\ j.on = p
  <2>1. WorkerSlot(w)
    BY <1>1 DEF SlotsInv
  <2> QED BY <1>1, <2>1, OnPayment, SlotKinds DEF WorkerSlot
<1>3. PICK j \in Jobs : active[w] = {j} /\ j.on = p
  BY <1>2
<1>4. TypeInv'
  BY <1>1, <1>2, ForgetTypeInv DEF TypeInv, TypeOK, rows
<1>5. /\ OtherCalls(w) /\ call'[w].pc = "idle" /\ call'[w].op = "step" /\ call'[w].on = p
  BY <1>1, <1>2, ForgetPuts
<1>6. \/ UNCHANGED reported /\ (\E k \in Jobs : Add(k) /\ k.on = p)
         /\ \/ call[w].pc = "returned" /\ call[w].result \in {"more", "threw"}
            \/ disturbed'[p] = TRUE
      \/ Report(p) /\ UNCHANGED queue
      \/ /\ UNCHANGED <<queue, reported>>
         /\ call[w].pc = "returned" /\ call[w].result \notin {"more", "threw"}
  <2>1. CASE Stepped(w)
    <3>1. CASE call[w].result = "more"
      <4>1. Add(NewJob(p)) /\ UNCHANGED reported /\ call[w].pc = "returned"
        BY <2>1, <3>1 DEF Stepped
      <4> QED BY <3>1, <4>1, <1>2, NewJobIsJob
    <3>2. CASE call[w].result # "more"
      BY <2>1, <3>2 DEF Stepped
    <3> QED BY <3>1, <3>2
  <2>2. CASE AttemptFails(w)
    <3>1. CASE j.tries + 1 < MaxAttempts
      <4>1. PICK k : k = [j EXCEPT !.tries = @ + 1]
        OBVIOUS
      <4>2. Add(k) /\ UNCHANGED reported /\ call[w].pc = "returned" /\ call[w].result = "threw"
        BY <1>3, <2>2, <3>1, <4>1 DEF AttemptFails
      <4>3. k \in Jobs /\ k.on = p
        BY <1>3, <3>1, <4>1, Retried
      <4> QED BY <4>2, <4>3
    <3>2. CASE ~(j.tries + 1 < MaxAttempts)
      BY <1>3, <2>2, <3>2 DEF AttemptFails
    <3> QED BY <3>1, <3>2
  <2>3. CASE WorkerDies(w)
    <3>d. disturbed'[p] = TRUE
      BY <1>1, <1>2, <1>3, <2>3 DEF WorkerDies, Disturb, OrchestrationOK
    <3>1. CASE j.stalls = 0
      <4>1. PICK k : k = [j EXCEPT !.stalls = 1]
        OBVIOUS
      <4>2. Add(k) /\ UNCHANGED reported
        BY <1>3, <2>3, <3>1, <4>1 DEF WorkerDies
      <4>3. k \in Jobs /\ k.on = p
        BY <1>3, <4>1, Retried
      <4> QED BY <3>d, <4>2, <4>3
    <3>2. CASE j.stalls # 0
      BY <1>3, <2>3, <3>2 DEF WorkerDies
    <3> QED BY <3>1, <3>2
  <2> QED BY <2>1, <2>2, <2>3
<1>7. /\ queue' \in [Jobs -> Nat] /\ reported' \in [Payments -> BOOLEAN]
      /\ disturbed' \in [Payments -> BOOLEAN]
  <2>1. queue' \in [Jobs -> Nat]
    BY <1>1, <1>6, AddPuts DEF OrchestrationOK
  <2>2. reported' \in [Payments -> BOOLEAN]
    BY <1>1, <1>6 DEF OrchestrationOK, Report
  <2>3. disturbed' \in [Payments -> BOOLEAN]
    <3>1. UNCHANGED disturbed \/ \E k \in active[w] : Disturb(k.on, TRUE)
      BY DEF Stepped, AttemptFails, WorkerDies
    <3> QED BY <1>1, <3>1 DEF OrchestrationOK, Disturb
  <2> QED BY <2>1, <2>2, <2>3
<1>8. active'[w] = {} /\ active' \in [Workers -> SUBSET Jobs] /\ OtherSlots(w)
  BY <1>1, <1>5 DEF OrchestrationOK, OtherSlots
<1>9. WorkerSlot(w)'
  BY <1>5, <1>8 DEF WorkerSlot
<1>10. OrchestrationOK'
  BY <1>1, <1>7, <1>8 DEF OrchestrationOK
<1> QED BY <1>1, <1>2, <1>4, <1>5, <1>6, <1>8, <1>9, <1>10, WorkerMoves DEF OrchestratorInv

\* The engine's own part of a call, in either kind of slot.
LEMMA EngineWorkKeeps ==
  ASSUME OrchestratorInv, NEW c \in Calls, EngineWork(c)
  PROVE  /\ OrchestratorInv' /\ UNCHANGED orchestration
         /\ OtherSlots(c) /\ InFlight(c)
         /\ WaitsOrThrows(c, call'[c]) \/ (Commit(c) /\ CommitLeaves(c, call'[c]))
<1>1. /\ TypeInv /\ OrchestrationOK /\ SlotsInv
      /\ Work(c) /\ UNCHANGED orchestration
  BY DEF EngineWork, OrchestratorInv
<1>2. call[c].pc = "adapter" => call[c].op = "step"
  BY <1>1, SlotKinds DEF SlotsInv, RequestSlot, WorkerSlot
<1>3. /\ TypeInv' /\ InFlight(c) /\ OtherCalls(c)
      /\ WaitsOrThrows(c, call'[c]) \/ (Commit(c) /\ CommitLeaves(c, call'[c]))
  BY <1>1, <1>2, WorkPuts
<1>4. OtherSlots(c) /\ OrchestrationOK'
  BY <1>1, <1>3 DEF OtherSlots, OrchestrationOK, orchestration
<1>5. /\ call'[c].op = call[c].op /\ call'[c].on = call[c].on
      /\ call'[c].pc \in {"commit", "failing", "returned"}
      /\ call[c].pc = "failing" /\ call[c].result # "more"
           => call'[c].pc \in {"failing", "commit", "returned"} /\ call'[c].result # "more"
  BY <1>3 DEF WaitsOrThrows, CommitLeaves
<1>6. CASE c \in Workers
  <2>1. WorkerSlot(c)'
    <3>1. WorkerSlot(c) /\ active'[c] = active[c] /\ call[c].pc # "idle"
      BY <1>1, <1>3, <1>6 DEF SlotsInv, orchestration, InFlight
    <3> QED BY <1>5, <3>1 DEF WorkerSlot
  <2> QED BY <1>1, <1>3, <1>4, <1>6, <2>1, WorkerMoves DEF OrchestratorInv
<1>7. CASE c \in Requests
  <2>1. RequestSlot(c)'
    <3>1. /\ RequestSlot(c) /\ runs'[c] = runs[c] /\ loops'[c] = loops[c]
          /\ call[c].pc \in {"adapter", "commit", "failing"}
      BY <1>1, <1>3, <1>7 DEF SlotsInv, orchestration, InFlight
    <3>2. ASSUME call[c].op = "refund"
          PROVE  call'[c].pc \in {"failing", "returned"} /\ call'[c].result # "more"
      <4>1. call[c].pc = "failing" /\ call[c].result # "more"
        BY <3>1, <3>2 DEF RequestSlot
      <4>2. CASE WaitsOrThrows(c, call'[c])
        BY <1>5, <4>1, <4>2 DEF WaitsOrThrows
      <4>3. CASE CommitLeaves(c, call'[c])
        BY <1>5, <4>1, <4>3 DEF CommitLeaves
      <4> QED BY <1>3, <4>2, <4>3
    <3> QED BY <1>5, <3>1, <3>2 DEF RequestSlot
  <2> QED BY <1>1, <1>3, <1>4, <1>7, <2>1, RequestMoves DEF OrchestratorInv
<1> QED BY <1>6, <1>7, SlotKinds

LEMMA InitOrchestratorInv == OrchestratorInit => OrchestratorInv
<1> SUFFICES ASSUME OrchestratorInit PROVE OrchestratorInv
  OBVIOUS
<1>1. TypeInv /\ setting \in Settings
  BY InitTypeInv DEF OrchestratorInit
<1>2. /\ 0 \in 0..2 /\ 0 \in 0..MAX_INLINE_STEPS /\ 0 \in 0..setting.drives
      /\ 0 \in 0..setting.refunds /\ 0 \in 0..setting.callbacks
  BY <1>1, BoundsOK DEF Bounded
<1>3. OrchestrationOK
  <2>1. asked \in [Payments -> [drives : 0..setting.drives, refunds : 0..setting.refunds]]
    BY <1>2 DEF OrchestratorInit
  <2> QED BY <1>1, <1>2, <2>1 DEF OrchestratorInit, OrchestrationOK
<1>4. \A c \in Calls : call[c].pc = "idle" /\ call[c].op = "step"
  BY DEF OrchestratorInit, Init, Idle
<1>5. SlotsInv
  BY <1>4, SlotKinds DEF SlotsInv, RequestSlot, WorkerSlot, OrchestratorInit
<1> QED BY <1>1, <1>3, <1>5 DEF OrchestratorInv

\* The steps of the system, by the slot they are about.
RequestStep(r) ==
  \/ \E p \in Payments : \E success \in BOOLEAN : OnFunding(r, p, success)
  \/ \E p \in Payments : Refund(r, p)
  \/ FundingApplied(r) \/ InlineStep(r) \/ InlineStepped(r) \/ RequestEnds(r) \/ RequestDies(r)

WorkerStep(w) == Take(w) \/ Stepped(w) \/ AttemptFails(w) \/ WorkerDies(w)

LEMMA OrchestratorSteps ==
  ASSUME [OrchestratorNext]_allVars
  PROVE  \/ \E p \in Payments : Drive(p)
         \/ \E r \in Requests : RequestStep(r)
         \/ \E w \in Workers : WorkerStep(w)
         \/ \E c \in Calls : EngineWork(c)
         \/ UNCHANGED allVars
<1>1. CASE \E p \in Payments, r \in Requests :
             \/ \E success \in Outcomes : OnFunding(r, p, success)
             \/ SimulateFunding(r, p)
             \/ Refund(r, p)
  BY <1>1, ModeAssumption DEF SimulateFunding, RequestStep
<1>2. CASE \E r \in Requests : RequestProgress(r) \/ RequestDies(r)
  BY <1>2, SlotKinds DEF RequestProgress, RequestStep
<1>3. CASE \E w \in Workers : Take(w) \/ WorkerProgress(w) \/ WorkerDies(w)
  BY <1>3, SlotKinds DEF WorkerProgress, WorkerStep
<1> QED BY <1>1, <1>2, <1>3 DEF OrchestratorNext

LEMMA StillOrchestrator ==
  ASSUME OrchestratorInv, UNCHANGED allVars
  PROVE  OrchestratorInv'
<1>1. TypeInv'
  BY DEF OrchestratorInv, TypeInv, TypeOK, AnswersOK, allVars, vars
<1>2. OrchestrationOK' /\ SlotsInv'
  BY DEF OrchestratorInv, OrchestrationOK, SlotsInv, RequestSlot, WorkerSlot, allVars, vars,
         orchestration
<1> QED BY <1>1, <1>2 DEF OrchestratorInv

LEMMA NextOrchestratorInv ==
  OrchestratorInv /\ [OrchestratorNext]_allVars => OrchestratorInv'
<1> SUFFICES ASSUME OrchestratorInv, [OrchestratorNext]_allVars PROVE OrchestratorInv'
  OBVIOUS
<1>1. CASE \E p \in Payments : Drive(p)
  BY <1>1, DriveKeeps
<1>2. ASSUME NEW r \in Requests, RequestStep(r) PROVE OrchestratorInv'
  BY <1>2, FundingKeeps, RefundKeeps, AppliedKeeps, InlineStepKeeps, InlineSteppedKeeps,
     RequestEndsKeeps DEF RequestStep
<1>3. ASSUME NEW w \in Workers, WorkerStep(w) PROVE OrchestratorInv'
  BY <1>3, TakeKeeps, WorkerEndsKeeps DEF WorkerStep
<1>4. CASE \E c \in Calls : EngineWork(c)
  BY <1>4, EngineWorkKeeps
<1> QED BY <1>1, <1>2, <1>3, <1>4, OrchestratorSteps, StillOrchestrator

\* Whatever workers, requests, retries and deaths there are: every variable keeps
\* its type, a worker holds at most one job, driveInline never runs more than
\* twice for a callback (orchestrator.service.ts:87-90), and its loop never takes more
\* than MAX_INLINE_STEPS steps.
THEOREM TypesOfOrchestrator == OrchestratorSpec => []OrchestratorTypeOK
<1>1. OrchestratorInv => OrchestratorTypeOK
  BY DEF OrchestratorInv, OrchestrationOK, OrchestratorTypeOK, TypeInv
<1> QED
  BY <1>1, InitOrchestratorInv, NextOrchestratorInv, PTL DEF OrchestratorSpec

(***************************************************************************)
(* The loop of driveInline.  Each of its steps that goes on has left an    *)
(* event, so it has never made more steps than its payment has events.     *)
(***************************************************************************)
LoopOf(r) ==
  /\ call[r].pc = "idle" /\ runs[r] > 0 => loops[r] <= Len(events[call[r].on])
  /\ InFlight(r) /\ call[r].op = "step" => /\ loops[r] <= Len(events[call[r].on]) + 1
                                           /\ loops[r] <= MaxEvents
  /\ call[r].pc = "returned" /\ call[r].op = "step" /\ call[r].result = "more"
       => loops[r] <= Len(events[call[r].on]) /\ loops[r] <= MaxEvents

LoopInv == \A r \in Requests : LoopOf(r)

LogsGrow ==
  \A p \in Payments : /\ Len(events[p]) \in Nat /\ Len(events'[p]) \in Nat
                      /\ Len(events[p]) <= Len(events'[p])

LEMMA LogsAreCounted == ASSUME TypeInv PROVE \A p \in Payments : Len(events[p]) \in Nat
<1>1. \A p \in Payments : events[p] \in Seq(EventRow)
  BY DEF TypeInv, TypeOK
<1> QED BY <1>1

LEMMA AppendGrows ==
  ASSUME NEW S, NEW log \in Seq(S), NEW e \in S
  PROVE  Append(log, e) \in Seq(S) /\ Len(Append(log, e)) = Len(log) + 1 /\ Len(log) \in Nat
  OBVIOUS

LEMMA RowsKeepLogs == ASSUME TypeInv, UNCHANGED rows PROVE LogsGrow
  BY LogsAreCounted DEF LogsGrow, rows

LEMMA CommitGrowsLogs ==
  ASSUME TypeInv, NEW c \in Calls, Commit(c)
  PROVE  LogsGrow /\ Len(events[call[c].on]) + 1 <= Len(events'[call[c].on])
<1> DEFINE p == call[c].on
<1>1. p \in Payments /\ events \in [Payments -> Seq(EventRow)] /\ events[p] \in Seq(EventRow)
  BY DEF TypeInv, TypeOK, CallState
<1>2. PICK log, to : /\ events' = [events EXCEPT ![p] = log]
                     /\ to \in PAYMENT_STATUSES
                     /\ Moved(c, to, log)
  BY CommitWrites DEF Writes
<1>3. call[c].snap.status \in PAYMENT_STATUSES /\ {"Refunding", "Refunded"} \subseteq PAYMENT_STATUSES
  BY DEF TypeInv, TypeOK, CallState, PayRow, PAYMENT_STATUSES
<1>4. Len(log) \in Nat /\ Len(events[p]) \in Nat /\ Len(events[p]) + 1 <= Len(log)
  <2>1. \A from, s \in PAYMENT_STATUSES : Change(from, s) \in EventRow
    BY DEF Change, EventRow
  <2>2. CASE log = Append(events[p], Change(call[c].snap.status, to))
    <3>1. Change(call[c].snap.status, to) \in EventRow
      BY <1>2, <1>3, <2>1
    <3> HIDE DEF p
    <3> QED BY <1>1, <2>2, <3>1, AppendGrows
  <2>3. CASE log = Append(Append(events[p], Change(call[c].snap.status, "Refunding")),
                          Change("Refunding", "Refunded"))
    <3>1. /\ Change(call[c].snap.status, "Refunding") \in EventRow
          /\ Change("Refunding", "Refunded") \in EventRow
      BY <1>3, <2>1
    <3>2. PICK half : half = Append(events[p], Change(call[c].snap.status, "Refunding"))
      OBVIOUS
    <3>3. /\ half \in Seq(EventRow) /\ Len(half) = Len(events[p]) + 1
          /\ Len(events[p]) \in Nat
      BY <1>1, <3>1, <3>2, AppendGrows
    <3>4. Len(log) = Len(half) + 1
      BY <2>3, <3>1, <3>2, <3>3, AppendGrows
    <3> HIDE DEF p
    <3> QED BY <3>3, <3>4
  <2> QED BY <1>2, <2>2, <2>3 DEF Moved
<1>5. events'[p] = log /\ \A q \in Payments \ {p} : events'[q] = events[q]
  BY <1>1, <1>2
<1>6. \A q \in Payments : Len(events[q]) \in Nat
  BY LogsAreCounted
<1> HIDE DEF p
<1>7. LogsGrow /\ Len(events[p]) + 1 <= Len(events'[p])
  BY <1>1, <1>4, <1>5, <1>6 DEF LogsGrow
<1> QED BY <1>7 DEF p

LEMMA LoopStays ==
  ASSUME OrchestratorInv, LogsGrow, NEW r \in Requests, LoopOf(r),
         call'[r] = call[r], runs'[r] = runs[r], loops'[r] = loops[r]
  PROVE  LoopOf(r)'
<1>1. call[r].on \in Payments /\ loops[r] \in Nat
  BY OnPayment, BoundsOK DEF OrchestratorInv, OrchestrationOK, Bounded
<1>2. PICK n \in Nat, m \in Nat : /\ n = Len(events[call[r].on]) /\ n <= m
                                  /\ m = Len(events'[call'[r].on])
  BY <1>1 DEF LogsGrow
<1> QED BY <1>1, <1>2 DEF LoopOf, InFlight

LEMMA LoopsOfOthers ==
  ASSUME OrchestratorInv, LoopInv, LogsGrow, NEW c \in Calls, OtherSlots(c),
         c \in Requests => LoopOf(c)'
  PROVE  LoopInv'
<1> SUFFICES ASSUME NEW d \in Requests, d # c PROVE LoopOf(d)'
  BY DEF LoopInv
<1>1. call'[d] = call[d] /\ runs'[d] = runs[d] /\ loops'[d] = loops[d]
  BY SlotKinds DEF OtherSlots, OtherCalls
<1> QED BY <1>1, LoopStays DEF LoopInv

LEMMA StepLoops ==
  ASSUME OrchestratorInv, UNCHANGED rows, NEW r \in Requests, NEW p \in Payments,
         StepLeaves(call'[r], p), loops'[r] <= Len(events[p]) + 1, loops'[r] \in Nat
  PROVE  LoopOf(r)'
<1>1. PICK n \in Nat : n = Len(events[p]) /\ n = Len(events'[call'[r].on])
  BY LogsAreCounted DEF OrchestratorInv, StepLeaves, rows
<1>2. call'[r].pc \in {"adapter", "returned"} /\ ~(call'[r].pc = "returned" /\ call'[r].result = "more")
  BY DEF StepLeaves
<1>3. call'[r].pc = "adapter" => n < MaxEvents
  BY <1>1 DEF StepLeaves, HasWork
<1>4. MaxEvents \in Nat /\ loops'[r] <= n + 1
  BY <1>1, BoundAssumption
<1> QED BY <1>1, <1>2, <1>3, <1>4 DEF LoopOf, InFlight

LEMMA NextLoopInv ==
  OrchestratorInv /\ LoopInv /\ [OrchestratorNext]_allVars => LoopInv'
<1> SUFFICES ASSUME OrchestratorInv, LoopInv, [OrchestratorNext]_allVars PROVE LoopInv'
  OBVIOUS
<1>t. TypeInv
  BY DEF OrchestratorInv
<1>u. \A r \in Requests : loops[r] \in Nat
  BY BoundsOK DEF OrchestratorInv, OrchestrationOK, Bounded
<1>n. \A p \in Payments : Len(events[p]) \in Nat
  BY <1>t, LogsAreCounted
<1>1. ASSUME NEW p \in Payments, Drive(p) PROVE LoopInv'
  <2>1. UNCHANGED rows /\ LogsGrow
    BY <1>1, <1>t, DriveKeeps, RowsKeepLogs
  <2>2. CASE UNCHANGED <<vars, runs, loops, active>>
    <3>1. \A r \in Requests : call'[r] = call[r] /\ runs'[r] = runs[r] /\ loops'[r] = loops[r]
      BY <2>2 DEF vars
    <3> QED BY <2>1, <3>1, LoopStays DEF LoopInv
  <2>3. ASSUME NEW r \in Requests, OtherSlots(r), StepLeaves(call'[r], p), loops'[r] = 1
        PROVE  LoopInv'
    <3>1. loops'[r] <= Len(events[p]) + 1 /\ loops'[r] \in Nat
      BY <1>n, <2>3
    <3>2. LoopOf(r)'
      BY <2>1, <2>3, <3>1, StepLoops
    <3> QED BY <2>1, <2>3, <3>2, LoopsOfOthers, SlotKinds
  <2> QED BY <1>1, <2>2, <2>3, DriveKeeps
<1>2. ASSUME NEW r \in Requests, RequestStep(r) PROVE LoopInv'
  <2>1. UNCHANGED rows /\ OtherSlots(r)
    BY <1>2, FundingKeeps, RefundKeeps, AppliedKeeps, InlineStepKeeps, InlineSteppedKeeps,
       RequestEndsKeeps DEF RequestStep
  <2>2. LogsGrow
    BY <1>t, <2>1, RowsKeepLogs
  <2>3. ASSUME NEW p \in Payments,
               FundingLeaves(call'[r], p) \/ RefundLeaves(call'[r], p)
        PROVE  LoopOf(r)'
    BY <2>3 DEF FundingLeaves, RefundLeaves, LoopOf, InFlight
  <2>4. ASSUME call'[r].pc = "idle" /\ loops'[r] = 0
        PROVE  LoopOf(r)'
    <3>1. call'[r].on = call[r].on
      BY <1>2, <2>4, AppliedKeeps, InlineStepKeeps, InlineSteppedKeeps, RequestEndsKeeps,
         FundingKeeps, RefundKeeps DEF RequestStep, FundingLeaves, RefundLeaves, StepLeaves
    <3>2. Len(events'[call'[r].on]) \in Nat
      BY <1>t, <2>2, <3>1, OnPayment DEF LogsGrow
    <3> QED BY <2>4, <3>2 DEF LoopOf, InFlight
  <2>5. ASSUME InlineStep(r)
        PROVE  LoopOf(r)'
    <3>1. /\ call[r].pc = "idle" /\ runs[r] > 0
          /\ StepLeaves(call'[r], call[r].on) /\ loops'[r] = loops[r] + 1
          /\ call[r].on \in Payments
      BY <2>5, InlineStepKeeps
    <3>2. loops[r] <= Len(events[call[r].on])
      BY <3>1 DEF LoopInv, LoopOf
    <3>3. loops'[r] <= Len(events[call[r].on]) + 1 /\ loops'[r] \in Nat
      BY <1>n, <1>u, <3>1, <3>2
    <3> QED BY <2>1, <3>1, <3>3, StepLoops
  <2>6. ASSUME InlineStepped(r) /\ call[r].result = "more" /\ loops'[r] = loops[r]
        PROVE  LoopOf(r)'
    <3>1. /\ call'[r].pc = "idle" /\ call'[r].on = call[r].on
          /\ call[r].pc = "returned" /\ call[r].op = "step"
      BY <2>6, InlineSteppedKeeps
    <3>2. loops[r] <= Len(events[call[r].on])
      BY <2>6, <3>1 DEF LoopInv, LoopOf
    <3>3. events' = events
      BY <2>1 DEF rows
    <3> QED BY <2>6, <3>1, <3>2, <3>3 DEF LoopOf, InFlight
  <2>7. \/ \E p \in Payments : FundingLeaves(call'[r], p) \/ RefundLeaves(call'[r], p)
        \/ call'[r].pc = "idle" /\ loops'[r] = 0
        \/ InlineStep(r)
        \/ InlineStepped(r) /\ call[r].result = "more" /\ loops'[r] = loops[r]
    <3>1. CASE FundingApplied(r)
      <4>1. loops'[r] = 0
        <5>1. loops'[r] = loops[r] /\ call[r].pc = "returned" /\ call[r].op = "applyFunding"
          BY <3>1 DEF FundingApplied
        <5>2. RequestSlot(r) /\ runs[r] \in 0..2
          BY DEF OrchestratorInv, SlotsInv, OrchestrationOK
        <5> QED BY <5>1, <5>2 DEF RequestSlot
      <4> QED BY <3>1, <4>1, AppliedKeeps
    <3> QED BY <1>2, <3>1, FundingKeeps, RefundKeeps, InlineSteppedKeeps, RequestEndsKeeps
            DEF RequestStep
  <2>8. LoopOf(r)'
    BY <2>3, <2>4, <2>5, <2>6, <2>7
  <2> QED BY <2>1, <2>2, <2>8, LoopsOfOthers, SlotKinds
<1>3. ASSUME NEW w \in Workers, WorkerStep(w) PROVE LoopInv'
  <2>1. UNCHANGED rows /\ OtherSlots(w)
    BY <1>3, TakeKeeps, WorkerEndsKeeps DEF WorkerStep
  <2> QED BY <1>t, <2>1, RowsKeepLogs, LoopsOfOthers, SlotKinds
<1>4. ASSUME NEW c \in Calls, EngineWork(c) PROVE LoopInv'
  <2>1. /\ OtherSlots(c) /\ InFlight(c) /\ UNCHANGED <<runs, loops>>
        /\ WaitsOrThrows(c, call'[c]) \/ (Commit(c) /\ CommitLeaves(c, call'[c]))
    BY <1>4, EngineWorkKeeps DEF orchestration
  <2>p. call[c].on \in Payments
    BY <1>t, OnPayment
  <2>2. CASE WaitsOrThrows(c, call'[c])
    <3>1. UNCHANGED rows /\ LogsGrow /\ events' = events
      BY <1>t, <2>2, RowsKeepLogs DEF WaitsOrThrows, rows
    <3>2. ASSUME c \in Requests PROVE LoopOf(c)'
      BY <2>1, <2>2, <3>1, <3>2 DEF WaitsOrThrows, LoopInv, LoopOf, InFlight
    <3> QED BY <2>1, <3>1, <3>2, LoopsOfOthers
  <2>3. CASE Commit(c) /\ CommitLeaves(c, call'[c])
    <3>1. LogsGrow /\ Len(events[call[c].on]) + 1 <= Len(events'[call[c].on])
      BY <1>t, <2>3, CommitGrowsLogs
    <3>2. ASSUME c \in Requests PROVE LoopOf(c)'
      <4>1. PICK n \in Nat, m \in Nat :
              /\ n = Len(events[call[c].on]) /\ m = Len(events'[call'[c].on]) /\ n + 1 <= m
        BY <2>p, <2>3, <3>1 DEF LogsGrow, CommitLeaves
      <4>2. call[c].op = "step" => loops[c] <= n + 1 /\ loops[c] <= MaxEvents
        BY <2>1, <3>2, <4>1 DEF LoopInv, LoopOf
      <4>3. loops'[c] = loops[c] /\ loops[c] \in Nat
        BY <1>u, <2>1, <3>2
      <4>4. call'[c].op = call[c].op /\ call'[c].pc = "returned"
        BY <2>3 DEF CommitLeaves
      <4>5. call[c].op = "step" => loops[c] <= m
        BY <4>1, <4>2, <4>3
      <4> QED BY <4>1, <4>2, <4>3, <4>4, <4>5 DEF LoopOf, InFlight
    <3> QED BY <2>1, <3>1, <3>2, LoopsOfOthers
  <2> QED BY <2>1, <2>2, <2>3
<1>5. CASE UNCHANGED allVars
  <2>1. /\ UNCHANGED rows
        /\ \A r \in Requests : call'[r] = call[r] /\ runs'[r] = runs[r] /\ loops'[r] = loops[r]
    BY <1>5 DEF allVars, vars, orchestration, rows
  <2> QED BY <1>t, <2>1, RowsKeepLogs, LoopStays DEF LoopInv
<1> QED BY <1>1, <1>2, <1>3, <1>4, <1>5, OrchestratorSteps

(***************************************************************************)
(* Nothing is stranded.  What carries a payment on is a job in the queue   *)
(* or a call that will go on: one in flight, one that has returned with    *)
(* more to do or with a failure the queue retries, or a request with steps *)
(* still to make.                                                          *)
(***************************************************************************)
Strong(c) ==
  \/ InFlight(c)
  \/ call[c].pc = "returned" /\ call[c].result \in {"more", "threw"}
  \/ c \in Requests /\ runs[c] > 1
  \/ c \in Requests /\ call[c].pc = "idle" /\ runs[c] > 0

Queued(j, p) == j.on = p /\ queue[j] > 0

Carried(p) ==
  \/ \E j \in Jobs : Queued(j, p)
  \/ \E c \in Calls : call[c].on = p /\ Strong(c)

Needy(p) == (pay[p].status = "Quoted" /\ Driven(p)) \/ pay[p].status \in Collected

CarriedInv == \A p \in Payments : Needy(p) => Carried(p) \/ reported[p]

LEMMA StrongStays ==
  ASSUME NEW c \in Calls, OtherSlots(c), NEW d \in Calls, d # c
  PROVE  call'[d] = call[d] /\ (Strong(d)' <=> Strong(d))
<1>1. call'[d] = call[d] /\ (d \in Requests => runs'[d] = runs[d])
  BY DEF OtherSlots, OtherCalls
<1> QED BY <1>1 DEF Strong, InFlight

LEMMA CarriedStays ==
  ASSUME NEW c \in Calls, NEW p \in Payments, OtherSlots(c), Carried(p),
         \A j \in Jobs : Queued(j, p) => queue'[j] > 0,
         call[c].on = p /\ Strong(c) => Carried(p)'
  PROVE  Carried(p)'
<1>1. CASE \E j \in Jobs : Queued(j, p)
  BY <1>1 DEF Carried, Queued
<1>2. ASSUME NEW d \in Calls, call[d].on = p, Strong(d) PROVE Carried(p)'
  <2>1. CASE d = c
    BY <1>2, <2>1
  <2>2. CASE d # c
    <3>1. call'[d].on = p /\ Strong(d)'
      BY <1>2, <2>2, StrongStays
    <3> QED BY <3>1 DEF Carried
  <2> QED BY <2>1, <2>2
<1> QED BY <1>1, <1>2 DEF Carried

LEMMA AddedIsQueued ==
  ASSUME queue \in [Jobs -> Nat], NEW j \in Jobs, Add(j)
  PROVE  /\ Queued(j, j.on)'
         /\ \A k \in Jobs : queue[k] > 0 => queue'[k] > 0
<1>1. queue'[j] = queue[j] + 1 /\ \A k \in Jobs \ {j} : queue'[k] = queue[k]
  BY AddPuts
<1>2. queue[j] \in Nat
  OBVIOUS
<1>3. queue'[j] > 0
  BY <1>1, <1>2
<1> QED BY <1>1, <1>3 DEF Queued

LEMMA StepCarries ==
  ASSUME NEW c \in Calls, NEW p \in Payments, UNCHANGED rows, StepLeaves(call'[c], p),
         pay'[p].status \in Collected \union {"Quoted"}
  PROVE  Carried(p)'
<1>1. call'[c].on = p /\ call'[c].pc = "adapter"
  BY DEF StepLeaves, rows
<1> QED BY <1>1 DEF Carried, Strong, InFlight

LEMMA NeedyStays ==
  ASSUME NEW p \in Payments, UNCHANGED pay, asked'[p].drives = asked[p].drives, Needy(p)'
  PROVE  Needy(p) /\ pay'[p].status \in Collected \union {"Quoted"}
  BY DEF Needy, Driven

LEMMA FreeIsNotStrong ==
  ASSUME NEW r \in Requests, Free(r)
  PROVE  ~Strong(r)
  BY DEF Free, Strong, InFlight

\* The bound on the events of a payment is below the bound of the loop: nothing is
\* claimed of a payment that changes its status MAX_INLINE_STEPS times.
LoopsSuffice == MaxEvents < MAX_INLINE_STEPS

LEMMA RequestCarries ==
  ASSUME OrchestratorInv, LoopInv, LoopsSuffice, CarriedInv, NEW r \in Requests,
         RequestStep(r), NEW p \in Payments, Needy(p)', ~reported'[p]
  PROVE  Carried(p)'
<1>t. /\ TypeInv /\ r \in Calls /\ queue \in [Jobs -> Nat]
      /\ runs[r] \in 0..2 /\ loops[r] \in Nat
      /\ reported \in [Payments -> BOOLEAN]
  BY SlotKinds, BoundsOK DEF OrchestratorInv, OrchestrationOK, Bounded
<1>1. UNCHANGED rows /\ OtherSlots(r)
  BY FundingKeeps, RefundKeeps, AppliedKeeps, InlineStepKeeps, InlineSteppedKeeps,
     RequestEndsKeeps DEF RequestStep
<1>2. Needy(p) /\ pay'[p].status \in Collected \union {"Quoted"}
  <2>1. UNCHANGED asked \/ \E q \in Payments : asked' = [asked EXCEPT ![q].refunds = @ + 1]
    BY DEF RequestStep, OnFunding, Refund, FundingApplied, InlineStep, InlineStepped,
           RequestEnds, RequestDies
  <2>2. asked'[p].drives = asked[p].drives
    BY <2>1 DEF OrchestratorInv, OrchestrationOK
  <2>3. UNCHANGED pay
    BY <1>1 DEF rows
  <2> QED BY <2>2, <2>3, NeedyStays
<1>3. ~reported[p]
  <2>1. UNCHANGED reported \/ \E q \in Payments : Report(q)
    BY <1>t, OnPayment DEF RequestStep, OnFunding, Refund, FundingApplied, InlineStep, InlineStepped,
           RequestEnds, RequestDies
  <2> QED BY <1>t, <2>1 DEF Report
<1>4. Carried(p)
  BY <1>2, <1>3 DEF CarriedInv
<1>5. \A j \in Jobs : Queued(j, p) => queue'[j] > 0
  <2>1. UNCHANGED queue \/ \E q \in Payments : Add(NewJob(q))
    BY <1>t, OnPayment DEF RequestStep, OnFunding, Refund, FundingApplied, InlineStep,
       InlineStepped, RequestEnds, RequestDies
  <2> QED BY <1>t, <2>1, AddedIsQueued, NewJobIsJob DEF Queued
<1>6. ASSUME call[r].on = p, Strong(r) PROVE Carried(p)'
  <2>1. ~Free(r)
    BY <1>6, FreeIsNotStrong
  <2>2. CASE FundingApplied(r)
    <3>0. /\ call[r].pc = "returned" /\ call[r].op = "applyFunding" /\ call[r].result # "threw"
          /\ RequestSlot(r)
      BY <2>2 DEF FundingApplied, OrchestratorInv, SlotsInv
    <3>1. call[r].result = "more"
      <4>1. runs[r] = 0
        BY <1>t, <3>0 DEF RequestSlot
      <4> QED BY <1>6, <3>0, <4>1 DEF Strong, InFlight
    <3>2. CASE Add(NewJob(p))
      BY <1>t, <3>2, AddedIsQueued, NewJobIsJob DEF Carried
    <3>3. CASE runs'[r] = 2 /\ call'[r].on = p
      BY <1>t, <3>3 DEF Carried, Strong
    <3> QED BY <1>6, <2>2, <3>1, <3>2, <3>3, AppliedKeeps
  <2>3. CASE InlineStep(r)
    <3>1. StepLeaves(call'[r], p)
      BY <1>6, <2>3, InlineStepKeeps
    <3> QED BY <1>1, <1>2, <1>t, <3>1, StepCarries
  <2>4. CASE InlineStepped(r)
    <3>1. /\ call'[r].pc = "idle" /\ call'[r].on = p
          /\ call[r].pc = "returned" /\ call[r].op = "step" /\ call[r].result # "threw"
          /\ runs[r] \in {1, 2}
          /\ \/ call[r].result = "more" /\ loops[r] < MAX_INLINE_STEPS /\ runs'[r] = runs[r]
             \/ /\ ~(call[r].result = "more" /\ loops[r] < MAX_INLINE_STEPS)
                /\ runs'[r] = runs[r] - 1
      BY <1>6, <2>4, InlineSteppedKeeps
    <3>2. call[r].result = "more" => loops[r] < MAX_INLINE_STEPS
      <4>1. call[r].result = "more" => loops[r] <= MaxEvents
        BY <3>1 DEF LoopInv, LoopOf
      <4>2. MaxEvents \in Nat /\ MAX_INLINE_STEPS \in Nat /\ MaxEvents < MAX_INLINE_STEPS
        BY BoundAssumption, BoundsOK DEF Bounded, LoopsSuffice
      <4> QED BY <1>t, <4>1, <4>2
    <3>3. runs'[r] > 0
      <4>1. call[r].result = "more" \/ runs[r] = 2
        BY <1>6, <3>1 DEF Strong, InFlight
      <4> QED BY <3>1, <3>2, <4>1
    <3> QED BY <1>t, <3>1, <3>3 DEF Carried, Strong
  <2>5. CASE RequestEnds(r) \/ RequestDies(r)
    <3>1. /\ ~(call[r].pc = "returned" /\ call[r].op = "refund" /\ call[r].result # "threw")
          /\ RequestSlot(r)
      <4>1. RequestSlot(r)
        BY DEF OrchestratorInv, SlotsInv
      <4>2. ASSUME call[r].pc = "returned", call[r].op = "refund", call[r].result # "threw"
            PROVE  FALSE
        <5>1. runs[r] = 0 /\ call[r].result # "more"
          BY <1>t, <4>1, <4>2 DEF RequestSlot
        <5> QED BY <1>6, <4>2, <5>1 DEF Strong, InFlight
      <4> QED BY <4>1, <4>2
    <3>2. Report(p)
      BY <1>6, <2>5, <3>1, RequestEndsKeeps
    <3> QED BY <1>t, <3>2 DEF Report
  <2>6. CASE \/ \E q \in Payments : \E success \in BOOLEAN : OnFunding(r, q, success)
             \/ \E q \in Payments : Refund(r, q)
    BY <2>1, <2>6, FundingKeeps, RefundKeeps
  <2> QED BY <2>2, <2>3, <2>4, <2>5, <2>6 DEF RequestStep
<1> QED BY <1>1, <1>4, <1>5, <1>6, <1>t, CarriedStays

LEMMA WorkerCarries ==
  ASSUME OrchestratorInv, CarriedInv, NEW w \in Workers,
         WorkerStep(w), NEW p \in Payments, Needy(p)', ~reported'[p]
  PROVE  Carried(p)'
<1>t. /\ TypeInv /\ w \in Calls /\ w \notin Requests /\ queue \in [Jobs -> Nat]
      /\ reported \in [Payments -> BOOLEAN]
  BY SlotKinds DEF OrchestratorInv, OrchestrationOK
<1>1. UNCHANGED rows /\ OtherSlots(w)
  BY TakeKeeps, WorkerEndsKeeps DEF WorkerStep
<1>2. Needy(p) /\ pay'[p].status \in Collected \union {"Quoted"}
  <2>1. UNCHANGED <<pay, asked>>
    BY <1>1 DEF WorkerStep, Take, Stepped, AttemptFails, WorkerDies, rows
  <2> QED BY <2>1, NeedyStays
<1>3. CASE Take(w)
  <2>1. UNCHANGED reported
    BY <1>3 DEF Take
  <2>2. Carried(p)
    BY <1>2, <2>1 DEF CarriedInv
  <2>3. PICK j \in Jobs : /\ queue[j] > 0 /\ queue' = [queue EXCEPT ![j] = queue[j] - 1]
                          /\ StepLeaves(call'[w], j.on) /\ j.on \in Payments
                          /\ call[w].pc = "idle"
    BY <1>3, TakeKeeps
  <2>4. CASE j.on = p
    BY <1>1, <1>2, <1>t, <2>3, <2>4, StepCarries
  <2>5. CASE j.on # p
    <3>1. \A k \in Jobs : Queued(k, p) => queue'[k] > 0
      BY <1>t, <2>3, <2>5 DEF Queued
    <3>2. ~Strong(w)
      BY <1>t, <2>3 DEF Strong, InFlight
    <3> QED BY <1>1, <1>t, <2>2, <3>1, <3>2, CarriedStays
  <2> QED BY <2>4, <2>5
<1>4. CASE Stepped(w) \/ AttemptFails(w) \/ WorkerDies(w)
  <2>1. /\ call[w].on \in Payments
        /\ \/ UNCHANGED reported /\ \E j \in Jobs : Add(j) /\ j.on = call[w].on
           \/ Report(call[w].on) /\ UNCHANGED queue
           \/ /\ UNCHANGED <<queue, reported>>
              /\ call[w].pc = "returned" /\ call[w].result \notin {"more", "threw"}
    BY <1>4, WorkerEndsKeeps
  <2>2. ~reported[p]
    BY <1>t, <2>1 DEF Report
  <2>3. Carried(p)
    BY <1>2, <2>2 DEF CarriedInv
  <2>4. \A k \in Jobs : Queued(k, p) => queue'[k] > 0
    BY <1>t, <2>1, AddedIsQueued DEF Queued
  <2>5. ASSUME call[w].on = p, Strong(w) PROVE Carried(p)'
    <3>1. CASE \E j \in Jobs : Add(j) /\ j.on = p
      <4> PICK j \in Jobs : Add(j) /\ j.on = p
        BY <3>1
      <4>1. Queued(j, p)'
        BY <1>t, AddedIsQueued DEF Queued
      <4> QED BY <4>1 DEF Carried
    <3>2. CASE Report(p)
      BY <1>t, <3>2 DEF Report
    <3>3. ~(call[w].pc = "returned" /\ call[w].result \notin {"more", "threw"})
      BY <1>t, <2>5 DEF Strong, InFlight
    <3> QED BY <2>1, <2>5, <3>1, <3>2, <3>3
  <2> QED BY <1>1, <1>t, <2>3, <2>4, <2>5, CarriedStays
<1> QED BY <1>3, <1>4 DEF WorkerStep

LEMMA EngineCarries ==
  ASSUME OrchestratorInv, CarriedInv, ~LiveConfirm, NEW c \in Calls, EngineWork(c),
         NEW p \in Payments, Needy(p)', ~reported'[p]
  PROVE  Carried(p)'
<1>t. TypeInv /\ call[c].on \in Payments /\ pay \in [Payments -> PayRow]
  BY OnPayment DEF OrchestratorInv, TypeInv, TypeOK
<1>1. /\ OtherSlots(c) /\ InFlight(c) /\ UNCHANGED <<queue, asked, reported>>
      /\ WaitsOrThrows(c, call'[c]) \/ (Commit(c) /\ CommitLeaves(c, call'[c]))
  BY EngineWorkKeeps DEF orchestration
<1>q. \A j \in Jobs : Queued(j, p) => queue'[j] > 0
  BY <1>1 DEF Queued
<1>2. CASE WaitsOrThrows(c, call'[c])
  <2>1. Needy(p)
    BY <1>1, <1>2, NeedyStays DEF WaitsOrThrows, rows
  <2>2. Carried(p)
    BY <1>1, <2>1 DEF CarriedInv
  <2>3. call'[c].on = call[c].on /\ Strong(c)'
    BY <1>2 DEF WaitsOrThrows, Strong, InFlight
  <2>4. call[c].on = p => Carried(p)'
    BY <2>3 DEF Carried
  <2> QED BY <1>1, <1>q, <2>2, <2>4, CarriedStays
<1>3. CASE CommitLeaves(c, call'[c])
  <2>1. PICK row \in PayRow :
          /\ pay' = [pay EXCEPT ![call[c].on] = row]
          /\ row.status # "Quoted"
          /\ call'[c].result = "more" <=> row.status \in Collected
    BY <1>3 DEF CommitLeaves
  <2>2. call'[c].on = call[c].on /\ call'[c].pc = "returned"
    BY <1>3 DEF CommitLeaves
  <2>3. CASE call[c].on = p
    <3>1. pay'[p] = row
      BY <1>t, <2>1, <2>3
    <3>2. row.status \in Collected
      BY <2>1, <3>1 DEF Needy
    <3>3. Strong(c)' /\ call'[c].on = p
      BY <2>1, <2>2, <2>3, <3>2 DEF Strong
    <3> QED BY <3>3 DEF Carried
  <2>4. CASE call[c].on # p
    <3>1. pay'[p] = pay[p]
      BY <1>t, <2>1, <2>4
    <3>2. Needy(p)
      BY <1>1, <3>1 DEF Needy, Driven
    <3>3. Carried(p)
      BY <1>1, <3>2 DEF CarriedInv
    <3> QED BY <1>1, <1>q, <2>4, <3>3, CarriedStays
  <2> QED BY <2>3, <2>4
<1> QED BY <1>1, <1>2, <1>3

LEMMA DriveCarries ==
  ASSUME OrchestratorInv, CarriedInv, NEW q \in Payments, Drive(q),
         NEW p \in Payments, Needy(p)', ~reported'[p]
  PROVE  Carried(p)'
<1>t. TypeInv /\ queue \in [Jobs -> Nat] /\ NewJob(q) \in Jobs /\ NewJob(q).on = q
  BY NewJobIsJob DEF OrchestratorInv, OrchestrationOK
<1>1. /\ UNCHANGED rows /\ UNCHANGED reported
      /\ asked' = [asked EXCEPT ![q].drives = @ + 1]
      /\ \/ UNCHANGED <<vars, runs, loops, active>> /\ Add(NewJob(q))
         \/ /\ UNCHANGED queue
            /\ \E r \in Requests : Free(r) /\ OtherSlots(r) /\ StepLeaves(call'[r], q)
  BY DriveKeeps DEF Drive
<1>2. ASSUME p # q PROVE Carried(p)
  <2>1. asked'[p].drives = asked[p].drives
    BY <1>1, <1>2 DEF OrchestratorInv, OrchestrationOK
  <2> QED BY <1>1, <2>1, NeedyStays DEF CarriedInv, rows
<1>3. CASE UNCHANGED <<vars, runs, loops, active>> /\ Add(NewJob(q))
  <2>1. Queued(NewJob(q), q)' /\ \A k \in Jobs : queue[k] > 0 => queue'[k] > 0
    BY <1>3, <1>t, AddedIsQueued DEF Queued
  <2>2. CASE p = q
    BY <1>t, <2>1, <2>2 DEF Carried
  <2>3. CASE p # q
    <3>1. CASE \E j \in Jobs : Queued(j, p)
      BY <2>1, <3>1 DEF Carried, Queued
    <3>2. ASSUME NEW c \in Calls, call[c].on = p, Strong(c) PROVE Carried(p)'
      <4>1. call' = call /\ runs' = runs
        BY <1>3 DEF vars
      <4>2. call'[c].on = p /\ Strong(c)'
        BY <3>2, <4>1 DEF Strong, InFlight
      <4> QED BY <4>2 DEF Carried
    <3> QED BY <1>2, <2>3, <3>1, <3>2 DEF Carried
  <2> QED BY <2>2, <2>3
<1>4. ASSUME NEW r \in Requests, UNCHANGED queue, Free(r), OtherSlots(r),
             StepLeaves(call'[r], q)
      PROVE  Carried(p)'
  <2>1. r \in Calls /\ ~Strong(r)
    BY <1>4, SlotKinds, FreeIsNotStrong
  <2>2. CASE p = q
    <3>1. pay'[p].status \in Collected \union {"Quoted"}
      BY DEF Needy
    <3> QED BY <1>1, <1>4, <2>1, <2>2, <3>1, StepCarries
  <2>3. CASE p # q
    <3>1. \A j \in Jobs : Queued(j, p) => queue'[j] > 0
      BY <1>4 DEF Queued
    <3> QED BY <1>2, <1>4, <2>1, <2>3, <3>1, CarriedStays
  <2> QED BY <2>2, <2>3
<1> QED BY <1>1, <1>3, <1>4

LEMMA NextCarriedInv ==
  ASSUME ~LiveConfirm, LoopsSuffice
  PROVE  OrchestratorInv /\ LoopInv /\ CarriedInv /\ [OrchestratorNext]_allVars => CarriedInv'
<1> SUFFICES ASSUME OrchestratorInv, LoopInv, CarriedInv, [OrchestratorNext]_allVars,
                    NEW p \in Payments, Needy(p)', ~reported'[p]
             PROVE  Carried(p)'
  BY DEF CarriedInv
<1>1. CASE UNCHANGED allVars
  <2>1. Needy(p) /\ ~reported[p]
    BY <1>1 DEF allVars, vars, orchestration, Needy, Driven
  <2>2. Carried(p)
    BY <2>1 DEF CarriedInv
  <2> QED BY <1>1, <2>2 DEF Carried, Queued, Strong, InFlight, allVars, vars, orchestration
<1> QED
  BY <1>1, OrchestratorSteps, DriveCarries, RequestCarries, WorkerCarries, EngineCarries

LEMMA CarriedIsScheduled ==
  ASSUME OrchestratorInv, NEW p \in Payments, Carried(p)
  PROVE  Scheduled(p)
<1>1. CASE \E j \in Jobs : Queued(j, p)
  BY <1>1 DEF Queued, Scheduled
<1>2. ASSUME NEW w \in Workers, call[w].on = p, Strong(w) PROVE Scheduled(p)
  <2>1. call[w].pc # "idle" /\ WorkerSlot(w)
    BY <1>2, SlotKinds DEF Strong, InFlight, OrchestratorInv, SlotsInv
  <2> QED BY <1>2, <2>1 DEF WorkerSlot, Scheduled
<1>3. ASSUME NEW r \in Requests, call[r].on = p, Strong(r) PROVE Scheduled(p)
  BY <1>3, FreeIsNotStrong DEF Scheduled
<1> QED BY <1>1, <1>2, <1>3, SlotKinds DEF Carried

LEMMA InitLoopInv == OrchestratorInit => LoopInv
<1> SUFFICES ASSUME OrchestratorInit, NEW r \in Requests PROVE LoopOf(r)
  BY DEF LoopInv
<1>1. call[r].pc = "idle" /\ runs[r] = 0
  BY SlotKinds DEF OrchestratorInit, Init, Idle
<1> QED BY <1>1 DEF LoopOf, InFlight

\* With adapters that confirm at once, and logs shorter than the bound of
\* driveInline: neither the job that comes after a step, nor the retry, nor the loop,
\* nor the second run of onFunding, nor the death of a process loses a payment that
\* is driven and not yet asked for its money, or that has collected it
\* (orchestrator.service.ts:59-104).
THEOREM NobodyIsStranded ==
  ASSUME ~LiveConfirm, LoopsSuffice PROVE OrchestratorSpec => []NothingStranded
<1>1. OrchestratorInit => CarriedInv
  <2> SUFFICES ASSUME OrchestratorInit, NEW p \in Payments PROVE ~Needy(p)
    BY DEF CarriedInv
  <2>1. pay[p].status = "Quoted" /\ asked[p].drives = 0
    BY DEF OrchestratorInit, Init, NewPayment
  <2> QED BY <2>1 DEF Needy, Driven, Collected
<1>2. OrchestratorInv /\ CarriedInv => NothingStranded
  BY CarriedIsScheduled DEF CarriedInv, NothingStranded, Needy
<1> QED
  BY <1>1, <1>2, InitOrchestratorInv, NextOrchestratorInv, InitLoopInv, NextLoopInv,
     NextCarriedInv, PTL DEF OrchestratorSpec

(***************************************************************************)
(* Who is at work on a payment that is created, driven and funded once, by *)
(* processes that stay alive: at most one job or call has anything left to *)
(* do for it, and that call has read the status it still has.              *)
(***************************************************************************)
At(c, p) ==
  /\ call[c].on = p
  /\ Strong(c) \/ (call[c].pc = "returned" /\ call[c].op = "applyFunding")

NoToken(p) ==
  /\ \A j \in Jobs : ~Queued(j, p)
  /\ \A c \in Calls : ~At(c, p)

OneToken(p) ==
  /\ \A j, k \in Jobs : Queued(j, p) /\ Queued(k, p) => j = k /\ queue[j] = 1
  /\ \A c, d \in Calls : At(c, p) /\ At(d, p) => c = d
  /\ \A j \in Jobs, c \in Calls : ~(Queued(j, p) /\ At(c, p))

ReadFresh(c, p) == call[c].on = p /\ InFlight(c) => call[c].snap.status = pay[p].status

Quiet(p) ==
  /\ ~stale[p]
  /\ OneToken(p)
  /\ ~Driven(p) => pay[p].status = "Quoted" /\ NoToken(p)
  /\ callbacks[p] = 0 => /\ pay[p].status \in {"Quoted", "AwaitingFunding", "Failed"}
                         /\ pay[p].status # "Quoted" => NoToken(p)
  /\ \A c \in Calls : ReadFresh(c, p)

QuietInv == \A p \in Payments : ~disturbed[p] => Quiet(p)

\* Until it has asked for its money a payment has no checkout id a callback could name.
UnaskedInv == \A p \in Payments : pay[p].status = "Quoted" => pay[p].mpesaCheckoutId = 0

\* A second run of driveInline comes from a callback.
Uncalled(r) ==
  ~Free(r) /\ callbacks[call[r].on] = 0
    => runs[r] <= 1 /\ (call[r].pc # "idle" => call[r].op # "applyFunding")

UncalledInv == \A r \in Requests : Uncalled(r)

\* Only c has, or nobody has, anything left to do for p.
OnlySlot(c, p) ==
  /\ \A j \in Jobs : ~Queued(j, p)
  /\ \A d \in Calls \ {c} : ~At(d, p)

LEMMA AtStays ==
  ASSUME NEW c \in Calls, OtherSlots(c), NEW d \in Calls, d # c, NEW p
  PROVE  call'[d] = call[d] /\ (At(d, p)' <=> At(d, p))
  BY StrongStays DEF At

LEMMA TokensFade ==
  ASSUME NEW p, \A d \in Calls : At(d, p)' => At(d, p),
         \A j \in Jobs : j.on = p => queue'[j] = queue[j]
  PROVE  (OneToken(p) => OneToken(p)') /\ (NoToken(p) => NoToken(p)')
  BY DEF OneToken, NoToken, Queued

LEMMA TokenIsOnly ==
  ASSUME NEW c \in Calls, NEW p
  PROVE  /\ OneToken(p) /\ At(c, p) => OnlySlot(c, p)
         /\ NoToken(p) => OnlySlot(c, p)
         /\ OnlySlot(c, p) => OneToken(p)
         /\ OnlySlot(c, p) /\ ~At(c, p) => NoToken(p)
  BY DEF OneToken, NoToken, OnlySlot

LEMMA OnlyStays ==
  ASSUME NEW c \in Calls, NEW p, OnlySlot(c, p), OtherSlots(c),
         \A j \in Jobs : j.on = p => queue'[j] = queue[j]
  PROVE  OnlySlot(c, p)'
<1>1. \A d \in Calls \ {c} : ~At(d, p)'
  BY AtStays DEF OnlySlot
<1> QED BY <1>1 DEF OnlySlot, Queued

LEMMA OnlyIsToken ==
  ASSUME NEW c \in Calls, NEW p, OnlySlot(c, p)'
  PROVE  OneToken(p)' /\ (~At(c, p)' => NoToken(p)')
  BY DEF OneToken, NoToken, OnlySlot

LEMMA HandedToQueue ==
  ASSUME queue \in [Jobs -> Nat], NEW c \in Calls, NEW p, OnlySlot(c, p), OtherSlots(c),
         NEW j \in Jobs, j.on = p, Add(j), ~At(c, p)'
  PROVE  OneToken(p)' /\ \A d \in Calls : ~At(d, p)'
<1>1. queue'[j] = queue[j] + 1 /\ \A k \in Jobs \ {j} : queue'[k] = queue[k]
  BY AddPuts
<1>2. queue[j] \in Nat /\ ~(queue[j] > 0)
  BY DEF OnlySlot, Queued
<1>3. queue'[j] = 1
  BY <1>1, <1>2
<1>4. \A d \in Calls : ~At(d, p)'
  BY AtStays DEF OnlySlot
<1>5. \A k \in Jobs : Queued(k, p)' => k = j
  BY <1>1 DEF OnlySlot, Queued
<1> QED BY <1>3, <1>4, <1>5 DEF OneToken

\* What another slot, or the same slot with no new work, does to p.
LEMMA QuietFrame ==
  ASSUME NEW c \in Calls, NEW p \in Payments, Quiet(p), OtherSlots(c),
         pay'[p] = pay[p], stale'[p] = stale[p],
         asked'[p].drives = asked[p].drives, callbacks'[p] = callbacks[p],
         \A j \in Jobs : j.on = p => queue'[j] = queue[j],
         At(c, p)' => At(c, p), ReadFresh(c, p)'
  PROVE  Quiet(p)'
<1>1. \A d \in Calls : At(d, p)' => At(d, p)
  BY AtStays
<1>2. (OneToken(p) => OneToken(p)') /\ (NoToken(p) => NoToken(p)')
  BY <1>1, TokensFade
<1>3. ASSUME NEW d \in Calls PROVE ReadFresh(d, p)'
  <2>1. CASE d = c
    BY <2>1
  <2>2. CASE d # c
    <3>1. call'[d] = call[d]
      BY <2>2, AtStays
    <3> QED BY <3>1 DEF ReadFresh, Quiet, InFlight
  <2> QED BY <2>1, <2>2
<1> QED BY <1>2, <1>3 DEF Quiet, Driven

LEMMA InFlightIsAt ==
  ASSUME NEW c \in Calls, InFlight(c)
  PROVE  At(c, call[c].on)
  BY DEF At, Strong

LEMMA EngineQuiet ==
  ASSUME OrchestratorInv, QuietInv, UncalledInv, NEW c \in Calls, EngineWork(c),
         NEW p \in Payments, ~disturbed'[p]
  PROVE  Quiet(p)'
<1>t. /\ TypeInv /\ call[c].on \in Payments /\ pay \in [Payments -> PayRow]
      /\ stale \in [Payments -> BOOLEAN]
  BY OnPayment DEF OrchestratorInv, TypeInv, TypeOK
<1>1. /\ OtherSlots(c) /\ InFlight(c) /\ UNCHANGED orchestration
      /\ UNCHANGED <<queue, runs, asked, callbacks, disturbed>>
      /\ WaitsOrThrows(c, call'[c]) \/ (Commit(c) /\ CommitLeaves(c, call'[c]))
  BY EngineWorkKeeps DEF orchestration
<1>2. Quiet(p) /\ At(c, call[c].on)
  BY <1>1, InFlightIsAt DEF QuietInv
<1>3. CASE WaitsOrThrows(c, call'[c])
  <2>1. call'[c].on = call[c].on /\ UNCHANGED <<pay, stale>>
    BY <1>3 DEF WaitsOrThrows, rows
  <2>2. At(c, p)' => At(c, p)
    BY <1>2, <2>1 DEF At
  <2>3. ReadFresh(c, p)'
    <3>1. call[c].on = p => call[c].snap.status = pay[p].status
      BY <1>1, <1>2 DEF Quiet, ReadFresh
    <3> QED BY <1>3, <2>1, <3>1 DEF WaitsOrThrows, ReadFresh, InFlight
  <2> QED BY <1>1, <1>2, <2>1, <2>2, <2>3, QuietFrame
<1>4. CASE Commit(c) /\ CommitLeaves(c, call'[c])
  <2>1. PICK row \in PayRow :
          /\ pay' = [pay EXCEPT ![call[c].on] = row]
          /\ call'[c].result = "more" <=> row.status \in Collected
          /\ call[c].snap.status = "Quoted" => row.status \in {"AwaitingFunding", "Failed"}
    BY <1>4 DEF CommitLeaves
  <2>2. /\ call'[c].on = call[c].on /\ call'[c].pc = "returned" /\ call'[c].op = call[c].op
        /\ call'[c].result # "threw"
        /\ stale' = [stale EXCEPT ![call[c].on] =
                       @ \/ pay[call[c].on].status # call[c].snap.status]
    BY <1>4, <1>t, CommitWrites DEF CommitLeaves, Writes
  <2>3. CASE call[c].on # p
    <3>1. pay'[p] = pay[p] /\ stale'[p] = stale[p]
      BY <1>t, <2>1, <2>2, <2>3
    <3>2. ~At(c, p)' /\ ReadFresh(c, p)'
      BY <2>2, <2>3 DEF At, ReadFresh
    <3> QED BY <1>1, <1>2, <3>1, <3>2, QuietFrame
  <2>4. CASE call[c].on = p
    <3>1. OnlySlot(c, p) /\ call[c].snap.status = pay[p].status /\ At(c, p)
      BY <1>1, <1>2, <2>4, TokenIsOnly DEF Quiet, ReadFresh
    <3>2. pay'[p] = row /\ ~stale'[p]
      BY <1>2, <1>t, <2>1, <2>2, <2>4, <3>1 DEF Quiet
    <3>3. OnlySlot(c, p)'
      BY <1>1, <3>1, OnlyStays
    <3>4. OneToken(p)'
      BY <3>3, OnlyIsToken
    <3>5. Driven(p)'
      BY <1>1, <1>2, <3>1 DEF Quiet, NoToken, Driven
    <3>6. ASSUME callbacks'[p] = 0
          PROVE  /\ row.status \in {"Quoted", "AwaitingFunding", "Failed"}
                 /\ NoToken(p)'
      <4>1. pay[p].status = "Quoted"
        BY <1>1, <1>2, <3>1, <3>6 DEF Quiet, NoToken
      <4>2. row.status \in {"AwaitingFunding", "Failed"}
        BY <2>1, <3>1, <4>1
      <4>3. call'[c].result \notin {"more", "threw"}
        BY <2>1, <2>2, <4>2 DEF Collected
      <4>4. call[c].op # "applyFunding" /\ (c \in Requests => runs[c] <= 1)
        <5>1. CASE c \in Workers
          BY <1>1, <5>1, SlotKinds DEF OrchestratorInv, SlotsInv, WorkerSlot, InFlight
        <5>2. CASE c \in Requests
          BY <1>1, <2>4, <3>6, <5>2 DEF UncalledInv, Uncalled, Free, InFlight
        <5> QED BY <5>1, <5>2, SlotKinds
      <4>5. c \in Requests => runs'[c] \in 0..1
        BY <1>1, <4>4 DEF OrchestratorInv, OrchestrationOK
      <4>6. ~At(c, p)'
        BY <2>2, <4>3, <4>4, <4>5 DEF At, Strong, InFlight
      <4> QED BY <3>3, <4>2, <4>6, OnlyIsToken
    <3>7. ASSUME NEW d \in Calls PROVE ReadFresh(d, p)'
      <4>1. CASE d = c
        BY <2>2, <4>1 DEF ReadFresh, InFlight
      <4>2. CASE d # c
        <5>1. ~At(d, p)'
          BY <3>3, <4>2 DEF OnlySlot
        <5> QED BY <5>1 DEF At, Strong, ReadFresh
      <4> QED BY <4>1, <4>2
    <3> QED BY <3>2, <3>4, <3>5, <3>6, <3>7 DEF Quiet
  <2> QED BY <2>3, <2>4
<1> QED BY <1>1, <1>3, <1>4

\* A step leaves a call that has just read the row it is about, if it goes on.
LEMMA StepQuiet ==
  ASSUME TypeInv, UNCHANGED rows, NEW c \in Calls, NEW q \in Payments, StepLeaves(call'[c], q),
         NEW p \in Payments
  PROVE  ReadFresh(c, p)' /\ (q # p => ~At(c, p)')
  BY DEF ReadFresh, At, StepLeaves, rows, InFlight

LEMMA WorkerQuiet ==
  ASSUME OrchestratorInv, QuietInv, NEW w \in Workers, WorkerStep(w),
         NEW p \in Payments, ~disturbed'[p]
  PROVE  Quiet(p)'
<1>t. /\ TypeInv /\ w \in Calls /\ w \notin Requests /\ queue \in [Jobs -> Nat]
      /\ disturbed \in [Payments -> BOOLEAN]
  BY SlotKinds DEF OrchestratorInv, OrchestrationOK
<1>1. UNCHANGED rows /\ OtherSlots(w)
  BY TakeKeeps, WorkerEndsKeeps DEF WorkerStep
<1>2. UNCHANGED <<pay, stale, asked, callbacks>>
  BY <1>1 DEF WorkerStep, Take, Stepped, AttemptFails, WorkerDies, rows
<1>3. Quiet(p)
  <2>1. \A j \in active[w] : j \in Jobs /\ j.on \in Payments
    BY DEF OrchestratorInv, OrchestrationOK, Jobs
  <2>2. UNCHANGED disturbed \/ \E q \in Payments : Disturb(q, TRUE)
    BY <2>1 DEF WorkerStep, Take, Stepped, AttemptFails, WorkerDies
  <2> QED BY <1>t, <2>2 DEF QuietInv, Disturb
<1>4. CASE Take(w)
  <2>1. PICK j \in Jobs : /\ queue[j] > 0 /\ queue' = [queue EXCEPT ![j] = queue[j] - 1]
                          /\ StepLeaves(call'[w], j.on) /\ j.on \in Payments
                          /\ call[w].pc = "idle"
    BY <1>4, TakeKeeps
  <2>2. ReadFresh(w, p)' /\ (j.on # p => ~At(w, p)')
    BY <1>1, <1>t, <2>1, StepQuiet
  <2>3. CASE j.on # p
    <3>1. \A k \in Jobs : k.on = p => queue'[k] = queue[k]
      BY <1>t, <2>1, <2>3
    <3> QED BY <1>1, <1>2, <1>3, <1>t, <2>2, <2>3, <3>1, QuietFrame
  <2>4. CASE j.on = p
    <3>1. Queued(j, p) /\ queue[j] = 1
      BY <1>3, <2>1, <2>4 DEF Quiet, OneToken, Queued
    <3>2. OnlySlot(w, p)'
      <4>1. \A d \in Calls \ {w} : ~At(d, p)'
        BY <1>1, <1>3, <1>t, <3>1, AtStays DEF Quiet, OneToken
      <4>2. queue'[j] = 0
        BY <1>t, <2>1, <3>1
      <4>3. \A k \in Jobs \ {j} : queue'[k] = queue[k] /\ ~Queued(k, p)
        BY <1>3, <1>t, <2>1, <3>1 DEF Quiet, OneToken
      <4> QED BY <4>1, <4>2, <4>3 DEF OnlySlot, Queued
    <3>3. OneToken(p)'
      BY <1>t, <3>2, OnlyIsToken
    <3>4. Driven(p) /\ (callbacks[p] = 0 => pay[p].status = "Quoted")
      BY <1>3, <3>1 DEF Quiet, NoToken
    <3>5. \A d \in Calls : ReadFresh(d, p)'
      <4> SUFFICES ASSUME NEW d \in Calls, d # w PROVE ReadFresh(d, p)'
        BY <2>2
      <4>1. ~At(d, p)'
        BY <3>2 DEF OnlySlot
      <4> QED BY <4>1 DEF At, Strong, ReadFresh
    <3> QED BY <1>2, <1>3, <3>3, <3>4, <3>5 DEF Quiet, Driven
  <2> QED BY <2>3, <2>4
<1>5. CASE Stepped(w) \/ AttemptFails(w) \/ WorkerDies(w)
  <2>1. /\ call'[w].pc = "idle" /\ call[w].pc # "idle" /\ call[w].on \in Payments
        /\ \/ /\ \E j \in Jobs : Add(j) /\ j.on = call[w].on
              /\ \/ call[w].pc = "returned" /\ call[w].result \in {"more", "threw"}
                 \/ disturbed'[call[w].on] = TRUE
           \/ UNCHANGED queue
    BY <1>5, WorkerEndsKeeps
  <2>2. ~At(w, p)' /\ ReadFresh(w, p)'
    BY <1>t, <2>1 DEF At, Strong, InFlight, ReadFresh
  <2>3. CASE UNCHANGED queue
    BY <1>1, <1>2, <1>3, <1>t, <2>2, <2>3, QuietFrame
  <2>4. ASSUME NEW j \in Jobs, Add(j), j.on = call[w].on,
               \/ call[w].pc = "returned" /\ call[w].result \in {"more", "threw"}
               \/ disturbed'[call[w].on] = TRUE
        PROVE  Quiet(p)'
    <3>1. CASE j.on # p
      <4>1. \A k \in Jobs : k.on = p => queue'[k] = queue[k]
        BY <1>t, <2>4, <3>1, AddPuts
      <4> QED BY <1>1, <1>2, <1>3, <1>t, <2>2, <4>1, QuietFrame
    <3>2. CASE j.on = p
      <4>1. At(w, p)
        BY <2>4, <3>2 DEF At, Strong
      <4>2. OnlySlot(w, p)
        BY <1>3, <1>t, <4>1, TokenIsOnly DEF Quiet
      <4>3. OneToken(p)' /\ \A d \in Calls : ~At(d, p)'
        BY <1>1, <1>t, <2>2, <2>4, <3>2, <4>2, HandedToQueue
      <4>4. Driven(p) /\ (callbacks[p] = 0 => pay[p].status = "Quoted")
        BY <1>3, <1>t, <4>1 DEF Quiet, NoToken
      <4>5. \A d \in Calls : ReadFresh(d, p)'
        BY <4>3 DEF At, Strong, ReadFresh
      <4> QED BY <1>2, <1>3, <4>3, <4>4, <4>5 DEF Quiet, Driven
    <3> QED BY <3>1, <3>2
  <2> QED BY <2>1, <2>3, <2>4
<1> QED BY <1>4, <1>5 DEF WorkerStep

LEMMA RequestQuiet ==
  ASSUME OrchestratorInv, QuietInv, UnaskedInv, UncalledInv, NEW r \in Requests, RequestStep(r),
         NEW p \in Payments, ~disturbed'[p]
  PROVE  Quiet(p)'
<1>t. /\ TypeInv /\ r \in Calls /\ r \notin Workers /\ queue \in [Jobs -> Nat]
      /\ disturbed \in [Payments -> BOOLEAN] /\ runs[r] \in 0..2
      /\ call[r].on \in Payments /\ RequestSlot(r)
  BY SlotKinds, OnPayment DEF OrchestratorInv, OrchestrationOK, SlotsInv
<1>1. UNCHANGED rows /\ OtherSlots(r)
  BY FundingKeeps, RefundKeeps, AppliedKeeps, InlineStepKeeps, InlineSteppedKeeps,
     RequestEndsKeeps DEF RequestStep
<1>2. UNCHANGED <<pay, stale>>
  BY <1>1 DEF rows
<1>3. Quiet(p)
  <2>1. \/ UNCHANGED disturbed
        \/ \E q \in Payments : \E if : Disturb(q, if)
    BY <1>t, ZenonT(30) DEF RequestStep, OnFunding, Refund, FundingApplied, InlineStep,
       InlineStepped, RequestEnds, RequestDies
  <2> QED BY <1>t, <2>1 DEF QuietInv, Disturb
<1>4. asked'[p].drives = asked[p].drives
  <2>1. UNCHANGED asked \/ \E q \in Payments : asked' = [asked EXCEPT ![q].refunds = @ + 1]
    BY DEF RequestStep, OnFunding, Refund, FundingApplied, InlineStep, InlineStepped,
           RequestEnds, RequestDies
  <2> QED BY <2>1 DEF OrchestratorInv, OrchestrationOK
<1>5. ASSUME UNCHANGED <<queue, callbacks>>, At(r, p)' => At(r, p), ReadFresh(r, p)'
      PROVE  Quiet(p)'
  BY <1>1, <1>2, <1>3, <1>4, <1>5, <1>t, QuietFrame
<1>6. ASSUME NEW q \in Payments, NEW success \in BOOLEAN, OnFunding(r, q, success)
      PROVE  Quiet(p)'
  <2>1. /\ Free(r) /\ FundingLeaves(call'[r], q) /\ UNCHANGED <<queue, asked>>
        /\ callbacks' = [callbacks EXCEPT ![q] = @ + 1]
        /\ disturbed' = [disturbed EXCEPT ![q] = @ \/ callbacks[q] > 0]
        /\ pay[q].mpesaCheckoutId # 0
    BY <1>6, FundingKeeps DEF OnFunding, Disturb
  <2>2. ReadFresh(r, p)' /\ call'[r].on = q
    BY <1>2, <2>1 DEF ReadFresh, FundingLeaves, InFlight
  <2>3. CASE q # p
    <3>1. callbacks'[p] = callbacks[p] /\ ~At(r, p)'
      BY <2>1, <2>2, <2>3 DEF OrchestratorInv, OrchestrationOK, At
    <3> QED BY <1>1, <1>2, <1>3, <1>4, <1>t, <2>1, <2>2, <3>1, QuietFrame
  <2>4. CASE q = p
    <3>1. callbacks[p] \in Nat /\ ~(callbacks[p] > 0) /\ callbacks'[p] = callbacks[p] + 1
      <4>1. callbacks[p] \in Nat
        BY BoundsOK DEF OrchestratorInv, OrchestrationOK, Bounded
      <4> QED BY <1>t, <2>1, <2>4, <4>1 DEF OrchestratorInv, OrchestrationOK
    <3>2. callbacks[p] = 0 /\ callbacks'[p] # 0
      BY <3>1
    <3>3. pay[p].status # "Quoted"
      BY <2>1, <2>4 DEF UnaskedInv
    <3>4. NoToken(p) /\ Driven(p)
      BY <1>3, <3>2, <3>3 DEF Quiet
    <3>5. OnlySlot(r, p)'
      BY <1>1, <1>t, <2>1, <3>4, TokenIsOnly, OnlyStays
    <3>6. OneToken(p)'
      BY <1>t, <3>5, OnlyIsToken
    <3>7. \A d \in Calls : ReadFresh(d, p)'
      <4> SUFFICES ASSUME NEW d \in Calls, d # r PROVE ReadFresh(d, p)'
        BY <2>2
      <4>1. ~At(d, p)'
        BY <3>5 DEF OnlySlot
      <4> QED BY <4>1 DEF At, Strong, ReadFresh
    <3> QED BY <1>2, <1>3, <2>1, <3>2, <3>4, <3>6, <3>7 DEF Quiet, Driven
  <2> QED BY <2>3, <2>4
<1>7. ASSUME NEW q \in Payments, Refund(r, q) PROVE Quiet(p)'
  <2>1. /\ RefundLeaves(call'[r], q) /\ UNCHANGED <<queue, callbacks>>
        /\ disturbed' = [disturbed EXCEPT ![q] = @ \/ TRUE]
    BY <1>7, RefundKeeps DEF Refund, Disturb
  <2>2. q # p
    BY <1>t, <2>1
  <2>3. ~At(r, p)' /\ ReadFresh(r, p)'
    BY <2>1, <2>2 DEF At, ReadFresh, RefundLeaves
  <2> QED BY <1>5, <2>1, <2>3
<1>8. CASE FundingApplied(r)
  <2>0. /\ call[r].pc = "returned" /\ call[r].op = "applyFunding" /\ UNCHANGED callbacks
        /\ runs[r] = 0
    BY <1>8, <1>t DEF FundingApplied, RequestSlot
  <2>1. /\ call'[r].pc = "idle" /\ call'[r].on = call[r].on
        /\ \/ Add(NewJob(call[r].on)) /\ runs'[r] = 0
           \/ UNCHANGED queue
    BY <1>8, AppliedKeeps
  <2>2. At(r, call[r].on) /\ ReadFresh(r, p)' /\ (At(r, p)' => At(r, p))
    BY <2>0, <2>1 DEF At, ReadFresh, InFlight
  <2>3. CASE UNCHANGED queue
    BY <1>5, <2>0, <2>2, <2>3
  <2>4. CASE Add(NewJob(call[r].on)) /\ runs'[r] = 0
    <3>1. NewJob(call[r].on) \in Jobs /\ NewJob(call[r].on).on = call[r].on
      BY <1>t, NewJobIsJob
    <3>2. CASE call[r].on # p
      <4>1. \A k \in Jobs : k.on = p => queue'[k] = queue[k]
        BY <1>t, <2>4, <3>1, <3>2, AddPuts
      <4> QED BY <1>1, <1>2, <1>3, <1>4, <1>t, <2>0, <2>2, <4>1, QuietFrame
    <3>3. CASE call[r].on = p
      <4>1. OnlySlot(r, p)
        BY <1>3, <1>t, <2>2, <3>3, TokenIsOnly DEF Quiet
      <4>2. ~At(r, p)'
        BY <2>1, <2>4 DEF At, Strong, InFlight
      <4>3. OneToken(p)' /\ \A d \in Calls : ~At(d, p)'
        BY <1>1, <1>t, <2>4, <3>1, <3>3, <4>1, <4>2, HandedToQueue
      <4>4. Driven(p) /\ (callbacks[p] = 0 => pay[p].status = "Quoted")
        BY <1>3, <1>t, <2>2, <3>3 DEF Quiet, NoToken
      <4>5. \A d \in Calls : ReadFresh(d, p)'
        BY <4>3 DEF At, Strong, ReadFresh
      <4> QED BY <1>2, <1>3, <1>4, <2>0, <4>3, <4>4, <4>5 DEF Quiet, Driven
    <3> QED BY <3>2, <3>3
  <2> QED BY <2>1, <2>3, <2>4
<1>9. CASE InlineStep(r)
  <2>1. /\ call[r].pc = "idle" /\ runs[r] > 0 /\ StepLeaves(call'[r], call[r].on)
        /\ UNCHANGED <<queue, callbacks>>
    BY <1>9, InlineStepKeeps DEF InlineStep
  <2>2. ReadFresh(r, p)' /\ (call[r].on # p => ~At(r, p)')
    BY <1>1, <1>t, <2>1, StepQuiet
  <2>3. At(r, call[r].on)
    BY <2>1 DEF At, Strong
  <2> QED BY <1>5, <2>1, <2>2, <2>3
<1>10. CASE InlineStepped(r)
  <2>1. /\ call'[r].pc = "idle" /\ call'[r].on = call[r].on /\ UNCHANGED <<queue, callbacks>>
        /\ call[r].pc = "returned" /\ runs[r] \in {1, 2}
        /\ \/ call[r].result = "more"
           \/ runs'[r] = runs[r] - 1
    BY <1>10, InlineSteppedKeeps DEF InlineStepped
  <2>2. ReadFresh(r, p)'
    BY <2>1 DEF ReadFresh, InFlight
  <2>3. ASSUME At(r, p)' PROVE At(r, p)
    <3>1. CASE call[r].result = "more"
      BY <2>1, <2>3, <3>1 DEF At, Strong
    <3>2. CASE runs'[r] = runs[r] - 1
      <4>1. runs'[r] > 0
        BY <2>1, <2>3, <3>2 DEF At, Strong, InFlight
      <4>2. runs[r] > 1
        BY <2>1, <3>2, <4>1
      <4> QED BY <2>1, <2>3, <4>2 DEF At, Strong
    <3> QED BY <2>1, <3>1, <3>2
  <2> QED BY <1>5, <2>1, <2>2, <2>3
<1>11. CASE RequestEnds(r) \/ RequestDies(r)
  <2>1. /\ call'[r].pc = "idle" /\ runs'[r] = 0 /\ UNCHANGED <<queue, callbacks>>
    BY <1>11, RequestEndsKeeps DEF RequestEnds, RequestDies
  <2>2. ~At(r, p)' /\ ReadFresh(r, p)'
    BY <2>1 DEF At, Strong, ReadFresh, InFlight
  <2> QED BY <1>5, <2>1, <2>2
<1> QED BY <1>6, <1>7, <1>8, <1>9, <1>10, <1>11 DEF RequestStep

LEMMA DriveQuiet ==
  ASSUME OrchestratorInv, QuietInv, NEW q \in Payments, Drive(q),
         NEW p \in Payments, ~disturbed'[p]
  PROVE  Quiet(p)'
<1>t. /\ TypeInv /\ queue \in [Jobs -> Nat] /\ NewJob(q) \in Jobs /\ NewJob(q).on = q
      /\ disturbed \in [Payments -> BOOLEAN]
      /\ asked[q].drives \in Nat
  BY NewJobIsJob, BoundsOK DEF OrchestratorInv, OrchestrationOK, Bounded
<1>1. /\ UNCHANGED <<rows, callbacks, pay, stale>>
      /\ asked' = [asked EXCEPT ![q].drives = @ + 1]
      /\ disturbed' = [disturbed EXCEPT ![q] = @ \/ asked[q].drives > 0]
      /\ \/ UNCHANGED <<vars, runs, loops, active>> /\ Add(NewJob(q))
         \/ /\ UNCHANGED queue
            /\ \E r \in Requests : Free(r) /\ OtherSlots(r) /\ StepLeaves(call'[r], q)
  BY DriveKeeps DEF Drive, Disturb, rows
<1>2. Quiet(p)
  BY <1>1, <1>t DEF QuietInv
<1>3. ASSUME p = q PROVE NoToken(p) /\ pay[p].status = "Quoted" /\ Driven(p)'
  <2>1. ~(asked[p].drives > 0)
    BY <1>1, <1>3, <1>t
  <2>2. asked'[p].drives = asked[p].drives + 1
    BY <1>1, <1>3 DEF OrchestratorInv, OrchestrationOK
  <2>3. asked'[p].drives > 0
    BY <1>3, <1>t, <2>2
  <2> QED BY <1>2, <2>1, <2>3 DEF Quiet, Driven
<1>4. ASSUME p # q PROVE asked'[p].drives = asked[p].drives
  BY <1>1, <1>4 DEF OrchestratorInv, OrchestrationOK
<1>5. CASE UNCHANGED <<vars, runs, loops, active>> /\ Add(NewJob(q))
  <2>1. UNCHANGED <<call, runs>>
    BY <1>5 DEF vars
  <2>2. \A d \in Calls : (At(d, p)' <=> At(d, p)) /\ (ReadFresh(d, p)' <=> ReadFresh(d, p))
    BY <1>1, <2>1 DEF At, Strong, InFlight, ReadFresh
  <2>3. CASE p = q
    <3>1. \A d \in Calls : ~At(d, p)'
      BY <1>3, <2>2, <2>3 DEF NoToken
    <3>2. OneToken(p)'
      <4>1. queue'[NewJob(q)] = queue[NewJob(q)] + 1
            /\ \A k \in Jobs \ {NewJob(q)} : queue'[k] = queue[k]
        BY <1>5, <1>t, AddPuts
      <4>2. \A k \in Jobs : ~Queued(k, p)
        BY <1>3, <2>3 DEF NoToken
      <4>3. queue[NewJob(q)] \in Nat /\ ~(queue[NewJob(q)] > 0)
        BY <1>t, <2>3, <4>2 DEF Queued
      <4>4. queue'[NewJob(q)] = 1
        BY <4>1, <4>3
      <4>5. \A k \in Jobs : Queued(k, p)' => k = NewJob(q)
        BY <4>1, <4>2 DEF Queued
      <4> QED BY <3>1, <4>4, <4>5 DEF OneToken
    <3> QED BY <1>1, <1>2, <1>3, <2>2, <2>3, <3>2 DEF Quiet
  <2>4. CASE p # q
    <3>1. \A k \in Jobs : k.on = p => queue'[k] = queue[k]
      BY <1>5, <1>t, <2>4, AddPuts
    <3>2. (OneToken(p) => OneToken(p)') /\ (NoToken(p) => NoToken(p)')
      BY <2>2, <3>1, TokensFade
    <3> QED BY <1>1, <1>2, <1>4, <2>2, <2>4, <3>2 DEF Quiet, Driven
  <2> QED BY <2>3, <2>4
<1>6. ASSUME NEW r \in Requests, UNCHANGED queue, Free(r), OtherSlots(r),
             StepLeaves(call'[r], q)
      PROVE  Quiet(p)'
  <2>1. r \in Calls
    BY SlotKinds
  <2>2. ReadFresh(r, p)' /\ (q # p => ~At(r, p)')
    BY <1>1, <1>6, <1>t, <2>1, StepQuiet
  <2>3. CASE p = q
    <3>1. OnlySlot(r, p)'
      BY <1>3, <1>6, <2>1, <2>3, TokenIsOnly, OnlyStays
    <3>2. OneToken(p)'
      BY <2>1, <3>1, OnlyIsToken
    <3>3. \A d \in Calls : ReadFresh(d, p)'
      <4> SUFFICES ASSUME NEW d \in Calls, d # r PROVE ReadFresh(d, p)'
        BY <2>2
      <4>1. ~At(d, p)'
        BY <3>1 DEF OnlySlot
      <4> QED BY <4>1 DEF At, Strong, ReadFresh
    <3> QED BY <1>1, <1>2, <1>3, <2>3, <3>2, <3>3 DEF Quiet
  <2>4. CASE p # q
    BY <1>1, <1>2, <1>4, <1>6, <2>1, <2>2, <2>4, QuietFrame
  <2> QED BY <2>3, <2>4
<1> QED BY <1>1, <1>5, <1>6

LEMMA NextUnaskedInv ==
  OrchestratorInv /\ UnaskedInv /\ [OrchestratorNext]_allVars => UnaskedInv'
<1> SUFFICES ASSUME OrchestratorInv, UnaskedInv, [OrchestratorNext]_allVars PROVE UnaskedInv'
  OBVIOUS
<1>1. CASE UNCHANGED pay
  BY <1>1 DEF UnaskedInv
<1>2. ASSUME NEW c \in Calls, EngineWork(c) PROVE UnaskedInv'
  <2>1. CASE WaitsOrThrows(c, call'[c])
    BY <1>1, <2>1 DEF WaitsOrThrows, rows
  <2>2. CASE CommitLeaves(c, call'[c])
    <3>1. PICK row \in PayRow : /\ pay' = [pay EXCEPT ![call[c].on] = row]
                                /\ row.status # "Quoted"
      BY <2>2 DEF CommitLeaves
    <3> QED BY <3>1 DEF UnaskedInv, OrchestratorInv, TypeInv, TypeOK
  <2> QED BY <1>2, <2>1, <2>2, EngineWorkKeeps
<1>3. UNCHANGED pay \/ \E c \in Calls : EngineWork(c)
  <2>1. (\E p \in Payments : Drive(p)) => UNCHANGED pay
    BY DriveKeeps DEF rows
  <2>2. (\E w \in Workers : WorkerStep(w)) => UNCHANGED pay
    BY TakeKeeps, WorkerEndsKeeps DEF WorkerStep, rows
  <2>3. (\E r \in Requests : RequestStep(r)) => UNCHANGED pay
    BY FundingKeeps, RefundKeeps, AppliedKeeps, InlineStepKeeps, InlineSteppedKeeps,
       RequestEndsKeeps DEF RequestStep, rows
  <2>4. UNCHANGED allVars => UNCHANGED pay
    BY DEF allVars, vars
  <2> QED BY <2>1, <2>2, <2>3, <2>4, OrchestratorSteps
<1> QED BY <1>1, <1>2, <1>3

\* A callback that has been counted stays counted.
CallbacksGrow == \A p \in Payments : callbacks'[p] = 0 => callbacks[p] = 0

LEMMA UncalledOthers ==
  ASSUME TypeInv, UncalledInv, CallbacksGrow, NEW c \in Calls, OtherSlots(c),
         c \in Requests => Uncalled(c)'
  PROVE  UncalledInv'
<1> SUFFICES ASSUME NEW r \in Requests, r # c PROVE Uncalled(r)'
  BY DEF UncalledInv
<1>1. call'[r] = call[r] /\ runs'[r] = runs[r] /\ call[r].on \in Payments
  BY SlotKinds, OnPayment DEF OtherSlots, OtherCalls
<1>2. Uncalled(r) /\ (callbacks'[call[r].on] = 0 => callbacks[call[r].on] = 0)
  BY <1>1 DEF UncalledInv, CallbacksGrow
<1> QED BY <1>1, <1>2 DEF Uncalled, Free

LEMMA NextUncalledInv ==
  OrchestratorInv /\ UncalledInv /\ [OrchestratorNext]_allVars => UncalledInv'
<1> SUFFICES ASSUME OrchestratorInv, UncalledInv, [OrchestratorNext]_allVars
             PROVE  UncalledInv'
  OBVIOUS
<1>t. /\ TypeInv /\ callbacks \in [Payments -> 0..setting.callbacks]
      /\ \A r \in Requests : runs[r] \in 0..2 /\ call[r].on \in Payments /\ RequestSlot(r)
  BY OnPayment DEF OrchestratorInv, OrchestrationOK, SlotsInv
<1>n. \A p \in Payments : callbacks[p] \in Nat
  BY <1>t, BoundsOK DEF OrchestratorInv, OrchestrationOK, Bounded
<1>g. UNCHANGED callbacks => CallbacksGrow
  BY DEF CallbacksGrow
<1>1. ASSUME NEW p \in Payments, Drive(p) PROVE UncalledInv'
  <2>1. UNCHANGED callbacks /\ CallbacksGrow
    BY <1>1, <1>g DEF Drive
  <2>2. CASE UNCHANGED <<vars, runs, loops, active>>
    <3>1. UNCHANGED <<call, runs>>
      BY <2>2 DEF vars
    <3> QED BY <2>1, <3>1 DEF UncalledInv, Uncalled, Free
  <2>3. ASSUME NEW r \in Requests, OtherSlots(r), StepLeaves(call'[r], p), runs'[r] = 1
        PROVE  UncalledInv'
    <3>1. Uncalled(r)'
      BY <2>3 DEF Uncalled, StepLeaves
    <3> QED BY <1>t, <2>1, <2>3, <3>1, SlotKinds, UncalledOthers
  <2> QED BY <1>1, <2>2, <2>3, DriveKeeps
<1>2. ASSUME NEW r \in Requests, RequestStep(r) PROVE UncalledInv'
  <2>1. OtherSlots(r) /\ r \in Calls
    BY <1>2, FundingKeeps, RefundKeeps, AppliedKeeps, InlineStepKeeps, InlineSteppedKeeps,
       RequestEndsKeeps, SlotKinds DEF RequestStep
  <2>2. ASSUME NEW p \in Payments, NEW success \in BOOLEAN, OnFunding(r, p, success)
        PROVE  CallbacksGrow /\ Uncalled(r)'
    <3>1. callbacks' = [callbacks EXCEPT ![p] = @ + 1] /\ FundingLeaves(call'[r], p)
      BY <2>2, FundingKeeps DEF OnFunding
    <3>2. callbacks'[p] # 0
      <4>1. callbacks'[p] = callbacks[p] + 1
        BY <1>t, <3>1
      <4> QED BY <1>n, <4>1
    <3>3. CallbacksGrow
      BY <1>t, <3>1, <3>2 DEF CallbacksGrow
    <3> QED BY <3>1, <3>2, <3>3 DEF Uncalled, FundingLeaves
  <2>3. ASSUME ~\E p \in Payments, success \in BOOLEAN : OnFunding(r, p, success)
        PROVE  CallbacksGrow /\ Uncalled(r)'
    <3>1. CallbacksGrow /\ UNCHANGED callbacks
      BY <1>2, <1>g, <2>3 DEF RequestStep, Refund, FundingApplied, InlineStep, InlineStepped,
         RequestEnds, RequestDies
    <3>2. Uncalled(r)'
      <4>1. ASSUME NEW p \in Payments, Refund(r, p) PROVE Uncalled(r)'
        BY <4>1, RefundKeeps DEF Uncalled, RefundLeaves
      <4>2. CASE FundingApplied(r)
        <5>1. callbacks[call[r].on] # 0
          BY <1>t, <4>2 DEF FundingApplied, UncalledInv, Uncalled, Free
        <5> QED BY <3>1, <4>2, <5>1, AppliedKeeps DEF Uncalled
      <4>3. CASE InlineStep(r)
        <5>1. Uncalled(r) /\ ~Free(r)
          BY <1>t, <4>3, InlineStepKeeps DEF UncalledInv, Free
        <5> QED BY <3>1, <4>3, <5>1, InlineStepKeeps DEF Uncalled, StepLeaves
      <4>4. CASE InlineStepped(r)
        <5>1. Uncalled(r) /\ ~Free(r) /\ runs[r] \in {1, 2}
          BY <4>4, InlineSteppedKeeps DEF UncalledInv, Free
        <5>2. /\ call'[r].pc = "idle" /\ call'[r].on = call[r].on
              /\ runs'[r] = runs[r] \/ runs'[r] = runs[r] - 1
          BY <4>4, InlineSteppedKeeps
        <5>3. runs[r] <= 1 => runs'[r] <= 1
          BY <5>1, <5>2
        <5> QED BY <3>1, <5>1, <5>2, <5>3 DEF Uncalled
      <4>5. CASE RequestEnds(r) \/ RequestDies(r)
        BY <4>5, RequestEndsKeeps DEF Uncalled, Free
      <4> QED BY <1>2, <2>3, <4>1, <4>2, <4>3, <4>4, <4>5 DEF RequestStep
    <3> QED BY <3>1, <3>2
  <2>4. CallbacksGrow /\ Uncalled(r)'
    BY <2>2, <2>3
  <2> QED BY <1>t, <2>1, <2>4, UncalledOthers
<1>3. ASSUME NEW w \in Workers, WorkerStep(w) PROVE UncalledInv'
  <2>1. OtherSlots(w) /\ w \in Calls /\ w \notin Requests
    BY <1>3, TakeKeeps, WorkerEndsKeeps, SlotKinds DEF WorkerStep
  <2>2. CallbacksGrow
    BY <1>3, <1>g DEF WorkerStep, Take, Stepped, AttemptFails, WorkerDies
  <2> QED BY <1>t, <2>1, <2>2, UncalledOthers
<1>4. ASSUME NEW c \in Calls, EngineWork(c) PROVE UncalledInv'
  <2>1. /\ OtherSlots(c) /\ InFlight(c) /\ UNCHANGED <<runs, callbacks>> /\ CallbacksGrow
        /\ call'[c].op = call[c].op /\ call'[c].on = call[c].on
    BY <1>4, <1>g, EngineWorkKeeps DEF orchestration, WaitsOrThrows, CommitLeaves
  <2>2. c \in Requests => Uncalled(c)'
    BY <2>1 DEF UncalledInv, Uncalled, Free, InFlight
  <2> QED BY <1>t, <2>1, <2>2, UncalledOthers
<1>5. CASE UNCHANGED allVars
  BY <1>5 DEF allVars, vars, orchestration, UncalledInv, Uncalled, Free
<1> QED BY <1>1, <1>2, <1>3, <1>4, <1>5, OrchestratorSteps

LEMMA NextQuietInv ==
  /\ OrchestratorInv /\ QuietInv /\ UnaskedInv /\ UncalledInv
  /\ [OrchestratorNext]_allVars
  => QuietInv'
<1> SUFFICES ASSUME OrchestratorInv, QuietInv, UnaskedInv, UncalledInv,
                    [OrchestratorNext]_allVars, NEW p \in Payments, ~disturbed'[p]
             PROVE  Quiet(p)'
  BY DEF QuietInv
<1>1. CASE UNCHANGED allVars
  <2>1. Quiet(p) /\ UNCHANGED <<call, pay, stale, queue, runs, asked, callbacks>>
    BY <1>1 DEF QuietInv, allVars, vars, orchestration
  <2> QED
    BY <2>1 DEF Quiet, OneToken, NoToken, At, Strong, Queued, ReadFresh, InFlight, Driven
<1> QED
  BY <1>1, OrchestratorSteps, DriveQuiet, RequestQuiet, WorkerQuiet, EngineQuiet

LEMMA InitQuietInv == OrchestratorInit => QuietInv /\ UnaskedInv /\ UncalledInv
<1> SUFFICES ASSUME OrchestratorInit PROVE QuietInv /\ UnaskedInv /\ UncalledInv
  OBVIOUS
<1>1. /\ \A c \in Calls : call[c].pc = "idle"
      /\ \A r \in Requests : runs[r] = 0 /\ call[r].pc = "idle"
      /\ \A p \in Payments : pay[p].status = "Quoted" /\ pay[p].mpesaCheckoutId = 0
      /\ \A p \in Payments : ~stale[p] /\ asked[p].drives = 0
      /\ \A j \in Jobs : queue[j] = 0
  BY SlotKinds DEF OrchestratorInit, Init, Idle, NewPayment
<1>2. \A c \in Calls, p \in Payments : ~At(c, p) /\ ReadFresh(c, p)
  BY <1>1, SlotKinds DEF At, Strong, ReadFresh, InFlight
<1>3. \A p \in Payments : NoToken(p) /\ OneToken(p)
  BY <1>1, <1>2 DEF NoToken, OneToken, Queued
<1>4. QuietInv
  BY <1>1, <1>2, <1>3 DEF QuietInv, Quiet
<1> QED BY <1>1, <1>4 DEF UnaskedInv, UncalledInv, Uncalled, Free

\* However many workers and requests there are, in either mode: as long as a payment
\* has been driven once and called back at most once, nobody has asked for a refund
\* and no process has died with it, no two transactions for it have overwritten each
\* other, and the queue holds at most one job for it.  Nothing but that holds two
\* calls apart: drive and onFunding take no lock (orchestrator.service.ts:79-92).
THEOREM QuietIsSerial == OrchestratorSpec => []QuietPaymentIsSerial
<1>1. QuietInv => QuietPaymentIsSerial
  BY DEF QuietInv, Quiet, OneToken, Queued, QuietPaymentIsSerial
<1> QED
  BY <1>1, InitOrchestratorInv, NextOrchestratorInv, InitQuietInv, NextQuietInv,
     NextUnaskedInv, NextUncalledInv, PTL DEF OrchestratorSpec
=============================================================================
