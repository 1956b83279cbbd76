---------------------------- MODULE Orchestrator ----------------------------
(***************************************************************************)
(* apps/api/src/orchestration/orchestrator.service.ts together with the    *)
(* engine it drives: BullMQ jobs that each run one step, or, without a     *)
(* broker, requests that run steps in a loop; and the requests that reach  *)
(* both (create, retry, refund, M-Pesa callback).                          *)
(*                                                                         *)
(* BullMQ itself is external: a job is taken by one worker at a time, is   *)
(* put back after a failed attempt or when its worker dies, and is kept as *)
(* a dead letter when its attempts, or its one permitted stall, are used.  *)
(***************************************************************************)
EXTENDS PaymentEngine, FiniteSets

CONSTANTS
  Workers,         \* the worker's concurrency slots
  Requests,        \* slots for HTTP requests that call the engine
  MaxAttempts,     \* JOB_OPTS.attempts
  MAX_INLINE_STEPS,
  Settings         \* the deployments and surroundings to consider

ASSUME SlotAssumption == Calls = Workers \union Requests /\ Workers \intersect Requests = {}

\* mode is ORCHESTRATOR in the environment; slots are the calls there are; drives,
\* refunds and callbacks bound the create and retry requests, the refunds and the
\* funding callbacks of a payment; deaths says whether processes die.
ASSUME OrchestratorAssumption ==
  /\ MaxAttempts \in Nat \ {0} /\ MAX_INLINE_STEPS \in Nat \ {0}
  /\ Settings \subseteq [mode : {"bullmq", "inline"}, slots : SUBSET Calls, drives : Nat,
                         refunds : Nat, callbacks : Nat, deaths : BOOLEAN]

VARIABLES
  setting,     \* one of Settings, chosen at the start
  queue,       \* how many of each job wait in the queue
  active,      \* the job each worker holds, as a set of at most one
  runs,        \* inline: driveInline runs a request still has to make
  loops,       \* inline: steps made in the current run
  asked,       \* requests of the console so far: drives (create, retry) and refunds
  callbacks,   \* funding callbacks so far
  reported,    \* a failure of p is known: a dead letter, an error response, a broken connection
  disturbed    \* history: a retry, refund, second callback or death touched p

orchestration == <<setting, queue, active, runs, loops, asked, callbacks, reported, disturbed>>
allVars == <<vars, orchestration>>

Jobs == [on : Payments, tries : 0..(MaxAttempts - 1), stalls : 0..1]

NewJob(p) == [on |-> p, tries |-> 0, stalls |-> 0]

OrchestratorInit ==
  /\ Init
  /\ setting \in Settings
  /\ queue = [j \in Jobs |-> 0]
  /\ active = [w \in Workers |-> {}]
  /\ runs = [r \in Requests |-> 0]
  /\ loops = [r \in Requests |-> 0]
  /\ asked = [p \in Payments |-> [drives |-> 0, refunds |-> 0]]
  /\ callbacks = [p \in Payments |-> 0]
  /\ reported = [p \in Payments |-> FALSE]
  /\ disturbed = [p \in Payments |-> FALSE]

Add(j) == queue' = [queue EXCEPT ![j] = @ + 1]

Report(p) == reported' = [reported EXCEPT ![p] = TRUE]

Disturb(p, if) == disturbed' = [disturbed EXCEPT ![p] = @ \/ if]

(***************************************************************************)
(* Requests.                                                               *)
(***************************************************************************)
Free(r) == call[r].pc = "idle" /\ runs[r] = 0

Available(r) == r \in setting.slots /\ Free(r)

\* drive, called by create once and by retry while the payment is not over.
Drive(p) ==
  /\ asked[p].drives < setting.drives
  /\ asked[p].drives > 0 => pay[p].status \notin TERMINAL_STATUSES
  /\ asked' = [asked EXCEPT ![p].drives = @ + 1]
  /\ Disturb(p, asked[p].drives > 0)
  /\ \/ /\ setting.mode = "bullmq"
        /\ Add(NewJob(p))
        /\ UNCHANGED <<vars, runs, loops>>
     \/ /\ setting.mode = "inline"
        /\ \E r \in Requests :
             Available(r) /\ Step(r, p) /\ runs' = [runs EXCEPT ![r] = 1]
                     /\ loops' = [loops EXCEPT ![r] = 1]
        /\ UNCHANGED queue
  /\ UNCHANGED <<setting, active, callbacks, reported>>

\* onFunding, first part.  The webhook has found p by its checkout id.
OnFunding(r, p, success) ==
  /\ Available(r) /\ callbacks[p] < setting.callbacks
  /\ pay[p].mpesaCheckoutId # 0
  /\ ApplyFunding(r, p, success)
  /\ callbacks' = [callbacks EXCEPT ![p] = @ + 1]
  /\ Disturb(p, callbacks[p] > 0)
  /\ UNCHANGED <<setting, queue, active, runs, loops, asked, reported>>

\* payments.service simulateFunding: a success made up for the stored checkout
\* id, past the webhook and its deduplication.
SimulateFunding(r, p) == pay[p].status = "AwaitingFunding" /\ OnFunding(r, p, TRUE)

\* payments.service refund.
Refund(r, p) ==
  /\ Available(r) /\ asked[p].refunds < setting.refunds
  /\ RefundRequest(r, p)
  /\ asked' = [asked EXCEPT ![p].refunds = @ + 1]
  /\ Disturb(p, TRUE)
  /\ UNCHANGED <<setting, queue, active, runs, loops, callbacks, reported>>

\* onFunding, second part: drive if the result says Funded, and inline drive
\* once more whatever it says.
FundingApplied(r) ==
  /\ call[r].pc = "returned" /\ call[r].op = "applyFunding" /\ call[r].result # "threw"
  /\ LET funded == call[r].result = "more" IN
       IF setting.mode = "bullmq"
       THEN /\ IF funded THEN Add(NewJob(call[r].on)) ELSE UNCHANGED queue
            /\ UNCHANGED runs
       ELSE runs' = [runs EXCEPT ![r] = IF funded THEN 2 ELSE 1] /\ UNCHANGED queue
  /\ Return(r)
  /\ UNCHANGED <<setting, active, loops, asked, callbacks, reported, disturbed>>

\* driveInline: the next step of the loop, or the first of the next run.
InlineStep(r) ==
  /\ call[r].pc = "idle" /\ runs[r] > 0
  /\ Step(r, call[r].on)
  /\ loops' = [loops EXCEPT ![r] = @ + 1]
  /\ UNCHANGED <<setting, queue, active, runs, asked, callbacks, reported, disturbed>>

\* Faulty variant of the next: the loop ends after its first step.
InlineStepsOnce(r) ==
  /\ call[r].pc = "returned" /\ call[r].op = "step" /\ call[r].result # "threw"
  /\ runs' = [runs EXCEPT ![r] = @ - 1] /\ loops' = [loops EXCEPT ![r] = 0]
  /\ Return(r)
  /\ UNCHANGED <<setting, queue, active, asked, callbacks, reported, disturbed>>

\* driveInline: the loop goes on or the run is over.
InlineStepped(r) ==
  /\ call[r].pc = "returned" /\ call[r].op = "step" /\ call[r].result # "threw"
  /\ IF call[r].result = "more" /\ loops[r] < MAX_INLINE_STEPS
     THEN UNCHANGED <<runs, loops>>
     ELSE runs' = [runs EXCEPT ![r] = @ - 1] /\ loops' = [loops EXCEPT ![r] = 0]
  /\ Return(r)
  /\ UNCHANGED <<setting, queue, active, asked, callbacks, reported, disturbed>>

\* A refund has been made, or a request throws and its error is the response.
RequestEnds(r) ==
  /\ call[r].pc = "returned" /\ (call[r].op = "refund" \/ call[r].result = "threw")
  /\ IF call[r].result = "threw" THEN Report(call[r].on) ELSE UNCHANGED reported
  /\ runs' = [runs EXCEPT ![r] = 0] /\ loops' = [loops EXCEPT ![r] = 0]
  /\ Return(r)
  /\ UNCHANGED <<setting, queue, active, asked, callbacks, disturbed>>

\* The process dies under a request; its client sees the connection break.
RequestDies(r) ==
  /\ setting.deaths /\ ~Free(r)
  /\ Report(call[r].on)
  /\ runs' = [runs EXCEPT ![r] = 0] /\ loops' = [loops EXCEPT ![r] = 0]
  /\ Forget(r)
  /\ Disturb(call[r].on, TRUE)
  /\ UNCHANGED <<rows, ext, setting, queue, active, asked, callbacks>>

(***************************************************************************)
(* The worker.                                                             *)
(***************************************************************************)
Take(w) ==
  /\ w \in setting.slots /\ active[w] = {}
  /\ \E j \in Jobs :
       /\ queue[j] > 0
       /\ Step(w, j.on)
       /\ queue' = [queue EXCEPT ![j] = @ - 1]
       /\ active' = [active EXCEPT ![w] = {j}]
  /\ UNCHANGED <<setting, runs, loops, asked, callbacks, reported, disturbed>>

\* Faulty variant of the next: a job is added although the payment waits.
SteppedOnWaiting(w) ==
  /\ call[w].pc = "returned" /\ call[w].result # "threw"
  /\ IF call[w].result \in {"more", "waiting"}
     THEN Add(NewJob(call[w].on)) ELSE UNCHANGED queue
  /\ active' = [active EXCEPT ![w] = {}]
  /\ Return(w)
  /\ UNCHANGED <<setting, runs, loops, asked, callbacks, reported, disturbed>>

\* The step returned: add a job for the next one unless it waits or is done.
Stepped(w) ==
  /\ call[w].pc = "returned" /\ call[w].result # "threw"
  /\ IF call[w].result = "more" THEN Add(NewJob(call[w].on)) ELSE UNCHANGED queue
  /\ active' = [active EXCEPT ![w] = {}]
  /\ Return(w)
  /\ UNCHANGED <<setting, runs, loops, asked, callbacks, reported, disturbed>>

\* The step threw: another attempt, or a dead letter.
AttemptFails(w) ==
  /\ call[w].pc = "returned" /\ call[w].result = "threw"
  /\ \E j \in active[w] :
       IF j.tries + 1 < MaxAttempts
       THEN Add([j EXCEPT !.tries = @ + 1]) /\ UNCHANGED reported
       ELSE Report(j.on) /\ UNCHANGED queue
  /\ active' = [active EXCEPT ![w] = {}]
  /\ Return(w)
  /\ UNCHANGED <<setting, runs, loops, asked, callbacks, disturbed>>

\* Faulty variant of the next: nobody looks for stalled jobs.
WorkerDiesUnnoticed(w) ==
  /\ setting.deaths
  /\ \E j \in active[w] : Disturb(j.on, TRUE)
  /\ active' = [active EXCEPT ![w] = {}]
  /\ Forget(w)
  /\ UNCHANGED <<rows, ext, setting, queue, runs, loops, asked, callbacks, reported>>

\* The process of the worker dies at any point of the job; BullMQ finds the job
\* stalled and puts it back once.
WorkerDies(w) ==
  /\ setting.deaths
  /\ \E j \in active[w] :
       /\ IF j.stalls = 0
          THEN Add([j EXCEPT !.stalls = 1]) /\ UNCHANGED reported
          ELSE Report(j.on) /\ UNCHANGED queue
       /\ Disturb(j.on, TRUE)
  /\ active' = [active EXCEPT ![w] = {}]
  /\ Forget(w)
  /\ UNCHANGED <<rows, ext, setting, runs, loops, asked, callbacks>>

EngineWork(c) == Work(c) /\ UNCHANGED orchestration

RequestProgress(r) ==
  EngineWork(r) \/ FundingApplied(r) \/ InlineStep(r) \/ InlineStepped(r) \/ RequestEnds(r)

WorkerProgress(w) == EngineWork(w) \/ Stepped(w) \/ AttemptFails(w)

OrchestratorNext ==
  \/ \E p \in Payments :
       \/ Drive(p)
       \/ \E r \in Requests :
            \/ \E success \in Outcomes : OnFunding(r, p, success)
            \/ SimulateFunding(r, p)
            \/ Refund(r, p)
  \/ \E r \in Requests : RequestProgress(r) \/ RequestDies(r)
  \/ \E w \in Workers : Take(w) \/ WorkerProgress(w) \/ WorkerDies(w)

\* The worker polls its queue for ever and a call that has started goes on;
\* nobody has to make a request, and no process has to die.
Fairness ==
  /\ \A w \in Workers : WF_allVars(Take(w)) /\ WF_allVars(WorkerProgress(w))
  /\ \A r \in Requests : WF_allVars(RequestProgress(r))

OrchestratorSpec == OrchestratorInit /\ [][OrchestratorNext]_allVars /\ Fairness

(***************************************************************************)
(* Properties                                                              *)
(***************************************************************************)
OrchestratorTypeOK ==
  /\ TypeOK
  /\ setting \in Settings
  /\ queue \in [Jobs -> Nat]
  /\ active \in [Workers -> SUBSET Jobs]
  /\ runs \in [Requests -> 0..2]
  /\ loops \in [Requests -> 0..MAX_INLINE_STEPS]
  /\ asked \in [Payments -> [drives : 0..setting.drives, refunds : 0..setting.refunds]]
  /\ callbacks \in [Payments -> 0..setting.callbacks]
  /\ reported \in [Payments -> BOOLEAN]
  /\ disturbed \in [Payments -> BOOLEAN]

\* Something is going to run, or is running, steps of p.
Scheduled(p) ==
  \/ \E j \in Jobs : j.on = p /\ queue[j] > 0
  \/ \E w \in Workers : \E j \in active[w] : j.on = p
  \/ \E r \in Requests : ~Free(r) /\ call[r].on = p

\* A payment that is created, driven and funded once, by processes that stay
\* alive, is never in the hands of two callers whose transactions overwrite
\* each other: the queue never holds two jobs for it.
QuietPaymentIsSerial ==
  \A p \in Payments : ~disturbed[p] =>
    /\ ~stale[p]
    /\ \A j, k \in Jobs : j.on = p /\ k.on = p /\ queue[j] > 0 /\ queue[k] > 0
                            => j = k /\ queue[j] = 1

\* A retry or a refund asked for by the console overtook another call for p, or
\* was overtaken by it.
ConsoleRaced(p) == stale[p] /\ (asked[p].drives > 1 \/ asked[p].refunds > 0)

\* A funded payment comes to its end, or a dead letter, an error response or a
\* broken connection tells of it: nothing is silently left half-way, in either
\* mode, under repeated callbacks, and when processes die (with adapters that
\* confirm at once).  A retry or a refund that races can undo the funding.
FundedComesToAnEnd ==
  \A p \in Payments :
    pay[p].status = "Funded"
      ~> (pay[p].status \in TERMINAL_STATUSES \/ reported[p] \/ ConsoleRaced(p))

\* Drive has been called for p.
Driven(p) == asked[p].drives > 0

\* Between two steps a payment that is driven but not yet asked for its money, or
\* that has collected it, is never without a next one: a job waits or runs, a
\* request is at work on it, or its failure is known.  The death of a worker at any
\* point of a job, the retries of the queue, refunds and second drives do not lose
\* it (with adapters that confirm at once).
NothingStranded ==
  \A p \in Payments :
    \/ pay[p].status = "Quoted" /\ Driven(p)
    \/ pay[p].status \in Collected
    => Scheduled(p) \/ reported[p]

\* payment-engine.service.ts: "Stay in Bridging; caller will re-poll."  A
\* payment that bridges has, again and again, a step scheduled for it.
BridgingIsRepolled ==
  \A p \in Payments :
    [](pay[p].status = "Bridging" => <>(Scheduled(p) \/ pay[p].status # "Bridging"))

=============================================================================
