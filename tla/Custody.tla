------------------------------- MODULE Custody -------------------------------
(***************************************************************************)
(* The custody backends (apps/api/src/adapters/custody) and those who move *)
(* the same treasury with them: payments that bridge, probes of the        *)
(* adapter, and the testbed of scripts/stablecoin.ts, which holds what its *)
(* transfer should change against what the chain says, call by call, while *)
(* the others go on.                                                       *)
(***************************************************************************)
EXTENDS Integers, FiniteSets, FiniteSetsExt, Sequences

CONSTANTS
  Settings,       \* modes, providers and wallets there may be
  Bridgers,       \* payments that poll until their transfer is confirmed
  Probers,        \* probes, which ask once
  TestbedAmount,  \* STABLECOIN_TEST_USDC
  OthersAmount,   \* what each of the others sends
  Confirmations,  \* EVM_CONFIRMATIONS
  MaxHeight,      \* blocks
  MaxTransfers,   \* transfers submitted
  MaxTrouble      \* calls of a node that fail, or are answered one block late

Others == Bridgers \union Probers
Testbed == "testbed"

ASSUME CustodyAssumption ==
  /\ Settings \subseteq [mode : {"mock", "live"}, provider : {"mock", "evm", "circle"},
                         funds : Nat, gas : BOOLEAN, sameChain : BOOLEAN]
  /\ Testbed \notin Others /\ Confirmations \in Nat \ {0}
  /\ {TestbedAmount, OthersAmount} \subseteq Nat \ {0}
  /\ MaxHeight \in Nat \ {0} /\ MaxTransfers \in Nat /\ MaxTrouble \in Nat

VARIABLES
  setting,  \* the configuration and the treasury, chosen once
  height,   \* the last block
  txs,      \* the transfers treasury -> hk that were submitted
  follow,   \* per other: its transfer, 0 for none, and whether it was confirmed
  bed,      \* the testbed: its next call, what it keeps of the calls before, and the
            \* checks that failed
  trouble   \* calls that failed or were answered late

custodyVars == <<setting, height, txs, follow, bed, trouble>>

\* buildCustodyBackend.
Backend ==
  IF setting.mode # "live" \/ setting.provider = "mock" THEN "mock" ELSE setting.provider

AmountOf(sender) == IF sender = Testbed THEN TestbedAmount ELSE OthersAmount

\* balanceOf of the HK wallet and of the treasury, at a block.
HkAt(block) ==
  MapThenSumSet(LAMBDA i : AmountOf(txs[i].by),
                {i \in DOMAIN txs : txs[i].state = "success" /\ txs[i].block <= block})

TreasuryAt(block) == setting.funds - HkAt(block)

Answers ==
  [confirmed : BOOLEAN, status : {"success", "reverted", "pending"}, confirmations : Nat]

Unconfirmed == [confirmed |-> FALSE, status |-> "pending", confirmations |-> 0]

\* The block that a read of the chain sees.
Sees(block) ==
  \/ block = height /\ UNCHANGED trouble
  \/ trouble < MaxTrouble /\ block = height - 1 /\ trouble' = trouble + 1

(***************************************************************************)
(* send and confirm.                                                       *)
(***************************************************************************)
\* The node runs a transfer before it takes it: there must be gas, and the USDC.
Accepted(sender) ==
  Backend = "evm" => setting.gas /\ TreasuryAt(height) >= AmountOf(sender)

\* Faulty variant of the next: what a node takes is taken for done.
SubmittedAsDone(sender) ==
  txs' = Append(txs, [by |-> sender, state |-> "success", block |-> 0])

Submitted(sender) ==
  txs' = Append(txs, [by |-> sender, state |-> "pending", block |-> 0])

\* waitForTransactionReceipt comes back in time.
Deep(i) == txs[i].state # "pending" /\ height >= txs[i].block + Confirmations - 1

\* Faulty variant of the next: a transfer that reverted counts.
ConfirmedAnyway(i, head) ==
  IF ~Deep(i) THEN Unconfirmed
  ELSE LET confs == head - txs[i].block + 1
       IN [confirmed |-> confs >= Confirmations, status |-> txs[i].state,
           confirmations |-> confs]

\* confirm of the EVM backend, where the head is read after the receipt.
EvmConfirm(i, head) ==
  IF ~Deep(i) THEN Unconfirmed
  ELSE LET confs == head - txs[i].block + 1
           ok == txs[i].state = "success"
       IN [confirmed |-> ok /\ confs >= Confirmations, status |-> txs[i].state,
           confirmations |-> confs]

\* confirm of the Circle backend: a transfer that failed is pending, too.
CircleConfirm(i) ==
  IF txs[i].state = "success"
  THEN [confirmed |-> TRUE, status |-> "success", confirmations |-> 6] ELSE Unconfirmed

MockConfirm == [confirmed |-> TRUE, status |-> "success", confirmations |-> 6]

(***************************************************************************)
(* The others.                                                             *)
(***************************************************************************)
NotSent == [sent |-> FALSE, tx |-> 0, confirmed |-> FALSE]

OtherSends(c) ==
  /\ ~follow[c].sent /\ Accepted(c) /\ Len(txs) < MaxTransfers
  /\ IF Backend = "mock" THEN UNCHANGED txs ELSE Submitted(c)
  /\ follow' = [follow EXCEPT ![c].sent = TRUE, ![c].tx = Len(txs')]
  /\ UNCHANGED <<setting, height, bed, trouble>>

\* A payment asks until its transfer is confirmed, a probe once.
OtherConfirms(c) ==
  /\ follow[c].sent /\ ~follow[c].confirmed
  /\ \E head \in 0 .. height :
       /\ Sees(head)
       /\ LET answer == CASE Backend = "mock" -> MockConfirm
                          [] Backend = "circle" -> CircleConfirm(follow[c].tx)
                          [] Backend = "evm" -> EvmConfirm(follow[c].tx, head)
          IN follow' = [follow EXCEPT ![c].confirmed = answer.confirmed]
  /\ UNCHANGED <<setting, height, txs, bed>>

\* A probe ends: it reports that it passed, whatever it was answered, or one of its
\* calls fails after the transfer was sent.  It is made again.
ProbeEnds(c) ==
  /\ c \in Probers /\ follow[c].sent
  /\ follow' = [follow EXCEPT ![c] = NotSent]
  /\ UNCHANGED <<setting, height, txs, bed, trouble>>

\* healthCheck asks for the head, and changes nothing.
HealthCheck == UNCHANGED custodyVars

(***************************************************************************)
(* The chain: a block takes one of the transfers, or none.                 *)
(***************************************************************************)
Mine ==
  /\ Backend # "mock" /\ height < MaxHeight
  /\ height' = height + 1
  /\ \/ UNCHANGED txs
     \/ \E i \in DOMAIN txs, state \in {"success", "reverted"} :
          /\ txs[i].state = "pending"
          /\ state = "success" => TreasuryAt(height) >= AmountOf(txs[i].by)
          /\ txs' = [txs EXCEPT ![i].state = state, ![i].block = height + 1]
  /\ UNCHANGED <<setting, follow, bed, trouble>>

(***************************************************************************)
(* The testbed.                                                            *)
(***************************************************************************)
BedScript ==
  <<"status", "funds", "gas", "beforeFrom", "beforeTo", "send", "confirm", "afterFrom",
    "afterTo", "again", "onceMore", "exit">>

Checks == {"connectivity", "funding", "submit", "txConfirmed", "senderDebited",
           "recipientCredited", "confirmIdempotent", "crash"}

AtCall(call) == BedScript[bed.at] = call

\* The call at hand is over, or the script with it.
Goes(kept) == bed' = [kept EXCEPT !.at = @ + 1]

Exits(failing) ==
  bed' = [bed EXCEPT !.at = Len(BedScript), !.failing = @ \union failing]

ConnectivityProbe ==
  /\ AtCall("status")
  /\ Goes(IF setting.sameChain THEN bed ELSE [bed EXCEPT !.failing = {"connectivity"}])
  /\ UNCHANGED <<setting, height, txs, follow, trouble>>

\* usdcBalanceMinor of the treasury, for the funding probe and before the transfer.
ReadsTreasury ==
  /\ AtCall("funds") \/ AtCall("beforeFrom")
  /\ \E block \in 0 .. height :
       Sees(block) /\ Goes([bed EXCEPT !.from = TreasuryAt(block)])
  /\ UNCHANGED <<setting, height, txs, follow>>

\* gasBalanceWei; nothing is sent unless both probes pass.
FundingProbe ==
  /\ AtCall("gas")
  /\ LET short == bed.from < TestbedAmount \/ ~setting.gas
     IN IF short THEN Exits({"funding"})
        ELSE IF bed.failing # {} THEN Exits({})
        ELSE Goes(bed)
  /\ UNCHANGED <<setting, height, txs, follow, trouble>>

ReadsHk ==
  /\ AtCall("beforeTo")
  /\ \E block \in 0 .. height :
       Sees(block) /\ Goes([bed EXCEPT !.to = HkAt(block)])
  /\ UNCHANGED <<setting, height, txs, follow>>

BedSends ==
  /\ AtCall("send")
  /\ IF Accepted(Testbed) THEN Submitted(Testbed) /\ Goes(bed)
     ELSE UNCHANGED txs /\ Exits({"submit"})
  /\ UNCHANGED <<setting, height, follow, trouble>>

OwnTransfer == CHOOSE i \in DOMAIN txs : txs[i].by = Testbed

\* Faulty variant of the next: the status is printed, not checked.
JudgedLeniently(answer) ==
  IF AtCall("onceMore") /\ answer.confirmed # bed.answer.confirmed
  THEN {"confirmIdempotent"} ELSE {}

\* custody.txConfirmed, and custody.confirmIdempotent.
Judged(answer) ==
  IF AtCall("confirm")
  THEN IF answer.confirmed /\ answer.status = "success"
             /\ answer.confirmations >= Confirmations THEN {} ELSE {"txConfirmed"}
  ELSE IF AtCall("onceMore") /\ (\/ answer.confirmed # bed.answer.confirmed
                                 \/ answer.status # bed.answer.status)
       THEN {"confirmIdempotent"} ELSE {}

BedAnswered(answer) ==
  Goes([bed EXCEPT !.answer = answer, !.late = @ \/ ~answer.confirmed,
                   !.failing = @ \union Judged(answer)])

BedConfirms ==
  /\ AtCall("confirm") \/ AtCall("again") \/ AtCall("onceMore")
  /\ \E head \in 0 .. height : Sees(head) /\ BedAnswered(EvmConfirm(OwnTransfer, head))
  /\ UNCHANGED <<setting, height, txs, follow>>

\* The balances after the transfer, from which custody.senderDebited and
\* custody.recipientCredited follow.
ReadsTreasuryAgain ==
  /\ AtCall("afterFrom")
  /\ \E block \in 0 .. height :
       Sees(block) /\ Goes([bed EXCEPT !.from = @ - TreasuryAt(block)])
  /\ UNCHANGED <<setting, height, txs, follow>>

ReadsHkAgain ==
  /\ AtCall("afterTo")
  /\ \E block \in 0 .. height :
       /\ Sees(block)
       /\ LET debited == IF bed.from = TestbedAmount THEN {} ELSE {"senderDebited"}
              credited == IF HkAt(block) - bed.to = TestbedAmount THEN {}
                          ELSE {"recipientCredited"}
          IN Goes([bed EXCEPT !.failing = @ \union debited \union credited,
                              !.from = 0, !.to = 0])
  /\ UNCHANGED <<setting, height, txs, follow>>

\* A call fails: a probe reports it, confirm takes it for a transfer not yet mined,
\* and the script dies of a balance it cannot read.  The node may have taken a
\* transfer all the same.
BedCallFails ==
  /\ trouble < MaxTrouble /\ trouble' = trouble + 1
  /\ \/ AtCall("status") /\ Goes([bed EXCEPT !.failing = {"connectivity"}]) /\ UNCHANGED txs
     \/ (AtCall("funds") \/ AtCall("gas")) /\ Exits({"funding"}) /\ UNCHANGED txs
     \/ /\ AtCall("send") /\ Exits({"submit"})
        /\ UNCHANGED txs \/ (Accepted(Testbed) /\ Submitted(Testbed))
     \/ /\ AtCall("confirm") \/ AtCall("again") \/ AtCall("onceMore")
        /\ BedAnswered(Unconfirmed) /\ UNCHANGED txs
     \/ /\ \E call \in {"beforeFrom", "beforeTo", "afterFrom", "afterTo"} : AtCall(call)
        /\ Exits({"crash"}) /\ UNCHANGED txs
  /\ UNCHANGED <<setting, height, follow>>

CustodyInit ==
  /\ setting \in Settings
  /\ height = 1 /\ txs = <<>> /\ trouble = 0
  /\ follow = [c \in Others |-> NotSent]
  /\ bed = [at |-> 1, from |-> 0, to |-> 0, answer |-> Unconfirmed, late |-> FALSE,
            failing |-> {}]

CustodyNext ==
  \/ \E c \in Others : OtherSends(c) \/ OtherConfirms(c) \/ ProbeEnds(c)
  \/ HealthCheck \/ Mine
  \/ /\ setting.mode = "live" /\ setting.provider = "evm"
     /\ \/ ConnectivityProbe \/ ReadsTreasury \/ FundingProbe \/ ReadsHk \/ BedSends
        \/ BedConfirms \/ ReadsTreasuryAgain \/ ReadsHkAgain \/ BedCallFails

(***************************************************************************)
(* Properties                                                              *)
(***************************************************************************)
\* Types, with the block of a transfer, which it has once it is no longer pending.
CustodyTypeOK ==
  /\ setting \in Settings
  /\ height \in 1 .. MaxHeight
  /\ \A i \in DOMAIN txs :
       /\ txs[i].by \in Others \union {Testbed}
       /\ txs[i].state = "pending" <=> txs[i].block = 0
       /\ txs[i].block \in 0 .. height
  /\ \A c \in Others : follow[c].tx \in 0 .. Len(txs) /\ follow[c].confirmed \in BOOLEAN
  /\ bed.at \in DOMAIN BedScript /\ bed.failing \subseteq Checks
  /\ bed.from \in Int /\ bed.to \in Nat
  /\ bed.answer \in Answers /\ bed.late \in BOOLEAN
  /\ trouble \in 0 .. MaxTrouble

\* A chain says that a transfer is confirmed only when it has moved the money, under
\* as many blocks as asked for, although the head is read after the receipt and a
\* node may lag.  The mock confirms everything, and moves nothing.
ConfirmedMeansMoved ==
  \A c \in Others : follow[c].confirmed =>
    IF Backend = "mock" THEN txs = <<>>
    ELSE LET tx == txs[follow[c].tx]
         IN /\ tx.by = c /\ tx.state = "success"
            /\ Backend = "evm" => height >= tx.block + Confirmations - 1

OthersMoved == \E i \in DOMAIN txs : txs[i].by # Testbed /\ txs[i].state = "success"

Own == {i \in DOMAIN txs : txs[i].by = Testbed}

\* What the testbed proves: if it passes, it has sent once, and that transfer moved
\* its amount, however many others used the treasury meanwhile.  And if it fails
\* there is a reason: the setting, a node, a transfer of others, or its own transfer,
\* which did not succeed in time.
TransferChecksAreSound ==
  AtCall("exit") =>
    /\ bed.failing = {} =>
         Cardinality(Own) = 1 /\ \A i \in Own : txs[i].state = "success" /\ Deep(i)
    /\ bed.failing # {} =>
         \/ ~setting.gas \/ ~setting.sameChain \/ setting.funds < TestbedAmount
         \/ trouble > 0 \/ OthersMoved
         \/ \E i \in Own : txs[i].state # "success"
         \/ bed.late

=============================================================================
