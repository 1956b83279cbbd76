----------------------------- MODULE GateProofs -----------------------------
(***************************************************************************)
(* Proofs about Gate: for any number of customers, quotes and concurrent   *)
(* requests, a quote pays for at most one payment and is consumed exactly  *)
(* by it; a payment has passed KYC and goes to a supplier of its importer; *)
(* and a status that says a verdict says the latest.                       *)
(***************************************************************************)
EXTENDS Gate, TLAPS

(***************************************************************************)
(* The inductive invariant.  A request that is about to call drive has     *)
(* made the only payment of its quote and has not called it yet, and no    *)
(* two requests have made a payment for one quote.                         *)
(***************************************************************************)
RowTypes ==
  /\ quote \in [Quotes -> QuoteRow]
  /\ payments \in Seq(PaymentRow)
  /\ driven \in [Quotes -> Nat]
  /\ req \in [Requests -> RequestState]

UniqueKey == \A m, n \in 1..Len(payments) : payments[m].quote = payments[n].quote => m = n

DriveInv ==
  /\ \A q \in Quotes : driven[q] \in {0, 1} /\ (driven[q] = 1 => Exists(q))
  /\ \A r \in Requests : At(r, "drive") =>
       Exists(req[r].for.quote) /\ driven[req[r].for.quote] = 0
  /\ \A r, s \in Requests :
       At(r, "drive") /\ At(s, "drive") /\ req[r].for.quote = req[s].for.quote => r = s

GateInv == RowTypes /\ UniqueKey /\ ConsumedMeansPaid /\ DriveInv

\* The initial state.
LEMMA GateInit == Init => GateInv
<1>1. SUFFICES ASSUME Init PROVE GateInv
  OBVIOUS
<1>2. RowTypes
  BY <1>1 DEF Init, RowTypes, QuoteRow, RequestState, NoRequest, Verdicts
<1>3. Len(payments) = 0
  BY <1>1 DEF Init
<1>4. UniqueKey /\ ConsumedMeansPaid
  BY <1>1, <1>3 DEF UniqueKey, ConsumedMeansPaid, Exists, Init
<1>5. DriveInv
  BY <1>1 DEF DriveInv, Init, At, NoRequest
<1> QED
  BY <1>2, <1>4, <1>5 DEF GateInv

\* A request of a legal state that moves to another place of the program is a
\* request of a legal state.
LEMMA GoesType ==
  ASSUME RowTypes, NEW r \in Requests,
         NEW at \in {"free", "checkKyc", "startKyc", "askKyc", "record", "update",
                     "readQuote", "findExisting", "create", "drive"},
         Goes(r, at)
  PROVE  /\ req' \in [Requests -> RequestState]
         /\ \A s \in Requests \ {r} : req'[s] = req[s]
         /\ req'[r].at = at /\ req'[r].for = req[r].for
  BY DEF RowTypes, Goes, RequestState

\* What a step that leaves quotes, payments and driven alone, and that lets no
\* request arrive at drive, preserves.
LEMMA Aside ==
  ASSUME GateInv, UNCHANGED <<payments, driven>>,
         req' \in [Requests -> RequestState],
         quote' \in [Quotes -> QuoteRow],
         \A q \in Quotes : quote'[q].consumed = quote[q].consumed,
         \A r \in Requests : req'[r].at = "drive" => req'[r] = req[r]
  PROVE  GateInv'
<1>1. RowTypes'
  BY DEF GateInv, RowTypes
<1>2. UniqueKey'
  BY DEF GateInv, UniqueKey
<1>3. ConsumedMeansPaid'
  BY DEF GateInv, ConsumedMeansPaid, Exists
<1>4. DriveInv'
  BY DEF GateInv, DriveInv, At, Exists
<1> QED
  BY <1>1, <1>2, <1>3, <1>4 DEF GateInv

\* A new row for a quote without one: the other quotes have the rows they had.
LEMMA NewPayment ==
  ASSUME GateInv, NEW for \in PaymentRow, ~Exists(for.quote),
         payments' = Append(payments, for)
  PROVE  /\ payments' \in Seq(PaymentRow)
         /\ UniqueKey'
         /\ \A q \in Quotes : Exists(q)' <=> Exists(q) \/ q = for.quote
<1>1. payments \in Seq(PaymentRow) /\ UniqueKey
  BY DEF GateInv, RowTypes
<1>2. /\ payments' \in Seq(PaymentRow) /\ Len(payments') = Len(payments) + 1
      /\ Len(payments) \in Nat
      /\ \A n \in 1..Len(payments) : payments'[n] = payments[n]
      /\ payments'[Len(payments) + 1] = for
  BY <1>1
<1>3. UniqueKey'
  BY <1>1, <1>2 DEF UniqueKey, Exists
<1>4. \A q \in Quotes : Exists(q)' <=> Exists(q) \/ q = for.quote
  BY <1>2 DEF Exists
<1> QED
  BY <1>2, <1>3, <1>4

\* The transaction of a create request.
LEMMA CreateStep ==
  ASSUME GateInv, NEW r \in Requests, Create(r)
  PROVE  GateInv'
<1> DEFINE q == req[r].for.quote
<1>1. /\ RowTypes /\ UniqueKey /\ ConsumedMeansPaid /\ DriveInv
      /\ req[r].for \in PaymentRow /\ q \in Quotes /\ At(r, "create")
  BY DEF GateInv, RowTypes, RequestState, PaymentRow, Create
<1>2. CASE Ends(r) /\ UNCHANGED <<quote, payments>>
  <2>1. req' \in [Requests -> RequestState] /\ req'[r].at = "free"
        /\ \A s \in Requests \ {r} : req'[s] = req[s]
    BY <1>1, <1>2, GoesType DEF Ends
  <2> QED
    BY <1>1, <1>2, <2>1, Aside DEF Create, RowTypes
<1>3. CASE /\ ~Exists(q)
           /\ quote' = [quote EXCEPT ![q].consumed = TRUE]
           /\ payments' = Append(payments, req[r].for)
           /\ Goes(r, "drive")
  <2>1. /\ payments' \in Seq(PaymentRow) /\ UniqueKey'
        /\ \A k \in Quotes : Exists(k)' <=> Exists(k) \/ k = q
    BY <1>1, <1>3, NewPayment
  <2>2. /\ req' \in [Requests -> RequestState]
        /\ \A s \in Requests \ {r} : req'[s] = req[s]
        /\ req'[r].at = "drive" /\ req'[r].for = req[r].for
    BY <1>1, <1>3, GoesType
  <2>3. driven' = driven
    BY DEF Create
  <2>4. /\ quote' \in [Quotes -> QuoteRow]
        /\ \A k \in Quotes : quote'[k].consumed <=> quote[k].consumed \/ k = q
    BY <1>1, <1>3 DEF RowTypes, QuoteRow
  <2>5. RowTypes'
    BY <1>1, <2>1, <2>2, <2>3, <2>4 DEF RowTypes
  <2>6. ConsumedMeansPaid'
    BY <1>1, <2>1, <2>4 DEF ConsumedMeansPaid
  <2>7. driven[q] = 0
    BY <1>1, <1>3 DEF DriveInv
  <2>8. \A s \in Requests \ {r} : At(s, "drive") => req[s].for.quote # q
    BY <1>1, <1>3 DEF DriveInv
  <2>9. \A s \in Requests : req[s].for.quote \in Quotes
    BY <1>1 DEF RowTypes, RequestState, PaymentRow
  <2>10. DriveInv'
    <3>1. \A k \in Quotes : driven'[k] \in {0, 1} /\ (driven'[k] = 1 => Exists(k)')
      BY <1>1, <2>1, <2>3 DEF DriveInv
    <3>2. \A s \in Requests : At(s, "drive")' =>
            Exists(req[s].for.quote)' /\ driven'[req'[s].for.quote] = 0
                 /\ req'[s].for = req[s].for
      BY <1>1, <2>1, <2>2, <2>3, <2>7, <2>9 DEF DriveInv, At
    <3>3. \A s, t \in Requests :
            At(s, "drive")' /\ At(t, "drive")' /\ req'[s].for.quote = req'[t].for.quote
              => s = t
      BY <1>1, <2>2, <2>8 DEF DriveInv, At
    <3> QED
      BY <3>1, <3>2, <3>3 DEF DriveInv, Exists
  <2> QED
    BY <2>1, <2>5, <2>6, <2>10 DEF GateInv
<1> QED
  BY <1>2, <1>3 DEF Create

\* The call of drive, which only the request that made the payment reaches.
LEMMA DriveStep ==
  ASSUME GateInv, NEW r \in Requests, DriveCreated(r)
  PROVE  GateInv'
<1> DEFINE q == req[r].for.quote
<1>1. /\ RowTypes /\ UniqueKey /\ ConsumedMeansPaid /\ DriveInv
      /\ q \in Quotes /\ At(r, "drive") /\ UNCHANGED <<quote, payments>>
  BY DEF GateInv, RowTypes, RequestState, PaymentRow, DriveCreated
<1>2. /\ req' \in [Requests -> RequestState] /\ req'[r].at = "free"
      /\ \A s \in Requests \ {r} : req'[s] = req[s]
  BY <1>1, GoesType DEF DriveCreated, Ends
<1>3. /\ driven' \in [Quotes -> Nat]
      /\ driven'[q] \in {0, 1}
      /\ \A k \in Quotes \ {q} : driven'[k] = driven[k]
  <2>1. driven[q] = 0 /\ driven \in [Quotes -> Nat]
    BY <1>1 DEF DriveInv, RowTypes
  <2>2. CASE UNCHANGED driven
    BY <1>1, <2>1, <2>2
  <2>3. CASE driven' = [driven EXCEPT ![q] = @ + 1]
    BY <1>1, <2>1, <2>3
  <2> QED
    BY <2>2, <2>3 DEF DriveCreated
<1>4. Exists(q) /\ \A s \in Requests \ {r} : At(s, "drive") => req[s].for.quote # q
  BY <1>1 DEF DriveInv
<1>5. \A s \in Requests : req[s].for.quote \in Quotes
  BY <1>1 DEF RowTypes, RequestState, PaymentRow
<1>6. \A k : Exists(k)' <=> Exists(k)
  BY <1>1 DEF Exists
<1>7. RowTypes' /\ UniqueKey'
  BY <1>1, <1>2, <1>3 DEF RowTypes, UniqueKey
<1>8. ConsumedMeansPaid'
  BY <1>1, <1>6 DEF ConsumedMeansPaid
<1>9. DriveInv'
  <2>1. \A k \in Quotes : driven'[k] \in {0, 1} /\ (driven'[k] = 1 => Exists(k))
    BY <1>1, <1>3, <1>4 DEF DriveInv
  <2>2. \A s \in Requests : req'[s].at = "drive" =>
          s # r /\ Exists(req[s].for.quote) /\ driven'[req[s].for.quote] = 0
    BY <1>1, <1>2, <1>3, <1>4, <1>5 DEF DriveInv, At
  <2>3. \A s, t \in Requests :
          req'[s].at = "drive" /\ req'[t].at = "drive"
            /\ req'[s].for.quote = req'[t].for.quote => s = t
    BY <1>1, <1>2, <2>2 DEF DriveInv, At
  <2> QED
    BY <1>1, <1>2, <2>1, <2>2, <2>3 DEF DriveInv, At, Exists
<1> QED
  BY <1>7, <1>8, <1>9 DEF GateInv

\* Every step preserves the invariant.
LEMMA GateNext == GateInv /\ [Next]_vars => GateInv'
<1>1. SUFFICES ASSUME GateInv, [Next]_vars PROVE GateInv'
  OBVIOUS
<1>2. RowTypes
  BY <1>1 DEF GateInv
<1>3. CASE UNCHANGED vars
  BY <1>1, <1>2, <1>3, Aside DEF vars, RowTypes
<1>4. ASSUME NEW i \in Importers, CreateImporter(i) \/ \E s \in Suppliers : CreateSupplier(s, i)
      PROVE  GateInv'
  <2>1. UNCHANGED <<quote, payments, driven, req>>
    BY <1>4 DEF CreateImporter, CreateSupplier
  <2> QED
    BY <1>1, <1>2, <2>1, Aside DEF RowTypes
<1>5. ASSUME NEW q \in Quotes, CreateQuote(q) \/ Expire(q)
      PROVE  GateInv'
  <2>1. UNCHANGED <<payments, driven, req>>
    BY <1>5 DEF CreateQuote, Expire
  <2>2. /\ quote' \in [Quotes -> QuoteRow]
        /\ \A k \in Quotes : quote'[k].consumed = quote[k].consumed
    BY <1>2, <1>5, ZenonT(30) DEF CreateQuote, Expire, RowTypes, QuoteRow
  <2> QED
    BY <1>1, <1>2, <2>1, <2>2, Aside DEF RowTypes
<1>6. ASSUME NEW r \in Requests, NEW for \in PaymentRow, BeginCreate(r, for) \/ BeginKyc(r, for)
      PROVE  GateInv'
  <2>1. UNCHANGED <<quote, payments, driven>>
    BY <1>6 DEF BeginCreate, BeginKyc, Begin, data
  <2>2. /\ req' \in [Requests -> RequestState]
        /\ \A s \in Requests : req'[s].at = "drive" => req'[s] = req[s]
    BY <1>2, <1>6 DEF BeginCreate, BeginKyc, Begin, RowTypes, RequestState, Verdicts
  <2> QED
    BY <1>1, <1>2, <2>1, <2>2, Aside DEF RowTypes
<1>7. ASSUME NEW r \in Requests,
             \/ EnsureVerified(r) \/ StartKyc(r) \/ Verify(r) \/ RecordKyc(r)
             \/ UpdateKycStatus(r) \/ ReadQuote(r) \/ FindExisting(r) \/ RequestDies(r)
      PROVE  GateInv'
  <2>1. UNCHANGED <<quote, payments, driven>>
    BY <1>7 DEF EnsureVerified, StartKyc, Verify, RecordKyc, UpdateKycStatus, ReadQuote,
                FindExisting, RequestDies, data
  <2>2. CASE Verify(r)
    <3>1. /\ req' \in [Requests -> RequestState]
          /\ \A s \in Requests : req'[s].at = "drive" => req'[s] = req[s]
      BY <1>2, <2>2, ZenonT(30) DEF Verify, Ends, Goes, RowTypes, RequestState
    <3> QED
      BY <1>1, <1>2, <2>1, <3>1, Aside DEF RowTypes
  <2>3. CASE ~Verify(r)
    <3>1. \E at \in {"free", "startKyc", "askKyc", "update", "readQuote", "findExisting",
                     "create"} : Goes(r, at)
      BY <1>7, <2>3 DEF EnsureVerified, StartKyc, RecordKyc, UpdateKycStatus, ReadQuote,
                FindExisting, RequestDies, Ends, AfterKyc
    <3>2. /\ req' \in [Requests -> RequestState]
          /\ \A s \in Requests : req'[s].at = "drive" => req'[s] = req[s]
      BY <1>2, <3>1, GoesType
    <3> QED
      BY <1>1, <1>2, <2>1, <3>2, Aside DEF RowTypes
  <2> QED
    BY <2>2, <2>3
<1> QED
  BY <1>1, <1>3, <1>4, <1>5, <1>6, <1>7, CreateStep, DriveStep DEF Next

\* The invariant holds in every reachable state.
LEMMA GateAlways == Spec => []GateInv
  BY GateInit, GateNext, PTL DEF Spec

\* However many requests name the same quote and however they interleave, fail or
\* die, it has one payment at most and that is driven at most once by create.
THEOREM QuotePaysOnce == Spec => []OnePaymentPerQuote
<1>1. GateInv => OnePaymentPerQuote
  BY DEF GateInv, UniqueKey, DriveInv, OnePaymentPerQuote
<1> QED
  BY <1>1, GateAlways, PTL

\* A quote is consumed exactly when a payment was made from it.
THEOREM QuoteIsNeverLost == Spec => []ConsumedMeansPaid
<1>1. GateInv => ConsumedMeansPaid
  BY DEF GateInv
<1> QED
  BY <1>1, GateAlways, PTL

(***************************************************************************)
(* KYC.  A request that is past the gate has an importer who passed, and   *)
(* stays past it although other runs go on; a supplier never changes       *)
(* hands.  As long as no two runs of an importer overlapped, a run keeps   *)
(* the status pending until it writes the verdict it has put on record.    *)
(***************************************************************************)
CustomerTypes ==
  /\ kycStatus \in [Importers -> {"none", "unverified", "pending"} \union Verdicts]
  /\ records \in [Importers -> Seq(Verdicts)]
  /\ owner \in [Suppliers -> SUBSET Importers]
  /\ rerun \in [Importers -> BOOLEAN]

OnRecord(i, verdict) == \E n \in 1..Len(records[i]) : records[i][n] = verdict

Latest(i, verdict) == records[i] # << >> /\ verdict = records[i][Len(records[i])]

\* What holds of request r, which is one of importer i.
RequestPasses(r, i) ==
  /\ req[r].at \in {"checkKyc", "readQuote", "findExisting", "create"} =>
       req[r].kind = "create"
  /\ req[r].at # "free" /\ req[r].kind = "create" => owner[req[r].for.supplier] = {i}
  /\ req[r].at \in {"readQuote", "findExisting", "create"} => OnRecord(i, "verified")
  /\ \A verdict \in Verdicts :
       req[r].at = "update" /\ req[r].verdict = verdict => OnRecord(i, verdict)

PassInv ==
  /\ \A i \in Importers : kycStatus[i] = "verified" => OnRecord(i, "verified")
  /\ \A r \in Requests, i \in Importers : Importer(r) = i => RequestPasses(r, i)

\* What holds of importer i while no two runs of it have overlapped.
RunsInTurn(i) ==
  /\ \A verdict \in Verdicts : kycStatus[i] = verdict => Latest(i, verdict)
  /\ \A r \in Requests : InKyc(r) /\ Importer(r) = i => kycStatus[i] = "pending"
  /\ \A r \in Requests, verdict \in Verdicts :
       req[r].at = "update" /\ Importer(r) = i /\ req[r].verdict = verdict => Latest(i, verdict)
  /\ \A r, s \in Requests :
       InKyc(r) /\ InKyc(s) /\ Importer(r) = i /\ Importer(s) = i => r = s

LatestInv == \A i \in Importers : ~rerun[i] => RunsInTurn(i)

KycInv == CustomerTypes /\ PassInv /\ PaymentsPassedTheGate /\ LatestInv

LEMMA KycInit == Init => KycInv
<1>1. SUFFICES ASSUME Init PROVE KycInv
  OBVIOUS
<1>2. CustomerTypes
  BY <1>1 DEF Init, CustomerTypes, Verdicts
<1>3. PassInv /\ LatestInv
  BY <1>1 DEF Init, PassInv, RequestPasses, LatestInv, RunsInTurn, NoRequest, InKyc, Verdicts
<1>4. Len(payments) = 0
  BY <1>1 DEF Init
<1>5. PaymentsPassedTheGate
  BY <1>4 DEF PaymentsPassedTheGate
<1> QED
  BY <1>2, <1>3, <1>5 DEF KycInv

\* The parts of a row and of a request.
LEMMA RowParts ==
  ASSUME payments \in Seq(PaymentRow), NEW n \in 1..Len(payments)
  PROVE  payments[n].importer \in Importers /\ payments[n].supplier \in Suppliers
<1>1. payments[n] \in PaymentRow
  OBVIOUS
<1> QED
  BY <1>1 DEF PaymentRow

LEMMA RequestParts ==
  ASSUME RowTypes, NEW r \in Requests
  PROVE  /\ req[r].for.supplier \in Suppliers /\ Importer(r) \in Importers
         /\ req[r].verdict \in Verdicts
<1>1. req[r].for \in PaymentRow /\ req[r].verdict \in Verdicts
  BY DEF RowTypes, RequestState
<1> QED
  BY <1>1 DEF PaymentRow, Importer

\* What payments and records say stays so while rows are only added.
LEMMA PaidStays ==
  ASSUME PaymentsPassedTheGate, UNCHANGED <<payments, owner>>,
         payments \in Seq(PaymentRow),
         \A i \in Importers : OnRecord(i, "verified") => OnRecord(i, "verified")'
  PROVE  PaymentsPassedTheGate'
<1>1. \A n \in 1..Len(payments) : payments[n].importer \in Importers
  BY RowParts
<1> QED
  BY <1>1 DEF PaymentsPassedTheGate, HasPassed, OnRecord

LEMMA RecordsStay ==
  ASSUME UNCHANGED records
  PROVE  \A i \in Importers, verdict \in Verdicts :
           /\ OnRecord(i, verdict)' <=> OnRecord(i, verdict)
           /\ Latest(i, verdict)' <=> Latest(i, verdict)
BY DEF OnRecord, Latest

\* A request r changes while customers stay as they are: if what it says of itself
\* holds and it does not run KYC, the invariant holds.
LEMMA Moves ==
  ASSUME RowTypes, KycInv, NEW r \in Requests,
         UNCHANGED <<kycStatus, records, owner, rerun>>,
         \A s \in Requests \ {r} : req'[s] = req[s],
         req'[r].at \notin {"askKyc", "record", "update"},
         \A i \in Importers : Importer(r)' = i => RequestPasses(r, i)'
  PROVE  CustomerTypes' /\ PassInv' /\ LatestInv'
<1>1. CustomerTypes /\ PassInv /\ LatestInv
  BY DEF KycInv
<1>2. CustomerTypes'
  BY <1>1 DEF CustomerTypes
<1>3. \A s \in Requests \ {r} : Importer(s)' = Importer(s) /\ (InKyc(s)' <=> InKyc(s))
  BY DEF Importer, InKyc
<1>4. ~InKyc(r)' /\ "verified" \in Verdicts
  BY DEF InKyc, Verdicts
<1>5. PassInv'
  <2>1. \A i \in Importers : kycStatus'[i] = "verified" => OnRecord(i, "verified")'
    BY <1>1, <1>4, RecordsStay DEF PassInv
  <2>2. ASSUME NEW s \in Requests \ {r}, NEW i \in Importers, Importer(s)' = i
        PROVE  RequestPasses(s, i)'
    <3>1. RequestPasses(s, i)
      BY <1>1, <1>3, <2>2 DEF PassInv
    <3> QED
      BY <1>4, <3>1, RecordsStay DEF RequestPasses
  <2> QED
    BY <2>1, <2>2 DEF PassInv
<1>6. LatestInv'
  <2> SUFFICES ASSUME NEW i \in Importers, ~rerun'[i] PROVE RunsInTurn(i)'
    BY DEF LatestInv
  <2>1. RunsInTurn(i)
    BY <1>1 DEF LatestInv
  <2> QED
    BY <1>3, <1>4, <2>1, RecordsStay DEF RunsInTurn
<1> QED
  BY <1>2, <1>5, <1>6

LEMMA CustomerSteps ==
  ASSUME RowTypes, KycInv, NEW i \in Importers,
         CreateImporter(i) \/ \E s \in Suppliers : CreateSupplier(s, i)
  PROVE  KycInv'
<1>1. CustomerTypes /\ PassInv /\ PaymentsPassedTheGate /\ LatestInv
  BY DEF KycInv
<1>2. UNCHANGED <<records, payments, req, rerun>>
  BY DEF CreateImporter, CreateSupplier
<1>3. /\ kycStatus' \in [Importers -> {"none", "unverified", "pending"} \union Verdicts]
      /\ \A j \in Importers :
           kycStatus'[j] # kycStatus[j] => kycStatus[j] = "none" /\ kycStatus'[j] = "unverified"
  <2>1. \/ kycStatus' = kycStatus
        \/ kycStatus[i] = "none" /\ kycStatus' = [kycStatus EXCEPT ![i] = "unverified"]
    BY DEF CreateImporter, CreateSupplier
  <2>2. kycStatus \in [Importers -> {"none", "unverified", "pending"} \union Verdicts]
    BY <1>1 DEF CustomerTypes
  <2>3. kycStatus' \in [Importers -> {"none", "unverified", "pending"} \union Verdicts]
    BY <2>1, <2>2
  <2>4. \A j \in Importers :
          kycStatus'[j] # kycStatus[j] => kycStatus[j] = "none" /\ kycStatus'[j] = "unverified"
    BY <2>1, <2>2
  <2> QED
    BY <2>3, <2>4
<1>4. /\ owner' \in [Suppliers -> SUBSET Importers]
      /\ \A s \in Suppliers : owner[s] # {} => owner'[s] = owner[s]
  BY <1>1 DEF CreateImporter, CreateSupplier, CustomerTypes
<1>5. CustomerTypes'
  BY <1>1, <1>2, <1>3, <1>4 DEF CustomerTypes
<1>6. \A r \in Requests : Importer(r)' = Importer(r) /\ (InKyc(r)' <=> InKyc(r))
  BY <1>2 DEF Importer, InKyc
<1>7. "verified" \in Verdicts /\ "none" \notin Verdicts /\ "unverified" \notin Verdicts
  BY DEF Verdicts
<1>8. PassInv'
  <2>1. \A j \in Importers : kycStatus'[j] = "verified" => OnRecord(j, "verified")'
    BY <1>1, <1>2, <1>3, <1>7, RecordsStay DEF PassInv
  <2>2. ASSUME NEW r \in Requests, NEW j \in Importers, Importer(r)' = j
        PROVE  RequestPasses(r, j)'
    <3>1. RequestPasses(r, j)
      BY <1>1, <1>6, <2>2 DEF PassInv
    <3>2. owner[req[r].for.supplier] = {j} => owner'[req[r].for.supplier] = {j}
      BY <1>4, RequestParts
    <3> QED
      BY <1>2, <1>7, <3>1, <3>2, RecordsStay DEF RequestPasses
  <2> QED
    BY <2>1, <2>2 DEF PassInv
<1>9. PaymentsPassedTheGate'
  <2>1. \A n \in 1..Len(payments) : payments[n].supplier \in Suppliers
    BY RowParts DEF RowTypes
  <2> QED
    BY <1>1, <1>2, <1>4, <2>1 DEF PaymentsPassedTheGate, HasPassed
<1>10. LatestInv'
  <2> SUFFICES ASSUME NEW j \in Importers, ~rerun'[j] PROVE RunsInTurn(j)'
    BY DEF LatestInv
  <2>1. RunsInTurn(j)
    BY <1>1, <1>2 DEF LatestInv
  <2> QED
    BY <1>2, <1>3, <1>6, <1>7, <2>1, RecordsStay DEF RunsInTurn
<1> QED
  BY <1>5, <1>8, <1>9, <1>10 DEF KycInv

\* A request begins.
LEMMA BeginSteps ==
  ASSUME RowTypes, KycInv, NEW r \in Requests, NEW for \in PaymentRow,
         BeginCreate(r, for) \/ BeginKyc(r, for)
  PROVE  KycInv'
<1>1. /\ UNCHANGED <<kycStatus, records, owner, payments, rerun>>
      /\ \A s \in Requests \ {r} : req'[s] = req[s]
      /\ req'[r].at \in {"checkKyc", "startKyc"} /\ req'[r].for = for
      /\ req'[r].at = "checkKyc" => req'[r].kind = "create"
      /\ req'[r].kind = "create" => owner[for.supplier] = {for.importer}
  BY DEF BeginCreate, BeginKyc, Begin, data, RowTypes
<1>2. \A i \in Importers : Importer(r)' = i => RequestPasses(r, i)'
  BY <1>1 DEF RequestPasses, Importer
<1>3. PaymentsPassedTheGate'
  BY <1>1 DEF KycInv, PaymentsPassedTheGate, HasPassed
<1> QED
  BY <1>1, <1>2, <1>3, Moves DEF KycInv

\* A request goes on or ends, without running KYC.
LEMMA GoesOn ==
  ASSUME RowTypes, KycInv, NEW r \in Requests, ~At(r, "free"),
         NEW at \in {"free", "startKyc", "readQuote", "findExisting", "create", "drive"},
         Goes(r, at), UNCHANGED <<kycStatus, records, owner, rerun>>,
         at \in {"readQuote", "findExisting", "create"} =>
           /\ req[r].kind = "create"
           /\ \A i \in Importers : Importer(r) = i => OnRecord(i, "verified")
  PROVE  CustomerTypes' /\ PassInv' /\ LatestInv'
<1>1. /\ \A s \in Requests \ {r} : req'[s] = req[s]
      /\ req'[r].at = at /\ req'[r].for = req[r].for
      /\ req'[r].kind = req[r].kind /\ req'[r].verdict = req[r].verdict
  BY DEF RowTypes, Goes, RequestState
<1>2. ASSUME NEW i \in Importers, Importer(r)' = i
      PROVE  RequestPasses(r, i)'
  <2>1. Importer(r) = i
    BY <1>1, <1>2 DEF Importer
  <2>2. RequestPasses(r, i)
    BY <2>1 DEF KycInv, PassInv
  <2>3. at \in {"readQuote", "findExisting", "create"} => OnRecord(i, "verified")'
    BY <2>1, RecordsStay DEF Verdicts
  <2> QED
    BY <1>1, <2>2, <2>3 DEF RequestPasses, At
<1> QED
  BY <1>1, <1>2, Moves

\* A run of KYC begins: the status is pending, and if another run was under way
\* the two have overlapped.
LEMMA StartKycStep ==
  ASSUME RowTypes, KycInv, NEW r \in Requests, StartKyc(r)
  PROVE  KycInv'
<1> PICK i \in Importers : i = Importer(r)
  BY RequestParts
<1>1. CustomerTypes /\ PassInv /\ PaymentsPassedTheGate /\ LatestInv
  BY DEF KycInv
<1>2. /\ UNCHANGED <<records, owner, payments>>
      /\ req[r].at = "startKyc" /\ Goes(r, "askKyc")
      /\ kycStatus' = [kycStatus EXCEPT ![i] = "pending"]
      /\ rerun' = [rerun EXCEPT ![i] = @ \/ \E s \in Requests : InKyc(s) /\ Importer(s) = i]
  BY DEF StartKyc, At
<1>3. /\ \A s \in Requests \ {r} : req'[s] = req[s]
      /\ req'[r].at = "askKyc" /\ req'[r].for = req[r].for
      /\ req'[r].kind = req[r].kind
  BY <1>2 DEF RowTypes, Goes, RequestState
<1>4. /\ kycStatus'[i] = "pending"
      /\ \A j \in Importers \ {i} : kycStatus'[j] = kycStatus[j] /\ rerun'[j] = rerun[j]
      /\ ~rerun'[i] => ~rerun[i] /\ \A s \in Requests : ~(InKyc(s) /\ Importer(s) = i)
  BY <1>1, <1>2 DEF CustomerTypes
<1>5. CustomerTypes'
  BY <1>1, <1>2 DEF CustomerTypes
<1>6. \A s \in Requests : Importer(s)' = Importer(s) /\ (InKyc(s)' <=> s = r \/ InKyc(s))
  BY <1>3 DEF Importer, InKyc
<1>7. "verified" \in Verdicts /\ "pending" \notin Verdicts
  BY DEF Verdicts
<1>8. PassInv'
  <2>1. \A j \in Importers : kycStatus'[j] = "verified" => OnRecord(j, "verified")'
    BY <1>1, <1>2, <1>4, <1>7, RecordsStay DEF PassInv
  <2>2. ASSUME NEW s \in Requests, NEW j \in Importers, Importer(s)' = j
        PROVE  RequestPasses(s, j)'
    <3>1. RequestPasses(s, j)
      BY <1>1, <1>6, <2>2 DEF PassInv
    <3> QED
      BY <1>2, <1>3, <1>7, <3>1, RecordsStay DEF RequestPasses
  <2> QED
    BY <2>1, <2>2 DEF PassInv
<1>9. PaymentsPassedTheGate'
  BY <1>1, <1>2 DEF PaymentsPassedTheGate, HasPassed
<1>10. LatestInv'
  <2> SUFFICES ASSUME NEW j \in Importers, ~rerun'[j] PROVE RunsInTurn(j)'
    BY DEF LatestInv
  <2>1. RunsInTurn(j)
    BY <1>1, <1>4 DEF LatestInv
  <2>2. \A s \in Requests : req'[s].at = "update" => req'[s] = req[s]
    BY <1>3
  <2>3. CASE j = i
    <3>1. \A s \in Requests : InKyc(s)' /\ Importer(s)' = j => s = r
      BY <1>4, <1>6, <2>3
    <3>2. \A s \in Requests : req'[s].at = "update" => InKyc(s) /\ s # r
      BY <1>3 DEF InKyc
    <3> QED
      BY <1>4, <1>6, <1>7, <2>3, <3>1, <3>2 DEF RunsInTurn
  <2>4. CASE j # i
    <3>1. \A s \in Requests : InKyc(s)' /\ Importer(s)' = j => InKyc(s) /\ Importer(s) = j
      BY <1>6, <2>4
    <3> QED
      BY <1>2, <1>4, <1>6, <2>1, <2>2, <2>4, <3>1, RecordsStay DEF RunsInTurn
  <2> QED
    BY <2>3, <2>4
<1> QED
  BY <1>5, <1>8, <1>9, <1>10 DEF KycInv

\* The provider answers.
LEMMA VerifyStep ==
  ASSUME RowTypes, KycInv, NEW r \in Requests, Verify(r)
  PROVE  KycInv'
<1>1. CustomerTypes /\ PassInv /\ PaymentsPassedTheGate /\ LatestInv
  BY DEF KycInv
<1>2. /\ UNCHANGED <<kycStatus, records, owner, payments, rerun>>
      /\ req[r].at = "askKyc"
  BY DEF Verify, data, At
<1>3. PaymentsPassedTheGate'
  BY <1>1, <1>2 DEF PaymentsPassedTheGate, HasPassed
<1>4. CASE Ends(r)
  BY <1>2, <1>3, <1>4, GoesOn DEF Ends, At, KycInv
<1>5. ASSUME NEW verdict \in Verdicts,
             req' = [req EXCEPT ![r].at = "record", ![r].verdict = verdict]
      PROVE  KycInv'
  <2>1. /\ \A s \in Requests \ {r} : req'[s] = req[s]
        /\ req'[r].at = "record" /\ req'[r].for = req[r].for
        /\ req'[r].kind = req[r].kind
    BY <1>5 DEF RowTypes, RequestState
  <2>2. CustomerTypes'
    BY <1>1, <1>2 DEF CustomerTypes
  <2>3. /\ \A s \in Requests : Importer(s)' = Importer(s) /\ (InKyc(s)' <=> InKyc(s))
        /\ \A s \in Requests : req'[s].at = "update" => req'[s] = req[s]
    BY <1>2, <2>1 DEF Importer, InKyc
  <2>4. "verified" \in Verdicts
    BY DEF Verdicts
  <2>5. PassInv'
    <3>1. \A j \in Importers : kycStatus'[j] = "verified" => OnRecord(j, "verified")'
      BY <1>1, <1>2, <2>4, RecordsStay DEF PassInv
    <3>2. ASSUME NEW s \in Requests, NEW j \in Importers, Importer(s)' = j
          PROVE  RequestPasses(s, j)'
      <4>1. RequestPasses(s, j)
        BY <1>1, <2>3, <3>2 DEF PassInv
      <4> QED
        BY <1>2, <2>1, <2>4, <4>1, RecordsStay DEF RequestPasses
    <3> QED
      BY <3>1, <3>2 DEF PassInv
  <2>6. LatestInv'
    <3> SUFFICES ASSUME NEW j \in Importers, ~rerun'[j] PROVE RunsInTurn(j)'
      BY DEF LatestInv
    <3>1. RunsInTurn(j)
      BY <1>1, <1>2 DEF LatestInv
    <3> QED
      BY <1>2, <2>3, <3>1, RecordsStay DEF RunsInTurn
  <2> QED
    BY <1>3, <2>2, <2>5, <2>6 DEF KycInv
<1> QED
  BY <1>4, <1>5 DEF Verify

\* The verdict goes on record.
LEMMA RecordKycStep ==
  ASSUME RowTypes, KycInv, NEW r \in Requests, RecordKyc(r)
  PROVE  KycInv'
<1> PICK i \in Importers, verdict \in Verdicts : i = Importer(r) /\ verdict = req[r].verdict
  BY RequestParts
<1>1. CustomerTypes /\ PassInv /\ PaymentsPassedTheGate /\ LatestInv
  BY DEF KycInv
<1>2. /\ UNCHANGED <<kycStatus, owner, payments, rerun>>
      /\ req[r].at = "record" /\ Goes(r, "update")
      /\ records' = [records EXCEPT ![i] = Append(@, verdict)]
  BY DEF RecordKyc, At
<1>3. /\ \A s \in Requests \ {r} : req'[s] = req[s]
      /\ req'[r].at = "update" /\ req'[r].for = req[r].for
      /\ req'[r].kind = req[r].kind /\ req'[r].verdict = verdict
  BY <1>2 DEF RowTypes, Goes, RequestState
<1>4. /\ records[i] \in Seq(Verdicts) /\ records'[i] = Append(records[i], verdict)
      /\ \A j \in Importers \ {i} : records'[j] = records[j]
  BY <1>1, <1>2 DEF CustomerTypes
<1>5. /\ records'[i] \in Seq(Verdicts)
      /\ Len(records'[i]) = Len(records[i]) + 1 /\ Len(records[i]) \in Nat
      /\ \A n \in 1..Len(records[i]) : records'[i][n] = records[i][n]
      /\ records'[i][Len(records[i]) + 1] = verdict
  BY <1>4
<1>6. CustomerTypes'
  BY <1>1, <1>2, <1>5 DEF CustomerTypes
<1>7. /\ \A j \in Importers, w \in Verdicts : OnRecord(j, w) => OnRecord(j, w)'
      /\ OnRecord(i, verdict)' /\ Latest(i, verdict)'
      /\ \A j \in Importers \ {i}, w \in Verdicts : Latest(j, w) => Latest(j, w)'
  BY <1>4, <1>5 DEF OnRecord, Latest
<1>8. /\ \A s \in Requests : Importer(s)' = Importer(s) /\ (InKyc(s)' <=> InKyc(s))
      /\ InKyc(r) /\ "verified" \in Verdicts /\ "pending" \notin Verdicts
  BY <1>2, <1>3 DEF Importer, InKyc, Verdicts
<1>9. PassInv'
  <2>1. \A j \in Importers : kycStatus'[j] = "verified" => OnRecord(j, "verified")'
    BY <1>1, <1>2, <1>7, <1>8 DEF PassInv
  <2>2. ASSUME NEW s \in Requests, NEW j \in Importers, Importer(s)' = j
        PROVE  RequestPasses(s, j)'
    <3>1. RequestPasses(s, j) /\ (s = r => j = i)
      BY <1>1, <1>8, <2>2 DEF PassInv
    <3> QED
      BY <1>2, <1>3, <1>7, <1>8, <3>1 DEF RequestPasses
  <2> QED
    BY <2>1, <2>2 DEF PassInv
<1>10. PaymentsPassedTheGate'
  BY <1>1, <1>2, <1>7, <1>8, PaidStays DEF RowTypes
<1>11. LatestInv'
  <2> SUFFICES ASSUME NEW j \in Importers, ~rerun'[j] PROVE RunsInTurn(j)'
    BY DEF LatestInv
  <2>1. RunsInTurn(j)
    BY <1>1, <1>2 DEF LatestInv
  <2>2. CASE j = i
    <3>1. kycStatus'[j] = "pending"
      BY <1>2, <1>8, <2>1, <2>2 DEF RunsInTurn
    <3>2. \A s \in Requests : InKyc(s)' /\ Importer(s)' = j => s = r
      BY <1>8, <2>1, <2>2 DEF RunsInTurn
    <3>3. \A s \in Requests : req'[s].at = "update" => InKyc(s)'
      BY DEF InKyc
    <3> QED
      BY <1>3, <1>7, <1>8, <2>2, <3>1, <3>2, <3>3 DEF RunsInTurn
  <2>3. CASE j # i
    <3>1. \A s \in Requests : Importer(s)' = j => s # r /\ Importer(s) = j /\ req'[s] = req[s]
      BY <1>3, <1>8, <2>3
    <3> QED
      BY <1>2, <1>7, <1>8, <2>1, <2>3, <3>1 DEF RunsInTurn
  <2> QED
    BY <2>2, <2>3
<1> QED
  BY <1>6, <1>9, <1>10, <1>11 DEF KycInv

\* The verdict becomes the status, and the run is over.
LEMMA UpdateStep ==
  ASSUME RowTypes, KycInv, NEW r \in Requests, UpdateKycStatus(r)
  PROVE  KycInv'
<1> PICK i \in Importers, verdict \in Verdicts : i = Importer(r) /\ verdict = req[r].verdict
  BY RequestParts
<1>1. CustomerTypes /\ PassInv /\ PaymentsPassedTheGate /\ LatestInv
  BY DEF KycInv
<1>2. /\ UNCHANGED <<records, owner, payments, rerun>>
      /\ req[r].at = "update" /\ kycStatus' = [kycStatus EXCEPT ![i] = verdict]
      /\ Goes(r, IF req[r].kind = "create" /\ verdict = "verified" THEN "readQuote" ELSE "free")
  BY DEF UpdateKycStatus, At, AfterKyc
<1>3. /\ \A s \in Requests \ {r} : req'[s] = req[s]
      /\ req'[r].at \in {"readQuote", "free"} /\ req'[r].for = req[r].for
      /\ req'[r].kind = req[r].kind /\ req'[r].verdict = verdict
      /\ req'[r].at = "readQuote" => req[r].kind = "create" /\ verdict = "verified"
  BY <1>2 DEF RowTypes, Goes, RequestState
<1>4. /\ kycStatus'[i] = verdict
      /\ \A j \in Importers \ {i} : kycStatus'[j] = kycStatus[j]
  BY <1>1, <1>2 DEF CustomerTypes
<1>5. CustomerTypes'
  BY <1>1, <1>2 DEF CustomerTypes
<1>6. /\ \A s \in Requests : Importer(s)' = Importer(s) /\ (InKyc(s)' => InKyc(s) /\ s # r)
      /\ InKyc(r) /\ "verified" \in Verdicts
  BY <1>2, <1>3 DEF Importer, InKyc, Verdicts
<1>7. OnRecord(i, verdict)
  BY <1>1, <1>2 DEF PassInv, RequestPasses
<1>8. PassInv'
  <2>1. \A j \in Importers : kycStatus'[j] = "verified" => OnRecord(j, "verified")'
    BY <1>1, <1>2, <1>4, <1>6, <1>7, RecordsStay DEF PassInv
  <2>2. ASSUME NEW s \in Requests, NEW j \in Importers, Importer(s)' = j
        PROVE  RequestPasses(s, j)'
    <3>1. RequestPasses(s, j) /\ (s = r => j = i)
      BY <1>1, <1>6, <2>2 DEF PassInv
    <3> QED
      BY <1>2, <1>3, <1>6, <1>7, <3>1, RecordsStay DEF RequestPasses
  <2> QED
    BY <2>1, <2>2 DEF PassInv
<1>9. PaymentsPassedTheGate'
  BY <1>1, <1>2 DEF PaymentsPassedTheGate, HasPassed
<1>10. LatestInv'
  <2> SUFFICES ASSUME NEW j \in Importers, ~rerun'[j] PROVE RunsInTurn(j)'
    BY DEF LatestInv
  <2>1. RunsInTurn(j)
    BY <1>1, <1>2 DEF LatestInv
  <2>2. \A s \in Requests : req'[s].at = "update" => InKyc(s)' /\ s # r /\ req'[s] = req[s]
    BY <1>3 DEF InKyc
  <2>3. CASE j = i
    <3>1. \A s \in Requests : ~(InKyc(s)' /\ Importer(s)' = j)
      BY <1>6, <2>1, <2>3 DEF RunsInTurn
    <3>2. Latest(i, verdict)'
      BY <1>2, <2>1, <2>3, RecordsStay DEF RunsInTurn
    <3> QED
      BY <1>4, <2>2, <2>3, <3>1, <3>2 DEF RunsInTurn
  <2>4. CASE j # i
    BY <1>2, <1>4, <1>6, <2>1, <2>2, <2>4, RecordsStay DEF RunsInTurn
  <2> QED
    BY <2>3, <2>4
<1> QED
  BY <1>5, <1>8, <1>9, <1>10 DEF KycInv

\* The transaction: the importer of the new payment has passed, and its supplier is
\* still the one the request began with.
LEMMA InsertStep ==
  ASSUME RowTypes, KycInv, NEW r \in Requests, Create(r)
  PROVE  KycInv'
<1>1. /\ UNCHANGED <<kycStatus, records, owner, rerun>> /\ req[r].at = "create"
      /\ Goes(r, "free") \/ Goes(r, "drive")
      /\ payments' = payments \/ payments' = Append(payments, req[r].for)
  BY DEF Create, Ends, At
<1>2. CustomerTypes' /\ PassInv' /\ LatestInv'
  BY <1>1, GoesOn DEF At
<1>3. payments \in Seq(PaymentRow) /\ req[r].for \in PaymentRow
  BY DEF RowTypes, RequestState
<1>4. PaymentsPassedTheGate
  BY DEF KycInv
<1>5. ASSUME payments' = payments PROVE PaymentsPassedTheGate'
  BY <1>1, <1>4, <1>5 DEF PaymentsPassedTheGate, HasPassed
<1>6. ASSUME payments' = Append(payments, req[r].for) PROVE PaymentsPassedTheGate'
  <2>1. /\ Len(payments') = Len(payments) + 1 /\ Len(payments) \in Nat
        /\ \A n \in 1..Len(payments) : payments'[n] = payments[n]
        /\ payments'[Len(payments) + 1] = req[r].for
    BY <1>3, <1>6
  <2>2. RequestPasses(r, Importer(r))
    BY RequestParts DEF KycInv, PassInv
  <2>3. HasPassed(req[r].for.importer) /\ owner[req[r].for.supplier] = {req[r].for.importer}
    BY <1>1, <2>2 DEF RequestPasses, OnRecord, HasPassed, Importer
  <2>4. ASSUME NEW n \in 1..Len(payments')
        PROVE  /\ HasPassed(payments'[n].importer)
               /\ owner[payments'[n].supplier] = {payments'[n].importer}
    <3>1. CASE n \in 1..Len(payments)
      BY <1>4, <2>1, <3>1 DEF PaymentsPassedTheGate
    <3>2. CASE n = Len(payments) + 1
      BY <2>1, <2>3, <3>2
    <3> QED
      BY <2>1, <3>1, <3>2
  <2> QED
    BY <1>1, <2>4 DEF PaymentsPassedTheGate, HasPassed
<1> QED
  BY <1>1, <1>2, <1>5, <1>6 DEF KycInv

\* The steps between two statements that change the tables.
LEMMA BetweenSteps ==
  ASSUME RowTypes, KycInv, NEW r \in Requests,
         \/ EnsureVerified(r) \/ ReadQuote(r) \/ FindExisting(r) \/ DriveCreated(r)
         \/ RequestDies(r)
  PROVE  KycInv'
<1>1. /\ UNCHANGED <<kycStatus, records, owner, payments, rerun>> /\ ~At(r, "free")
      /\ \/ Goes(r, "free") \/ Goes(r, "startKyc")
         \/ req[r].at = "checkKyc" /\ kycStatus[Importer(r)] = "verified" /\ Goes(r, "readQuote")
         \/ req[r].at = "readQuote" /\ Goes(r, "findExisting")
         \/ req[r].at = "findExisting" /\ Goes(r, "create")
  BY DEF EnsureVerified, ReadQuote, FindExisting, DriveCreated, RequestDies, Ends, At, data
<1>2. PaymentsPassedTheGate'
  BY <1>1 DEF KycInv, PaymentsPassedTheGate, HasPassed
<1>3. \A i \in Importers : Importer(r) = i =>
        RequestPasses(r, i) /\ (kycStatus[i] = "verified" => OnRecord(i, "verified"))
  BY DEF KycInv, PassInv
<1>4. PICK i \in Importers : Importer(r) = i
  BY RequestParts
<1>5. CustomerTypes' /\ PassInv' /\ LatestInv'
  <2>1. CASE Goes(r, "free") \/ Goes(r, "startKyc")
    BY <1>1, <2>1, GoesOn
  <2>2. ASSUME NEW at \in {"readQuote", "findExisting", "create"}, Goes(r, at),
               \/ req[r].at = "checkKyc" /\ kycStatus[Importer(r)] = "verified"
               \/ req[r].at \in {"readQuote", "findExisting"}
        PROVE  CustomerTypes' /\ PassInv' /\ LatestInv'
    <3>1. req[r].kind = "create" /\ OnRecord(i, "verified")
      BY <1>3, <1>4, <2>2 DEF RequestPasses
    <3>2. \A j \in Importers : Importer(r) = j => OnRecord(j, "verified")
      BY <1>4, <3>1
    <3> QED
      BY <1>1, <2>2, <3>1, <3>2, GoesOn
  <2> QED
    BY <1>1, <2>1, <2>2
<1> QED
  BY <1>2, <1>5 DEF KycInv

LEMMA KycNext == RowTypes /\ KycInv /\ [Next]_vars => KycInv'
<1>1. SUFFICES ASSUME RowTypes, KycInv, [Next]_vars PROVE KycInv'
  OBVIOUS
<1>2. ASSUME UNCHANGED <<kycStatus, records, owner, payments, req, rerun>> PROVE KycInv'
  <2>1. CustomerTypes /\ PassInv /\ PaymentsPassedTheGate /\ LatestInv
    BY <1>1 DEF KycInv
  <2>2. CustomerTypes' /\ PaymentsPassedTheGate'
    BY <1>2, <2>1 DEF CustomerTypes, PaymentsPassedTheGate, HasPassed
  <2>3. PassInv'
    BY <1>2, <2>1 DEF PassInv, RequestPasses, OnRecord, Importer
  <2>4. LatestInv'
    BY <1>2, <2>1 DEF LatestInv, RunsInTurn, Latest, InKyc, Importer
  <2> QED
    BY <2>2, <2>3, <2>4 DEF KycInv
<1>3. CASE UNCHANGED vars
  BY <1>2, <1>3 DEF vars
<1>4. ASSUME NEW q \in Quotes, CreateQuote(q) \/ Expire(q) PROVE KycInv'
  BY <1>2, <1>4 DEF CreateQuote, Expire
<1> QED
  BY <1>1, <1>3, <1>4, CustomerSteps, BeginSteps, BetweenSteps, StartKycStep, VerifyStep,
     RecordKycStep, UpdateStep, InsertStep DEF Next

LEMMA KycAlways == Spec => [](RowTypes /\ KycInv)
<1>1. GateInv => RowTypes
  BY DEF GateInv
<1> QED
  BY <1>1, KycInit, KycNext, GateAlways, PTL DEF Spec

\* The tables and the requests keep their types.
THEOREM GateTypeCorrect == Spec => []GateTypeOK
<1>1. RowTypes /\ KycInv => GateTypeOK
  BY DEF RowTypes, KycInv, CustomerTypes, GateTypeOK
<1> QED
  BY <1>1, KycAlways, PTL

\* No payment is made without a positive verdict on record and a supplier of the
\* same importer, whatever runs of KYC come between check and insert.
THEOREM GatePassed == Spec => []PaymentsPassedTheGate
<1>1. RowTypes /\ KycInv => PaymentsPassedTheGate
  BY DEF KycInv
<1> QED
  BY <1>1, KycAlways, PTL

\* The stored status is the verdict of the latest record, as long as no two runs of
\* the importer have overlapped.
THEOREM StatusIsLatest == Spec => []StatusIsLatestVerdict
<1>1. RowTypes /\ KycInv => StatusIsLatestVerdict
  <2>1. SUFFICES ASSUME KycInv, NEW i \in Importers, kycStatus[i] \in Verdicts, ~rerun[i]
                 PROVE  Latest(i, kycStatus[i])
    BY DEF StatusIsLatestVerdict, Latest
  <2> QED
    BY <2>1 DEF KycInv, LatestInv, RunsInTurn
<1> QED
  BY <1>1, KycAlways, PTL

=============================================================================
