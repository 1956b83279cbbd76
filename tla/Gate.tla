-------------------------------- MODULE Gate --------------------------------
(***************************************************************************)
(* What stands in front of the engine: customers, KYC, quotes, and the     *)
(* create request that ties them into a Payment row (customers.service,    *)
(* kyc.service, fx.service and payments.service create, all under          *)
(* apps/api/src/).                                                         *)
(*                                                                         *)
(* A create request awaits at every database call, and only the last one   *)
(* is a transaction; a request is split where another one can come between *)
(* to any effect.  The KYC provider is external: it may answer either way  *)
(* each time, or fail.                                                     *)
(***************************************************************************)
EXTENDS Naturals, Sequences

CONSTANTS
  Importers,    \* e-mail addresses, the unique key of an importer
  Suppliers,
  Quotes,
  Requests,     \* slots for requests to create a payment or to run KYC
  MaxRecords    \* bound: no KYC run starts for an importer with this many records

ASSUME RecordBound == MaxRecords \in Nat

VARIABLES
  kycStatus,    \* kycStatus[i]: the importer's status, "none" before there is a row
  records,      \* records[i]: the verdicts of the KycRecord rows, oldest first
  owner,        \* owner[s]: the importers whose supplier s is, at most one
  quote,        \* the Quote rows
  payments,     \* the Payment rows, oldest first
  driven,       \* driven[q]: times a payment for q was handed to the orchestrator
  req,          \* the requests in flight
  rerun         \* history: a KYC run of i began while another had not ended

vars == <<kycStatus, records, owner, quote, payments, driven, req, rerun>>

Verdicts == {"verified", "rejected"}

QuoteRow == [created : BOOLEAN, expired : BOOLEAN, consumed : BOOLEAN]

PaymentRow == [quote : Quotes, importer : Importers, supplier : Suppliers]

RequestState ==
  [at : {"free", "checkKyc", "startKyc", "askKyc", "record", "update", "readQuote",
         "findExisting", "create", "drive"},
   kind : {"create", "kyc"}, for : PaymentRow, verdict : Verdicts]

NoRequest(for) == [at |-> "free", kind |-> "create", for |-> for, verdict |-> "rejected"]

Init ==
  /\ kycStatus = [i \in Importers |-> "none"]
  /\ records = [i \in Importers |-> << >>]
  /\ owner = [s \in Suppliers |-> {}]
  /\ quote = [q \in Quotes |-> [created |-> FALSE, expired |-> FALSE, consumed |-> FALSE]]
  /\ payments = << >>
  /\ driven = [q \in Quotes |-> 0]
  /\ \E for \in PaymentRow : req = [r \in Requests |-> NoRequest(for)]
  /\ rerun = [i \in Importers |-> FALSE]

(***************************************************************************)
(* Customers and quotes.                                                   *)
(***************************************************************************)
\* createImporter: refused for an e-mail address that is taken, by the look-up
\* or, when two requests race, by the unique column.
CreateImporter(i) ==
  /\ kycStatus[i] = "none"
  /\ kycStatus' = [kycStatus EXCEPT ![i] = "unverified"]
  /\ UNCHANGED <<records, owner, quote, payments, driven, req, rerun>>

\* createSupplier, for an importer that exists.
CreateSupplier(s, i) ==
  /\ owner[s] = {} /\ kycStatus[i] # "none"
  /\ owner' = [owner EXCEPT ![s] = {i}]
  /\ UNCHANGED <<kycStatus, records, quote, payments, driven, req, rerun>>

CreateQuote(q) ==
  /\ ~quote[q].created
  /\ quote' = [quote EXCEPT ![q].created = TRUE]
  /\ UNCHANGED <<kycStatus, records, owner, payments, driven, req, rerun>>

\* The clock passes expiresAt.
Expire(q) ==
  /\ quote[q].created /\ ~quote[q].expired
  /\ quote' = [quote EXCEPT ![q].expired = TRUE]
  /\ UNCHANGED <<kycStatus, records, owner, payments, driven, req, rerun>>

(***************************************************************************)
(* Requests.  One that is refused or that throws ends with its response.   *)
(***************************************************************************)
Goes(r, at) == req' = [req EXCEPT ![r].at = at]

Ends(r) == Goes(r, "free")

At(r, at) == req[r].at = at

Importer(r) == req[r].for.importer

data == <<kycStatus, records, owner, quote, payments, driven>>

Begin(r, kind, for, at) ==
  /\ At(r, "free")
  /\ req' = [req EXCEPT ![r] = [at |-> at, kind |-> kind, for |-> for,
                                verdict |-> "rejected"]]
  /\ UNCHANGED <<data, rerun>>

\* create: the supplier exists and belongs to the importer.
BeginCreate(r, for) ==
  owner[for.supplier] = {for.importer} /\ Begin(r, "create", for, "checkKyc")

\* POST importers/:id/kyc, for an importer that exists.
BeginKyc(r, for) ==
  kycStatus[for.importer] # "none" /\ Begin(r, "kyc", for, "startKyc")

\* Faulty variant of the next: an importer under review passes.
EnsureNotRejected(r) ==
  /\ At(r, "checkKyc")
  /\ Goes(r, IF kycStatus[Importer(r)] \in {"verified", "pending"}
             THEN "readQuote" ELSE "startKyc")
  /\ UNCHANGED <<data, rerun>>

\* ensureVerified: a verified importer passes, for any other KYC is run.
EnsureVerified(r) ==
  /\ At(r, "checkKyc")
  /\ Goes(r, IF kycStatus[Importer(r)] = "verified" THEN "readQuote" ELSE "startKyc")
  /\ UNCHANGED <<data, rerun>>

InKyc(s) == req[s].at \in {"askKyc", "record", "update"}

\* runKyc, first part: the status is pending while the provider is asked.
StartKyc(r) ==
  /\ At(r, "startKyc") /\ Len(records[Importer(r)]) < MaxRecords
  /\ kycStatus' = [kycStatus EXCEPT ![Importer(r)] = "pending"]
  /\ rerun' = [rerun EXCEPT ![Importer(r)] =
       @ \/ \E s \in Requests : InKyc(s) /\ Importer(s) = Importer(r)]
  /\ Goes(r, "askKyc")
  /\ UNCHANGED <<records, owner, quote, payments, driven>>

\* kycAdapter.verify.
Verify(r) ==
  /\ At(r, "askKyc")
  /\ \/ \E verdict \in Verdicts :
          req' = [req EXCEPT ![r].at = "record", ![r].verdict = verdict]
     \/ Ends(r)
  /\ UNCHANGED <<data, rerun>>

\* runKyc: the record, in a statement of its own.
RecordKyc(r) ==
  /\ At(r, "record")
  /\ records' = [records EXCEPT ![Importer(r)] = Append(@, req[r].verdict)]
  /\ Goes(r, "update")
  /\ UNCHANGED <<kycStatus, owner, quote, payments, driven, rerun>>

\* What follows the last part of runKyc in a create request, or nothing.
AfterKyc(r) ==
  Goes(r, IF req[r].kind = "create" /\ req[r].verdict = "verified"
          THEN "readQuote" ELSE "free")

\* Faulty variants of the next: the importer is verified whatever the verdict;
\* the provider's own word is stored as the status.
UpdateToVerified(r) ==
  /\ At(r, "update")
  /\ kycStatus' = [kycStatus EXCEPT ![Importer(r)] = "verified"]
  /\ AfterKyc(r)
  /\ UNCHANGED <<records, owner, quote, payments, driven, rerun>>

UpdateToApproved(r) ==
  /\ At(r, "update")
  /\ kycStatus' = [kycStatus EXCEPT ![Importer(r)] = "approved"]
  /\ AfterKyc(r)
  /\ UNCHANGED <<records, owner, quote, payments, driven, rerun>>

\* runKyc, last part; a create request goes on if the verdict lets it.
UpdateKycStatus(r) ==
  /\ At(r, "update")
  /\ kycStatus' = [kycStatus EXCEPT ![Importer(r)] = req[r].verdict]
  /\ AfterKyc(r)
  /\ UNCHANGED <<records, owner, quote, payments, driven, rerun>>

\* getQuoteOrThrow and assertUsable.
ReadQuote(r) ==
  /\ At(r, "readQuote")
  /\ LET q == quote[req[r].for.quote]
     IN  Goes(r, IF q.created /\ ~q.consumed /\ ~q.expired THEN "findExisting" ELSE "free")
  /\ UNCHANGED <<data, rerun>>

\* The idempotency key of a payment is its quote.
Exists(q) == \E n \in 1..Len(payments) : payments[n].quote = q

FindExisting(r) ==
  /\ At(r, "findExisting")
  /\ Goes(r, IF Exists(req[r].for.quote) THEN "free" ELSE "create")
  /\ UNCHANGED <<data, rerun>>

\* Faulty variants of the next: the key is not unique; the quote is consumed by
\* a statement outside the transaction.
CreateWithoutKey(r) ==
  /\ At(r, "create")
  /\ quote' = [quote EXCEPT ![req[r].for.quote].consumed = TRUE]
  /\ payments' = Append(payments, req[r].for)
  /\ Goes(r, "drive")
  /\ UNCHANGED <<kycStatus, records, owner, driven, rerun>>

ConsumeThenCreate(r) ==
  /\ At(r, "create")
  /\ quote' = [quote EXCEPT ![req[r].for.quote].consumed = TRUE]
  /\ \/ /\ ~Exists(req[r].for.quote)
        /\ payments' = Append(payments, req[r].for) /\ Goes(r, "drive")
     \/ Ends(r) /\ UNCHANGED payments
  /\ UNCHANGED <<kycStatus, records, owner, driven, rerun>>

\* The transaction: consume the quote and insert the payment under its unique
\* key, or neither.
Create(r) ==
  /\ At(r, "create")
  /\ \/ /\ ~Exists(req[r].for.quote)
        /\ quote' = [quote EXCEPT ![req[r].for.quote].consumed = TRUE]
        /\ payments' = Append(payments, req[r].for)
        /\ Goes(r, "drive")
     \/ Ends(r) /\ UNCHANGED <<quote, payments>>
  /\ UNCHANGED <<kycStatus, records, owner, driven, rerun>>

\* orchestrator.drive succeeds, or the broker cannot be reached.
DriveCreated(r) ==
  /\ At(r, "drive")
  /\ driven' = [driven EXCEPT ![req[r].for.quote] = @ + 1] \/ UNCHANGED driven
  /\ Ends(r)
  /\ UNCHANGED <<kycStatus, records, owner, quote, payments, rerun>>

\* A database call of the request fails or its process dies.
RequestDies(r) == ~At(r, "free") /\ Ends(r) /\ UNCHANGED <<data, rerun>>

Next ==
  \/ \E i \in Importers :
       CreateImporter(i) \/ \E s \in Suppliers : CreateSupplier(s, i)
  \/ \E q \in Quotes : CreateQuote(q) \/ Expire(q)
  \/ \E r \in Requests :
       \/ \E for \in PaymentRow : BeginCreate(r, for) \/ BeginKyc(r, for)
       \/ EnsureVerified(r) \/ StartKyc(r) \/ Verify(r) \/ RecordKyc(r)
       \/ UpdateKycStatus(r) \/ ReadQuote(r) \/ FindExisting(r) \/ Create(r) \/ DriveCreated(r)
       \/ RequestDies(r)

Spec == Init /\ [][Next]_vars

(***************************************************************************)
(* Properties                                                              *)
(***************************************************************************)
GateTypeOK ==
  /\ kycStatus \in [Importers -> {"none", "unverified", "pending"} \union Verdicts]
  /\ records \in [Importers -> Seq(Verdicts)]
  /\ owner \in [Suppliers -> SUBSET Importers]
  /\ quote \in [Quotes -> QuoteRow]
  /\ payments \in Seq(PaymentRow)
  /\ driven \in [Quotes -> Nat]
  /\ req \in [Requests -> RequestState]
  /\ rerun \in [Importers -> BOOLEAN]

\* However requests for the same quote interleave, it pays for one payment, which
\* is handed to the orchestrator at most once and only when it is in the table:
\* the unique idempotency key stops what the two look-ups before it let through.
OnePaymentPerQuote ==
  /\ \A m, n \in 1..Len(payments) : payments[m].quote = payments[n].quote => m = n
  /\ \A q \in Quotes : driven[q] <= IF Exists(q) THEN 1 ELSE 0

\* A quote is spent exactly when there is a payment for it: a refused, failed or
\* killed request never costs the importer the quote.
ConsumedMeansPaid == \A q \in Quotes : quote[q].consumed <=> Exists(q)

HasPassed(i) == \E n \in 1..Len(records[i]) : records[i][n] = "verified"

\* Every payment is of an importer with a KycRecord that says verified and goes to
\* a supplier of that importer (payments.service.ts: "KYC gate before the first
\* money movement"), whatever runs of KYC come between check and insert.
PaymentsPassedTheGate ==
  \A n \in 1..Len(payments) :
    /\ HasPassed(payments[n].importer)
    /\ owner[payments[n].supplier] = {payments[n].importer}

\* The status of an importer that says a verdict says the latest one on record,
\* unless two KYC runs of the importer overlapped.
StatusIsLatestVerdict ==
  \A i \in Importers :
    (kycStatus[i] \in Verdicts /\ ~rerun[i]
       /\ \A r \in Requests : ~(InKyc(r) /\ Importer(r) = i))
      => records[i] # << >> /\ kycStatus[i] = records[i][Len(records[i])]

=============================================================================
