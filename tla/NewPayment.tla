------------------------------ MODULE NewPayment ------------------------------
(***************************************************************************)
(* app/payments/new/page.tsx: the form that makes a payment, over the demo *)
(* client or the HTTP client.  Choices, lists, the debounced quote and the *)
(* two sections that add an importer or a supplier all ask on their own,   *)
(* and put what is answered into the same form.                            *)
(***************************************************************************)
EXTENDS DemoClient, FiniteSets, SequencesExt

CONSTANTS
  FormImporters, FormSuppliers,
  NoId,         \* the empty string
  SeedRows,     \* the importers and suppliers there may be at the start
  Amounts,      \* amounts that are typed, 0 for an empty or negative one
  MaxMade,      \* payments made
  MaxDropped    \* requests that fail over HTTP

ASSUME NewPaymentAssumption ==
  /\ NoId \notin FormImporters \union FormSuppliers
  /\ SeedRows \subseteq [importers : Seq(FormImporters),
                         suppliers : [FormImporters -> Seq(FormSuppliers)]]
  /\ Amounts \subseteq Nat /\ Amounts # {0} /\ Amounts # {}
  /\ MaxMade \in Nat /\ MaxDropped \in Nat

VARIABLES
  rows,    \* the importers, and the suppliers of each, oldest first
  draft,   \* the form
  asked,   \* its requests, in the order they were made
  tally,   \* payments made, payments whose page was opened, requests that failed
  intent   \* history: the supplier the user saved last, and whether the importer
           \* changed while one was being saved

createVars == <<rows, draft, asked, tally, intent>>

EmptyDraft(amount) ==
  [importers |-> <<>>, suppliers |-> <<>>, importer |-> NoId, supplier |-> NoId,
   amount |-> amount, timer |-> amount, quote |-> 0, busy |-> FALSE]

\* A request: its kind, its argument, what the code after the await has closed over,
\* and its answer.
Asking(kind, arg, closure) ==
  [kind |-> kind, arg |-> arg, closure |-> closure, served |-> FALSE, list |-> <<>>]

\* listImporters and listSuppliers of the demo client, the oldest first.
DemoListed(r) ==
  IF r.kind = "listImporters" THEN rows.importers ELSE rows.suppliers[r.arg]

\* Those of the API, the newest first.
ApiListed(r) == Reverse(DemoListed(r))

\* Faulty variant of the next: the demo client lists as the API does.
ListedNewestFirst(r) == ApiListed(r)

Listed(r) == IF http THEN ApiListed(r) ELSE DemoListed(r)

\* What is typed into the form when it opens.
FirstAmount == CHOOSE a \in Amounts : a > 0

\* A call is served: what it answers, and the rows and payments after it.
ServedCall(r) ==
  [r EXCEPT !.served = TRUE,
            !.list = IF r.kind \in {"listImporters", "listSuppliers"} THEN Listed(r) ELSE <<>>]

ImporterCreated(r) == [rows EXCEPT !.importers = Append(@, r.arg)]

SupplierCreated(r) == [rows EXCEPT !.suppliers[r.closure] = Append(@, r.arg)]

ServedRows(r) ==
  CASE r.kind = "createImporter" -> ImporterCreated(r)
    [] r.kind = "createSupplier" -> SupplierCreated(r)
    [] OTHER -> rows

ServedTally(r) ==
  IF r.kind = "createPayment" THEN [tally EXCEPT !.made = @ + 1] ELSE tally

\* A new form asks for the importers.
FirstAsked ==
  LET r == Asking("listImporters", NoId, NoId) IN <<IF http THEN r ELSE ServedCall(r)>>

\* The form makes the requests rs, after before.
AskFor(rs, before) ==
  /\ Len(before) + Len(rs) <= scene.ahead
  /\ IF http \/ rs = <<>>
     THEN asked' = before \o rs /\ UNCHANGED <<rows, tally>>
     ELSE /\ asked' = before \o <<ServedCall(rs[1])>>
          /\ rows' = ServedRows(rs[1])
          /\ tally' = ServedTally(rs[1])

\* An importer, or a supplier, is being saved, or the list after it is awaited.
ImporterSaving ==
  \E i \in DOMAIN asked :
    \/ asked[i].kind = "createImporter"
    \/ asked[i].kind = "listImporters" /\ asked[i].closure # NoId

SupplierSaving ==
  \E i \in DOMAIN asked :
    \/ asked[i].kind = "createSupplier"
    \/ asked[i].kind = "listSuppliers" /\ asked[i].closure = "saved"

\* The effect of a change of the importer: its suppliers are listed.
SuppliersOf(importer) ==
  IF importer \in {draft.importer, NoId} THEN <<>>
  ELSE <<Asking("listSuppliers", importer, "chosen")>>

Chose(importer) ==
  intent' = IF importer = draft.importer THEN intent
            ELSE [saved |-> NoId, crossed |-> SupplierSaving]

\* The selects of the two sections.
SelectImporter(i) ==
  /\ i \in ToSet(draft.importers) /\ i # draft.importer
  /\ draft' = [draft EXCEPT !.importer = i]
  /\ AskFor(SuppliersOf(i), asked)
  /\ Chose(i)

SelectPayee(s) ==
  /\ s \in ToSet(draft.suppliers) /\ s # draft.supplier
  /\ draft' = [draft EXCEPT !.supplier = s]
  /\ intent' = [intent EXCEPT !.saved = NoId]
  /\ UNCHANGED <<rows, asked, tally>>

\* The amount is typed: the timer of the quote starts again, and not for nothing.
TypeAmount(a) ==
  /\ a # draft.amount
  /\ draft' = [draft EXCEPT !.amount = a, !.timer = a]
  /\ UNCHANGED <<rows, asked, tally, intent>>

QuoteTimer ==
  /\ draft.timer > 0
  /\ draft' = [draft EXCEPT !.timer = 0]
  /\ AskFor(<<Asking("createQuote", draft.timer, NoId)>>, asked)
  /\ UNCHANGED intent

\* create of the ImporterSection and of the SupplierSection.
SaveImporter(i) ==
  /\ i \in FormImporters \ ToSet(rows.importers)
  /\ ~ImporterSaving
  /\ AskFor(<<Asking("createImporter", i, draft.importer)>>, asked)
  /\ UNCHANGED <<draft, intent>>

SaveSupplier(s) ==
  /\ s \in FormSuppliers \ UNION {ToSet(rows.suppliers[i]) : i \in FormImporters}
  /\ draft.importer # NoId /\ ~SupplierSaving
  /\ AskFor(<<Asking("createSupplier", s, draft.importer)>>, asked)
  /\ intent' = [intent EXCEPT !.saved = s]
  /\ UNCHANGED draft

\* The form can be sent: a choice of both, and a quote.
Complete == draft.importer # NoId /\ draft.supplier # NoId /\ draft.quote > 0

\* Faulty variant of the next: the button is not switched off.
SubmitAgain ==
  /\ Complete /\ tally.made < MaxMade
  /\ draft' = [draft EXCEPT !.busy = TRUE]
  /\ AskFor(<<Asking("createPayment", draft.quote, draft.importer)>>, asked)
  /\ UNCHANGED intent

Submit ==
  /\ Complete /\ ~draft.busy /\ tally.made < MaxMade
  /\ draft' = [draft EXCEPT !.busy = TRUE]
  /\ AskFor(<<Asking("createPayment", draft.quote, draft.importer)>>, asked)
  /\ UNCHANGED intent

\* What an answer does, by the call it answers; r is the request, rest the others.
\* refreshImporters: a first importer is chosen if there was none when it was called,
\* and one that was just saved in any case.
ImportersAnswered(r, rest) ==
  LET first == IF r.arg = NoId /\ r.list # <<>> THEN r.list[1] ELSE draft.importer
      i == IF r.closure = NoId THEN first ELSE r.closure
  IN /\ draft' = [draft EXCEPT !.importers = r.list, !.importer = i]
     /\ AskFor(SuppliersOf(i), rest)
     /\ Chose(i)

\* The list for a chosen importer replaces the choice by its first supplier; the list
\* after a save, by its last.
SuppliersAnswered(r, rest) ==
  /\ draft' = [draft EXCEPT !.suppliers = r.list, !.supplier =
                 IF r.closure = "chosen" THEN IF r.list = <<>> THEN NoId ELSE r.list[1]
                 ELSE IF r.list = <<>> THEN @ ELSE Last(r.list)]
  /\ AskFor(<<>>, rest)
  /\ UNCHANGED intent

\* A quote is known by the amount it is for.
QuoteFor(r) == r.arg

\* The other answers: a quote is kept; a saved importer or supplier is looked for in
\* the list of the importer that was chosen at the click; and a payment's page is
\* opened, after which the form is a new one.
OtherAnswered(r, rest) ==
  \/ /\ r.kind = "createQuote"
     /\ draft' = [draft EXCEPT !.quote = QuoteFor(r)]
     /\ AskFor(<<>>, rest) /\ UNCHANGED intent
  \/ /\ r.kind = "createImporter"
     /\ AskFor(<<Asking("listImporters", r.closure, r.arg)>>, rest)
     /\ UNCHANGED <<draft, intent>>
  \/ /\ r.kind = "createSupplier"
     /\ AskFor(<<Asking("listSuppliers", r.closure, "saved")>>, rest)
     /\ UNCHANGED <<draft, intent>>
  \/ /\ r.kind = "createPayment"
     /\ draft' = EmptyDraft(FirstAmount)
     /\ asked' = FirstAsked
     /\ tally' = [tally EXCEPT !.opened = @ + 1]
     /\ intent' = [saved |-> NoId, crossed |-> FALSE]
     /\ UNCHANGED rows

\* An answer arrives: in the demo, of the oldest request.
FormAnswer(i) ==
  /\ i \in DOMAIN asked /\ asked[i].served /\ (~http => i = 1)
  /\ LET r == asked[i]
         rest == RemoveAt(asked, i)
     IN CASE r.kind = "listImporters" -> ImportersAnswered(r, rest)
          [] r.kind = "listSuppliers" -> SuppliersAnswered(r, rest)
          [] OTHER -> OtherAnswered(r, rest)

\* The API serves a request.
FormServe(i) ==
  /\ http /\ i \in DOMAIN asked /\ ~asked[i].served
  /\ asked' = [asked EXCEPT ![i] = ServedCall(@)]
  /\ rows' = ServedRows(asked[i])
  /\ tally' = ServedTally(asked[i])
  /\ UNCHANGED <<draft, intent>>

\* A request fails over HTTP, before or after it was served; the button of a failed
\* submission is back.
FormLose(i) ==
  /\ http /\ i \in DOMAIN asked /\ tally.failed < MaxDropped
  /\ asked' = RemoveAt(asked, i)
  /\ draft' = [draft EXCEPT !.busy = @ /\ asked[i].kind # "createPayment"]
  /\ tally' = [tally EXCEPT !.failed = @ + 1]
  /\ UNCHANGED <<rows, intent>>

CreateInit ==
  /\ rows \in SeedRows
  /\ draft = EmptyDraft(FirstAmount)
  /\ asked = FirstAsked
  /\ tally = [made |-> 0, opened |-> 0, failed |-> 0]
  /\ intent = [saved |-> NoId, crossed |-> FALSE]

CreateNext ==
  \/ \E i \in FormImporters : SelectImporter(i) \/ SaveImporter(i)
  \/ \E s \in FormSuppliers : SelectPayee(s) \/ SaveSupplier(s)
  \/ \E a \in Amounts : TypeAmount(a)
  \/ QuoteTimer \/ Submit
  \/ \E i \in 1 .. scene.ahead : FormAnswer(i) \/ FormServe(i) \/ FormLose(i)

(***************************************************************************)
(* Properties                                                              *)
(***************************************************************************)
CreateTypeOK ==
  /\ rows \in [importers : Seq(FormImporters), suppliers : [FormImporters -> Seq(FormSuppliers)]]
  /\ draft.importers \in Seq(FormImporters) /\ draft.suppliers \in Seq(FormSuppliers)
  /\ draft.importer \in FormImporters \union {NoId}
  /\ draft.supplier \in FormSuppliers \union {NoId}
  /\ {draft.amount, draft.timer, draft.quote} \subseteq Amounts \union {0}
  /\ draft.busy \in BOOLEAN
  /\ Len(asked) <= scene.ahead
  /\ tally \in [made : 0 .. MaxMade, opened : 0 .. MaxMade, failed : 0 .. MaxDropped]
  /\ intent \in [saved : FormSuppliers \union {NoId}, crossed : BOOLEAN]

\* The suppliers of the importer that the form has chosen.
Theirs == IF draft.importer = NoId THEN <<>> ELSE rows.suppliers[draft.importer]

\* When the form of the demo has come to rest, its parts fit together, in whatever
\* order choices, lists, saves and quotes went: the supplier is one of the importer,
\* and the one saved last if nothing was chosen since; there is none only if the
\* importer has none; and the quote is for the amount, if there is an amount.  This
\* leaves out that the importer changes while a supplier is being saved.
RestingFormFits ==
  ~http /\ asked = <<>> /\ draft.timer = 0 /\ ~intent.crossed =>
    /\ IF Theirs = <<>> THEN draft.supplier = NoId ELSE draft.supplier \in ToSet(Theirs)
    /\ intent.saved # NoId => draft.supplier = intent.saved
    /\ draft.amount > 0 => draft.quote = draft.amount

\* A click pays once: a payment whose page was never opened is still on its way, or
\* its answer was lost.
ClickPaysOnce ==
  tally.made <= tally.opened + tally.failed
                + Cardinality({i \in DOMAIN asked :
                                 asked[i].kind = "createPayment" /\ asked[i].served})

=============================================================================
