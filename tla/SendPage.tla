------------------------------ MODULE SendPage ------------------------------
(***************************************************************************)
(* apps/web/app/importer/send/page.tsx in the demo without a backend: the  *)
(* form in which an importer picks a supplier and sends a payment, next to *)
(* the sidebar that changes the acting importer, over the profiles of      *)
(* Screening.  What a payment amounts to, and its life afterwards, are not *)
(* part of this module; a quote is always there.                           *)
(***************************************************************************)
EXTENDS Screening

CONSTANTS
  Owner,   \* the importer a seeded supplier belongs to
  Nobody,  \* no importer, no supplier
  MaxPayments

ASSUME SendPageAssumption ==
  /\ MaxPayments \in Nat
  /\ Nobody \notin Subjects /\ Owner \in [Suppliers -> Importers \union {Nobody}]
  /\ \A L \in Listings, s \in Suppliers : s \in L <=> Owner[s] # Nobody

VARIABLES
  owner,       \* importerId of a supplier, Nobody while it does not exist
  acting,      \* per tab: the importer of the sidebar
  form,        \* per tab: supplierId, and the new supplier it is saving
  payments     \* the payments made here

sendVars == <<screening, owner, acting, form, payments>>

Form == [supplier : Suppliers \union {Nobody}, saving : Suppliers \union {Nobody}]

EmptyForm == [supplier |-> Nobody, saving |-> Nobody]

SendPageInit ==
  /\ ScreeningInit
  /\ owner = Owner
  /\ acting \in [SendPages -> Importers \intersect subjects]
  /\ form = [pg \in SendPages |-> EmptyForm]
  /\ payments = {}

MySuppliers(importer) == {s \in subjects \intersect Suppliers : owner[s] = importer}

\* What the tab's effects do when the acting importer or the chosen supplier has
\* changed: an empty choice is filled, and both profiles are read.
Chosen(pg, importer, supplier) ==
  \E s \in Suppliers \union {Nobody} :
    /\ IF supplier = Nobody /\ MySuppliers(importer) # {}
       THEN s \in MySuppliers(importer) ELSE s = supplier
    /\ Render(pg, store, {importer} \union ({s} \intersect MySuppliers(importer)))
    /\ form' = [form EXCEPT ![pg].supplier = s]

\* The page is opened, its timers read the profiles again, or the sidebar changes
\* the importer on it.  The supplier chosen before is kept.
SetImporterId(pg, importer) ==
  /\ importer \in subjects
  /\ acting' = [acting EXCEPT ![pg] = importer]
  /\ Chosen(pg, importer, form[pg].supplier)
  /\ UNCHANGED <<ripe, subjects, decision, approved, owner, payments>>

SelectSupplier(pg, s) ==
  /\ s \in MySuppliers(acting[pg])
  /\ Chosen(pg, acting[pg], s)
  /\ UNCHANGED <<ripe, subjects, decision, approved, owner, acting, payments>>

\* Faulty variant of the next: the form's importer is not passed on.
AddSupplierUnowned(pg, s) ==
  /\ form[pg].saving = Nobody /\ s \notin subjects
  /\ subjects' = subjects \union {s}
  /\ form' = [form EXCEPT ![pg].saving = s]
  /\ UNCHANGED <<store, ripe, shown, decision, approved, owner, acting, payments>>

\* AddSupplier: the new supplier belongs to the importer acting at the click.
AddSupplier(pg, s) ==
  /\ form[pg].saving = Nobody /\ s \notin subjects
  /\ subjects' = subjects \union {s}
  /\ owner' = [owner EXCEPT ![s] = acting[pg]]
  /\ form' = [form EXCEPT ![pg].saving = s]
  /\ UNCHANGED <<store, ripe, shown, decision, approved, acting, payments>>

\* onCreated, after the lists have been read again.
SupplierAdded(pg) ==
  LET s == form[pg].saving IN
    /\ s # Nobody
    /\ form' = [form EXCEPT ![pg].supplier = s, ![pg].saving = Nobody]
    /\ Render(pg, store, {acting[pg]} \union ({s} \intersect MySuppliers(acting[pg])))
    /\ UNCHANGED <<ripe, subjects, decision, approved, owner, acting, payments>>

ImporterVerified(pg) == shown[pg][acting[pg]] = "verified"

\* Faulty variant of the next: only a rejected supplier is held back.
SupplierNotRejected(pg) ==
  form[pg].supplier \in MySuppliers(acting[pg]) => shown[pg][form[pg].supplier] # "rejected"

SupplierCleared(pg) ==
  form[pg].supplier \in MySuppliers(acting[pg]) => shown[pg][form[pg].supplier] = "verified"

\* The button of the form; a quote is there and nothing is on its way.
CanSend(pg) ==
  form[pg].supplier # Nobody /\ ImporterVerified(pg) /\ SupplierCleared(pg)

\* send, and createPayment of the demo client, which checks nothing.  The tab then
\* goes to the page of the payment.
Send(pg) ==
  /\ CanSend(pg)
  /\ Cardinality(payments) < MaxPayments
  /\ payments' = payments \union {[importer |-> acting[pg], supplier |-> form[pg].supplier]}
  /\ form' = [form EXCEPT ![pg] = EmptyForm]
  /\ UNCHANGED <<screening, owner, acting>>

\* The tab goes to another page.
Leave(pg) ==
  /\ form[pg] # EmptyForm
  /\ form' = [form EXCEPT ![pg] = EmptyForm]
  /\ UNCHANGED <<screening, owner, acting, payments>>

SendPageNext ==
  \/ ScreeningNext /\ UNCHANGED <<owner, acting, form, payments>>
  \/ \E pg \in SendPages :
       \/ \E i \in Importers : SetImporterId(pg, i)
       \/ \E s \in Suppliers : SelectSupplier(pg, s) \/ AddSupplier(pg, s)
       \/ SupplierAdded(pg) \/ Send(pg) \/ Leave(pg)

(***************************************************************************)
(* Properties                                                              *)
(***************************************************************************)
SendPageTypeOK ==
  /\ ScreeningTypeOK
  /\ owner \in [Suppliers -> Importers \union {Nobody}]
  /\ acting \in [SendPages -> Importers]
  /\ form \in [SendPages -> Form]
  /\ payments \subseteq [importer : Importers, supplier : Suppliers]
  /\ \A s \in Suppliers : s \in subjects <=> owner[s] # Nobody

Screened(s) == Resolve(s) = "verified" \/ s \in approved

\* A payment to a supplier of the importer is between two names that are clean or
\* that the review has approved: neither tabs that show an old status, nor a
\* supplier added while the importer changes, get round the two gates.
OwnPaymentsAreScreened ==
  \A p \in payments :
    owner[p.supplier] = p.importer => Screened(p.importer) /\ Screened(p.supplier)

\* send/page.tsx: "the importer must be verified and the chosen beneficiary
\* cleared", for every payment that is sent.
ChosenBeneficiaryIsCleared ==
  \A p \in payments : Screened(p.importer) /\ Screened(p.supplier)

=============================================================================
